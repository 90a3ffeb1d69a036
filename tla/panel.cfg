CONSTANTS
    l1 = l1
    l2 = l2
    k1 = k1
    anaChat = anaChat
    biaChat = biaChat
    savedChat = savedChat
    classGroup = classGroup
    anaPhone = anaPhone
    biaPhone = biaPhone
    None = None
    u1 = u1
    u2 = u2
    Users = {u1}
    Callers = {l1, l2, k1}
    Lookups = {l1, l2}
    Clicks = {k1}
    Chats = {anaChat, savedChat, classGroup}
    PhoneOf <- MCPhoneOf
    Groups = {classGroup}
    Phones = {anaPhone}
    MaxDeals = 1
    MaxEvents = 2
SPECIFICATION FairSpec
CHECK_DEADLOCK FALSE
INVARIANTS
    TypeOK
    ShownIsCurrent
PROPERTIES
    PanelSettles
    CreateNotStuck
    AsksToLogIn
