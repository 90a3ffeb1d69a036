------------------------------ MODULE MCPanel --------------------------------
(***************************************************************************)
(* Small instances of ExtPanel for TLC: two chats with a phone in the page,*)
(* one without, and a group.                                               *)
(***************************************************************************)
EXTENDS ExtPanel, TLC

CONSTANTS l1, l2, k1, u1, u2, anaChat, biaChat, savedChat, classGroup, anaPhone, biaPhone

MCPhoneOf ==
    [c \in Chats |-> IF c = anaChat THEN anaPhone ELSE IF c = biaChat THEN biaPhone ELSE None]
=============================================================================
