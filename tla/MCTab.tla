-------------------------------- MODULE MCTab --------------------------------
(* The browser tab, bounded for TLC by the constants of its configuration.  *)
EXTENDS Tab
=============================================================================
