------------------------------- MODULE MCBridge -------------------------------
(* TLC instances of Bridge: two clients whose commands overlap in every way.  *)
EXTENDS Bridge

===============================================================================
