------------------------------ MODULE MCSessions ------------------------------
(* TLC instances of Sessions: connections that share two descriptors, and the  *)
(* exit of the process.                                                        *)
EXTENDS Sessions

===============================================================================
