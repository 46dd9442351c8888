---------------------------- MODULE MCAcquisition ----------------------------
(* TLC instances of Acquisition: analog rows before, between and behind two    *)
(* counters, three output rows for an array of two, every set of unknown       *)
(* modules, and an acquired line of eleven registers, three of them unmapped,  *)
(* whose last one the simulated line does not reach.                           *)
EXTENDS Acquisition

MCAnalog == {1, 4, 8}
MCCounter == {2, 5}
MCOutput == {3, 6, 7}
MCChannel == <<0, 1, 0, 4, 5, 0, 0, 10>>

\* MCAcquisitionReply.cfg: two analog rows only.
MCTwo == {1, 2}
MCTwoChannel == <<0, 1>>

===============================================================================
