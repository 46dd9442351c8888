------------------------------ MODULE ModeSwitch ------------------------------
(***************************************************************************)
(* What the bridge promises to the Modbus side: at any moment the input    *)
(* registers have one source, the simulation or the acquisition, or none;  *)
(* only that source publishes; and the source changes through "none".      *)
(* The promise is to operators whose commands do not interfere: it may be  *)
(* lost, and nothing brings it back.                                       *)
(***************************************************************************)

CONSTANT Sources          (* the two timers of the bridge *)

VARIABLES source,         (* the source that may publish, or "none" *)
          published,      (* the source of the registers' last values *)
          lost            (* the promise is not given any more *)

vars == <<source, published, lost>>

ModeInit ==
    /\ source = "none"
    /\ published = "none"
    /\ ~lost

Engage(t) ==
    /\ source = "none"
    /\ source' = t
    /\ UNCHANGED published

Disengage ==
    /\ source # "none"
    /\ source' = "none"
    /\ UNCHANGED published

Publish ==
    /\ source # "none"
    /\ published' = source
    /\ UNCHANGED source

\* The promise holds in this step, and held before it.
Keep == ~lost /\ ~lost' /\ ((\E t \in Sources : Engage(t)) \/ Disengage \/ Publish)

\* With the promise lost, source and published may be anything.
Lose == lost'

ModeNext == Keep \/ Lose

ModeSpec == ModeInit /\ [][ModeNext]_vars

===============================================================================
