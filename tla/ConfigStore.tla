----------------------------- MODULE ConfigStore -----------------------------
(***************************************************************************)
(* What the configuration files promise to whoever edits them: a file is a *)
(* map from keys to values.  While the program starts it gives values to   *)
(* keys that have none and changes no other.  A start that is cut may lose *)
(* a file, as a whole and only if a key had no value; the files in Saved   *)
(* are saved once per start, which is allowed to empty them, and not       *)
(* touched afterwards.  The operator replaces files between two starts.    *)
(***************************************************************************)
CONSTANTS Files, Empty,
          Keys,       (* the keys of each file *)
          Saved       (* the files a start saves *)

VARIABLES store,      (* the value of every key of every file *)
          busy,       (* the program is starting *)
          due         (* the files this start has yet to save *)

Lost(f) == [k \in Keys[f] |-> Empty]

Init == ~busy /\ due = {} /\ store = [f \in Files |-> Lost(f)]

Start == ~busy /\ busy' /\ due' = Saved /\ UNCHANGED store

Fill == \E f \in due \cup (Files \ Saved) : \E k \in Keys[f] :
    /\ busy /\ busy' /\ UNCHANGED due
    /\ store[f][k] = Empty
    /\ store' = [store EXCEPT ![f][k] = store'[f][k]]

Save == \E f \in due :
    /\ busy /\ busy' \in BOOLEAN
    /\ due' = IF busy' THEN due \ {f} ELSE {}
    /\ store' \in {store, [store EXCEPT ![f] = Lost(f)]}

\* The end of a start, after its last save or before.
Cut == busy /\ ~busy' /\ due' = {} /\ UNCHANGED store

CutRewrite == \E f \in Files :
    /\ busy /\ ~busy' /\ due' = {}
    /\ \E k \in Keys[f] : store[f][k] = Empty
    /\ store' = [store EXCEPT ![f] = Lost(f)]

Replace == \E f \in Files :
    /\ ~busy /\ ~busy' /\ UNCHANGED due
    /\ store' = [store EXCEPT ![f] = store'[f]]

Next == Start \/ Fill \/ Save \/ Cut \/ CutRewrite \/ Replace

Spec == Init /\ [][Next]_<<store, busy, due>>

===============================================================================
