------------------------------ MODULE RunFeed ------------------------------
(***************************************************************************)
(* What those who follow runs from outside may rely on: a change of a run  *)
(* is never forgotten, and afterwards gets its row in the audit trail, or  *)
(* is abandoned by a request that was cut short.  RunLifecycle implements  *)
(* this specification; the server of RunInspector is this specification.   *)
(***************************************************************************)
CONSTANT Change   \* a change together with the run it is made to

VARIABLES changes, rows, abandoned

vars == <<changes, rows, abandoned>>

Init == changes = {} /\ rows = {} /\ abandoned = {}

Make(c) ==
  /\ c \notin changes \cup abandoned
  /\ changes' = changes \cup {c}
  /\ UNCHANGED <<rows, abandoned>>

Record(c) ==
  /\ c \in changes \ (rows \cup abandoned)
  /\ rows' = rows \cup {c}
  /\ UNCHANGED <<changes, abandoned>>

(* Some of the requests that run are cut short, before they have changed   *)
(* anything or after.                                                      *)
Abandon(C) ==
  /\ abandoned' = abandoned \cup C
  /\ UNCHANGED <<changes, rows>>

Next ==
  \/ \E c \in Change : Make(c) \/ Record(c)
  \/ \E C \in SUBSET Change : Abandon(C)

Spec == Init /\ [][Next]_vars
=============================================================================
