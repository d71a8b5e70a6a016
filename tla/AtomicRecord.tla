----------------------------- MODULE AtomicRecord -----------------------------
(***************************************************************************)
(* What the state file promises to the rest of OCIHood, and what modules   *)
(* Provisioning and CapacityWatcher take for granted: an update replaces   *)
(* the record at once, each update builds on the one before, and an update *)
(* whose Save has returned is never lost.                                  *)
(***************************************************************************)
EXTENDS Naturals

VARIABLES record,   \* the record, as the number of updates it is made of
          safe      \* the updates whose Save has returned

vars == <<record, safe>>

Init == record = 0 /\ safe = 0

Update == record' = record + 1 /\ UNCHANGED safe

Acknowledge == safe' = record /\ UNCHANGED record

\* The machine loses its power: updates still being saved may be lost.
Lose == record' \in safe .. record /\ UNCHANGED safe

Next == Update \/ Acknowledge \/ Lose

Spec == Init /\ [][Next]_vars
=============================================================================
