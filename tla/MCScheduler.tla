----------------------------- MODULE MCScheduler -----------------------------
(***************************************************************************)
(* Scheduler for TLC, with a history variable: how many turns went to      *)
(* other acquisitions since each became due.                               *)
(***************************************************************************)
EXTENDS Scheduler

VARIABLE passed

MCInit == Init /\ passed = [i \in IDs |-> 0]

Cap == Cardinality(IDs) * Cardinality(IDs)

MCNext ==
  /\ Next
  /\ passed' = [i \in IDs |->
       IF work[i] # "due" \/ work'[i] # "due" THEN 0
       ELSE IF (\E j \in IDs : AcquireTurn(j)) /\ passed[i] < Cap THEN passed[i] + 1
       ELSE passed[i]]

MCSpec == MCInit /\ [][MCNext]_<<vars, passed>> /\ Fairness

(***************************************************************************)
(* No acquisition is passed over for ever: while it is due the others get  *)
(* fewer than N (N - 1) turns, where N > 1 acquisitions fit in the table.  *)
(* It is not one round: removeOrder shortens the list but leaves the       *)
(* cursor, so a removal right after a turn skips the next in line for a    *)
(* round, as often as there are acquisitions ahead of it to remove.        *)
(***************************************************************************)
BoundedBypass ==
  \A i \in IDs : passed[i] < Cardinality(IDs) * (Cardinality(IDs) - 1)

=============================================================================
