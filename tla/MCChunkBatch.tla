----------------------------- MODULE MCChunkBatch -----------------------------
(***************************************************************************)
(* ChunkBatch for TLC, with history variables: some chunk is watched, and  *)
(* turns counts the visits to other windows since it was last asked for.   *)
(* A visit is a number of consecutive requests for the same window.        *)
(***************************************************************************)
EXTENDS ChunkBatch

VARIABLES watched, turns

history == <<watched, turns>>

\* the window last asked: the one of the chunk before the cursor
Visited(cur) == IF cur = 0 THEN 0 ELSE WindowOf(cur - 1)

MCInit == Init /\ watched \in Chunks /\ turns = 0

MCNext ==
  /\ Next
  /\ UNCHANGED watched
  /\ turns' =
       IF watched \in received' \cup Decoded(request') THEN 0
       ELSE IF /\ turns <= Windows
               /\ Visited(cursor') \notin {Visited(cursor), WindowOf(watched)}
              THEN turns + 1
       ELSE turns

MCSpec == MCInit /\ [][MCNext]_<<vars, history>>
MCFairSpec == MCSpec /\ Fairness

(***************************************************************************)
(* The windows take turns: before a missing chunk is asked for, every      *)
(* other window is visited at most once, whatever arrives meanwhile and    *)
(* however small the batches are.  A visit lasts until the window's last   *)
(* missing chunk has been asked for, and an assembly started again keeps   *)
(* the cursor (MissingBatch and the cursor in initiate).                   *)
(***************************************************************************)
EveryWindowInTurn == turns < Windows

=============================================================================
