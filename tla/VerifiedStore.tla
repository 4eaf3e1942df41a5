---------------------------- MODULE VerifiedStore ----------------------------
(***************************************************************************)
(* What a data directory promises for one publication: chunks become       *)
(* durable one at a time and some may be lost again while the publication  *)
(* is open; it becomes complete in one step, only from a state in which    *)
(* every chunk is durable and correct, and from then on it stays complete. *)
(***************************************************************************)
CONSTANT Chunks

VARIABLES have,       \* chunks durable with the bytes the hash describes
          complete

vars == <<have, complete>>

Init == have = {} /\ complete = FALSE

Receive == /\ ~complete
           /\ \E c \in Chunks \ have : have' = have \cup {c}
           /\ UNCHANGED complete

Lose == /\ ~complete
        /\ \E lost \in SUBSET have : have' = have \ lost
        /\ UNCHANGED complete

Finish == /\ have = Chunks
          /\ complete' = TRUE
          /\ UNCHANGED have

Next == Receive \/ Lose \/ Finish

Spec == Init /\ [][Next]_vars

=============================================================================
