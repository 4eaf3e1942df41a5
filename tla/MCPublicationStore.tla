------------------------- MODULE MCPublicationStore -------------------------
(***************************************************************************)
(* PublicationStore for TLC, with one history variable: whether the store  *)
(* has held the publication (as a partial or complete) in every state      *)
(* since the Catalog scan in progress began.                               *)
(***************************************************************************)
EXTENDS PublicationStore

VARIABLE held

Held == HasPartial \/ Complete

MCInit == Init /\ held = FALSE

MCNext == /\ Next
          /\ held' = (Held' /\ (IF cli = "off" THEN Held ELSE held))

MCSpec == MCInit /\ [][MCNext]_<<vars, held>>

(***************************************************************************)
(* A scan that runs while the node moves the publication from partial to   *)
(* complete does not miss it: Catalog looks at partial before complete and *)
(* Commit writes the marker before it removes the partial.                 *)
(***************************************************************************)
ListedIfHeld == cli = "listed" /\ held => cliState # "none"

=============================================================================
