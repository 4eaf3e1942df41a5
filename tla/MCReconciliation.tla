-------------------------- MODULE MCReconciliation --------------------------
(***************************************************************************)
(* Small instances of Reconciliation for TLC.                              *)
(***************************************************************************)
EXTENDS Reconciliation

CONSTANTS p1, p2

\* two binary digits; a group of two is walked to its leaves
AllIDs == [1 .. 2 -> 0 .. 1]

\* p1 holds a deep difference and may come to hold a shallow one; p2 holds what
\* the node has and one publication p1 holds too, and competes for the one
\* tracked place
LocalIDs  == {<<1, 1>>}
RemoteIDs == [p \in Peers |-> IF p = p1 THEN {<<0, 0>>, <<0, 1>>} ELSE {<<0, 0>>, <<1, 1>>}]
NewIDs    == [p \in Peers |-> IF p = p1 THEN {<<1, 0>>} ELSE {}]

=============================================================================
