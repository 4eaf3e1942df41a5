------------------------------- MODULE Replica -------------------------------
(***************************************************************************)
(* What a node promises of its library, whatever happens on the air and    *)
(* whenever it stops: a publication enters it once, for good, under a      *)
(* manifest some peer holds, which the policy in force admits or the       *)
(* operator asked for; a transfer that has begun ends under the manifest   *)
(* it began with, and only one that has begun passes the size limit of a   *)
(* later policy.                                                           *)
(***************************************************************************)
EXTENDS AcquisitionPolicy

CONSTANTS IDs, Peers, Held, Big, PolicySettings

VARIABLES library,    \* the manifest each publication is held under, or None
          begun,      \* the manifest of a transfer that has begun, or None
          policy, want

vars == <<library, begun, policy, want>>

Init == /\ library = [i \in IDs |-> None] /\ begun = [i \in IDs |-> None]
        /\ policy \in PolicySettings /\ want = [i \in IDs |-> FALSE]

Offered(i) == {Held[p][i] : p \in Peers} \ {None}

Admits(i, m) == Accept(policy, m, i \in Big, begun[i] # None, want[i])

Begin(i) == /\ library[i] = None /\ begun[i] = None
            /\ \E m \in Offered(i) : Admits(i, m) /\ begun' = [begun EXCEPT ![i] = m]
            /\ UNCHANGED <<library, policy, want>>

Abandon(i) == /\ begun' = [begun EXCEPT ![i] = None]
              /\ UNCHANGED <<library, policy, want>>

\* what the transfer leaves behind is of the same publication
Acquire(i) == /\ library[i] = None
              /\ \E m \in Offered(i) :
                   /\ Admits(i, m) /\ begun[i] \in {None, m}
                   /\ library' = [library EXCEPT ![i] = m]
                   /\ begun' \in {[begun EXCEPT ![i] = m], [begun EXCEPT ![i] = None]}
              /\ UNCHANGED <<policy, want>>

Wish(i) == /\ want' = [want EXCEPT ![i] = TRUE]
           /\ UNCHANGED <<library, begun, policy>>

\* the node starts, perhaps under another policy; transfers it cannot read are gone
Restart == /\ policy' \in PolicySettings
           /\ \E gone \in SUBSET IDs :
                begun' = [i \in IDs |-> IF i \in gone THEN None ELSE begun[i]]
           /\ UNCHANGED <<library, want>>

Next == \/ Restart
        \/ \E i \in IDs : Begin(i) \/ Abandon(i) \/ Acquire(i) \/ Wish(i)

Spec == Init /\ [][Next]_vars

=============================================================================
