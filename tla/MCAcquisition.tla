---------------------------- MODULE MCAcquisition ----------------------------
(***************************************************************************)
(* Small instances of Acquisition for TLC.                                 *)
(***************************************************************************)
EXTENDS Acquisition

CONSTANTS i1, i2, p1, p2, trusted, other, name, alias

Unsigned(n)  == [name |-> n, sig |-> None]
Signed(k, n) == [name |-> n, sig |-> [key |-> k, over |-> n]]

\* p1 relays the file signed by a trusted key, p2 unsigned and under another file name; only p1
\* holds a second publication
SignedAndRenamed == [p \in Peers |-> [i \in IDs |->
                      IF p = p1 THEN Signed(trusted, name)
                      ELSE IF i = i1 THEN Unsigned(alias) ELSE None]]

\* the peers hold manifests with different names and signatures
TwoSigned == [p \in Peers |-> [i \in IDs |->
               IF p = p1 THEN Signed(other, name) ELSE Signed(trusted, alias)]]

Permissive == {[signature |-> "permissive", hasMaxSize |-> FALSE]}
TrustedOnly == {[signature |-> "trusted", hasMaxSize |-> FALSE]}
SizeLimit == {[signature |-> "permissive", hasMaxSize |-> TRUE]}
AnyPolicy == Permissive \cup TrustedOnly
EveryPolicy == AnyPolicy \cup SizeLimit

=============================================================================
