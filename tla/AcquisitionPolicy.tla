-------------------------- MODULE AcquisitionPolicy --------------------------
(***************************************************************************)
(* Manifests, their signatures, and the admission policy of a node         *)
(* (internal/node/policy.go).  A manifest is its file name and signature:  *)
(* length and hash are fixed by the publication ID.  A signature covers    *)
(* the manifest it was made for, so it is a key and the name it is over.   *)
(***************************************************************************)
CONSTANTS Names, Keys,
          TrustedKeys,      \* the node's trust store
          None

ASSUME PolicyAssumption == TrustedKeys \subseteq Keys

Signatures == [key : Keys, over : Names] \cup {None}
Manifests  == [name : Names, sig : Signatures]

\* unsigned manifests verify; a signature verifies over its own manifest only
VerifyManifestSignature(m) == m.sig # None => m.sig.over = m.name

Policies == [signature : {"permissive", "signed", "trusted"},
             hasMaxSize : BOOLEAN]

(***************************************************************************)
(* AcquisitionPolicy.Accept.  big says that the length exceeds the size    *)
(* limit; an invalid signature is refused even when the operator wants the *)
(* publication, and a partial transfer is not held to the size limit.      *)
(***************************************************************************)
Accept(policy, m, big, partial, wanted) ==
  /\ VerifyManifestSignature(m)
  /\ \/ wanted
     \/ /\ partial \/ ~policy.hasMaxSize \/ ~big
        /\ policy.signature # "permissive" => m.sig # None
        /\ policy.signature = "trusted" => m.sig.key \in TrustedKeys

=============================================================================
