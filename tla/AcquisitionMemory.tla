-------------------------- MODULE AcquisitionMemory --------------------------
(***************************************************************************)
(* Acquisition with a history of what policy refused: at which sources     *)
(* this run of the node has inspected a publication and dropped it.  A     *)
(* refused publication stays missing, so every reconciliation finds it     *)
(* again, and only inspectedSources (runtime.go:596-623) keeps its         *)
(* manifest from being fetched for ever.                                   *)
(***************************************************************************)
EXTENDS Acquisition

VARIABLE refused        \* refused[i]: the sources at which i was refused

memoryVars == <<vars, refused>>

\* the acquisition is dropped without having been acquired
Refused(i) == up /\ up' /\ acq[i] # None /\ acq'[i] = None /\ complete'[i] = None

MemoryInit == Init /\ refused = [i \in IDs |-> {}]

MemoryNext ==
  /\ Next
  /\ refused' = [i \in IDs |->
       IF ~up' THEN {}
       ELSE IF Refused(i) THEN refused[i] \cup {acq[i].activeSource}
       ELSE refused[i]]

MemorySpec == MemoryInit /\ [][MemoryNext]_memoryVars

(***************************************************************************)
(* A source at which a publication was refused becomes a source of it      *)
(* again only if a partial waits for it or the operator wants it, or if as *)
(* many sources of it are remembered as there is room for: refusals are    *)
(* recorded, and whatever happens afterwards to this or to any other       *)
(* acquisition does not make the node forget them before it stops.         *)
(***************************************************************************)
Sources(a) == IF a = None THEN {} ELSE SeqRange(a.sources)

RefusalRemembered ==
  [][\A i \in IDs : \A p \in refused[i] :
       p \in Sources(acq'[i]) \ Sources(acq[i])
       => \/ want[i] \/ partial[i] # None
          \/ ~(Cardinality(inspected[i]) < MaxInspected)]_memoryVars

=============================================================================
