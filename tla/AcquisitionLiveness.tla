------------------------- MODULE AcquisitionLiveness -------------------------
(***************************************************************************)
(* Acquisition with a radio that heals: it loses at most MaxLosses more    *)
(* messages, and an exchange times out only when no answer to it can       *)
(* arrive any more.  Under this and the fairness of the node's loop, what  *)
(* a peer in range holds is acquired.                                      *)
(***************************************************************************)
EXTENDS Acquisition

CONSTANT MaxLosses

VARIABLE losses

liveVars == <<vars, losses>>

InTime(m) == \/ \E i \in Outstanding : Answers(m, i)
             \/ recon # None /\ recon = [peer |-> m.peer, tx |-> m.tx]

ServeFully(m) == Serve(m, IF m.kind = "GetChunks" THEN m.chunks ELSE {}, {})

Hear(m) == \/ AcceptLeaf(m)
           \/ \E i \in IDs : \/ AcceptManifest(i, m) \/ RejectSignature(i, m)
                             \/ AcceptSignature(i, m) \/ AcceptChunk(i, m)

\* an answer to the outstanding exchange is in the air or a peer can still give it
Answerable ==
  \E m \in air : /\ InTime(m)
                /\ m.kind \in RequestKinds =>
                     /\ m.peer \in onAir
                     /\ m.kind # "SummaryRequest" => Held[m.peer][m.id] # None

TimesOut == /\ ~Answerable
            /\ ReconcileTimeout \/ \E i \in IDs : Timeout(i)

Lose(m) == /\ losses < MaxLosses /\ losses' = losses + 1
           /\ air' = air \ {m}
           /\ UNCHANGED <<disk, runtime, outside>>

LiveInit == Init /\ losses = 0

LiveNext ==
  \/ /\ \/ Start \/ Stop \/ TimesOut
        \/ \E i \in IDs : Initiate(i) \/ Want(i)
        \/ \E p \in Peers : InitiateReconcile(p) \/ Depart(p)
        \/ \E m \in air : ServeFully(m) \/ Hear(m)
     /\ UNCHANGED losses
  \/ \E m \in air : Lose(m)

(***************************************************************************)
(* Fairness: the service manager restarts the process (Restart=on-failure  *)
(* and a stop by hand is followed by a start); a peer in range answers and *)
(* the node hears it; deadlines expire; and whenever the node is idle the  *)
(* loop rotates over acquisitions and alternates with reconciliation, so   *)
(* each of them gets its turn although the others disable it meanwhile.    *)
(***************************************************************************)
LoopFairness ==
  /\ \A i \in IDs : SF_liveVars(Initiate(i) /\ UNCHANGED losses)
  /\ \A p \in Peers : SF_liveVars(InitiateReconcile(p) /\ UNCHANGED losses)

Fairness ==
  /\ WF_liveVars(Start /\ UNCHANGED losses)
  /\ WF_liveVars(TimesOut /\ UNCHANGED losses)
  /\ WF_liveVars((\E m \in air : InTime(m) /\ ServeFully(m)) /\ UNCHANGED losses)
  /\ WF_liveVars((\E m \in air : Hear(m)) /\ UNCHANGED losses)
  /\ LoopFairness

LiveSpec == LiveInit /\ [][LiveNext]_liveVars /\ Fairness

Available(i, p) == p \in onAir /\ Held[p][i] # None

Admissible(i) == \A p \in Peers : Held[p][i] # None =>
                   Accept(policy, Held[p][i], i \in Big, FALSE, FALSE)

(***************************************************************************)
(* A publication that a peer in range holds, and that the policy admits    *)
(* under every manifest there is, is eventually acquired -- whatever other *)
(* sources went silent, and whatever was lost.                             *)
(***************************************************************************)
EventuallyAcquired ==
  \A i \in IDs, p \in Peers :
    []<>(Available(i, p) /\ Admissible(i)) => <>(complete[i] # None)

(***************************************************************************)
(* Except, if the node may stop, when it stopped after the last chunk file *)
(* and before the commit: a partial that lacks nothing stays as it is.     *)
(***************************************************************************)
LacksSome(i) == partial[i] = None \/ ~AllReceived(chunkFile[i])

EventuallyAcquiredIfLacking ==
  \A i \in IDs, p \in Peers :
    []<>(Available(i, p) /\ Admissible(i) /\ LacksSome(i)) => <>(complete[i] # None)

(***************************************************************************)
(* want survives restart and is honoured once a source is available,       *)
(* although policy deferred the publication before (operations.md) -- with *)
(* two exceptions the documents do not make: a partial that lacks nothing, *)
(* as above, and one that policy deferred when the node started, which     *)
(* Begin lets no source continue but one with the same manifest.           *)
(***************************************************************************)
Continues(i, p) == \/ partial[i] \in {None, Held[p][i]}
                   \/ i \in Active /\ acq[i].assembly = partial[i]

WantHonoured ==
  \A i \in IDs, p \in Peers :
    []<>(want[i] /\ Available(i, p) /\ LacksSome(i) /\ Continues(i, p))
      => <>(complete[i] # None)

=============================================================================
