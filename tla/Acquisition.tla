----------------------------- MODULE Acquisition -----------------------------
(***************************************************************************)
(* How one node acquires publications from its peers                       *)
(* (internal/node/runtime.go): it learns from a peer's leaf which IDs it   *)
(* is missing, asks one source for the manifest and the same source for    *)
(* its signature, decides by policy, then asks for chunks in small batches *)
(* and commits.  The node is one loop, so a handler is one action; what    *)
(* surrounds it is not: answers are lost, late or repeated, peers go away, *)
(* timers fire at any moment, writes fail, and the process stops anywhere  *)
(* between two durable steps and reconstructs its work from disk.          *)
(*                                                                         *)
(* Time is abstract: backoff, quiet periods and deadlines expire at any    *)
(* moment.  Which due acquisition is served first is the scheduler's       *)
(* choice and is left open here.  Reconciliation is the exchange that ends *)
(* in a leaf (the walk to the leaf is not modelled here).                  *)
(***************************************************************************)
EXTENDS AcquisitionPolicy, Naturals, Sequences, FiniteSets

CONSTANTS
  IDs, Peers, Chunks,
  Held,             \* Held[p][i]: the manifest under which p holds i, or None
  Big,              \* the IDs whose length exceeds the node's size limit
  PolicySettings,   \* the policies the node may be started with
  MaxAcquisitions, MaxSources, MaxInspected, MaxBatch,
  TxCount,          \* transaction numbers before the counter wraps
  MaxLate,          \* messages of an earlier exchange still in the air
  MaxStops,         \* times the node process stops
  Faults            \* what else may go wrong: a subset of FaultKinds

FaultKinds == {"bytes", "disk", "radio", "repeat", "depart"}

ASSUME AcquisitionAssumption ==
  /\ IsFiniteSet(Chunks) /\ Chunks = 0 .. Cardinality(Chunks) - 1 /\ Chunks # {}
  /\ Held \in [Peers -> [IDs -> Manifests \cup {None}]]
  /\ \A p \in Peers, i \in IDs : Held[p][i] # None => VerifyManifestSignature(Held[p][i])
  /\ PolicySettings \subseteq Policies /\ Big \subseteq IDs
  /\ {MaxAcquisitions, MaxSources, MaxInspected, MaxBatch, TxCount} \subseteq Nat \ {0}
  /\ MaxLate \in Nat /\ MaxStops \in Nat /\ Faults \subseteq FaultKinds

VARIABLES
  known, want,                   \* known/<id>: the inspected manifest, the marker
  partial, chunkFile,            \* partial/<id>: the manifest, the chunk files
  complete,                      \* objects/<id>: the manifest it is complete under
  up, policy,                    \* the process runs; its admission policy
  acq,                           \* Runtime.acquisitions
  inspected,                     \* Runtime.inspectedSources
  tx,                            \* Runtime.tx
  recon,                         \* Runtime.reconcileActive
  air,                           \* requests and answers in the air
  onAir,                         \* the peers that are still in range
  stops

disk    == <<known, want, partial, chunkFile, complete>>
runtime == <<up, policy, acq, inspected, tx, recon>>
outside == <<onAir, stops>>
vars    == <<disk, runtime, air, outside>>

Bytes == {"absent", "good", "bad"}
NoChunks == [c \in Chunks |-> "absent"]
AllReceived(f) == \A c \in Chunks : f[c] # "absent"
AllGood(f)     == \A c \in Chunks : f[c] = "good"
Without(f, removed) == [c \in Chunks |-> IF c \in removed THEN "absent" ELSE f[c]]
SeqRange(s)    == {s[k] : k \in DOMAIN s}

(***************************************************************************)
(* The acquisition struct.  assembly is the manifest of its Assembly and   *)
(* chunks what that holds; waiting is the answer it waits for.             *)
(***************************************************************************)
NewAcquisition ==
  [sources |-> <<>>, sourceCursor |-> 0, activeSource |-> None,
   transaction |-> 0, waiting |-> "nothing", wanted |-> {},
   manifest |-> None, manifestSource |-> None,
   assembly |-> None, chunks |-> NoChunks]

SourceLists == UNION {[1 .. n -> Peers] : n \in 0 .. MaxSources}

Acquisitions ==
  [sources : SourceLists,
   sourceCursor : Nat, activeSource : Peers \cup {None},
   transaction : 0 .. TxCount - 1,
   waiting : {"nothing", "Manifest", "Signature", "Chunk"},
   wanted : SUBSET Chunks,
   manifest : Names \cup {None}, manifestSource : Peers \cup {None},
   assembly : Manifests \cup {None}, chunks : [Chunks -> Bytes]]

\* None, the absence of a value, is none of the values
ASSUME NoneAssumption ==
  /\ None \notin Names /\ None \notin Peers /\ None \notin Manifests
  /\ None \notin Acquisitions
  /\ None \notin [peer : Peers, tx : 0 .. TxCount - 1]

Active == {i \in IDs : acq[i] # None}
Outstanding == {i \in Active : acq[i].waiting # "nothing"}

TypeOK ==
  /\ known \in [IDs -> Manifests \cup {None}] /\ want \in [IDs -> BOOLEAN]
  /\ partial \in [IDs -> Manifests \cup {None}]
  /\ chunkFile \in [IDs -> [Chunks -> Bytes]]
  /\ complete \in [IDs -> Manifests \cup {None}]
  /\ up \in BOOLEAN /\ policy \in PolicySettings
  /\ acq \in [IDs -> Acquisitions \cup {None}]
  /\ inspected \in [IDs -> SUBSET Peers]
  /\ tx \in 0 .. TxCount - 1
  /\ recon \in [peer : Peers, tx : 0 .. TxCount - 1] \cup {None}
  /\ onAir \subseteq Peers /\ stops \in 0 .. MaxStops

Init ==
  /\ known = [i \in IDs |-> None] /\ want = [i \in IDs |-> FALSE]
  /\ partial = [i \in IDs |-> None] /\ chunkFile = [i \in IDs |-> NoChunks]
  /\ complete = [i \in IDs |-> None]
  /\ up = FALSE /\ policy \in PolicySettings
  /\ acq = [i \in IDs |-> None] /\ inspected = [i \in IDs |-> {}]
  /\ tx = 0 /\ recon = None /\ air = {}
  /\ onAir = Peers /\ stops = 0

-----------------------------------------------------------------------------
(***************************************************************************)
(* NewRuntime.  A partial the policy still admits comes back with the      *)
(* Assembly its files make; a wanted publication comes back as a           *)
(* candidate.  Neither has a source until a leaf names one.                *)
(***************************************************************************)
ResumedUnchecked(i) ==                \* mutated: a partial resumes under any policy
  IF partial[i] # None
    THEN [NewAcquisition EXCEPT !.assembly = partial[i], !.chunks = chunkFile[i]]
  ELSE IF want[i] /\ known[i] # None THEN NewAcquisition
  ELSE None

Resumed(i) ==
  IF partial[i] # None /\ Accept(policy', partial[i], i \in Big, TRUE, want[i])
    THEN [NewAcquisition EXCEPT !.assembly = partial[i], !.chunks = chunkFile[i]]
  ELSE IF want[i] /\ known[i] # None THEN NewAcquisition
  ELSE None

\* a partial that cannot be loaded, such as one without its manifest, is
\* discarded as far as that succeeds; the transaction number is a random one
Headless == {i \in IDs : partial[i] = None /\ chunkFile[i] # NoChunks}

Start ==
  /\ ~up /\ up' = TRUE
  /\ policy' \in IF stops = 0 THEN {policy} ELSE PolicySettings
  /\ tx' \in 0 .. TxCount - 1
  /\ \E others \in SUBSET {i \in IDs : partial[i] # None} :
       LET unreadable == Headless \cup others
       IN \E gone \in SUBSET others, removed \in [unreadable -> SUBSET Chunks] :
            /\ "disk" \notin Faults =>
                 others = {} /\ removed = [i \in unreadable |-> Chunks]
            /\ acq' = [i \in IDs |-> IF i \in unreadable THEN NewAcquisition ELSE Resumed(i)]
            /\ partial' = [i \in IDs |-> IF i \in gone THEN None ELSE partial[i]]
            /\ chunkFile' = [i \in IDs |-> IF i \in unreadable
                              THEN Without(chunkFile[i], removed[i]) ELSE chunkFile[i]]
  /\ UNCHANGED <<known, want, complete, inspected, recon, air, outside>>

\* the process ends: what it held in memory is gone
Down == /\ stops < MaxStops /\ stops' = stops + 1
        /\ up' = FALSE
        /\ acq' = [i \in IDs |-> None] /\ inspected' = [i \in IDs |-> {}]
        /\ recon' = None
        /\ UNCHANGED <<policy, tx, onAir>>

Stop == /\ up /\ Down
        /\ UNCHANGED <<disk, air>>

(***************************************************************************)
(* addCandidate, fail and active.                                          *)
(***************************************************************************)
WithSource(a, p) ==
  IF p \in SeqRange(a.sources) \/ Len(a.sources) = MaxSources THEN a
  ELSE [a EXCEPT !.sources = Append(@, p)]

Candidate(i) == IF acq[i] = None THEN NewAcquisition ELSE acq[i]

Failed(a) ==
  LET pinned == a.waiting # "Signature"
  IN [a EXCEPT !.manifest = IF pinned THEN @ ELSE None,
               !.manifestSource = IF pinned THEN @ ELSE None,
               !.waiting = "nothing", !.wanted = {}, !.activeSource = None]

Fail(i, a) == acq' = [acq EXCEPT ![i] = Failed(a)]

Forget(i) == acq' = [acq EXCEPT ![i] = None]

Answers(m, i) == /\ acq[i] # None
                 /\ acq[i].transaction = m.tx /\ acq[i].activeSource = m.peer

-----------------------------------------------------------------------------
(***************************************************************************)
(* Initiating an exchange.  Only a few messages of earlier exchanges are   *)
(* still in the air, none with the transaction number about to be used: no *)
(* message lives for a full turn of the counter, and the number drawn at a *)
(* restart is not just below one that is still in the air.                 *)
(***************************************************************************)
NextTxUnbounded == tx + 1             \* mutated: the counter does not wrap

NextTx == (tx + 1) % TxCount

Transmit(m) ==
  \E late \in SUBSET air :
    /\ Cardinality(late) <= MaxLate /\ \A l \in late : l.tx # m.tx
    /\ air' = late \cup {m}

CanInitiateTwice == up /\ recon = None   \* mutated: acquisitions do not exclude

CanInitiate == up /\ recon = None /\ Outstanding = {}

RotatingSource(a) ==                  \* mutated: the signature from the next source
  a.sources[(a.sourceCursor % Len(a.sources)) + 1]

SourceFor(a) == IF a.manifest # None /\ a.manifestSource # None
                THEN a.manifestSource
                ELSE a.sources[(a.sourceCursor % Len(a.sources)) + 1]

AddressedFirst(a) ==                  \* mutated: sources are not rotated
  [a EXCEPT !.activeSource = SourceFor(a), !.transaction = NextTx]

\* the chosen source, its transaction and, unless pinned, the rotated cursor
Addressed(a) ==
  [a EXCEPT !.activeSource = SourceFor(a), !.transaction = NextTx,
            !.sourceCursor = IF a.manifest # None /\ a.manifestSource # None
                             THEN @ ELSE (@ + 1) % Len(a.sources)]

AnswerTo == [GetManifest |-> "Manifest", GetSignature |-> "Signature", GetChunks |-> "Chunk"]

Request(i, kind, wanted) ==
  LET a == Addressed(acq[i])
      m == [kind |-> kind, peer |-> a.activeSource, tx |-> NextTx,
            id |-> i, chunks |-> wanted]
  IN \/ /\ acq' = [acq EXCEPT ![i] = [a EXCEPT
              !.wanted = wanted,
              !.waiting = AnswerTo[kind]]]
        /\ Transmit(m)
     \/ /\ "radio" \in Faults     \* Send reports an error, sent or not
        /\ Fail(i, a)
        /\ UNCHANGED air \/ Transmit(m)

\* the lowest missing chunks; a publication here fits in one eight-chunk window
Batch(a, n) ==
  LET missing == {c \in Chunks : a.chunks[c] = "absent"}
  IN {c \in missing : Cardinality({d \in missing : d < c}) < n}

Initiate(i) ==
  /\ CanInitiate /\ i \in Active /\ acq[i].sources # <<>>
  /\ tx' = NextTx
  /\ \/ /\ acq[i].assembly = None /\ acq[i].manifest = None
        /\ Request(i, "GetManifest", acq[i].wanted)
     \/ /\ acq[i].assembly = None /\ acq[i].manifest # None
        /\ Request(i, "GetSignature", acq[i].wanted)
     \/ /\ acq[i].assembly # None /\ ~AllReceived(acq[i].chunks)
        /\ \E n \in 1 .. MaxBatch : Request(i, "GetChunks", Batch(acq[i], n))
     \/ /\ acq[i].assembly # None /\ AllReceived(acq[i].chunks)
        /\ acq' = [acq EXCEPT ![i] = Addressed(@)]   \* nothing to ask for
        /\ UNCHANGED air
  /\ UNCHANGED <<up, policy, inspected, recon, disk, outside>>

\* the peer advertises an inventory that differs from the node's snapshot of its
\* own, which is stale when the store could not be listed after a commit
Differs(p) == \E i \in IDs : /\ Held[p][i] # None
                             /\ complete[i] = None \/ "disk" \in Faults

InitiateReconcile(p) ==
  /\ CanInitiate /\ Differs(p)
  /\ tx' = NextTx
  /\ \/ /\ recon' = [peer |-> p, tx |-> NextTx]
        /\ Transmit([kind |-> "SummaryRequest", peer |-> p, tx |-> NextTx])
     \/ /\ "radio" \in Faults     \* Send reports an error, sent or not
        /\ UNCHANGED recon
        /\ UNCHANGED air \/ Transmit([kind |-> "SummaryRequest", peer |-> p, tx |-> NextTx])
  /\ UNCHANGED <<up, policy, acq, inspected, disk, outside>>

Timeout(i) ==
  /\ up /\ i \in Outstanding
  /\ Fail(i, acq[i])
  /\ UNCHANGED <<up, policy, inspected, tx, recon, disk, air, outside>>

ReconcileTimeout ==
  /\ up /\ recon # None
  /\ recon' = None
  /\ UNCHANGED <<up, policy, acq, inspected, tx, disk, air, outside>>

-----------------------------------------------------------------------------
(***************************************************************************)
(* The peer's side: serveSummary, serveManifest, serveSignature and        *)
(* serveChunks.  Requests for what the peer does not hold get no answer;   *)
(* each chunk of a batch is sent, or not, by itself.                       *)
(***************************************************************************)
RequestKinds == {"SummaryRequest", "GetManifest", "GetSignature", "GetChunks"}

Serve(m, sent, spoilt) ==
  /\ m \in air /\ m.peer \in onAir
  /\ sent \subseteq Chunks /\ spoilt \subseteq sent
  /\ LET held == IF m.kind = "SummaryRequest" THEN None ELSE Held[m.peer][m.id]
         answers ==
           CASE m.kind = "SummaryRequest" ->
                  {[kind |-> "Leaf", peer |-> m.peer, tx |-> m.tx,
                    ids |-> {i \in IDs : Held[m.peer][i] # None}]}
             [] m.kind = "GetManifest" ->
                  {[kind |-> "Manifest", peer |-> m.peer, tx |-> m.tx,
                    id |-> m.id, name |-> held.name, good |-> TRUE]}
             [] m.kind = "GetSignature" ->
                  {[kind |-> "Signature", peer |-> m.peer, tx |-> m.tx,
                    sig |-> held.sig, good |-> TRUE]}
             [] m.kind = "GetChunks" ->
                  {[kind |-> "Chunk", peer |-> m.peer, tx |-> m.tx,
                    id |-> m.id, index |-> c, good |-> c \notin spoilt] : c \in sent}
     IN /\ m.kind \in RequestKinds
        /\ m.kind # "SummaryRequest" => held # None
        /\ IF m.kind = "GetChunks" THEN sent \subseteq m.chunks
                                   ELSE sent = {}
        /\ "bytes" \notin Faults => spoilt = {}
        /\ air' = (air \ {m}) \cup answers
  /\ UNCHANGED <<disk, runtime, outside>>

\* an answer that does not decode
ServeMalformed(m) ==
  /\ "bytes" \in Faults /\ m \in air /\ m.peer \in onAir
  /\ \E k \in {<<"GetManifest", "Manifest">>, <<"GetSignature", "Signature">>} :
       m.kind = k[1] /\ air' = (air \ {m}) \cup {[kind |-> k[2], peer |-> m.peer, tx |-> m.tx, good |-> FALSE]}
  /\ UNCHANGED <<disk, runtime, outside>>

Depart(p) ==
  /\ "depart" \in Faults /\ p \in onAir
  /\ onAir' = onAir \ {p}
  /\ UNCHANGED <<disk, runtime, air, stops>>

\* an answer reaches the node; a repeated one is heard again later
Heard(m) == /\ m \in air /\ up
            /\ \/ air' = air \ {m}
               \/ "repeat" \in Faults /\ UNCHANGED air

\* an answer to nothing that is outstanding has no effect
Receives(m, i, kind) == /\ Heard(m) /\ m.kind = kind
                        /\ Answers(m, i) /\ acq[i].waiting = kind

-----------------------------------------------------------------------------
(***************************************************************************)
(* acceptLeaf: every listed ID that is not complete becomes a candidate    *)
(* with this peer as a source, unless it was inspected there before and    *)
(* nothing (a partial, an operator's want) calls for it.  When the table   *)
(* of acquisitions is full the leaf's remaining IDs are passed over.       *)
(***************************************************************************)
EligibleIfHeld(i, p) ==               \* mutated: what is complete is asked for
  known[i] # None => partial[i] # None \/ want[i] \/ p \notin inspected[i]

EligibleUnwanted(i, p) ==             \* mutated: want does not lift an inspection
  complete[i] = None /\ (known[i] # None => partial[i] # None \/ p \notin inspected[i])

Eligible(i, p) == /\ complete[i] = None
                  /\ known[i] # None => \/ partial[i] # None \/ want[i]
                                        \/ p \notin inspected[i]

AcceptLeaf(m) ==
  /\ Heard(m) /\ m.kind = "Leaf"
  /\ recon # None /\ recon = [peer |-> m.peer, tx |-> m.tx]
  /\ recon' = None
  /\ LET new == {i \in m.ids : Eligible(i, m.peer)} \ Active
         room == IF Cardinality(Active) < MaxAcquisitions
                 THEN MaxAcquisitions - Cardinality(Active) ELSE 0
     IN \E admitted \in SUBSET new :
          /\ Cardinality(admitted) = IF room < Cardinality(new) THEN room ELSE Cardinality(new)
          /\ acq' = [i \in IDs |->
                IF i \in m.ids /\ Eligible(i, m.peer) /\ i \in Active \cup admitted
                THEN WithSource(Candidate(i), m.peer) ELSE acq[i]]
  /\ UNCHANGED <<up, policy, inspected, tx, disk, outside>>

(***************************************************************************)
(* acceptManifest: the base manifest is pinned to its source.              *)
(***************************************************************************)
AcceptManifest(i, m) ==
  /\ Receives(m, i, "Manifest")
  /\ IF ~m.good \/ m.id # i            \* malformed, or not the hash of this ID
     THEN Fail(i, acq[i])
     ELSE acq' = [acq EXCEPT ![i].manifest = m.name, ![i].manifestSource = m.peer,
                             ![i].waiting = "nothing", ![i].activeSource = None]
  /\ UNCHANGED <<up, policy, inspected, tx, recon, disk, outside>>

(***************************************************************************)
(* Commit of an assembly a that holds every chunk, as its two callers see  *)
(* it (PublicationStore has the single writes).  The partial is removed    *)
(* after the marker, and after the wrong hash, which may stop with any of  *)
(* its files removed; Restart then begins it again, DiscardPartial does    *)
(* not.                                                                    *)
(***************************************************************************)
Finished(i) == /\ Forget(i)
               /\ inspected' = [inspected EXCEPT ![i] = {}]

Leave(i, manifest, files) == /\ partial' = [partial EXCEPT ![i] = manifest]
                             /\ chunkFile' = [chunkFile EXCEPT ![i] = files]

Leftover(i, a) == \E manifest \in {None, a.assembly}, removed \in SUBSET Chunks :
                    Leave(i, manifest, Without(a.chunks, removed))

Commit(i, a, inspections) ==
  /\ AllGood(a.chunks)
  /\ \/ /\ complete' = [complete EXCEPT ![i] = a.assembly]
        /\ Leave(i, None, NoChunks)
        /\ Finished(i) /\ UNCHANGED <<up, recon, policy, tx, outside>>
     \/ /\ \/ Leave(i, a.assembly, a.chunks) /\ UNCHANGED complete
           \/ Leftover(i, a) /\ complete' = [complete EXCEPT ![i] = a.assembly]
        /\ \/ Down
           \/ /\ "disk" \in Faults
              /\ Fail(i, a) /\ inspected' = inspections
              /\ UNCHANGED <<up, recon, policy, tx, outside>>

Mismatch(i, a, inspections, restart) ==
  /\ ~AllGood(a.chunks)
  /\ \/ /\ Leave(i, IF restart THEN a.assembly ELSE None, NoChunks)
        /\ Fail(i, [a EXCEPT !.assembly = IF restart THEN @ ELSE None, !.chunks = NoChunks])
        /\ inspected' = inspections /\ UNCHANGED <<up, recon, policy, tx, outside>>
     \/ /\ Leftover(i, a)
        /\ \/ Down
           \/ /\ "disk" \in Faults
              /\ Fail(i, IF restart THEN a ELSE [a EXCEPT !.assembly = None, !.chunks = NoChunks])
              /\ inspected' = inspections
              /\ UNCHANGED <<up, recon, policy, tx, outside>>
  /\ UNCHANGED complete

-----------------------------------------------------------------------------
(***************************************************************************)
(* acceptSignature: combine, verify, save as known, decide, begin.         *)
(***************************************************************************)
InspectNothing(i, p) == inspected     \* mutated: the inspection is not recorded

Inspect(i, p) ==
  IF Cardinality(inspected[i]) < MaxInspected
  THEN [inspected EXCEPT ![i] = @ \cup {p}] ELSE inspected

RejectSignature(i, m) ==
  /\ Receives(m, i, "Signature")
  /\ \/ ~m.good /\ Fail(i, acq[i]) /\ UNCHANGED inspected
     \/ /\ m.good
        /\ ~VerifyManifestSignature([name |-> acq[i].manifest, sig |-> m.sig])
        /\ Finished(i)
  /\ UNCHANGED <<up, policy, tx, recon, disk, outside>>

AcceptSignature(i, m) ==
  LET a == acq[i]
      manifest == [name |-> a.manifest, sig |-> m.sig]
      admitted == Accept(policy, manifest, i \in Big, partial[i] # None, want[i])
      begun == [a EXCEPT !.assembly = manifest, !.chunks = chunkFile[i],
                         !.manifest = None, !.manifestSource = None]
      saved == known' = [known EXCEPT ![i] = manifest]
      same  == UNCHANGED <<up, recon, policy, tx, outside>>
      undecided == UNCHANGED <<partial, chunkFile, complete>>
  IN /\ Receives(m, i, "Signature") /\ m.good
     /\ VerifyManifestSignature(manifest)
     /\ UNCHANGED want
     /\ \/ /\ "disk" \in Faults            \* SaveKnown or Begin reports an error
           /\ \/ (saved \/ UNCHANGED known) /\ UNCHANGED partial
              \/ /\ saved /\ admitted /\ partial[i] = None
                 /\ partial' = [partial EXCEPT ![i] = manifest]
           /\ UNCHANGED <<chunkFile, complete>>
           /\ Fail(i, a) /\ inspected' = Inspect(i, m.peer) /\ same
        \/ saved /\ undecided /\ Down
        \/ /\ saved /\ ~admitted
           /\ undecided /\ Forget(i) /\ inspected' = Inspect(i, m.peer) /\ same
        \/ /\ saved /\ admitted /\ partial[i] \notin {None, manifest}
           /\ undecided /\ Fail(i, a) /\ inspected' = Inspect(i, m.peer) /\ same
        \/ /\ saved /\ admitted /\ partial[i] \in {None, manifest}
           /\ IF AllReceived(chunkFile[i])
              THEN \/ Commit(i, begun, Inspect(i, m.peer))
                   \/ Mismatch(i, begun, Inspect(i, m.peer), FALSE)
              ELSE /\ Leave(i, manifest, chunkFile[i]) /\ UNCHANGED complete
                   /\ acq' = [acq EXCEPT ![i] = [begun EXCEPT !.waiting = "nothing"]]
                   /\ inspected' = Inspect(i, m.peer) /\ same

(***************************************************************************)
(* acceptChunk: a wanted chunk is made durable; the last one commits.      *)
(***************************************************************************)
Payload(i, m) == IF m.good /\ m.id = i THEN "good" ELSE "bad"

AcceptChunk(i, m) ==
  LET a == acq[i]
      bytes == Payload(i, m)
      added == [a EXCEPT !.chunks[m.index] = bytes, !.wanted = @ \ {m.index}]
  IN /\ Receives(m, i, "Chunk") /\ m.index \in a.wanted
     /\ UNCHANGED <<known, want>>
     /\ IF AllReceived(added.chunks)
        THEN Commit(i, added, inspected) \/ Mismatch(i, added, inspected, TRUE)
        ELSE /\ chunkFile' = [chunkFile EXCEPT ![i][m.index] = bytes]
             /\ acq' = [acq EXCEPT ![i] =
                  [added EXCEPT !.waiting = IF added.wanted = {} THEN "nothing" ELSE @]]
             /\ UNCHANGED <<partial, complete, up, policy, inspected, tx, recon, outside>>

ChunkKeptInMemory(i, m) ==            \* mutated: the failed chunk counts as received
  /\ "disk" \in Faults
  /\ Receives(m, i, "Chunk") /\ m.index \in acq[i].wanted
  /\ acq' = [acq EXCEPT ![i].chunks[m.index] = "good", ![i].wanted = @ \ {m.index}]
  /\ UNCHANGED <<disk, up, policy, inspected, tx, recon, outside>>

\* Store.Add fails, with or without the file: the chunk stays wanted
ChunkWriteFails(i, m) ==
  /\ "disk" \in Faults
  /\ Receives(m, i, "Chunk") /\ m.index \in acq[i].wanted
  /\ chunkFile' \in {chunkFile, [chunkFile EXCEPT ![i][m.index] = Payload(i, m)]}
  /\ UNCHANGED <<known, want, partial, complete, runtime, outside>>

\* `ghost-node want`, at any time
Want(i) ==
  /\ ~want[i] /\ (known[i] # None \/ partial[i] # None)
  /\ want' = [want EXCEPT ![i] = TRUE]
  /\ UNCHANGED <<known, partial, chunkFile, complete, runtime, air, outside>>

Next ==
  \/ Start \/ Stop \/ ReconcileTimeout
  \/ \E i \in IDs : Initiate(i) \/ Timeout(i) \/ Want(i)
  \/ \E p \in Peers : InitiateReconcile(p) \/ Depart(p)
  \/ \E m \in air : \/ \E sent \in SUBSET Chunks, spoilt \in SUBSET Chunks : Serve(m, sent, spoilt)
                     \/ ServeMalformed(m)
                     \/ AcceptLeaf(m)
                     \/ \E i \in IDs : \/ AcceptManifest(i, m)
                                       \/ RejectSignature(i, m) \/ AcceptSignature(i, m)
                                       \/ AcceptChunk(i, m) \/ ChunkWriteFails(i, m)

Spec == Init /\ [][Next]_vars

-----------------------------------------------------------------------------
(***************************************************************************)
(* At most one self-initiated exchange is outstanding (architecture.md,    *)
(* Half-Duplex Scheduling), and what it waits for is well formed: the      *)
(* signature of a pinned manifest, or missing chunks of an assembly.       *)
(***************************************************************************)
OneExchange ==
  /\ Cardinality(Outstanding) + (IF recon = None THEN 0 ELSE 1) <= 1
  /\ \A i \in Outstanding :
       LET a == acq[i]
       IN /\ a.waiting = "Signature" => a.manifest # None /\ a.manifestSource = a.activeSource
          /\ a.waiting = "Chunk" =>
               /\ a.assembly # None /\ a.wanted # {}
               /\ \A c \in a.wanted : a.chunks[c] = "absent"

(***************************************************************************)
(* Base manifest and signature come from one source: whatever is stored    *)
(* about a publication is a manifest some peer holds, never the name of    *)
(* one with the signature of another, even across retries, rotation and    *)
(* late answers.  Unsigned-by-loss would be such a mixture too.            *)
(***************************************************************************)
HeldBySomeone(i, m) == \E p \in Peers : Held[p][i] = m
ManifestsNotMixed ==
  \A i \in IDs : \A m \in {known[i], partial[i], complete[i]} \ {None} :
    HeldBySomeone(i, m)

(***************************************************************************)
(* Chunks are only ever requested under a manifest the current policy      *)
(* admits -- also for a partial that an earlier run of the node, started   *)
(* with another policy, left behind.                                       *)
(***************************************************************************)
PolicyRespected ==
  \A i \in Active : acq[i].assembly # None =>
    Accept(policy, acq[i].assembly, i \in Big, TRUE, want[i])

(***************************************************************************)
(* What the acquisition believes it has received, its partial directory    *)
(* holds under the same manifest: no missing chunk is taken for received.  *)
(* Memory outlives files in one case only, when it lacks nothing: a commit *)
(* that fails after the marker may leave any part of the directory, but    *)
(* the object is complete then, and so may a removal after the wrong hash, *)
(* but that assembly will not be committed.                                *)
(***************************************************************************)
ReceiptsAreDurable ==
  \A i \in Active : acq[i].assembly # None =>
    \/ /\ acq[i].assembly = partial[i]
       /\ \A c \in Chunks : acq[i].chunks[c] # "absent" => chunkFile[i][c] = acq[i].chunks[c]
    \/ /\ AllReceived(acq[i].chunks)
       /\ AllGood(acq[i].chunks) => complete[i] = acq[i].assembly

(***************************************************************************)
(* A publication the node holds is not asked for again.                    *)
(***************************************************************************)
CompleteNotRequested == \A i \in Outstanding : complete[i] = None

(***************************************************************************)
(* What the node promises of its library (Replica): complete/<id> is what  *)
(* it holds, a partial is a transfer that has begun.                       *)
(***************************************************************************)
Library == INSTANCE Replica WITH library <- complete, begun <- partial

ImplementsReplica == Library!Spec

=============================================================================
