-------------------------- MODULE AcquisitionProofs --------------------------
(***************************************************************************)
(* Proofs about acquisition, for every set of IDs, peers and chunks, every *)
(* policy, and every kind of fault: late, lost, repeated and malformed     *)
(* answers, failing writes, and a process that stops between any two       *)
(* durable steps.                                                          *)
(***************************************************************************)
EXTENDS AcquisitionMemory, CommonLemmas

AnswerKinds == {"Leaf", "Manifest", "Signature", "Chunk"}

(***************************************************************************)
(* The messages in the air are those some request or some holder made.     *)
(***************************************************************************)
Sendable(m) ==
  /\ m.kind \in RequestKinds \cup AnswerKinds
  /\ m.peer \in Peers /\ m.tx \in 0 .. TxCount - 1
  /\ m.kind \in {"GetManifest", "GetSignature", "GetChunks"} =>
       m.id \in IDs /\ m.chunks \subseteq Chunks
  /\ m.kind = "Leaf" => m.ids \subseteq IDs
  /\ m.kind = "Manifest" /\ m.good =>
       /\ m.id \in IDs /\ Held[m.peer][m.id] # None
       /\ m.name = Held[m.peer][m.id].name
  /\ m.kind = "Signature" /\ m.good => m.sig \in Signatures
  /\ m.kind = "Chunk" => m.index \in Chunks /\ m.good \in BOOLEAN

(***************************************************************************)
(* One acquisition a of publication i, beside its partial directory (the   *)
(* manifest dir, the chunk files), the manifest it is held under, the      *)
(* operator's mark and the policy.                                         *)
(***************************************************************************)
Pinned(i, a) ==
  /\ a.manifest # None <=> a.manifestSource # None
  /\ a.manifest # None => /\ Held[a.manifestSource][i] # None
                          /\ a.manifest = Held[a.manifestSource][i].name

Waits(a) ==
  /\ a.waiting = "Signature" => a.manifest # None /\ a.manifestSource = a.activeSource
  /\ a.waiting = "Chunk" => /\ a.assembly # None /\ a.wanted # {}
                            /\ \A c \in a.wanted : a.chunks[c] = "absent"

Admitted(i, a, pol, wanted) ==
  a.assembly # None => /\ HeldBySomeone(i, a.assembly)
                       /\ Accept(pol, a.assembly, i \in Big, TRUE, wanted)

Durable(a, dir, files, held) ==
  a.assembly # None =>
    \/ /\ a.assembly = dir
       /\ \A c \in Chunks : a.chunks[c] # "absent" => files[c] = a.chunks[c]
    \/ /\ AllReceived(a.chunks)
       /\ AllGood(a.chunks) => held = a.assembly

Sound(i, a, pol, wanted, dir, files, held) ==
  /\ a \in Acquisitions /\ Pinned(i, a) /\ Waits(a)
  /\ Admitted(i, a, pol, wanted) /\ Durable(a, dir, files, held)

SoundOrNone(i, a, pol, wanted, dir, files, held) ==
  a = None \/ Sound(i, a, pol, wanted, dir, files, held)

AllSound ==
  /\ acq \in [IDs -> Acquisitions \cup {None}]
  /\ \A i \in IDs : SoundOrNone(i, acq[i], policy, want[i], partial[i], chunkFile[i], complete[i])

OneAtATime ==
  /\ \A i, j \in Outstanding : i = j
  /\ recon # None => Outstanding = {}

(***************************************************************************)
(* An answer carries no ID when it is a signature: what bears the          *)
(* transaction number of the outstanding exchange belongs to it.           *)
(***************************************************************************)
Belongs(i, m) ==
  /\ m.kind = "GetSignature" => m.id = i
  /\ m.kind = "Signature" /\ m.good =>
       Held[m.peer][i] # None /\ m.sig = Held[m.peer][i].sig

SignaturesBelong ==
  \A i \in Outstanding : acq[i].waiting = "Signature" =>
    \A m \in air : m.tx = acq[i].transaction => Belongs(i, m)

AirSound == \A m \in air : Sendable(m)

DiskType ==
  /\ known \in [IDs -> Manifests \cup {None}] /\ want \in [IDs -> BOOLEAN]
  /\ partial \in [IDs -> Manifests \cup {None}]
  /\ chunkFile \in [IDs -> [Chunks -> Bytes]]
  /\ complete \in [IDs -> Manifests \cup {None}]

NodeType ==
  /\ up \in BOOLEAN /\ policy \in PolicySettings
  /\ inspected \in [IDs -> SUBSET Peers]
  /\ tx \in 0 .. TxCount - 1
  /\ recon \in [peer : Peers, tx : 0 .. TxCount - 1] \cup {None}
  /\ onAir \subseteq Peers /\ stops \in 0 .. MaxStops

AcquisitionInv ==
  /\ DiskType /\ NodeType /\ ManifestsNotMixed
  /\ AllSound
  /\ AirSound /\ OneAtATime /\ SignaturesBelong

(***************************************************************************)
(* An acquisition a of a publication held as held, beside its partial      *)
(* directory dir.  Nothing is asked about what is held: an acquisition of  *)
(* it that is left waits for its commit to be tried again, or was resumed  *)
(* without a source and gets none.                                         *)
(***************************************************************************)
SettledOne(a, dir, held) ==
  /\ a # None /\ a.waiting \in {"Manifest", "Signature"} => a.assembly = None
  /\ held # None =>
       /\ dir \in {None, held}
       /\ a # None => /\ a.waiting = "nothing"
                      /\ \/ a.sources = <<>>
                         \/ a.assembly # None /\ AllReceived(a.chunks)

Settled == \A i \in IDs : SettledOne(acq[i], partial[i], complete[i])

\* a step as the library sees it
LibraryStep == [Library!Next]_(Library!vars)

-----------------------------------------------------------------------------
(***************************************************************************)
(* Lists of sources.                                                       *)
(***************************************************************************)
LEMMA SourceListFacts ==
  ASSUME NEW s \in SourceLists
  PROVE  /\ s \in Seq(Peers) /\ Len(s) \in 0 .. MaxSources /\ DOMAIN s = 1 .. Len(s)
         /\ \A k \in 1 .. Len(s) : s[k] \in Peers
<1>1. MaxSources \in Nat
  BY AcquisitionAssumption
<1>2. PICK n \in 0 .. MaxSources : s \in [1 .. n -> Peers]
  BY DEF SourceLists
<1> QED
  BY <1>1, <1>2

LEMMA SourceAppended ==
  ASSUME NEW s \in SourceLists, Len(s) # MaxSources, NEW p \in Peers
  PROVE  Append(s, p) \in SourceLists
<1>1. /\ s \in Seq(Peers) /\ Len(s) \in 0 .. MaxSources
      /\ MaxSources \in Nat
  BY SourceListFacts, AcquisitionAssumption
<1>2. Append(s, p) \in Seq(Peers) /\ Len(Append(s, p)) = Len(s) + 1
  BY <1>1
<1>3. Append(s, p) \in [1 .. Len(s) + 1 -> Peers]
  BY <1>2, LenProperties
<1>4. Len(s) + 1 \in 0 .. MaxSources
  BY <1>1
<1> QED
  BY <1>3, <1>4 DEF SourceLists

(***************************************************************************)
(* A new acquisition, one more source, and a failure keep it sound.        *)
(***************************************************************************)
LEMMA NewSound ==
  ASSUME NEW i \in IDs, NEW pol, NEW wanted, NEW dir, NEW files, NEW held
  PROVE  Sound(i, NewAcquisition, pol, wanted, dir, files, held)
<1>1. <<>> \in SourceLists
  BY AcquisitionAssumption DEF SourceLists
<1>2. NewAcquisition \in Acquisitions
  BY <1>1, AcquisitionAssumption DEF NewAcquisition, Acquisitions, NoChunks, Bytes
<1> QED
  BY <1>2 DEF NewAcquisition, Sound, Pinned, Waits, Admitted, Durable

LEMMA WithSourceSound ==
  ASSUME NEW i \in IDs, NEW a, NEW pol, NEW wanted, NEW dir, NEW files, NEW held, NEW p \in Peers,
         Sound(i, a, pol, wanted, dir, files, held)
  PROVE  /\ Sound(i, WithSource(a, p), pol, wanted, dir, files, held)
         /\ WithSource(a, p).waiting = a.waiting
         /\ WithSource(a, p).transaction = a.transaction
<1>1. CASE p \in SeqRange(a.sources) \/ Len(a.sources) = MaxSources
  BY <1>1 DEF WithSource
<1>2. CASE ~(p \in SeqRange(a.sources) \/ Len(a.sources) = MaxSources)
  <2>1. a.sources \in SourceLists
    BY DEF Sound, Acquisitions
  <2>2. Append(a.sources, p) \in SourceLists
    BY <1>2, <2>1, SourceAppended
  <2>3. WithSource(a, p) \in Acquisitions
    BY <1>2, <2>2 DEF WithSource, Sound, Acquisitions
  <2>4. WithSource(a, p) = [a EXCEPT !.sources = Append(a.sources, p)] /\ a \in Acquisitions
    BY <1>2 DEF WithSource, Sound
  <2> QED
    BY <2>3, <2>4 DEF Acquisitions, Sound, Pinned, Waits, Admitted, Durable
<1> QED
  BY <1>1, <1>2

LEMMA FailedSound ==
  ASSUME NEW i \in IDs, NEW a, NEW pol, NEW wanted, NEW dir, NEW files, NEW held,
         a \in Acquisitions, Pinned(i, a),
         Admitted(i, a, pol, wanted), Durable(a, dir, files, held)
  PROVE  /\ Sound(i, Failed(a), pol, wanted, dir, files, held)
         /\ Failed(a).waiting = "nothing"
<1>1. Failed(a) \in Acquisitions
  BY DEF Failed, Acquisitions
<1>2. /\ Failed(a).assembly = a.assembly /\ Failed(a).chunks = a.chunks
      /\ Failed(a).waiting = "nothing"
  BY DEF Failed, Acquisitions
<1>3. Pinned(i, Failed(a))
  BY DEF Failed, Acquisitions, Pinned
<1>4. Waits(Failed(a))
  BY <1>2 DEF Waits
<1>5. Admitted(i, Failed(a), pol, wanted) /\ Durable(Failed(a), dir, files, held)
  BY <1>2 DEF Admitted, Durable
<1> QED
  BY <1>1, <1>2, <1>3, <1>4, <1>5 DEF Sound

LEMMA NextTxType ==
  ASSUME NodeType
  PROVE  NextTx \in 0 .. TxCount - 1
<1>1. tx \in Nat /\ TxCount \in Nat /\ TxCount > 0
  BY AcquisitionAssumption DEF NodeType
<1> QED
  BY <1>1 DEF NextTx

(***************************************************************************)
(* An addressed acquisition asks a source, the one its manifest is from    *)
(* when it has one.                                                        *)
(***************************************************************************)
LEMMA SourceChosen ==
  ASSUME NEW i \in IDs, NEW a \in Acquisitions, Pinned(i, a), a.sources # <<>>
  PROVE  /\ SourceFor(a) \in Peers
         /\ a.manifest # None => SourceFor(a) = a.manifestSource
         /\ (a.sourceCursor + 1) % Len(a.sources) \in Nat
<1>1. /\ a.sources \in SourceLists /\ a.sourceCursor \in Nat
      /\ a.manifestSource \in Peers \cup {None}
  BY DEF Acquisitions
<1>2. /\ Len(a.sources) \in Nat /\ Len(a.sources) > 0
      /\ \A k \in 1 .. Len(a.sources) : a.sources[k] \in Peers
  BY <1>1, SourceListFacts, EmptySeq
<1>3. /\ a.sourceCursor % Len(a.sources) \in 0 .. Len(a.sources) - 1
      /\ (a.sourceCursor + 1) % Len(a.sources) \in Nat
  BY <1>1, <1>2
<1>4. a.sources[(a.sourceCursor % Len(a.sources)) + 1] \in Peers
  BY <1>2, <1>3
<1> QED
  BY <1>1, <1>3, <1>4 DEF SourceFor, Pinned

LEMMA AddressedFields ==
  ASSUME NEW i \in IDs, NEW a \in Acquisitions, Pinned(i, a), a.sources # <<>>, NodeType
  PROVE  /\ Addressed(a) \in Acquisitions
         /\ Addressed(a).activeSource = SourceFor(a)
         /\ Addressed(a).transaction = NextTx
         /\ Addressed(a).waiting = a.waiting /\ Addressed(a).wanted = a.wanted
         /\ Addressed(a).manifest = a.manifest
         /\ Addressed(a).manifestSource = a.manifestSource
         /\ Addressed(a).assembly = a.assembly /\ Addressed(a).chunks = a.chunks
<1>1. /\ SourceFor(a) \in Peers /\ (a.sourceCursor + 1) % Len(a.sources) \in Nat
      /\ NextTx \in 0 .. TxCount - 1
  BY SourceChosen, NextTxType
<1> QED
  BY <1>1 DEF Addressed, Acquisitions

LEMMA AddressedSound ==
  ASSUME NEW i \in IDs, NEW a, NEW pol, NEW wanted, NEW dir, NEW files, NEW held,
         Sound(i, a, pol, wanted, dir, files, held), a.sources # <<>>, NodeType
  PROVE  Sound(i, Addressed(a), pol, wanted, dir, files, held)
<1>1. a \in Acquisitions /\ Pinned(i, a)
  BY DEF Sound
<1>2. a.manifest # None => SourceFor(a) = a.manifestSource
  BY <1>1, SourceChosen
<1> DEFINE b == Addressed(a)
<1>3. /\ b \in Acquisitions /\ b.activeSource = SourceFor(a)
      /\ b.waiting = a.waiting /\ b.wanted = a.wanted
      /\ b.manifest = a.manifest /\ b.manifestSource = a.manifestSource
      /\ b.assembly = a.assembly /\ b.chunks = a.chunks
  BY <1>1, AddressedFields
<1> HIDE DEF b
<1>4. Pinned(i, b)
  BY <1>1, <1>3 DEF Pinned
<1>5. Waits(b)
  BY <1>2, <1>3 DEF Sound, Waits
<1>6. Admitted(i, b, pol, wanted) /\ Durable(b, dir, files, held)
  BY <1>3 DEF Sound, Admitted, Durable
<1> QED
  BY <1>3, <1>4, <1>5, <1>6 DEF Sound, b

(***************************************************************************)
(* A batch is taken from what is missing, and is not empty while something *)
(* is missing.                                                             *)
(***************************************************************************)
LEMMA BatchMissing ==
  ASSUME NEW a \in Acquisitions, NEW n \in 1 .. MaxBatch
  PROVE  /\ Batch(a, n) \subseteq Chunks
         /\ \A c \in Batch(a, n) : a.chunks[c] = "absent"
         /\ ~AllReceived(a.chunks) => Batch(a, n) # {}
<1> DEFINE missing == {c \in Chunks : a.chunks[c] = "absent"}
<1>1. Batch(a, n) = {c \in missing : Cardinality({d \in missing : d < c}) < n}
  BY DEF Batch
<1>2. ASSUME ~AllReceived(a.chunks)
      PROVE  Batch(a, n) # {}
  <2>1. missing # {} /\ missing \in SUBSET Nat
    <3>1. Chunks \subseteq Nat
      <4>1. Cardinality(Chunks) \in Nat
        BY AcquisitionAssumption, FS_CardinalityType
      <4> QED
        BY <4>1, AcquisitionAssumption
    <3> QED
      BY <1>2, <3>1 DEF AllReceived
  <2>2. PICK c \in missing : \A d \in missing : ~(d < c)
    BY <2>1, LeastElement
  <2>3. {d \in missing : d < c} = {}
    BY <2>2
  <2>4. Cardinality({d \in missing : d < c}) = 0
    BY <2>3, FS_EmptySet, Zenon
  <2>5. n \in Nat /\ 0 < n
    BY AcquisitionAssumption
  <2> QED
    BY <1>1, <2>2, <2>4, <2>5
<1> QED
  BY <1>1, <1>2

(***************************************************************************)
(* A request leaves the acquisition waiting for its answer.                *)
(***************************************************************************)
Waiting(a, kind, wanted) ==
  [Addressed(a) EXCEPT !.wanted = wanted, !.waiting = AnswerTo[kind]]

LEMMA RequestSound ==
  ASSUME NEW i \in IDs, NEW a, NEW pol, NEW mark, NEW dir, NEW files, NEW held,
         Sound(i, a, pol, mark, dir, files, held), a.sources # <<>>, NodeType,
         NEW kind \in {"GetManifest", "GetSignature", "GetChunks"},
         kind = "GetSignature" => a.manifest # None,
         NEW wanted \in SUBSET Chunks,
         kind = "GetChunks" => /\ a.assembly # None /\ wanted # {}
                               /\ \A c \in wanted : a.chunks[c] = "absent"
  PROVE  /\ Sound(i, Waiting(a, kind, wanted), pol, mark, dir, files, held)
         /\ Waiting(a, kind, wanted).transaction = NextTx
         /\ Waiting(a, kind, wanted).waiting # "nothing"
         /\ Waiting(a, kind, wanted).waiting = "Signature" => kind = "GetSignature"
<1> DEFINE w == AnswerTo[kind]
           b == Addressed(a)
<1>1. /\ w \in {"Manifest", "Signature", "Chunk"}
      /\ w = "Signature" => kind = "GetSignature"
      /\ w = "Chunk" => kind = "GetChunks"
  BY DEF AnswerTo
<1>2. a \in Acquisitions /\ Pinned(i, a)
  BY DEF Sound
<1>3. /\ Sound(i, b, pol, mark, dir, files, held)
      /\ b.manifest = a.manifest /\ b.manifestSource = a.manifestSource
      /\ b.activeSource = SourceFor(a) /\ b.transaction = NextTx
      /\ b.assembly = a.assembly /\ b.chunks = a.chunks
      /\ a.manifest # None => SourceFor(a) = a.manifestSource
  BY <1>2, AddressedSound, AddressedFields, SourceChosen
<1> HIDE DEF w, b
<1>4. b \in Acquisitions
  BY <1>3 DEF Sound
<1> DEFINE c == [b EXCEPT !.wanted = wanted, !.waiting = w]
<1>5. /\ c \in Acquisitions /\ c.wanted = wanted /\ c.waiting = w
      /\ c.manifest = b.manifest /\ c.manifestSource = b.manifestSource
      /\ c.activeSource = b.activeSource /\ c.transaction = b.transaction
      /\ c.assembly = b.assembly /\ c.chunks = b.chunks
  BY <1>1, <1>4 DEF Acquisitions
<1>6. c = Waiting(a, kind, wanted)
  BY DEF Waiting, b, w
<1> HIDE DEF c
<1>7. Pinned(i, c) /\ Admitted(i, c, pol, mark) /\ Durable(c, dir, files, held)
  BY <1>3, <1>5 DEF Sound, Pinned, Admitted, Durable
<1>8. Waits(c)
  BY <1>1, <1>3, <1>5 DEF Waits
<1>9. Sound(i, c, pol, mark, dir, files, held)
  BY <1>5, <1>7, <1>8 DEF Sound
<1> QED
  BY <1>1, <1>3, <1>5, <1>6, <1>9

-----------------------------------------------------------------------------
(***************************************************************************)
(* What is stored is what somebody holds, file by file.                    *)
(***************************************************************************)
StoredHeld(f) == \A i \in IDs : f[i] # None => HeldBySomeone(i, f[i])

LEMMA NotMixed ==
  ManifestsNotMixed <=> StoredHeld(known) /\ StoredHeld(partial) /\ StoredHeld(complete)
BY DEF ManifestsNotMixed, StoredHeld

(***************************************************************************)
(* A step that changes one acquisition and its directory keeps all sound.  *)
(***************************************************************************)
SameBut(i) == /\ UNCHANGED <<policy, want>>
              /\ \A j \in IDs \ {i} : /\ partial'[j] = partial[j] /\ chunkFile'[j] = chunkFile[j]
                                     /\ complete'[j] = complete[j]

LEMMA OneSound ==
  ASSUME AllSound, NEW i \in IDs, NEW b, acq' = [acq EXCEPT ![i] = b], SameBut(i),
         SoundOrNone(i, b, policy, want[i], partial'[i], chunkFile'[i], complete'[i])
  PROVE  AllSound'
<1>1. b \in Acquisitions \cup {None}
  BY DEF SoundOrNone, Sound
<1>2. acq' \in [IDs -> Acquisitions \cup {None}]
  BY <1>1 DEF AllSound
<1>3. acq'[i] = b /\ \A j \in IDs \ {i} : acq'[j] = acq[j]
  BY DEF AllSound
<1>4. ASSUME NEW j \in IDs
      PROVE  SoundOrNone(j, acq'[j], policy', want'[j], partial'[j], chunkFile'[j], complete'[j])
  <2>1. CASE j = i
    BY <1>3, <2>1 DEF SameBut
  <2>2. CASE j # i
    <3>1. SoundOrNone(j, acq[j], policy, want[j], partial[j], chunkFile[j], complete[j])
      BY DEF AllSound
    <3> QED
      BY <1>3, <2>2, <3>1 DEF SameBut
  <2> QED
    BY <2>1, <2>2
<1> QED
  BY <1>2, <1>4 DEF AllSound

LEMMA NoneSound ==
  ASSUME acq' = [i \in IDs |-> None]
  PROVE  AllSound'
BY DEF AllSound, SoundOrNone

(***************************************************************************)
(* A step after which nothing waits that did not wait before keeps the     *)
(* exchange single and what belongs to it in place.                        *)
(***************************************************************************)
Calm ==
  \A j \in IDs : acq'[j] # None /\ acq'[j].waiting # "nothing" =>
    /\ acq[j] # None /\ acq'[j].waiting = acq[j].waiting
    /\ acq'[j].transaction = acq[j].transaction

LEMMA CalmOutstanding ==
  ASSUME Calm
  PROVE  Outstanding' \subseteq Outstanding
BY DEF Calm, Outstanding, Active

LEMMA CalmExchange ==
  ASSUME Calm, OneAtATime, recon' \in {recon, None}
  PROVE  OneAtATime'
BY CalmOutstanding DEF OneAtATime

LEMMA CalmBelongs ==
  ASSUME Calm, SignaturesBelong, air' \subseteq air
  PROVE  SignaturesBelong'
<1> SUFFICES ASSUME NEW i \in Outstanding', acq'[i].waiting = "Signature",
                    NEW m \in air', m.tx = acq'[i].transaction
             PROVE  Belongs(i, m)
  BY DEF SignaturesBelong, Belongs
<1>1. /\ i \in Outstanding /\ acq[i].waiting = "Signature"
      /\ m.tx = acq[i].transaction /\ m \in air
  BY CalmOutstanding DEF Calm, Outstanding, Active
<1> QED
  BY <1>1 DEF SignaturesBelong

LEMMA CalmOne ==
  ASSUME AllSound, NEW i \in IDs, NEW b, acq' = [acq EXCEPT ![i] = b],
         b # None /\ b.waiting # "nothing" =>
           acq[i] # None /\ b.waiting = acq[i].waiting /\ b.transaction = acq[i].transaction
  PROVE  Calm
BY DEF AllSound, Calm

(***************************************************************************)
(* The process ends.                                                       *)
(***************************************************************************)
LEMMA DownNode ==
  ASSUME NodeType, Down
  PROVE  /\ NodeType' /\ AllSound' /\ Calm /\ recon' = None
         /\ acq' = [i \in IDs |-> None]
<1>1. /\ up' = FALSE /\ policy' = policy /\ tx' = tx /\ recon' = None /\ onAir' = onAir
      /\ inspected' = [i \in IDs |-> {}] /\ acq' = [i \in IDs |-> None]
      /\ stops < MaxStops /\ stops' = stops + 1
  BY DEF Down
<1>2. stops' \in 0 .. MaxStops
  BY <1>1, AcquisitionAssumption DEF NodeType
<1>3. NodeType'
  BY <1>1, <1>2 DEF NodeType
<1>4. Calm
  BY <1>1 DEF Calm
<1> QED
  BY <1>1, <1>3, <1>4, NoneSound

(***************************************************************************)
(* What is left in a partial directory.                                    *)
(***************************************************************************)
PartialType == partial \in [IDs -> Manifests \cup {None}] /\ chunkFile \in [IDs -> [Chunks -> Bytes]]

LEMMA LeaveFacts ==
  ASSUME DiskType, StoredHeld(partial), NEW i \in IDs,
         NEW manifest \in Manifests \cup {None}, manifest # None => HeldBySomeone(i, manifest),
         NEW files \in [Chunks -> Bytes], Leave(i, manifest, files)
  PROVE  /\ PartialType' /\ StoredHeld(partial')
         /\ partial'[i] = manifest /\ chunkFile'[i] = files
         /\ \A j \in IDs \ {i} : partial'[j] = partial[j] /\ chunkFile'[j] = chunkFile[j]
BY DEF DiskType, PartialType, StoredHeld, Leave, HeldBySomeone

LEMMA NoChunksType == NoChunks \in [Chunks -> Bytes]
BY DEF NoChunks, Bytes

(***************************************************************************)
(* Commit succeeds, fails, or finds the wrong hash, and the process may    *)
(* end inside it: what is stored is still what somebody holds, and the     *)
(* acquisition that is left holds nothing its directory does not.          *)
(***************************************************************************)
Committable(i, a) ==
  /\ a \in Acquisitions /\ Pinned(i, a) /\ Admitted(i, a, policy, want[i])
  /\ a.assembly # None /\ AllReceived(a.chunks)

Committed(i, a, insp, restart) == Commit(i, a, insp) \/ Mismatch(i, a, insp, restart)

CommitDisk ==
  /\ PartialType' /\ StoredHeld(partial')
  /\ complete' \in [IDs -> Manifests \cup {None}] /\ StoredHeld(complete')

LEMMA CommittableFacts ==
  ASSUME NEW i \in IDs, NEW a, Committable(i, a)
  PROVE  /\ a.assembly \in Manifests /\ HeldBySomeone(i, a.assembly)
         /\ a.chunks \in [Chunks -> Bytes]
BY DEF Committable, Admitted, Acquisitions

LEMMA LeaveKeeps ==
  ASSUME DiskType, StoredHeld(partial), NEW i \in IDs, NEW a, Committable(i, a),
         NEW manifest \in {None, a.assembly}, NEW files \in [Chunks -> Bytes],
         Leave(i, manifest, files)
  PROVE  /\ PartialType' /\ StoredHeld(partial')
         /\ partial'[i] = manifest /\ chunkFile'[i] = files
         /\ \A j \in IDs \ {i} : partial'[j] = partial[j] /\ chunkFile'[j] = chunkFile[j]
<1>1. /\ manifest \in Manifests \cup {None}
      /\ manifest # None => HeldBySomeone(i, manifest)
  BY CommittableFacts
<1> QED
  BY <1>1, LeaveFacts

\* files that are left after some were removed
LEMMA WithoutType ==
  ASSUME NEW f \in [Chunks -> Bytes], NEW removed
  PROVE  Without(f, removed) \in [Chunks -> Bytes]
BY DEF Without, Bytes

LEMMA LeftoverFiles ==
  ASSUME NEW i \in IDs, NEW a, Committable(i, a), Leftover(i, a)
  PROVE  \E manifest \in {None, a.assembly}, files \in [Chunks -> Bytes] :
           Leave(i, manifest, files)
BY CommittableFacts, WithoutType DEF Leftover

LEMMA CommittedDisk ==
  ASSUME DiskType, StoredHeld(partial), StoredHeld(complete),
         NEW i \in IDs, NEW a, Committable(i, a), NEW insp, NEW restart \in BOOLEAN,
         Committed(i, a, insp, restart)
  PROVE  /\ CommitDisk
         /\ \A j \in IDs \ {i} : /\ partial'[j] = partial[j] /\ chunkFile'[j] = chunkFile[j]
                                /\ complete'[j] = complete[j]
<1>1. \/ complete' = complete
      \/ complete' = [complete EXCEPT ![i] = a.assembly]
  BY DEF Committed, Commit, Mismatch
<1>2. a.assembly \in Manifests /\ HeldBySomeone(i, a.assembly)
  BY CommittableFacts
<1>3. /\ complete' \in [IDs -> Manifests \cup {None}] /\ StoredHeld(complete')
      /\ \A j \in IDs \ {i} : complete'[j] = complete[j]
  BY <1>1, <1>2 DEF DiskType, StoredHeld
<1>4. \E manifest \in {None, a.assembly}, files \in [Chunks -> Bytes] :
        Leave(i, manifest, files)
  BY CommittableFacts, NoChunksType, LeftoverFiles DEF Committed, Commit, Mismatch
<1> QED
  BY <1>3, <1>4, LeaveKeeps DEF CommitDisk

LEMMA CommittedNode ==
  ASSUME NodeType, AllSound, DiskType, StoredHeld(partial), StoredHeld(complete), UNCHANGED want,
         NEW i \in IDs, NEW a, Committable(i, a),
         NEW insp \in [IDs -> SUBSET Peers], NEW restart \in BOOLEAN,
         Committed(i, a, insp, restart)
  PROVE  NodeType' /\ AllSound' /\ Calm /\ recon' \in {recon, None}
<1> DEFINE same == UNCHANGED <<up, recon, policy, tx, outside>>
<1>0. \A j \in IDs \ {i} : /\ partial'[j] = partial[j] /\ chunkFile'[j] = chunkFile[j]
                          /\ complete'[j] = complete[j]
  BY CommittedDisk
<1>1. CASE Down
  BY <1>1, DownNode
<1>2. ASSUME Finished(i), same
      PROVE  NodeType' /\ AllSound' /\ Calm
  <2>1. NodeType'
    BY <1>2 DEF NodeType, Finished, outside
  <2>2. acq' = [acq EXCEPT ![i] = None] /\ SameBut(i)
    BY <1>0, <1>2 DEF Finished, Forget, SameBut
  <2> QED
    BY <2>1, <2>2, OneSound, CalmOne DEF SoundOrNone
<1>3. ASSUME NEW b, Fail(i, b), inspected' = insp, same,
             b \in Acquisitions, Pinned(i, b), Admitted(i, b, policy, want[i]),
             Durable(b, partial'[i], chunkFile'[i], complete'[i])
      PROVE  NodeType' /\ AllSound' /\ Calm
  <2>1. NodeType'
    BY <1>3 DEF NodeType, outside
  <2>2. acq' = [acq EXCEPT ![i] = Failed(b)] /\ SameBut(i)
    BY <1>0, <1>3 DEF Fail, SameBut
  <2>3. /\ Sound(i, Failed(b), policy, want[i], partial'[i], chunkFile'[i], complete'[i])
        /\ Failed(b).waiting = "nothing"
    BY <1>3, FailedSound
  <2> QED
    BY <2>1, <2>2, <2>3, OneSound, CalmOne DEF SoundOrNone
<1>4. ASSUME NEW manifest \in {None, a.assembly}, NEW files \in [Chunks -> Bytes],
             Leave(i, manifest, files)
      PROVE  partial'[i] = manifest /\ chunkFile'[i] = files
  BY <1>4, LeaveKeeps
<1>5. CASE Commit(i, a, insp)
  <2>1. a \in Acquisitions /\ Pinned(i, a) /\ Admitted(i, a, policy, want[i])
    BY DEF Committable
  <2>2. CASE Finished(i) /\ same
    BY <1>2, <2>2 DEF outside
  <2>3. CASE /\ Leave(i, a.assembly, a.chunks) \/ complete' = [complete EXCEPT ![i] = a.assembly]
             /\ Fail(i, a) /\ inspected' = insp /\ same
    <3>1. Durable(a, partial'[i], chunkFile'[i], complete'[i])
      <4>1. ASSUME Leave(i, a.assembly, a.chunks)
            PROVE  partial'[i] = a.assembly /\ chunkFile'[i] = a.chunks
        BY <1>4, <4>1, CommittableFacts
      <4>2. ASSUME complete' = [complete EXCEPT ![i] = a.assembly]
            PROVE  complete'[i] = a.assembly /\ AllReceived(a.chunks)
        BY <4>2 DEF DiskType, Committable
      <4> QED
        BY <2>3, <4>1, <4>2 DEF Durable
    <3> QED
      BY <1>3, <2>1, <2>3, <3>1 DEF outside
  <2> QED
    BY <1>1, <1>5, <2>2, <2>3 DEF Commit, outside
<1>6. CASE Mismatch(i, a, insp, restart)
  <2> DEFINE begun == [a EXCEPT !.assembly = IF restart THEN @ ELSE None, !.chunks = NoChunks]
             reset == [a EXCEPT !.assembly = None, !.chunks = NoChunks]
  <2>1. /\ a \in Acquisitions /\ Pinned(i, a) /\ Admitted(i, a, policy, want[i])
        /\ \A dir, files, held : Durable(a, dir, files, held)
    BY <1>6 DEF Committable, Durable, Mismatch
  <2>2. /\ begun \in Acquisitions /\ Pinned(i, begun) /\ Admitted(i, begun, policy, want[i])
        /\ \A held : Durable(begun, IF restart THEN a.assembly ELSE None, NoChunks, held)
    BY NoChunksType DEF Committable, Acquisitions, Pinned, Admitted, Durable, NoChunks
  <2>3. /\ reset \in Acquisitions /\ Pinned(i, reset) /\ Admitted(i, reset, policy, want[i])
        /\ \A dir, files, held : Durable(reset, dir, files, held)
    BY NoChunksType DEF Committable, Acquisitions, Pinned, Admitted, Durable
  <2> HIDE DEF begun, reset
  <2>4. CASE /\ Leave(i, IF restart THEN a.assembly ELSE None, NoChunks)
             /\ Fail(i, begun) /\ inspected' = insp /\ same
    <3>1. partial'[i] = (IF restart THEN a.assembly ELSE None) /\ chunkFile'[i] = NoChunks
      BY <1>4, <2>4, NoChunksType
    <3> QED
      BY <1>3, <2>2, <2>4, <3>1 DEF outside
  <2>5. CASE /\ Fail(i, IF restart THEN a ELSE reset)
             /\ inspected' = insp /\ same
    <3>1. PICK b \in {a, reset} : Fail(i, b)
      BY <2>5
    <3> QED
      BY <1>3, <2>1, <2>3, <2>5, <3>1 DEF outside
  <2> QED
    BY <1>1, <1>6, <2>4, <2>5 DEF Mismatch, begun, reset, outside
<1>7. recon' \in {recon, None}
  BY DEF Committed, Commit, Mismatch, Down, outside
<1> QED
  BY <1>5, <1>6, <1>7 DEF Committed

-----------------------------------------------------------------------------
(***************************************************************************)
(* The invariant after a step that asks nobody.                            *)
(***************************************************************************)
LEMMA AskingNobody ==
  ASSUME AcquisitionInv, DiskType', NodeType',
         StoredHeld(known'), StoredHeld(partial'), StoredHeld(complete'),
         AllSound', Calm, recon' \in {recon, None}, air' \subseteq air
  PROVE  AcquisitionInv'
<1>1. ManifestsNotMixed'
  BY DEF ManifestsNotMixed, StoredHeld
<1>2. AirSound'
  BY DEF AcquisitionInv, AirSound, Sendable
<1>3. OneAtATime' /\ SignaturesBelong'
  BY CalmExchange, CalmBelongs DEF AcquisitionInv
<1> QED
  BY <1>1, <1>2, <1>3 DEF AcquisitionInv

LEMMA InvFacts ==
  ASSUME AcquisitionInv
  PROVE  /\ StoredHeld(known) /\ StoredHeld(partial) /\ StoredHeld(complete)
         /\ acq \in [IDs -> Acquisitions \cup {None}]
         /\ \A i \in Active : /\ i \in IDs /\ acq[i] \in Acquisitions
                              /\ Sound(i, acq[i], policy, want[i], partial[i], chunkFile[i], complete[i])
BY NotMixed DEF AcquisitionInv, AllSound, SoundOrNone, Active

(***************************************************************************)
(* Nothing durable changes.                                                *)
(***************************************************************************)
LEMMA SameDisk ==
  ASSUME AcquisitionInv, UNCHANGED disk
  PROVE  /\ DiskType' /\ StoredHeld(known') /\ StoredHeld(partial') /\ StoredHeld(complete')
BY InvFacts DEF AcquisitionInv, DiskType, disk

LEMMA SameSound ==
  ASSUME AcquisitionInv, UNCHANGED <<acq, policy, want, partial, chunkFile, complete>>
  PROVE  AllSound' /\ Calm
BY DEF AcquisitionInv, AllSound, Calm

-----------------------------------------------------------------------------
(***************************************************************************)
(* What a start resumes, and what it leaves of the unreadable partials.    *)
(***************************************************************************)
Started(unreadable) ==
  /\ acq' = [i \in IDs |-> IF i \in unreadable THEN NewAcquisition ELSE Resumed(i)]
  /\ \E gone \in SUBSET unreadable :
       partial' = [i \in IDs |-> IF i \in gone THEN None ELSE partial[i]]
  /\ \E removed : chunkFile' = [i \in IDs |-> IF i \in unreadable
                    THEN Without(chunkFile[i], removed[i]) ELSE chunkFile[i]]

LEMMA StartedSome ==
  ASSUME Start
  PROVE  \E unreadable \in SUBSET IDs : Started(unreadable)
<1>1. PICK others \in SUBSET {i \in IDs : partial[i] # None} :
        \E gone \in SUBSET others, removed \in [Headless \cup others -> SUBSET Chunks] :
          /\ "disk" \notin Faults =>
               others = {} /\ removed = [i \in Headless \cup others |-> Chunks]
          /\ acq' = [i \in IDs |-> IF i \in Headless \cup others
                                   THEN NewAcquisition ELSE Resumed(i)]
          /\ partial' = [i \in IDs |-> IF i \in gone THEN None ELSE partial[i]]
          /\ chunkFile' = [i \in IDs |-> IF i \in Headless \cup others
                            THEN Without(chunkFile[i], removed[i]) ELSE chunkFile[i]]
  BY DEF Start
<1>2. others \subseteq Headless \cup others /\ Headless \cup others \subseteq IDs
  BY DEF Headless
<1>3. Started(Headless \cup others)
  BY <1>1, <1>2 DEF Started
<1> QED
  BY <1>2, <1>3

(***************************************************************************)
(* The node starts: what it resumes is what its directories hold and its   *)
(* policy, which may be another one, admits.                               *)
(***************************************************************************)
LEMMA StartInv == AcquisitionInv /\ Start => AcquisitionInv'
<1> SUFFICES ASSUME AcquisitionInv, Start PROVE AcquisitionInv'
  OBVIOUS
<1>1. PICK unreadable \in SUBSET IDs : Started(unreadable)
  BY StartedSome
<1>2. /\ partial' \in [IDs -> Manifests \cup {None}] /\ chunkFile' \in [IDs -> [Chunks -> Bytes]]
      /\ StoredHeld(partial')
      /\ \A i \in IDs \ unreadable : partial'[i] = partial[i] /\ chunkFile'[i] = chunkFile[i]
  BY <1>1, InvFacts, WithoutType DEF Started, AcquisitionInv, DiskType, StoredHeld
<1>3. policy' \in PolicySettings
  BY DEF Start, AcquisitionInv, NodeType
<1>4. NodeType' /\ DiskType' /\ StoredHeld(known') /\ StoredHeld(complete')
  BY <1>2, <1>3, InvFacts DEF Start, AcquisitionInv, NodeType, DiskType, outside
<1>5. ASSUME NEW i \in IDs
      PROVE  /\ SoundOrNone(i, acq'[i], policy', want'[i], partial'[i], chunkFile'[i], complete'[i])
             /\ acq'[i] # None => acq'[i].waiting = "nothing"
  <2>1. want' = want /\ complete' = complete
    BY DEF Start
  <2>2. NewAcquisition.waiting = "nothing"
    BY DEF NewAcquisition
  <2>3. CASE acq'[i] = NewAcquisition
    BY <2>2, <2>3, NewSound DEF SoundOrNone
  <2>4. CASE acq'[i] = None
    BY <2>4 DEF SoundOrNone
  <2>5. CASE acq'[i] \notin {None, NewAcquisition}
    <3> DEFINE a == [NewAcquisition EXCEPT !.assembly = partial[i], !.chunks = chunkFile[i]]
    <3>1. /\ i \notin unreadable /\ partial[i] # None /\ acq'[i] = a
          /\ Accept(policy', partial[i], i \in Big, TRUE, want[i])
      BY <1>1, <2>5 DEF Started, Resumed
    <3>2. NewAcquisition \in Acquisitions
      BY NewSound DEF Sound
    <3>3. /\ partial[i] \in Manifests /\ HeldBySomeone(i, partial[i])
          /\ chunkFile[i] \in [Chunks -> Bytes]
      BY <3>1, InvFacts DEF AcquisitionInv, DiskType, StoredHeld
    <3>4. /\ a \in Acquisitions /\ a.assembly = partial[i] /\ a.chunks = chunkFile[i]
          /\ a.manifest = None /\ a.manifestSource = None /\ a.waiting = "nothing"
      BY <3>2, <3>3 DEF Acquisitions, NewAcquisition
    <3> HIDE DEF a
    <3>5. Sound(i, a, policy', want[i], partial[i], chunkFile[i], complete[i])
      BY <3>1, <3>3, <3>4 DEF Sound, Pinned, Waits, Admitted, Durable
    <3> QED
      BY <1>2, <2>1, <3>1, <3>4, <3>5 DEF SoundOrNone
  <2> QED
    BY <2>3, <2>4, <2>5
<1>6. AllSound'
  <2>1. acq' \in [IDs -> Acquisitions \cup {None}]
    BY <1>1, <1>5 DEF Started, SoundOrNone, Sound
  <2> QED
    BY <1>5, <2>1 DEF AllSound
<1>7. Calm
  BY <1>5 DEF Calm
<1> QED
  BY <1>2, <1>4, <1>6, <1>7, AskingNobody DEF Start

LEMMA StopInv == AcquisitionInv /\ Stop => AcquisitionInv'
<1> SUFFICES ASSUME AcquisitionInv, Stop PROVE AcquisitionInv'
  OBVIOUS
<1>1. NodeType' /\ AllSound' /\ Calm /\ recon' = None
  BY DownNode DEF Stop, AcquisitionInv
<1> QED
  BY <1>1, SameDisk, AskingNobody DEF Stop

LEMMA ReconcileTimeoutInv == AcquisitionInv /\ ReconcileTimeout => AcquisitionInv'
<1> SUFFICES ASSUME AcquisitionInv, ReconcileTimeout PROVE AcquisitionInv'
  OBVIOUS
<1>1. NodeType'
  BY DEF ReconcileTimeout, AcquisitionInv, NodeType, outside
<1>2. AllSound' /\ Calm
  BY SameSound DEF ReconcileTimeout, disk
<1> QED
  BY <1>1, <1>2, SameDisk, AskingNobody DEF ReconcileTimeout

LEMMA TimeoutInv ==
  ASSUME AcquisitionInv, NEW i \in IDs, Timeout(i) PROVE AcquisitionInv'
<1>1. i \in Active /\ acq' = [acq EXCEPT ![i] = Failed(acq[i])]
  BY DEF Timeout, Outstanding, Fail
<1>2. /\ Sound(i, Failed(acq[i]), policy, want[i], partial[i], chunkFile[i], complete[i])
      /\ Failed(acq[i]).waiting = "nothing"
  BY <1>1, InvFacts, FailedSound DEF Sound
<1>3. SameBut(i) /\ UNCHANGED <<partial, chunkFile, complete>>
  BY DEF Timeout, SameBut, disk
<1>4. AllSound' /\ Calm
  BY <1>1, <1>2, <1>3, OneSound, CalmOne DEF AcquisitionInv, SoundOrNone
<1>5. NodeType'
  BY DEF Timeout, AcquisitionInv, NodeType, outside
<1> QED
  BY <1>4, <1>5, SameDisk, AskingNobody DEF Timeout

LEMMA DepartInv ==
  ASSUME AcquisitionInv, NEW p \in Peers, Depart(p) PROVE AcquisitionInv'
<1>1. NodeType'
  BY DEF Depart, AcquisitionInv, NodeType, runtime
<1>2. AllSound' /\ Calm
  BY SameSound DEF Depart, disk, runtime
<1> QED
  BY <1>1, <1>2, SameDisk, AskingNobody DEF Depart, runtime

(***************************************************************************)
(* What the operator marks is admitted more easily, not less.              *)
(***************************************************************************)
LEMMA WantInv ==
  ASSUME AcquisitionInv, NEW i \in IDs, Want(i) PROVE AcquisitionInv'
<1>1. NodeType' /\ DiskType'
  BY DEF Want, AcquisitionInv, NodeType, DiskType, runtime, outside
<1>2. ASSUME NEW j \in IDs
      PROVE  SoundOrNone(j, acq[j], policy, want'[j], partial[j], chunkFile[j], complete[j])
  <2>1. SoundOrNone(j, acq[j], policy, want[j], partial[j], chunkFile[j], complete[j])
    BY DEF AcquisitionInv, AllSound
  <2>2. want[j] => want'[j]
    BY DEF Want, AcquisitionInv, DiskType
  <2>3. ASSUME NEW m, NEW big, Accept(policy, m, big, TRUE, want[j])
        PROVE  Accept(policy, m, big, TRUE, want'[j])
    BY <2>2, <2>3 DEF Accept
  <2> QED
    BY <2>1, <2>3 DEF SoundOrNone, Sound, Admitted
<1>3. AllSound'
  BY <1>2 DEF AllSound, AcquisitionInv, Want, runtime
<1>4. Calm
  BY DEF Calm, Want, runtime
<1> QED
  BY <1>1, <1>3, <1>4, InvFacts, AskingNobody DEF Want, runtime

-----------------------------------------------------------------------------
(***************************************************************************)
(* A request: nothing else was outstanding, and what is still in the air   *)
(* has another transaction number.                                         *)
(***************************************************************************)
LEMMA TransmitSound ==
  ASSUME AirSound, NEW m, Sendable(m), Transmit(m)
  PROVE  /\ AirSound'
         /\ m \in air' /\ \A l \in air' : l = m \/ (l \in air /\ l.tx # m.tx)
<1>1. PICK late \in SUBSET air : /\ \A l \in late : l.tx # m.tx
                                 /\ air' = late \cup {m}
  BY DEF Transmit
<1>2. \A l \in air' : Sendable(l)
  BY <1>1 DEF AirSound
<1> QED
  BY <1>1, <1>2 DEF AirSound, Sendable

LEMMA QuietAfter ==
  ASSUME AcquisitionInv, Outstanding' = {}, DiskType', NodeType',
         StoredHeld(known'), StoredHeld(partial'), StoredHeld(complete'),
         AllSound', AirSound'
  PROVE  AcquisitionInv'
<1>1. OneAtATime' /\ SignaturesBelong'
  BY DEF OneAtATime, SignaturesBelong
<1>2. ManifestsNotMixed'
  BY DEF ManifestsNotMixed, StoredHeld
<1> QED
  BY <1>1, <1>2 DEF AcquisitionInv

LEMMA RequestInv ==
  ASSUME AcquisitionInv, CanInitiate, NEW i \in Active, acq[i].sources # <<>>,
         tx' = NextTx, UNCHANGED <<up, policy, inspected, recon, disk, outside>>,
         NEW kind \in {"GetManifest", "GetSignature", "GetChunks"},
         kind = "GetSignature" => acq[i].manifest # None,
         NEW wanted \in SUBSET Chunks,
         kind = "GetChunks" => /\ acq[i].assembly # None /\ wanted # {}
                               /\ \A c \in wanted : acq[i].chunks[c] = "absent",
         Request(i, kind, wanted)
  PROVE  AcquisitionInv'
<1> DEFINE a == Addressed(acq[i])
           w == Waiting(acq[i], kind, wanted)
           m == [kind |-> kind, peer |-> a.activeSource, tx |-> NextTx,
                 id |-> i, chunks |-> wanted]
<1>1. /\ i \in IDs /\ acq[i] \in Acquisitions /\ Pinned(i, acq[i])
      /\ Sound(i, acq[i], policy, want[i], partial[i], chunkFile[i], complete[i])
      /\ NodeType /\ NextTx \in 0 .. TxCount - 1
  BY InvFacts, NextTxType DEF Sound, AcquisitionInv
<1>2. /\ a \in Acquisitions /\ a.activeSource \in Peers /\ a.waiting = acq[i].waiting
      /\ Sound(i, a, policy, want[i], partial[i], chunkFile[i], complete[i])
  BY <1>1, AddressedFields, SourceChosen, AddressedSound
<1>3. /\ Sound(i, w, policy, want[i], partial[i], chunkFile[i], complete[i])
      /\ w.transaction = NextTx /\ w.waiting # "nothing"
      /\ w.waiting = "Signature" => kind = "GetSignature"
  BY <1>1, RequestSound
<1>4. /\ DiskType' /\ NodeType' /\ SameBut(i) /\ UNCHANGED <<partial, chunkFile, complete>>
      /\ StoredHeld(known') /\ StoredHeld(partial') /\ StoredHeld(complete')
  BY <1>1, SameDisk DEF AcquisitionInv, NodeType, SameBut, outside, disk
<1>5. Sendable(m) /\ m.tx = NextTx /\ m.kind = kind /\ m.id = i
  BY <1>1, <1>2 DEF Sendable, RequestKinds
<1>6. \/ acq' = [acq EXCEPT ![i] = w] /\ Transmit(m)
      \/ acq' = [acq EXCEPT ![i] = Failed(a)] /\ (UNCHANGED air \/ Transmit(m))
  BY Zenon DEF Request, Waiting, Fail
<1>7. Outstanding = {} /\ recon = None /\ recon' = None
  BY DEF CanInitiate
<1>8. AirSound'
  <2>1. CASE Transmit(m)
    BY <1>5, <2>1, TransmitSound DEF AcquisitionInv
  <2>2. CASE UNCHANGED air
    BY <2>2 DEF AcquisitionInv, AirSound, Sendable
  <2> QED
    BY <1>6, <2>1, <2>2
<1> HIDE DEF a, w, m
<1>9. CASE acq' = [acq EXCEPT ![i] = w] /\ Transmit(m)
  <2>1. AllSound'
    BY <1>1, <1>3, <1>4, <1>9, OneSound DEF AcquisitionInv, SoundOrNone
  <2>2. acq'[i] = w /\ \A j \in IDs \ {i} : acq'[j] = acq[j]
    BY <1>1, <1>9, InvFacts
  <2>3. Outstanding' \subseteq {i}
    BY <1>7, <2>2 DEF Outstanding, Active
  <2>4. OneAtATime'
    BY <1>7, <2>3 DEF OneAtATime
  <2>5. SignaturesBelong'
    <3> SUFFICES ASSUME w.waiting = "Signature", NEW l \in air', l.tx = w.transaction
                 PROVE  Belongs(i, l)
      BY <2>2, <2>3 DEF SignaturesBelong, Belongs
    <3>1. l = m
      BY <1>3, <1>5, <1>9, TransmitSound DEF AcquisitionInv
    <3> QED
      BY <1>3, <1>5, <3>1 DEF Belongs
  <2>6. ManifestsNotMixed'
    BY <1>4 DEF ManifestsNotMixed, StoredHeld
  <2> QED
    BY <1>4, <1>8, <2>1, <2>4, <2>5, <2>6 DEF AcquisitionInv
<1>10. CASE acq' = [acq EXCEPT ![i] = Failed(a)]
  <2>1. /\ Sound(i, Failed(a), policy, want[i], partial[i], chunkFile[i], complete[i])
        /\ Failed(a).waiting = "nothing"
    BY <1>1, <1>2, FailedSound DEF Sound
  <2>2. AllSound' /\ Calm
    BY <1>1, <1>4, <1>10, <2>1, OneSound, CalmOne DEF AcquisitionInv, SoundOrNone
  <2>3. Outstanding' = {}
    BY <1>7, <2>2, CalmOutstanding
  <2> QED
    BY <1>4, <1>8, <2>2, <2>3, QuietAfter
<1> QED
  BY <1>6, <1>9, <1>10

LEMMA InitiateInv ==
  ASSUME AcquisitionInv, NEW i \in IDs, Initiate(i) PROVE AcquisitionInv'
<1>1. /\ CanInitiate /\ i \in Active /\ acq[i].sources # <<>>
      /\ tx' = NextTx /\ UNCHANGED <<up, policy, inspected, recon, disk, outside>>
  BY DEF Initiate
<1>2. /\ acq[i] \in Acquisitions /\ acq[i].wanted \in SUBSET Chunks
      /\ Sound(i, acq[i], policy, want[i], partial[i], chunkFile[i], complete[i])
  BY <1>1, InvFacts DEF Acquisitions
<1>3. CASE Request(i, "GetManifest", acq[i].wanted)
  BY <1>1, <1>2, <1>3, RequestInv
<1>4. CASE acq[i].manifest # None /\ Request(i, "GetSignature", acq[i].wanted)
  BY <1>1, <1>2, <1>4, RequestInv
<1>5. CASE /\ acq[i].assembly # None /\ ~AllReceived(acq[i].chunks)
           /\ \E n \in 1 .. MaxBatch : Request(i, "GetChunks", Batch(acq[i], n))
  <2>1. PICK n \in 1 .. MaxBatch : Request(i, "GetChunks", Batch(acq[i], n))
    BY <1>5
  <2>2. /\ Batch(acq[i], n) \in SUBSET Chunks /\ Batch(acq[i], n) # {}
        /\ \A c \in Batch(acq[i], n) : acq[i].chunks[c] = "absent"
    BY <1>2, <1>5, BatchMissing
  <2> QED
    BY <1>1, <1>5, <2>1, <2>2, RequestInv
<1>6. CASE acq' = [acq EXCEPT ![i] = Addressed(@)] /\ UNCHANGED air
  <2>1. acq' = [acq EXCEPT ![i] = Addressed(acq[i])]
    BY <1>6
  <2>2. /\ Sound(i, Addressed(acq[i]), policy, want[i], partial[i], chunkFile[i], complete[i])
        /\ Addressed(acq[i]).waiting = acq[i].waiting
    BY <1>1, <1>2, AddressedSound, AddressedFields DEF AcquisitionInv, Sound
  <2>3. acq[i].waiting = "nothing"
    BY <1>1 DEF CanInitiate, Outstanding
  <2>4. SameBut(i) /\ UNCHANGED <<partial, chunkFile, complete>>
    BY <1>1 DEF SameBut, disk
  <2>5. AllSound' /\ Calm
    BY <2>1, <2>2, <2>3, <2>4, OneSound, CalmOne DEF AcquisitionInv, SoundOrNone
  <2>6. NodeType'
    BY <1>1, NextTxType DEF AcquisitionInv, NodeType, outside
  <2> QED
    BY <1>1, <1>6, <2>5, <2>6, SameDisk, AskingNobody
<1> QED
  BY <1>3, <1>4, <1>5, <1>6 DEF Initiate

LEMMA InitiateReconcileInv ==
  ASSUME AcquisitionInv, NEW p \in Peers, InitiateReconcile(p) PROVE AcquisitionInv'
<1> DEFINE m == [kind |-> "SummaryRequest", peer |-> p, tx |-> NextTx]
<1>1. NextTx \in 0 .. TxCount - 1
  BY NextTxType DEF AcquisitionInv
<1>2. Sendable(m)
  BY <1>1 DEF Sendable, RequestKinds
<1>3. /\ recon' \in {recon, [peer |-> p, tx |-> NextTx]}
      /\ UNCHANGED air \/ Transmit(m)
  BY DEF InitiateReconcile
<1>4. AirSound'
  <2>1. CASE Transmit(m)
    BY <1>2, <2>1, TransmitSound DEF AcquisitionInv
  <2>2. CASE UNCHANGED air
    BY <2>2 DEF AcquisitionInv, AirSound, Sendable
  <2> QED
    BY <1>3, <2>1, <2>2
<1>5. NodeType'
  BY <1>1, <1>3 DEF InitiateReconcile, AcquisitionInv, NodeType, outside
<1>6. Outstanding' = {} /\ AllSound'
  BY SameSound, CalmOutstanding DEF InitiateReconcile, CanInitiate, disk
<1> QED
  BY <1>4, <1>5, <1>6, SameDisk, QuietAfter DEF InitiateReconcile

-----------------------------------------------------------------------------
(***************************************************************************)
(* The peer's side: an answer is of what the peer holds and bears the      *)
(* transaction number of its request, so it belongs where that did.        *)
(***************************************************************************)
LEMMA AnsweredInv ==
  ASSUME AcquisitionInv, UNCHANGED <<disk, runtime, outside>>,
         NEW m \in air, NEW answers, air' = (air \ {m}) \cup answers,
         \A l \in answers : /\ Sendable(l) /\ l.tx = m.tx
                            /\ \A i \in IDs : Belongs(i, m) => Belongs(i, l)
  PROVE  AcquisitionInv'
<1>1. NodeType' /\ AllSound' /\ OneAtATime'
  BY DEF AcquisitionInv, NodeType, AllSound, OneAtATime, Outstanding, Active,
         runtime, disk, outside
<1>2. AirSound'
  BY DEF AcquisitionInv, AirSound, Sendable
<1>3. SignaturesBelong'
  <2> SUFFICES ASSUME NEW i \in Outstanding, acq[i].waiting = "Signature",
                      NEW l \in air', l.tx = acq[i].transaction
               PROVE  Belongs(i, l)
    BY DEF SignaturesBelong, Outstanding, Active, runtime, Belongs
  <2>1. i \in IDs
    BY DEF Outstanding, Active
  <2> QED
    BY <2>1 DEF AcquisitionInv, SignaturesBelong
<1>4. ManifestsNotMixed' /\ DiskType'
  BY DEF AcquisitionInv, ManifestsNotMixed, DiskType, disk
<1> QED
  BY <1>1, <1>2, <1>3, <1>4 DEF AcquisitionInv

LEMMA AnsweredOne ==
  ASSUME AcquisitionInv, UNCHANGED <<disk, runtime, outside>>,
         NEW m \in air, NEW l, air' = (air \ {m}) \cup {l},
         Sendable(l), l.tx = m.tx, \A i \in IDs : Belongs(i, m) => Belongs(i, l)
  PROVE  AcquisitionInv'
<1> DEFINE answers == {l}
<1>1. \A k \in answers : /\ Sendable(k) /\ k.tx = m.tx
                         /\ \A i \in IDs : Belongs(i, m) => Belongs(i, k)
  OBVIOUS
<1>2. air' = (air \ {m}) \cup answers
  OBVIOUS
<1> HIDE DEF answers
<1> QED
  BY <1>1, <1>2, AnsweredInv

LEMMA ServeInv ==
  ASSUME AcquisitionInv, NEW m \in air, NEW sent, NEW spoilt, Serve(m, sent, spoilt)
  PROVE  AcquisitionInv'
<1>1. Sendable(m)
  BY DEF AcquisitionInv, AirSound
<1>2. UNCHANGED <<disk, runtime, outside>> /\ m.kind \in RequestKinds
  BY DEF Serve
<1>3. CASE m.kind = "SummaryRequest"
  <2> DEFINE l == [kind |-> "Leaf", peer |-> m.peer, tx |-> m.tx,
                   ids |-> {i \in IDs : Held[m.peer][i] # None}]
  <2>1. air' = (air \ {m}) \cup {l}
    BY <1>3 DEF Serve
  <2>2. Sendable(l) /\ l.tx = m.tx /\ \A i \in IDs : Belongs(i, l)
    BY <1>1 DEF Sendable, AnswerKinds, Belongs
  <2> HIDE DEF l
  <2> QED
    BY <1>2, <2>1, <2>2, AnsweredOne
<1>4. CASE m.kind # "SummaryRequest"
  <2> DEFINE held == Held[m.peer][m.id]
  <2>1. m.id \in IDs /\ held \in Manifests
    BY <1>1, <1>2, <1>4, AcquisitionAssumption DEF Sendable, RequestKinds, Serve
  <2>2. held # None /\ held.name \in Names /\ held.sig \in Signatures
    BY <2>1, NoneAssumption DEF Manifests
  <2>3. CASE m.kind = "GetManifest"
    <3> DEFINE l == [kind |-> "Manifest", peer |-> m.peer, tx |-> m.tx,
                     id |-> m.id, name |-> held.name, good |-> TRUE]
    <3>1. air' = (air \ {m}) \cup {l}
      BY <2>3 DEF Serve
    <3>2. Sendable(l) /\ l.tx = m.tx /\ \A i \in IDs : Belongs(i, l)
      BY <1>1, <2>1, <2>2 DEF Sendable, AnswerKinds, Belongs
    <3> HIDE DEF l
    <3> QED
      BY <1>2, <3>1, <3>2, AnsweredOne
  <2>4. CASE m.kind = "GetSignature"
    <3> DEFINE l == [kind |-> "Signature", peer |-> m.peer, tx |-> m.tx,
                     sig |-> held.sig, good |-> TRUE]
    <3>1. air' = (air \ {m}) \cup {l}
      BY <2>4 DEF Serve
    <3>2. Sendable(l) /\ l.tx = m.tx
      BY <1>1, <2>1, <2>2 DEF Sendable, AnswerKinds
    <3>3. \A i \in IDs : Belongs(i, m) => Belongs(i, l)
      BY <2>2, <2>4 DEF Belongs
    <3> HIDE DEF l
    <3> QED
      BY <1>2, <3>1, <3>2, <3>3, AnsweredOne
  <2>5. CASE m.kind = "GetChunks"
    <3> DEFINE answers == {[kind |-> "Chunk", peer |-> m.peer, tx |-> m.tx,
                            id |-> m.id, index |-> c, good |-> c \notin spoilt] : c \in sent}
    <3>1. air' = (air \ {m}) \cup answers /\ sent \subseteq Chunks
      BY <2>5 DEF Serve
    <3>2. ASSUME NEW l \in answers
          PROVE  Sendable(l) /\ l.tx = m.tx /\ \A i \in IDs : Belongs(i, l)
      <4>1. PICK c \in sent : l = [kind |-> "Chunk", peer |-> m.peer, tx |-> m.tx,
                                   id |-> m.id, index |-> c, good |-> c \notin spoilt]
        OBVIOUS
      <4>2. /\ l.kind = "Chunk" /\ l.peer = m.peer /\ l.tx = m.tx
            /\ l.index = c /\ l.good \in BOOLEAN
        BY <4>1
      <4> QED
        BY <1>1, <3>1, <4>2 DEF Sendable, RequestKinds, AnswerKinds, Belongs
    <3> HIDE DEF answers
    <3> QED
      BY <1>2, <3>1, <3>2, AnsweredInv
  <2> QED
    BY <1>2, <1>4, <2>3, <2>4, <2>5 DEF RequestKinds
<1> QED
  BY <1>3, <1>4

LEMMA ServeMalformedInv ==
  ASSUME AcquisitionInv, NEW m \in air, ServeMalformed(m) PROVE AcquisitionInv'
<1>1. PICK kind \in {"Manifest", "Signature"} :
        air' = (air \ {m}) \cup {[kind |-> kind, peer |-> m.peer, tx |-> m.tx, good |-> FALSE]}
  BY DEF ServeMalformed
<1> DEFINE l == [kind |-> kind, peer |-> m.peer, tx |-> m.tx, good |-> FALSE]
<1>2. Sendable(m)
  BY DEF AcquisitionInv, AirSound
<1>3. l.kind \in {"Manifest", "Signature"} /\ l.peer = m.peer /\ l.tx = m.tx /\ ~l.good
  OBVIOUS
<1>4. air' = (air \ {m}) \cup {l} /\ UNCHANGED <<disk, runtime, outside>>
  BY <1>1 DEF ServeMalformed
<1> HIDE DEF l
<1>5. Sendable(l) /\ \A i \in IDs : Belongs(i, l)
  BY <1>2, <1>3 DEF Sendable, AnswerKinds, Belongs
<1> QED
  BY <1>3, <1>4, <1>5, AnsweredOne

-----------------------------------------------------------------------------
(***************************************************************************)
(* What every accepted answer has in common.                               *)
(***************************************************************************)
LEMMA ReceivedFacts ==
  ASSUME AcquisitionInv, NEW m \in air, NEW i \in IDs, NEW kind \in AnswerKinds,
         Receives(m, i, kind)
  PROVE  /\ Sendable(m) /\ m.kind = kind /\ air' \subseteq air
         /\ i \in Outstanding /\ acq[i] \in Acquisitions /\ acq[i].waiting = kind
         /\ Sound(i, acq[i], policy, want[i], partial[i], chunkFile[i], complete[i])
         /\ acq[i].activeSource = m.peer /\ acq[i].transaction = m.tx
<1>1. /\ m.kind = kind /\ air' \subseteq air /\ acq[i] # None /\ acq[i].waiting = kind
      /\ acq[i].activeSource = m.peer /\ acq[i].transaction = m.tx
  BY DEF Receives, Heard, Answers
<1>2. Sendable(m)
  BY DEF AcquisitionInv, AirSound
<1>3. i \in Active /\ i \in Outstanding
  BY <1>1 DEF Active, Outstanding, AnswerKinds
<1> QED
  BY <1>1, <1>2, <1>3, InvFacts

LEMMA AcceptLeafInv ==
  ASSUME AcquisitionInv, NEW m \in air, AcceptLeaf(m) PROVE AcquisitionInv'
<1>1. /\ air' \subseteq air /\ recon' = None /\ m.peer \in Peers
      /\ UNCHANGED <<up, policy, inspected, tx, disk, outside>>
  BY DEF AcceptLeaf, Heard, AcquisitionInv, AirSound, Sendable
<1>2. PICK admitted :
        acq' = [i \in IDs |->
          IF i \in m.ids /\ Eligible(i, m.peer) /\ i \in Active \cup admitted
          THEN WithSource(Candidate(i), m.peer) ELSE acq[i]]
  BY DEF AcceptLeaf
<1>3. ASSUME NEW i \in IDs
      PROVE  /\ SoundOrNone(i, acq'[i], policy, want[i], partial[i], chunkFile[i], complete[i])
             /\ acq'[i] # None /\ acq'[i].waiting # "nothing" =>
                  /\ acq[i] # None /\ acq'[i].waiting = acq[i].waiting
                  /\ acq'[i].transaction = acq[i].transaction
  <2>1. SoundOrNone(i, acq[i], policy, want[i], partial[i], chunkFile[i], complete[i])
    BY DEF AcquisitionInv, AllSound
  <2>2. CASE acq'[i] = acq[i]
    BY <2>1, <2>2
  <2>3. CASE acq'[i] = WithSource(Candidate(i), m.peer)
    <3>1. Sound(i, Candidate(i), policy, want[i], partial[i], chunkFile[i], complete[i])
      BY <2>1, NewSound DEF Candidate, SoundOrNone
    <3>2. Candidate(i).waiting # "nothing" => acq[i] # None /\ Candidate(i) = acq[i]
      BY DEF Candidate, NewAcquisition
    <3> QED
      BY <1>1, <2>3, <3>1, <3>2, WithSourceSound DEF SoundOrNone
  <2> QED
    BY <1>2, <2>2, <2>3
<1>4. acq' \in [IDs -> Acquisitions \cup {None}]
  BY <1>2, <1>3 DEF SoundOrNone, Sound
<1>5. AllSound' /\ Calm
  BY <1>1, <1>3, <1>4 DEF AllSound, Calm, disk
<1>6. NodeType'
  BY <1>1 DEF AcquisitionInv, NodeType, outside
<1> QED
  BY <1>1, <1>5, <1>6, SameDisk, AskingNobody

LEMMA AcceptManifestInv ==
  ASSUME AcquisitionInv, NEW m \in air, NEW i \in IDs, AcceptManifest(i, m)
  PROVE  AcquisitionInv'
<1> DEFINE a == acq[i]
           pinned == [acq[i] EXCEPT !.manifest = m.name, !.manifestSource = m.peer,
                                    !.waiting = "nothing", !.activeSource = None]
<1>1. /\ Sendable(m) /\ m.kind = "Manifest" /\ air' \subseteq air /\ a \in Acquisitions
      /\ Sound(i, a, policy, want[i], partial[i], chunkFile[i], complete[i])
      /\ UNCHANGED <<up, policy, inspected, tx, recon, disk, outside>>
  BY ReceivedFacts DEF AcceptManifest, AnswerKinds
<1>2. PICK b : /\ acq' = [acq EXCEPT ![i] = b] /\ b.waiting = "nothing"
               /\ Sound(i, b, policy, want[i], partial[i], chunkFile[i], complete[i])
  <2>1. CASE acq' = [acq EXCEPT ![i] = Failed(a)]
    BY <1>1, <2>1, FailedSound DEF Sound
  <2>2. CASE m.good /\ m.id = i /\ acq' = [acq EXCEPT ![i] = pinned]
    <3>1. /\ m.peer \in Peers /\ Held[m.peer][i] \in Manifests /\ Held[m.peer][i] # None
          /\ m.name = Held[m.peer][i].name
      BY <1>1, <2>2, AcquisitionAssumption DEF Sendable
    <3>2. m.name \in Names /\ m.name # None /\ m.peer # None
      BY <3>1, NoneAssumption DEF Manifests
    <3>3. /\ pinned \in Acquisitions /\ pinned.waiting = "nothing"
          /\ pinned.manifest = m.name /\ pinned.manifestSource = m.peer
          /\ pinned.assembly = a.assembly /\ pinned.chunks = a.chunks
      BY <1>1, <3>1, <3>2 DEF Acquisitions
    <3> HIDE DEF pinned
    <3>4. Sound(i, pinned, policy, want[i], partial[i], chunkFile[i], complete[i])
      BY <1>1, <3>1, <3>2, <3>3 DEF Sound, Pinned, Waits, Admitted, Durable
    <3> QED
      BY <2>2, <3>3, <3>4
  <2> QED
    BY <2>1, <2>2 DEF AcceptManifest, Fail
<1>3. SameBut(i) /\ UNCHANGED <<partial, chunkFile, complete>>
  BY <1>1 DEF SameBut, disk
<1>4. AllSound' /\ Calm
  BY <1>2, <1>3, OneSound, CalmOne DEF AcquisitionInv, SoundOrNone
<1>5. NodeType'
  BY <1>1 DEF AcquisitionInv, NodeType, outside
<1> QED
  BY <1>1, <1>4, <1>5, SameDisk, AskingNobody

-----------------------------------------------------------------------------
(***************************************************************************)
(* The signature: with the pinned name it makes a manifest its source      *)
(* holds, since it bears the transaction number of the exchange.           *)
(***************************************************************************)
LEMMA RejectSignatureInv ==
  ASSUME AcquisitionInv, NEW m \in air, NEW i \in IDs, RejectSignature(i, m)
  PROVE  AcquisitionInv'
<1> DEFINE a == acq[i]
<1>1. /\ air' \subseteq air /\ a \in Acquisitions
      /\ Sound(i, a, policy, want[i], partial[i], chunkFile[i], complete[i])
      /\ UNCHANGED <<up, policy, tx, recon, disk, outside>>
  BY ReceivedFacts DEF RejectSignature, AnswerKinds
<1>2. \/ acq' = [acq EXCEPT ![i] = Failed(a)] /\ inspected' = inspected
      \/ acq' = [acq EXCEPT ![i] = None] /\ inspected' = [inspected EXCEPT ![i] = {}]
  BY DEF RejectSignature, Fail, Finished, Forget
<1>3. PICK b : /\ acq' = [acq EXCEPT ![i] = b]
               /\ b # None => b.waiting = "nothing"
               /\ SoundOrNone(i, b, policy, want[i], partial[i], chunkFile[i], complete[i])
  <2>1. CASE acq' = [acq EXCEPT ![i] = Failed(a)]
    BY <1>1, <2>1, FailedSound DEF Sound, SoundOrNone
  <2>2. CASE acq' = [acq EXCEPT ![i] = None]
    BY <2>2 DEF SoundOrNone
  <2> QED
    BY <1>2, <2>1, <2>2
<1>4. SameBut(i) /\ UNCHANGED <<partial, chunkFile, complete>>
  BY <1>1 DEF SameBut, disk
<1>5. AllSound' /\ Calm
  BY <1>3, <1>4, OneSound, CalmOne DEF AcquisitionInv
<1>6. NodeType'
  BY <1>1, <1>2 DEF AcquisitionInv, NodeType, outside
<1> QED
  BY <1>1, <1>5, <1>6, SameDisk, AskingNobody

LEMMA CombinedManifest ==
  ASSUME AcquisitionInv, NEW m \in air, NEW i \in IDs, Receives(m, i, "Signature"), m.good
  PROVE  LET manifest == [name |-> acq[i].manifest, sig |-> m.sig]
         IN manifest \in Manifests /\ HeldBySomeone(i, manifest)
<1> DEFINE a == acq[i]
<1>1. /\ Sendable(m) /\ m.kind = "Signature" /\ i \in Outstanding /\ a.waiting = "Signature"
      /\ Sound(i, a, policy, want[i], partial[i], chunkFile[i], complete[i])
      /\ a.activeSource = m.peer /\ a.transaction = m.tx
  BY ReceivedFacts DEF AnswerKinds
<1>2. m.peer \in Peers /\ Held[m.peer][i] \in Manifests \cup {None}
  BY <1>1, AcquisitionAssumption DEF Sendable
<1>3. /\ Held[m.peer][i] # None /\ a.manifest = Held[m.peer][i].name
      /\ m.sig = Held[m.peer][i].sig
  BY <1>1 DEF Sound, Waits, Pinned, AcquisitionInv, SignaturesBelong, Belongs
<1>4. Held[m.peer][i] = [name |-> a.manifest, sig |-> m.sig]
  BY <1>2, <1>3 DEF Manifests
<1> QED
  BY <1>2, <1>3, <1>4 DEF HeldBySomeone

LEMMA InspectType ==
  ASSUME inspected \in [IDs -> SUBSET Peers], NEW i \in IDs, NEW p \in Peers
  PROVE  Inspect(i, p) \in [IDs -> SUBSET Peers]
BY DEF Inspect

LEMMA AcceptSignatureInv ==
  ASSUME AcquisitionInv, NEW m \in air, NEW i \in IDs, AcceptSignature(i, m)
  PROVE  AcquisitionInv'
<1> DEFINE a == acq[i]
           manifest == [name |-> a.manifest, sig |-> m.sig]
           admitted == Accept(policy, manifest, i \in Big, partial[i] # None, want[i])
           begun == [a EXCEPT !.assembly = manifest, !.chunks = chunkFile[i],
                              !.manifest = None, !.manifestSource = None]
           idle  == [begun EXCEPT !.waiting = "nothing"]
           same  == UNCHANGED <<up, recon, policy, tx, outside>>
           insp  == Inspect(i, m.peer)
<1>1. /\ Sendable(m) /\ air' \subseteq air /\ a \in Acquisitions /\ a.waiting = "Signature"
      /\ Sound(i, a, policy, want[i], partial[i], chunkFile[i], complete[i])
  BY ReceivedFacts DEF AcceptSignature, AnswerKinds
<1>2. manifest \in Manifests /\ HeldBySomeone(i, manifest) /\ manifest # None
  BY CombinedManifest, NoneAssumption DEF AcceptSignature
<1>3. insp \in [IDs -> SUBSET Peers]
  BY <1>1, InspectType DEF Sendable, AcquisitionInv, NodeType
<1>4. chunkFile[i] \in [Chunks -> Bytes] /\ want' = want
  BY DEF AcquisitionInv, DiskType, AcceptSignature
<1>5. /\ begun \in Acquisitions /\ begun.assembly = manifest /\ begun.chunks = chunkFile[i]
      /\ begun.manifest = None /\ begun.manifestSource = None
  BY <1>1, <1>2, <1>4 DEF Acquisitions
<1>6. /\ idle \in Acquisitions /\ idle.assembly = manifest /\ idle.chunks = chunkFile[i]
      /\ idle.manifest = None /\ idle.manifestSource = None /\ idle.waiting = "nothing"
  BY <1>1, <1>2, <1>4 DEF Acquisitions
<1>7. known' \in [IDs -> Manifests \cup {None}] /\ StoredHeld(known')
  <2>1. known' = known \/ known' = [known EXCEPT ![i] = manifest]
    BY DEF AcceptSignature
  <2> QED
    BY <1>2, <2>1, InvFacts DEF AcquisitionInv, DiskType, StoredHeld
<1> HIDE DEF manifest, begun, idle, insp
<1>8. ASSUME PartialType', complete' \in [IDs -> Manifests \cup {None}],
             StoredHeld(partial'), StoredHeld(complete'), NodeType', AllSound', Calm,
             recon' \in {recon, None}
      PROVE  AcquisitionInv'
  BY <1>1, <1>4, <1>7, <1>8, AskingNobody DEF PartialType, DiskType, AcquisitionInv
<1>9. ASSUME NEW b, acq' = [acq EXCEPT ![i] = b], b # None => b.waiting = "nothing",
             SoundOrNone(i, b, policy, want[i], partial'[i], chunkFile'[i], complete'[i]),
             PartialType', StoredHeld(partial'), complete' = complete,
             \A j \in IDs \ {i} : partial'[j] = partial[j] /\ chunkFile'[j] = chunkFile[j],
             inspected' = insp, same
      PROVE  AcquisitionInv'
  <2>1. SameBut(i)
    BY <1>4, <1>9 DEF SameBut
  <2>2. AllSound' /\ Calm
    BY <1>9, <2>1, OneSound, CalmOne DEF AcquisitionInv
  <2>3. NodeType'
    BY <1>3, <1>9 DEF AcquisitionInv, NodeType, outside
  <2> QED
    BY <1>8, <1>9, <2>2, <2>3, InvFacts DEF AcquisitionInv, DiskType
<1>10. PartialType /\ StoredHeld(partial)
  BY InvFacts DEF AcquisitionInv, DiskType, PartialType
<1>11. CASE /\ UNCHANGED partial \/ (partial[i] = None /\ partial' = [partial EXCEPT ![i] = manifest])
            /\ UNCHANGED <<chunkFile, complete>>
            /\ Fail(i, a) /\ inspected' = insp /\ same
  <2>1. /\ PartialType' /\ StoredHeld(partial')
        /\ \A j \in IDs \ {i} : partial'[j] = partial[j] /\ chunkFile'[j] = chunkFile[j]
    BY <1>2, <1>10, <1>11 DEF PartialType, StoredHeld
  <2>2. Durable(a, partial'[i], chunkFile'[i], complete'[i])
    BY <1>1, <1>10, <1>11 DEF Sound, Durable, PartialType
  <2>3. Sound(i, Failed(a), policy, want[i], partial'[i], chunkFile'[i], complete'[i])
        /\ Failed(a).waiting = "nothing"
    BY <1>1, <2>2, FailedSound DEF Sound
  <2> QED
    BY <1>9, <1>11, <2>1, <2>3 DEF Fail, SoundOrNone
<1>12. CASE UNCHANGED <<partial, chunkFile, complete>> /\ Down
  <2>1. NodeType' /\ AllSound' /\ Calm /\ recon' = None
    BY <1>12, DownNode DEF AcquisitionInv
  <2> QED
    BY <1>8, <1>10, <1>12, <2>1, InvFacts DEF PartialType, AcquisitionInv, DiskType
<1>13. CASE UNCHANGED <<partial, chunkFile, complete>> /\ Forget(i) /\ inspected' = insp /\ same
  BY <1>9, <1>10, <1>13 DEF Forget, SoundOrNone, PartialType
<1>14. CASE admitted /\ AllReceived(chunkFile[i])
            /\ (Commit(i, begun, insp) \/ Mismatch(i, begun, insp, FALSE))
  <2>1. Committable(i, begun)
    BY <1>2, <1>5, <1>14 DEF Committable, Pinned, Admitted, Accept
  <2>2. Committed(i, begun, insp, FALSE)
    BY <1>14 DEF Committed
  <2>3. NodeType' /\ AllSound' /\ Calm /\ recon' \in {recon, None}
    BY <1>3, <1>4, <2>1, <2>2, CommittedNode, InvFacts DEF AcquisitionInv
  <2>4. CommitDisk
    BY <2>1, <2>2, CommittedDisk, InvFacts DEF AcquisitionInv
  <2> QED
    BY <1>8, <2>3, <2>4 DEF CommitDisk
<1>15. CASE /\ admitted /\ Leave(i, manifest, chunkFile[i]) /\ UNCHANGED complete
            /\ acq' = [acq EXCEPT ![i] = idle] /\ inspected' = insp /\ same
  <2>1. /\ PartialType' /\ StoredHeld(partial')
        /\ partial'[i] = manifest /\ chunkFile'[i] = chunkFile[i]
        /\ \A j \in IDs \ {i} : partial'[j] = partial[j] /\ chunkFile'[j] = chunkFile[j]
    BY <1>2, <1>4, <1>15, LeaveFacts, InvFacts DEF AcquisitionInv
  <2>2. Sound(i, idle, policy, want[i], manifest, chunkFile[i], complete[i])
    BY <1>2, <1>6, <1>15 DEF Sound, Pinned, Waits, Admitted, Durable, Accept
  <2> QED
    BY <1>6, <1>9, <1>15, <2>1, <2>2 DEF SoundOrNone
<1> QED
  BY <1>11, <1>12, <1>13, <1>14, <1>15 DEF AcceptSignature, manifest, begun, idle, insp

-----------------------------------------------------------------------------
(***************************************************************************)
(* A chunk: what the acquisition counts as received its directory holds.   *)
(***************************************************************************)
LEMMA AcceptChunkInv ==
  ASSUME AcquisitionInv, NEW m \in air, NEW i \in IDs, AcceptChunk(i, m)
  PROVE  AcquisitionInv'
<1> DEFINE a == acq[i]
           bytes == Payload(i, m)
           added == [a EXCEPT !.chunks[m.index] = bytes, !.wanted = @ \ {m.index}]
           kept  == [added EXCEPT !.waiting = IF added.wanted = {} THEN "nothing" ELSE @]
<1>1. /\ Sendable(m) /\ m.kind = "Chunk" /\ air' \subseteq air
      /\ a \in Acquisitions /\ a.waiting = "Chunk"
      /\ Sound(i, a, policy, want[i], partial[i], chunkFile[i], complete[i])
  BY ReceivedFacts DEF AcceptChunk, AnswerKinds
<1>2. m.index \in Chunks /\ m.index \in a.wanted /\ bytes \in Bytes
  BY <1>1 DEF AcceptChunk, Sendable, Payload, Bytes
<1>3. a.assembly # None /\ a.chunks[m.index] = "absent" /\ bytes # "absent"
  BY <1>1, <1>2 DEF Sound, Waits, Payload
<1>4. ~AllReceived(a.chunks)
  BY <1>2, <1>3 DEF AllReceived
<1>5. a.assembly = partial[i]
      /\ \A c \in Chunks : a.chunks[c] # "absent" => chunkFile[i][c] = a.chunks[c]
  BY <1>1, <1>3, <1>4 DEF Sound, Durable
<1> HIDE DEF bytes
<1>6. /\ added \in Acquisitions /\ added.assembly = a.assembly
      /\ added.manifest = a.manifest /\ added.manifestSource = a.manifestSource
      /\ added.chunks = [a.chunks EXCEPT ![m.index] = bytes]
      /\ added.wanted = a.wanted \ {m.index}
      /\ added.waiting = a.waiting /\ added.transaction = a.transaction
  BY <1>1, <1>2 DEF Acquisitions
<1>7. /\ kept \in Acquisitions /\ kept.assembly = a.assembly
      /\ kept.manifest = a.manifest /\ kept.manifestSource = a.manifestSource
      /\ kept.chunks = [a.chunks EXCEPT ![m.index] = bytes]
      /\ kept.wanted = a.wanted \ {m.index}
      /\ kept.waiting = IF kept.wanted = {} THEN "nothing" ELSE a.waiting
      /\ kept.transaction = a.transaction
  BY <1>1, <1>2 DEF Acquisitions
<1> HIDE DEF added, kept
<1>8. /\ Pinned(i, added) /\ Admitted(i, added, policy, want[i])
  BY <1>1, <1>6 DEF Sound, Pinned, Admitted
<1>9. CASE AllReceived(added.chunks) /\ Committed(i, added, inspected, TRUE) /\ UNCHANGED <<known, want>>
  <2>1. Committable(i, added)
    BY <1>3, <1>6, <1>8, <1>9 DEF Committable
  <2>2. inspected \in [IDs -> SUBSET Peers]
    BY DEF AcquisitionInv, NodeType
  <2>3. NodeType' /\ AllSound' /\ Calm /\ recon' \in {recon, None}
    BY <1>9, <2>1, <2>2, CommittedNode, InvFacts DEF AcquisitionInv
  <2>4. CommitDisk
    BY <1>9, <2>1, CommittedDisk, InvFacts DEF AcquisitionInv
  <2>5. DiskType' /\ StoredHeld(known') /\ StoredHeld(partial') /\ StoredHeld(complete')
    BY <1>9, <2>4, InvFacts DEF CommitDisk, PartialType, DiskType, AcquisitionInv
  <2> QED
    BY <1>1, <2>3, <2>5, AskingNobody
<1>10. CASE /\ chunkFile' = [chunkFile EXCEPT ![i][m.index] = bytes]
            /\ acq' = [acq EXCEPT ![i] = kept]
            /\ UNCHANGED <<known, want, partial, complete, up, policy, inspected, tx, recon, outside>>
  <2>1. /\ chunkFile' \in [IDs -> [Chunks -> Bytes]]
        /\ chunkFile'[i] = [chunkFile[i] EXCEPT ![m.index] = bytes]
        /\ \A j \in IDs \ {i} : chunkFile'[j] = chunkFile[j]
    BY <1>2, <1>10 DEF AcquisitionInv, DiskType
  <2>2. DiskType' /\ StoredHeld(known') /\ StoredHeld(partial') /\ StoredHeld(complete')
    BY <1>10, <2>1, InvFacts DEF DiskType, AcquisitionInv
  <2>3. /\ NodeType' /\ SameBut(i) /\ want' = want
        /\ partial'[i] = partial[i] /\ complete'[i] = complete[i]
    BY <1>10, <2>1 DEF NodeType, AcquisitionInv, SameBut, outside
  <2>4. Durable(kept, partial[i], chunkFile'[i], complete[i])
    <3>1. \A c \in Chunks : kept.chunks[c] = IF c = m.index THEN bytes ELSE a.chunks[c]
      BY <1>1, <1>7 DEF Acquisitions
    <3>2. \A c \in Chunks : chunkFile'[i][c] = IF c = m.index THEN bytes ELSE chunkFile[i][c]
      BY <2>1 DEF AcquisitionInv, DiskType
    <3> QED
      BY <1>5, <1>7, <3>1, <3>2 DEF Durable
  <2>5. Waits(kept)
    <3>1. \A c \in kept.wanted : c # m.index /\ c \in Chunks /\ kept.chunks[c] = "absent"
      BY <1>1, <1>7 DEF Sound, Waits, Acquisitions
    <3> QED
      BY <1>1, <1>3, <1>7, <3>1 DEF Waits
  <2>6. Sound(i, kept, policy, want[i], partial'[i], chunkFile'[i], complete'[i])
    BY <1>1, <1>7, <2>3, <2>4, <2>5 DEF Sound, Pinned, Admitted
  <2>7. AllSound'
    BY <1>10, <2>3, <2>6, OneSound DEF AcquisitionInv, SoundOrNone
  <2>8. a # None
    BY <1>1, NoneAssumption
  <2>9. Calm
    BY <1>7, <1>10, <2>8, CalmOne DEF AcquisitionInv
  <2> QED
    BY <1>1, <1>10, <2>2, <2>3, <2>7, <2>9, AskingNobody
<1> QED
  BY <1>9, <1>10 DEF AcceptChunk, Committed, added, kept, bytes

LEMMA ChunkWriteFailsInv ==
  ASSUME AcquisitionInv, NEW m \in air, NEW i \in IDs, ChunkWriteFails(i, m)
  PROVE  AcquisitionInv'
<1> DEFINE a == acq[i]
<1>1. /\ Sendable(m) /\ m.kind = "Chunk" /\ air' \subseteq air
      /\ a \in Acquisitions /\ a.waiting = "Chunk" /\ i \in Outstanding
      /\ Sound(i, a, policy, want[i], partial[i], chunkFile[i], complete[i])
      /\ UNCHANGED <<known, want, partial, complete, runtime, outside>>
  BY ReceivedFacts DEF ChunkWriteFails, AnswerKinds
<1>2. m.index \in Chunks /\ a.chunks[m.index] = "absent" /\ Payload(i, m) \in Bytes
  BY <1>1 DEF ChunkWriteFails, Sendable, Payload, Bytes, Sound, Waits
<1>3. /\ chunkFile' \in [IDs -> [Chunks -> Bytes]]
      /\ \A c \in Chunks \ {m.index} : chunkFile'[i][c] = chunkFile[i][c]
      /\ \A j \in IDs \ {i} : chunkFile'[j] = chunkFile[j]
  <2>1. chunkFile \in [IDs -> [Chunks -> Bytes]]
    BY DEF AcquisitionInv, DiskType
  <2>2. \/ chunkFile' = chunkFile
        \/ chunkFile' = [chunkFile EXCEPT ![i] = [chunkFile[i] EXCEPT ![m.index] = Payload(i, m)]]
    BY DEF ChunkWriteFails
  <2> QED
    BY <1>2, <2>1, <2>2
<1>4. DiskType' /\ StoredHeld(known') /\ StoredHeld(partial') /\ StoredHeld(complete')
  BY <1>1, <1>3, InvFacts DEF DiskType, AcquisitionInv
<1>5. NodeType' /\ Calm
  BY <1>1 DEF NodeType, AcquisitionInv, Calm, runtime, outside
<1>6. Sound(i, acq[i], policy, want[i], partial[i], chunkFile'[i], complete[i])
  BY <1>1, <1>2, <1>3 DEF Sound, Durable
<1>7. AllSound'
  BY <1>1, <1>3, <1>6 DEF AcquisitionInv, AllSound, SoundOrNone, runtime
<1> QED
  BY <1>1, <1>4, <1>5, <1>7, AskingNobody DEF runtime

-----------------------------------------------------------------------------
(***************************************************************************)
(* The invariant holds at first and after every step.                      *)
(***************************************************************************)
LEMMA InitInv == Init => AcquisitionInv
<1> SUFFICES ASSUME Init PROVE AcquisitionInv
  OBVIOUS
<1>1. DiskType /\ NodeType
  <2>1. 0 \in 0 .. TxCount - 1 /\ 0 \in 0 .. MaxStops
    BY AcquisitionAssumption
  <2> QED
    BY <2>1, NoChunksType DEF Init, DiskType, NodeType
<1>2. ManifestsNotMixed
  BY DEF Init, ManifestsNotMixed
<1>3. AllSound
  BY DEF Init, AllSound, SoundOrNone
<1>4. AirSound /\ Outstanding = {}
  BY DEF Init, AirSound, Outstanding, Active
<1> QED
  BY <1>1, <1>2, <1>3, <1>4 DEF AcquisitionInv, OneAtATime, SignaturesBelong

LEMMA NextInv == AcquisitionInv /\ [Next]_vars => AcquisitionInv'
<1> SUFFICES ASSUME AcquisitionInv, [Next]_vars PROVE AcquisitionInv'
  OBVIOUS
<1>1. CASE Start \/ Stop \/ ReconcileTimeout
  BY <1>1, StartInv, StopInv, ReconcileTimeoutInv
<1>2. ASSUME NEW i \in IDs, Initiate(i) \/ Timeout(i) \/ Want(i)
      PROVE  AcquisitionInv'
  BY <1>2, InitiateInv, TimeoutInv, WantInv
<1>3. ASSUME NEW p \in Peers, InitiateReconcile(p) \/ Depart(p)
      PROVE  AcquisitionInv'
  BY <1>3, InitiateReconcileInv, DepartInv
<1>4. ASSUME NEW m \in air, NEW sent \in SUBSET Chunks, NEW spoilt \in SUBSET Chunks,
             Serve(m, sent, spoilt)
      PROVE  AcquisitionInv'
  BY <1>4, ServeInv
<1>5. ASSUME NEW m \in air, ServeMalformed(m) \/ AcceptLeaf(m)
      PROVE  AcquisitionInv'
  BY <1>5, ServeMalformedInv, AcceptLeafInv
<1>6. ASSUME NEW m \in air, NEW i \in IDs,
             \/ AcceptManifest(i, m) \/ RejectSignature(i, m) \/ AcceptSignature(i, m)
             \/ AcceptChunk(i, m) \/ ChunkWriteFails(i, m)
      PROVE  AcquisitionInv'
  BY <1>6, AcceptManifestInv, RejectSignatureInv, AcceptSignatureInv, AcceptChunkInv,
     ChunkWriteFailsInv
<1>7. CASE UNCHANGED vars
  <2>1. UNCHANGED disk /\ UNCHANGED <<acq, policy, want, partial, chunkFile, complete>>
        /\ UNCHANGED <<up, inspected, tx, recon, onAir, stops, air>>
    BY <1>7 DEF vars, disk, runtime, outside
  <2>2. NodeType'
    BY <2>1 DEF AcquisitionInv, NodeType
  <2> QED
    BY <2>1, <2>2, SameDisk, SameSound, AskingNobody
<1> QED
  BY <1>1, <1>2, <1>3, <1>4, <1>5, <1>6, <1>7 DEF Next

-----------------------------------------------------------------------------
(***************************************************************************)
(* The steps of Replica, as steps of the stored files.                     *)
(***************************************************************************)
LEMMA SameLibrary ==
  ASSUME UNCHANGED <<complete, partial, policy, want>>
  PROVE  LibraryStep
BY DEF LibraryStep, Library!vars

LEMMA LibraryAdmits ==
  ASSUME NEW i \in IDs, NEW m,
         Accept(policy, m, i \in Big, partial[i] # None, want[i])
  PROVE  Library!Admits(i, m)
BY DEF Accept, VerifyManifestSignature, Library!Admits, Library!Accept,
       Library!VerifyManifestSignature

LEMMA LibraryOffered ==
  ASSUME NEW i \in IDs, NEW m, m # None, HeldBySomeone(i, m)
  PROVE  m \in Library!Offered(i)
BY DEF HeldBySomeone, Library!Offered

LEMMA BeginStep ==
  ASSUME NEW i \in IDs, NEW m, m # None, HeldBySomeone(i, m),
         complete[i] = None, partial[i] = None,
         Accept(policy, m, i \in Big, partial[i] # None, want[i]),
         partial' = [partial EXCEPT ![i] = m], UNCHANGED <<complete, policy, want>>
  PROVE  LibraryStep
<1>1. Library!Begin(i)
  BY LibraryAdmits, LibraryOffered DEF Library!Begin
<1> QED
  BY <1>1 DEF LibraryStep, Library!Next

LEMMA AbandonStep ==
  ASSUME NEW i \in IDs, partial' = [partial EXCEPT ![i] = None],
         UNCHANGED <<complete, policy, want>>
  PROVE  LibraryStep
<1>1. Library!Abandon(i)
  BY DEF Library!Abandon
<1> QED
  BY <1>1 DEF LibraryStep, Library!Next

LEMMA AcquireStep ==
  ASSUME NEW i \in IDs, NEW m, m # None, HeldBySomeone(i, m),
         complete[i] = None, partial[i] \in {None, m},
         Accept(policy, m, i \in Big, partial[i] # None, want[i]),
         complete' = [complete EXCEPT ![i] = m],
         NEW dir \in {None, m}, partial' = [partial EXCEPT ![i] = dir],
         UNCHANGED <<policy, want>>
  PROVE  LibraryStep
<1>1. Library!Acquire(i)
  BY LibraryAdmits, LibraryOffered DEF Library!Acquire
<1> QED
  BY <1>1 DEF LibraryStep, Library!Next

-----------------------------------------------------------------------------
(***************************************************************************)
(* A step that changes one acquisition, and no other publication's files.  *)
(***************************************************************************)
LEMMA OneSettled ==
  ASSUME AcquisitionInv, Settled, NEW i \in IDs, NEW b, acq' = [acq EXCEPT ![i] = b],
         \A j \in IDs \ {i} : partial'[j] = partial[j] /\ complete'[j] = complete[j],
         SettledOne(b, partial'[i], complete'[i])
  PROVE  Settled'
<1>1. acq'[i] = b /\ \A j \in IDs \ {i} : acq'[j] = acq[j]
  BY DEF AcquisitionInv, AllSound
<1> SUFFICES ASSUME NEW j \in IDs
             PROVE  SettledOne(acq'[j], partial'[j], complete'[j])
  BY DEF Settled, SettledOne, AllReceived
<1> QED
  BY <1>1 DEF Settled

LEMMA FailedSettled ==
  ASSUME NEW a \in Acquisitions, NEW dir
  PROVE  SettledOne(Failed(a), dir, None)
BY DEF Failed, Acquisitions, SettledOne

LEMMA NoneSettled ==
  ASSUME acq' = [i \in IDs |-> None],
         \A j \in IDs : complete'[j] # None => partial'[j] \in {None, complete'[j]}
  PROVE  Settled'
BY DEF Settled, SettledOne

LEMMA SettledFiles ==
  ASSUME Settled, NEW j \in IDs, complete[j] # None
  PROVE  partial[j] \in {None, complete[j]}
BY DEF Settled, SettledOne

\* the same, when the library is as it was
LEMMA OneSettledStep ==
  ASSUME AcquisitionInv, Settled, NEW i \in IDs, NEW b, acq' = [acq EXCEPT ![i] = b],
         UNCHANGED <<complete, partial, policy, want>>,
         SettledOne(b, partial[i], complete[i])
  PROVE  Settled' /\ LibraryStep
BY OneSettled, SameLibrary

\* what an answer is awaited about is not held
LEMMA AwaitedNotHeld ==
  ASSUME Settled, NEW i \in IDs, acq[i] # None, acq[i].waiting # "nothing"
  PROVE  complete[i] = None
BY DEF Settled, SettledOne

(***************************************************************************)
(* A commit, done or not: the publication enters the library, or what has  *)
(* begun stays, ends, or begins.                                           *)
(***************************************************************************)
LEMMA CommittedLibrary ==
  ASSUME AcquisitionInv, Settled, UNCHANGED want, NEW i \in IDs, NEW a, Committable(i, a),
         complete[i] = None, partial[i] \in {None, a.assembly},
         Accept(policy, a.assembly, i \in Big, partial[i] # None, want[i]),
         NEW insp, NEW restart \in BOOLEAN, Committed(i, a, insp, restart)
  PROVE  Settled' /\ LibraryStep
<1>1. /\ a \in Acquisitions /\ a.assembly # None /\ AllReceived(a.chunks)
      /\ HeldBySomeone(i, a.assembly)
  BY CommittableFacts DEF Committable
<1>2. policy' = policy /\ want' = want
  BY DEF Committed, Commit, Mismatch, Down, outside
<1>3. PICK dir \in {None, a.assembly} : partial' = [partial EXCEPT ![i] = dir]
  BY DEF Committed, Commit, Mismatch, Leftover, Leave
<1>4. /\ partial'[i] = dir /\ \A j \in IDs \ {i} : partial'[j] = partial[j]
      /\ dir = partial[i] => partial' = partial
  BY <1>3 DEF AcquisitionInv, DiskType
<1>5. CASE complete' = [complete EXCEPT ![i] = a.assembly] /\ Commit(i, a, insp)
  <2>1. LibraryStep
    BY <1>1, <1>2, <1>3, <1>5, AcquireStep
  <2>2. complete'[i] = a.assembly /\ \A j \in IDs \ {i} : complete'[j] = complete[j]
    BY <1>5 DEF AcquisitionInv, DiskType
  <2>3. CASE Down
    <3>1. \A j \in IDs : complete'[j] # None => partial'[j] \in {None, complete'[j]}
      BY <1>4, <2>2, SettledFiles
    <3>2. acq' = [j \in IDs |-> None]
      BY <2>3 DEF Down
    <3> QED
      BY <2>1, <3>1, <3>2, NoneSettled
  <2>4. ASSUME NEW b \in {None, Failed(a)}, acq' = [acq EXCEPT ![i] = b]
        PROVE  Settled'
    <3>1. SettledOne(b, dir, a.assembly)
      BY <1>1 DEF SettledOne, Failed, Acquisitions
    <3> QED
      BY <1>4, <2>2, <2>4, <3>1, OneSettled
  <2>5. Down \/ acq' = [acq EXCEPT ![i] = None] \/ acq' = [acq EXCEPT ![i] = Failed(a)]
    BY <1>5 DEF Commit, Finished, Forget, Fail
  <2> QED
    BY <2>1, <2>3, <2>4, <2>5
<1>6. CASE complete' = complete
  <2>1. LibraryStep
    <3>1. CASE dir = None
      BY <1>2, <1>3, <1>6, <3>1, AbandonStep
    <3>2. CASE dir = partial[i]
      BY <1>2, <1>4, <1>6, <3>2, SameLibrary
    <3>3. CASE dir = a.assembly /\ partial[i] = None
      BY <1>1, <1>2, <1>3, <1>6, <3>3, BeginStep
    <3> QED
      BY <3>1, <3>2, <3>3
  <2>2. CASE Down
    <3>1. \A j \in IDs : complete'[j] # None => partial'[j] \in {None, complete'[j]}
      BY <1>4, <1>6, SettledFiles
    <3>2. acq' = [j \in IDs |-> None]
      BY <2>2 DEF Down
    <3> QED
      BY <2>1, <3>1, <3>2, NoneSettled
  <2>3. ASSUME NEW b, b = None \/ \E c \in Acquisitions : b = Failed(c),
               acq' = [acq EXCEPT ![i] = b]
        PROVE  Settled'
    <3>1. SettledOne(b, dir, None)
      BY <2>3, FailedSettled DEF SettledOne
    <3> QED
      BY <1>4, <1>6, <2>3, <3>1, OneSettled
  <2>4. CASE Commit(i, a, insp)
    <3>1. Down \/ acq' = [acq EXCEPT ![i] = None] \/ acq' = [acq EXCEPT ![i] = Failed(a)]
      BY <2>4 DEF Commit, Finished, Forget, Fail
    <3>2. Failed(a) = None \/ \E c \in Acquisitions : Failed(a) = Failed(c)
      BY <1>1
    <3> QED
      BY <2>1, <2>2, <2>3, <3>1, <3>2
  <2>5. CASE Mismatch(i, a, insp, restart)
    <3>1. /\ [a EXCEPT !.assembly = IF restart THEN @ ELSE None, !.chunks = NoChunks] \in Acquisitions
          /\ [a EXCEPT !.assembly = None, !.chunks = NoChunks] \in Acquisitions
      BY <1>1, NoChunksType DEF Acquisitions
    <3>2. Down \/ \E c \in Acquisitions : acq' = [acq EXCEPT ![i] = Failed(c)]
      BY <1>1, <2>5, <3>1 DEF Mismatch, Fail
    <3>3. ASSUME NEW c \in Acquisitions, acq' = [acq EXCEPT ![i] = Failed(c)]
          PROVE  Settled'
      <4>1. \E e \in Acquisitions : Failed(c) = Failed(e)
        OBVIOUS
      <4> QED
        BY <2>3, <3>3, <4>1
    <3> QED
      BY <2>1, <2>2, <3>2, <3>3
  <2> QED
    BY <2>1, <2>4, <2>5 DEF Committed
<1> QED
  BY <1>5, <1>6 DEF Committed, Commit, Mismatch

-----------------------------------------------------------------------------
(***************************************************************************)
(* Every step keeps what is held settled, and is a step of the library.    *)
(***************************************************************************)
LEMMA StartSettled ==
  ASSUME AcquisitionInv, Settled, Start PROVE Settled' /\ LibraryStep
<1>1. PICK unreadable \in SUBSET IDs : Started(unreadable)
  BY StartedSome
<1>2. PICK gone \in SUBSET unreadable :
        partial' = [i \in IDs |-> IF i \in gone THEN None ELSE partial[i]]
  BY <1>1 DEF Started
<1>3. /\ UNCHANGED <<complete, want>> /\ policy' \in PolicySettings
  BY DEF Start, AcquisitionInv, NodeType
<1>4. ASSUME NEW i \in IDs
      PROVE  SettledOne(acq'[i], partial'[i], complete'[i])
  <2>1. acq'[i] # None => acq'[i].waiting = "nothing" /\ acq'[i].sources = <<>>
    BY <1>1 DEF Started, Resumed, NewAcquisition
  <2>2. partial'[i] \in {None, partial[i]}
    BY <1>2
  <2> QED
    BY <1>3, <2>1, <2>2 DEF Settled, SettledOne
<1>5. Settled'
  BY <1>4 DEF Settled, SettledOne, AllReceived
<1>6. Library!Restart
  BY <1>2, <1>3 DEF Library!Restart
<1> QED
  BY <1>5, <1>6 DEF LibraryStep, Library!Next

LEMMA StopSettled ==
  ASSUME AcquisitionInv, Settled, Stop PROVE Settled' /\ LibraryStep
<1>1. /\ UNCHANGED <<complete, partial, policy, want>>
      /\ acq' = [i \in IDs |-> None]
  BY DEF Stop, Down, disk
<1> QED
  BY <1>1, SameLibrary DEF Settled, SettledOne

LEMMA WantSettled ==
  ASSUME AcquisitionInv, Settled, NEW i \in IDs, Want(i) PROVE Settled' /\ LibraryStep
<1>1. Library!Wish(i)
  BY DEF Want, Library!Wish, runtime
<1>2. Settled'
  BY DEF Want, runtime, Settled, SettledOne, AllReceived
<1> QED
  BY <1>1, <1>2 DEF LibraryStep, Library!Next

LEMMA TimeoutSettled ==
  ASSUME AcquisitionInv, Settled, NEW i \in IDs, Timeout(i) PROVE Settled' /\ LibraryStep
<1>1. /\ acq[i] \in Acquisitions /\ complete[i] = None
      /\ acq' = [acq EXCEPT ![i] = Failed(acq[i])]
      /\ UNCHANGED <<complete, partial, policy, want>>
  BY InvFacts, AwaitedNotHeld DEF Timeout, Outstanding, Active, Fail, disk
<1> QED
  BY <1>1, FailedSettled, OneSettledStep

LEMMA InitiateSettled ==
  ASSUME AcquisitionInv, Settled, NEW i \in IDs, Initiate(i) PROVE Settled' /\ LibraryStep
<1> DEFINE a == acq[i]
           b == Addressed(a)
<1>1. /\ a \in Acquisitions /\ a # None /\ a.sources # <<>> /\ Pinned(i, a)
      /\ UNCHANGED <<complete, partial, policy, want>>
  BY InvFacts DEF Initiate, Active, Sound, disk
<1>2. SettledOne(a, partial[i], complete[i])
  BY DEF Settled
<1>3. /\ b \in Acquisitions /\ b.waiting = a.waiting
      /\ b.assembly = a.assembly /\ b.chunks = a.chunks
  BY <1>1, AddressedFields DEF AcquisitionInv
<1> HIDE DEF b
<1>4. CASE complete[i] # None
  <2>1. a.waiting = "nothing" /\ a.assembly # None /\ AllReceived(a.chunks)
    BY <1>1, <1>2, <1>4 DEF SettledOne
  <2>2. acq' = [acq EXCEPT ![i] = b]
    BY <2>1 DEF Initiate, b
  <2>3. SettledOne(b, partial[i], complete[i])
    BY <1>2, <1>3, <1>4, <2>1 DEF SettledOne
  <2> QED
    BY <1>1, <2>2, <2>3, OneSettledStep
<1>5. CASE complete[i] = None
  <2>1. ASSUME NEW kind \in {"GetManifest", "GetSignature", "GetChunks"}, NEW wanted,
               Request(i, kind, wanted), kind # "GetChunks" => a.assembly = None
        PROVE  \E c : acq' = [acq EXCEPT ![i] = c] /\ SettledOne(c, partial[i], None)
    <3> DEFINE c == [b EXCEPT !.wanted = wanted, !.waiting = AnswerTo[kind]]
    <3>1. acq' = [acq EXCEPT ![i] = c] \/ acq' = [acq EXCEPT ![i] = Failed(b)]
      BY <2>1 DEF Request, Fail, b
    <3>2. SettledOne(Failed(b), partial[i], None)
      BY <1>3, FailedSettled
    <3>3. /\ c.assembly = a.assembly
          /\ c.waiting \in {"Manifest", "Signature"} => kind # "GetChunks"
      BY <1>3 DEF Acquisitions, AnswerTo
    <3>4. SettledOne(c, partial[i], None)
      BY <2>1, <3>3 DEF SettledOne
    <3> QED
      BY <3>1, <3>2, <3>4
  <2>2. SettledOne(b, partial[i], None)
    BY <1>1, <1>2, <1>3 DEF SettledOne
  <2>3. \E c : acq' = [acq EXCEPT ![i] = c] /\ SettledOne(c, partial[i], None)
    BY <2>1, <2>2 DEF Initiate, b
  <2> QED
    BY <1>1, <1>5, <2>3, OneSettledStep
<1> QED
  BY <1>4, <1>5

LEMMA AcceptLeafSettled ==
  ASSUME AcquisitionInv, Settled, NEW m \in air, AcceptLeaf(m) PROVE Settled' /\ LibraryStep
<1>1. UNCHANGED <<complete, partial, policy, want>>
  BY DEF AcceptLeaf, disk
<1>2. PICK admitted :
        acq' = [i \in IDs |->
          IF i \in m.ids /\ Eligible(i, m.peer) /\ i \in Active \cup admitted
          THEN WithSource(Candidate(i), m.peer) ELSE acq[i]]
  BY DEF AcceptLeaf
<1>3. ASSUME NEW i \in IDs
      PROVE  SettledOne(acq'[i], partial[i], complete[i])
  <2>1. SettledOne(acq[i], partial[i], complete[i])
    BY DEF Settled
  <2>2. CASE acq'[i] = acq[i]
    BY <2>1, <2>2
  <2>3. CASE complete[i] = None /\ acq'[i] = WithSource(Candidate(i), m.peer)
    <3>1. Candidate(i).waiting \in {"Manifest", "Signature"} => Candidate(i).assembly = None
      BY <2>1 DEF Candidate, NewAcquisition, SettledOne
    <3>2. Candidate(i) \in Acquisitions
      BY NewSound DEF Candidate, Sound, AcquisitionInv, AllSound
    <3>3. /\ acq'[i].waiting = Candidate(i).waiting
          /\ acq'[i].assembly = Candidate(i).assembly
      BY <2>3, <3>2 DEF WithSource, Acquisitions
    <3> QED
      BY <2>3, <3>1, <3>3 DEF SettledOne
  <2> QED
    BY <1>2, <2>2, <2>3 DEF Eligible
<1>4. Settled'
  BY <1>1, <1>3 DEF Settled, SettledOne, AllReceived
<1> QED
  BY <1>1, <1>4, SameLibrary

LEMMA AcceptSignatureSettled ==
  ASSUME AcquisitionInv, Settled, NEW m \in air, NEW i \in IDs, AcceptSignature(i, m)
  PROVE  Settled' /\ LibraryStep
<1> DEFINE a == acq[i]
           manifest == [name |-> a.manifest, sig |-> m.sig]
           admitted == Accept(policy, manifest, i \in Big, partial[i] # None, want[i])
           begun == [a EXCEPT !.assembly = manifest, !.chunks = chunkFile[i],
                              !.manifest = None, !.manifestSource = None]
           idle  == [begun EXCEPT !.waiting = "nothing"]
           insp  == Inspect(i, m.peer)
<1>1. a \in Acquisitions /\ a # None /\ a.waiting = "Signature"
  BY ReceivedFacts, NoneAssumption DEF AcceptSignature, AnswerKinds
<1>2. complete[i] = None
  BY <1>1, AwaitedNotHeld
<1>3. manifest \in Manifests /\ HeldBySomeone(i, manifest) /\ manifest # None
  BY CombinedManifest, NoneAssumption DEF AcceptSignature
<1>4. chunkFile[i] \in [Chunks -> Bytes] /\ want' = want
  BY DEF AcquisitionInv, DiskType, AcceptSignature
<1>5. /\ begun \in Acquisitions /\ begun.assembly = manifest /\ begun.chunks = chunkFile[i]
      /\ begun.manifest = None /\ begun.manifestSource = None /\ idle.waiting = "nothing"
  BY <1>1, <1>3, <1>4 DEF Acquisitions
<1> HIDE DEF manifest, begun, idle, insp
<1>6. \A dir : SettledOne(Failed(a), dir, None) /\ SettledOne(idle, dir, None)
               /\ SettledOne(None, dir, None)
  BY <1>1, <1>5, FailedSettled DEF SettledOne
<1>7. ASSUME policy' = policy, complete' = complete,
             \/ partial' = partial
             \/ admitted /\ partial[i] \in {None, manifest}
                         /\ partial' = [partial EXCEPT ![i] = manifest],
             NEW b \in {Failed(a), idle, None}, acq' = [acq EXCEPT ![i] = b]
      PROVE  Settled' /\ LibraryStep
  <2>1. \A j \in IDs \ {i} : partial'[j] = partial[j]
    BY <1>7 DEF AcquisitionInv, DiskType
  <2>2. Settled'
    BY <1>2, <1>6, <1>7, <2>1, OneSettled
  <2>3. CASE partial' = partial
    BY <1>4, <1>7, <2>2, <2>3, SameLibrary
  <2>4. CASE admitted /\ partial[i] = None /\ partial' = [partial EXCEPT ![i] = manifest]
    BY <1>2, <1>3, <1>4, <1>7, <2>2, <2>4, BeginStep
  <2>5. CASE partial[i] = manifest /\ partial' = [partial EXCEPT ![i] = manifest]
    BY <2>3, <2>5 DEF AcquisitionInv, DiskType
  <2> QED
    BY <1>7, <2>2, <2>3, <2>4, <2>5
<1>8. CASE UNCHANGED <<partial, chunkFile, complete>> /\ Down
  BY <1>4, <1>8, SameLibrary DEF Down, Settled, SettledOne
<1>9. CASE /\ admitted /\ partial[i] \in {None, manifest} /\ AllReceived(chunkFile[i])
           /\ Committed(i, begun, insp, FALSE)
  <2>1. Committable(i, begun)
    BY <1>3, <1>5, <1>9 DEF Committable, Pinned, Admitted, Accept
  <2> QED
    BY <1>2, <1>4, <1>5, <1>9, <2>1, CommittedLibrary
<1>10. CASE /\ UNCHANGED policy /\ UNCHANGED complete
            /\ UNCHANGED partial \/ /\ admitted /\ partial[i] = None
                                    /\ partial' = [partial EXCEPT ![i] = manifest]
            /\ Fail(i, a)
  BY <1>7, <1>10 DEF Fail
<1>11. CASE UNCHANGED policy /\ UNCHANGED <<partial, complete>> /\ Forget(i)
  BY <1>7, <1>11 DEF Forget
<1>12. CASE /\ admitted /\ partial[i] \in {None, manifest} /\ UNCHANGED policy
            /\ Leave(i, manifest, chunkFile[i]) /\ UNCHANGED complete
            /\ acq' = [acq EXCEPT ![i] = idle]
  BY <1>7, <1>12 DEF Leave
<1> QED
  BY <1>8, <1>9, <1>10, <1>11, <1>12
     DEF AcceptSignature, Committed, manifest, begun, idle, insp

LEMMA AcceptChunkSettled ==
  ASSUME AcquisitionInv, Settled, NEW m \in air, NEW i \in IDs, AcceptChunk(i, m)
  PROVE  Settled' /\ LibraryStep
<1> DEFINE a == acq[i]
           bytes == Payload(i, m)
           added == [a EXCEPT !.chunks[m.index] = bytes, !.wanted = @ \ {m.index}]
           kept  == [added EXCEPT !.waiting = IF added.wanted = {} THEN "nothing" ELSE @]
<1>1. /\ Sendable(m) /\ m.kind = "Chunk" /\ a \in Acquisitions /\ a # None
      /\ a.waiting = "Chunk" /\ want' = want
      /\ Sound(i, a, policy, want[i], partial[i], chunkFile[i], complete[i])
  BY ReceivedFacts, NoneAssumption DEF AcceptChunk, AnswerKinds
<1>2. m.index \in Chunks /\ m.index \in a.wanted /\ bytes \in Bytes
  BY <1>1 DEF AcceptChunk, Sendable, Payload, Bytes
<1>3. a.assembly # None /\ a.assembly = partial[i]
  BY <1>1, <1>2 DEF Sound, Waits, Durable, AllReceived
<1>4. complete[i] = None
  BY <1>1, AwaitedNotHeld
<1> HIDE DEF bytes
<1>5. /\ added \in Acquisitions /\ added.assembly = a.assembly
      /\ added.manifest = a.manifest /\ added.manifestSource = a.manifestSource
  BY <1>1, <1>2 DEF Acquisitions
<1>6. kept.waiting \in {"nothing", "Chunk"}
  BY <1>1, <1>2 DEF Acquisitions
<1> HIDE DEF added, kept
<1>7. CASE AllReceived(added.chunks) /\ Committed(i, added, inspected, TRUE)
  <2>1. Committable(i, added)
    BY <1>1, <1>3, <1>5, <1>7 DEF Committable, Sound, Pinned, Admitted
  <2>2. Accept(policy, added.assembly, i \in Big, partial[i] # None, want[i])
    BY <1>1, <1>3, <1>5 DEF Sound, Admitted
  <2> QED
    BY <1>1, <1>3, <1>4, <1>5, <1>7, <2>1, <2>2, CommittedLibrary
<1>8. CASE acq' = [acq EXCEPT ![i] = kept] /\ UNCHANGED <<partial, complete, policy>>
  <2>1. SettledOne(kept, partial[i], complete[i])
    BY <1>4, <1>6 DEF SettledOne
  <2> QED
    BY <1>1, <1>8, <2>1, OneSettledStep
<1> QED
  BY <1>7, <1>8 DEF AcceptChunk, Committed, added, kept, bytes

LEMMA AnswerSettled ==
  ASSUME AcquisitionInv, Settled, NEW m \in air, NEW i \in IDs,
         AcceptManifest(i, m) \/ RejectSignature(i, m) \/ ChunkWriteFails(i, m)
  PROVE  Settled' /\ LibraryStep
<1>1. PICK kind \in AnswerKinds : Receives(m, i, kind) /\ kind # "Leaf"
  BY DEF AcceptManifest, RejectSignature, ChunkWriteFails, AnswerKinds
<1>2. acq[i] \in Acquisitions /\ complete[i] = None
  <2>1. acq[i] \in Acquisitions /\ acq[i] # None /\ acq[i].waiting # "nothing"
    BY <1>1, ReceivedFacts DEF Outstanding, Active
  <2> QED
    BY <2>1, AwaitedNotHeld
<1>3. UNCHANGED <<complete, partial, policy, want>>
  BY DEF AcceptManifest, RejectSignature, ChunkWriteFails, disk, runtime
<1>4. SettledOne(Failed(acq[i]), partial[i], complete[i]) /\ SettledOne(None, partial[i], complete[i])
  BY <1>2, FailedSettled DEF SettledOne
<1>5. CASE AcceptManifest(i, m)
  <2> DEFINE b == [acq[i] EXCEPT !.manifest = m.name, !.manifestSource = m.peer,
                                 !.waiting = "nothing", !.activeSource = None]
  <2>1. acq' = [acq EXCEPT ![i] = Failed(acq[i])] \/ acq' = [acq EXCEPT ![i] = b]
    BY <1>5 DEF AcceptManifest, Fail
  <2>2. b.waiting = "nothing"
    BY <1>2 DEF Acquisitions
  <2>3. SettledOne(b, partial[i], complete[i])
    BY <1>2, <2>2 DEF SettledOne
  <2> QED
    BY <1>3, <1>4, <2>1, <2>3, OneSettledStep
<1>6. CASE RejectSignature(i, m)
  BY <1>3, <1>4, <1>6, OneSettledStep DEF RejectSignature, Fail, Finished, Forget
<1>7. CASE ChunkWriteFails(i, m)
  BY <1>3, <1>7, SameLibrary DEF ChunkWriteFails, runtime, Settled, SettledOne, AllReceived
<1> QED
  BY <1>5, <1>6, <1>7

LEMMA NextSettled ==
  ASSUME AcquisitionInv, Settled, [Next]_vars PROVE Settled' /\ LibraryStep
<1>1. CASE UNCHANGED <<acq, complete, partial, policy, want>>
  BY <1>1, SameLibrary DEF Settled, SettledOne, AllReceived
<1>2. CASE ReconcileTimeout \/ UNCHANGED vars
  BY <1>1, <1>2 DEF ReconcileTimeout, vars, disk, runtime
<1>3. CASE Start \/ Stop
  BY <1>3, StartSettled, StopSettled
<1>4. ASSUME NEW i \in IDs, Initiate(i) \/ Timeout(i) \/ Want(i)
      PROVE  Settled' /\ LibraryStep
  BY <1>4, InitiateSettled, TimeoutSettled, WantSettled
<1>5. ASSUME NEW p \in Peers, InitiateReconcile(p) \/ Depart(p)
      PROVE  Settled' /\ LibraryStep
  BY <1>1, <1>5 DEF InitiateReconcile, Depart, disk, runtime
<1>6. ASSUME NEW m \in air, NEW sent \in SUBSET Chunks, NEW spoilt \in SUBSET Chunks,
             Serve(m, sent, spoilt) \/ ServeMalformed(m)
      PROVE  Settled' /\ LibraryStep
  <2>1. UNCHANGED <<disk, runtime>>
    BY <1>6 DEF Serve, ServeMalformed
  <2> QED
    BY <1>1, <2>1 DEF disk, runtime
<1>7. ASSUME NEW m \in air, AcceptLeaf(m)
      PROVE  Settled' /\ LibraryStep
  BY <1>7, AcceptLeafSettled
<1>8. ASSUME NEW m \in air, NEW i \in IDs,
             \/ AcceptManifest(i, m) \/ RejectSignature(i, m) \/ AcceptSignature(i, m)
             \/ AcceptChunk(i, m) \/ ChunkWriteFails(i, m)
      PROVE  Settled' /\ LibraryStep
  BY <1>8, AnswerSettled, AcceptSignatureSettled, AcceptChunkSettled
<1> QED
  BY <1>2, <1>3, <1>4, <1>5, <1>6, <1>7, <1>8 DEF Next

-----------------------------------------------------------------------------
(***************************************************************************)
(* The memory of what was refused.  Only a leaf adds a source; what is     *)
(* inspected is forgotten only with the publication acquired, since no     *)
(* manifest that a holder serves fails its verification.                   *)
(***************************************************************************)
NoNewSource(i) == Sources(acq'[i]) \subseteq Sources(acq[i])

Recorded(i) ==
  \E p : /\ inspected'[i] = Inspect(i, p)[i]
         /\ Refused(i) => p = acq[i].activeSource /\ known'[i] # None

Kept(i) ==
  /\ known[i] # None => known'[i] # None
  /\ up' => \/ complete'[i] # None
            \/ inspected'[i] = inspected[i] /\ ~Refused(i)
            \/ Recorded(i)

Mindful == \A i \in IDs : NoNewSource(i) /\ Kept(i)

LEMMA OneMindful ==
  ASSUME AcquisitionInv, NEW i \in IDs, acq[i] # None, NEW b,
         acq' = [acq EXCEPT ![i] = b], b # None => b.sources = acq[i].sources,
         \A j \in IDs \ {i} : inspected'[j] = inspected[j],
         known' = known \/ (\E k : k # None /\ known' = [known EXCEPT ![i] = k]),
         Kept(i)
  PROVE  Mindful
<1>1. acq'[i] = b /\ \A j \in IDs \ {i} : acq'[j] = acq[j]
  BY InvFacts
<1>2. \A j \in IDs : known[j] # None => known'[j] # None
  BY DEF AcquisitionInv, DiskType
<1>3. \A j \in IDs \ {i} : ~Refused(j)
  BY <1>1 DEF Refused
<1> QED
  BY <1>1, <1>2, <1>3 DEF Mindful, NoNewSource, Sources, Kept

LEMMA SameMindful ==
  ASSUME UNCHANGED <<acq, inspected, known>> PROVE Mindful
BY DEF Mindful, NoNewSource, Kept, Refused

LEMMA GoneMindful ==
  ASSUME AcquisitionInv, acq' = [i \in IDs |-> None], up' = FALSE,
         \A i \in IDs : known[i] # None => known'[i] # None
  PROVE  Mindful
BY DEF Mindful, NoNewSource, Sources, Kept

\* a failure, which keeps the acquisition and its sources
LEMMA FailedSources ==
  ASSUME NEW a \in Acquisitions
  PROVE  Failed(a) # None /\ Failed(a).sources = a.sources
<1>1. Failed(a) \in Acquisitions
  BY DEF Failed, Acquisitions
<1> QED
  BY <1>1, NoneAssumption DEF Failed, Acquisitions

LEMMA StartMindful ==
  ASSUME AcquisitionInv, Start PROVE Mindful
<1>1. PICK unreadable \in SUBSET IDs : Started(unreadable)
  BY StartedSome
<1>2. UNCHANGED <<known, inspected>> /\ ~up
  BY DEF Start
<1>3. ASSUME NEW i \in IDs
      PROVE  Sources(acq'[i]) = {}
  <2>1. \/ acq'[i] = None \/ acq'[i] = NewAcquisition
        \/ acq'[i] = [NewAcquisition EXCEPT !.assembly = partial[i], !.chunks = chunkFile[i]]
    <3>1. acq'[i] = NewAcquisition \/ acq'[i] = Resumed(i)
      BY <1>1 DEF Started
    <3> QED
      BY <3>1 DEF Resumed
  <2>2. acq'[i] # None => acq'[i].sources = <<>>
    <3>1. NewAcquisition.sources = <<>>
      BY DEF NewAcquisition
    <3>2. [NewAcquisition EXCEPT !.assembly = partial[i], !.chunks = chunkFile[i]].sources = <<>>
      BY DEF NewAcquisition
    <3> QED
      BY <2>1, <3>1, <3>2
  <2> QED
    BY <2>2 DEF Sources, SeqRange
<1> QED
  BY <1>2, <1>3 DEF Mindful, NoNewSource, Kept, Refused

LEMMA InitiateMindful ==
  ASSUME AcquisitionInv, NEW i \in IDs, Initiate(i) PROVE Mindful
<1>1. /\ i \in Active /\ acq[i].sources # <<>> /\ UNCHANGED <<known, inspected>>
      /\ acq[i] \in Acquisitions /\ Pinned(i, acq[i]) /\ NodeType
  BY InvFacts DEF Initiate, disk, Sound, AcquisitionInv
<1>2. /\ Addressed(acq[i]) \in Acquisitions
      /\ Addressed(acq[i]).sources = acq[i].sources
  BY <1>1, AddressedFields DEF Addressed, Acquisitions
<1>3. PICK b : /\ acq' = [acq EXCEPT ![i] = b] /\ b # None
               /\ b.sources = acq[i].sources
  <2>1. ASSUME NEW kind \in {"GetManifest", "GetSignature", "GetChunks"},
               NEW wanted \in SUBSET Chunks, Request(i, kind, wanted)
        PROVE  \E b : acq' = [acq EXCEPT ![i] = b] /\ b # None /\ b.sources = acq[i].sources
    <3> DEFINE w == [Addressed(acq[i]) EXCEPT !.wanted = wanted, !.waiting = AnswerTo[kind]]
    <3>1. \/ acq' = [acq EXCEPT ![i] = w]
          \/ acq' = [acq EXCEPT ![i] = Failed(Addressed(acq[i]))]
      BY <2>1 DEF Request, Fail
    <3>2. w.sources = acq[i].sources
      BY <1>2 DEF Acquisitions
    <3>3. w \in Acquisitions
      <4>1. AnswerTo[kind] \in {"Manifest", "Signature", "Chunk"}
        BY DEF AnswerTo
      <4> QED
        BY <1>2, <4>1 DEF Acquisitions
    <3> HIDE DEF w
    <3>4. /\ Failed(Addressed(acq[i])) # None /\ w # None
          /\ Failed(Addressed(acq[i])).sources = acq[i].sources
      BY <1>2, <3>3, FailedSources, NoneAssumption
    <3> QED
      BY <3>1, <3>2, <3>4
  <2>2. Addressed(acq[i]) # None
    BY <1>2, NoneAssumption
  <2>3. acq[i].wanted \in SUBSET Chunks /\ \A n : Batch(acq[i], n) \in SUBSET Chunks
    BY <1>1 DEF Acquisitions, Batch
  <2> QED
    BY <1>2, <2>1, <2>2, <2>3 DEF Initiate
<1>4. Kept(i)
  BY <1>1, <1>3, InvFacts DEF Kept, Refused, Active
<1> QED
  BY <1>1, <1>3, <1>4, OneMindful DEF Active

LEMMA TimeoutMindful ==
  ASSUME AcquisitionInv, NEW i \in IDs, Timeout(i) PROVE Mindful
<1>1. /\ acq[i] \in Acquisitions /\ acq[i] # None
      /\ acq' = [acq EXCEPT ![i] = Failed(acq[i])] /\ UNCHANGED <<known, inspected>>
  BY InvFacts DEF Timeout, Fail, Outstanding, Active, disk
<1>2. Failed(acq[i]) # None /\ Failed(acq[i]).sources = acq[i].sources
  BY <1>1, FailedSources
<1>3. Kept(i)
  BY <1>1, <1>2, InvFacts DEF Kept, Refused
<1> QED
  BY <1>1, <1>2, <1>3, OneMindful

LEMMA AcceptManifestMindful ==
  ASSUME AcquisitionInv, NEW m \in air, NEW i \in IDs, AcceptManifest(i, m) PROVE Mindful
<1> DEFINE pinned == [acq[i] EXCEPT !.manifest = m.name, !.manifestSource = m.peer,
                                    !.waiting = "nothing", !.activeSource = None]
<1>1. /\ Sendable(m) /\ m.kind = "Manifest"
      /\ acq[i] \in Acquisitions /\ acq[i] # None /\ UNCHANGED <<known, inspected>>
  BY ReceivedFacts, NoneAssumption DEF AcceptManifest, AnswerKinds, disk
<1>2. PICK b \in Acquisitions : acq' = [acq EXCEPT ![i] = b] /\ b.sources = acq[i].sources
  <2>1. CASE acq' = [acq EXCEPT ![i] = Failed(acq[i])]
    <3>1. Failed(acq[i]) \in Acquisitions
      BY <1>1 DEF Failed, Acquisitions
    <3> QED
      BY <1>1, <2>1, <3>1, FailedSources
  <2>2. CASE m.good /\ acq' = [acq EXCEPT ![i] = pinned]
    <3>1. m.peer \in Peers /\ m.name \in Names
      BY <1>1, <2>2, AcquisitionAssumption DEF Sendable, Manifests
    <3>2. pinned \in Acquisitions /\ pinned.sources = acq[i].sources
      BY <1>1, <3>1 DEF Acquisitions
    <3> QED
      BY <2>2, <3>2
  <2> QED
    BY <2>1, <2>2 DEF AcceptManifest, Fail
<1>3. b # None /\ acq'[i] = b
  BY <1>2, NoneAssumption, InvFacts
<1>4. Kept(i)
  BY <1>1, <1>3 DEF Kept, Refused
<1> QED
  BY <1>1, <1>2, <1>4, OneMindful

LEMMA WantMindful ==
  ASSUME NEW i \in IDs, Want(i) PROVE Mindful
BY SameMindful DEF Want, runtime

LEMMA RejectSignatureMindful ==
  ASSUME AcquisitionInv, NEW m \in air, NEW i \in IDs, RejectSignature(i, m) PROVE Mindful
<1>1. /\ acq[i] \in Acquisitions /\ acq[i] # None /\ UNCHANGED known
      /\ Receives(m, i, "Signature")
  BY ReceivedFacts, NoneAssumption DEF RejectSignature, AnswerKinds, disk
<1>2. ~m.good /\ Fail(i, acq[i]) /\ UNCHANGED inspected
  <2> SUFFICES ASSUME m.good,
                      ~VerifyManifestSignature([name |-> acq[i].manifest, sig |-> m.sig])
               PROVE  FALSE
    BY DEF RejectSignature
  <2> DEFINE manifest == [name |-> acq[i].manifest, sig |-> m.sig]
  <2>1. manifest \in Manifests /\ HeldBySomeone(i, manifest)
    BY <1>1, CombinedManifest
  <2> QED
    BY <2>1, AcquisitionAssumption, NoneAssumption DEF HeldBySomeone
<1>3. Failed(acq[i]) # None /\ Failed(acq[i]).sources = acq[i].sources
  BY <1>1, FailedSources
<1>4. acq' = [acq EXCEPT ![i] = Failed(acq[i])]
  BY <1>2 DEF Fail
<1>5. Kept(i)
  BY <1>1, <1>2, <1>3, <1>4, InvFacts DEF Kept, Refused
<1> QED
  BY <1>1, <1>2, <1>3, <1>4, <1>5, OneMindful

(***************************************************************************)
(* A commit that succeeds leaves the publication complete; one that fails  *)
(* keeps the acquisition, with the inspections it was given.               *)
(***************************************************************************)
LEMMA CommittedMindful ==
  ASSUME AcquisitionInv, NEW i \in IDs, acq[i] # None, NEW a, Committable(i, a),
         a.sources = acq[i].sources, NEW insp,
         \A j \in IDs \ {i} : insp[j] = inspected[j],
         insp[i] = inspected[i] \/ \E p : insp[i] = Inspect(i, p)[i],
         NEW restart \in BOOLEAN, Committed(i, a, insp, restart),
         known' = known \/ (\E k : k # None /\ known' = [known EXCEPT ![i] = k])
  PROVE  Mindful
<1>1. \A j \in IDs : known[j] # None => known'[j] # None
  BY DEF AcquisitionInv, DiskType
<1>2. CASE Down
  BY <1>1, <1>2, GoneMindful DEF Down
<1>3. ASSUME NEW b \in Acquisitions, b.sources = a.sources, Fail(i, b), inspected' = insp
      PROVE  Mindful
  <2>1. Failed(b) # None /\ Failed(b).sources = acq[i].sources
    BY <1>3, FailedSources
  <2>2. acq' = [acq EXCEPT ![i] = Failed(b)] /\ acq'[i] # None
    BY <1>3, <2>1, InvFacts DEF Fail
  <2>3. Kept(i)
    BY <1>1, <1>3, <2>2 DEF Kept, Refused, Recorded
  <2> QED
    BY <1>3, <2>1, <2>2, <2>3, OneMindful
<1>4. CASE Commit(i, a, insp)
  <2>1. CASE complete' = [complete EXCEPT ![i] = a.assembly] /\ Finished(i)
    <3>1. complete'[i] # None
      BY <2>1 DEF AcquisitionInv, DiskType, Committable
    <3>2. /\ acq' = [acq EXCEPT ![i] = None]
          /\ \A j \in IDs \ {i} : inspected'[j] = inspected[j]
      BY <2>1 DEF Finished, Forget, AcquisitionInv, NodeType
    <3>3. Kept(i)
      BY <1>1, <3>1 DEF Kept
    <3> QED
      BY <3>2, <3>3, OneMindful
  <2>2. CASE Fail(i, a) /\ inspected' = insp
    BY <1>3, <2>2 DEF Committable
  <2> QED
    BY <1>2, <1>4, <2>1, <2>2 DEF Commit
<1>5. CASE Mismatch(i, a, insp, restart)
  <2> DEFINE begun == [a EXCEPT !.assembly = IF restart THEN @ ELSE None, !.chunks = NoChunks]
             reset == [a EXCEPT !.assembly = None, !.chunks = NoChunks]
  <2>1. /\ a \in Acquisitions
        /\ begun \in Acquisitions /\ begun.sources = a.sources
        /\ reset \in Acquisitions /\ reset.sources = a.sources
    BY NoChunksType DEF Committable, Acquisitions
  <2>2. Down \/ (inspected' = insp /\ (Fail(i, begun) \/ Fail(i, IF restart THEN a ELSE reset)))
    BY <1>5 DEF Mismatch
  <2> HIDE DEF begun, reset
  <2> QED
    BY <1>2, <1>3, <2>1, <2>2
<1> QED
  BY <1>4, <1>5 DEF Committed

LEMMA AcceptSignatureMindful ==
  ASSUME AcquisitionInv, NEW m \in air, NEW i \in IDs, AcceptSignature(i, m) PROVE Mindful
<1> DEFINE a == acq[i]
           manifest == [name |-> a.manifest, sig |-> m.sig]
           admitted == Accept(policy, manifest, i \in Big, partial[i] # None, want[i])
           begun == [a EXCEPT !.assembly = manifest, !.chunks = chunkFile[i],
                              !.manifest = None, !.manifestSource = None]
           idle  == [begun EXCEPT !.waiting = "nothing"]
           insp  == Inspect(i, m.peer)
<1>1. /\ a \in Acquisitions /\ a # None /\ a.activeSource = m.peer /\ m.peer \in Peers
      /\ manifest \in Manifests /\ HeldBySomeone(i, manifest) /\ manifest # None
  BY ReceivedFacts, CombinedManifest, NoneAssumption DEF AcceptSignature, AnswerKinds, Sendable
<1>2. /\ begun \in Acquisitions /\ begun.assembly = manifest /\ begun.chunks = chunkFile[i]
      /\ begun.manifest = None /\ begun.manifestSource = None /\ begun.sources = a.sources
      /\ idle \in Acquisitions /\ idle.sources = a.sources
  BY <1>1 DEF Acquisitions, AcquisitionInv, DiskType
<1>3. known' = known \/ known' = [known EXCEPT ![i] = manifest]
  BY DEF AcceptSignature
<1>4. /\ \A j \in IDs : known[j] # None => known'[j] # None
      /\ \A j \in IDs \ {i} : insp[j] = inspected[j]
  BY <1>1, <1>3 DEF AcquisitionInv, DiskType, NodeType, Inspect
<1> HIDE DEF begun, idle, manifest, insp
<1>5. ASSUME NEW b, b # None => b.sources = a.sources, acq' = [acq EXCEPT ![i] = b],
             inspected' = insp, b = None => known'[i] # None
      PROVE  Mindful
  <2>1. acq'[i] = b
    BY <1>5, InvFacts
  <2>2. Kept(i)
    BY <1>1, <1>4, <1>5, <2>1 DEF Kept, Recorded, Refused, insp
  <2> QED
    BY <1>1, <1>3, <1>4, <1>5, <2>2, OneMindful
<1>6. CASE Fail(i, a) /\ inspected' = insp
  BY <1>1, <1>5, <1>6, FailedSources DEF Fail
<1>7. CASE Down
  BY <1>4, <1>7, GoneMindful DEF Down
<1>8. CASE known' = [known EXCEPT ![i] = manifest] /\ Forget(i) /\ inspected' = insp
  <2>1. known'[i] # None
    BY <1>1, <1>8 DEF AcquisitionInv, DiskType
  <2> QED
    BY <1>5, <1>8, <2>1 DEF Forget
<1>9. CASE acq' = [acq EXCEPT ![i] = idle] /\ inspected' = insp
  BY <1>2, <1>5, <1>9, NoneAssumption
<1>10. CASE admitted /\ AllReceived(chunkFile[i]) /\ Committed(i, begun, insp, FALSE)
  <2>2. Committable(i, begun)
    BY <1>1, <1>2, <1>10 DEF Committable, Pinned, Admitted, Accept
  <2> QED
    BY <1>1, <1>2, <1>3, <1>4, <1>10, <2>2, CommittedMindful DEF insp
<1> QED
  BY <1>6, <1>7, <1>8, <1>9, <1>10 DEF AcceptSignature, Committed, begun, idle, manifest, insp

LEMMA AcceptChunkMindful ==
  ASSUME AcquisitionInv, NEW m \in air, NEW i \in IDs, AcceptChunk(i, m) PROVE Mindful
<1> DEFINE a == acq[i]
           bytes == Payload(i, m)
           added == [a EXCEPT !.chunks[m.index] = bytes, !.wanted = @ \ {m.index}]
           kept  == [added EXCEPT !.waiting = IF added.wanted = {} THEN "nothing" ELSE @]
<1>1. /\ Sendable(m) /\ a \in Acquisitions /\ a # None /\ a.waiting = "Chunk"
      /\ Sound(i, a, policy, want[i], partial[i], chunkFile[i], complete[i])
      /\ m.kind = "Chunk" /\ UNCHANGED known
  BY ReceivedFacts, NoneAssumption DEF AcceptChunk, AnswerKinds
<1>2. m.index \in Chunks /\ bytes \in Bytes /\ a.assembly # None
  BY <1>1 DEF Sendable, Sound, Waits, Payload, Bytes
<1> HIDE DEF bytes
<1>3. /\ added \in Acquisitions /\ added.assembly = a.assembly /\ added.sources = a.sources
      /\ added.manifest = a.manifest /\ added.manifestSource = a.manifestSource
      /\ kept \in Acquisitions /\ kept.sources = a.sources
  BY <1>1, <1>2 DEF Acquisitions
<1> HIDE DEF added, kept
<1>4. CASE AllReceived(added.chunks) /\ Committed(i, added, inspected, TRUE)
  <2>1. Committable(i, added)
    BY <1>1, <1>2, <1>3, <1>4 DEF Committable, Sound, Pinned, Admitted
  <2> QED
    BY <1>1, <1>3, <1>4, <2>1, CommittedMindful
<1>5. CASE acq' = [acq EXCEPT ![i] = kept] /\ UNCHANGED inspected
  <2>1. kept # None /\ acq'[i] = kept
    BY <1>3, <1>5, NoneAssumption, InvFacts
  <2>2. Kept(i)
    BY <1>1, <1>5, <2>1 DEF Kept, Refused
  <2> QED
    BY <1>1, <1>3, <1>5, <2>2, OneMindful
<1> QED
  BY <1>4, <1>5 DEF AcceptChunk, Committed, added, kept, bytes

(***************************************************************************)
(* A leaf adds its sender, and only to what is eligible there.             *)
(***************************************************************************)
LEMMA LeafMindful ==
  ASSUME AcquisitionInv, NEW m \in air, AcceptLeaf(m), NEW i \in IDs
  PROVE  /\ Kept(i)
         /\ NoNewSource(i) \/ /\ Eligible(i, m.peer)
                              /\ Sources(acq'[i]) \subseteq Sources(acq[i]) \cup {m.peer}
<1>1. UNCHANGED <<known, inspected>>
  BY DEF AcceptLeaf, disk
<1>2. acq'[i] = acq[i] \/ (Eligible(i, m.peer) /\ acq'[i] = WithSource(Candidate(i), m.peer))
  BY DEF AcceptLeaf
<1>3. CASE acq'[i] = acq[i]
  BY <1>1, <1>3 DEF Kept, Refused, NoNewSource
<1>4. CASE Eligible(i, m.peer) /\ acq'[i] = WithSource(Candidate(i), m.peer)
  <2>1. /\ Candidate(i) \in Acquisitions /\ m.peer \in Peers
        /\ Sound(i, Candidate(i), policy, want[i], partial[i], chunkFile[i], complete[i])
        /\ SeqRange(Candidate(i).sources) = Sources(acq[i])
    <3>1. Sound(i, NewAcquisition, policy, want[i], partial[i], chunkFile[i], complete[i])
      BY NewSound
    <3>2. SeqRange(NewAcquisition.sources) = {}
      BY DEF NewAcquisition, SeqRange
    <3>3. Sound(i, Candidate(i), policy, want[i], partial[i], chunkFile[i], complete[i])
      BY <3>1, InvFacts DEF Candidate, Active
    <3>4. SeqRange(Candidate(i).sources) = Sources(acq[i])
      BY <3>2 DEF Candidate, Sources
    <3> QED
      BY <3>3, <3>4
         DEF Sound, AcquisitionInv, AirSound, Sendable
  <2>2. acq'[i] # None
    <3>1. Sound(i, acq'[i], policy, want[i], partial[i], chunkFile[i], complete[i])
      BY <1>4, <2>1, WithSourceSound
    <3> QED
      BY <3>1, NoneAssumption DEF Sound
  <2>3. SeqRange(acq'[i].sources) \subseteq SeqRange(Candidate(i).sources) \cup {m.peer}
    <3> DEFINE s == Candidate(i).sources
    <3>1. s \in Seq(Peers)
      BY <2>1, SourceListFacts DEF Acquisitions
    <3>2. acq'[i].sources = s \/ acq'[i].sources = Append(s, m.peer)
      BY <1>4, <2>1 DEF WithSource, Acquisitions
    <3> HIDE DEF s
    <3>3. SeqRange(Append(s, m.peer)) \subseteq SeqRange(s) \cup {m.peer}
      BY <2>1, <3>1, AppendProperties DEF SeqRange
    <3> QED
      BY <3>2, <3>3 DEF s
  <2> QED
    BY <1>1, <1>4, <2>1, <2>2, <2>3 DEF Kept, Refused, Sources
<1> QED
  BY <1>2, <1>3, <1>4

LEMMA NextMindful ==
  ASSUME AcquisitionInv, Next PROVE Mindful \/ \E m \in air : AcceptLeaf(m)
<1>1. CASE Start \/ Stop \/ ReconcileTimeout
  <2>1. Stop => Mindful
    BY GoneMindful DEF Stop, Down, disk
  <2> QED
    BY <1>1, <2>1, StartMindful, SameMindful DEF ReconcileTimeout, disk
<1>2. ASSUME NEW i \in IDs, Initiate(i) \/ Timeout(i) \/ Want(i)
      PROVE  Mindful
  BY <1>2, InitiateMindful, TimeoutMindful, WantMindful
<1>3. ASSUME NEW p \in Peers, InitiateReconcile(p) \/ Depart(p)
      PROVE  Mindful
  BY <1>3, SameMindful DEF InitiateReconcile, Depart, disk, runtime
<1>4. ASSUME NEW m \in air, NEW sent \in SUBSET Chunks, NEW spoilt \in SUBSET Chunks,
             Serve(m, sent, spoilt) \/ ServeMalformed(m)
      PROVE  Mindful
  BY <1>4, SameMindful DEF Serve, ServeMalformed, disk, runtime
<1>5. ASSUME NEW m \in air, NEW i \in IDs,
             \/ AcceptManifest(i, m) \/ RejectSignature(i, m) \/ AcceptSignature(i, m)
             \/ AcceptChunk(i, m) \/ ChunkWriteFails(i, m)
      PROVE  Mindful
  <2>1. ChunkWriteFails(i, m) => Mindful
    BY SameMindful DEF ChunkWriteFails, runtime
  <2> QED
    BY <1>5, <2>1, AcceptManifestMindful, RejectSignatureMindful, AcceptSignatureMindful,
       AcceptChunkMindful
<1> QED
  BY <1>1, <1>2, <1>3, <1>4, <1>5 DEF Next

(***************************************************************************)
(* What was refused is remembered, or as many sources as there is room     *)
(* for are.                                                                *)
(***************************************************************************)
Full(i) == ~(Cardinality(inspected[i]) < MaxInspected)

Remembered ==
  \A i \in IDs : complete[i] = None /\ refused[i] # {} =>
    known[i] # None /\ (refused[i] \subseteq inspected[i] \/ Full(i))

LEMMA LibraryGrows ==
  ASSUME AcquisitionInv, LibraryStep, NEW i \in IDs, complete[i] # None
  PROVE  complete'[i] # None
<1>1. \A j \in IDs : Library!Acquire(j) => complete'[i] # None
  BY DEF Library!Acquire, AcquisitionInv, DiskType
<1> QED
  BY <1>1 DEF LibraryStep, Library!Next, Library!vars, Library!Restart,
              Library!Begin, Library!Abandon, Library!Wish

LEMMA RecordedKeeps ==
  ASSUME AcquisitionInv, NEW i \in IDs, NEW p, inspected'[i] = Inspect(i, p)[i]
  PROVE  /\ inspected[i] \subseteq inspected'[i] /\ (Full(i) => Full(i)')
         /\ p \in inspected'[i] \/ Full(i)'
BY DEF Inspect, Full, AcquisitionInv, NodeType

LEMMA RememberedKept ==
  ASSUME AcquisitionInv, Settled, Remembered, [MemoryNext]_memoryVars
  PROVE  Remembered'
<1>1. CASE UNCHANGED memoryVars
  BY <1>1 DEF memoryVars, vars, disk, runtime, Remembered, Full
<1>2. CASE MemoryNext
  <2>1. LibraryStep
    BY <1>2, NextSettled DEF MemoryNext
  <2>2. ASSUME NEW i \in IDs
        PROVE  Kept(i)
    BY <1>2, NextMindful, LeafMindful DEF MemoryNext, Mindful
  <2>3. ASSUME NEW i \in IDs
        PROVE  refused'[i] = (IF ~up' THEN {}
                              ELSE IF Refused(i) THEN refused[i] \cup {acq[i].activeSource}
                              ELSE refused[i])
    BY <1>2 DEF MemoryNext
  <2>4. ASSUME NEW i \in IDs, complete'[i] = None, refused'[i] # {}
        PROVE  known'[i] # None /\ (refused'[i] \subseteq inspected'[i] \/ Full(i)')
    <3>1. up' /\ complete[i] = None
      BY <2>1, <2>3, <2>4, LibraryGrows
    <3>2. CASE inspected'[i] = inspected[i] /\ ~Refused(i)
      BY <2>2, <2>3, <2>4, <3>1, <3>2 DEF Remembered, Kept, Full
    <3>3. CASE Recorded(i)
      <4>1. PICK p : /\ inspected'[i] = Inspect(i, p)[i]
                     /\ Refused(i) => p = acq[i].activeSource /\ known'[i] # None
        BY <3>3 DEF Recorded
      <4>2. /\ inspected[i] \subseteq inspected'[i] /\ (Full(i) => Full(i)')
            /\ p \in inspected'[i] \/ Full(i)'
        BY <4>1, RecordedKeeps
      <4> QED
        BY <2>2, <2>3, <2>4, <3>1, <4>1, <4>2 DEF Remembered, Kept
    <3> QED
      BY <2>2, <2>4, <3>1, <3>2, <3>3 DEF Kept
  <2> QED
    BY <2>4 DEF Remembered
<1> QED
  BY <1>1, <1>2

-----------------------------------------------------------------------------
(***************************************************************************)
(* Every state of every execution satisfies the inductive invariant: what  *)
(* is in the air was sent by a holder or asked by the node, every          *)
(* acquisition agrees with its directory, its pinned source and the policy,*)
(* and one exchange at most is outstanding, to which the answer bearing    *)
(* its transaction number belongs (runtime.go, the node's loop).           *)
(***************************************************************************)
THEOREM AcquisitionInvariant == Spec => []AcquisitionInv
BY InitInv, NextInv, PTL DEF Spec

\* Every variable keeps its type whatever is lost, repeated or fails.
THEOREM AcquisitionTypeOK == Spec => []TypeOK
<1>1. AcquisitionInv => TypeOK
  BY DEF AcquisitionInv, DiskType, NodeType, AllSound, TypeOK
<1> QED
  BY <1>1, AcquisitionInvariant, PTL

(***************************************************************************)
(* At most one exchange the node began is outstanding, and what it waits   *)
(* for is a signature of the pinned source or chunks that are missing      *)
(* (runtime.go active and initiate; architecture.md, Half-Duplex           *)
(* Scheduling).                                                            *)
(***************************************************************************)
THEOREM OneExchangeAlways == Spec => []OneExchange
<1>1. AcquisitionInv => OneExchange
  <2> SUFFICES ASSUME AcquisitionInv PROVE OneExchange
    OBVIOUS
  <2>1. Cardinality(Outstanding) + (IF recon = None THEN 0 ELSE 1) <= 1
    <3>1. CASE Outstanding = {}
      BY <3>1, FS_EmptySet
    <3>2. CASE Outstanding # {}
      <4>1. PICK i : i \in Outstanding
        BY <3>2
      <4>2. Outstanding = {i} /\ recon = None
        BY <4>1 DEF AcquisitionInv, OneAtATime
      <4>3. Cardinality({i}) = 1
        BY FS_Singleton
      <4> QED
        BY <4>2, <4>3
    <3> QED
      BY <3>1, <3>2
  <2>2. \A i \in Outstanding : Waits(acq[i])
    BY InvFacts DEF Outstanding, Sound
  <2> QED
    BY <2>1, <2>2 DEF OneExchange, Waits
<1> QED
  BY <1>1, AcquisitionInvariant, PTL

(***************************************************************************)
(* Whatever is stored about a publication -- known, partial or complete -- *)
(* is a manifest some peer holds: name and signature never come from two   *)
(* sources or two exchanges (runtime.go acceptManifest, acceptSignature).  *)
(***************************************************************************)
THEOREM ManifestsNeverMixed == Spec => []ManifestsNotMixed
<1>1. AcquisitionInv => ManifestsNotMixed
  BY DEF AcquisitionInv
<1> QED
  BY <1>1, AcquisitionInvariant, PTL

(***************************************************************************)
(* Chunks are held and asked for under an admitted manifest only, also     *)
(* after a restart with another policy (runtime.go NewRuntime,             *)
(* acceptSignature; policy.go Accept).                                     *)
(***************************************************************************)
THEOREM PolicyAlwaysRespected == Spec => []PolicyRespected
<1>1. AcquisitionInv => PolicyRespected
  BY InvFacts DEF PolicyRespected, Sound, Admitted
<1> QED
  BY <1>1, AcquisitionInvariant, PTL

(***************************************************************************)
(* A chunk counts as received only while its partial directory holds it,   *)
(* under the manifest it is received under, whatever writes fail and       *)
(* wherever a start resumes.  When a commit leaves any part of the         *)
(* directory behind, the assembly still in memory lacks nothing, and is    *)
(* complete under the same manifest or of the wrong hash (runtime.go       *)
(* acceptChunk, acceptSignature, NewRuntime; store.go Commit, Restart).    *)
(***************************************************************************)
THEOREM ReceiptsAlwaysDurable == Spec => []ReceiptsAreDurable
<1>1. AcquisitionInv => ReceiptsAreDurable
  BY InvFacts DEF ReceiptsAreDurable, Sound, Durable
<1> QED
  BY <1>1, AcquisitionInvariant, PTL

\* what is held stays settled in every execution
LEMMA AlwaysSettled == Spec => []Settled
<1>1. Init => Settled
  BY DEF Init, Settled, SettledOne
<1>2. AcquisitionInv /\ Settled /\ [Next]_vars => Settled'
  BY NextSettled
<1> QED
  BY <1>1, <1>2, AcquisitionInvariant, PTL DEF Spec

(***************************************************************************)
(* A node never asks a peer about a publication it holds, however often    *)
(* its commits fail and its process stops: what a restart resumes beside   *)
(* the complete object has no source, and a leaf gives it none             *)
(* (runtime.go acceptLeaf, initiate, NewRuntime).                          *)
(***************************************************************************)
THEOREM NeverRequestedWhenHeld == Spec => []CompleteNotRequested
<1>1. AcquisitionInv /\ Settled => CompleteNotRequested
  BY InvFacts, AwaitedNotHeld DEF CompleteNotRequested, Outstanding, Active
<1> QED
  BY <1>1, AlwaysSettled, AcquisitionInvariant, PTL

(***************************************************************************)
(* The node remembers at which sources policy refused a publication, and   *)
(* takes no such source for it again: of all steps only a leaf adds one,   *)
(* every refusal is recorded, and nothing short of the acquired            *)
(* publication or the end of the process forgets it (runtime.go            *)
(* acceptLeaf, acceptSignature, markSourceInspected).                      *)
(***************************************************************************)
THEOREM RefusalsRemembered == MemorySpec => RefusalRemembered
<1> DEFINE A == \A i \in IDs : \A p \in refused[i] :
                  p \in Sources(acq'[i]) \ Sources(acq[i])
                  => \/ want[i] \/ partial[i] # None
                     \/ ~(Cardinality(inspected[i]) < MaxInspected)
<1>1. MemorySpec => Spec
  <2>1. MemoryInit => Init
    BY DEF MemoryInit
  <2>2. [MemoryNext]_memoryVars => [Next]_vars
    BY DEF MemoryNext, memoryVars
  <2> QED
    BY <2>1, <2>2, PTL DEF MemorySpec, Spec
<1>2. MemoryInit => Remembered
  BY DEF MemoryInit, Remembered
<1>3. AcquisitionInv /\ Settled /\ Remembered /\ [MemoryNext]_memoryVars => Remembered'
  BY RememberedKept
<1>4. AcquisitionInv /\ Remembered /\ [MemoryNext]_memoryVars => [A]_memoryVars
  <2> SUFFICES ASSUME AcquisitionInv, Remembered, Next, NEW i \in IDs, NEW p \in refused[i],
                      p \in Sources(acq'[i]) \ Sources(acq[i])
               PROVE  want[i] \/ partial[i] # None \/ Full(i)
    BY DEF MemoryNext, Full
  <2>1. PICK m \in air : AcceptLeaf(m)
    BY NextMindful DEF Mindful, NoNewSource
  <2>2. Eligible(i, m.peer) /\ p = m.peer
    BY <2>1, LeafMindful DEF NoNewSource
  <2> QED
    BY <2>2 DEF Eligible, Remembered
<1>5. [][A]_memoryVars => RefusalRemembered
  BY PTL DEF RefusalRemembered
<1> QED
  BY <1>1, <1>2, <1>3, <1>4, <1>5, AlwaysSettled, AcquisitionInvariant, PTL DEF MemorySpec

(***************************************************************************)
(* The node keeps what Replica promises: under every loss, fault and stop, *)
(* a publication enters objects/<id> once, under a manifest some peer      *)
(* holds and the policy in force admits, and a transfer ends under the     *)
(* manifest it began with (runtime.go acceptSignature, acceptChunk,        *)
(* NewRuntime; store.go Commit).                                           *)
(***************************************************************************)
THEOREM AcquisitionImplementsReplica == Spec => ImplementsReplica
<1>1. Init => Library!Init
  BY DEF Init, Library!Init
<1>2. AcquisitionInv /\ Settled /\ [Next]_vars => [Library!Next]_(Library!vars)
  BY NextSettled DEF LibraryStep
<1> QED
  BY <1>1, <1>2, AlwaysSettled, AcquisitionInvariant, PTL DEF Spec, ImplementsReplica, Library!Spec

=============================================================================
