------------------------- MODULE ReconciliationProofs -------------------------
(***************************************************************************)
(* Proofs about reconciliation, for every radix, depth and leaf size,      *)
(* every set of peers and inventories that grow, every bound on tracked    *)
(* peers, jobs and acquisitions, and answers that are lost, late, repeated *)
(* or unusable.                                                            *)
(***************************************************************************)
EXTENDS Reconciliation, CommonLemmas

(***************************************************************************)
(* The messages in the air were sent by the node or by a peer about an     *)
(* inventory it had; a summary is only sent of a group that has children.  *)
(***************************************************************************)
Sent(m) ==
  /\ m.kind \in {"Root", "SummaryRequest", "Summary", "Leaf"} /\ m.peer \in Peers
  /\ m.kind = "Root" => \E g \in Generations : m.body = BuildSummary(g, <<>>)
  /\ m.kind = "SummaryRequest" => m.generation \in Generations /\ m.prefix \in Branches
  /\ m.kind = "Summary" => \E g \in Generations, b \in Branches :
                             Len(b) < Depth /\ m.body = BuildSummary(g, b)
  /\ m.kind = "Leaf" => \E g \in Generations, b \in Branches : m.body = BuildLeaf(g, b)

AirSent == \A m \in air : Sent(m)

(***************************************************************************)
(* What bears the peer and the transaction number of the active job is     *)
(* about its generation and its branch.                                    *)
(***************************************************************************)
InReply(m, job) ==
  /\ m.kind = "SummaryRequest" => m.generation = job.generation /\ m.prefix = job.prefix
  /\ m.kind \in {"Summary", "Leaf"} => Current(m.body, job)

AirCurrent ==
  reconcileActive # None =>
    \A m \in air : m.kind # "Root" /\ m.peer = reconcileActive.job.peer
                   /\ m.tx = reconcileActive.tx => InReply(m, reconcileActive.job)

StoreOK ==
  /\ objects \subseteq IDs /\ completeIDs \subseteq objects
  /\ found \in [IDs -> SUBSET Peers]
  /\ inventory \in [Peers -> SUBSET IDs]
  /\ tx \in 0 .. TxCount - 1
  /\ growth \in 0 .. MaxGrowth /\ stops \in 0 .. MaxStops /\ givenUp \subseteq Jobs

PeersTracked ==
  /\ peerGenerations \in [Peers -> Generations \cup {None}]
  /\ peerOrder \in Seq(Peers) /\ Len(peerOrder) <= MaxTrackedPeers
  /\ IsInjective(peerOrder)
  /\ \A p \in Peers : peerGenerations[p] # None <=> p \in Range(peerOrder)

QueueBounded ==
  /\ reconcileQueue \subseteq Jobs
  /\ IsFiniteSet(reconcileQueue) /\ Cardinality(reconcileQueue) <= MaxReconcileJobs

JobsTracked ==
  /\ reconcileActive \in [job : Jobs, tx : 0 .. TxCount - 1] \cup {None}
  /\ NoDuplicateJobs
  /\ \A j \in Pending : peerGenerations[j.peer] = j.generation

ReconciliationInv ==
  /\ StoreOK /\ PeersTracked /\ QueueBounded /\ JobsTracked
  /\ DifferencesCovered
  /\ AirSent /\ AirCurrent

-----------------------------------------------------------------------------
(***************************************************************************)
(* Branches and the IDs under them.                                        *)
(***************************************************************************)
LEMMA BranchFacts ==
  ASSUME NEW b \in Branches
  PROVE  /\ b \in Seq(0 .. Radix - 1) /\ Len(b) \in 0 .. Depth /\ DOMAIN b = 1 .. Len(b)
         /\ \A k \in 1 .. Len(b) : b[k] \in 0 .. Radix - 1
<1>1. PICK n \in 0 .. Depth : b \in [1 .. n -> 0 .. Radix - 1]
  BY DEF Branches
<1> QED
  BY <1>1, RadixAssumption

LEMMA RootBranch == <<>> \in Branches /\ Len(<<>>) = 0 /\ Len(<<>>) < Depth
BY RadixAssumption DEF Branches

LEMMA BranchGrows ==
  ASSUME NEW b \in Branches, Len(b) < Depth, NEW c \in 0 .. Radix - 1
  PROVE  /\ Append(b, c) \in Branches /\ Len(Append(b, c)) = Len(b) + 1
         /\ Last(Append(b, c)) = c
<1>1. b \in Seq(0 .. Radix - 1) /\ Len(b) \in 0 .. Depth
  BY BranchFacts
<1>2. /\ Append(b, c) \in Seq(0 .. Radix - 1) /\ Len(Append(b, c)) = Len(b) + 1
      /\ Append(b, c)[Len(b) + 1] = c
  BY <1>1, AppendProperties
<1>3. Append(b, c) \in [1 .. Len(b) + 1 -> 0 .. Radix - 1]
  BY <1>2, LenProperties
<1>4. Len(b) + 1 \in 0 .. Depth
  BY <1>1, RadixAssumption
<1> QED
  BY <1>2, <1>3, <1>4 DEF Branches, Last

LEMMA UnderBranch ==
  ASSUME NEW b \in Branches, NEW i \in IDs
  PROVE  IsPrefix(b, i) <=> \A k \in 1 .. Len(b) : b[k] = i[k]
<1>1. /\ b \in Seq(0 .. Radix - 1) /\ Len(b) \in 0 .. Depth /\ DOMAIN b = 1 .. Len(b)
  BY BranchFacts
<1>2. i \in Seq(0 .. Radix - 1) /\ Len(i) = Depth
  BY RadixAssumption
<1> DEFINE u == SubSeq(b, 1, Len(b))
           v == SubSeq(i, 1, Len(b))
<1>3. /\ u \in Seq(0 .. Radix - 1) /\ Len(u) = Len(b)
      /\ \A k \in 1 .. Len(b) : u[k] = b[k]
  BY <1>1, SubSeqProperties, RadixAssumption
<1>4. /\ v \in Seq(0 .. Radix - 1) /\ Len(v) = Len(b)
      /\ \A k \in 1 .. Len(b) : v[k] = i[k]
  BY <1>1, <1>2, SubSeqProperties, RadixAssumption
<1>5. IsPrefix(b, i) <=> u = v
  BY <1>1, <1>2, RadixAssumption DEF IsPrefix
<1> HIDE DEF u, v
<1>6. (\A k \in 1 .. Len(b) : b[k] = i[k]) => u = v
  BY <1>3, <1>4, SeqEqual
<1>7. u = v => \A k \in 1 .. Len(b) : b[k] = i[k]
  BY <1>3, <1>4
<1> QED
  BY <1>5, <1>6, <1>7

LEMMA ChildOfID ==
  ASSUME NEW b \in Branches, Len(b) < Depth, NEW i \in IDs, IsPrefix(b, i)
  PROVE  /\ i[Len(b) + 1] \in 0 .. Radix - 1
         /\ IsPrefix(Append(b, i[Len(b) + 1]), i)
<1> DEFINE c == i[Len(b) + 1]
<1>1. b \in Seq(0 .. Radix - 1) /\ Len(b) \in 0 .. Depth
  BY BranchFacts
<1>2. c \in 0 .. Radix - 1
  BY <1>1, RadixAssumption
<1> HIDE DEF c
<1>3. /\ Append(b, c) \in Branches /\ Len(Append(b, c)) = Len(b) + 1
  BY <1>2, BranchGrows
<1>4. \A k \in 1 .. Len(b) : b[k] = i[k]
  BY UnderBranch
<1>5. \A k \in 1 .. Len(b) + 1 : Append(b, c)[k] = i[k]
  BY <1>1, <1>2, <1>4, AppendProperties DEF c
<1> QED
  BY <1>2, <1>3, <1>5, UnderBranch DEF c

(***************************************************************************)
(* Under a whole ID there is one ID at most, so it is sent as a leaf.      *)
(***************************************************************************)
LEMMA WholeIDIsLeaf ==
  ASSUME NEW ids \in Generations, NEW b \in Branches, ~(Len(b) < Depth)
  PROVE  Cardinality(FilterPrefix(ids, b)) <= LeafThreshold
<1>1. Len(b) = Depth /\ b \in [1 .. Depth -> 0 .. Radix - 1]
  BY BranchFacts, RadixAssumption
<1>2. FilterPrefix(ids, b) \subseteq {b}
  <2> SUFFICES ASSUME NEW i \in ids, IsPrefix(b, i) PROVE i = b
    BY DEF FilterPrefix
  <2>1. i \in [1 .. Depth -> 0 .. Radix - 1]
    BY RadixAssumption DEF Generations
  <2>2. \A k \in 1 .. Depth : b[k] = i[k]
    BY <1>1, UnderBranch DEF Generations
  <2> QED
    BY <1>1, <2>1, <2>2
<1>3. IsFiniteSet({b}) /\ Cardinality({b}) = 1
  BY FS_Singleton
<1>4. Cardinality(FilterPrefix(ids, b)) <= 1
  BY <1>2, <1>3, FS_Subset
<1> QED
  BY <1>2, <1>3, <1>4, FS_Subset, FS_CardinalityType, RadixAssumption

-----------------------------------------------------------------------------
(***************************************************************************)
(* The children that differ: branches one longer, each with its own last   *)
(* nibble; and an ID that is missing lies under one of them.               *)
(***************************************************************************)
Siblings(D) ==
  /\ D \subseteq Branches /\ IsFiniteSet(D)
  /\ \A x \in D : Last(x) \in 0 .. Radix - 1
  /\ \A x, y \in D : Last(x) = Last(y) => x = y

LEMMA DifferingSiblings ==
  ASSUME NEW ours, NEW theirs, NEW b \in Branches, Len(b) < Depth, NEW remote,
         remote = BuildSummary(theirs, b)
  PROVE  /\ Siblings(DifferingChildren(BuildSummary(ours, b), remote))
         /\ \A x \in DifferingChildren(BuildSummary(ours, b), remote) : Len(x) = Len(b) + 1
<1> DEFINE D == DifferingChildren(BuildSummary(ours, b), remote)
           All == {Append(b, c) : c \in 0 .. Radix - 1}
<1>1. D \subseteq All
  BY DEF DifferingChildren, BuildSummary
<1>2. IsFiniteSet(0 .. Radix - 1)
  BY FS_Interval, RadixAssumption
<1>3. IsFiniteSet(All)
  <2> DEFINE child == [c \in 0 .. Radix - 1 |-> Append(b, c)]
  <2>1. child \in Surjection(0 .. Radix - 1, All)
    BY DEF Surjection
  <2> QED
    BY <1>2, <2>1, FS_Surjection
<1>4. IsFiniteSet(D)
  BY <1>1, <1>3, FS_Subset
<1>5. \A c \in 0 .. Radix - 1 : /\ Append(b, c) \in Branches
                                /\ Len(Append(b, c)) = Len(b) + 1
                                /\ Last(Append(b, c)) = c
  BY BranchGrows
<1>6. \A x \in All : /\ x \in Branches /\ Len(x) = Len(b) + 1 /\ Last(x) \in 0 .. Radix - 1
                     /\ x = Append(b, Last(x))
  <2> SUFFICES ASSUME NEW c \in 0 .. Radix - 1
               PROVE  LET x == Append(b, c)
                      IN /\ x \in Branches /\ Len(x) = Len(b) + 1 /\ Last(x) \in 0 .. Radix - 1
                         /\ x = Append(b, Last(x))
    OBVIOUS
  <2> QED
    BY <1>5, RadixAssumption
<1> HIDE DEF D, All
<1> QED
  BY <1>1, <1>4, <1>6 DEF Siblings, D

LEMMA MissingUnderChild ==
  ASSUME NEW ours, NEW theirs \in Generations, NEW b \in Branches, Len(b) < Depth,
         NEW remote, remote = BuildSummary(theirs, b),
         NEW i \in theirs, i \notin ours, IsPrefix(b, i)
  PROVE  \E x \in DifferingChildren(BuildSummary(ours, b), remote) : IsPrefix(x, i)
<1> DEFINE c == i[Len(b) + 1]
<1>1. i \in IDs
  BY DEF Generations
<1>2. c \in 0 .. Radix - 1 /\ IsPrefix(Append(b, c), i)
  BY <1>1, ChildOfID
<1> HIDE DEF c
<1>3. ~(Len(b) >= Depth)
  BY BranchFacts, RadixAssumption
<1>4. i \in FilterPrefix(theirs, Append(b, c)) /\ i \notin FilterPrefix(ours, Append(b, c))
  BY <1>2 DEF FilterPrefix
<1>5. Append(b, c) \in DifferingChildren(BuildSummary(ours, b), remote)
  BY <1>2, <1>3, <1>4 DEF DifferingChildren, BuildSummary
<1> QED
  BY <1>2, <1>5

-----------------------------------------------------------------------------
(***************************************************************************)
(* New jobs, and how many of them the queue takes.                         *)
(***************************************************************************)
NewJobs(new, p, g) ==
  /\ new \subseteq Jobs /\ IsFiniteSet(new)
  /\ \A j \in new : j.peer = p /\ j.generation = g /\ Last(j.prefix) \in 0 .. Radix - 1
  /\ \A j, k \in new : Last(j.prefix) = Last(k.prefix) => j = k

LEMMA NewFacts ==
  ASSUME NEW p \in Peers, NEW g \in Generations, NEW D, Siblings(D), NEW queue, NEW active
  PROVE  /\ NewJobs(New(queue, active, p, g, D), p, g)
         /\ \A x \in D : LET j == [peer |-> p, generation |-> g, prefix |-> x]
                         IN \/ j \in New(queue, active, p, g, D) \/ j \in queue
                            \/ active # None /\ active.job.peer = p /\ active.job.prefix = x
         /\ \A j \in New(queue, active, p, g, D) :
              /\ j.prefix \in D
              /\ active # None => active.job # j
<1> DEFINE All == [peer : {p}, generation : {g}, prefix : D]
           job == [x \in D |-> [peer |-> p, generation |-> g, prefix |-> x]]
           new == New(queue, active, p, g, D)
<1>1. IsFiniteSet(D) /\ D \subseteq Branches
  BY DEF Siblings
<1>2. job \in Surjection(D, All)
  BY DEF Surjection
<1>3. IsFiniteSet(All)
  BY <1>1, <1>2, FS_Surjection
<1>4. new \subseteq All
  BY DEF New
<1>5. IsFiniteSet(new)
  BY <1>3, <1>4, FS_Subset
<1>6. \A j \in All : /\ j \in Jobs /\ j.peer = p /\ j.generation = g /\ j.prefix \in D
                     /\ j = [peer |-> p, generation |-> g, prefix |-> j.prefix]
  BY <1>1 DEF Jobs
<1>7. \A j, k \in All : Last(j.prefix) = Last(k.prefix) => j = k
  BY <1>6 DEF Siblings
<1>8. \A x \in D : LET j == [peer |-> p, generation |-> g, prefix |-> x]
                   IN \/ j \in new \/ j \in queue
                      \/ active # None /\ active.job.peer = p /\ active.job.prefix = x
  <2>1. ASSUME NEW x \in D, NEW j \in All, j.prefix = x, j \notin new, j \notin queue
        PROVE  active # None /\ active.job.peer = p /\ active.job.prefix = x
    <3> HIDE DEF All
    <3> QED
      BY <2>1 DEF New, All
  <2>2. \A x \in D : LET j == [peer |-> p, generation |-> g, prefix |-> x]
                     IN j \in All /\ j.prefix = x
    OBVIOUS
  <2> HIDE DEF All, new
  <2> QED
    BY <2>1, <2>2
<1>9. \A j \in new : active # None => active.job # j
  BY <1>6 DEF New
<1> HIDE DEF All, new
<1>10. NewJobs(new, p, g)
  BY <1>4, <1>5, <1>6, <1>7 DEF NewJobs, Siblings
<1> QED
  BY <1>4, <1>6, <1>8, <1>9, <1>10 DEF new

(***************************************************************************)
(* However many jobs are new, the queue stays within its bound: of those   *)
(* it takes, all but the last one come before that one.                    *)
(***************************************************************************)
LEMMA QueuedFacts ==
  ASSUME NEW queue, IsFiniteSet(queue), Cardinality(queue) <= MaxReconcileJobs,
         NEW p, NEW g, NEW new, NewJobs(new, p, g)
  PROVE  /\ queue \subseteq Queued(queue, new) /\ Queued(queue, new) \subseteq queue \cup new
         /\ IsFiniteSet(Queued(queue, new))
         /\ Cardinality(Queued(queue, new)) <= MaxReconcileJobs
<1> DEFINE before(j) == {k \in new : Last(k.prefix) < Last(j.prefix)}
           taken == {j \in new : Cardinality(queue) + Cardinality(before(j)) < MaxReconcileJobs}
<1>1. Queued(queue, new) = queue \cup taken
  BY DEF Queued
<1>2. IsFiniteSet(new) /\ IsFiniteSet(taken) /\ taken \subseteq new
  BY FS_Subset DEF NewJobs
<1>3. IsFiniteSet(queue \cup taken)
  BY <1>2, FS_Union
<1>4. Cardinality(queue) \in Nat /\ Cardinality(taken) \in Nat /\ MaxReconcileJobs \in Nat
  BY <1>2, FS_CardinalityType, ReconciliationAssumption
<1>5. Cardinality(queue \cup taken) <= Cardinality(queue) + Cardinality(taken)
  <2> HIDE DEF taken
  <2>1. Cardinality(queue \cup taken) =
          Cardinality(queue) + Cardinality(taken) - Cardinality(queue \cap taken)
    BY <1>2, FS_Union
  <2>2. Cardinality(queue \cap taken) \in Nat
    BY FS_Intersection, FS_CardinalityType
  <2> QED
    BY <1>4, <2>1, <2>2
<1>6. Cardinality(queue) + Cardinality(taken) <= MaxReconcileJobs
  <2>1. CASE taken = {}
    <3> HIDE DEF taken
    <3> QED
      BY <2>1, <1>4, FS_EmptySet
  <2>2. CASE taken # {}
    <3>1. PICK j \in taken : \A k \in taken : Last(k.prefix) <= Last(j.prefix)
      <4> DEFINE room(k) == Radix - 1 - Last(k.prefix)
                 T == {room(k) : k \in taken}
      <4>1. \A k \in taken : Last(k.prefix) \in 0 .. Radix - 1 /\ room(k) \in Nat
        BY <1>2, RadixAssumption DEF NewJobs
      <4>2. T \in SUBSET Nat /\ T # {}
        BY <2>2, <4>1
      <4>3. PICK c \in T : \A d \in T : ~(d < c)
        BY <4>2, LeastElement
      <4>4. PICK j \in taken : c = room(j)
        BY <4>3
      <4>5. \A k \in taken : ~(room(k) < room(j))
        BY <4>3, <4>4
      <4>6. \A k \in taken : Last(k.prefix) <= Last(j.prefix)
        <5> SUFFICES ASSUME NEW k \in taken PROVE Last(k.prefix) <= Last(j.prefix)
          OBVIOUS
        <5>1. ~(Radix - 1 - Last(k.prefix) < Radix - 1 - Last(j.prefix))
          BY <4>5
        <5> HIDE DEF taken
        <5> QED
          BY <4>1, <5>1, RadixAssumption
      <4> QED
        BY <4>6
    <3>2. taken \subseteq before(j) \cup {j}
      <4> SUFFICES ASSUME NEW k \in taken, k # j
                   PROVE  Last(k.prefix) < Last(j.prefix)
        BY <1>2
      <4>1. /\ Last(k.prefix) \in Nat /\ Last(j.prefix) \in Nat
            /\ Last(k.prefix) # Last(j.prefix)
        BY <1>2 DEF NewJobs
      <4> QED
        BY <3>1, <4>1
    <3>3. IsFiniteSet(before(j)) /\ j \notin before(j)
      <4>1. before(j) \subseteq new
        OBVIOUS
      <4>2. ~(Last(j.prefix) < Last(j.prefix))
        BY <1>2 DEF NewJobs
      <4> QED
        BY <1>2, <4>1, <4>2, FS_Subset
    <3>4. /\ IsFiniteSet(before(j) \cup {j})
          /\ Cardinality(before(j) \cup {j}) = Cardinality(before(j)) + 1
      BY <3>3, FS_AddElement
    <3>5. Cardinality(taken) <= Cardinality(before(j)) + 1
      BY <3>2, <3>4, FS_Subset
    <3>6. Cardinality(queue) + Cardinality(before(j)) < MaxReconcileJobs
      OBVIOUS
    <3>7. Cardinality(before(j)) \in Nat
      BY <3>3, FS_CardinalityType
    <3> HIDE DEF before, taken
    <3> QED
      BY <1>4, <3>5, <3>6, <3>7
  <2> QED
    BY <2>1, <2>2
<1>7. Cardinality(queue \cup taken) \in Nat
  BY <1>3, FS_CardinalityType
<1> HIDE DEF taken
<1> QED
  BY <1>1, <1>2, <1>3, <1>4, <1>5, <1>6, <1>7

(***************************************************************************)
(* A new job is refused only by a full queue: of those it refuses, the     *)
(* first follows jobs that were taken and fill the room there was.         *)
(***************************************************************************)
LEMMA RefusedByFull ==
  ASSUME NEW queue, IsFiniteSet(queue),
         NEW p, NEW g, NEW new, NewJobs(new, p, g), queue \cap new = {},
         NEW r \in new, r \notin Queued(queue, new)
  PROVE  ~(Cardinality(Queued(queue, new)) < MaxReconcileJobs)
<1> DEFINE before(j) == {k \in new : Last(k.prefix) < Last(j.prefix)}
           taken == {j \in new : Cardinality(queue) + Cardinality(before(j)) < MaxReconcileJobs}
           nibble(k) == Last(k.prefix)
<1>1. Queued(queue, new) = queue \cup taken
  BY DEF Queued
<1>2. IsFiniteSet(new) /\ taken \subseteq new /\ \A k \in new : nibble(k) \in Nat
  BY DEF NewJobs
<1>3. PICK j \in new \ taken : \A k \in new \ taken : ~(nibble(k) < nibble(j))
  <2> DEFINE T == {nibble(k) : k \in new \ taken}
  <2>1. T \in SUBSET Nat /\ T # {}
    BY <1>1, <1>2
  <2>2. PICK c \in T : \A d \in T : ~(d < c)
    BY <2>1, LeastElement
  <2> QED
    BY <2>2
<1>4. before(j) \subseteq taken
  BY <1>3
<1>5. IsFiniteSet(before(j)) /\ IsFiniteSet(taken)
  BY <1>2, FS_Subset
<1> HIDE DEF taken
<1>6. ~(Cardinality(queue) + Cardinality(before(j)) < MaxReconcileJobs)
  BY <1>3 DEF taken
<1> DEFINE first == before(j)
<1>7. queue \cap first = {} /\ first \subseteq taken /\ IsFiniteSet(first)
  BY <1>2, <1>4, <1>5
<1>8. ~(Cardinality(queue) + Cardinality(first) < MaxReconcileJobs)
  BY <1>6
<1> HIDE DEF first, before
<1>9. Cardinality(queue \cup first) = Cardinality(queue) + Cardinality(first)
  <2>1. Cardinality(queue \cup first) =
          Cardinality(queue) + Cardinality(first) - Cardinality(queue \cap first)
    BY <1>7, FS_Union
  <2>2. Cardinality(queue \cap first) = 0
    BY <1>7, FS_EmptySet
  <2>3. Cardinality(queue) \in Nat /\ Cardinality(first) \in Nat
    BY <1>7, FS_CardinalityType
  <2> QED
    BY <2>1, <2>2, <2>3
<1>10. /\ IsFiniteSet(queue \cup taken)
       /\ Cardinality(queue \cup first) <= Cardinality(queue \cup taken)
  BY <1>5, <1>7, FS_Union, FS_Subset
<1>11. /\ Cardinality(queue \cup taken) \in Nat /\ Cardinality(queue) \in Nat
       /\ Cardinality(first) \in Nat /\ MaxReconcileJobs \in Nat
  BY <1>7, <1>10, FS_CardinalityType, ReconciliationAssumption
<1> QED
  BY <1>1, <1>8, <1>9, <1>10, <1>11

-----------------------------------------------------------------------------
(***************************************************************************)
(* What the air keeps beside a message.                                    *)
(***************************************************************************)
LEMMA TransmitSent ==
  ASSUME AirSent, NEW m, Sent(m), Transmit(m)
  PROVE  AirSent'
<1>1. air' \subseteq air \cup {m}
  BY DEF Transmit
<1> QED
  BY <1>1 DEF AirSent, Sent

LEMMA SameSent == ASSUME AirSent, air' \subseteq air PROVE AirSent'
BY DEF AirSent, Sent

(***************************************************************************)
(* Nothing is asked, so what answers the active job is what did before.    *)
(***************************************************************************)
LEMMA SameCurrent ==
  ASSUME AirCurrent, reconcileActive' \in {reconcileActive, None}, air' \subseteq air
  PROVE  AirCurrent'
BY DEF AirCurrent, InReply, Current

(***************************************************************************)
(* Steps that leave the tracked peers, the queue and the active job alone. *)
(***************************************************************************)
LEMMA SameWalk ==
  ASSUME ReconciliationInv, UNCHANGED walk
  PROVE  PeersTracked' /\ QueueBounded' /\ JobsTracked'
BY DEF ReconciliationInv, PeersTracked, QueueBounded, JobsTracked, NoDuplicateJobs, Pending, walk

LEMMA SameCovered ==
  ASSUME ReconciliationInv, UNCHANGED walk, givenUp \subseteq givenUp', objects \subseteq objects',
         \A i \in IDs : i \in objects' \/ found[i] \subseteq found'[i]
  PROVE  DifferencesCovered'
<1> SUFFICES ASSUME NEW p \in Peers, peerGenerations[p] # None,
                    NEW i \in peerGenerations[p] \ objects'
             PROVE  \/ p \in found'[i]
                    \/ \E j \in Pending \cup givenUp' : j.peer = p /\ IsPrefix(j.prefix, i)
  BY DEF DifferencesCovered, Pending, walk
<1>1. i \in IDs
  BY DEF ReconciliationInv, PeersTracked, Generations
<1> QED
  BY <1>1 DEF ReconciliationInv, DifferencesCovered

-----------------------------------------------------------------------------
(***************************************************************************)
(* The peers' side, and the node's own inventory.                          *)
(***************************************************************************)
LEMMA PeerAdvertiseInv ==
  ASSUME ReconciliationInv, NEW p \in Peers, PeerAdvertise(p) PROVE ReconciliationInv'
<1> DEFINE m == [kind |-> "Root", peer |-> p, body |-> BuildSummary(inventory[p], <<>>)]
<1>1. Transmit(m) /\ UNCHANGED <<objects, completeIDs, walk, tx, found, inventory, bounds, givenUp>>
  BY DEF PeerAdvertise
<1>2. /\ m.kind = "Root" /\ m.peer = p
      /\ \E g \in Generations : m.body = BuildSummary(g, <<>>)
  BY DEF ReconciliationInv, StoreOK, Generations
<1> HIDE DEF m
<1>3. AirSent'
  BY <1>1, <1>2, TransmitSent DEF Sent, ReconciliationInv
<1>4. \A l \in air' : l.kind # "Root" => l \in air
  BY <1>1, <1>2 DEF Transmit
<1>5. AirCurrent'
  BY <1>1, <1>4 DEF ReconciliationInv, AirCurrent, InReply, Current, walk
<1>6. StoreOK'
  BY <1>1 DEF ReconciliationInv, StoreOK, bounds
<1> QED
  BY <1>1, <1>3, <1>5, <1>6, SameWalk, SameCovered DEF ReconciliationInv

LEMMA ServeSummaryInv ==
  ASSUME ReconciliationInv, NEW m \in air, ServeSummary(m) PROVE ReconciliationInv'
<1> DEFINE ids == inventory[m.peer]
<1> DEFINE small == Cardinality(FilterPrefix(ids, m.prefix)) <= LeafThreshold
<1>0. PICK good \in BOOLEAN :
        air' = (air \ {m}) \cup
          {IF small THEN [kind |-> "Leaf", peer |-> m.peer, tx |-> m.tx,
                          body |-> BuildLeaf(ids, m.prefix), good |-> good]
           ELSE [kind |-> "Summary", peer |-> m.peer, tx |-> m.tx,
                 body |-> BuildSummary(ids, m.prefix), good |-> good]}
  BY DEF ServeSummary
<1>1. PICK l : /\ l.peer = m.peer /\ l.tx = m.tx /\ air' = (air \ {m}) \cup {l}
               /\ \/ l.kind = "Leaf" /\ l.body = BuildLeaf(ids, m.prefix)
                  \/ l.kind = "Summary" /\ l.body = BuildSummary(ids, m.prefix) /\ ~small
  <2> DEFINE leaf == [kind |-> "Leaf", peer |-> m.peer, tx |-> m.tx,
                      body |-> BuildLeaf(ids, m.prefix), good |-> good]
             summary == [kind |-> "Summary", peer |-> m.peer, tx |-> m.tx,
                         body |-> BuildSummary(ids, m.prefix), good |-> good]
  <2>1. air' = (air \ {m}) \cup {IF small THEN leaf ELSE summary}
    BY <1>0
  <2>2. /\ leaf.kind = "Leaf" /\ leaf.body = BuildLeaf(ids, m.prefix)
        /\ summary.kind = "Summary" /\ summary.body = BuildSummary(ids, m.prefix)
        /\ {leaf.peer, summary.peer} = {m.peer} /\ {leaf.tx, summary.tx} = {m.tx}
    OBVIOUS
  <2> HIDE DEF leaf, summary, small
  <2>3. CASE small
    BY <2>1, <2>2, <2>3
  <2>4. CASE ~small
    BY <2>1, <2>2, <2>4
  <2> QED
    BY <2>3, <2>4
<1>2. /\ m.kind = "SummaryRequest" /\ ids = m.generation
      /\ UNCHANGED <<objects, completeIDs, walk, tx, found, inventory, bounds, givenUp>>
  BY DEF ServeSummary
<1>3. m.peer \in Peers /\ m.prefix \in Branches /\ ids \in Generations
  BY <1>2 DEF ReconciliationInv, AirSent, Sent
<1> HIDE DEF ids
<1>5. Sent(l)
  <2>1. CASE l.kind = "Leaf"
    BY <1>1, <1>3, <2>1 DEF Sent
  <2>2. CASE l.kind = "Summary"
    <3>1. Len(m.prefix) < Depth
      BY <1>1, <1>3, <2>2, WholeIDIsLeaf
    <3> QED
      BY <1>1, <1>3, <2>2, <3>1 DEF Sent
  <2> QED
    BY <1>1, <2>1, <2>2
<1>6. AirSent'
  BY <1>1, <1>5 DEF ReconciliationInv, AirSent, Sent
<1>7. l.body.generation = m.generation /\ l.body.prefix = m.prefix
  BY <1>1, <1>2 DEF BuildLeaf, BuildSummary
<1>8. \A job : InReply(m, job) => InReply(l, job)
  BY <1>1, <1>2, <1>7 DEF InReply, Current
<1>9. AirCurrent'
  <2> SUFFICES ASSUME reconcileActive # None, NEW k \in air', k.kind # "Root",
                      k.peer = reconcileActive.job.peer, k.tx = reconcileActive.tx
               PROVE  InReply(k, reconcileActive.job)
    BY <1>2 DEF AirCurrent, walk, InReply, Current
  <2>1. CASE k \in air
    BY <2>1 DEF ReconciliationInv, AirCurrent
  <2>2. CASE k = l
    <3>1. InReply(m, reconcileActive.job)
      BY <1>1, <1>2, <2>2 DEF ReconciliationInv, AirCurrent
    <3> QED
      BY <1>8, <2>2, <3>1
  <2> QED
    BY <1>1, <2>1, <2>2
<1>10. StoreOK'
  BY <1>2 DEF ReconciliationInv, StoreOK, bounds
<1> QED
  BY <1>2, <1>6, <1>9, <1>10, SameWalk, SameCovered DEF ReconciliationInv

LEMMA PeerGrowsInv ==
  ASSUME ReconciliationInv, NEW p \in Peers, NEW i \in Growing[p], PeerGrows(p, i)
  PROVE  ReconciliationInv'
<1>1. i \in IDs /\ MaxGrowth \in Nat
  BY ReconciliationAssumption
<1>2. StoreOK'
  BY <1>1 DEF PeerGrows, ReconciliationInv, StoreOK
<1>3. AirSent' /\ AirCurrent'
  BY SameSent, SameCurrent DEF PeerGrows, ReconciliationInv, walk
<1> QED
  BY <1>2, <1>3, SameWalk, SameCovered DEF PeerGrows, ReconciliationInv

LEMMA AcquireInv ==
  ASSUME ReconciliationInv, NEW i \in IDs, Acquire(i) PROVE ReconciliationInv'
<1>1. StoreOK'
  BY DEF Acquire, ReconciliationInv, StoreOK, bounds
<1>2. \A k \in IDs : k \in objects' \/ found[k] \subseteq found'[k]
  BY DEF Acquire, ReconciliationInv, StoreOK
<1>3. AirSent' /\ AirCurrent'
  BY SameSent, SameCurrent DEF Acquire, ReconciliationInv, walk
<1> QED
  BY <1>1, <1>2, <1>3, SameWalk, SameCovered DEF Acquire, ReconciliationInv

LEMMA AdvertiseInv == ASSUME ReconciliationInv, Advertise PROVE ReconciliationInv'
<1>1. StoreOK'
  BY DEF Advertise, ReconciliationInv, StoreOK, bounds
<1>2. AirSent' /\ AirCurrent'
  BY SameSent, SameCurrent DEF Advertise, ReconciliationInv, walk
<1> QED
  BY <1>1, <1>2, SameWalk, SameCovered DEF Advertise, ReconciliationInv

LEMMA RestartInv == ASSUME ReconciliationInv, Restart PROVE ReconciliationInv'
<1>1. StoreOK'
  BY ReconciliationAssumption DEF Restart, ReconciliationInv, StoreOK
<1>2. PeersTracked'
  <2>1. <<>> \in Seq(Peers) /\ Len(<<>>) = 0 /\ IsInjective(<<>>) /\ Range(<<>>) = {}
    BY DEF IsInjective, Range
  <2> QED
    BY <2>1, ReconciliationAssumption DEF Restart, PeersTracked
<1>3. QueueBounded'
  BY FS_EmptySet, ReconciliationAssumption DEF Restart, QueueBounded
<1>4. JobsTracked' /\ DifferencesCovered' /\ AirCurrent'
  BY DEF Restart, JobsTracked, NoDuplicateJobs, Pending, DifferencesCovered, AirCurrent
<1>5. AirSent'
  BY SameSent DEF Restart, ReconciliationInv
<1> QED
  BY <1>1, <1>2, <1>3, <1>4, <1>5 DEF ReconciliationInv

-----------------------------------------------------------------------------
(***************************************************************************)
(* The active job: asked about, timed out, answered.  Whatever becomes of  *)
(* it, what it covers stays covered.                                       *)
(***************************************************************************)
LEMMA ActiveFacts ==
  ASSUME ReconciliationInv, reconcileActive # None
  PROVE  /\ reconcileActive.job \in Jobs /\ reconcileActive.tx \in 0 .. TxCount - 1
         /\ reconcileActive.job \notin reconcileQueue
         /\ peerGenerations[reconcileActive.job.peer] = reconcileActive.job.generation
BY DEF ReconciliationInv, JobsTracked, NoDuplicateJobs, Pending

LEMMA SamePeers ==
  ASSUME ReconciliationInv, UNCHANGED <<peerGenerations, peerOrder>>
  PROVE  PeersTracked'
BY DEF ReconciliationInv, PeersTracked

(***************************************************************************)
(* What a peer was covered by is still to be done, or replaced for the     *)
(* publication in question.                                                *)
(***************************************************************************)
LEMMA StillCovered ==
  ASSUME ReconciliationInv, UNCHANGED <<peerGenerations, objects>>, givenUp \subseteq givenUp',
         \A i \in IDs : found[i] \subseteq found'[i],
         \A j \in Pending, i \in IDs :
           /\ i \notin objects /\ i \in peerGenerations[j.peer] /\ IsPrefix(j.prefix, i)
           => \/ j.peer \in found'[i]
              \/ \E k \in Pending' \cup givenUp' : k.peer = j.peer /\ IsPrefix(k.prefix, i)
  PROVE  DifferencesCovered'
<1> SUFFICES ASSUME NEW p \in Peers, peerGenerations[p] # None,
                    NEW i \in peerGenerations[p] \ objects
             PROVE  \/ p \in found'[i]
                    \/ \E j \in Pending' \cup givenUp' : j.peer = p /\ IsPrefix(j.prefix, i)
  BY DEF DifferencesCovered
<1>1. i \in IDs
  BY DEF ReconciliationInv, PeersTracked, Generations
<1>2. \/ p \in found[i]
      \/ \E j \in Pending \cup givenUp : j.peer = p /\ IsPrefix(j.prefix, i)
  BY DEF ReconciliationInv, DifferencesCovered
<1> QED
  BY <1>1, <1>2

LEMMA InitiateReconcileInv ==
  ASSUME ReconciliationInv, NEW job \in reconcileQueue, InitiateReconcile(job)
  PROVE  ReconciliationInv'
<1>1. /\ reconcileActive = None /\ tx' = (tx + 1) % TxCount
      /\ UNCHANGED <<objects, completeIDs, peerGenerations, peerOrder, found, inventory,
                     bounds, givenUp>>
  BY DEF InitiateReconcile
<1>2. tx' \in 0 .. TxCount - 1
  BY <1>1, ReconciliationAssumption DEF ReconciliationInv, StoreOK
<1>3. StoreOK' /\ PeersTracked'
  BY <1>1, <1>2, SamePeers DEF ReconciliationInv, StoreOK, bounds
<1> DEFINE m == [kind |-> "SummaryRequest", peer |-> job.peer, tx |-> tx',
                 generation |-> job.generation, prefix |-> job.prefix]
<1>4. CASE /\ UNCHANGED <<reconcileQueue, reconcileActive>>
           /\ UNCHANGED air \/ Transmit(m)
  <2>1. UNCHANGED walk
    BY <1>1, <1>4 DEF walk
  <2>2. Sent(m)
    BY DEF ReconciliationInv, QueueBounded, Jobs, Sent
  <2>3. AirSent'
    BY <1>4, <2>2, SameSent, TransmitSent DEF ReconciliationInv
  <2>4. AirCurrent'
    BY <1>1, <1>4 DEF AirCurrent
  <2> QED
    BY <1>1, <1>3, <2>1, <2>3, <2>4, SameWalk, SameCovered DEF ReconciliationInv
<1>5. ASSUME Transmit(m), reconcileQueue' = reconcileQueue \ {job},
             reconcileActive' = [job |-> job, tx |-> tx']
      PROVE  ReconciliationInv'
  <2>1. job \in Jobs /\ job.peer \in Peers /\ job.generation \in Generations /\ job.prefix \in Branches
    BY DEF ReconciliationInv, QueueBounded, Jobs
  <2>2. /\ m.kind = "SummaryRequest" /\ m.peer = job.peer /\ m.tx = tx'
        /\ m.generation = job.generation /\ m.prefix = job.prefix
    OBVIOUS
  <2> HIDE DEF m
  <2>3. /\ reconcileActive' \in [job : Jobs, tx : 0 .. TxCount - 1] /\ reconcileActive' # None
        /\ reconcileActive'.job = job /\ reconcileActive'.tx = tx'
    BY <1>2, <1>5, <2>1, NoneAssumption
  <2>4. AirSent'
    BY <1>5, <2>1, <2>2, TransmitSent DEF Sent, ReconciliationInv
  <2>5. AirCurrent'
    <3> SUFFICES ASSUME NEW l \in air', l.kind # "Root", l.tx = tx'
                 PROVE  InReply(l, job)
      BY <2>3 DEF AirCurrent, InReply, Current
    <3>1. l = m
      BY <1>5, <2>2 DEF Transmit
    <3> QED
      BY <2>2, <3>1 DEF InReply
  <2>6. QueueBounded'
    BY <1>5, FS_RemoveElement, FS_Subset, FS_CardinalityType, ReconciliationAssumption
    DEF ReconciliationInv, QueueBounded
  <2>7. Pending' = Pending
    BY <1>1, <1>5, <2>3 DEF Pending
  <2>8. JobsTracked'
    BY <1>1, <1>5, <2>3, <2>7 DEF ReconciliationInv, JobsTracked, NoDuplicateJobs
  <2>9. DifferencesCovered'
    BY <1>1, <2>7 DEF ReconciliationInv, DifferencesCovered
  <2> QED
    BY <1>3, <2>4, <2>5, <2>6, <2>8, <2>9 DEF ReconciliationInv
<1> QED
  BY <1>4, <1>5 DEF InitiateReconcile

LEMMA ReconcileTimeoutInv ==
  ASSUME ReconciliationInv, ReconcileTimeout PROVE ReconciliationInv'
<1> DEFINE job == reconcileActive.job
<1>1. /\ reconcileActive # None /\ reconcileActive' = None
      /\ reconcileQueue' = IF Cardinality(reconcileQueue) < MaxReconcileJobs
                           THEN reconcileQueue \cup {job} ELSE reconcileQueue
      /\ givenUp' = givenUp \cup Crowded({job})
      /\ UNCHANGED <<objects, completeIDs, peerGenerations, peerOrder, tx, found,
                     inventory, air, bounds>>
  BY DEF ReconcileTimeout
<1>2. job \in Jobs /\ job \notin reconcileQueue /\ peerGenerations[job.peer] = job.generation
  BY <1>1, ActiveFacts
<1> HIDE DEF job
<1>4. Crowded({job}) \subseteq Jobs /\ (job \notin reconcileQueue' => job \in givenUp')
  BY <1>1, <1>2 DEF Crowded
<1>5. StoreOK' /\ PeersTracked'
  BY <1>1, <1>4, SamePeers DEF ReconciliationInv, StoreOK, bounds
<1>6. QueueBounded'
  <2>1. IsFiniteSet(reconcileQueue) /\ Cardinality(reconcileQueue) \in Nat
        /\ Cardinality(reconcileQueue) <= MaxReconcileJobs /\ MaxReconcileJobs \in Nat
        /\ reconcileQueue \subseteq Jobs
    BY FS_CardinalityType, ReconciliationAssumption DEF ReconciliationInv, QueueBounded
  <2>2. /\ IsFiniteSet(reconcileQueue \cup {job})
        /\ Cardinality(reconcileQueue \cup {job}) = Cardinality(reconcileQueue) + 1
    BY <1>2, <2>1, FS_AddElement
  <2> QED
    BY <1>1, <1>2, <2>1, <2>2 DEF QueueBounded
<1>7. reconcileQueue \subseteq Pending' /\ Pending' \subseteq Pending
  BY <1>1 DEF Pending, job
<1>8. JobsTracked'
  BY <1>1, <1>7 DEF ReconciliationInv, JobsTracked, NoDuplicateJobs
<1>9. DifferencesCovered'
  <2>1. \A j \in Pending : j \in Pending' \cup givenUp'
    BY <1>1, <1>4, <1>7 DEF Pending, job
  <2> QED
    BY <1>1, <2>1, StillCovered DEF ReconciliationInv, StoreOK
<1>10. AirSent' /\ AirCurrent'
  BY <1>1, SameSent, SameCurrent DEF ReconciliationInv
<1> QED
  BY <1>5, <1>6, <1>8, <1>9, <1>10 DEF ReconciliationInv

LEMMA AnswerFacts ==
  ASSUME ReconciliationInv, NEW m \in air, m.kind \in {"Summary", "Leaf"}, Answers(m)
  PROVE  /\ reconcileActive # None /\ m.peer = reconcileActive.job.peer
         /\ Sent(m) /\ Current(m.body, reconcileActive.job)
BY DEF Answers, ReconciliationInv, AirSent, AirCurrent, InReply

(***************************************************************************)
(* A job that an unusable answer ends is given up.                         *)
(***************************************************************************)
LEMMA UnusableInv ==
  ASSUME ReconciliationInv, reconcileActive # None, reconcileActive' = None, air' \subseteq air,
         givenUp' = givenUp \cup {reconcileActive.job},
         UNCHANGED <<objects, completeIDs, peerGenerations, peerOrder, reconcileQueue, tx,
                     found, inventory, bounds>>
  PROVE  ReconciliationInv'
<1>1. reconcileActive.job \in Jobs
  BY ActiveFacts
<1>2. StoreOK' /\ PeersTracked'
  BY <1>1, SamePeers DEF ReconciliationInv, StoreOK, bounds
<1>3. QueueBounded' /\ JobsTracked'
  BY DEF ReconciliationInv, QueueBounded, JobsTracked, NoDuplicateJobs, Pending
<1>4. DifferencesCovered'
  <2>1. \A j \in Pending : j \in Pending' \cup givenUp'
    BY DEF Pending
  <2> QED
    BY <2>1, StillCovered DEF ReconciliationInv, StoreOK
<1>5. AirSent' /\ AirCurrent'
  BY SameSent, SameCurrent DEF ReconciliationInv
<1> QED
  BY <1>2, <1>3, <1>4, <1>5 DEF ReconciliationInv

LEMMA WholeID ==
  ASSUME NEW i \in IDs
  PROVE  i \in Branches /\ IsPrefix(i, i)
<1>1. i \in Branches
  BY RadixAssumption DEF Branches
<1> QED
  BY <1>1, UnderBranch

LEMMA AcceptLeafInv ==
  ASSUME ReconciliationInv, NEW m \in air, AcceptLeaf(m) PROVE ReconciliationInv'
<1> DEFINE job == reconcileActive.job
           missing == MissingIDs(completeIDs, m.body) \ objects
           new == missing \ Acquisitions
<1>1. /\ reconcileActive # None /\ m.peer = job.peer /\ Sent(m) /\ m.kind = "Leaf"
      /\ Current(m.body, job)
  BY AnswerFacts DEF AcceptLeaf
<1>2. /\ job \in Jobs /\ job.peer \in Peers /\ peerGenerations[job.peer] = job.generation
      /\ job.generation \in Generations
  BY <1>1, ActiveFacts DEF Jobs
<1>3. /\ reconcileActive' = None /\ air' \subseteq air
      /\ UNCHANGED <<objects, completeIDs, peerGenerations, peerOrder, reconcileQueue,
                     tx, inventory, bounds>>
  BY DEF AcceptLeaf, Heard
<1>4. CASE ~Usable(m)
  <2>1. UNCHANGED found /\ givenUp' = givenUp \cup {reconcileActive.job}
    BY <1>4 DEF AcceptLeaf
  <2> QED
    BY <1>1, <1>3, <2>1, UnusableInv
<1>5. CASE Usable(m)
  <2>1. PICK named :
          /\ found' = [i \in IDs |-> found[i] \cup IF i \in named THEN {m.peer} ELSE {}]
          /\ givenUp' = givenUp \cup [peer : {m.peer}, generation : {job.generation},
                                      prefix : missing \ named]
    BY <1>5, Zenon DEF AcceptLeaf
  <2>2. m.body.ids = FilterPrefix(job.generation, job.prefix)
    <3>1. PICK g \in Generations, b \in Branches : m.body = BuildLeaf(g, b)
      BY <1>1 DEF Sent
    <3>2. m.body.generation = g /\ m.body.prefix = b /\ m.body.ids = FilterPrefix(g, b)
      BY <3>1 DEF BuildLeaf
    <3> QED
      BY <1>1, <3>2 DEF Current
  <2>3. missing \subseteq IDs
    BY <1>2, <2>2 DEF MissingIDs, FilterPrefix, Generations
  <2>4. \A i \in peerGenerations[job.peer] \ objects : IsPrefix(job.prefix, i) => i \in missing
    BY <1>2, <2>2 DEF MissingIDs, FilterPrefix, ReconciliationInv, StoreOK
  <2> HIDE DEF missing, job
  <2>5. [peer : {m.peer}, generation : {job.generation}, prefix : missing \ named] \subseteq Jobs
    BY <1>1, <1>2, <2>3, WholeID DEF Jobs
  <2>6. found' \in [IDs -> SUBSET Peers] /\ givenUp' \subseteq Jobs /\ givenUp \subseteq givenUp'
    BY <1>1, <1>2, <2>1, <2>5 DEF ReconciliationInv, StoreOK
  <2>7. StoreOK' /\ PeersTracked'
    BY <1>3, <2>6, SamePeers DEF ReconciliationInv, StoreOK, bounds
  <2>8. QueueBounded' /\ JobsTracked'
    BY <1>3 DEF ReconciliationInv, QueueBounded, JobsTracked, NoDuplicateJobs, Pending
  <2>9. \A i \in IDs : found[i] \subseteq found'[i]
    BY <2>1
  <2>10. ASSUME NEW i \in IDs, i \in missing
         PROVE  \/ job.peer \in found'[i]
                \/ \E k \in givenUp' : k.peer = job.peer /\ IsPrefix(k.prefix, i)
    <3>1. CASE i \in named
      BY <1>1, <2>1, <2>10, <3>1
    <3>2. CASE i \notin named
      <4> DEFINE k == [peer |-> job.peer, generation |-> job.generation, prefix |-> i]
      <4>1. k \in givenUp'
        BY <1>1, <2>1, <2>10, <3>2
      <4>2. k.peer = job.peer /\ k.prefix = i
        OBVIOUS
      <4> HIDE DEF k
      <4> QED
        BY <4>1, <4>2, WholeID
    <3> QED
      BY <3>1, <3>2
  <2>11. DifferencesCovered'
    <3>1. \A j \in Pending : j \in Pending' \/ j = job
      BY <1>3 DEF Pending, job
    <3> QED
      BY <1>3, <2>4, <2>6, <2>9, <2>10, <3>1, StillCovered
  <2>12. AirSent' /\ AirCurrent'
    BY <1>3, SameSent, SameCurrent DEF ReconciliationInv
  <2> QED
    BY <2>7, <2>8, <2>11, <2>12 DEF ReconciliationInv
<1> QED
  BY <1>4, <1>5

(***************************************************************************)
(* The jobs a summary adds: they cover whatever of it the node lacks, in   *)
(* the queue or given up because it is full.                               *)
(***************************************************************************)
LEMMA QueuedCovers ==
  ASSUME NEW p \in Peers, NEW g \in Generations, NEW b \in Branches, Len(b) < Depth,
         NEW remote, remote = BuildSummary(g, b), NEW queue, NEW active, NEW ours,
         IsFiniteSet(queue),
         NEW i \in g, i \notin ours, IsPrefix(b, i), NEW new,
         new = New(queue, active, p, g, DifferingChildren(BuildSummary(ours, b), remote)),
         reconcileQueue' = Queued(queue, new)
  PROVE  \/ \E j \in reconcileQueue' \cup Crowded(new) : j.peer = p /\ IsPrefix(j.prefix, i)
         \/ /\ active # None /\ active.job.peer = p /\ Len(active.job.prefix) = Len(b) + 1
            /\ IsPrefix(active.job.prefix, i)
<1> DEFINE D == DifferingChildren(BuildSummary(ours, b), remote)
<1>1. PICK x \in D : IsPrefix(x, i)
  BY MissingUnderChild
<1>2. Siblings(D) /\ Len(x) = Len(b) + 1
  BY DifferingSiblings
<1> DEFINE j == [peer |-> p, generation |-> g, prefix |-> x]
<1>3. \/ j \in New(queue, active, p, g, D) \/ j \in queue
      \/ active # None /\ active.job.peer = p /\ active.job.prefix = x
  BY <1>2, NewFacts
<1>4. j.peer = p /\ j.prefix = x
  OBVIOUS
<1>5. NewJobs(new, p, g) /\ queue \cap new = {}
  BY <1>2, NewFacts DEF New
<1> HIDE DEF j
<1>6. queue \subseteq reconcileQueue'
  BY DEF Queued
<1>7. j \in new => j \in reconcileQueue' \cup Crowded(new)
  BY <1>5, RefusedByFull DEF Crowded
<1> QED
  BY <1>1, <1>2, <1>3, <1>4, <1>6, <1>7

LEMMA AcceptSummaryInv ==
  ASSUME ReconciliationInv, NEW m \in air, AcceptSummary(m) PROVE ReconciliationInv'
<1> DEFINE job == reconcileActive.job
           D == DifferingChildren(BuildSummary(completeIDs, job.prefix), m.body)
           new == New(reconcileQueue, reconcileActive, job.peer, job.generation, D)
<1>1. /\ reconcileActive # None /\ m.peer = job.peer /\ Sent(m) /\ m.kind = "Summary"
      /\ Current(m.body, job)
  BY AnswerFacts DEF AcceptSummary
<1>2. /\ job \in Jobs /\ job.peer \in Peers /\ peerGenerations[job.peer] = job.generation
      /\ job.generation \in Generations /\ job.prefix \in Branches
  BY <1>1, ActiveFacts DEF Jobs
<1>3. /\ reconcileActive' = None /\ air' \subseteq air
      /\ UNCHANGED <<objects, completeIDs, peerGenerations, peerOrder, tx, found,
                     inventory, bounds>>
  BY DEF AcceptSummary, Heard
<1>4. CASE ~Usable(m)
  <2>1. UNCHANGED reconcileQueue /\ givenUp' = givenUp \cup {reconcileActive.job}
    BY <1>4 DEF AcceptSummary
  <2> QED
    BY <1>1, <1>3, <2>1, UnusableInv
<1>5. CASE Usable(m)
  <2>1. reconcileQueue' = Queued(reconcileQueue, new) /\ givenUp' = givenUp \cup Crowded(new)
    BY <1>5, Zenon DEF AcceptSummary
  <2>2. Len(job.prefix) < Depth /\ m.body = BuildSummary(job.generation, job.prefix)
    <3>1. PICK g \in Generations, b \in Branches : Len(b) < Depth /\ m.body = BuildSummary(g, b)
      BY <1>1 DEF Sent
    <3>2. m.body.generation = g /\ m.body.prefix = b
      BY <3>1 DEF BuildSummary
    <3> QED
      BY <1>1, <3>1, <3>2 DEF Current
  <2>3. Siblings(D)
    BY <1>2, <2>2, DifferingSiblings
  <2> HIDE DEF D
  <2>4. NewJobs(new, job.peer, job.generation)
    BY <1>2, <2>3, NewFacts
  <2> HIDE DEF new
  <2>5. /\ IsFiniteSet(reconcileQueue) /\ Cardinality(reconcileQueue) <= MaxReconcileJobs
        /\ reconcileQueue \subseteq Jobs /\ new \subseteq Jobs
    BY <2>4 DEF ReconciliationInv, QueueBounded, NewJobs
  <2>6. /\ reconcileQueue \subseteq reconcileQueue' /\ reconcileQueue' \subseteq reconcileQueue \cup new
        /\ QueueBounded'
    <3>1. LET queue == Queued(reconcileQueue, new)
          IN /\ reconcileQueue \subseteq queue /\ queue \subseteq reconcileQueue \cup new
             /\ IsFiniteSet(queue) /\ Cardinality(queue) <= MaxReconcileJobs
      BY <2>4, <2>5, QueuedFacts
    <3> QED
      BY <2>1, <2>5, <3>1 DEF QueueBounded
  <2>7. \A j \in new : j \in Jobs /\ j.peer = job.peer /\ j.generation = job.generation
    BY <2>4 DEF NewJobs
  <2>8. Crowded(new) \subseteq Jobs /\ Crowded(new) \subseteq givenUp'
    BY <2>1, <2>5 DEF Crowded
  <2>9. StoreOK' /\ PeersTracked'
    BY <1>3, <2>1, <2>8, SamePeers DEF ReconciliationInv, StoreOK, bounds
  <2>10. Pending' = reconcileQueue' /\ reconcileQueue \subseteq Pending'
    BY <1>3, <2>6 DEF Pending
  <2>11. JobsTracked'
    BY <1>2, <1>3, <2>6, <2>7, <2>10 DEF ReconciliationInv, JobsTracked, NoDuplicateJobs, Pending
  <2>12. ASSUME NEW i \in IDs, i \notin objects, i \in job.generation, IsPrefix(job.prefix, i)
         PROVE  \E k \in Pending' \cup givenUp' : k.peer = job.peer /\ IsPrefix(k.prefix, i)
    <3>1. i \notin completeIDs
      BY <2>12 DEF ReconciliationInv, StoreOK
    <3>2. \/ \E j \in reconcileQueue' \cup Crowded(new) : j.peer = job.peer /\ IsPrefix(j.prefix, i)
          \/ Len(job.prefix) = Len(job.prefix) + 1
      BY <1>2, <2>1, <2>2, <2>5, <2>12, <3>1, QueuedCovers DEF new, D
    <3>3. Len(job.prefix) \in Nat
      BY <1>2, BranchFacts
    <3> QED
      BY <2>8, <2>10, <3>2, <3>3
  <2>13. DifferencesCovered'
    <3>1. \A j \in Pending : j \in Pending' \/ j = job
      BY <2>10 DEF Pending
    <3> HIDE DEF job
    <3> QED
      BY <1>2, <1>3, <2>1, <2>12, <3>1, StillCovered
  <2>14. AirSent' /\ AirCurrent'
    BY <1>3, SameSent, SameCurrent DEF ReconciliationInv
  <2> QED
    BY <2>6, <2>9, <2>11, <2>13, <2>14 DEF ReconciliationInv
<1> QED
  BY <1>4, <1>5

-----------------------------------------------------------------------------
(***************************************************************************)
(* A root: the list of tracked peers, then what is left of the jobs, then  *)
(* the new ones.                                                           *)
(***************************************************************************)
RootPeers(p, evicted, g) ==
  /\ peerGenerations' = [q \in Peers |-> CASE q = p -> g
                                           [] q \in evicted -> None
                                           [] OTHER -> peerGenerations[q]]
  /\ peerOrder' = Append(IF peerGenerations[p] # None THEN RemoveFirst(peerOrder, p)
                         ELSE IF evicted = {} THEN peerOrder ELSE Tail(peerOrder), p)

LEMMA RootPeersInv ==
  ASSUME ReconciliationInv, NEW p \in Peers, NEW g \in Generations, NEW evicted,
         evicted = (IF peerGenerations[p] = None /\ Len(peerOrder) >= MaxTrackedPeers
                    THEN {Head(peerOrder)} ELSE {}),
         RootPeers(p, evicted, g)
  PROVE  /\ PeersTracked'
         /\ p \notin evicted /\ evicted \subseteq Peers
         /\ peerGenerations'[p] = g
         /\ \A q \in Peers : q # p => peerGenerations'[q] =
                               IF q \in evicted THEN None ELSE peerGenerations[q]
<1>1. /\ peerGenerations \in [Peers -> Generations \cup {None}]
      /\ peerOrder \in Seq(Peers) /\ Len(peerOrder) <= MaxTrackedPeers /\ Len(peerOrder) \in Nat
      /\ MaxTrackedPeers \in Nat \ {0} /\ IsInjective(peerOrder)
      /\ \A q \in Peers : peerGenerations[q] # None <=> q \in Range(peerOrder)
  BY LenProperties, ReconciliationAssumption DEF ReconciliationInv, PeersTracked
<1>2. g # None
  BY NoneAssumption
<1> DEFINE kept == IF peerGenerations[p] # None THEN RemoveFirst(peerOrder, p)
                   ELSE IF evicted = {} THEN peerOrder ELSE Tail(peerOrder)
<1>3. /\ kept \in Seq(Peers) /\ IsInjective(kept) /\ Len(kept) + 1 <= MaxTrackedPeers
      /\ Range(kept) = Range(peerOrder) \ ({p} \cup evicted)
      /\ p \notin evicted /\ evicted \subseteq Peers
  <2>1. CASE peerGenerations[p] # None
    <3>1. evicted = {}
      BY <2>1
    <3>2. PICK k \in 1 .. Len(peerOrder) : peerOrder[k] = p
      BY <1>1, <2>1, LenProperties DEF Range
    <3>3. kept = RemoveAt(peerOrder, k)
      BY <1>1, <2>1, <3>2, FirstOccurrence
    <3>4. /\ RemoveAt(peerOrder, k) \in Seq(Peers) /\ IsInjective(RemoveAt(peerOrder, k))
          /\ Range(RemoveAt(peerOrder, k)) = Range(peerOrder) \ {p}
          /\ Len(RemoveAt(peerOrder, k)) = Len(peerOrder) - 1
      <4>1. peerOrder \in Seq(Peers) /\ IsInjective(peerOrder)
        BY <1>1
      <4>2. /\ IsInjective(RemoveAt(peerOrder, k))
            /\ Range(RemoveAt(peerOrder, k)) = Range(peerOrder) \ {peerOrder[k]}
        BY <4>1, RemovedFromList, Zenon
      <4>3. /\ RemoveAt(peerOrder, k) \in Seq(Peers)
            /\ Len(RemoveAt(peerOrder, k)) = Len(peerOrder) - 1
        BY <4>1, RemoveAtProperties, Zenon
      <4> QED
        BY <3>2, <4>2, <4>3
    <3>5. {p} \cup evicted = {p} /\ p \notin evicted /\ evicted \subseteq Peers
      BY <3>1
    <3> HIDE DEF kept
    <3>6. Len(kept) + 1 <= MaxTrackedPeers
      BY <1>1, <3>3, <3>4
    <3> QED
      BY <3>3, <3>4, <3>5, <3>6
  <2>2. CASE peerGenerations[p] = None /\ Len(peerOrder) >= MaxTrackedPeers
    <3>1. peerOrder # <<>>
      BY <1>1, <2>2
    <3>2. /\ Tail(peerOrder) \in Seq(Peers) /\ Len(Tail(peerOrder)) = Len(peerOrder) - 1
          /\ IsInjective(Tail(peerOrder)) /\ Head(peerOrder) \in Range(peerOrder)
          /\ Range(Tail(peerOrder)) = Range(peerOrder) \ {Head(peerOrder)}
      BY <1>1, <3>1, TailOfList
    <3>3. evicted = {Head(peerOrder)} /\ kept = Tail(peerOrder) /\ p \notin Range(peerOrder)
      BY <1>1, <2>2
    <3>4. Head(peerOrder) \in Peers
      BY <1>1, <3>1, HeadTailProperties
    <3>5. /\ p \notin evicted /\ evicted \subseteq Peers
          /\ Range(peerOrder) \ ({p} \cup evicted) = Range(peerOrder) \ {Head(peerOrder)}
      BY <3>2, <3>3, <3>4
    <3> HIDE DEF kept
    <3>6. Len(kept) + 1 <= MaxTrackedPeers
      BY <1>1, <3>2, <3>3
    <3> QED
      BY <3>2, <3>3, <3>5, <3>6
  <2>3. CASE peerGenerations[p] = None /\ ~(Len(peerOrder) >= MaxTrackedPeers)
    <3>1. evicted = {} /\ kept = peerOrder /\ p \notin Range(peerOrder)
      BY <1>1, <2>3
    <3> QED
      BY <1>1, <2>3, <3>1
  <2> QED
    BY <2>1, <2>2, <2>3
<1>4. peerOrder' = Append(kept, p)
  BY DEF RootPeers
<1> HIDE DEF kept
<1>5. p \notin Range(kept) /\ Len(kept) \in Nat
  BY <1>3, LenProperties
<1>6. /\ peerOrder' \in Seq(Peers) /\ IsInjective(peerOrder')
      /\ Range(peerOrder') = Range(kept) \cup {p} /\ Len(peerOrder') = Len(kept) + 1
  BY <1>3, <1>4, <1>5, AppendedToList
<1>7. /\ peerGenerations'[p] = g
      /\ \A q \in Peers : q # p => peerGenerations'[q] =
                            IF q \in evicted THEN None ELSE peerGenerations[q]
  BY <1>3 DEF RootPeers
<1>8. peerGenerations' \in [Peers -> Generations \cup {None}]
  BY <1>1 DEF RootPeers
<1>9. \A q \in Peers : peerGenerations'[q] # None <=> q \in Range(peerOrder')
  BY <1>1, <1>2, <1>3, <1>6, <1>7
<1> QED
  BY <1>1, <1>3, <1>6, <1>7, <1>8, <1>9 DEF PeersTracked

(***************************************************************************)
(* What is left of the jobs when the peers of dropped lose theirs.         *)
(***************************************************************************)
LEMMA KeptJobs ==
  ASSUME ReconciliationInv, NEW dropped, NEW queue, NEW active,
         queue = QueueWithout(reconcileQueue, dropped),
         active = ActiveWithout(reconcileActive, dropped)
  PROVE  /\ queue \subseteq reconcileQueue /\ IsFiniteSet(queue)
         /\ Cardinality(queue) <= MaxReconcileJobs
         /\ active \in {reconcileActive, None}
         /\ \A j \in queue \cup (IF active = None THEN {} ELSE {active.job}) :
              j \in Pending /\ j.peer \notin dropped
         /\ \A j \in Pending : j.peer \notin dropped =>
              j \in queue \cup (IF active = None THEN {} ELSE {active.job})
<1>1. queue \subseteq reconcileQueue
  BY DEF QueueWithout
<1>2. /\ IsFiniteSet(reconcileQueue) /\ Cardinality(reconcileQueue) <= MaxReconcileJobs
      /\ MaxReconcileJobs \in Nat
  BY ReconciliationAssumption DEF ReconciliationInv, QueueBounded
<1>3. IsFiniteSet(queue) /\ Cardinality(queue) <= Cardinality(reconcileQueue)
  BY <1>1, <1>2, FS_Subset
<1>4. Cardinality(queue) <= MaxReconcileJobs
  BY <1>2, <1>3, FS_CardinalityType
<1> QED
  BY <1>1, <1>3, <1>4 DEF QueueWithout, ActiveWithout, Pending

LEMMA HandleRootSummaryInv ==
  ASSUME ReconciliationInv, NEW m \in air, HandleRootSummary(m) PROVE ReconciliationInv'
<1> DEFINE p == m.peer
           g == m.body.generation
           evicted == IF ~(peerGenerations[p] # None) /\ Len(peerOrder) >= MaxTrackedPeers
                      THEN {Head(peerOrder)} ELSE {}
           dropped == evicted \cup (IF peerGenerations[p] # g THEN {p} ELSE {})
           active == ActiveWithout(reconcileActive, dropped)
           queue == QueueWithout(reconcileQueue, dropped)
           D == DifferingChildren(BuildSummary(completeIDs, <<>>), m.body)
           new == New(queue, active, p, g, D)
<1>1. /\ RootPeers(p, evicted, g)
      /\ reconcileActive' = active
      /\ reconcileQueue' = Queued(queue, new)
      /\ givenUp' = QueueWithout(givenUp, evicted \cup {p}) \cup Crowded(new)
      /\ air' \subseteq air /\ m.kind = "Root"
      /\ UNCHANGED <<objects, completeIDs, tx, found, inventory, bounds>>
  BY Zenon DEF HandleRootSummary, RootPeers, Heard
<1>2. p \in Peers /\ g \in Generations /\ m.body = BuildSummary(g, <<>>)
  <2>1. Sent(m)
    BY DEF ReconciliationInv, AirSent
  <2>2. PICK h \in Generations : m.body = BuildSummary(h, <<>>)
    BY <1>1, <2>1 DEF Sent
  <2>3. m.body.generation = h
    BY <2>2 DEF BuildSummary
  <2> QED
    BY <2>1, <2>2, <2>3 DEF Sent
<1>3. evicted = (IF peerGenerations[p] = None /\ Len(peerOrder) >= MaxTrackedPeers
                 THEN {Head(peerOrder)} ELSE {})
  OBVIOUS
<1> HIDE DEF p, g, evicted
<1>4. /\ PeersTracked' /\ p \notin evicted /\ evicted \subseteq Peers
      /\ peerGenerations'[p] = g
      /\ \A q \in Peers : q # p => peerGenerations'[q] =
                            IF q \in evicted THEN None ELSE peerGenerations[q]
  BY <1>1, <1>2, <1>3, RootPeersInv
<1>5. /\ evicted \subseteq dropped /\ dropped \subseteq evicted \cup {p}
      /\ p \notin dropped => peerGenerations[p] = g
  OBVIOUS
<1>6. /\ queue = QueueWithout(reconcileQueue, dropped)
      /\ active = ActiveWithout(reconcileActive, dropped)
  OBVIOUS
<1> DEFINE kept == queue \cup (IF active = None THEN {} ELSE {active.job})
<1> HIDE DEF dropped, active, queue
<1>7. /\ queue \subseteq reconcileQueue /\ IsFiniteSet(queue)
      /\ Cardinality(queue) <= MaxReconcileJobs
      /\ active \in {reconcileActive, None}
      /\ \A j \in kept : j \in Pending /\ j.peer \notin dropped
      /\ \A j \in Pending : j.peer \notin dropped => j \in kept
  BY <1>6, KeptJobs
<1>8. Siblings(D)
  BY <1>2, RootBranch, DifferingSiblings
<1> HIDE DEF D
<1>9. /\ NewJobs(new, p, g)
      /\ \A j \in new : active # None => active.job # j
  BY <1>2, <1>8, NewFacts
<1>10. new = New(queue, active, p, g, D)
  OBVIOUS
<1> HIDE DEF new
<1>11. /\ queue \subseteq reconcileQueue' /\ reconcileQueue' \subseteq queue \cup new
       /\ IsFiniteSet(reconcileQueue') /\ Cardinality(reconcileQueue') <= MaxReconcileJobs
  BY <1>1, <1>7, <1>9, QueuedFacts
<1>12. QueueBounded'
  BY <1>7, <1>9, <1>11 DEF ReconciliationInv, QueueBounded, NewJobs
<1>13. \A j \in new : j \in Jobs /\ j.peer = p /\ j.generation = g
  BY <1>9 DEF NewJobs
<1>14. Crowded(new) \subseteq Jobs /\ Crowded(new) \subseteq givenUp'
  BY <1>1, <1>13 DEF Crowded
<1>15. StoreOK'
  BY <1>1, <1>2, <1>14 DEF ReconciliationInv, StoreOK, QueueWithout, bounds
<1>16. kept \subseteq Pending' /\ Pending' \subseteq kept \cup new
  BY <1>1, <1>11 DEF Pending
<1>17. \A j \in Pending : j \in Jobs /\ j.peer \in Peers /\ peerGenerations[j.peer] = j.generation
  BY DEF ReconciliationInv, QueueBounded, JobsTracked, Pending, Jobs
<1> HIDE DEF kept
<1>18. \A j \in Pending' : peerGenerations'[j.peer] = j.generation
  <2>1. ASSUME NEW j \in new PROVE peerGenerations'[j.peer] = j.generation
    BY <1>4, <1>13, <2>1
  <2>2. ASSUME NEW j \in kept PROVE peerGenerations'[j.peer] = j.generation
    <3>1. j \in Pending /\ j.peer \notin dropped /\ j.peer \in Peers
      BY <1>7, <1>17
    <3>2. CASE j.peer = p
      BY <1>4, <1>5, <1>17, <3>1, <3>2
    <3>3. CASE j.peer # p
      BY <1>4, <1>5, <1>17, <3>1, <3>3
    <3> QED
      BY <3>2, <3>3
  <2> QED
    BY <1>16, <2>1, <2>2
<1>19. JobsTracked'
  <2>1. reconcileActive' \in [job : Jobs, tx : 0 .. TxCount - 1] \cup {None}
    BY <1>1, <1>7 DEF ReconciliationInv, JobsTracked
  <2>2. NoDuplicateJobs'
    BY <1>1, <1>7, <1>9, <1>11 DEF ReconciliationInv, JobsTracked, NoDuplicateJobs
  <2> QED
    BY <1>18, <2>1, <2>2 DEF JobsTracked
<1>20. ASSUME NEW i \in g, i \notin objects
       PROVE  \E j \in Pending' \cup givenUp' : j.peer = p /\ IsPrefix(j.prefix, i)
  <2>1. i \in IDs /\ i \notin completeIDs
    BY <1>2, <1>20 DEF Generations, ReconciliationInv, StoreOK
  <2>2. IsPrefix(<<>>, i)
    BY <2>1, RootBranch, UnderBranch
  <2>3. \/ \E j \in reconcileQueue' \cup Crowded(new) : j.peer = p /\ IsPrefix(j.prefix, i)
        \/ active # None /\ active.job.peer = p /\ IsPrefix(active.job.prefix, i)
    BY <1>1, <1>2, <1>7, <1>10, <1>20, <2>1, <2>2, RootBranch, QueuedCovers DEF D
  <2> QED
    BY <1>1, <1>14, <2>3 DEF Pending
<1>21. DifferencesCovered'
  <2> SUFFICES ASSUME NEW q \in Peers, peerGenerations'[q] # None,
                      NEW i \in peerGenerations'[q] \ objects
               PROVE  \/ q \in found[i]
                      \/ \E j \in Pending' \cup givenUp' : j.peer = q /\ IsPrefix(j.prefix, i)
    BY <1>1 DEF DifferencesCovered
  <2>1. CASE q = p
    BY <1>4, <1>20, <2>1
  <2>2. CASE q # p
    <3>1. q \notin evicted /\ peerGenerations'[q] = peerGenerations[q]
      BY <1>4, <2>2
    <3>2. q \notin evicted \cup {p} /\ q \notin dropped
      BY <1>5, <2>2, <3>1
    <3>3. \/ q \in found[i]
          \/ \E j \in Pending \cup givenUp : j.peer = q /\ IsPrefix(j.prefix, i)
      BY <3>1 DEF ReconciliationInv, DifferencesCovered
    <3>4. \A j \in Pending \cup givenUp : j.peer = q => j \in Pending' \cup givenUp'
      BY <1>1, <1>7, <1>16, <3>2 DEF QueueWithout
    <3> QED
      BY <3>3, <3>4
  <2> QED
    BY <2>1, <2>2
<1>22. AirSent' /\ AirCurrent'
  BY <1>1, <1>7, SameSent, SameCurrent DEF ReconciliationInv
<1> QED
  BY <1>4, <1>12, <1>15, <1>19, <1>21, <1>22 DEF ReconciliationInv

-----------------------------------------------------------------------------
(***************************************************************************)
(* The walk starts empty, and every step keeps the invariant.              *)
(***************************************************************************)
LEMMA InitInv == ASSUME Init PROVE ReconciliationInv
<1>1. StoreOK
  BY ReconciliationAssumption DEF Init, StoreOK
<1>2. PeersTracked
  <2>1. <<>> \in Seq(Peers) /\ Len(<<>>) = 0 /\ IsInjective(<<>>) /\ Range(<<>>) = {}
    BY DEF IsInjective, Range
  <2> QED
    BY <2>1, ReconciliationAssumption DEF Init, PeersTracked
<1>3. QueueBounded
  BY FS_EmptySet, ReconciliationAssumption DEF Init, QueueBounded
<1> QED
  BY <1>1, <1>2, <1>3
  DEF Init, ReconciliationInv, JobsTracked, NoDuplicateJobs, Pending, DifferencesCovered,
      AirSent, AirCurrent

LEMMA NextInv == ASSUME ReconciliationInv, [Next]_vars PROVE ReconciliationInv'
<1>1. CASE UNCHANGED vars
  <2>1. UNCHANGED <<walk, objects, completeIDs, tx, found, inventory, air, bounds, givenUp>>
    BY <1>1 DEF vars, bounds
  <2>2. StoreOK'
    BY <2>1 DEF ReconciliationInv, StoreOK, bounds
  <2>3. AirSent' /\ AirCurrent'
    BY <2>1, SameSent, SameCurrent DEF ReconciliationInv, walk
  <2> QED
    BY <2>1, <2>2, <2>3, SameWalk, SameCovered DEF ReconciliationInv
<1>2. CASE ReconcileTimeout
  BY <1>2, ReconcileTimeoutInv
<1>3. CASE Advertise
  BY <1>3, AdvertiseInv
<1>4. CASE Restart
  BY <1>4, RestartInv
<1>5. ASSUME NEW job \in reconcileQueue, InitiateReconcile(job) PROVE ReconciliationInv'
  BY <1>5, InitiateReconcileInv
<1>6. ASSUME NEW m \in air,
             HandleRootSummary(m) \/ AcceptSummary(m) \/ AcceptLeaf(m) \/ ServeSummary(m)
      PROVE  ReconciliationInv'
  BY <1>6, HandleRootSummaryInv, AcceptSummaryInv, AcceptLeafInv, ServeSummaryInv
<1>7. ASSUME NEW p \in Peers, PeerAdvertise(p) \/ \E i \in Growing[p] : PeerGrows(p, i)
      PROVE  ReconciliationInv'
  BY <1>7, PeerAdvertiseInv, PeerGrowsInv
<1>8. ASSUME NEW i \in IDs, Acquire(i) PROVE ReconciliationInv'
  BY <1>8, AcquireInv
<1> QED
  BY <1>1, <1>2, <1>3, <1>4, <1>5, <1>6, <1>7, <1>8 DEF Next

(***************************************************************************)
(* The inductive invariant: beside the three properties, what the air may  *)
(* hold.  An answer that bears the transaction number of the active job    *)
(* and decodes is about its generation and branch, so it ends the job with *)
(* what is under it queued or found; one that does not decode gives the    *)
(* job up (acceptSummary and acceptLeaf clear the active job whatever the  *)
(* answer holds).                                                          *)
(***************************************************************************)
THEOREM ReconciliationInvariant == Spec => []ReconciliationInv
<1>1. Init => ReconciliationInv
  BY InitInv
<1>2. ReconciliationInv /\ [Next]_vars => ReconciliationInv'
  BY NextInv
<1> QED
  BY <1>1, <1>2, PTL DEF Spec

(***************************************************************************)
(* The state of the walk keeps its shape: at most MaxTrackedPeers peers    *)
(* are tracked and at most MaxReconcileJobs jobs queued, whatever roots    *)
(* and summaries arrive (handleRootSummary, queueReconciliation).          *)
(***************************************************************************)
THEOREM ReconciliationTypeOK == Spec => []TypeOK
<1>1. ReconciliationInv => TypeOK
  BY DEF ReconciliationInv, StoreOK, PeersTracked, QueueBounded, JobsTracked, TypeOK
<1> QED
  BY <1>1, ReconciliationInvariant, PTL

(***************************************************************************)
(* A job is for a tracked peer and its generation last heard, through      *)
(* evictions, new roots, timeouts and retries (dropReconciliation).        *)
(***************************************************************************)
THEOREM JobsAlwaysCurrent == Spec => []JobsCurrent
<1>1. ReconciliationInv => JobsCurrent
  BY DEF ReconciliationInv, PeersTracked, JobsTracked, JobsCurrent
<1> QED
  BY <1>1, ReconciliationInvariant, PTL

(***************************************************************************)
(* The job being asked about is not queued as well, so its timeout does    *)
(* not duplicate the walk (queueReconciliation, onTick).                   *)
(***************************************************************************)
THEOREM JobsNeverDuplicated == Spec => []NoDuplicateJobs
<1>1. ReconciliationInv => NoDuplicateJobs
  BY DEF ReconciliationInv, JobsTracked
<1> QED
  BY <1>1, ReconciliationInvariant, PTL

(***************************************************************************)
(* No difference is lost on the way down the tree: what a tracked peer     *)
(* holds and the node lacks is found there or lies under a job still to be *)
(* done, or under one given up since the peer's last root to a full queue, *)
(* a full table of acquisitions or an answer that does not decode          *)
(* (handleRootSummary, acceptSummary, acceptLeaf, onTick).                 *)
(***************************************************************************)
THEOREM DifferencesAlwaysCovered == Spec => []DifferencesCovered
<1>1. ReconciliationInv => DifferencesCovered
  BY DEF ReconciliationInv
<1> QED
  BY <1>1, ReconciliationInvariant, PTL

=============================================================================
