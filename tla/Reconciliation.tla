---------------------------- MODULE Reconciliation ----------------------------
(***************************************************************************)
(* How a node finds out what its peers hold (internal/node/runtime.go).  A *)
(* root summary of a peer's inventory is compared with the node's own; for *)
(* each child that differs a job walks down, one request at a time, until  *)
(* a leaf lists concrete IDs.  Meanwhile the peer's inventory and the      *)
(* node's own grow, roots arrive at any moment, answers are lost, late or  *)
(* repeated, peers are forgotten when too many are tracked, and the queue  *)
(* of jobs is bounded.                                                     *)
(*                                                                         *)
(* found is what acceptLeaf hands over to acquisition (module Acquisition, *)
(* which also has what policy refuses: here that counts as found); Acquire *)
(* stands for its end.  Time is abstract: any queued job may be due, and a *)
(* deadline passes at any moment.                                          *)
(***************************************************************************)
EXTENDS Radix

CONSTANTS
  Peers, None,
  Local,               \* what the node holds at first
  Remote,              \* Remote[p]: what peer p holds at first
  MaxTrackedPeers, MaxReconcileJobs,
  MaxAcquisitions, MaxSources,   \* the table of acquisitions, the sources of one
  TxCount,             \* transaction numbers before the counter wraps
  MaxLate,             \* messages in the air besides the latest
  Growing, MaxGrowth,  \* Growing[p]: what p may come to hold; how much of it all
  MaxStops

ASSUME ReconciliationAssumption ==
  /\ Local \subseteq IDs /\ {Growing, Remote} \subseteq [Peers -> SUBSET IDs]
  /\ {MaxTrackedPeers, MaxReconcileJobs, MaxAcquisitions, MaxSources, TxCount}
       \subseteq Nat \ {0}
  /\ {MaxLate, MaxGrowth, MaxStops} \subseteq Nat

VARIABLES
  objects,             \* the complete publications of the node's store
  completeIDs,         \* Runtime.completeIDs, their snapshot
  peerGenerations,     \* Runtime.peerGenerations
  peerOrder,           \* Runtime.peerOrder, least recently heard first
  reconcileQueue, reconcileActive, tx,
  found,               \* found[i]: the peers a leaf named as sources of i
  inventory,           \* what each peer holds
  air, growth, stops,
  givenUp              \* history: the jobs, or the single IDs, that were given
                       \* up since the last root of their peer

walk   == <<peerGenerations, peerOrder, reconcileQueue, reconcileActive>>
vars   == <<objects, completeIDs, walk, tx, found, inventory, air, growth, stops, givenUp>>
bounds == <<growth, stops>>

Generations == SUBSET IDs
Jobs == [peer : Peers, generation : Generations, prefix : Branches]

\* None, the absence of a value, is none of the values
ASSUME NoneAssumption ==
  (\A g \in Generations : g # None) /\ None \notin [job : Jobs, tx : 0 .. TxCount - 1]

TypeOK ==
  /\ objects \subseteq IDs /\ completeIDs \subseteq objects
  /\ peerGenerations \in [Peers -> Generations \cup {None}]
  /\ peerOrder \in Seq(Peers) /\ Len(peerOrder) <= MaxTrackedPeers
  /\ reconcileQueue \subseteq Jobs /\ Cardinality(reconcileQueue) <= MaxReconcileJobs
  /\ reconcileActive \in [job : Jobs, tx : 0 .. TxCount - 1] \cup {None}
  /\ tx \in 0 .. TxCount - 1
  /\ found \in [IDs -> SUBSET Peers]
  /\ inventory \in [Peers -> SUBSET IDs]
  /\ growth \in 0 .. MaxGrowth /\ stops \in 0 .. MaxStops /\ givenUp \subseteq Jobs

Init ==
  /\ objects = Local /\ completeIDs = Local
  /\ peerGenerations = [p \in Peers |-> None] /\ peerOrder = <<>>
  /\ reconcileQueue = {} /\ reconcileActive = None /\ tx = 0
  /\ found = [i \in IDs |-> {}]
  /\ inventory = Remote
  /\ air = {} /\ growth = 0 /\ stops = 0 /\ givenUp = {}

-----------------------------------------------------------------------------
(***************************************************************************)
(* The air keeps at most MaxLate earlier messages beside a new one, none   *)
(* of them with the transaction number a request is about to use; what it  *)
(* drops is lost.  A message that is heard may be heard again.             *)
(***************************************************************************)
Transmit(m) ==
  \E late \in SUBSET {l \in air : {l.kind, m.kind} \cap {"Root"} # {} \/ l.tx # m.tx} :
    Cardinality(late) <= MaxLate /\ air' = late \cup {m}

Heard(m) == m \in air /\ air' \in {air, air \ {m}}

(***************************************************************************)
(* queueReconciliation, once for every differing child in ascending order: *)
(* not what is active or queued already, and no more than there is room.   *)
(***************************************************************************)
NewTwice(queue, active, p, generation, prefixes) ==      \* mutated: ignores the active job
  [peer : {p}, generation : {generation}, prefix : prefixes] \ queue

New(queue, active, p, generation, prefixes) ==
  {j \in [peer : {p}, generation : {generation}, prefix : prefixes] :
     /\ j \notin queue
     /\ active # None => active.job.peer # p \/ active.job.prefix # j.prefix}

Queued(queue, new) ==
  LET before(j) == {k \in new : Last(k.prefix) < Last(j.prefix)}
  IN queue \cup {j \in new : Cardinality(queue) + Cardinality(before(j)) < MaxReconcileJobs}

\* the jobs that found the queue full
Crowded(jobs) == IF Cardinality(reconcileQueue') < MaxReconcileJobs
                 THEN {} ELSE jobs \ reconcileQueue'

QueueOfAll(queue, peers) == queue     \* mutated: only the active job is dropped

\* dropReconciliation
QueueWithout(queue, peers)   == {j \in queue : j.peer \notin peers}
ActiveWithout(active, peers) ==
  IF active # None /\ active.job.peer \in peers THEN None ELSE active

(***************************************************************************)
(* handleRootSummary: the peer becomes the most recently heard; the least  *)
(* recently heard makes room for a new one and its work is dropped; a new  *)
(* generation drops the work the old one started.                          *)
(***************************************************************************)
HandleRootSummary(m) ==
  /\ Heard(m) /\ m.kind = "Root"
  /\ LET p == m.peer
         knownPeer == peerGenerations[p] # None
         evicted == IF ~knownPeer /\ Len(peerOrder) >= MaxTrackedPeers
                    THEN {Head(peerOrder)} ELSE {}
         kept == IF knownPeer THEN RemoveFirst(peerOrder, p)
                 ELSE IF evicted = {} THEN peerOrder ELSE Tail(peerOrder)
         changed == peerGenerations[p] # m.body.generation
         dropped == evicted \cup (IF changed THEN {p} ELSE {})
         active == ActiveWithout(reconcileActive, dropped)
         queue == QueueWithout(reconcileQueue, dropped)
         new == New(queue, active, p, m.body.generation,
                    DifferingChildren(BuildSummary(completeIDs, <<>>), m.body))
     IN /\ peerOrder' = Append(kept, p)
        /\ peerGenerations' = [q \in Peers |-> CASE q = p -> m.body.generation
                                                 [] q \in evicted -> None
                                                 [] OTHER -> peerGenerations[q]]
        /\ reconcileActive' = active
        /\ reconcileQueue' = Queued(queue, new)
        /\ givenUp' = QueueWithout(givenUp, evicted \cup {p}) \cup Crowded(new)
  /\ UNCHANGED <<objects, completeIDs, tx, found, inventory, bounds>>

(***************************************************************************)
(* initiateReconcile: a due job leaves the queue; when Send reports an     *)
(* error, it goes back, whether or not the request was sent.               *)
(***************************************************************************)
InitiateReconcile(job) ==
  /\ reconcileActive = None /\ job \in reconcileQueue
  /\ tx' = (tx + 1) % TxCount
  /\ LET m == [kind |-> "SummaryRequest", peer |-> job.peer, tx |-> tx',
               generation |-> job.generation, prefix |-> job.prefix]
     IN \/ /\ reconcileQueue' = reconcileQueue \ {job}
           /\ reconcileActive' = [job |-> job, tx |-> tx']
           /\ Transmit(m)
        \/ /\ UNCHANGED <<reconcileQueue, reconcileActive>>
           /\ UNCHANGED air \/ Transmit(m)
  /\ UNCHANGED <<objects, completeIDs, peerGenerations, peerOrder, found, inventory, bounds, givenUp>>

ReconcileTimeoutUnbounded ==          \* mutated: back into a full queue
  /\ reconcileActive # None
  /\ reconcileActive' = None
  /\ reconcileQueue' = reconcileQueue \cup {reconcileActive.job}
  /\ UNCHANGED <<objects, completeIDs, peerGenerations, peerOrder, tx, found,
                 inventory, air, bounds, givenUp>>

ReconcileTimeoutDrops ==              \* mutated: a job that failed is forgotten
  /\ reconcileActive # None
  /\ reconcileActive' = None
  /\ UNCHANGED <<objects, completeIDs, peerGenerations, peerOrder, reconcileQueue, tx,
                 found, inventory, air, bounds, givenUp>>

\* onTick: the deadline of the active job has passed
ReconcileTimeout ==
  /\ reconcileActive # None
  /\ reconcileActive' = None
  /\ reconcileQueue' = IF Cardinality(reconcileQueue) < MaxReconcileJobs
                       THEN reconcileQueue \cup {reconcileActive.job} ELSE reconcileQueue
  /\ givenUp' = givenUp \cup Crowded({reconcileActive.job})
  /\ UNCHANGED <<objects, completeIDs, peerGenerations, peerOrder, tx, found,
                 inventory, air, bounds>>

(***************************************************************************)
(* activeReconciliation: an answer counts for the job it was sent for.     *)
(***************************************************************************)
Answers(m) == /\ reconcileActive # None
              /\ reconcileActive.job.peer = m.peer /\ reconcileActive.tx = m.tx

Current(body, job) == body.generation = job.generation /\ body.prefix = job.prefix

\* an answer that does not decode, or to another question, ends the job
Usable(m) == m.good /\ Current(m.body, reconcileActive.job)

AcceptSummary(m) ==
  /\ Heard(m) /\ m.kind = "Summary" /\ Answers(m)
  /\ reconcileActive' = None
  /\ LET job == reconcileActive.job
         new == New(reconcileQueue, reconcileActive, job.peer, job.generation,
                    DifferingChildren(BuildSummary(completeIDs, job.prefix), m.body))
     IN IF Usable(m)
        THEN /\ reconcileQueue' = Queued(reconcileQueue, new)
             /\ givenUp' = givenUp \cup Crowded(new)
        ELSE UNCHANGED reconcileQueue /\ givenUp' = givenUp \cup {job}
  /\ UNCHANGED <<objects, completeIDs, peerGenerations, peerOrder, tx, found,
                 inventory, bounds>>

(***************************************************************************)
(* acceptLeaf and addCandidate: what is missing here has a source now,     *)
(* unless the table of acquisitions, or its list of sources, is full.      *)
(***************************************************************************)
Acquisitions == {i \in IDs : found[i] # {}}

TakesSource(i, p) == p \in found[i] \/ Cardinality(found[i]) < MaxSources

AcceptLeaf(m) ==
  /\ Heard(m) /\ m.kind = "Leaf" /\ Answers(m)
  /\ reconcileActive' = None
  /\ LET job == reconcileActive.job
         missing == MissingIDs(completeIDs, m.body) \ objects
         new == missing \ Acquisitions
     IN IF Usable(m)
        THEN \E admitted \in SUBSET new :
               LET named == {i \in missing \ new : TakesSource(i, m.peer)} \cup admitted
               IN /\ \/ admitted = new
                     \/ Cardinality(Acquisitions \cup admitted) = MaxAcquisitions
                  /\ Cardinality(Acquisitions \cup admitted) <= MaxAcquisitions
                  /\ found' = [i \in IDs |-> found[i] \cup IF i \in named THEN {m.peer} ELSE {}]
                  /\ givenUp' = givenUp \cup [peer : {m.peer}, generation : {job.generation},
                                              prefix : missing \ named]
        ELSE UNCHANGED found /\ givenUp' = givenUp \cup {job}
  /\ UNCHANGED <<objects, completeIDs, peerGenerations, peerOrder, reconcileQueue,
                 tx, inventory, bounds>>

-----------------------------------------------------------------------------
(***************************************************************************)
(* The peer's side: advertise and serveSummary.  A request for another     *)
(* generation than the peer's present one gets no answer; an answer that   *)
(* is not good does not decode.                                            *)
(***************************************************************************)
PeerAdvertise(p) ==
  /\ Transmit([kind |-> "Root", peer |-> p, body |-> BuildSummary(inventory[p], <<>>)])
  /\ UNCHANGED <<objects, completeIDs, walk, tx, found, inventory, bounds, givenUp>>

ServeSummary(m) ==
  /\ m \in air /\ m.kind = "SummaryRequest"
  /\ LET ids == inventory[m.peer]
         answer(kind, body, good) == [kind |-> kind, peer |-> m.peer, tx |-> m.tx,
                                      body |-> body, good |-> good]
     IN /\ ids = m.generation
        /\ \E good \in BOOLEAN :
             air' = (air \ {m}) \cup
               {IF Cardinality(FilterPrefix(ids, m.prefix)) <= LeafThreshold
                THEN answer("Leaf", BuildLeaf(ids, m.prefix), good)
                ELSE answer("Summary", BuildSummary(ids, m.prefix), good)}
  /\ UNCHANGED <<objects, completeIDs, walk, tx, found, inventory, bounds, givenUp>>

PeerGrows(p, i) ==
  /\ growth < MaxGrowth /\ growth' = growth + 1
  /\ i \notin inventory[p]
  /\ inventory' = [inventory EXCEPT ![p] = @ \cup {i}]
  /\ UNCHANGED <<objects, completeIDs, walk, tx, found, air, stops, givenUp>>

(***************************************************************************)
(* The node's own inventory: a found publication is acquired and the       *)
(* snapshot refreshed, unless the store cannot be read; advertise tries    *)
(* again.                                                                  *)
(***************************************************************************)
Acquire(i) ==
  /\ found[i] # {} /\ i \notin objects
  /\ objects' = objects \cup {i}
  /\ completeIDs' \in {completeIDs, objects'}
  /\ found' = [found EXCEPT ![i] = {}]
  /\ UNCHANGED <<walk, tx, inventory, air, bounds, givenUp>>

Advertise ==
  /\ completeIDs # objects
  /\ completeIDs' = objects
  /\ UNCHANGED <<objects, walk, tx, found, inventory, air, bounds, givenUp>>

\* the process stops and starts again: nothing of the walk is durable
Restart ==
  /\ stops < MaxStops /\ stops' = stops + 1
  /\ completeIDs' = objects
  /\ peerGenerations' = [p \in Peers |-> None] /\ peerOrder' = <<>>
  /\ reconcileQueue' = {} /\ reconcileActive' = None
  /\ tx' \in 0 .. TxCount - 1
  /\ found' = [i \in IDs |-> {}] /\ givenUp' = {}
  /\ UNCHANGED <<objects, inventory, air, growth>>

Next ==
  \/ ReconcileTimeout \/ Advertise \/ Restart
  \/ \E job \in reconcileQueue : InitiateReconcile(job)
  \/ \E m \in air : HandleRootSummary(m) \/ AcceptSummary(m) \/ AcceptLeaf(m) \/ ServeSummary(m)
  \/ \E p \in Peers : PeerAdvertise(p) \/ (\E i \in Growing[p] : PeerGrows(p, i))
  \/ \E i \in IDs : Acquire(i)

Spec == Init /\ [][Next]_vars

-----------------------------------------------------------------------------
Pending == reconcileQueue \cup (IF reconcileActive = None THEN {} ELSE {reconcileActive.job})

(***************************************************************************)
(* A job never outlives the root that began it: whatever is queued or      *)
(* active is for a tracked peer and for the generation last heard from it, *)
(* through eviction, new generations, timeouts and retries.                *)
(***************************************************************************)
JobsCurrent ==
  /\ \A p \in Peers : peerGenerations[p] # None <=> p \in Range(peerOrder)
  /\ IsInjective(peerOrder)
  /\ \A j \in Pending : peerGenerations[j.peer] = j.generation

(***************************************************************************)
(* The same walk is not queued twice: the job being asked about is not in  *)
(* the queue, so its timeout does not duplicate it.                        *)
(***************************************************************************)
NoDuplicateJobs == reconcileActive # None => reconcileActive.job \notin reconcileQueue

(***************************************************************************)
(* No difference is lost on the way: an ID of the generation last heard    *)
(* from a peer is held, is found at that peer, or lies under a job still   *)
(* to be done or given up since the peer's last root -- because the queue, *)
(* the table of acquisitions or the list of sources was full, or the       *)
(* answer unusable.  A lost, late or repeated message, a failed Send, a    *)
(* timeout or another peer's eviction loses none.                          *)
(***************************************************************************)
DifferencesCovered ==
  \A p \in Peers : peerGenerations[p] # None =>
    \A i \in peerGenerations[p] \ objects :
      \/ p \in found[i]
      \/ \E j \in Pending \cup givenUp : j.peer = p /\ IsPrefix(j.prefix, i)

=============================================================================
