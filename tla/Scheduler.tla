------------------------------ MODULE Scheduler ------------------------------
(***************************************************************************)
(* Whose turn it is (Runtime.onTick and nextWork, internal/node/runtime.go;*)
(* Controller.CanInitiate, internal/node/controller.go).  Once the channel *)
(* is quiet and no exchange is outstanding a tick gives one turn: to the   *)
(* root advertisement when its deadline has passed, else to reconciliation *)
(* or to an acquisition, alternating; acquisitions rotate through a list   *)
(* that other events append to and remove from.  What an exchange carries  *)
(* is in modules Acquisition and Reconciliation, whose Initiate actions    *)
(* are the turns given here.                                               *)
(*                                                                         *)
(* Time is abstract: a backoff or deadline ends at any moment; traffic and *)
(* every own transmission make the channel busy until it is quiet again.   *)
(***************************************************************************)
EXTENDS Naturals, Sequences, SequencesExt, FiniteSets

CONSTANTS IDs,
          MaxJobs        \* reconciliation jobs, queued or active

ASSUME SchedulerAssumption == MaxJobs \in Nat \ {0} /\ IsFiniteSet(IDs)

VARIABLES
  order, workCursor,     \* Runtime.order, Runtime.workCursor (from 0)
  work,                  \* work[i]: how the acquisition of i stands
  due, later, active,    \* reconciliation jobs: due, backing off, outstanding
  preferReconcile,       \* Runtime.preferReconcile
  rootDue,               \* nextAdvertise has passed
  quiet                  \* Controller.CanInitiate

reconciliation == <<due, later, active>>
acquisitions   == <<order, workCursor, work>>
vars == <<acquisitions, reconciliation, preferReconcile, rootDue, quiet>>

(***************************************************************************)
(* sourceless: resumed from disk, no peer named yet.  done: every chunk is *)
(* there and nothing is left to ask for, but it is still in the table.     *)
(***************************************************************************)
Standing == {"absent", "sourceless", "backoff", "due", "waiting", "done"}

TypeOK ==
  /\ order \in Seq(IDs) /\ IsInjective(order)
  /\ workCursor \in 0 .. Cardinality(IDs)
  /\ work \in [IDs -> Standing]
  /\ due \in 0 .. MaxJobs /\ later \in 0 .. MaxJobs /\ active \in 0 .. 1
  /\ preferReconcile \in BOOLEAN /\ rootDue \in BOOLEAN /\ quiet \in BOOLEAN

\* NewRuntime: partial and wanted publications are in the table, in any order
Init ==
  /\ work \in [IDs -> {"absent", "sourceless"}]
  /\ order \in SetToSeqs({i \in IDs : work[i] # "absent"}) /\ workCursor = 0
  /\ due = 0 /\ later = 0 /\ active = 0
  /\ preferReconcile = FALSE /\ rootDue = FALSE /\ quiet = FALSE

-----------------------------------------------------------------------------
Outstanding == active = 1 \/ \E i \in IDs : work[i] = "waiting"

\* what nextWork accepts: an acquisition with a source whose backoff is over
Ready(i) == work[i] \in {"due", "done"}

(***************************************************************************)
(* nextWork: from the cursor on, round the list, the first that is ready.  *)
(***************************************************************************)
Position(offset) == (workCursor + offset) % Len(order)

NextWorkFirst(i) ==                   \* mutated: always from the start of the list
  \E k \in DOMAIN order :
    /\ order[k] = i /\ Ready(i)
    /\ \A l \in 1 .. k - 1 : ~Ready(order[l])
    /\ UNCHANGED workCursor

NextWork(i) ==
  \E offset \in 0 .. Len(order) - 1 :
    /\ order[Position(offset) + 1] = i /\ Ready(i)
    /\ \A nearer \in 0 .. offset - 1 : ~Ready(order[Position(nearer) + 1])
    /\ workCursor' = (Position(offset) + 1) % Len(order)

(***************************************************************************)
(* onTick.  Every own transmission starts a new quiet period; so does a    *)
(* refused one, which also backs off.                                      *)
(***************************************************************************)
Turn == quiet /\ ~Outstanding

Advertise ==
  /\ Turn /\ rootDue
  /\ rootDue' = FALSE /\ quiet' = FALSE
  /\ UNCHANGED <<acquisitions, reconciliation, preferReconcile>>

ReconcileWhenIdle ==                  \* mutated: only when no acquisition is ready
  /\ Turn /\ ~rootDue /\ due > 0
  /\ \A i \in IDs : ~Ready(i)
  /\ due' = due - 1
  /\ \/ active' = 1 /\ UNCHANGED later
     \/ later' = later + 1 /\ UNCHANGED active
  /\ preferReconcile' = FALSE /\ quiet' = FALSE
  /\ UNCHANGED <<acquisitions, rootDue>>

ReconcileTurn ==
  /\ Turn /\ ~rootDue /\ due > 0
  /\ preferReconcile \/ \A i \in IDs : ~Ready(i)
  /\ due' = due - 1
  /\ \/ active' = 1 /\ UNCHANGED later
     \/ later' = later + 1 /\ UNCHANGED active       \* the modem refuses to send
  /\ preferReconcile' = FALSE /\ quiet' = FALSE
  /\ UNCHANGED <<acquisitions, rootDue>>

AcquireTurn(i) ==
  /\ Turn /\ ~rootDue
  /\ ~preferReconcile \/ due = 0
  /\ NextWork(i)
  /\ \/ /\ work[i] = "due"
        /\ work' \in {[work EXCEPT ![i] = "waiting"], [work EXCEPT ![i] = "backoff"]}
        /\ quiet' = FALSE
     \/ work[i] = "done" /\ UNCHANGED <<work, quiet>>
  /\ preferReconcile' = TRUE
  /\ UNCHANGED <<order, reconciliation, rootDue>>

-----------------------------------------------------------------------------
(***************************************************************************)
(* What happens between the turns.  Answers and failures: an acquisition   *)
(* leaves the table (removeOrder) when it is complete or refused.          *)
(***************************************************************************)
RemoveWithoutOrder(i) ==              \* mutated: removeOrder is not called
  /\ work' = [work EXCEPT ![i] = "absent"]
  /\ UNCHANGED <<order, workCursor>>

RemoveOrderKeepsCursor(i) ==          \* mutated: the cursor is left past the end
  /\ order' = SelectSeq(order, LAMBDA j : j # i)
  /\ work' = [work EXCEPT ![i] = "absent"]
  /\ UNCHANGED workCursor

RemoveOrder(i) ==
  /\ work' = [work EXCEPT ![i] = "absent"]
  /\ \E k \in DOMAIN order :
       /\ order[k] = i /\ \A l \in 1 .. k - 1 : order[l] # i
       /\ order' = RemoveAt(order, k)
       /\ workCursor' = IF workCursor >= Len(order') THEN 0 ELSE workCursor

Answered(i) ==
  /\ work[i] = "waiting" /\ quiet' = FALSE
  /\ \/ RemoveOrder(i)
     \/ /\ work' \in {[work EXCEPT ![i] = "backoff"], [work EXCEPT ![i] = "done"]}
        /\ UNCHANGED <<order, workCursor>>
  /\ UNCHANGED <<reconciliation, preferReconcile, rootDue>>

Expire(i) ==
  /\ work[i] = "waiting"
  /\ work' = [work EXCEPT ![i] = "backoff"] /\ quiet' = FALSE
  /\ UNCHANGED <<order, workCursor, reconciliation, preferReconcile, rootDue>>

BackoffOver(i) ==
  /\ work[i] = "backoff"
  /\ work' = [work EXCEPT ![i] = "due"]
  /\ UNCHANGED <<order, workCursor, reconciliation, preferReconcile, rootDue, quiet>>

\* the active job is answered or expires: it is done, comes back, or leaves new ones
Reconciled ==
  /\ active = 1 /\ active' = 0
  /\ later' \in later .. MaxJobs - due
  /\ quiet' = FALSE
  /\ UNCHANGED <<acquisitions, due, preferReconcile, rootDue>>

\* a leaf names a source for a publication, new to the table or in it
Discover(i) ==
  /\ active = 1 /\ active' = 0 /\ quiet' = FALSE
  /\ \/ /\ work[i] = "absent"
        /\ order' = Append(order, i)
        /\ work' \in {[work EXCEPT ![i] = "backoff"], [work EXCEPT ![i] = "due"]}
     \/ /\ work[i] = "sourceless"
        /\ work' \in {[work EXCEPT ![i] = "due"], [work EXCEPT ![i] = "done"]}
        /\ UNCHANGED order
  /\ UNCHANGED <<workCursor, due, later, preferReconcile, rootDue>>

RootHeard ==
  /\ due + later + active < MaxJobs /\ later' = later + 1
  /\ quiet' = FALSE
  /\ UNCHANGED <<acquisitions, due, active, preferReconcile, rootDue>>

JobDue ==
  /\ later > 0 /\ later' = later - 1 /\ due' = due + 1
  /\ UNCHANGED <<acquisitions, active, preferReconcile, rootDue, quiet>>

RootDue == /\ ~rootDue /\ rootDue' = TRUE
           /\ UNCHANGED <<acquisitions, reconciliation, preferReconcile, quiet>>

Busy  == /\ quiet /\ quiet' = FALSE
         /\ UNCHANGED <<acquisitions, reconciliation, preferReconcile, rootDue>>
Quiet == /\ ~quiet /\ quiet' = TRUE
         /\ UNCHANGED <<acquisitions, reconciliation, preferReconcile, rootDue>>

Between == \/ \E i \in IDs : Answered(i) \/ Expire(i) \/ BackoffOver(i) \/ Discover(i)
           \/ Reconciled \/ RootHeard \/ JobDue \/ RootDue \/ Busy \/ Quiet

WorkTurn == ReconcileTurn \/ \E i \in IDs : AcquireTurn(i)

Next == Advertise \/ WorkTurn \/ Between

(***************************************************************************)
(* Fairness: outstanding exchanges end; the channel is quiet again and     *)
(* again, also between one root and the next (the advertisement interval   *)
(* is much longer than a quiet period); and the loop gets to its turns     *)
(* although traffic and root deadlines may disable one meanwhile.          *)
(***************************************************************************)
Fairness ==
  /\ WF_vars(Quiet) /\ SF_vars(Quiet /\ ~rootDue)
  /\ WF_vars(Reconciled \/ \E i \in IDs : Expire(i))
  /\ SF_vars(Advertise)
  /\ SF_vars(WorkTurn)

Spec == Init /\ [][Next]_vars /\ Fairness

-----------------------------------------------------------------------------
(***************************************************************************)
(* The list that is rotated and the table stay the same set, and the       *)
(* cursor points into the list, through appends and removals.              *)
(***************************************************************************)
OrderMatchesTable ==
  /\ Range(order) = {i \in IDs : work[i] # "absent"}
  /\ workCursor = 0 \/ workCursor < Len(order)

(***************************************************************************)
(* Acquisition work rotates (node-protocol.md, Cooperative Scheduling): an *)
(* acquisition that is due gets its turn, however many others come and go, *)
(* and although a finished one in the table keeps taking turns.            *)
(***************************************************************************)
AcquisitionsServed == \A i \in IDs : (work[i] = "due") ~> (work[i] # "due")

(***************************************************************************)
(* Reconciliation alternates with acquisition and roots are not starved:   *)
(* while jobs are due they get turns, and a root that is due is sent.      *)
(***************************************************************************)
ReconciliationServed == []<>(due = 0) \/ []<><<ReconcileTurn>>_vars
RootsServed == rootDue ~> ~rootDue

(***************************************************************************)
(* Nobody who waits for the idle channel waits for ever.                   *)
(***************************************************************************)
EveryoneServed == AcquisitionsServed /\ ReconciliationServed /\ RootsServed

=============================================================================
