--------------------------- MODULE SchedulerProofs ---------------------------
(***************************************************************************)
(* Proofs about the scheduling loop, for every finite set of publications  *)
(* and every number of jobs: the rotated list and the table of             *)
(* acquisitions never diverge, the cursor stays inside the list, and no    *)
(* acquisition that is due is passed over too often (with the history      *)
(* variable passed).                                                       *)
(***************************************************************************)
EXTENDS MCScheduler, CommonLemmas

(***************************************************************************)
(* Inductive: jobs are only moved between due, later and active, and the   *)
(* bound is on their sum.                                                  *)
(***************************************************************************)
TurnInv ==
  /\ TypeOK
  /\ OrderMatchesTable
  /\ due + later + active <= MaxJobs

-----------------------------------------------------------------------------
LEMMA TurnInit == Init => TurnInv
<1> SUFFICES ASSUME Init PROVE TurnInv
  OBVIOUS
<1> DEFINE T == {i \in IDs : work[i] # "absent"}
<1>1. IsFiniteSet(T) /\ Cardinality(T) \in Nat
  BY SchedulerAssumption, FS_Subset, FS_CardinalityType
<1>2. /\ order \in [1 .. Cardinality(T) -> T]
      /\ \A i, j \in 1 .. Cardinality(T) : i # j => order[i] # order[j]
  BY <1>1 DEF Init, SetToSeqs
<1>3. order \in Seq(IDs) /\ IsInjective(order) /\ order \in Injection(1 .. Cardinality(T), T)
  <2>1. DOMAIN order = 1 .. Cardinality(T) /\ order \in [1 .. Cardinality(T) -> IDs]
    BY <1>2
  <2>2. order \in Seq(IDs)
    BY <1>1, <2>1, SeqDef
  <2>3. IsInjective(order)
    BY <1>2, <2>1 DEF IsInjective
  <2> QED
    BY <1>2, <2>2, <2>3 DEF Injection
<1>4. Cardinality(1 .. Cardinality(T)) =
        IF 1 > Cardinality(T) THEN 0 ELSE Cardinality(T) - 1 + 1
  BY <1>1, FS_Interval
<1>5. Cardinality(1 .. Cardinality(T)) = Cardinality(T)
  BY <1>1, <1>4
<1>6. order \in Surjection(1 .. Cardinality(T), T)
  BY <1>1, <1>3, <1>5, FS_Injection
<1>7. Range(order) = T
  BY <1>2, <1>6 DEF Range, Surjection
<1>8. Cardinality(IDs) \in Nat
  BY SchedulerAssumption, FS_CardinalityType
<1>9. TypeOK
  <2>1. work \in [IDs -> Standing]
    BY DEF Init, Standing
  <2>2. /\ due \in 0 .. MaxJobs /\ later \in 0 .. MaxJobs /\ active \in 0 .. 1
        /\ workCursor \in 0 .. Cardinality(IDs)
    BY <1>8, SchedulerAssumption DEF Init
  <2> QED
    BY <1>3, <2>1, <2>2 DEF Init, TypeOK
<1> QED
  BY <1>7, <1>9, SchedulerAssumption DEF TurnInv, OrderMatchesTable, Init

(***************************************************************************)
(* Steps that change neither the list nor who is in the table.             *)
(***************************************************************************)
LEMMA ListKept ==
  ASSUME TurnInv, UNCHANGED <<order, workCursor>>, work' \in [IDs -> Standing],
         \A i \in IDs : (work[i] = "absent") <=> (work'[i] = "absent")
  PROVE  /\ order' \in Seq(IDs) /\ IsInjective(order')
         /\ workCursor' \in 0 .. Cardinality(IDs) /\ OrderMatchesTable'
BY DEF TurnInv, TypeOK, OrderMatchesTable

LEMMA CountsKept ==
  ASSUME TurnInv, UNCHANGED <<due, later, active>>
  PROVE  /\ due' \in 0 .. MaxJobs /\ later' \in 0 .. MaxJobs /\ active' \in 0 .. 1
         /\ due' + later' + active' <= MaxJobs
BY DEF TurnInv, TypeOK

(***************************************************************************)
(* nextWork leaves the cursor inside the list.                             *)
(***************************************************************************)
LEMMA AcquireInv ==
  ASSUME TurnInv, NEW i \in IDs, AcquireTurn(i)
  PROVE  TurnInv'
<1>1. order \in Seq(IDs) /\ Len(order) \in Nat /\ workCursor \in Nat
  BY LenProperties, LengthBound, SchedulerAssumption DEF TurnInv, TypeOK
<1>2. PICK offset \in 0 .. Len(order) - 1 : workCursor' = (Position(offset) + 1) % Len(order)
  BY DEF AcquireTurn, NextWork
<1>3. workCursor' \in 0 .. Len(order) - 1
  BY <1>1, <1>2 DEF Position
<1>4. Len(order) <= Cardinality(IDs) /\ Cardinality(IDs) \in Nat
  BY LengthBound, SchedulerAssumption DEF TurnInv, TypeOK
<1>5. work' \in [IDs -> Standing] /\ \A j \in IDs : (work[j] = "absent") <=> (work'[j] = "absent")
  BY DEF AcquireTurn, TurnInv, TypeOK, Standing
<1>6. order' = order /\ OrderMatchesTable'
  BY <1>1, <1>3, <1>5 DEF AcquireTurn, TurnInv, OrderMatchesTable
<1>7. workCursor' \in 0 .. Cardinality(IDs)
  BY <1>1, <1>3, <1>4
<1>8. UNCHANGED <<due, later, active>>
  BY DEF AcquireTurn, reconciliation
<1>9. preferReconcile' \in BOOLEAN /\ rootDue' \in BOOLEAN /\ quiet' \in BOOLEAN
  BY DEF AcquireTurn, TurnInv, TypeOK
<1> QED
  BY <1>1, <1>5, <1>6, <1>7, <1>8, <1>9, CountsKept DEF TurnInv, TypeOK

LEMMA ReconcileInv ==
  ASSUME TurnInv, ReconcileTurn
  PROVE  TurnInv'
<1>1. /\ order' \in Seq(IDs) /\ IsInjective(order')
      /\ workCursor' \in 0 .. Cardinality(IDs) /\ OrderMatchesTable'
      /\ work' \in [IDs -> Standing]
  BY ListKept DEF ReconcileTurn, acquisitions, TurnInv, TypeOK
<1>2. active = 0
  BY DEF ReconcileTurn, Turn, Outstanding, TurnInv, TypeOK
<1>3. /\ due' \in 0 .. MaxJobs /\ later' \in 0 .. MaxJobs /\ active' \in 0 .. 1
      /\ due' + later' + active' <= MaxJobs
  BY <1>2, SchedulerAssumption DEF ReconcileTurn, TurnInv, TypeOK
<1>4. preferReconcile' \in BOOLEAN /\ rootDue' \in BOOLEAN /\ quiet' \in BOOLEAN
  BY DEF ReconcileTurn, TurnInv, TypeOK
<1> QED
  BY <1>1, <1>3, <1>4 DEF TurnInv, TypeOK

(***************************************************************************)
(* removeOrder                                                             *)
(***************************************************************************)
LEMMA RemoveInv ==
  ASSUME TurnInv, NEW i \in IDs, RemoveOrder(i)
  PROVE  /\ order' \in Seq(IDs) /\ IsInjective(order')
         /\ workCursor' \in 0 .. Cardinality(IDs) /\ OrderMatchesTable'
         /\ work' \in [IDs -> Standing]
<1>1. order \in Seq(IDs) /\ DOMAIN order = 1 .. Len(order)
  BY LenProperties DEF TurnInv, TypeOK
<1>2. PICK k \in 1 .. Len(order) :
        /\ order[k] = i /\ order' = RemoveAt(order, k)
        /\ workCursor' = IF workCursor >= Len(order') THEN 0 ELSE workCursor
  BY <1>1 DEF RemoveOrder
<1>3. /\ order' \in Seq(IDs) /\ IsInjective(order')
      /\ Range(order') = Range(order) \ {i}
  BY <1>1, <1>2, RemovedFromList DEF TurnInv, TypeOK
<1>4. Len(order') \in Nat /\ Len(order') <= Cardinality(IDs) /\ Cardinality(IDs) \in Nat
  BY <1>3, LengthBound, LenProperties, SchedulerAssumption
<1>5. workCursor' \in 0 .. Cardinality(IDs) /\ (workCursor' = 0 \/ workCursor' < Len(order'))
  BY <1>2, <1>4 DEF TurnInv, TypeOK
<1>6. work' \in [IDs -> Standing] /\ \A j \in IDs : work'[j] # "absent" <=> work[j] # "absent" /\ j # i
  BY DEF RemoveOrder, TurnInv, TypeOK, Standing
<1>7. OrderMatchesTable'
  BY <1>3, <1>5, <1>6 DEF OrderMatchesTable, TurnInv
<1> QED
  BY <1>3, <1>5, <1>6, <1>7

LEMMA AnsweredInv ==
  ASSUME TurnInv, NEW i \in IDs, Answered(i)
  PROVE  TurnInv'
<1>1. /\ order' \in Seq(IDs) /\ IsInjective(order')
      /\ workCursor' \in 0 .. Cardinality(IDs) /\ OrderMatchesTable'
      /\ work' \in [IDs -> Standing]
  <2>1. CASE RemoveOrder(i)
    BY <2>1, RemoveInv
  <2>2. CASE /\ work' \in {[work EXCEPT ![i] = "backoff"], [work EXCEPT ![i] = "done"]}
             /\ UNCHANGED <<order, workCursor>>
    <3>1. /\ work' \in [IDs -> Standing]
          /\ \A j \in IDs : (work[j] = "absent") <=> (work'[j] = "absent")
      BY <2>2 DEF Answered, TurnInv, TypeOK, Standing
    <3> QED
      BY <2>2, <3>1, ListKept
  <2> QED
    BY <2>1, <2>2 DEF Answered
<1> QED
  BY <1>1, CountsKept DEF Answered, reconciliation, TurnInv, TypeOK

(***************************************************************************)
(* addCandidate: a publication that enters the table enters the list.      *)
(***************************************************************************)
LEMMA DiscoverInv ==
  ASSUME TurnInv, NEW i \in IDs, Discover(i)
  PROVE  TurnInv'
<1>1. work' \in [IDs -> Standing]
  BY DEF Discover, TurnInv, TypeOK, Standing
<1>2. /\ order' \in Seq(IDs) /\ IsInjective(order')
      /\ workCursor' \in 0 .. Cardinality(IDs) /\ OrderMatchesTable'
  <2>1. CASE /\ work[i] = "absent" /\ order' = Append(order, i)
             /\ work' \in {[work EXCEPT ![i] = "backoff"], [work EXCEPT ![i] = "due"]}
    <3>1. i \notin Range(order)
      BY <2>1 DEF TurnInv, OrderMatchesTable
    <3>2. /\ order' \in Seq(IDs) /\ IsInjective(order')
          /\ Range(order') = Range(order) \cup {i} /\ Len(order') = Len(order) + 1
      BY <2>1, <3>1, AppendedToList DEF TurnInv, TypeOK
    <3>3. \A j \in IDs : work'[j] # "absent" <=> work[j] # "absent" \/ j = i
      BY <2>1 DEF TurnInv, TypeOK
    <3>4. workCursor' = workCursor /\ Len(order) \in Nat /\ workCursor \in Nat
      BY LenProperties, LengthBound, SchedulerAssumption DEF Discover, TurnInv, TypeOK
    <3>5. OrderMatchesTable'
      BY <3>2, <3>3, <3>4 DEF OrderMatchesTable, TurnInv
    <3> QED
      BY <3>2, <3>4, <3>5 DEF TurnInv, TypeOK
  <2>2. CASE work[i] = "sourceless"
    BY <2>2, <1>1, ListKept DEF Discover, TurnInv, TypeOK
  <2> QED
    BY <2>1, <2>2 DEF Discover
<1>3. /\ due' \in 0 .. MaxJobs /\ later' \in 0 .. MaxJobs /\ active' \in 0 .. 1
      /\ due' + later' + active' <= MaxJobs
  BY SchedulerAssumption DEF Discover, TurnInv, TypeOK
<1>4. preferReconcile' \in BOOLEAN /\ rootDue' \in BOOLEAN /\ quiet' \in BOOLEAN
  BY DEF Discover, TurnInv, TypeOK
<1> QED
  BY <1>1, <1>2, <1>3, <1>4 DEF TurnInv, TypeOK

(***************************************************************************)
(* A backoff or a deadline moves an acquisition that stays in the table.   *)
(***************************************************************************)
LEMMA TimerInv ==
  ASSUME TurnInv, NEW i \in IDs, Expire(i) \/ BackoffOver(i)
  PROVE  TurnInv'
<1>1. /\ work' \in [IDs -> Standing]
      /\ \A j \in IDs : (work[j] = "absent") <=> (work'[j] = "absent")
  BY DEF Expire, BackoffOver, TurnInv, TypeOK, Standing
<1>2. /\ order' \in Seq(IDs) /\ IsInjective(order')
      /\ workCursor' \in 0 .. Cardinality(IDs) /\ OrderMatchesTable'
  BY <1>1, ListKept DEF Expire, BackoffOver
<1> QED
  BY <1>1, <1>2, CountsKept DEF Expire, BackoffOver, reconciliation, TurnInv, TypeOK

(***************************************************************************)
(* What touches no acquisition: roots, jobs and the channel.               *)
(***************************************************************************)
LEMMA OthersInv ==
  ASSUME TurnInv,
         \/ Advertise \/ Reconciled \/ RootHeard \/ JobDue \/ RootDue \/ Busy \/ Quiet
         \/ UNCHANGED vars
  PROVE  TurnInv'
<1>1. UNCHANGED acquisitions
  BY DEF Advertise, Reconciled, RootHeard, JobDue, RootDue, Busy, Quiet, vars
<1>2. /\ order' \in Seq(IDs) /\ IsInjective(order')
      /\ workCursor' \in 0 .. Cardinality(IDs) /\ OrderMatchesTable'
      /\ work' \in [IDs -> Standing]
  BY <1>1, ListKept DEF acquisitions, TurnInv, TypeOK
<1>3. /\ due' \in 0 .. MaxJobs /\ later' \in 0 .. MaxJobs /\ active' \in 0 .. 1
      /\ due' + later' + active' <= MaxJobs
  BY SchedulerAssumption
  DEF Advertise, Reconciled, RootHeard, JobDue, RootDue, Busy, Quiet, vars,
      reconciliation, TurnInv, TypeOK
<1>4. preferReconcile' \in BOOLEAN /\ rootDue' \in BOOLEAN /\ quiet' \in BOOLEAN
  BY DEF Advertise, Reconciled, RootHeard, JobDue, RootDue, Busy, Quiet, vars, TurnInv, TypeOK
<1> QED
  BY <1>2, <1>3, <1>4 DEF TurnInv, TypeOK

LEMMA TurnStep == TurnInv /\ [Next]_vars => TurnInv'
<1> SUFFICES ASSUME TurnInv, [Next]_vars PROVE TurnInv'
  OBVIOUS
<1>1. CASE ReconcileTurn
  BY <1>1, ReconcileInv
<1>2. ASSUME NEW i \in IDs, AcquireTurn(i) PROVE TurnInv'
  BY <1>2, AcquireInv
<1>3. ASSUME NEW i \in IDs, Answered(i) PROVE TurnInv'
  BY <1>3, AnsweredInv
<1>4. ASSUME NEW i \in IDs, Discover(i) PROVE TurnInv'
  BY <1>4, DiscoverInv
<1>5. ASSUME NEW i \in IDs, Expire(i) \/ BackoffOver(i) PROVE TurnInv'
  BY <1>5, TimerInv
<1>6. CASE \/ Advertise \/ Reconciled \/ RootHeard \/ JobDue \/ RootDue \/ Busy \/ Quiet
           \/ UNCHANGED vars
  BY <1>6, OthersInv
<1> QED
  BY <1>1, <1>2, <1>3, <1>4, <1>5, <1>6 DEF Next, WorkTurn, Between

(***************************************************************************)
(* The inductive invariant holds of every behaviour of the loop.           *)
(***************************************************************************)
THEOREM TurnInvariant == Spec => []TurnInv
BY TurnInit, TurnStep, PTL DEF Spec

(***************************************************************************)
(* Type correctness of onTick's state, the job bound included.             *)
(***************************************************************************)
THEOREM TurnTypeCorrect == Spec => []TypeOK
<1>1. TurnInv => TypeOK
  BY DEF TurnInv
<1> QED
  BY TurnInvariant, <1>1, PTL

(***************************************************************************)
(* addCandidate and removeOrder keep the list and the table the same set,  *)
(* and nextWork's cursor inside the list, however many come and go.        *)
(***************************************************************************)
THEOREM OrderSafe == Spec => []OrderMatchesTable
<1>1. TurnInv => OrderMatchesTable
  BY DEF TurnInv
<1> QED
  BY TurnInvariant, <1>1, PTL

-----------------------------------------------------------------------------
(***************************************************************************)
(* How often the acquisition at position k can still be passed over when   *)
(* the cursor is at c: once by each that the rotation reaches before it,   *)
(* and by a whole round more for each that is ahead of it in the list,     *)
(* whose removal lets the cursor skip it.  The last of a full list has one *)
(* turn less: the first removal takes the cursor back to the start.        *)
(***************************************************************************)
N == Cardinality(IDs)

Ahead(k, c) == IF c < k THEN k - 1 - c ELSE N - c + k - 1

Left(k, c) == (k - 1) * (N - 1) + Ahead(k, c) - (IF k = N THEN 1 ELSE 0)

BypassInv ==
  /\ passed \in [IDs -> Nat]
  /\ \A i \in IDs : work[i] # "due" => passed[i] = 0
  /\ \A k \in 1 .. Len(order) : work[order[k]] = "due" =>
       passed[order[k]] + Left(k, workCursor) < N * (N - 1)

(***************************************************************************)
(* Counting.                                                               *)
(***************************************************************************)
LEMMA OnceRound ==
  ASSUME NEW n \in Nat \ {0}, NEW c \in 0 .. n - 1, NEW o \in 0 .. n - 1
  PROVE  /\ (c + o) % n = IF c + o < n THEN c + o ELSE c + o - n
         /\ (c + 1) % n = IF c + 1 < n THEN c + 1 ELSE 0
OBVIOUS

LEMMA Rounds ==
  ASSUME NEW n \in Nat \ {0}, NEW a \in Nat
  PROVE  a * n \in Nat /\ (a + 1) * n = a * n + n
OBVIOUS

LEMMA FewerRounds ==
  ASSUME NEW n \in Nat \ {0}, NEW a \in Nat, NEW b \in Nat, a <= b
  PROVE  a * n <= b * n
OBVIOUS

LEMMA LeftBound ==
  ASSUME N \in Nat, N > 1, NEW k \in 1 .. N, NEW c \in 0 .. N - 1
  PROVE  Left(k, c) \in Nat /\ Left(k, c) < N * (N - 1)
<1> DEFINE n == N - 1
<1>1. n \in Nat \ {0} /\ N = n + 1
  OBVIOUS
<1>2. N * (N - 1) = n * n + n /\ n * n \in Nat
  BY <1>1, Rounds
<1>3. (k - 1) * n \in Nat
  BY <1>1, Rounds
<1>4. k # N => (k - 1) * n <= n * n - n
  <2>1. n - 1 \in Nat /\ n = (n - 1) + 1
    BY <1>1
  <2>2. n * n = (n - 1) * n + n
    BY <1>1, <2>1, Rounds
  <2>3. k # N => (k - 1) * n <= (n - 1) * n
    BY <1>1, <2>1, FewerRounds
  <2> QED
    BY <1>1, <1>2, <1>3, <2>2, <2>3
<1>5. Ahead(k, c) \in 0 .. n /\ (k = N => Ahead(k, c) <= n)
  BY <1>1 DEF Ahead
<1>6. Left(k, c) = (k - 1) * n + Ahead(k, c) - (IF k = N THEN 1 ELSE 0)
  BY DEF Left
<1>7. CASE k = N
  <2>1. (k - 1) * n = n * n /\ n * n >= 1
    <3>1. k - 1 = n
      BY <1>1, <1>7
    <3>2. 1 * n <= n * n /\ 1 * n = n
      BY <1>1, FewerRounds
    <3> QED
      BY <1>1, <1>2, <3>1, <3>2
  <2> HIDE DEF n
  <2> QED
    BY <1>1, <1>2, <1>5, <1>6, <1>7, <2>1
<1>8. CASE k # N
  <2> HIDE DEF n
  <2> QED
    BY <1>1, <1>2, <1>3, <1>4, <1>5, <1>6, <1>8
<1> QED
  BY <1>7, <1>8

(***************************************************************************)
(* removeOrder: the cursor may skip the acquisition, but then it has moved *)
(* up; if it has not moved, it is not skipped.                             *)
(***************************************************************************)
LEMMA LeftAfterRemoval ==
  ASSUME N \in Nat, N > 1, NEW n \in 1 .. N, NEW k \in 1 .. n, NEW c \in 0 .. n - 1,
         NEW q \in 1 .. n, q # k
  PROVE  Left(IF k < q THEN k ELSE k - 1, IF c >= n - 1 THEN 0 ELSE c) <= Left(k, c)
<1> DEFINE d == IF c >= n - 1 THEN 0 ELSE c
<1>1. CASE k < q
  <2>1. Ahead(k, d) <= Ahead(k, c) /\ k # N /\ Ahead(k, d) \in Int /\ Ahead(k, c) \in Int
    BY <1>1 DEF Ahead
  <2>2. (k - 1) * (N - 1) \in Nat
    BY Rounds
  <2> QED
    BY <1>1, <2>1, <2>2 DEF Left
<1>2. CASE k > q
  <2>1. (k - 1) * (N - 1) = (k - 2) * (N - 1) + (N - 1) /\ (k - 2) * (N - 1) \in Nat
    <3>1. k - 2 \in Nat /\ k - 1 = (k - 2) + 1 /\ N - 1 \in Nat \ {0}
      BY <1>2
    <3> QED
      BY <3>1, Rounds
  <2>2. /\ Ahead(k - 1, d) \in Int /\ Ahead(k, c) \in Int
        /\ Ahead(k - 1, d) <= Ahead(k, c) + (N - 1) - (IF k = N THEN 1 ELSE 0)
    BY <1>2 DEF Ahead
  <2>3. Left(k - 1, d) = (k - 2) * (N - 1) + Ahead(k - 1, d)
    <3>1. k - 1 - 1 = k - 2 /\ k - 1 # N
      OBVIOUS
    <3> QED
      BY <2>1, <2>2, <3>1 DEF Left
  <2>4. Left(k, c) = (k - 1) * (N - 1) + Ahead(k, c) - (IF k = N THEN 1 ELSE 0)
    BY DEF Left
  <2> DEFINE M == (k - 2) * (N - 1)
             L == (k - 1) * (N - 1)
  <2>5. M \in Nat /\ L = M + (N - 1)
    BY <2>1
  <2> HIDE DEF M, L
  <2>6. Left(k - 1, d) <= Left(k, c)
    BY <2>2, <2>3, <2>4, <2>5 DEF M, L
  <2> QED
    BY <1>2, <2>6
<1> QED
  BY <1>1, <1>2

(***************************************************************************)
(* nextWork: a turn of another acquisition takes the cursor nearer.        *)
(***************************************************************************)
LEMMA LeftAfterTurn ==
  ASSUME N \in Nat, N > 1, NEW n \in 1 .. N, NEW k \in 1 .. n, NEW c \in 0 .. n - 1,
         NEW o \in 0 .. n - 1,
         \A nearer \in 0 .. o : ((c + nearer) % n) + 1 # k
  PROVE  (((c + o) % n) + 1) % n \in 0 .. n - 1 /\ Left(k, (((c + o) % n) + 1) % n) < Left(k, c)
<1> DEFINE f == IF c < k THEN k - 1 - c ELSE n - c + k - 1
           x == (c + o) % n
           d == (x + 1) % n
<1>1. f \in 0 .. n - 1 /\ f = IF c < k THEN k - 1 - c ELSE n - c + k - 1
  OBVIOUS
<1> HIDE DEF f
<1>2. ((c + f) % n) + 1 = k
  <2>1. (c + f) % n = IF c + f < n THEN c + f ELSE c + f - n
    BY <1>1, OnceRound
  <2> QED
    BY <1>1, <2>1
<1>3. o < f
  <2>1. f \in 0 .. o => ((c + f) % n) + 1 # k
    OBVIOUS
  <2> QED
    BY <1>1, <1>2, <2>1
<1>4. x = (IF c + o < n THEN c + o ELSE c + o - n) /\ x \in 0 .. n - 1
  <2>1. (c + o) % n = IF c + o < n THEN c + o ELSE c + o - n
    BY OnceRound
  <2> QED
    BY <2>1
<1> HIDE DEF x
<1>5. d = IF x + 1 < n THEN x + 1 ELSE 0
  BY <1>4, OnceRound
<1> HIDE DEF d
<1>6. d \in 0 .. n - 1 /\ Ahead(k, d) < Ahead(k, c) /\ Ahead(k, d) \in Int /\ Ahead(k, c) \in Int
  BY <1>1, <1>3, <1>4, <1>5 DEF Ahead
<1>7. (k - 1) * (N - 1) \in Nat
  BY Rounds
<1>8. Left(k, d) < Left(k, c)
  BY <1>6, <1>7 DEF Left
<1> QED
  BY <1>6, <1>8 DEF d, x

(***************************************************************************)
(* What a step may do to the list: nothing, give a turn, remove one        *)
(* acquisition or append one.                                              *)
(***************************************************************************)
LEMMA ListSteps ==
  ASSUME [Next]_vars
  PROVE  \/ UNCHANGED <<order, workCursor>>
         \/ \E j \in IDs : AcquireTurn(j)
         \/ \E j \in IDs : RemoveOrder(j)
         \/ \E j \in IDs : /\ work[j] = "absent" /\ order' = Append(order, j)
                           /\ UNCHANGED workCursor
<1>1. CASE \E i \in IDs : Answered(i) \/ Discover(i)
  BY <1>1 DEF Answered, Discover
<1>2. CASE \/ \E i \in IDs : Expire(i) \/ BackoffOver(i)
           \/ Advertise \/ ReconcileTurn \/ Reconciled \/ RootHeard \/ JobDue \/ RootDue
           \/ Busy \/ Quiet \/ UNCHANGED vars
  BY <1>2 DEF Expire, BackoffOver, Advertise, ReconcileTurn, Reconciled, RootHeard, JobDue,
              RootDue, Busy, Quiet, vars, acquisitions
<1> QED
  BY <1>1, <1>2 DEF Next, WorkTurn, Between

\* positions and the cursor are within the list
LEMMA Positions ==
  ASSUME TurnInv, NEW k \in 1 .. Len(order)
  PROVE  /\ N \in Nat /\ Len(order) \in 1 .. N /\ k \in 1 .. N
         /\ workCursor \in 0 .. Len(order) - 1 /\ workCursor \in 0 .. N - 1
         /\ order[k] \in IDs
<1>1. order \in Seq(IDs) /\ IsInjective(order) /\ workCursor \in Nat
  BY LengthBound, SchedulerAssumption DEF TurnInv, TypeOK
<1>2. N \in Nat /\ Len(order) <= N /\ Len(order) \in Nat /\ order[k] \in IDs
  BY <1>1, LengthBound, LenProperties, ElementOfSeq, SchedulerAssumption DEF N
<1>3. workCursor = 0 \/ workCursor < Len(order)
  BY DEF TurnInv, OrderMatchesTable
<1> QED
  BY <1>1, <1>2, <1>3

(***************************************************************************)
(* An acquisition that is due before and after a step: what it was passed  *)
(* over and can still be passed over does not grow.                        *)
(***************************************************************************)
LEMMA TurnPasses ==
  ASSUME TurnInv, N > 1, NEW j \in IDs, AcquireTurn(j), NEW k \in 1 .. Len(order),
         work[order[k]] = "due", work'[order[k]] = "due"
  PROVE  order' = order /\ Left(k, workCursor') < Left(k, workCursor)
<1> DEFINE n == Len(order)
<1>1. /\ N \in Nat /\ n \in 1 .. N /\ workCursor \in 0 .. n - 1 /\ order[k] \in IDs
  BY Positions
<1>2. order[k] # j
  BY <1>1 DEF AcquireTurn, TurnInv, TypeOK
<1>3. PICK o \in 0 .. n - 1 :
        /\ order[Position(o) + 1] = j
        /\ \A nearer \in 0 .. o - 1 : ~Ready(order[Position(nearer) + 1])
        /\ workCursor' = (Position(o) + 1) % n
  BY DEF AcquireTurn, NextWork
<1>4. Ready(order[k])
  BY DEF Ready
<1>5. \A nearer \in 0 .. o : Position(nearer) + 1 # k
  <2> SUFFICES ASSUME NEW nearer \in 0 .. o PROVE Position(nearer) + 1 # k
    OBVIOUS
  <2>1. CASE nearer = o
    BY <1>2, <1>3, <2>1
  <2>2. CASE nearer # o
    <3>1. nearer \in 0 .. o - 1
      BY <1>1, <1>3, <2>2
    <3> QED
      BY <1>3, <1>4, <3>1
  <2> QED
    BY <2>1, <2>2
<1>6. /\ \A nearer \in 0 .. o : ((workCursor + nearer) % n) + 1 # k
      /\ workCursor' = (((workCursor + o) % n) + 1) % n
  BY <1>3, <1>5 DEF Position
<1> HIDE DEF n
<1>7. k \in 1 .. n
  BY DEF n
<1>8. Left(k, (((workCursor + o) % n) + 1) % n) < Left(k, workCursor)
  BY <1>1, <1>3, <1>6, <1>7, LeftAfterTurn
<1> QED
  BY <1>6, <1>8 DEF AcquireTurn

LEMMA RemovalPasses ==
  ASSUME TurnInv, N > 1, NEW j \in IDs, RemoveOrder(j), NEW k \in 1 .. Len(order'),
         work'[order'[k]] = "due"
  PROVE  \E l \in 1 .. Len(order) : /\ order[l] = order'[k]
                                    /\ Left(k, workCursor') <= Left(l, workCursor)
<1> DEFINE n == Len(order)
<1>1. order \in Seq(IDs) /\ n \in Nat /\ DOMAIN order = 1 .. n /\ IsInjective(order)
  BY LenProperties DEF TurnInv, TypeOK
<1>2. PICK q \in 1 .. n :
        /\ order[q] = j /\ order' = RemoveAt(order, q)
        /\ workCursor' = IF workCursor >= Len(order') THEN 0 ELSE workCursor
  BY <1>1 DEF RemoveOrder
<1>3. /\ Len(order') = n - 1
      /\ \A i \in 1 .. n - 1 : order'[i] = IF i < q THEN order[i] ELSE order[i + 1]
  BY <1>1, <1>2, RemoveAtProperties
<1> DEFINE l == IF k < q THEN k ELSE k + 1
<1>4. l \in 1 .. n /\ l # q /\ order'[k] = order[l] /\ k = IF l < q THEN l ELSE l - 1
  BY <1>1, <1>2, <1>3
<1>5. N \in Nat /\ n \in 1 .. N /\ workCursor \in 0 .. n - 1
  BY <1>4, Positions
<1>6. workCursor' = IF workCursor >= n - 1 THEN 0 ELSE workCursor
  BY <1>2, <1>3
<1> HIDE DEF n, l
<1>7. Left(IF l < q THEN l ELSE l - 1, IF workCursor >= n - 1 THEN 0 ELSE workCursor)
        <= Left(l, workCursor)
  BY <1>2, <1>4, <1>5, LeftAfterRemoval
<1>8. Left(k, workCursor') <= Left(l, workCursor)
  BY <1>4, <1>6, <1>7
<1> QED
  BY <1>4, <1>8 DEF n

LEMMA PositionsAfter ==
  ASSUME TurnInv', NEW k \in 1 .. Len(order')
  PROVE  N \in Nat /\ k \in 1 .. N /\ workCursor' \in 0 .. N - 1 /\ order'[k] \in IDs
<1>1. order' \in Seq(IDs) /\ IsInjective(order') /\ workCursor' \in Nat
  BY LengthBound, SchedulerAssumption DEF TurnInv, TypeOK
<1>2. N \in Nat /\ Len(order') <= N /\ Len(order') \in Nat /\ order'[k] \in IDs
  BY <1>1, LengthBound, LenProperties, ElementOfSeq, SchedulerAssumption DEF N
<1>3. workCursor' = 0 \/ workCursor' < Len(order')
  BY DEF TurnInv, OrderMatchesTable
<1> QED
  BY <1>1, <1>2, <1>3

LEMMA BypassStep ==
  TurnInv /\ TurnInv' /\ N > 1 /\ BypassInv /\ [MCNext]_<<vars, passed>> => BypassInv'
<1> SUFFICES ASSUME TurnInv, TurnInv', N > 1, BypassInv, [MCNext]_<<vars, passed>>
             PROVE  BypassInv'
  OBVIOUS
<1>1. CASE UNCHANGED <<vars, passed>>
  BY <1>1 DEF BypassInv, vars, acquisitions
<1>2. CASE MCNext
  <2>1. /\ [Next]_vars
        /\ passed' = [i \in IDs |->
             IF work[i] # "due" \/ work'[i] # "due" THEN 0
             ELSE IF (\E j \in IDs : AcquireTurn(j)) /\ passed[i] < Cap THEN passed[i] + 1
             ELSE passed[i]]
    BY <1>2 DEF MCNext
  <2>2. /\ passed' \in [IDs -> Nat]
        /\ \A i \in IDs : work'[i] # "due" => passed'[i] = 0
    BY <2>1 DEF BypassInv
  <2>3. ASSUME NEW k \in 1 .. Len(order'), work'[order'[k]] = "due"
        PROVE  passed'[order'[k]] + Left(k, workCursor') < N * (N - 1)
    <3> DEFINE i == order'[k]
    <3>1. i \in IDs /\ N \in Nat /\ Left(k, workCursor') \in Nat /\ Left(k, workCursor') < N * (N - 1)
      <4>1. /\ N \in Nat /\ k \in 1 .. N /\ workCursor' \in 0 .. N - 1 /\ i \in IDs
        BY PositionsAfter
      <4> QED
        BY <4>1, LeftBound
    <3>2. CASE work[i] # "due"
      BY <2>1, <3>1, <3>2
    <3>3. ASSUME work[i] = "due", NEW l \in 1 .. Len(order), order[l] = i
          PROVE  passed[i] \in Nat /\ Left(l, workCursor) \in Nat
                 /\ passed[i] + Left(l, workCursor) < N * (N - 1)
      <4>1. /\ N \in Nat /\ l \in 1 .. N /\ workCursor \in 0 .. N - 1
        BY Positions
      <4>2. Left(l, workCursor) \in Nat
        BY <4>1, LeftBound
      <4> QED
        BY <3>1, <3>3, <4>2 DEF BypassInv
    <3>4. CASE work[i] = "due" /\ \E j \in IDs : AcquireTurn(j)
      <4>1. order' = order
        BY <3>4 DEF AcquireTurn
      <4>2. Left(k, workCursor') < Left(k, workCursor)
        BY <2>3, <3>4, <4>1, TurnPasses
      <4>3. passed[i] \in Nat /\ passed'[i] <= passed[i] + 1 /\ passed'[i] \in Nat
        BY <2>1, <2>2, <3>1 DEF BypassInv
      <4>4. Left(k, workCursor) \in Nat /\ passed[i] + Left(k, workCursor) < N * (N - 1)
        BY <3>3, <3>4, <4>1
      <4> QED
        BY <3>1, <4>2, <4>3, <4>4
    <3>5. CASE work[i] = "due" /\ ~\E j \in IDs : AcquireTurn(j)
      <4>1. passed'[i] = passed[i]
        BY <2>1, <2>3, <3>1, <3>5
      <4>2. \E l \in 1 .. Len(order) : /\ order[l] = i
                                       /\ Left(k, workCursor') <= Left(l, workCursor)
        <5>1. CASE UNCHANGED <<order, workCursor>>
          <6>1. k \in 1 .. Len(order) /\ order[k] = i /\ Left(k, workCursor') = Left(k, workCursor)
            BY <5>1
          <6> QED
            BY <3>1, <6>1
        <5>2. ASSUME NEW j \in IDs, RemoveOrder(j)
              PROVE  \E l \in 1 .. Len(order) : /\ order[l] = i
                                                /\ Left(k, workCursor') <= Left(l, workCursor)
          BY <2>3, <5>2, RemovalPasses
        <5>3. ASSUME NEW j \in IDs, work[j] = "absent", order' = Append(order, j),
                     UNCHANGED workCursor
              PROVE  \E l \in 1 .. Len(order) : /\ order[l] = i
                                                /\ Left(k, workCursor') <= Left(l, workCursor)
          <6>1. /\ Len(order) \in Nat /\ Len(order') = Len(order) + 1
                /\ order'[Len(order) + 1] = j
                /\ \A l \in 1 .. Len(order) : order'[l] = order[l]
            BY <5>3, AppendProperties, LenProperties DEF TurnInv, TypeOK
          <6>2. i # j
            BY <3>5, <5>3
          <6>3. k \in 1 .. Len(order) /\ order[k] = i
            BY <6>1, <6>2
          <6>4. Left(k, workCursor') = Left(k, workCursor)
            BY <5>3
          <6> QED
            BY <3>1, <6>3, <6>4
        <5> QED
          BY <2>1, <3>5, <5>1, <5>2, <5>3, ListSteps
      <4>3. PICK l \in 1 .. Len(order) :
              order[l] = i /\ Left(k, workCursor') <= Left(l, workCursor)
        BY <4>2
      <4>4. passed[i] \in Nat /\ Left(l, workCursor) \in Nat
            /\ passed[i] + Left(l, workCursor) < N * (N - 1)
        BY <3>3, <3>5, <4>3
      <4> QED
        BY <3>1, <4>1, <4>3, <4>4
    <3> QED
      BY <3>2, <3>4, <3>5
  <2> QED
    BY <2>2, <2>3 DEF BypassInv, N
<1> QED
  BY <1>1, <1>2

(***************************************************************************)
(* However acquisitions come and go, and whatever the cursor skips, one    *)
(* that is due is passed over fewer than N (N - 1) times.                  *)
(***************************************************************************)
THEOREM BypassBounded == Cardinality(IDs) > 1 /\ MCSpec => []BoundedBypass
<1> SUFFICES ASSUME Cardinality(IDs) > 1 PROVE MCSpec => []BoundedBypass
  OBVIOUS
<1>1. N > 1
  BY DEF N
<1>2. MCInit /\ TurnInv => BypassInv
  <2> SUFFICES ASSUME MCInit, TurnInv PROVE BypassInv
    OBVIOUS
  <2>1. \A i \in IDs : work[i] # "due"
    BY DEF MCInit, Init
  <2>2. \A k \in 1 .. Len(order) : order[k] \in IDs
    BY Positions
  <2> QED
    BY <2>1, <2>2 DEF MCInit, BypassInv
<1>3. TurnInv /\ BypassInv => BoundedBypass
  <2> SUFFICES ASSUME TurnInv, BypassInv, NEW i \in IDs
               PROVE  passed[i] < N * (N - 1)
    BY DEF BoundedBypass, N
  <2>1. N \in Nat
    BY SchedulerAssumption, FS_CardinalityType DEF N
  <2>2. CASE work[i] # "due"
    <3>1. (N - 1) * N \in Nat /\ 1 * N <= (N - 1) * N /\ N * (N - 1) = (N - 1) * N
      BY <1>1, <2>1, Rounds, FewerRounds
    <3>2. passed[i] = 0
      BY <2>2 DEF BypassInv
    <3> QED
      BY <1>1, <2>1, <3>1, <3>2
  <2>3. CASE work[i] = "due"
    <3>1. PICK k \in 1 .. Len(order) : order[k] = i
      BY <2>3, LenProperties DEF TurnInv, TypeOK, OrderMatchesTable, Range
    <3>2. Left(k, workCursor) \in Nat
      BY <1>1, Positions, LeftBound
    <3>3. passed[i] \in Nat /\ passed[i] + Left(k, workCursor) < N * (N - 1)
      BY <2>3, <3>1 DEF BypassInv
    <3>4. N * (N - 1) \in Int
      BY <2>1
    <3> QED
      BY <3>2, <3>3, <3>4
  <2> QED
    BY <2>2, <2>3
<1>4. MCSpec => Spec
  <2>1. MCInit => Init
    BY DEF MCInit
  <2>2. [MCNext]_<<vars, passed>> => [Next]_vars
    BY DEF MCNext
  <2> QED
    BY <2>1, <2>2, PTL DEF MCSpec, Spec
<1> QED
  BY <1>1, <1>2, <1>3, <1>4, TurnInvariant, BypassStep, PTL DEF MCSpec

=============================================================================
