--------------------------- MODULE ChunkBatchProofs ---------------------------
(***************************************************************************)
(* Proofs about the requests for chunks, for every number of chunks, every *)
(* width of a window and every bound on a batch: a request says just what  *)
(* is wanted, no exchange is left open, and the windows take turns.        *)
(***************************************************************************)
EXTENDS MCChunkBatch, CommonLemmas, FiniteSetTheorems

-----------------------------------------------------------------------------
LEMMA Numbers ==
  /\ ChunkCount \in Nat \ {0} /\ Window \in Nat \ {0}
  /\ MaxChunkBatch \in Nat \ {0} /\ MaxFaults \in Nat
BY BatchAssumption

(***************************************************************************)
(* Arithmetic of windows, and of offsets taken round the end.              *)
(***************************************************************************)
LEMMA WindowBounds ==
  ASSUME NEW c \in Nat
  PROVE  /\ WindowOf(c) \in Nat
         /\ WindowOf(c) * Window <= c /\ c < WindowOf(c) * Window + Window
BY Numbers DEF WindowOf

LEMMA WindowMonotone ==
  ASSUME NEW c \in Nat, NEW d \in Nat, c <= d
  PROVE  WindowOf(c) <= WindowOf(d)
<1> DEFINE q == WindowOf(c)  r == WindowOf(d)
<1>1. q \in Nat /\ r \in Nat /\ q * Window <= c /\ d < r * Window + Window
  BY WindowBounds
<1>2. SUFFICES ASSUME r + 1 <= q PROVE FALSE
  BY <1>1
<1> HIDE DEF q, r
<1>3. (r + 1) * Window <= q * Window
  BY <1>1, <1>2, Numbers
<1> QED
  BY <1>1, <1>3, Numbers

LEMMA WindowOfBase ==
  ASSUME NEW w \in Nat
  PROVE  (w * Window) \div Window = w
BY Numbers

LEMMA RoundTheEnd ==
  ASSUME cursor \in 0 .. ChunkCount, NEW o \in 0 .. ChunkCount - 1
  PROVE  At(o) = IF cursor + o < ChunkCount THEN cursor + o ELSE cursor + o - ChunkCount
<1> DEFINE x == cursor + o
<1>1. x \in Nat /\ ChunkCount \in Nat \ {0} /\ x < 2 * ChunkCount
  BY Numbers
<1>2. ASSUME x < ChunkCount PROVE x % ChunkCount = x
  BY <1>1, <1>2
<1>3. ASSUME ~(x < ChunkCount) PROVE x % ChunkCount = x - ChunkCount
  <2>1. x - ChunkCount \in 0 .. ChunkCount - 1 /\ x = ChunkCount * 1 + (x - ChunkCount)
    BY <1>1, <1>3
  <2> HIDE DEF x
  <2> QED
    BY <1>1, <2>1, Z3
<1> QED
  BY <1>1, <1>2, <1>3, Numbers DEF At

LEMMA ChunksFinite == Chunks \subseteq Nat /\ IsFiniteSet(Chunks)
BY Numbers, FS_Interval DEF Chunks

LEMMA WindowsBound ==
  /\ Windows \in Nat /\ Windows >= 1
  /\ \A c \in Chunks : WindowOf(c) \in Nat /\ WindowOf(c) < Windows
<1>1. ChunkCount - 1 \in Nat
  BY Numbers
<1>2. \A c \in Chunks : c \in Nat /\ c <= ChunkCount - 1
  BY Numbers DEF Chunks
<1> QED
  BY <1>1, <1>2, WindowBounds, WindowMonotone DEF Windows

(***************************************************************************)
(* The search goes forward to the end and only then round to the start.    *)
(***************************************************************************)
LEMMA SearchOrder ==
  ASSUME cursor \in 0 .. ChunkCount, NEW c, IsNextMissing(c)
  PROVE  /\ c \in Missing
         /\ \/ /\ cursor <= c /\ \A d \in Missing : cursor <= d => c <= d
            \/ /\ c < cursor /\ \A d \in Missing : c <= d /\ d < cursor
<1>1. PICK offset \in 0 .. ChunkCount - 1 :
        /\ c = At(offset) /\ c \in Missing
        /\ \A o \in 0 .. offset - 1 : At(o) \notin Missing
  BY DEF IsNextMissing
<1>2. \A d \in Missing : d \in 0 .. ChunkCount - 1
  BY DEF Missing, Chunks
<1>3. ASSUME NEW d \in Missing, cursor <= d, d - cursor < offset PROVE FALSE
  <2>1. d - cursor \in 0 .. offset - 1 /\ d - cursor \in 0 .. ChunkCount - 1
    BY <1>1, <1>2, <1>3, Numbers
  <2>2. At(d - cursor) = d
    BY <2>1, <1>2, <1>3, RoundTheEnd, Numbers
  <2> QED
    BY <1>1, <1>3, <2>1, <2>2
<1>4. CASE cursor + offset < ChunkCount
  <2>1. c = cursor + offset
    BY <1>1, <1>4, RoundTheEnd
  <2> QED
    BY <1>1, <1>2, <1>3, <2>1, Numbers
<1>5. CASE ~(cursor + offset < ChunkCount)
  <2>1. c = cursor + offset - ChunkCount
    BY <1>1, <1>5, RoundTheEnd
  <2>2. ASSUME NEW d \in Missing PROVE c <= d /\ d < cursor
    <3>1. d < cursor
      BY <1>1, <1>2, <1>3, <1>5, Numbers
    <3>2. SUFFICES ASSUME d < c PROVE FALSE
      BY <1>2, <2>1, <3>1, Numbers
    <3>3. /\ ChunkCount - cursor + d \in 0 .. offset - 1
          /\ ChunkCount - cursor + d \in 0 .. ChunkCount - 1
      BY <1>1, <1>2, <2>1, <3>1, <3>2, Numbers
    <3>4. At(ChunkCount - cursor + d) = d
      BY <1>2, <3>3, RoundTheEnd, Numbers
    <3> QED
      BY <1>1, <3>3, <3>4
  <2> QED
    BY <1>1, <2>1, <2>2, Numbers
<1> QED
  BY <1>4, <1>5

-----------------------------------------------------------------------------
(***************************************************************************)
(* The n least of a finite set of chunks: with one they have every smaller *)
(* one, they are no more than n, and some if there are any.                *)
(***************************************************************************)
LEMMA GreatestElement ==
  ASSUME NEW T \in SUBSET Chunks, T # {}
  PROVE  \E c \in T : IsLast(c, T)
<1> DEFINE U == {ChunkCount - c : c \in T}
<1>1. \A c \in T : ChunkCount - c \in Nat /\ c \in Int
  BY Numbers DEF Chunks
<1>5. U \in SUBSET Nat /\ U # {} /\ T \subseteq Int
  BY <1>1
<1>2. PICK u \in U : \A v \in U : ~(v < u)
  BY <1>5, LeastElement
<1>3. PICK c \in T : u = ChunkCount - c
  BY <1>2
<1>4. \A d \in T : ~(ChunkCount - d < ChunkCount - c)
  BY <1>2, <1>3
<1> QED
  BY <1>1, <1>3, <1>4, Numbers DEF IsLast

LEMMA SmallerOnes ==
  ASSUME NEW S \in SUBSET Chunks, NEW n \in Nat
  PROVE  /\ Least(n, S) \subseteq S
         /\ \A c \in Least(n, S), d \in S : d < c => d \in Least(n, S)
<1>1. S \subseteq Nat /\ IsFiniteSet(S)
  BY ChunksFinite, FS_Subset
<1>2. ASSUME NEW c \in Least(n, S), NEW d \in S, d < c PROVE d \in Least(n, S)
  <2> DEFINE C == {e \in S : e < c}  D == {e \in S : e < d}
  <2>0. c \in S /\ \A e \in S : e < d => e < c
    BY <1>1, <1>2 DEF Least
  <2>1. D \subseteq C /\ IsFiniteSet(C) /\ Cardinality(C) < n
    BY <1>1, <1>2, <2>0, FS_Subset DEF Least
  <2>2. Cardinality(D) <= Cardinality(C) /\ Cardinality(D) \in Nat /\ Cardinality(C) \in Nat
    BY <2>1, FS_Subset, FS_CardinalityType
  <2> QED
    BY <2>1, <2>2 DEF Least
<1> QED
  BY <1>2 DEF Least

LEMMA NoMoreThan ==
  ASSUME NEW S \in SUBSET Chunks, NEW n \in Nat
  PROVE  IsFiniteSet(Least(n, S)) /\ Cardinality(Least(n, S)) <= n
<1> DEFINE L == Least(n, S)
<1>1. IsFiniteSet(S) /\ S \subseteq Nat /\ L \subseteq S
  BY ChunksFinite, FS_Subset, SmallerOnes
<1>2. IsFiniteSet(L)
  BY <1>1, FS_Subset
<1>3. CASE L = {}
  BY <1>2, <1>3, FS_EmptySet
<1>4. CASE L # {}
  <2>1. PICK m \in L : IsLast(m, L)
    BY <1>1, <1>4, GreatestElement
  <2> DEFINE D == {d \in S : d < m}
  <2>2. IsFiniteSet(D) /\ Cardinality(D) < n /\ Cardinality(D) \in Nat /\ m \notin D
    BY <1>1, <2>1, FS_Subset, FS_CardinalityType DEF Least
  <2>3. IsFiniteSet(D \cup {m}) /\ Cardinality(D \cup {m}) = Cardinality(D) + 1
    BY <2>2, FS_AddElement
  <2>4. L \subseteq D \cup {m}
    <3>1. \A d \in L : d \in S /\ d \in Nat /\ m \in Nat /\ d <= m
      BY <1>1, <2>1 DEF IsLast
    <3> QED
      BY <3>1
  <2>5. Cardinality(L) <= Cardinality(D \cup {m}) /\ Cardinality(L) \in Nat
    BY <1>2, <2>3, <2>4, FS_Subset, FS_CardinalityType
  <2> QED
    BY <1>2, <2>2, <2>3, <2>5
<1> QED
  BY <1>3, <1>4

LEMMA SomeIfAny ==
  ASSUME NEW S \in SUBSET Chunks, S # {}, NEW n \in Nat \ {0}
  PROVE  Least(n, S) # {}
<1>1. PICK c \in S : \A d \in S : ~(d < c)
  BY ChunksFinite, LeastElement
<1>2. Cardinality({d \in S : d < c}) = 0
  BY <1>1, FS_EmptySet
<1> QED
  BY <1>1, <1>2 DEF Least

LEMMA LeastOfLeast ==
  ASSUME NEW S \in SUBSET Chunks, NEW m \in Nat, NEW n \in 0 .. m
  PROVE  Least(n, Least(m, S)) = Least(n, S)
<1>1. S \subseteq Nat /\ IsFiniteSet(S) /\ Least(m, S) \subseteq S
  BY ChunksFinite, FS_Subset, SmallerOnes
<1>2. ASSUME NEW c \in Least(m, S)
      PROVE  {d \in Least(m, S) : d < c} = {d \in S : d < c}
  BY <1>1, <1>2, SmallerOnes
<1>3. Least(n, S) \subseteq Least(m, S)
  <2> SUFFICES ASSUME NEW c \in S, Cardinality({d \in S : d < c}) < n
               PROVE  Cardinality({d \in S : d < c}) < m
    BY DEF Least
  <2>1. IsFiniteSet({d \in S : d < c})
    BY <1>1, FS_Subset
  <2> QED
    BY <2>1, FS_CardinalityType
<1>4. \A c : c \in Least(n, Least(m, S)) <=>
               c \in Least(m, S) /\ Cardinality({d \in Least(m, S) : d < c}) < n
  BY DEF Least
<1>5. \A c : c \in Least(n, S) <=> c \in S /\ Cardinality({d \in S : d < c}) < n
  BY DEF Least
<1>6. \A c : c \in Least(n, Least(m, S)) <=> c \in Least(n, S)
  BY <1>1, <1>2, <1>3, <1>4, <1>5
<1> QED
  BY <1>6

-----------------------------------------------------------------------------
(***************************************************************************)
(* One batch: chunks of one window, missing, and with each one every       *)
(* missing one before it in the window.                                    *)
(***************************************************************************)
LEMMA BatchFacts ==
  ASSUME TypeOK, NEW first \in Missing, NEW limit \in 1 .. MaxChunkBatch,
         NEW batch, batch = Least(limit, MissingBatch(WindowOf(first)))
  PROVE  /\ batch # {} /\ batch \subseteq Missing \cap InWindow(WindowOf(first))
         /\ \A c \in batch, d \in Missing \cap InWindow(WindowOf(first)) :
              d < c => d \in batch
         /\ IsFiniteSet(batch) /\ Cardinality(batch) <= MaxChunkBatch
<1> DEFINE S == Missing \cap InWindow(WindowOf(first))
<1>1. S \in SUBSET Chunks /\ first \in S
  BY DEF Missing, InWindow
<1>2. batch = Least(limit, S)
  BY <1>1, LeastOfLeast, Numbers DEF MissingBatch
<1>3. IsFiniteSet(batch) /\ Cardinality(batch) <= limit /\ Cardinality(batch) \in Nat
  BY <1>1, <1>2, NoMoreThan, FS_CardinalityType, Numbers
<1>4. Cardinality(batch) <= MaxChunkBatch
  BY <1>3, Numbers
<1>5. limit \in Nat \ {0}
  BY Numbers
<1>6. /\ batch # {} /\ batch \subseteq S
      /\ \A c \in batch, d \in S : d < c => d \in batch
  BY <1>1, <1>2, <1>5, SmallerOnes, SomeIfAny
<1> QED
  BY <1>3, <1>4, <1>6

LEMMA EncodedFacts ==
  ASSUME NEW w \in Nat, NEW batch \in SUBSET InWindow(w), batch # {}
  PROVE  /\ Encoded(w, batch) \in [base : Nat, bitmap : SUBSET (0 .. Window - 1)]
         /\ Encoded(w, batch) # NoRequest
         /\ Encoded(w, batch).base \div Window = w
         /\ Decoded(Encoded(w, batch)) = batch
<1> DEFINE base == w * Window
<1>1. base \in Nat /\ base \div Window = w
  BY WindowOfBase, Numbers
<1>2. \A c \in batch : /\ c \in Nat /\ c - base \in 0 .. Window - 1
                       /\ base + (c - base) = c
  BY <1>1, ChunksFinite, WindowBounds, Numbers DEF InWindow
<1> HIDE DEF base
<1>3. Encoded(w, batch) = [base |-> base, bitmap |-> {c - base : c \in batch}]
  BY DEF Encoded, base
<1>4. {c - base : c \in batch} \subseteq 0 .. Window - 1 /\ {c - base : c \in batch} # {}
  BY <1>2
<1>5. Decoded(Encoded(w, batch)) = batch
  BY <1>2, <1>3 DEF Decoded
<1> DEFINE bitmap == {c - base : c \in batch}
<1> HIDE DEF bitmap
<1>6. /\ Encoded(w, batch) = [base |-> base, bitmap |-> bitmap]
      /\ bitmap \in SUBSET (0 .. Window - 1) /\ bitmap # {}
  BY <1>3, <1>4 DEF bitmap
<1>7. /\ Encoded(w, batch).base = base
      /\ Encoded(w, batch).bitmap = bitmap
  BY <1>6
<1>8. Encoded(w, batch) \in [base : Nat, bitmap : SUBSET (0 .. Window - 1)]
  BY <1>1, <1>6
<1>9. Encoded(w, batch) # NoRequest
  BY <1>6, <1>7 DEF NoRequest
<1>10. Encoded(w, batch).base \div Window = w
  BY <1>1, <1>7
<1> QED
  BY <1>5, <1>8, <1>9, <1>10

(***************************************************************************)
(* What a request leads to, in one place.                                  *)
(***************************************************************************)
LEMMA InitiateFacts ==
  ASSUME TypeOK, Initiate
  PROVE  \E first \in Missing, batch \in SUBSET Missing, last \in Missing :
           LET w == WindowOf(first)
           IN /\ IsNextMissing(first)
              /\ batch # {} /\ batch \subseteq InWindow(w)
              /\ Cardinality(batch) <= MaxChunkBatch
              /\ \A c \in batch, d \in Missing \cap InWindow(w) : d < c => d \in batch
              /\ IsLast(last, batch) /\ cursor' = last + 1
              /\ request' = Encoded(w, batch)
              /\ \/ waiting' = TRUE /\ wanted' = batch /\ faults' = faults
                 \/ waiting' = FALSE /\ wanted' = {} /\ faults < MaxFaults /\ faults' = faults + 1
<1>1. PICK first \in Missing, limit \in 1 .. MaxChunkBatch :
        LET w == WindowOf(first)
            batch == Least(limit, MissingBatch(w))
        IN /\ IsNextMissing(first)
           /\ BehindBatch(w, batch)
           /\ request' = Encoded(w, batch)
           /\ \/ waiting' = TRUE /\ wanted' = batch /\ UNCHANGED faults
              \/ Failed /\ OneMoreFault
  BY DEF Initiate
<1> DEFINE w == WindowOf(first)  batch == Least(limit, MissingBatch(w))
<1>2. /\ batch # {} /\ batch \subseteq Missing \cap InWindow(w)
      /\ \A c \in batch, d \in Missing \cap InWindow(w) : d < c => d \in batch
      /\ Cardinality(batch) <= MaxChunkBatch
  BY BatchFacts
<1>3. PICK last \in batch : IsLast(last, batch) /\ cursor' = last + 1
  BY <1>1 DEF BehindBatch
<1> HIDE DEF batch
<1>4. batch \in SUBSET Missing /\ last \in Missing
  BY <1>2, <1>3
<1>5. \/ waiting' = TRUE /\ wanted' = batch /\ faults' = faults
      \/ waiting' = FALSE /\ wanted' = {} /\ faults < MaxFaults /\ faults' = faults + 1
  BY <1>1 DEF batch, Failed, OneMoreFault
<1>6. IsNextMissing(first) /\ request' = Encoded(w, batch)
  BY <1>1 DEF batch
<1> HIDE DEF w
<1>7. /\ batch # {} /\ batch \subseteq InWindow(w)
      /\ Cardinality(batch) <= MaxChunkBatch
      /\ \A c \in batch, d \in Missing \cap InWindow(w) : d < c => d \in batch
      /\ IsLast(last, batch) /\ cursor' = last + 1
  BY <1>2, <1>3
<1> QED
  BY <1>4, <1>5, <1>6, <1>7 DEF w

-----------------------------------------------------------------------------
(***************************************************************************)
(* Inductive: a request that is still in the air has no answers yet, so    *)
(* nothing it asked for has been taken off what is wanted.                 *)
(***************************************************************************)
BatchInv ==
  /\ TypeOK
  /\ RequestMeansWanted
  /\ ExchangeOpen
  /\ request # NoRequest => answers = {}

LEMMA BatchInit == Init => BatchInv
<1> SUFFICES ASSUME Init PROVE BatchInv
  OBVIOUS
<1>1. NoRequest \in [base : Nat, bitmap : SUBSET (0 .. Window - 1)]
  BY DEF NoRequest
<1>2. 0 \in 0 .. ChunkCount /\ 0 \in 0 .. MaxFaults
  BY Numbers
<1>3. TypeOK
  BY <1>1, <1>2 DEF Init, TypeOK
<1> QED
  BY <1>3 DEF Init, BatchInv, RequestMeansWanted, ExchangeOpen

LEMMA InitiateBatch ==
  ASSUME BatchInv, Initiate
  PROVE  BatchInv'
<1>1. PICK first \in Missing, batch \in SUBSET Missing, last \in Missing :
        /\ batch # {} /\ batch \subseteq InWindow(WindowOf(first))
        /\ Cardinality(batch) <= MaxChunkBatch
        /\ IsLast(last, batch) /\ cursor' = last + 1
        /\ request' = Encoded(WindowOf(first), batch)
        /\ \/ waiting' = TRUE /\ wanted' = batch /\ faults' = faults
           \/ waiting' = FALSE /\ wanted' = {} /\ faults < MaxFaults /\ faults' = faults + 1
  BY InitiateFacts DEF BatchInv
<1> DEFINE w == WindowOf(first)
<1>2. w \in Nat /\ \A c \in Missing : c \in Nat /\ c + 1 \in 0 .. ChunkCount
  BY ChunksFinite, WindowBounds, Numbers DEF Missing, Chunks
<1> HIDE DEF w
<1>3. /\ request' \in [base : Nat, bitmap : SUBSET (0 .. Window - 1)]
      /\ request'.base \div Window = w /\ Decoded(request') = batch
  <2>1. batch \in SUBSET InWindow(w) /\ batch # {} /\ request' = Encoded(w, batch)
    BY <1>1 DEF w
  <2> QED
    BY <1>2, <2>1, EncodedFacts
<1>4. received' = received /\ answers' = {} /\ committed' = committed
  BY DEF Initiate
<1>5. Missing' = Missing
  BY <1>4 DEF Missing
<1>6. TypeOK'
  <2>1. faults' \in 0 .. MaxFaults /\ received' \subseteq Chunks /\ committed' \in BOOLEAN
    BY <1>1, <1>4, Numbers DEF BatchInv, TypeOK
  <2>2. waiting' \in BOOLEAN /\ wanted' \subseteq Chunks /\ answers' \subseteq Chunks
    BY <1>1, <1>4 DEF Missing
  <2> QED
    BY <1>1, <1>2, <1>3, <2>1, <2>2 DEF TypeOK
<1>7. RequestMeansWanted'
  <2>1. InWindow(w)' = InWindow(w)
    BY DEF InWindow
  <2>2. CASE waiting'
    <3>1. wanted' = batch
      BY <1>1, <2>2
    <3>2. /\ Decoded(request') = wanted' /\ Cardinality(wanted') <= MaxChunkBatch
          /\ wanted' \subseteq Missing' \cap InWindow(request'.base \div Window)
      BY <1>1, <1>3, <1>5, <3>1 DEF w
    <3> QED
      BY <3>2 DEF RequestMeansWanted, Decoded, InWindow
  <2> QED
    BY <2>2 DEF RequestMeansWanted
<1>8. ExchangeOpen'
  BY <1>1, <1>2, <1>5 DEF ExchangeOpen, IsLast
<1> QED
  BY <1>4, <1>6, <1>7, <1>8 DEF BatchInv

LEMMA ServeBatch ==
  ASSUME BatchInv, Serve
  PROVE  BatchInv'
<1>1. /\ answers' \subseteq Chunks /\ request' = NoRequest
      /\ UNCHANGED <<received, cursor, waiting, wanted, committed, faults>>
  BY DEF Serve, asking
<1>2. NoRequest \in [base : Nat, bitmap : SUBSET (0 .. Window - 1)]
  BY DEF NoRequest
<1> QED
  BY <1>1, <1>2 DEF BatchInv, TypeOK, RequestMeansWanted, ExchangeOpen, Missing

LEMMA AcceptBatch ==
  ASSUME BatchInv, NEW c \in Chunks, AcceptChunk(c)
  PROVE  BatchInv'
<1>1. /\ request' = request /\ request = NoRequest /\ c \in wanted
      /\ answers' = answers \ {c} /\ waiting
  BY DEF AcceptChunk, Takes, BatchInv
<1>2. CASE Accept(c)
  <2>1. /\ received' = received \cup {c} /\ wanted' = wanted \ {c}
        /\ waiting' = (wanted' # {}) /\ UNCHANGED <<cursor, committed, faults>>
    BY <1>2 DEF Accept
  <2>2. TypeOK'
    BY <1>1, <2>1 DEF BatchInv, TypeOK
  <2>3. ExchangeOpen'
    BY <1>1, <2>1 DEF BatchInv, ExchangeOpen, Missing
  <2> QED
    BY <1>1, <2>2, <2>3 DEF BatchInv, RequestMeansWanted
<1>3. CASE AcceptLast(c)
  BY <1>1, <1>3 DEF AcceptLast, Failed, BatchInv, TypeOK, ExchangeOpen, RequestMeansWanted
<1>4. CASE AcceptMismatch(c)
  <2>1. faults' \in 0 .. MaxFaults /\ received' \subseteq Chunks
    BY <1>4, Numbers DEF AcceptMismatch, OneMoreFault, BatchInv, TypeOK
  <2>2. /\ waiting' = FALSE /\ wanted' = {} /\ cursor' = cursor /\ committed' = committed
        /\ request' = request /\ answers' = answers \ {c}
    BY <1>1, <1>4 DEF AcceptMismatch, Failed
  <2> QED
    BY <1>1, <2>1, <2>2 DEF BatchInv, TypeOK, ExchangeOpen, RequestMeansWanted
<1>5. CASE NotStored
  <2>1. faults' \in 0 .. MaxFaults
    BY <1>5, Numbers DEF NotStored, OneMoreFault, BatchInv, TypeOK
  <2> QED
    BY <1>1, <1>5, <2>1
    DEF NotStored, asking, BatchInv, TypeOK, ExchangeOpen, RequestMeansWanted, Missing
<1> QED
  BY <1>2, <1>3, <1>4, <1>5 DEF AcceptChunk

LEMMA BatchNext == BatchInv /\ [Next]_vars => BatchInv'
<1> SUFFICES ASSUME BatchInv, [Next]_vars PROVE BatchInv'
  OBVIOUS
<1>1. CASE Timeout
  BY <1>1 DEF Timeout, Failed, BatchInv, TypeOK, ExchangeOpen, RequestMeansWanted
<1>2. CASE UNCHANGED vars
  BY <1>2 DEF vars, asking, BatchInv, TypeOK, ExchangeOpen, RequestMeansWanted,
     Missing, Decoded
<1> QED
  BY <1>1, <1>2, InitiateBatch, ServeBatch, AcceptBatch DEF Next

(***************************************************************************)
(* The inductive invariant of the requests holds throughout.               *)
(***************************************************************************)
THEOREM BatchInvariant == Spec => []BatchInv
<1> QED
  BY BatchInit, BatchNext, PTL DEF Spec

(***************************************************************************)
(* The cursor stays within the chunks, a bitmap within its window, also at *)
(* the last, shorter window (MissingBatch, EncodeChunkRequest).            *)
(***************************************************************************)
THEOREM BatchTypeOK == Spec => []TypeOK
<1>1. BatchInv => TypeOK
  BY DEF BatchInv
<1> QED
  BY <1>1, BatchInvariant, PTL

(***************************************************************************)
(* A request says by base and bitmap just what the node takes answers for  *)
(* (initiate, serveChunks).                                                *)
(***************************************************************************)
THEOREM RequestAlwaysMeansWanted == Spec => []RequestMeansWanted
<1>1. BatchInv => RequestMeansWanted
  BY DEF BatchInv
<1> QED
  BY <1>1, BatchInvariant, PTL

(***************************************************************************)
(* No exchange is left open with nothing to come (acceptChunk).            *)
(***************************************************************************)
THEOREM ExchangeAlwaysOpen == Spec => []ExchangeOpen
<1>1. BatchInv => ExchangeOpen
  BY DEF BatchInv
<1> QED
  BY <1>1, BatchInvariant, PTL

-----------------------------------------------------------------------------
(***************************************************************************)
(* The turns of the windows.  Ahead is how many windows further, going     *)
(* round, the watched chunk's next visit is: a whole round if the cursor   *)
(* has passed it.  Each visit to another window uses up at least one, and  *)
(* a visit to its own window asks for it before it ends.                   *)
(***************************************************************************)
Ahead == WindowOf(watched) - Visited(cursor) + (IF cursor <= watched THEN 0 ELSE Windows)

TurnsInv ==
  /\ watched \in Chunks /\ turns \in Nat
  /\ watched \in received => turns = 0
  /\ watched \in Missing => turns + Ahead <= Windows /\ turns < Windows

LEMMA VisitedFacts ==
  ASSUME NEW cur \in 0 .. ChunkCount
  PROVE  /\ Visited(cur) \in Nat /\ Visited(cur) < Windows
         /\ \A c \in Chunks : /\ cur <= c => Visited(cur) <= WindowOf(c)
                              /\ c < cur => WindowOf(c) <= Visited(cur)
<1>1. CASE cur = 0
  BY <1>1, WindowsBound, ChunksFinite DEF Visited
<1>2. CASE cur # 0
  <2>1. cur - 1 \in Chunks /\ cur - 1 \in Nat /\ Visited(cur) = WindowOf(cur - 1)
    BY <1>2, Numbers DEF Chunks, Visited
  <2>2. ASSUME NEW c \in Chunks
        PROVE  /\ cur <= c => WindowOf(cur - 1) <= WindowOf(c)
               /\ c < cur => WindowOf(c) <= WindowOf(cur - 1)
    <3>1. c \in Nat /\ (cur <= c => cur - 1 <= c) /\ (c < cur => c <= cur - 1)
      BY ChunksFinite
    <3> QED
      BY <2>1, <3>1, WindowMonotone
  <2> QED
    BY <2>1, <2>2, WindowsBound
<1> QED
  BY <1>1, <1>2

LEMMA AheadBound ==
  ASSUME TypeOK, watched \in Chunks
  PROVE  Ahead \in Int /\ Ahead <= Windows
<1>1. Visited(cursor) \in Nat /\ WindowOf(watched) \in Nat /\ watched \in Nat
      /\ WindowOf(watched) < Windows /\ Windows \in Nat /\ cursor \in Nat
      /\ (watched < cursor => WindowOf(watched) <= Visited(cursor))
  BY VisitedFacts, WindowsBound, ChunksFinite DEF TypeOK
<1> QED
  BY <1>1 DEF Ahead

LEMMA TurnsInit == MCInit => TurnsInv
<1> SUFFICES ASSUME MCInit PROVE TurnsInv
  OBVIOUS
<1>1. TypeOK /\ watched \in Chunks /\ turns = 0
  BY BatchInit DEF MCInit, BatchInv
<1> QED
  BY <1>1, AheadBound, WindowsBound DEF TurnsInv

(***************************************************************************)
(* A step that leaves the cursor alone: at most the assembly is started    *)
(* again, and then the watched chunk, received until now, has used no      *)
(* turn.                                                                   *)
(***************************************************************************)
LEMMA QuietTurns ==
  ASSUME BatchInv, TurnsInv, MCNext, cursor' = cursor
  PROVE  TurnsInv'
<1>1. watched' = watched /\ turns' \in {0, turns}
      /\ (watched \in received' => turns' = 0)
  BY DEF MCNext
<1>2. Ahead' = Ahead /\ Ahead \in Int /\ Ahead <= Windows
  <2>1. Visited(cursor)' = Visited(cursor) /\ WindowOf(watched)' = WindowOf(watched)
    BY <1>1 DEF Visited, WindowOf
  <2> QED
    BY <1>1, <2>1, AheadBound DEF Ahead, BatchInv, TurnsInv, Windows, WindowOf
<1>3. turns \in Nat /\ (watched \in received \/ watched \in Missing)
  BY DEF TurnsInv, Missing
<1>4. Windows' = Windows /\ Windows \in Nat /\ Windows >= 1
  BY WindowsBound DEF Windows, WindowOf
<1>5. watched \in Chunks
  BY DEF TurnsInv
<1>6. turns' = 0 \/ watched \in received \/
        (watched \in Missing /\ turns' = turns)
  BY <1>1, <1>3
<1>7. CASE watched \in received \/ turns' = 0
  <2>1. turns' = 0
    BY <1>1, <1>7 DEF TurnsInv
  <2> QED
    BY <1>1, <1>2, <1>4, <1>5, <2>1 DEF TurnsInv
<1>8. CASE watched \in Missing /\ turns' = turns
  <2>1. turns + Ahead <= Windows /\ turns < Windows
    BY <1>8 DEF TurnsInv
  <2> QED
    BY <1>1, <1>2, <1>3, <1>4, <1>5, <1>8, <2>1 DEF TurnsInv
<1> QED
  BY <1>6, <1>7, <1>8

LEMMA InitiateTurns ==
  ASSUME BatchInv, TurnsInv, MCNext, Initiate
  PROVE  TurnsInv'
<1>1. PICK first \in Missing, batch \in SUBSET Missing, last \in Missing :
        /\ IsNextMissing(first)
        /\ batch # {} /\ batch \subseteq InWindow(WindowOf(first))
        /\ \A c \in batch, d \in Missing \cap InWindow(WindowOf(first)) :
             d < c => d \in batch
        /\ IsLast(last, batch) /\ cursor' = last + 1
        /\ request' = Encoded(WindowOf(first), batch)
  BY InitiateFacts DEF BatchInv
<1> DEFINE u == WindowOf(watched)  v == Visited(cursor)  w == WindowOf(first)
<1>2. /\ first \in Nat /\ last \in Nat /\ watched \in Nat /\ cursor \in Nat
      /\ first \in Chunks /\ last \in Chunks /\ watched \in Chunks
      /\ cursor \in 0 .. ChunkCount /\ last + 1 \in 0 .. ChunkCount
  BY ChunksFinite, Numbers DEF Missing, TurnsInv, BatchInv, TypeOK, Chunks
<1>3. WindowOf(last) = w /\ last \in batch
  BY <1>1 DEF InWindow, IsLast
<1>4. Visited(cursor') = w
  BY <1>1, <1>2, <1>3 DEF Visited
<1>5. /\ u \in Nat /\ v \in Nat /\ w \in Nat /\ Windows \in Nat /\ Windows >= 1
      /\ u < Windows /\ v < Windows /\ w < Windows
  BY <1>2, WindowsBound, VisitedFacts
<1>6. Decoded(request') = batch
  BY <1>1, <1>5, EncodedFacts
<1>7. watched' = watched /\ received' = received /\ Missing' = Missing
  BY DEF MCNext, history, Initiate, Missing
<1>8. Ahead = u - v + (IF cursor <= watched THEN 0 ELSE Windows)
  BY DEF Ahead
<1>9. Ahead' = u - w + (IF last < watched THEN 0 ELSE Windows)
  <2>1. cursor' <= watched <=> last < watched
    BY <1>1, <1>2
  <2>2. Visited(cursor)' = w
    BY <1>4 DEF Visited, WindowOf
  <2> QED
    BY <1>7, <2>1, <2>2 DEF Ahead, WindowOf, Windows
<1>10. Windows' = Windows
  BY DEF Windows, WindowOf
<1>11. turns \in Nat
  BY DEF TurnsInv
<1>12. turns' = IF watched \in received \cup batch THEN 0
               ELSE IF turns <= Windows /\ w \notin {v, u} THEN turns + 1
               ELSE turns
  BY <1>4, <1>6, <1>7 DEF MCNext
<1>13. CASE watched \in received \cup batch
  <2>1. turns' = 0
    BY <1>12, <1>13
  <2>2. watched \in batch => u = w /\ ~(last < watched)
    BY <1>1, <1>2 DEF InWindow, IsLast
  <2>3. watched \in Missing => watched \in batch
    BY <1>13 DEF Missing
  <2>4. watched \in Missing => Ahead' = Windows
    BY <1>5, <1>9, <2>2, <2>3
  <2> QED
    BY <1>2, <1>5, <1>7, <1>10, <2>1, <2>4 DEF TurnsInv
<1>14. CASE watched \notin received \cup batch
  <2>1. watched \in Missing /\ turns + Ahead <= Windows /\ turns < Windows
    BY <1>2, <1>14 DEF Missing, TurnsInv
  <2>2. SUFFICES turns' \in Nat /\ turns' + Ahead' <= Windows /\ turns' < Windows
    BY <1>2, <1>7, <1>10, <1>14 DEF TurnsInv
  <2>3. CASE u = w
    <3>1. last < watched
      <4>1. watched \in Missing \cap InWindow(w)
        BY <1>2, <2>1, <2>3 DEF InWindow
      <4>2. ~(watched < last) /\ watched # last
        BY <1>1, <1>3, <1>14, <4>1
      <4> QED
        BY <1>2, <4>2
    <3>2. Ahead' = 0 /\ turns' = turns
      BY <1>5, <1>9, <1>12, <1>14, <2>3, <3>1
    <3> QED
      BY <1>5, <1>11, <2>1, <3>2
  <2>4. CASE u # w
    <3>1. (last < watched <=> w < u) /\ (w < u \/ u < w)
      <4>1. last <= watched => w <= u
        BY <1>2, <1>3, WindowMonotone
      <4>2. watched <= last => u <= w
        BY <1>2, <1>3, WindowMonotone
      <4> QED
        BY <1>2, <1>5, <2>4, <4>1, <4>2
    <3>2. turns' = IF w # v THEN turns + 1 ELSE turns
      BY <1>5, <1>11, <1>12, <1>14, <2>1, <2>4
    <3>3. CASE cursor <= first /\ \A d \in Missing : cursor <= d => first <= d
      <4>1. v <= w
        <5>1. cursor \in 0 .. ChunkCount /\ first \in Chunks /\ cursor <= first
          BY <1>2, <3>3
        <5>2. Visited(cursor) <= WindowOf(first)
          BY <5>1, VisitedFacts
        <5> QED
          BY <5>2
      <4>2. CASE cursor <= watched
        <5>1. w <= u
          BY <1>2, <2>1, <3>3, <4>2, WindowMonotone
        <5>2. Ahead = u - v /\ Ahead' = u - w /\ w < u
          BY <1>5, <1>8, <1>9, <2>4, <3>1, <4>2, <5>1
        <5> QED
          BY <1>5, <1>11, <2>1, <3>2, <4>1, <5>2
      <4>3. CASE ~(cursor <= watched)
        <5>1. u <= v
          BY <1>2, <4>3, VisitedFacts
        <5>2. Ahead = u - v + Windows /\ Ahead' = u - w + Windows /\ u < w
          BY <1>5, <1>8, <1>9, <2>4, <3>1, <4>1, <4>3, <5>1
        <5> QED
          BY <1>5, <1>11, <2>1, <3>2, <4>1, <5>2
      <4> QED
        BY <4>2, <4>3
    <3>4. CASE first < cursor /\ \A d \in Missing : first <= d /\ d < cursor
      <4>1. first <= watched /\ watched < cursor
        BY <2>1, <3>4
      <4>2. w <= u /\ u <= v
        BY <1>2, <4>1, WindowMonotone, VisitedFacts
      <4>3. Ahead = u - v + Windows /\ Ahead' = u - w /\ w < u
        BY <1>2, <1>5, <1>8, <1>9, <2>4, <3>1, <4>1, <4>2
      <4> QED
        BY <1>5, <1>11, <2>1, <3>2, <4>2, <4>3
    <3> QED
      BY <1>1, <1>2, <3>3, <3>4, SearchOrder
  <2> QED
    BY <2>3, <2>4
<1> QED
  BY <1>13, <1>14

LEMMA TurnsNext == BatchInv /\ TurnsInv /\ [MCNext]_<<vars, history>> => TurnsInv'
<1> SUFFICES ASSUME BatchInv, TurnsInv, [MCNext]_<<vars, history>> PROVE TurnsInv'
  OBVIOUS
<1>1. CASE MCNext
  <2>1. CASE Initiate
    BY <1>1, <2>1, InitiateTurns
  <2>2. CASE Serve \/ (\E c \in Chunks : AcceptChunk(c)) \/ Timeout
    <3>1. cursor' = cursor
      BY <2>2 DEF Serve, Timeout, AcceptChunk, Accept, AcceptLast, AcceptMismatch,
         NotStored, asking
    <3> QED
      BY <1>1, <3>1, QuietTurns
  <2> QED
    BY <1>1, <2>1, <2>2 DEF MCNext, Next
<1>2. CASE UNCHANGED <<vars, history>>
  BY <1>2 DEF vars, asking, history, TurnsInv, Missing, Ahead, Visited, WindowOf, Windows
<1> QED
  BY <1>1, <1>2

(***************************************************************************)
(* Before a missing chunk is asked for, every other window is visited at   *)
(* most once (MissingBatch and the cursor in initiate).                    *)
(***************************************************************************)
THEOREM WindowsTakeTurns == MCSpec => []EveryWindowInTurn
<1>1. MCInit => BatchInv /\ TurnsInv
  BY BatchInit, TurnsInit DEF MCInit
<1>2. BatchInv /\ TurnsInv /\ [MCNext]_<<vars, history>> => BatchInv' /\ TurnsInv'
  <2>1. [MCNext]_<<vars, history>> => [Next]_vars
    BY DEF MCNext
  <2> QED
    BY <2>1, BatchNext, TurnsNext
<1>3. TurnsInv => EveryWindowInTurn
  <2>1. TurnsInv => watched \in received \/ watched \in Missing
    BY DEF TurnsInv, Missing
  <2> QED
    BY <2>1, WindowsBound DEF TurnsInv, EveryWindowInTurn
<1> QED
  BY <1>1, <1>2, <1>3, PTL DEF MCSpec

(***************************************************************************)
(* Where a publication has one window, a batch is the least missing chunks *)
(* wherever the cursor is: this is Batch of Acquisition, whose             *)
(* publications have one window.                                           *)
(***************************************************************************)
THEOREM OneWindowBatch ==
  ASSUME ChunkCount <= Window, NEW first \in Missing, NEW limit \in 1 .. MaxChunkBatch
  PROVE  Least(limit, MissingBatch(WindowOf(first))) = Least(limit, Missing)
<1>1. \A c \in Chunks : c \in Nat /\ c < Window
  BY Numbers DEF Chunks
<1>2. \A c \in Chunks : WindowOf(c) = 0
  <2> SUFFICES ASSUME NEW c \in Chunks PROVE WindowOf(c) = 0
    OBVIOUS
  <2>1. c \in Nat /\ c < Window /\ WindowOf(c) \in Nat /\ WindowOf(c) * Window <= c
    BY <1>1, WindowBounds
  <2> QED
    BY <2>1, Numbers
<1>3. Missing \cap InWindow(WindowOf(first)) = Missing
  BY <1>2 DEF InWindow, Missing
<1>4. Missing \in SUBSET Chunks /\ MaxChunkBatch \in Nat /\ limit \in 0 .. MaxChunkBatch
  BY Numbers DEF Missing
<1>5. Least(limit, Least(MaxChunkBatch, Missing)) = Least(limit, Missing)
  BY <1>4, LeastOfLeast
<1> QED
  BY <1>3, <1>5 DEF MissingBatch

=============================================================================
