------------------------------ MODULE ChunkBatch ------------------------------
(***************************************************************************)
(* How a node asks for the chunks of one publication                       *)
(* (internal/node/scheduler.go, runtime.go): MissingBatch looks for the    *)
(* first missing chunk from the cursor on, going round, and takes missing  *)
(* chunks from the start of the window that one is in; the request names   *)
(* them by the window's base and a bitmap, and the cursor moves behind the *)
(* last chunk asked for.  Requests fail to be sent, chunks are lost,       *)
(* arrive in any order, after the deadline or cannot be stored, and a      *)
(* content that does not match its hash starts the assembly again.         *)
(*                                                                         *)
(* Acquisition has everything else about an acquisition, with a            *)
(* publication of one window; here only the chunks differ.  An answer to   *)
(* an earlier request bears another transaction number and is not taken,   *)
(* so what is in the air is forgotten when a request is made.              *)
(***************************************************************************)
EXTENDS Integers, FiniteSets

CONSTANTS
  ChunkCount,       \* Manifest.ChunkCount, a 16-bit number
  Window,           \* chunks a request's bitmap spans: 8 in the code
  MaxChunkBatch,    \* chunks a request may ask for: 4 in the code
  MaxFaults         \* sends, stores, commits and content checks that fail

ASSUME BatchAssumption ==
  /\ ChunkCount \in 1 .. 65535
  /\ Window \in Nat \ {0}
  /\ MaxChunkBatch \in Nat \ {0}
  /\ MaxFaults \in Nat

VARIABLES
  received,         \* Assembly.received
  cursor,           \* acquisition.cursor
  waiting,          \* acquisition.waiting is TypeChunk
  wanted,           \* acquisition.wanted
  request,          \* the request in the air, or none
  answers,          \* the chunks in the air that answer it
  committed,        \* the object is complete and the acquisition gone
  faults

asking == <<cursor, waiting, wanted>>
vars   == <<received, asking, request, answers, committed, faults>>

Chunks  == 0 .. ChunkCount - 1
Missing == Chunks \ received

\* the window of a chunk, the chunks of window w, and how many windows there are
WindowOf(c) == c \div Window
InWindow(w) == {c \in Chunks : WindowOf(c) = w}
Windows     == WindowOf(ChunkCount - 1) + 1

\* the n least of a set of numbers
Least(n, S) == {c \in S : Cardinality({d \in S : d < c}) < n}

IsLast(c, S) == c \in S /\ \A d \in S : d <= c

NoRequest == [base |-> 0, bitmap |-> {}]

TypeOK ==
  /\ received \subseteq Chunks /\ cursor \in 0 .. ChunkCount
  /\ waiting \in BOOLEAN /\ wanted \subseteq Chunks
  /\ request \in [base : Nat, bitmap : SUBSET (0 .. Window - 1)]
  /\ answers \subseteq Chunks
  /\ committed \in BOOLEAN /\ faults \in 0 .. MaxFaults

\* an assembly may have been resumed from disk with any of its chunks
Init ==
  /\ received \in SUBSET Chunks
  /\ cursor = 0 /\ waiting = FALSE /\ wanted = {}
  /\ request = NoRequest /\ answers = {}
  /\ committed = FALSE /\ faults = 0

-----------------------------------------------------------------------------
(***************************************************************************)
(* MissingBatch.  Offsets from the cursor are taken round the end.         *)
(***************************************************************************)
At(offset) == (cursor + offset) % ChunkCount

ForwardOnly(c) ==                     \* mutated: the search does not go round
  \E offset \in 0 .. ChunkCount - 1 :
    /\ c = cursor + offset /\ c \in Missing
    /\ \A o \in 0 .. offset - 1 : At(o) \notin Missing

IsNextMissing(c) ==
  \E offset \in 0 .. ChunkCount - 1 :
    /\ c = At(offset) /\ c \in Missing
    /\ \A o \in 0 .. offset - 1 : At(o) \notin Missing

MissingBatch(w) == Least(MaxChunkBatch, Missing \cap InWindow(w))

\* what the request says, and what serveChunks makes of it
UnlimitedEncoded(w, batch) ==         \* mutated: the bits MissingBatch returned
  [base |-> w * Window, bitmap |-> {c - w * Window : c \in MissingBatch(w)}]

Encoded(w, batch) ==
  [base |-> w * Window, bitmap |-> {c - w * Window : c \in batch}]

Decoded(r) == {r.base + bit : bit \in r.bitmap}

-----------------------------------------------------------------------------
\* fail: the answers to this request are no longer taken
Failed == waiting' = FALSE /\ wanted' = {}

OneMoreFault == faults < MaxFaults /\ faults' = faults + 1

BehindWindow(w, batch) ==             \* mutated: the cursor skips the window's rest
  cursor' = (w + 1) * Window

BehindBatch(w, batch) == \E c \in batch : IsLast(c, batch) /\ cursor' = c + 1

(***************************************************************************)
(* initiate, with the number of chunks Controller.BatchSize allows.  When  *)
(* the sending fails the cursor has moved all the same; the request may    *)
(* be in the air or not, but what answers it is not taken.                 *)
(***************************************************************************)
Initiate ==
  /\ ~committed /\ ~waiting
  /\ \E first \in Missing, limit \in 1 .. MaxChunkBatch :
       LET w == WindowOf(first)
           batch == Least(limit, MissingBatch(w))
       IN /\ IsNextMissing(first)
          /\ BehindBatch(w, batch)
          /\ request' = Encoded(w, batch)
          /\ \/ waiting' = TRUE /\ wanted' = batch /\ UNCHANGED faults
             \/ Failed /\ OneMoreFault
  /\ answers' = {}
  /\ UNCHANGED <<received, committed>>

\* serveChunks, in time: each chunk of the request is read and sent, or not
Serve ==
  /\ waiting /\ request # NoRequest
  /\ \E sent \in SUBSET Decoded(request) : answers' = sent \cap Chunks
  /\ request' = NoRequest
  /\ UNCHANGED <<received, asking, committed, faults>>

(***************************************************************************)
(* acceptChunk.  A chunk that cannot be stored stays wanted; after the     *)
(* last chunk the content is checked and committed, or started again.      *)
(***************************************************************************)
Takes(c) == /\ waiting /\ c \in answers \cap wanted
            /\ answers' = answers \ {c}
            /\ UNCHANGED request

Accept(c) ==
  /\ received' = received \cup {c} /\ received' # Chunks
  /\ wanted' = wanted \ {c} /\ waiting' = (wanted' # {})
  /\ UNCHANGED <<cursor, committed, faults>>

AcceptLast(c) ==
  /\ received \cup {c} = Chunks
  /\ received' = Chunks /\ committed' = TRUE
  /\ Failed /\ UNCHANGED <<cursor, faults>>

\* the content is started again, or that or the commit fails
AcceptMismatch(c) ==
  /\ received \cup {c} = Chunks
  /\ OneMoreFault
  /\ received' \in {{}, Chunks}
  /\ Failed /\ UNCHANGED <<cursor, committed>>

NotStored ==
  /\ OneMoreFault
  /\ UNCHANGED <<received, asking, committed>>

AcceptChunk(c) ==
  /\ Takes(c)
  /\ Accept(c) \/ AcceptLast(c) \/ AcceptMismatch(c) \/ NotStored

\* the deadline passes
Timeout ==
  /\ waiting
  /\ Failed
  /\ UNCHANGED <<received, cursor, request, answers, committed, faults>>

Next == Initiate \/ Serve \/ (\E c \in Chunks : AcceptChunk(c)) \/ Timeout

(***************************************************************************)
(* The node keeps asking and its deadlines pass; a chunk that is asked for *)
(* again and again is sent and heard at last.                              *)
(***************************************************************************)
SentAndHeard(c) ==
  /\ WF_vars(Initiate) /\ WF_vars(Timeout)
  /\ SF_vars(Serve /\ c \in answers')
  /\ SF_vars(AcceptChunk(c) /\ c \in received')

Spec == Init /\ [][Next]_vars
Fairness == \A c \in Chunks : SentAndHeard(c)

-----------------------------------------------------------------------------
(***************************************************************************)
(* A request says by its base and bitmap just the chunks the node takes    *)
(* answers for: no more than MaxChunkBatch of one window, all of them      *)
(* missing (initiate clears the bitmap MissingBatch returned and sets it   *)
(* again for the chunks the traffic allows).                               *)
(***************************************************************************)
RequestMeansWanted ==
  request # NoRequest /\ waiting =>
    /\ Decoded(request) = wanted
    /\ Cardinality(wanted) <= MaxChunkBatch
    /\ wanted \subseteq Missing \cap InWindow(request.base \div Window)

(***************************************************************************)
(* A node that waits for chunks waits for one it still lacks, so no        *)
(* exchange is left open with nothing to come (the end of acceptChunk),    *)
(* and what it waits for is among the chunks the cursor has passed.        *)
(***************************************************************************)
ExchangeOpen ==
  waiting => /\ wanted # {} /\ wanted \subseteq Missing
             /\ \A c \in wanted : c < cursor

(***************************************************************************)
(* Every chunk arrives, however many are lost before, although a window    *)
(* is asked from its start and the cursor only ever moves behind what was  *)
(* asked (docs/architecture.md: chunks may arrive out of order).           *)
(***************************************************************************)
EverythingArrives == <>[](Missing = {})

=============================================================================
