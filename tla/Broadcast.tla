------------------------------ MODULE Broadcast ------------------------------
(***************************************************************************)
(* The legacy transfer of one file: ghost-publish (cmd/ghost-publish) sends *)
(* a manifest, the chunks the answering receipt lacks and a query, in at   *)
(* most Rounds rounds; ghost-broadcast (cmd/ghost-broadcast) assembles the *)
(* chunks in a publication store and commits them.                         *)
(*                                                                         *)
(* The two radio directions are queues: what was sent and not yet read by   *)
(* the other program, frames its modem client has set aside included.  A   *)
(* handler of the broadcaster is one step; the store operations in it are  *)
(* those PublicationStore takes apart.  Every message is of this one       *)
(* publication; others are skipped by waitForState and kept apart by the   *)
(* broadcaster's session table.                                            *)
(***************************************************************************)
EXTENDS Naturals, Sequences, FiniteSets

CONSTANTS NoSession,   \* no assembly is open
          Chunks,      \* the file's chunk numbers
          Rounds,      \* --retries
          MaxFaults    \* bound: lost, late or corrupted messages, failing
                       \* writes, failing modems and restarts, together

VARIABLES
  pc,          \* ghost-publish: "announce", "offered", "sending", "asked",
               \* "done", "failed" (rounds used up) or "broken"
  round, received,
  toBroadcaster, toPublisher,
  session,     \* the broadcaster's assembly, chunk by chunk, or NoSession
  committing,  \* "no", or about to commit it: "notify" or "silent"
  disk,        \* its partial chunk files
  partial,     \* its partial manifest: "none", the publisher's ("same"), or
               \* "other": one with another file name for the same content
  complete,    \* its object is complete
  faults

publisherVars == <<pc, round, received>>
broadcasterVars == <<session, committing>>
storeVars     == <<disk, partial, complete>>
vars == <<publisherVars, toBroadcaster, toPublisher, broadcasterVars, storeVars,
          faults>>

Contents  == [Chunks -> {"absent", "good", "bad"}]

ASSUME BroadcastAssumption ==
  /\ Chunks \subseteq Nat /\ IsFiniteSet(Chunks) /\ NoSession \notin Contents
  /\ Rounds \in Nat \ {0} /\ MaxFaults \in Nat

NoChunks  == [c \in Chunks |-> "absent"]
Has(assembly)     == {c \in Chunks : assembly[c] # "absent"}
AllGood(assembly) == \A c \in Chunks : assembly[c] = "good"

Request == [type : {"MANIFEST", "QUERY"}]
           \cup [type : {"CHUNK"}, chunk : Chunks, bytes : {"good", "bad"}]
Answer  == [type : {"COMPLETE", "ERROR"}] \cup [type : {"RECEIPT"}, have : SUBSET Chunks]

TypeOK ==
  /\ pc \in {"announce", "offered", "sending", "asked", "done", "failed", "broken"}
  /\ round \in 1 .. Rounds /\ received \subseteq Chunks
  /\ toBroadcaster \in Seq(Request) /\ toPublisher \in Seq(Answer)
  /\ session \in Contents \cup {NoSession} /\ committing \in {"no", "notify", "silent"}
  /\ disk \in Contents
  /\ partial \in {"none", "same", "other"} /\ complete \in BOOLEAN
  /\ faults \in 0 .. MaxFaults

Init ==
  /\ pc = "announce" /\ round = 1 /\ received = {}
  /\ toBroadcaster = <<>> /\ toPublisher = <<>>
  /\ session = NoSession /\ committing = "no" /\ disk = NoChunks
  /\ partial \in {"none", "other"} /\ complete = FALSE
  /\ faults = 0

Fault   == faults < MaxFaults /\ faults' = faults + 1
NoFault == UNCHANGED faults

-----------------------------------------------------------------------------
(***************************************************************************)
(* ghost-publish                                                           *)
(***************************************************************************)
Send(m) == toBroadcaster' = Append(toBroadcaster, m)

Announce ==
  /\ pc = "announce"
  /\ pc' = "offered" /\ Send([type |-> "MANIFEST"])
  /\ UNCHANGED <<round, received, toPublisher, broadcasterVars, storeVars, faults>>

\* lowest missing index first; undetected corruption on the way is a fault
SendChunk ==
  /\ pc = "sending"
  /\ \E c \in Chunks \ received :
       /\ \A d \in Chunks \ received : c <= d
       /\ received' = received \cup {c}
       /\ \/ Send([type |-> "CHUNK", chunk |-> c, bytes |-> "good"]) /\ NoFault
          \/ Send([type |-> "CHUNK", chunk |-> c, bytes |-> "bad"]) /\ Fault
  /\ UNCHANGED <<pc, round, toPublisher, broadcasterVars, storeVars>>

SendQuery ==
  /\ pc = "sending" /\ received = Chunks
  /\ pc' = "asked" /\ Send([type |-> "QUERY"])
  /\ UNCHANGED <<round, received, toPublisher, broadcasterVars, storeVars, faults>>

EndRoundLate ==                     \* mutated: one round more
  IF round > Rounds THEN pc' = "failed" /\ UNCHANGED round
                    ELSE pc' = "announce" /\ round' = round + 1

EndRound ==
  IF round = Rounds THEN pc' = "failed" /\ UNCHANGED round
                    ELSE pc' = "announce" /\ round' = round + 1

TakeAnswerMerging ==                \* mutated: what a receipt lacks is not sent again
  /\ pc \in {"offered", "asked"} /\ toPublisher # <<>>
  /\ toPublisher' = Tail(toPublisher)
  /\ LET m == Head(toPublisher) IN
     \/ m.type = "COMPLETE" /\ pc' = "done" /\ UNCHANGED <<round, received>>
     \/ m.type = "ERROR" /\ EndRound /\ UNCHANGED received
     \/ /\ m.type = "RECEIPT"
        /\ received' = received \cup m.have
        /\ IF pc = "offered" THEN pc' = "sending" /\ UNCHANGED round ELSE EndRound
  /\ UNCHANGED <<toBroadcaster, broadcasterVars, storeVars, faults>>

(***************************************************************************)
(* waitForState takes the first answer there is, whichever request it was  *)
(* for; an error, a timeout and the receipt that answers a query all use   *)
(* up the round.                                                           *)
(***************************************************************************)
TakeAnswer ==
  /\ pc \in {"offered", "asked"} /\ toPublisher # <<>>
  /\ toPublisher' = Tail(toPublisher)
  /\ LET m == Head(toPublisher) IN
     \/ m.type = "COMPLETE" /\ pc' = "done" /\ UNCHANGED <<round, received>>
     \/ m.type = "ERROR" /\ EndRound /\ UNCHANGED received
     \/ /\ m.type = "RECEIPT"
        /\ received' = m.have
        /\ IF pc = "offered" THEN pc' = "sending" /\ UNCHANGED round ELSE EndRound
  /\ UNCHANGED <<toBroadcaster, broadcasterVars, storeVars, faults>>

\* too early when an answer may still come, or when the modem reports an error
Timeout ==
  /\ pc \in {"offered", "asked"}
  /\ IF toBroadcaster = <<>> /\ committing = "no" /\ toPublisher = <<>>
     THEN NoFault ELSE Fault
  /\ EndRound
  /\ UNCHANGED <<received, toBroadcaster, toPublisher, broadcasterVars, storeVars>>

\* Link.Send returns an error, or the operator stops the program ...
Break ==
  /\ pc \in {"announce", "offered", "sending", "asked"} /\ Fault
  /\ pc' = "broken"
  /\ UNCHANGED <<round, received, toBroadcaster, toPublisher, broadcasterVars, storeVars>>

\* ... and runs it again; what its client had read is gone
PublishAgain ==
  /\ pc = "broken"
  /\ pc' = "announce" /\ round' = 1 /\ received' = {}
  /\ \E n \in 0 .. Len(toPublisher) : toPublisher' = SubSeq(toPublisher, n + 1, Len(toPublisher))
  /\ UNCHANGED <<toBroadcaster, broadcasterVars, storeVars, faults>>

PublisherStep == Announce \/ SendChunk \/ SendQuery \/ TakeAnswer \/ PublishAgain

-----------------------------------------------------------------------------
(***************************************************************************)
(* ghost-broadcast                                                         *)
(***************************************************************************)
Take(type) == /\ committing = "no"
              /\ toBroadcaster # <<>> /\ Head(toBroadcaster).type = type
              /\ toBroadcaster' = Tail(toBroadcaster)
              /\ UNCHANGED publisherVars
Reply(m) == toPublisher' = Append(toPublisher, m)
Receipt(assembly) == Reply([type |-> "RECEIPT", have |-> Has(assembly)])

CommitNotifies ==                   \* mutated: COMPLETE also after the last chunk
  /\ committing # "no" /\ committing' = "no"
  /\ AllGood(session) /\ NoFault
  /\ complete' = TRUE /\ disk' = NoChunks /\ partial' = "none"
  /\ session' = NoSession
  /\ Reply([type |-> "COMPLETE"])
  /\ UNCHANGED <<publisherVars, toBroadcaster>>

CommitUnverified ==                 \* mutated: no hash is compared
  /\ committing # "no" /\ committing' = "no" /\ NoFault
  /\ complete' = TRUE /\ disk' = NoChunks /\ partial' = "none"
  /\ session' = NoSession
  /\ IF committing = "notify" THEN Reply([type |-> "COMPLETE"]) ELSE UNCHANGED toPublisher
  /\ UNCHANGED <<publisherVars, toBroadcaster>>

\* os.RemoveAll of the partial's chunks, which may stop anywhere
RemoveSome ==
  \E removed \in SUBSET Chunks :
    disk' = [c \in Chunks |-> IF c \in removed THEN "absent" ELSE disk[c]]

(***************************************************************************)
(* commit.  A failing Commit keeps the session: it stopped before or at    *)
(* the complete marker, or after it while the partial was being removed.   *)
(* A failing Restart keeps it too and may have removed any of the files.   *)
(* Success is reported only when a manifest led here; after a mismatch     *)
(* nothing is sent.                                                        *)
(***************************************************************************)
Commit ==
  /\ committing # "no" /\ committing' = "no"
  /\ \/ /\ AllGood(session) /\ NoFault
        /\ complete' = TRUE /\ disk' = NoChunks /\ partial' = "none"
        /\ session' = NoSession
        /\ IF committing = "notify" THEN Reply([type |-> "COMPLETE"])
                                    ELSE UNCHANGED toPublisher
     \/ /\ AllGood(session) /\ Fault
        /\ \/ complete' \in {complete, TRUE} /\ UNCHANGED <<disk, partial>>
           \/ complete' = TRUE /\ RemoveSome /\ partial' \in {partial, "none"}
        /\ UNCHANGED session /\ Reply([type |-> "ERROR"])
     \/ /\ ~AllGood(session) /\ NoFault
        /\ disk' = NoChunks /\ partial' = "same" /\ session' = NoChunks
        /\ UNCHANGED <<complete, toPublisher>>
     \/ /\ ~AllGood(session) /\ Fault
        /\ RemoveSome /\ partial' \in {"none", "same"}
        /\ UNCHANGED <<complete, session>> /\ Reply([type |-> "ERROR"])
  /\ UNCHANGED <<publisherVars, toBroadcaster>>

(***************************************************************************)
(* MANIFEST opens or resumes the session with what is on disk.             *)
(***************************************************************************)
HandleManifest ==
  /\ Take("MANIFEST")
  /\ \/ /\ complete
        /\ Reply([type |-> "COMPLETE"])
        /\ UNCHANGED <<session, committing, storeVars, faults>>
     \/ /\ ~complete                                            \* Begin fails
        /\ \/ partial = "other" /\ UNCHANGED <<partial, faults>>
           \/ partial # "other" /\ partial' \in {partial, "same"} /\ Fault
        /\ Reply([type |-> "ERROR"])
        /\ UNCHANGED <<session, committing, disk, complete>>
     \/ /\ ~complete /\ partial # "other"
        /\ session' = disk /\ partial' = "same"
        /\ IF Has(disk) = Chunks
           THEN committing' = "notify" /\ UNCHANGED toPublisher
           ELSE Receipt(disk) /\ UNCHANGED committing
        /\ UNCHANGED <<disk, complete, faults>>

HandleChunkKept ==                  \* mutated: a failed write stays in memory
  /\ Take("CHUNK") /\ session # NoSession
  /\ LET m == Head(toBroadcaster) IN
     /\ session' = [session EXCEPT ![m.chunk] = m.bytes]
     /\ \/ disk' = [disk EXCEPT ![m.chunk] = m.bytes] /\ UNCHANGED <<toPublisher, faults>>
        \/ UNCHANGED disk /\ Reply([type |-> "ERROR"]) /\ Fault
     /\ committing' = IF Has(session') = Chunks THEN "silent" ELSE "no"
     /\ UNCHANGED <<partial, complete>>

(***************************************************************************)
(* CHUNK: without a session, or with other bytes than the chunk has, it is *)
(* refused; the last one, or a duplicate after a failed commit, commits.   *)
(***************************************************************************)
HandleChunk ==
  /\ Take("CHUNK")
  /\ LET m == Head(toBroadcaster)
         old == IF session = NoSession THEN "absent" ELSE session[m.chunk] IN
     \/ /\ session = NoSession \/ old \notin {"absent", m.bytes}
        /\ Reply([type |-> "ERROR"])
        /\ UNCHANGED <<session, committing, storeVars, faults>>
     \/ /\ session # NoSession /\ old = "absent" /\ Fault       \* Store.Add fails
        /\ Reply([type |-> "ERROR"])
        /\ disk' \in {disk, [disk EXCEPT ![m.chunk] = m.bytes]}
        /\ UNCHANGED <<session, committing, partial, complete>>
     \/ /\ session # NoSession /\ old \in {"absent", m.bytes}
        /\ session' = [session EXCEPT ![m.chunk] = m.bytes]
        /\ disk' = IF old = "absent" THEN [disk EXCEPT ![m.chunk] = m.bytes] ELSE disk
        /\ committing' = IF Has(session') = Chunks THEN "silent" ELSE "no"
        /\ UNCHANGED <<partial, complete, toPublisher, faults>>

HandleQueryAssembled ==             \* mutated: an assembled file counts as complete
  /\ Take("QUERY")
  /\ \/ /\ complete \/ (session # NoSession /\ Has(session) = Chunks)
        /\ Reply([type |-> "COMPLETE"])
     \/ ~complete /\ session = NoSession /\ Reply([type |-> "ERROR"])
     \/ ~complete /\ session # NoSession /\ Receipt(session)
  /\ UNCHANGED <<session, committing, storeVars, faults>>

HandleQuery ==
  /\ Take("QUERY")
  /\ \/ complete /\ Reply([type |-> "COMPLETE"])
     \/ ~complete /\ session = NoSession /\ Reply([type |-> "ERROR"])
     \/ ~complete /\ session # NoSession /\ Receipt(session)
  /\ UNCHANGED <<session, committing, storeVars, faults>>

BroadcasterStep == Commit \/ HandleManifest \/ HandleChunk \/ HandleQuery

\* it stops (a modem error ends it too) and is run again
Reboot ==
  /\ session # NoSession /\ Fault
  /\ session' = NoSession /\ committing' = "no"
  /\ \E n \in 0 .. Len(toBroadcaster) :
       toBroadcaster' = SubSeq(toBroadcaster, n + 1, Len(toBroadcaster))
  /\ UNCHANGED <<publisherVars, toPublisher, storeVars>>

Without(s, i) == SubSeq(s, 1, i - 1) \o SubSeq(s, i + 1, Len(s))
Lose ==
  /\ Fault
  /\ \/ /\ \E i \in 1 .. Len(toBroadcaster) : toBroadcaster' = Without(toBroadcaster, i)
        /\ UNCHANGED toPublisher
     \/ /\ \E i \in 1 .. Len(toPublisher) : toPublisher' = Without(toPublisher, i)
        /\ UNCHANGED toBroadcaster
  /\ UNCHANGED <<publisherVars, broadcasterVars, storeVars>>

Next == PublisherStep \/ Timeout \/ Break \/ BroadcasterStep \/ Reboot \/ Lose

(***************************************************************************)
(* Both programs keep running, and the operator runs ghost-publish again   *)
(* after its modem failed or it was stopped, not after it gave up.         *)
(***************************************************************************)
Spec == /\ Init /\ [][Next]_vars
        /\ WF_vars(PublisherStep) /\ WF_vars(Timeout) /\ WF_vars(BroadcasterStep)

-----------------------------------------------------------------------------
(***************************************************************************)
(* "complete: SHA-256 verified and committed" is true when it is printed,  *)
(* whatever answers were late, whatever failed, whoever was restarted.     *)
(***************************************************************************)
ReportedIsCommitted == pc = "done" => complete

(***************************************************************************)
(* What a receipt claims survives the broadcaster: every chunk of an open  *)
(* session is on disk with the same bytes, through failed writes, restarts *)
(* and commits.  A session that has lost files is whole, and either its    *)
(* object is complete, so that requests are answered COMPLETE and not with *)
(* a receipt, or it did not match its hash and could not be discarded: its *)
(* next commit discards it.                                                *)
(***************************************************************************)
SessionOnDisk ==
  session # NoSession =>
    \/ \A c \in Has(session) : disk[c] = session[c]
    \/ Has(session) = Chunks /\ (AllGood(session) => complete)

(***************************************************************************)
(* docs/publication-protocol.md: COMPLETE is sent in response to QUERY,    *)
(* avoiding simultaneous transmissions after the last chunk.  As long as   *)
(* nothing failed, the broadcaster is silent whenever the publisher        *)
(* transmits, and the answer the publisher takes is to its last request.   *)
(***************************************************************************)
NoSimultaneousTransmission ==
  faults = 0 /\ pc \in {"announce", "sending"} => toPublisher = <<>>

(***************************************************************************)
(* The transfer implements the store's promise: the object is complete     *)
(* only when every chunk arrived with the bytes the manifest describes,    *)
(* and stays so.                                                           *)
(***************************************************************************)
Verified == INSTANCE VerifiedStore
              WITH have <- IF complete THEN Chunks ELSE {c \in Chunks : disk[c] = "good"}
ImplementsVerifiedStore == Verified!Spec

(***************************************************************************)
(* With a compatible store, and with Rounds large enough for what fails in *)
(* a run, the publisher does not give up but reports the commit.  Every    *)
(* answer left over from a lost session uses up one round, so what is      *)
(* enough grows with the number of chunks.                                 *)
(***************************************************************************)
Ingested == partial # "other" ~> pc = "done"

=============================================================================
