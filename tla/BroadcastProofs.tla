--------------------------- MODULE BroadcastProofs ---------------------------
(***************************************************************************)
(* Proofs about the legacy transfer, for every set of chunks, number of    *)
(* rounds and number of faults: what the publisher reports is committed,   *)
(* and the transfer implements VerifiedStore.                              *)
(***************************************************************************)
EXTENDS Broadcast, SequenceTheorems, TLAPS

(***************************************************************************)
(* The answers that may be under way: COMPLETE only once it is true.       *)
(***************************************************************************)
Truthful == {a \in Answer : a.type = "COMPLETE" => complete}

TransferInv ==
  /\ TypeOK
  /\ toPublisher \in Seq(Truthful)
  /\ ReportedIsCommitted
  /\ SessionOnDisk
  /\ committing # "no" => session # NoSession /\ Has(session) = Chunks

(***************************************************************************)
(* Dropping the first n messages, or one of them, leaves a sequence of the *)
(* same messages.                                                          *)
(***************************************************************************)
LEMMA SuffixSeq ==
  ASSUME NEW S, NEW s \in Seq(S), NEW n \in 0 .. Len(s)
  PROVE  SubSeq(s, n + 1, Len(s)) \in Seq(S)
<1>1. \A i \in n + 1 .. Len(s) : s[i] \in S
  BY ElementOfSeq
<1> QED
  BY <1>1, SubSeqProperties

LEMMA WithoutSeq ==
  ASSUME NEW S, NEW s \in Seq(S), NEW i \in 1 .. Len(s)
  PROVE  Without(s, i) \in Seq(S)
<1>1. \A j \in 1 .. i - 1 : s[j] \in S
  BY ElementOfSeq
<1>2. \A j \in i + 1 .. Len(s) : s[j] \in S
  BY ElementOfSeq
<1>3. SubSeq(s, 1, i - 1) \in Seq(S)
  BY <1>1, SubSeqProperties
<1>4. SubSeq(s, i + 1, Len(s)) \in Seq(S)
  BY <1>2, SubSeqProperties
<1> QED
  BY <1>3, <1>4, ConcatProperties DEF Without

(***************************************************************************)
(* Sequences over a set are sequences over every larger one.               *)
(***************************************************************************)
LEMMA SeqMonotone ==
  ASSUME NEW S, NEW T, S \subseteq T, NEW s \in Seq(S)
  PROVE  s \in Seq(T)
OBVIOUS

-----------------------------------------------------------------------------
(***************************************************************************)
(* Once complete, for ever complete; so an answer that was true when it    *)
(* was sent is true when it is read.                                       *)
(***************************************************************************)
LEMMA AnswersKept ==
  ASSUME TransferInv, complete => complete', toPublisher' \in Seq(Truthful)
  PROVE  toPublisher' \in Seq(Truthful') /\ toPublisher' \in Seq(Answer)
<1>1. Truthful \subseteq Truthful' /\ Truthful \subseteq Answer
  BY DEF Truthful, Answer
<1> QED
  BY <1>1, SeqMonotone

LEMMA AnswerSent ==
  ASSUME TransferInv, complete => complete', NEW m \in Answer,
         m.type = "COMPLETE" => complete', Reply(m)
  PROVE  toPublisher' \in Seq(Truthful') /\ toPublisher' \in Seq(Answer)
<1>1. Truthful \subseteq Truthful' /\ Truthful' \subseteq Answer
  BY DEF Truthful, Answer
<1>2. toPublisher \in Seq(Truthful')
  BY <1>1, SeqMonotone DEF TransferInv
<1>3. m \in Truthful'
  BY DEF Truthful, Answer
<1>4. toPublisher' \in Seq(Truthful')
  BY <1>2, <1>3, AppendProperties DEF Reply
<1> QED
  BY <1>1, <1>4, SeqMonotone

(***************************************************************************)
(* The publisher's steps leave the broadcaster and its store alone.        *)
(***************************************************************************)
LEMMA EndRoundType ==
  ASSUME TransferInv, EndRound
  PROVE  pc' \in {"failed", "announce"} /\ round' \in 1 .. Rounds
BY BroadcastAssumption DEF TransferInv, TypeOK, EndRound

LEMMA PublisherInv ==
  TransferInv /\ (PublisherStep \/ Timeout \/ Break) => TransferInv'
<1> SUFFICES ASSUME TransferInv, PublisherStep \/ Timeout \/ Break
             PROVE  TransferInv'
  OBVIOUS
<1>1. UNCHANGED <<broadcasterVars, storeVars>>
  BY DEF PublisherStep, Announce, SendChunk, SendQuery, TakeAnswer, PublishAgain,
         Timeout, Break
<1>2. toPublisher' \in Seq(Truthful)
  <2>1. CASE TakeAnswer
    BY <2>1, HeadTailProperties DEF TakeAnswer, TransferInv
  <2>2. CASE PublishAgain
    BY <2>2, SuffixSeq DEF PublishAgain, TransferInv
  <2>3. CASE ~TakeAnswer /\ ~PublishAgain
    BY <2>3 DEF TransferInv, PublisherStep, Announce, SendChunk, SendQuery, Timeout, Break
  <2>4. QED
    BY <2>1, <2>2, <2>3
<1>3. toBroadcaster' \in Seq(Request)
  <2>1. ASSUME NEW m \in Request, Send(m) PROVE toBroadcaster' \in Seq(Request)
    BY <2>1, AppendProperties DEF Send, TransferInv, TypeOK
  <2>2. CASE Announce
    BY <2>1, <2>2 DEF Announce, Request
  <2>3. CASE SendChunk
    BY <2>1, <2>3 DEF SendChunk, Request
  <2>4. CASE SendQuery
    BY <2>1, <2>4 DEF SendQuery, Request
  <2>5. CASE TakeAnswer \/ PublishAgain \/ Timeout \/ Break
    BY <2>5 DEF TakeAnswer, PublishAgain, Timeout, Break, TransferInv, TypeOK
  <2>6. QED
    BY <2>2, <2>3, <2>4, <2>5 DEF PublisherStep
<1>4. /\ pc' \in {"announce", "offered", "sending", "asked", "done", "failed", "broken"}
      /\ round' \in 1 .. Rounds /\ received' \subseteq Chunks
      /\ faults' \in 0 .. MaxFaults
  <2>1. CASE Announce \/ SendQuery \/ PublishAgain \/ Break
    <3>1. CASE Announce \/ SendQuery
      BY <3>1 DEF Announce, SendQuery, TransferInv, TypeOK
    <3>2. CASE PublishAgain
      BY <3>2, BroadcastAssumption DEF PublishAgain, TransferInv, TypeOK
    <3>3. CASE Break
      BY <3>3, BroadcastAssumption DEF Break, TransferInv, TypeOK, Fault
    <3> QED
      BY <2>1, <3>1, <3>2, <3>3
  <2>5. CASE SendChunk
    <3>1. faults' \in 0 .. MaxFaults
      BY <2>5, BroadcastAssumption DEF SendChunk, TransferInv, TypeOK, Fault, NoFault
    <3> QED
      BY <2>5, <3>1 DEF SendChunk, TransferInv, TypeOK
  <2>2. CASE TakeAnswer
    <3>1. Head(toPublisher) \in Answer
      BY <2>2, HeadTailProperties DEF TakeAnswer, TransferInv, TypeOK
    <3>2. Head(toPublisher).type = "RECEIPT" => Head(toPublisher).have \subseteq Chunks
      BY <3>1 DEF Answer
    <3> QED
      BY <2>2, <3>2, EndRoundType DEF TakeAnswer, TransferInv, TypeOK
  <2>3. CASE Timeout
    BY <2>3, EndRoundType, BroadcastAssumption DEF Timeout, TransferInv, TypeOK, Fault, NoFault
  <2>4. QED
    BY <2>1, <2>2, <2>3, <2>5 DEF PublisherStep
<1>5. ReportedIsCommitted'
  <2>1. CASE TakeAnswer
    <3>1. Head(toPublisher) \in Truthful
      BY <2>1, HeadTailProperties DEF TakeAnswer, TransferInv
    <3> QED
      BY <2>1, <3>1, <1>1, EndRoundType
      DEF TakeAnswer, Truthful, ReportedIsCommitted, TransferInv, storeVars
  <2>2. CASE ~TakeAnswer
    BY <2>2, <1>1, EndRoundType
    DEF PublisherStep, Announce, SendChunk, SendQuery, PublishAgain, Timeout, Break,
        ReportedIsCommitted, TransferInv, storeVars
  <2>3. QED
    BY <2>1, <2>2
<1>6. toPublisher' \in Seq(Truthful') /\ toPublisher' \in Seq(Answer)
  BY <1>1, <1>2, AnswersKept DEF storeVars
<1>7. TypeOK'
  BY <1>1, <1>3, <1>4, <1>6 DEF TransferInv, TypeOK, storeVars, broadcasterVars
<1>8. SessionOnDisk' /\ (committing' # "no" => session' # NoSession /\ Has(session)' = Chunks)
  BY <1>1 DEF TransferInv, SessionOnDisk, storeVars, broadcasterVars, Has, AllGood
<1>9. QED
  BY <1>5, <1>6, <1>7, <1>8 DEF TransferInv

-----------------------------------------------------------------------------
(***************************************************************************)
(* The broadcaster's steps leave the publisher alone and take at most one  *)
(* request off the queue.                                                  *)
(***************************************************************************)
LEMMA BroadcasterFrame ==
  ASSUME TransferInv, BroadcasterStep
  PROVE  /\ UNCHANGED publisherVars
         /\ toBroadcaster' \in Seq(Request)
         /\ complete => complete'
         /\ faults' \in 0 .. MaxFaults
<1>1. CASE Commit
  <2>1. UNCHANGED publisherVars /\ toBroadcaster' \in Seq(Request)
    BY <1>1 DEF Commit, TransferInv, TypeOK
  <2>2. complete => complete'
    BY <1>1, Zenon DEF Commit
  <2>3. faults' = faults \/ Fault
    BY <1>1, Zenon DEF Commit, NoFault
  <2>4. faults' \in 0 .. MaxFaults
    BY <2>3, BroadcastAssumption DEF TransferInv, TypeOK, Fault
  <2> QED
    BY <2>1, <2>2, <2>4
<1>2. ASSUME NEW type, Take(type)
      PROVE  UNCHANGED publisherVars /\ toBroadcaster' \in Seq(Request)
  BY <1>2, HeadTailProperties DEF Take, TransferInv, TypeOK
<1>3. CASE HandleManifest
  <2>1. complete => complete'
    BY <1>3 DEF HandleManifest, storeVars
  <2>2. faults' \in 0 .. MaxFaults
    BY <1>3, BroadcastAssumption DEF HandleManifest, TransferInv, TypeOK, Fault
  <2> QED
    BY <1>2, <1>3, <2>1, <2>2 DEF HandleManifest
<1>4. CASE HandleChunk
  <2>1. complete => complete'
    BY <1>4 DEF HandleChunk, storeVars
  <2>2. faults' = faults \/ Fault
    BY <1>4 DEF HandleChunk
  <2>3. faults' \in 0 .. MaxFaults
    BY <2>2, BroadcastAssumption DEF TransferInv, TypeOK, Fault
  <2> QED
    BY <1>2, <1>4, <2>1, <2>3 DEF HandleChunk
<1>5. CASE HandleQuery
  BY <1>2, <1>5 DEF HandleQuery, storeVars, TransferInv, TypeOK
<1>6. QED
  BY <1>1, <1>3, <1>4, <1>5 DEF BroadcasterStep

LEMMA ContentsFacts ==
  /\ NoChunks \in Contents
  /\ \A f \in Contents, c \in Chunks, b \in {"good", "bad"} :
       [f EXCEPT ![c] = b] \in Contents
  /\ \A f \in Contents : Has(f) \subseteq Chunks
BY DEF NoChunks, Contents, Has

(***************************************************************************)
(* What they answer is true, and what they believe is on disk.             *)
(***************************************************************************)
LEMMA CommitInv == TransferInv /\ Commit => TransferInv'
<1> SUFFICES ASSUME TransferInv, Commit PROVE TransferInv'
  OBVIOUS
<1>1. /\ UNCHANGED publisherVars /\ toBroadcaster' \in Seq(Request)
      /\ (complete => complete') /\ faults' \in 0 .. MaxFaults
  BY BroadcasterFrame DEF BroadcasterStep
<1>2. toPublisher' \in Seq(Truthful') /\ toPublisher' \in Seq(Answer)
  <2>1. CASE UNCHANGED toPublisher
    BY <2>1, <1>1, AnswersKept DEF TransferInv
  <2>2. CASE Reply([type |-> "ERROR"])
    BY <2>2, <1>1, AnswerSent DEF Answer
  <2>3. CASE Reply([type |-> "COMPLETE"]) /\ complete'
    BY <2>3, <1>1, AnswerSent DEF Answer
  <2>4. QED
    BY <2>1, <2>2, <2>3 DEF Commit
<1>3. /\ session' \in Contents \cup {NoSession} /\ committing' = "no"
      /\ disk' \in Contents
      /\ partial' \in {"none", "same", "other"} /\ complete' \in BOOLEAN
  <2>1. RemoveSome => disk' \in Contents
    BY DEF RemoveSome, TransferInv, TypeOK, Contents
  <2> QED
    BY <2>1, ContentsFacts DEF Commit, TransferInv, TypeOK
<1>4. SessionOnDisk'
  <2>1. CASE session' = NoSession
    BY <2>1 DEF SessionOnDisk
  <2>2. CASE session' = session /\ disk' = disk
    BY <1>1, <2>2 DEF TransferInv, SessionOnDisk, Has, AllGood
  <2>3. CASE session' = NoChunks
    BY <2>3 DEF SessionOnDisk, Has, NoChunks
  <2>4. CASE (AllGood(session) => complete') /\ session' = session
    <3>1. Has(session) = Chunks
      BY DEF Commit, TransferInv
    <3> QED
      BY <2>4, <3>1 DEF SessionOnDisk, Has, AllGood
  <2>5. QED
    BY <2>1, <2>2, <2>3, <2>4, Zenon DEF Commit
<1>5. QED
  BY <1>1, <1>2, <1>3, <1>4 DEF TransferInv, TypeOK, ReportedIsCommitted, publisherVars

LEMMA HandleManifestInv == TransferInv /\ HandleManifest => TransferInv'
<1> SUFFICES ASSUME TransferInv, HandleManifest PROVE TransferInv'
  OBVIOUS
<1>1. /\ UNCHANGED publisherVars /\ toBroadcaster' \in Seq(Request)
      /\ (complete => complete') /\ faults' \in 0 .. MaxFaults
  BY BroadcasterFrame DEF BroadcasterStep
<1>2. toPublisher' \in Seq(Truthful') /\ toPublisher' \in Seq(Answer)
  <2>1. CASE UNCHANGED toPublisher
    BY <2>1, <1>1, AnswersKept DEF TransferInv
  <2>2. CASE Reply([type |-> "ERROR"])
    BY <2>2, <1>1, AnswerSent DEF Answer
  <2>3. CASE Reply([type |-> "COMPLETE"]) /\ complete'
    BY <2>3, <1>1, AnswerSent DEF Answer
  <2>4. CASE Receipt(disk)
    <3>1. [type |-> "RECEIPT", have |-> Has(disk)] \in Answer
      BY ContentsFacts DEF Answer, TransferInv, TypeOK
    <3> QED
      BY <2>4, <3>1, <1>1, AnswerSent DEF Receipt
  <2>5. QED
    BY <2>1, <2>2, <2>3, <2>4 DEF HandleManifest, storeVars
<1>3. /\ committing' \in {"no", "notify"} /\ disk' = disk /\ complete' = complete
      /\ partial' \in {"none", "same", "other"}
      /\ \/ UNCHANGED <<session, committing>>
         \/ session' = disk /\ (committing' # "no" => Has(disk) = Chunks)
  BY DEF HandleManifest, Take, TransferInv, TypeOK, storeVars
<1>4. session' # NoSession \/ UNCHANGED <<session, committing>>
  BY <1>3, BroadcastAssumption DEF TransferInv, TypeOK
<1>5. SessionOnDisk' /\ (committing' # "no" => session' # NoSession /\ Has(session)' = Chunks)
  BY <1>3, <1>4 DEF TransferInv, SessionOnDisk, Has, AllGood
<1>6. QED
  BY <1>1, <1>2, <1>3, <1>5
  DEF TransferInv, TypeOK, ReportedIsCommitted, publisherVars

LEMMA HandleChunkInv == TransferInv /\ HandleChunk => TransferInv'
<1> SUFFICES ASSUME TransferInv, HandleChunk PROVE TransferInv'
  OBVIOUS
<1> DEFINE m == Head(toBroadcaster)
<1>1. /\ UNCHANGED publisherVars /\ toBroadcaster' \in Seq(Request)
      /\ (complete => complete') /\ faults' \in 0 .. MaxFaults
  BY BroadcasterFrame DEF BroadcasterStep
<1>2. m.chunk \in Chunks /\ m.bytes \in {"good", "bad"}
  <2>1. m \in Request /\ m.type = "CHUNK"
    BY HeadTailProperties DEF HandleChunk, Take, TransferInv, TypeOK
  <2> QED
    BY <2>1 DEF Request
<1>3. toPublisher' \in Seq(Truthful') /\ toPublisher' \in Seq(Answer)
  <2>1. CASE UNCHANGED toPublisher
    BY <2>1, <1>1, AnswersKept DEF TransferInv
  <2>2. CASE Reply([type |-> "ERROR"])
    BY <2>2, <1>1, AnswerSent DEF Answer
  <2>3. QED
    BY <2>1, <2>2 DEF HandleChunk
<1>4. partial' = partial /\ complete' = complete
  BY DEF HandleChunk, storeVars
<1>5. CASE UNCHANGED <<session, committing, disk>>
  BY <1>1, <1>3, <1>4, <1>5
  DEF TransferInv, TypeOK, ReportedIsCommitted, SessionOnDisk, Has, AllGood, publisherVars
<1>6. CASE /\ session # NoSession /\ session[m.chunk] = "absent"
           /\ disk' = [disk EXCEPT ![m.chunk] = m.bytes]
           /\ UNCHANGED <<session, committing>>
  <2>1. disk' \in Contents
    BY <1>2, <1>6, ContentsFacts DEF TransferInv, TypeOK
  <2>2. SessionOnDisk'
    BY <1>2, <1>6 DEF TransferInv, TypeOK, SessionOnDisk, Has, AllGood, Contents
  <2>3. Has(session)' = Has(session)
    BY <1>6 DEF Has
  <2> QED
    BY <1>1, <1>3, <1>4, <1>6, <2>1, <2>2, <2>3
    DEF TransferInv, TypeOK, ReportedIsCommitted, publisherVars
<1>7. CASE /\ session # NoSession /\ session[m.chunk] \in {"absent", m.bytes}
           /\ session' = [session EXCEPT ![m.chunk] = m.bytes]
           /\ disk' = IF session[m.chunk] = "absent"
                      THEN [disk EXCEPT ![m.chunk] = m.bytes] ELSE disk
           /\ committing' = IF Has(session') = Chunks THEN "silent" ELSE "no"
  <2>1. session \in Contents /\ session' \in Contents /\ disk' \in Contents
    BY <1>2, <1>7, ContentsFacts DEF TransferInv, TypeOK
  <2>2. session' # NoSession
    BY <2>1, BroadcastAssumption
  <2>3. committing' \in {"no", "silent"} /\ (committing' # "no" => Has(session)' = Chunks)
    BY <1>7 DEF Has
  <2>4. SessionOnDisk'
    <3>1. CASE \A c \in Has(session) : disk[c] = session[c]
      BY <3>1, <1>2, <1>7, <2>1 DEF TransferInv, TypeOK, SessionOnDisk, Has, Contents
    <3>2. CASE Has(session) = Chunks /\ (AllGood(session) => complete)
      <4>1. session[m.chunk] # "absent"
        BY <3>2, <1>2 DEF Has
      <4>2. session' = session
        BY <4>1, <1>2, <1>7, <2>1 DEF Contents
      <4> QED
        BY <1>4, <3>2, <4>2 DEF SessionOnDisk, Has, AllGood
    <3>3. QED
      BY <3>1, <3>2, <1>7 DEF TransferInv, SessionOnDisk
  <2> QED
    BY <1>1, <1>3, <1>4, <2>1, <2>2, <2>3, <2>4
    DEF TransferInv, TypeOK, ReportedIsCommitted, publisherVars
<1>8. QED
  BY <1>5, <1>6, <1>7 DEF HandleChunk, storeVars

LEMMA HandleQueryInv == TransferInv /\ HandleQuery => TransferInv'
<1> SUFFICES ASSUME TransferInv, HandleQuery PROVE TransferInv'
  OBVIOUS
<1>1. /\ UNCHANGED publisherVars /\ toBroadcaster' \in Seq(Request)
      /\ (complete => complete') /\ faults' \in 0 .. MaxFaults
  BY BroadcasterFrame DEF BroadcasterStep
<1>2. UNCHANGED <<session, committing, storeVars>>
  BY DEF HandleQuery
<1>3. toPublisher' \in Seq(Truthful') /\ toPublisher' \in Seq(Answer)
  <2>1. CASE Reply([type |-> "ERROR"])
    BY <2>1, <1>1, AnswerSent DEF Answer
  <2>2. CASE Reply([type |-> "COMPLETE"]) /\ complete'
    BY <2>2, <1>1, AnswerSent DEF Answer
  <2>3. CASE session # NoSession /\ Receipt(session)
    <3>1. [type |-> "RECEIPT", have |-> Has(session)] \in Answer
      BY <2>3, ContentsFacts DEF Answer, TransferInv, TypeOK
    <3> QED
      BY <2>3, <3>1, <1>1, AnswerSent DEF Receipt
  <2>4. QED
    BY <2>1, <2>2, <2>3, <1>2 DEF HandleQuery, storeVars
<1>4. QED
  BY <1>1, <1>2, <1>3
  DEF TransferInv, TypeOK, ReportedIsCommitted, SessionOnDisk, Has, AllGood,
      publisherVars, storeVars

(***************************************************************************)
(* A restart forgets the session, not the disk; the air loses messages but *)
(* makes none up.                                                          *)
(***************************************************************************)
LEMMA EnvironmentInv == TransferInv /\ (Reboot \/ Lose) => TransferInv'
<1> SUFFICES ASSUME TransferInv, Reboot \/ Lose PROVE TransferInv'
  OBVIOUS
<1>1. UNCHANGED <<publisherVars, storeVars>>
  BY DEF Reboot, Lose
<1>2. faults' \in 0 .. MaxFaults
  BY BroadcastAssumption DEF Reboot, Lose, Fault, TransferInv, TypeOK
<1>3. toBroadcaster' \in Seq(Request)
  BY SuffixSeq, WithoutSeq DEF Reboot, Lose, TransferInv, TypeOK
<1>4. toPublisher' \in Seq(Truthful)
  BY WithoutSeq DEF Reboot, Lose, TransferInv
<1>5. toPublisher' \in Seq(Truthful') /\ toPublisher' \in Seq(Answer)
  BY <1>1, <1>4, AnswersKept DEF storeVars
<1>6. UNCHANGED broadcasterVars \/ (session' = NoSession /\ committing' = "no")
  BY DEF Reboot, Lose
<1>7. QED
  BY <1>1, <1>2, <1>3, <1>5, <1>6
  DEF TransferInv, TypeOK, ReportedIsCommitted, SessionOnDisk, Has, AllGood,
      publisherVars, storeVars, broadcasterVars

-----------------------------------------------------------------------------
LEMMA TransferInit == Init => TransferInv
<1> SUFFICES ASSUME Init PROVE TransferInv
  OBVIOUS
<1>1. /\ toBroadcaster \in Seq(Request) /\ toPublisher \in Seq(Answer)
      /\ toPublisher \in Seq(Truthful)
  BY EmptySeq DEF Init
<1>2. faults \in 0 .. MaxFaults /\ round \in 1 .. Rounds
  BY BroadcastAssumption DEF Init
<1>3. TypeOK
  BY <1>1, <1>2, ContentsFacts DEF Init, TypeOK
<1> QED
  BY <1>1, <1>3 DEF Init, TransferInv, ReportedIsCommitted, SessionOnDisk

LEMMA TransferStep == TransferInv /\ [Next]_vars => TransferInv'
<1> SUFFICES ASSUME TransferInv, [Next]_vars PROVE TransferInv'
  OBVIOUS
<1>1. CASE UNCHANGED vars
  BY <1>1
  DEF vars, publisherVars, broadcasterVars, storeVars, TransferInv, TypeOK, Truthful,
      ReportedIsCommitted, SessionOnDisk, Has, AllGood
<1>2. CASE PublisherStep \/ Timeout \/ Break
  BY <1>2, PublisherInv
<1>3. CASE BroadcasterStep
  BY <1>3, CommitInv, HandleManifestInv, HandleChunkInv, HandleQueryInv
  DEF BroadcasterStep
<1>4. CASE Reboot \/ Lose
  BY <1>4, EnvironmentInv
<1>5. QED
  BY <1>1, <1>2, <1>3, <1>4 DEF Next

(***************************************************************************)
(* The inductive invariant of the transfer: answers under way are true,    *)
(* and what the broadcaster's session holds is on its disk.                *)
(***************************************************************************)
THEOREM TransferInvariant == Spec => []TransferInv
BY TransferInit, TransferStep, PTL DEF Spec

(***************************************************************************)
(* Type correctness of both programs, the messages and the store.          *)
(***************************************************************************)
THEOREM TransferTypeCorrect == Spec => []TypeOK
<1>1. TransferInv => TypeOK
  BY DEF TransferInv
<1> QED
  BY <1>1, TransferInvariant, PTL

(***************************************************************************)
(* "complete: SHA-256 verified and committed" (ghost-publish) is printed   *)
(* only when it is so, for any file, number of rounds and faults.          *)
(***************************************************************************)
THEOREM ReportedCommitted == Spec => []ReportedIsCommitted
<1>1. TransferInv => ReportedIsCommitted
  BY DEF TransferInv
<1> QED
  BY <1>1, TransferInvariant, PTL

(***************************************************************************)
(* Whatever fails, removals that stop half way included, a receipt of a    *)
(* publication that is not complete never claims chunks that a restart of  *)
(* the broadcaster would lose, save those its next commit discards.        *)
(***************************************************************************)
THEOREM SessionSafe == Spec => []SessionOnDisk
<1>1. TransferInv => SessionOnDisk
  BY DEF TransferInv
<1> QED
  BY <1>1, TransferInvariant, PTL

-----------------------------------------------------------------------------
(***************************************************************************)
(* Taking turns.  While nothing has failed, each phase of the publisher    *)
(* says what is under way.  Between two rounds: nothing.                   *)
(***************************************************************************)
Idle == toBroadcaster = <<>> /\ committing = "no"

Undamaged == \A c \in Chunks : disk[c] # "bad" /\ (session # NoSession => session[c] # "bad")

\* after the manifest: it is on its way, or being committed, or answered
Offered ==
  \/ /\ Len(toBroadcaster) = 1 /\ toBroadcaster[1].type = "MANIFEST"
     /\ toPublisher = <<>> /\ committing = "no"
  \/ toBroadcaster = <<>> /\ toPublisher = <<>> /\ committing # "no"
  \/ /\ Idle /\ Len(toPublisher) <= 1
     /\ toPublisher # <<>> /\ Head(toPublisher).type = "RECEIPT" =>
          session # NoSession /\ Head(toPublisher).have = Has(session)

(***************************************************************************)
(* The chunks on their way are those sent in this round that the session   *)
(* lacks, each once; when it lacks none, and after the commit, there is    *)
(* none on its way that could be refused.                                  *)
(***************************************************************************)
Fresh ==
  \A i \in 1 .. Len(toBroadcaster) : toBroadcaster[i].type = "CHUNK" =>
    /\ toBroadcaster[i].bytes = "good"
    /\ toBroadcaster[i].chunk \in received \ Has(session)
    /\ \A j \in 1 .. i - 1 : toBroadcaster[j].type = "CHUNK" =>
         toBroadcaster[j].chunk # toBroadcaster[i].chunk

NoChunkOnItsWay == \A i \in 1 .. Len(toBroadcaster) : toBroadcaster[i].type # "CHUNK"

Streaming ==
  /\ committing # "notify"
  /\ \/ session # NoSession /\ committing = "no" /\ Has(session) \subseteq received /\ Fresh
     \/ (session = NoSession \/ committing # "no") /\ received = Chunks /\ NoChunkOnItsWay

OnlyChunksBefore(n) == \A i \in 1 .. n : toBroadcaster[i].type = "CHUNK"

\* after the chunks: the query is the last on its way, or it has been answered
Asked ==
  \/ /\ toPublisher = <<>> /\ toBroadcaster # <<>>
     /\ toBroadcaster[Len(toBroadcaster)].type = "QUERY"
     /\ OnlyChunksBefore(Len(toBroadcaster) - 1)
  \/ Idle /\ Len(toPublisher) <= 1

InTurn ==
  /\ pc # "broken"
  /\ pc \notin {"done", "failed"} => Undamaged
  /\ pc = "announce" => Idle /\ toPublisher = <<>>
  /\ pc = "offered" => Offered
  /\ pc = "sending" => toPublisher = <<>> /\ Streaming /\ OnlyChunksBefore(Len(toBroadcaster))
  /\ pc = "asked" => Streaming /\ Asked

TurnsInv == faults = 0 => InTurn

(***************************************************************************)
(* A step that leaves the count of faults at zero is not a fault.          *)
(***************************************************************************)
LEMMA FaultFree ==
  ASSUME TransferInv, Next, faults' = 0
  PROVE  faults = 0 /\ ~Fault
<1>1. faults \in Nat
  BY BroadcastAssumption DEF TransferInv, TypeOK
<1>2. ~Fault
  BY <1>1 DEF Fault
<1>3. faults' = faults \/ Fault
  <2>1. CASE PublisherStep
    BY <2>1, Zenon DEF PublisherStep, Announce, SendChunk, SendQuery, TakeAnswer, PublishAgain,
                       NoFault
  <2>2. CASE Timeout \/ Break \/ Reboot \/ Lose
    BY <2>2 DEF Timeout, Break, Reboot, Lose, NoFault
  <2>3. CASE Commit
    BY <2>3, Zenon DEF Commit, NoFault
  <2>4. CASE HandleManifest \/ HandleChunk \/ HandleQuery
    BY <2>4 DEF HandleManifest, HandleChunk, HandleQuery
  <2> QED
    BY <2>1, <2>2, <2>3, <2>4 DEF Next, BroadcasterStep
<1> QED
  BY <1>2, <1>3

(***************************************************************************)
(* The queue of requests after one is sent, and after one is taken.        *)
(***************************************************************************)
LEMMA RequestSent ==
  ASSUME TransferInv, NEW m \in Request, Send(m)
  PROVE  /\ Len(toBroadcaster) \in Nat /\ Len(toBroadcaster') = Len(toBroadcaster) + 1
         /\ toBroadcaster'[Len(toBroadcaster) + 1] = m
         /\ \A i \in 1 .. Len(toBroadcaster) : toBroadcaster'[i] = toBroadcaster[i]
BY AppendProperties, LenProperties DEF Send, TransferInv, TypeOK

LEMMA NoRequests == <<>> \in Seq(Request) /\ Len(<<>>) = 0
OBVIOUS

LEMMA RequestTaken ==
  ASSUME TransferInv, NEW type, Take(type)
  PROVE  /\ Len(toBroadcaster) \in Nat \ {0} /\ Len(toBroadcaster') = Len(toBroadcaster) - 1
         /\ Head(toBroadcaster) = toBroadcaster[1] /\ toBroadcaster[1].type = type
         /\ \A i \in 1 .. Len(toBroadcaster) - 1 : toBroadcaster'[i] = toBroadcaster[i + 1]
         /\ toBroadcaster' \in Seq(Request)
         /\ Len(toBroadcaster) = 1 => toBroadcaster' = <<>>
<1>1. toBroadcaster \in Seq(Request) /\ toBroadcaster # <<>>
      /\ toBroadcaster' = Tail(toBroadcaster) /\ Head(toBroadcaster).type = type
  BY DEF Take, TransferInv, TypeOK
<1>2. Len(toBroadcaster) \in Nat \ {0}
  BY <1>1, EmptySeq, LenProperties
<1>3. /\ Tail(toBroadcaster) \in Seq(Request) /\ Len(Tail(toBroadcaster)) = Len(toBroadcaster) - 1
      /\ Head(toBroadcaster) = toBroadcaster[1]
      /\ \A i \in 1 .. Len(toBroadcaster) - 1 : Tail(toBroadcaster)[i] = toBroadcaster[i + 1]
  BY <1>1, <1>2, HeadTailProperties
<1>4. Len(toBroadcaster) = 1 => Tail(toBroadcaster) = <<>>
  <2>1. Len(toBroadcaster) = 1 => Len(Tail(toBroadcaster)) = 0
    BY <1>2, <1>3
  <2> QED
    BY <1>3, <2>1, EmptySeq
<1> QED
  BY <1>1, <1>2, <1>3, <1>4

LEMMA AnswerSentAlone ==
  ASSUME toPublisher = <<>>, NEW m, Reply(m)
  PROVE  Len(toPublisher') = 1 /\ toPublisher' # <<>> /\ Head(toPublisher') = m
BY DEF Reply

LEMMA AnswerTaken ==
  ASSUME TransferInv, toPublisher # <<>>, Len(toPublisher) <= 1
  PROVE  Tail(toPublisher) = <<>>
<1>1. toPublisher \in Seq(Truthful) /\ Len(toPublisher) \in Nat \ {0}
  BY EmptySeq, LenProperties DEF TransferInv
<1>2. Tail(toPublisher) \in Seq(Truthful) /\ Len(Tail(toPublisher)) = Len(toPublisher) - 1
  BY <1>1, HeadTailProperties
<1> QED
  BY <1>1, <1>2, EmptySeq

(***************************************************************************)
(* The publisher's steps.  What it sends goes behind what it has sent.     *)
(***************************************************************************)
LEMMA AnnounceTurns ==
  ASSUME TransferInv, InTurn, Announce
  PROVE  InTurn'
<1>1. /\ pc = "announce" /\ pc' = "offered" /\ Send([type |-> "MANIFEST"])
      /\ UNCHANGED <<round, received, toPublisher, broadcasterVars, storeVars, faults>>
  BY DEF Announce
<1>2. Len(toBroadcaster) = 0
  BY <1>1 DEF InTurn, Idle
<1>3. Len(toBroadcaster') = 1 /\ toBroadcaster'[1].type = "MANIFEST"
  BY <1>1, <1>2, RequestSent DEF Request
<1> QED
  BY <1>1, <1>3 DEF InTurn, Idle, Offered, Undamaged, broadcasterVars, storeVars

LEMMA SendChunkTurns ==
  ASSUME TransferInv, InTurn, SendChunk, ~Fault
  PROVE  InTurn'
<1>1. PICK c \in Chunks \ received :
        /\ received' = received \cup {c}
        /\ Send([type |-> "CHUNK", chunk |-> c, bytes |-> "good"])
  BY DEF SendChunk
<1>2. /\ pc = "sending" /\ pc' = "sending"
      /\ UNCHANGED <<toPublisher, broadcasterVars, storeVars>>
  BY DEF SendChunk
<1> DEFINE m == [type |-> "CHUNK", chunk |-> c, bytes |-> "good"]
<1>3. m \in Request /\ m.type = "CHUNK" /\ m.chunk = c /\ m.bytes = "good"
  BY DEF Request
<1>4. /\ Len(toBroadcaster) \in Nat /\ Len(toBroadcaster') = Len(toBroadcaster) + 1
      /\ toBroadcaster'[Len(toBroadcaster) + 1] = m
      /\ \A i \in 1 .. Len(toBroadcaster) : toBroadcaster'[i] = toBroadcaster[i]
  BY <1>1, <1>3, RequestSent
<1> HIDE DEF m
<1>5. /\ toPublisher = <<>> /\ committing # "notify" /\ Undamaged
      /\ session # NoSession /\ committing = "no" /\ Has(session) \subseteq received /\ Fresh
      /\ OnlyChunksBefore(Len(toBroadcaster))
  BY <1>1, <1>2 DEF InTurn, Streaming
<1>6. Fresh'
  <2> SUFFICES ASSUME NEW i \in 1 .. Len(toBroadcaster) + 1, toBroadcaster'[i].type = "CHUNK"
               PROVE  /\ toBroadcaster'[i].bytes = "good"
                      /\ toBroadcaster'[i].chunk \in received' \ Has(session)
                      /\ \A j \in 1 .. i - 1 : toBroadcaster'[j].type = "CHUNK" =>
                           toBroadcaster'[j].chunk # toBroadcaster'[i].chunk
    BY <1>2, <1>4 DEF Fresh, Has, broadcasterVars
  <2>1. CASE i \in 1 .. Len(toBroadcaster)
    <3>1. /\ toBroadcaster'[i] = toBroadcaster[i]
          /\ \A j \in 1 .. i - 1 : toBroadcaster'[j] = toBroadcaster[j]
      BY <1>4, <2>1
    <3> QED
      BY <1>1, <1>5, <2>1, <3>1 DEF Fresh
  <2>2. CASE i = Len(toBroadcaster) + 1
    <3>1. \A j \in 1 .. i - 1 : j \in 1 .. Len(toBroadcaster) /\ toBroadcaster'[j] = toBroadcaster[j]
      BY <1>4, <2>2
    <3>2. \A j \in 1 .. i - 1 : toBroadcaster'[j].type = "CHUNK" => toBroadcaster'[j].chunk # c
      BY <1>1, <1>5, <3>1 DEF Fresh
    <3> QED
      BY <1>1, <1>3, <1>4, <1>5, <2>2, <3>2
  <2> QED
    BY <1>4, <2>1, <2>2
<1>7. Streaming'
  BY <1>1, <1>2, <1>5, <1>6 DEF Streaming, Has, broadcasterVars
<1>8. OnlyChunksBefore(Len(toBroadcaster))'
  BY <1>3, <1>4, <1>5 DEF OnlyChunksBefore
<1> QED
  BY <1>2, <1>5, <1>7, <1>8 DEF InTurn, Undamaged, broadcasterVars, storeVars

LEMMA SendQueryTurns ==
  ASSUME TransferInv, InTurn, SendQuery
  PROVE  InTurn'
<1>1. /\ pc = "sending" /\ pc' = "asked" /\ Send([type |-> "QUERY"])
      /\ UNCHANGED <<round, received, toPublisher, broadcasterVars, storeVars, faults>>
  BY DEF SendQuery
<1>2. /\ Len(toBroadcaster) \in Nat /\ Len(toBroadcaster') = Len(toBroadcaster) + 1
      /\ toBroadcaster'[Len(toBroadcaster) + 1].type = "QUERY"
      /\ \A i \in 1 .. Len(toBroadcaster) : toBroadcaster'[i] = toBroadcaster[i]
  BY <1>1, RequestSent DEF Request
<1>3. toPublisher = <<>> /\ Undamaged /\ Streaming /\ OnlyChunksBefore(Len(toBroadcaster))
  BY <1>1 DEF InTurn
<1>4. \A i \in 1 .. Len(toBroadcaster') : toBroadcaster'[i].type = "CHUNK" =>
        i \in 1 .. Len(toBroadcaster) /\ toBroadcaster'[i] = toBroadcaster[i]
  BY <1>2
<1>5. \A i \in 1 .. Len(toBroadcaster) : \A j \in 1 .. i - 1 : toBroadcaster'[j] = toBroadcaster[j]
  BY <1>2
<1>6. Fresh => Fresh'
  <2> SUFFICES ASSUME Fresh, NEW i \in 1 .. Len(toBroadcaster'), toBroadcaster'[i].type = "CHUNK"
               PROVE  /\ toBroadcaster'[i].bytes = "good"
                      /\ toBroadcaster'[i].chunk \in received \ Has(session)
                      /\ \A j \in 1 .. i - 1 : toBroadcaster'[j].type = "CHUNK" =>
                           toBroadcaster'[j].chunk # toBroadcaster'[i].chunk
    BY <1>1 DEF Fresh, Has, broadcasterVars
  <2> QED
    BY <1>4, <1>5 DEF Fresh
<1>7. NoChunkOnItsWay => NoChunkOnItsWay'
  BY <1>4 DEF NoChunkOnItsWay
<1>8. Streaming'
  BY <1>1, <1>3, <1>6, <1>7 DEF Streaming, Has, broadcasterVars
<1>9. Asked'
  BY <1>1, <1>2, <1>3 DEF Asked, OnlyChunksBefore
<1> QED
  BY <1>1, <1>3, <1>8, <1>9 DEF InTurn, Undamaged, broadcasterVars, storeVars

(***************************************************************************)
(* The publisher goes on when nothing else is under way.                   *)
(***************************************************************************)
LEMMA TakeAnswerTurns ==
  ASSUME TransferInv, InTurn, TakeAnswer
  PROVE  InTurn'
<1> DEFINE m == Head(toPublisher)
<1>1. /\ pc \in {"offered", "asked"} /\ toPublisher # <<>> /\ toPublisher' = Tail(toPublisher)
      /\ UNCHANGED <<toBroadcaster, broadcasterVars, storeVars, faults>>
      /\ \/ pc' = "done" \/ EndRound
         \/ /\ m.type = "RECEIPT" /\ received' = m.have
            /\ pc = "offered" /\ pc' = "sending"
  BY DEF TakeAnswer
<1>2. /\ Undamaged /\ Idle /\ Len(toPublisher) <= 1
      /\ pc = "offered" /\ m.type = "RECEIPT" => session # NoSession /\ m.have = Has(session)
  BY <1>1 DEF InTurn, Offered, Asked
<1>3. toPublisher' = <<>>
  BY <1>1, <1>2, AnswerTaken
<1>4. Idle' /\ Undamaged'
  BY <1>1, <1>2 DEF Idle, Undamaged, broadcasterVars, storeVars
<1>5. CASE pc' = "done"
  BY <1>5 DEF InTurn
<1>6. CASE EndRound
  BY <1>3, <1>4, <1>6 DEF InTurn, EndRound
<1>7. CASE m.type = "RECEIPT" /\ received' = m.have /\ pc = "offered" /\ pc' = "sending"
  <2>1. session # NoSession /\ received' = Has(session) /\ UNCHANGED <<session, committing>>
    BY <1>1, <1>2, <1>7 DEF broadcasterVars
  <2>2. toBroadcaster' = <<>> /\ Len(toBroadcaster') = 0 /\ committing' = "no"
    BY <1>4 DEF Idle
  <2>3. Fresh' /\ OnlyChunksBefore(Len(toBroadcaster))'
    BY <2>2 DEF Fresh, OnlyChunksBefore
  <2>4. Streaming'
    BY <2>1, <2>2, <2>3 DEF Streaming, Has
  <2> QED
    BY <1>3, <1>4, <1>7, <2>3, <2>4 DEF InTurn
<1> QED
  BY <1>1, <1>5, <1>6, <1>7

LEMMA TimeoutTurns ==
  ASSUME TransferInv, InTurn, Timeout, ~Fault
  PROVE  InTurn'
<1>1. /\ Idle /\ toPublisher = <<>> /\ EndRound /\ pc \in {"offered", "asked"}
      /\ UNCHANGED <<toBroadcaster, toPublisher, broadcasterVars, storeVars>>
  BY DEF Timeout, Idle
<1>2. Idle' /\ toPublisher' = <<>> /\ Undamaged'
  BY <1>1 DEF InTurn, Idle, Undamaged, broadcasterVars, storeVars
<1> QED
  BY <1>1, <1>2 DEF InTurn, EndRound

(***************************************************************************)
(* The broadcaster's steps.  What it commits is good, and only a manifest  *)
(* makes it report the commit.                                             *)
(***************************************************************************)
LEMMA CommitTurns ==
  ASSUME TransferInv, InTurn, Commit, ~Fault, pc \notin {"done", "failed"}
  PROVE  InTurn'
<1>1. committing # "no" /\ session # NoSession /\ Has(session) = Chunks
  BY DEF Commit, TransferInv
<1>2. AllGood(session)
  <2>1. session \in Contents /\ \A c \in Chunks : session[c] # "bad" /\ session[c] # "absent"
    BY <1>1 DEF InTurn, Undamaged, Has, TransferInv, TypeOK
  <2> QED
    BY <2>1 DEF AllGood, Contents
<1>3. /\ committing' = "no" /\ disk' = NoChunks /\ session' = NoSession
      /\ IF committing = "notify" THEN Reply([type |-> "COMPLETE"]) ELSE UNCHANGED toPublisher
      /\ UNCHANGED <<publisherVars, toBroadcaster>>
  BY <1>2, Zenon DEF Commit
<1>4. UNCHANGED <<pc, received, toBroadcaster>>
  BY <1>3 DEF publisherVars
<1>5. Undamaged'
  BY <1>3 DEF Undamaged, NoChunks
<1>6. pc # "announce"
  BY <1>1 DEF InTurn, Idle
<1>7. CASE pc = "offered"
  <2>1. toBroadcaster = <<>> /\ toPublisher = <<>>
    BY <1>1, <1>7 DEF InTurn, Offered, Idle
  <2>2. \/ toPublisher' = <<>>
        \/ toPublisher' # <<>> /\ Len(toPublisher') = 1 /\ Head(toPublisher').type = "COMPLETE"
    <3>1. CASE committing = "notify"
      BY <1>3, <2>1, <3>1, AnswerSentAlone
    <3>2. CASE committing # "notify"
      BY <1>3, <2>1, <3>2
    <3> QED
      BY <3>1, <3>2
  <2>3. Offered'
    BY <1>3, <1>4, <2>1, <2>2 DEF Offered, Idle
  <2> QED
    BY <1>4, <1>5, <1>7, <2>3 DEF InTurn
<1>8. CASE pc \in {"sending", "asked"}
  <2>1. committing # "notify" /\ received = Chunks /\ NoChunkOnItsWay
    BY <1>1, <1>8 DEF InTurn, Streaming
  <2>2. toPublisher' = toPublisher
    BY <1>3, <2>1
  <2>3. Streaming'
    BY <1>3, <1>4, <2>1 DEF Streaming, NoChunkOnItsWay
  <2>4. pc = "asked" => Asked'
    BY <1>1, <1>4, <2>2 DEF InTurn, Asked, Idle, OnlyChunksBefore
  <2> QED
    BY <1>4, <1>5, <1>8, <2>2, <2>3, <2>4 DEF InTurn, OnlyChunksBefore
<1> QED
  BY <1>4, <1>5, <1>6, <1>7, <1>8 DEF InTurn

LEMMA ManifestTurns ==
  ASSUME TransferInv, InTurn, HandleManifest, ~Fault, pc \notin {"done", "failed"}
  PROVE  InTurn'
<1>1. Take("MANIFEST") /\ committing = "no" /\ UNCHANGED <<pc, received>>
  BY DEF HandleManifest, Take, publisherVars
<1>2. /\ Len(toBroadcaster) \in Nat \ {0} /\ toBroadcaster[1].type = "MANIFEST"
      /\ Len(toBroadcaster) = 1 => toBroadcaster' = <<>>
  BY <1>1, RequestTaken
<1>3. toBroadcaster # <<>>
  BY <1>1 DEF Take
<1>4. pc = "offered"
  <2>1. pc # "announce"
    BY <1>3 DEF InTurn, Idle
  <2>2. pc # "sending"
    BY <1>2 DEF InTurn, OnlyChunksBefore
  <2>3. pc # "asked"
    BY <1>2, <1>3 DEF InTurn, Asked, Idle, OnlyChunksBefore
  <2> QED
    BY <2>1, <2>2, <2>3 DEF TransferInv, TypeOK, InTurn
<1>5. Len(toBroadcaster) = 1 /\ toPublisher = <<>> /\ toBroadcaster' = <<>> /\ Undamaged
  BY <1>2, <1>3, <1>4 DEF InTurn, Offered, Idle
<1>6. /\ UNCHANGED disk
      /\ \/ /\ session' = disk /\ committing' = "notify" /\ UNCHANGED toPublisher
         \/ /\ session' = disk /\ UNCHANGED committing
            /\ Reply([type |-> "RECEIPT", have |-> Has(disk)])
         \/ /\ UNCHANGED <<session, committing>>
            /\ \E type \in {"COMPLETE", "ERROR"} : Reply([type |-> type])
  BY DEF HandleManifest, Receipt, storeVars
<1>7. session' \in {session, disk} /\ Undamaged'
  BY <1>5, <1>6 DEF Undamaged
<1>8. Offered'
  <2>1. CASE session' = disk /\ committing' = "notify" /\ UNCHANGED toPublisher
    BY <1>5, <2>1 DEF Offered
  <2>2. CASE /\ session' = disk /\ UNCHANGED committing
             /\ Reply([type |-> "RECEIPT", have |-> Has(disk)])
    <3>1. Len(toPublisher') = 1 /\ Head(toPublisher') = [type |-> "RECEIPT", have |-> Has(disk)]
      BY <1>5, <2>2, AnswerSentAlone
    <3>2. session' # NoSession /\ Has(session') = Has(disk)
      BY <2>2, BroadcastAssumption DEF TransferInv, TypeOK
    <3> QED
      BY <1>1, <1>5, <2>2, <3>1, <3>2 DEF Offered, Idle, Has
  <2>3. ASSUME UNCHANGED <<session, committing>>, NEW type \in {"COMPLETE", "ERROR"},
               Reply([type |-> type])
        PROVE  Offered'
    BY <1>1, <1>5, <2>3, AnswerSentAlone DEF Offered, Idle
  <2> QED
    BY <1>6, <2>1, <2>2, <2>3
<1> QED
  BY <1>1, <1>4, <1>7, <1>8 DEF InTurn

(***************************************************************************)
(* A chunk is not refused: the session is open and lacks it.  The last one *)
(* that it lacks is the last on its way.                                   *)
(***************************************************************************)
LEMMA ChunkTurns ==
  ASSUME TransferInv, InTurn, HandleChunk, ~Fault, pc \notin {"done", "failed"}
  PROVE  InTurn'
<1> DEFINE m == toBroadcaster[1]
<1>1. Take("CHUNK") /\ committing = "no" /\ UNCHANGED <<pc, received>>
  BY DEF HandleChunk, Take, publisherVars
<1>2. /\ Len(toBroadcaster) \in Nat \ {0} /\ Len(toBroadcaster') = Len(toBroadcaster) - 1
      /\ Head(toBroadcaster) = m /\ m.type = "CHUNK"
      /\ \A i \in 1 .. Len(toBroadcaster) - 1 : toBroadcaster'[i] = toBroadcaster[i + 1]
      /\ Len(toBroadcaster) = 1 => toBroadcaster' = <<>>
  BY <1>1, RequestTaken
<1>3. toBroadcaster # <<>>
  BY <1>1 DEF Take
<1>4. pc \in {"sending", "asked"}
  <2>1. pc # "announce"
    BY <1>3 DEF InTurn, Idle
  <2>2. pc # "offered"
    BY <1>2, <1>3 DEF InTurn, Offered, Idle
  <2> QED
    BY <2>1, <2>2 DEF TransferInv, TypeOK, InTurn
<1>5. Streaming /\ Undamaged /\ toPublisher = <<>>
  BY <1>3, <1>4 DEF InTurn, Asked, Idle
<1>6. ~NoChunkOnItsWay
  BY <1>2 DEF NoChunkOnItsWay
<1>7. session # NoSession /\ Has(session) \subseteq received /\ Fresh
  BY <1>5, <1>6 DEF Streaming
<1>8. m.bytes = "good" /\ m.chunk \in received \ Has(session) /\ received \subseteq Chunks
  BY <1>2, <1>7 DEF Fresh, TransferInv, TypeOK
<1>9. session[m.chunk] = "absent"
  BY <1>8 DEF Has
<1>10. /\ session' = [session EXCEPT ![m.chunk] = "good"]
       /\ disk' = [disk EXCEPT ![m.chunk] = "good"]
       /\ committing' = IF Has(session') = Chunks THEN "silent" ELSE "no"
       /\ UNCHANGED toPublisher
  BY <1>2, <1>7, <1>8, <1>9 DEF HandleChunk
<1>11. session \in Contents /\ disk \in Contents
  BY <1>7 DEF TransferInv, TypeOK
<1>12. session' \in Contents /\ session' # NoSession /\ Undamaged'
  BY <1>5, <1>7, <1>8, <1>10, <1>11, BroadcastAssumption DEF Undamaged, Contents
<1>13. Has(session') = Has(session) \cup {m.chunk}
  BY <1>8, <1>10, <1>11 DEF Has, Contents
<1>14. \A i \in 1 .. Len(toBroadcaster') :
         /\ i + 1 \in 2 .. Len(toBroadcaster) /\ toBroadcaster'[i] = toBroadcaster[i + 1]
         /\ \A j \in 1 .. i - 1 : j + 1 \in 1 .. i /\ toBroadcaster'[j] = toBroadcaster[j + 1]
         /\ 1 \in 1 .. i + 1 - 1
  BY <1>2
<1>15. ASSUME NEW i \in 1 .. Len(toBroadcaster'), toBroadcaster'[i].type = "CHUNK"
       PROVE  /\ toBroadcaster'[i].bytes = "good"
              /\ toBroadcaster'[i].chunk \in received \ Has(session')
              /\ \A j \in 1 .. i - 1 : toBroadcaster'[j].type = "CHUNK" =>
                   toBroadcaster'[j].chunk # toBroadcaster'[i].chunk
  <2>1. /\ i + 1 \in 1 .. Len(toBroadcaster) /\ toBroadcaster'[i] = toBroadcaster[i + 1]
        /\ i + 1 - 1 = i
    BY <1>2, <1>14
  <2>2. /\ toBroadcaster[i + 1].bytes = "good"
        /\ toBroadcaster[i + 1].chunk \in received \ Has(session)
        /\ \A j \in 1 .. i : toBroadcaster[j].type = "CHUNK" =>
             toBroadcaster[j].chunk # toBroadcaster[i + 1].chunk
    BY <1>7, <1>15, <2>1 DEF Fresh
  <2>3. m.chunk # toBroadcaster[i + 1].chunk
    BY <1>2, <2>2
  <2>4. \A j \in 1 .. i - 1 : j + 1 \in 1 .. i /\ toBroadcaster'[j] = toBroadcaster[j + 1]
    BY <1>14
  <2>5. \A j \in 1 .. i - 1 : toBroadcaster'[j].type = "CHUNK" =>
          toBroadcaster'[j].chunk # toBroadcaster'[i].chunk
    BY <2>1, <2>2, <2>4
  <2> QED
    BY <1>13, <2>1, <2>2, <2>3, <2>5
<1>16. Streaming'
  <2>1. CASE Has(session') = Chunks
    <3>1. NoChunkOnItsWay'
      BY <1>1, <1>8, <1>15, <2>1 DEF NoChunkOnItsWay
    <3>2. received' = Chunks
      BY <1>1, <1>7, <1>8, <1>13, <2>1
    <3> QED
      BY <1>10, <2>1, <3>1, <3>2 DEF Streaming
  <2>2. CASE Has(session') # Chunks
    <3>1. Fresh'
      BY <1>1, <1>15 DEF Fresh, Has
    <3>2. Has(session') \subseteq received' /\ committing' = "no"
      BY <1>1, <1>7, <1>8, <1>10, <1>13, <2>2
    <3> QED
      BY <1>12, <3>1, <3>2 DEF Streaming, Has
  <2> QED
    BY <2>1, <2>2
<1>17. CASE pc = "sending"
  <2>1. OnlyChunksBefore(Len(toBroadcaster))'
    BY <1>14, <1>17 DEF InTurn, OnlyChunksBefore
  <2> QED
    BY <1>1, <1>5, <1>10, <1>12, <1>16, <1>17, <2>1 DEF InTurn
<1>18. CASE pc = "asked"
  <2>1. /\ toBroadcaster[Len(toBroadcaster)].type = "QUERY"
        /\ OnlyChunksBefore(Len(toBroadcaster) - 1)
    BY <1>3, <1>18 DEF InTurn, Asked, Idle
  <2>2. Len(toBroadcaster) # 1
    BY <1>2, <2>1
  <2>3. /\ Len(toBroadcaster') \in Nat \ {0}
        /\ toBroadcaster'[Len(toBroadcaster')] = toBroadcaster[Len(toBroadcaster)]
    BY <1>2, <2>2
  <2>4. \A i \in 1 .. Len(toBroadcaster') - 1 : toBroadcaster'[i].type = "CHUNK"
    BY <1>2, <2>1 DEF OnlyChunksBefore
  <2>5. toBroadcaster' # <<>>
    BY <2>3, NoRequests
  <2>6. Asked'
    BY <1>5, <1>10, <2>1, <2>3, <2>4, <2>5 DEF Asked, OnlyChunksBefore
  <2> QED
    BY <1>1, <1>12, <1>16, <1>18, <2>6 DEF InTurn
<1> QED
  BY <1>4, <1>17, <1>18

LEMMA QueryTurns ==
  ASSUME TransferInv, InTurn, HandleQuery, pc \notin {"done", "failed"}
  PROVE  InTurn'
<1>1. /\ Take("QUERY") /\ committing = "no"
      /\ UNCHANGED <<pc, received, session, committing, disk>>
      /\ \E a \in Answer : Reply(a)
  BY DEF HandleQuery, Take, Receipt, Answer, Has, publisherVars, storeVars
<1>2. /\ Len(toBroadcaster) \in Nat \ {0} /\ toBroadcaster[1].type = "QUERY"
      /\ Len(toBroadcaster) = 1 => toBroadcaster' = <<>>
  BY <1>1, RequestTaken
<1>3. toBroadcaster # <<>>
  BY <1>1 DEF Take
<1>4. pc = "asked"
  <2>1. pc # "announce"
    BY <1>3 DEF InTurn, Idle
  <2>2. pc # "offered"
    BY <1>2, <1>3 DEF InTurn, Offered, Idle
  <2>3. pc # "sending"
    BY <1>2 DEF InTurn, OnlyChunksBefore
  <2> QED
    BY <2>1, <2>2, <2>3 DEF TransferInv, TypeOK, InTurn
<1>5. Streaming /\ toPublisher = <<>> /\ Undamaged /\ OnlyChunksBefore(Len(toBroadcaster) - 1)
  BY <1>3, <1>4 DEF InTurn, Asked, Idle
<1>6. toBroadcaster' = <<>>
  <2>1. \A n \in Nat \ {0, 1} : 1 \in 1 .. n - 1
    OBVIOUS
  <2>2. Len(toBroadcaster) # 1 => 1 \in 1 .. Len(toBroadcaster) - 1
    BY <1>2, <2>1
  <2> QED
    BY <1>2, <1>5, <2>2 DEF OnlyChunksBefore
<1>7. Idle' /\ Len(toPublisher') <= 1
  <2>1. Len(toPublisher') = 1
    BY <1>1, <1>5, AnswerSentAlone
  <2> QED
    BY <1>1, <1>6, <2>1 DEF Idle
<1>8. Fresh' /\ NoChunkOnItsWay'
  BY <1>6, NoRequests DEF Fresh, NoChunkOnItsWay
<1>9. Streaming'
  BY <1>1, <1>5, <1>8 DEF Streaming, Has
<1> QED
  BY <1>1, <1>4, <1>5, <1>7, <1>9 DEF InTurn, Undamaged, Asked

(***************************************************************************)
(* Every step that is no fault keeps the turns.                            *)
(***************************************************************************)
LEMMA TurnsStep == TransferInv /\ TurnsInv /\ [Next]_vars => TurnsInv'
<1> SUFFICES ASSUME TransferInv, TurnsInv, [Next]_vars, faults' = 0
             PROVE  InTurn'
  BY DEF TurnsInv
<1>1. CASE UNCHANGED vars
  BY <1>1 DEF TurnsInv, InTurn, Undamaged, Idle, Offered, Streaming, Fresh, NoChunkOnItsWay,
              OnlyChunksBefore, Asked, Has, vars, publisherVars, broadcasterVars, storeVars
<1>2. CASE Next
  <2>1. InTurn /\ ~Fault
    BY <1>2, FaultFree DEF TurnsInv
  <2>2. ~PublishAgain /\ ~Break /\ ~Reboot /\ ~Lose
    BY <2>1 DEF InTurn, PublishAgain, Break, Reboot, Lose
  <2>3. CASE PublisherStep \/ Timeout
    BY <2>1, <2>2, <2>3, AnnounceTurns, SendChunkTurns, SendQueryTurns, TakeAnswerTurns,
       TimeoutTurns DEF PublisherStep
  <2>4. CASE BroadcasterStep
    <3>1. CASE pc \in {"done", "failed"}
      <4>1. pc' = pc
        BY <2>4, BroadcasterFrame DEF publisherVars
      <4> QED
        BY <3>1, <4>1 DEF InTurn
    <3>2. CASE pc \notin {"done", "failed"}
      BY <2>1, <2>4, <3>2, CommitTurns, ManifestTurns, ChunkTurns, QueryTurns
      DEF BroadcasterStep
    <3> QED
      BY <3>1, <3>2
  <2> QED
    BY <1>2, <2>2, <2>3, <2>4 DEF Next
<1> QED
  BY <1>1, <1>2

(***************************************************************************)
(* While nothing fails the two programs never transmit at the same time:   *)
(* no answer is on its way when the publisher announces or sends chunks.   *)
(***************************************************************************)
THEOREM NeverSimultaneous == Spec => []NoSimultaneousTransmission
<1>1. Init => TurnsInv
  BY DEF Init, TurnsInv, InTurn, Undamaged, Idle, NoChunks
<1>2. TurnsInv => NoSimultaneousTransmission
  BY DEF TurnsInv, InTurn, NoSimultaneousTransmission
<1> QED
  BY <1>1, <1>2, TransferInvariant, TurnsStep, PTL DEF Spec

-----------------------------------------------------------------------------
(***************************************************************************)
(* A step of the transfer is a Receive, a Lose, a Finish or a stutter of   *)
(* VerifiedStore.                                                          *)
(***************************************************************************)
LEMMA StoreStep == TransferInv /\ [Next]_vars => [Verified!Next]_Verified!vars
<1> SUFFICES ASSUME TransferInv, [Next]_vars
             PROVE  [Verified!Next]_Verified!vars
  OBVIOUS
<1> DEFINE Good == {c \in Chunks : disk[c] = "good"}
           Have == IF complete THEN Chunks ELSE Good
<1>1. CASE UNCHANGED <<disk, complete>>
  BY <1>1 DEF Verified!vars
<1>2. CASE Commit
  <2>1. CASE AllGood(session)
    <3>1. complete \/ Good = Chunks
      BY <1>2, <2>1 DEF Commit, TransferInv, SessionOnDisk, Has, AllGood
    <3>2. Have = Chunks
      BY <3>1
    <3>3. complete' = TRUE \/ UNCHANGED <<disk, complete>>
      BY <1>2, <2>1 DEF Commit
    <3> QED
      BY <1>1, <3>2, <3>3 DEF Verified!Next, Verified!Finish
  <2>2. CASE ~AllGood(session)
    <3>1. complete' = complete /\ Good' \subseteq Good
      BY <1>2, <2>2 DEF Commit, RemoveSome, NoChunks, TransferInv, TypeOK, Contents
    <3>2. CASE complete
      BY <3>1, <3>2 DEF Verified!vars
    <3>3. CASE ~complete
      <4>1. Have \ (Good \ Good') = Good' /\ Have' = Good'
        BY <3>1, <3>3
      <4> QED
        BY <3>1, <3>3, <4>1 DEF Verified!Next, Verified!Lose
    <3> QED
      BY <3>2, <3>3
  <2>3. QED
    BY <2>1, <2>2
<1>3. CASE HandleChunk
  <2>1. complete' = complete
    BY <1>3 DEF HandleChunk, storeVars
  <2>2. PICK c \in Chunks, b \in {"good", "bad"} :
          disk' \in {disk, [disk EXCEPT ![c] = b]}
    <3>1. Head(toBroadcaster) \in Request /\ Head(toBroadcaster).type = "CHUNK"
      BY <1>3, HeadTailProperties DEF HandleChunk, Take, TransferInv, TypeOK
    <3>2. /\ Head(toBroadcaster).chunk \in Chunks
          /\ Head(toBroadcaster).bytes \in {"good", "bad"}
      BY <3>1 DEF Request
    <3> QED
      BY <1>3, <3>2 DEF HandleChunk, storeVars
  <2>3. \/ Good' = Good
        \/ c \notin Good /\ Good' = Good \cup {c}
        \/ Good' = Good \ {c}
    BY <2>2 DEF TransferInv, TypeOK, Contents
  <2>4. CASE complete
    BY <2>1, <2>4 DEF Verified!vars
  <2>5. CASE ~complete
    BY <2>1, <2>2, <2>3, <2>5
    DEF Verified!Next, Verified!Receive, Verified!Lose, Verified!vars
  <2>6. QED
    BY <2>4, <2>5
<1>4. CASE ~Commit /\ ~HandleChunk
  <2>1. UNCHANGED <<disk, complete>>
    BY <1>4
    DEF Next, PublisherStep, Announce, SendChunk, SendQuery, TakeAnswer, PublishAgain,
        Timeout, Break, BroadcasterStep, HandleManifest, HandleQuery, Reboot, Lose,
        vars, storeVars
  <2> QED
    BY <1>1, <2>1
<1>5. QED
  BY <1>2, <1>3, <1>4

LEMMA StoreInit == Init => Verified!Init
BY DEF Init, Verified!Init, NoChunks

(***************************************************************************)
(* The receipt-driven transfer implements VerifiedStore: the broadcaster's *)
(* object appears in one step out of chunks that are durable and correct.  *)
(***************************************************************************)
THEOREM TransferImplementsVerified == Spec => ImplementsVerifiedStore
BY TransferInvariant, StoreInit, StoreStep, PTL
DEF Spec, ImplementsVerifiedStore, Verified!Spec

=============================================================================
