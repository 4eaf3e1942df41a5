------------------------ MODULE PublicationStoreProofs ------------------------
(***************************************************************************)
(* Proofs about PublicationStore, for every set of chunks and manifests;   *)
(* the last is about the store with the history variable held.             *)
(***************************************************************************)
EXTENDS MCPublicationStore, TLAPS

(***************************************************************************)
(* Type correctness of the store's files and of the processes that work on *)
(* them, through every operation, failed write and stop.                   *)
(***************************************************************************)
THEOREM TypeCorrect == Spec => []TypeOK
<1>1. Init => TypeOK
  BY DEF Init, TypeOK, NoChunks, Bytes
<1>2. TypeOK /\ [Next]_vars => TypeOK'
  <2> SUFFICES ASSUME TypeOK, [Next]_vars
               PROVE  TypeOK'
    OBVIOUS
  <2> USE DEF TypeOK, Bytes, NoChunks, objectVars, partialVars, knownVars,
              ownerVars, cliVars, files
  <2>1. CASE StartNode
    BY <2>1 DEF StartNode, HasPartial
  <2>2. CASE LoadPartial
    BY <2>2 DEF LoadPartial, Begin, Error, Stop, Idle, HasPartial
  <2>3. CASE BeginAcquisition
    BY <2>3 DEF BeginAcquisition, Begin, Error, Stop, Idle
  <2>4. CASE Crash
    BY <2>4 DEF Crash, Stop
  <2>5. ASSUME NEW m \in Manifests, SaveKnown(m) PROVE TypeOK'
    BY <2>5 DEF SaveKnown
  <2>6. ASSUME NEW m \in Manifests, AddFile(m) PROVE TypeOK'
    BY <2>6 DEF AddFile
  <2>7. ASSUME NEW c \in Chunks, NEW b \in {"good", "bad"}, Add(c, b)
        PROVE TypeOK'
    BY <2>7 DEF Add, Error, Stop, Idle
  <2>8. CASE Verify
    BY <2>8 DEF Verify
  <2>9. CASE WriteContent
    BY <2>9 DEF WriteContent, Proceed, Error, Stop, Idle
  <2>10. CASE WriteManifest
    BY <2>10 DEF WriteManifest, Proceed, Error, Stop, Idle
  <2>11. CASE WriteMarker
    BY <2>11 DEF WriteMarker, Error, Stop, Idle
  <2>12. CASE RemoveManifest
    BY <2>12 DEF RemoveManifest
  <2>13. ASSUME NEW c \in Chunks, RemoveChunk(c) PROVE TypeOK'
    BY <2>13 DEF RemoveChunk
  <2>14. CASE RemoveDone
    BY <2>14 DEF RemoveDone, Begin, Error, Stop, Idle
  <2>15. CASE RemoveFails
    BY <2>15 DEF RemoveFails, Error, Stop, Idle
  <2>16. CASE CatalogStep
    BY <2>16 DEF CatalogStep, CatalogKnown, CatalogReadPartial, CatalogMkdir,
           CatalogBegin, CatalogComplete
  <2>17. CASE CliReturns
    BY <2>17 DEF CliReturns
  <2>18. CASE UNCHANGED vars
    BY <2>18 DEF vars
  <2>19. QED
    BY <2>1, <2>2, <2>3, <2>4, <2>5, <2>6, <2>7, <2>8, <2>9, <2>10, <2>11, <2>12, <2>13, <2>14, <2>15, <2>16, <2>17, <2>18
    DEF Next, OwnerStep
<1>3. QED
  BY <1>1, <1>2, PTL DEF Spec

(***************************************************************************)
(* The inductive invariant: type correctness, what each point inside a     *)
(* store operation has already made true (Progress), and the three safety  *)
(* invariants that follow from it.                                         *)
(***************************************************************************)
LEMMA InitStoreInv == Init => StoreInv
BY DEF Init, StoreInv, TypeOK, Bytes, NoChunks, MarkerMeansVerified,
       ReceiptsAreDurable, OnlyVerifiedCommitted, Progress, StoreAssumption

(***************************************************************************)
(* Every store operation, step by step, preserves the invariant.           *)
(***************************************************************************)
LEMMA NextStoreInv == StoreInv /\ TypeOK' /\ [Next]_vars => StoreInv'
<1> SUFFICES ASSUME StoreInv, TypeOK', [Next]_vars
             PROVE  StoreInv'
  OBVIOUS
<1> USE StoreAssumption
    DEF StoreInv, TypeOK, Bytes, NoChunks, objectVars, partialVars, knownVars,
        ownerVars, cliVars, files, MarkerMeansVerified, ReceiptsAreDurable,
        OnlyVerifiedCommitted, Progress, Complete, AllReceived, AllGood
<1>1. CASE StartNode
  BY <1>1 DEF StartNode, HasPartial
<1>2. CASE LoadPartial
  BY <1>2 DEF LoadPartial, Begin, Error, Stop, Idle, HasPartial
<1>3. CASE BeginAcquisition
  BY <1>3 DEF BeginAcquisition, Begin, Error, Stop, Idle
<1>4. CASE Crash
  BY <1>4 DEF Crash, Stop
<1>5. ASSUME NEW m \in Manifests, SaveKnown(m) PROVE StoreInv'
  BY <1>5 DEF SaveKnown
<1>6. ASSUME NEW m \in Manifests, AddFile(m) PROVE StoreInv'
  BY <1>6 DEF AddFile
<1>7. ASSUME NEW c \in Chunks, NEW b \in {"good", "bad"}, Add(c, b)
      PROVE StoreInv'
  BY <1>7 DEF Add, Error, Stop, Idle
<1>8. CASE Verify
  BY <1>8 DEF Verify
<1>9. CASE WriteContent
  BY <1>9 DEF WriteContent, Proceed, Error, Stop, Idle
<1>10. CASE WriteManifest
  BY <1>10 DEF WriteManifest, Proceed, Error, Stop, Idle
<1>11. CASE WriteMarker
  BY <1>11 DEF WriteMarker, Error, Stop, Idle
<1>12. CASE RemoveManifest
  BY <1>12 DEF RemoveManifest
<1>13. ASSUME NEW c \in Chunks, RemoveChunk(c) PROVE StoreInv'
  BY <1>13 DEF RemoveChunk
<1>14. CASE RemoveDone
  BY <1>14 DEF RemoveDone, Begin, Error, Stop, Idle
<1>15. CASE RemoveFails
  BY <1>15 DEF RemoveFails, Error, Stop, Idle
<1>16. CASE CatalogStep
  BY <1>16 DEF CatalogStep, CatalogKnown, CatalogReadPartial, CatalogMkdir,
         CatalogBegin, CatalogComplete
<1>17. CASE CliReturns
  BY <1>17 DEF CliReturns
<1>18. CASE UNCHANGED vars
  BY <1>18 DEF vars
<1>19. QED
  BY <1>1, <1>2, <1>3, <1>4, <1>5, <1>6, <1>7, <1>8, <1>9, <1>10, <1>11, <1>12, <1>13, <1>14, <1>15, <1>16, <1>17, <1>18
  DEF Next, OwnerStep

(***************************************************************************)
(* The inductive invariant holds wherever a store operation is stopped.    *)
(***************************************************************************)
THEOREM StoreInvariant == Spec => []StoreInv
BY InitStoreInv, NextStoreInv, TypeCorrect, PTL DEF Spec

(***************************************************************************)
(* A complete marker always stands beside a manifest and verified content, *)
(* wherever Commit was interrupted.                                        *)
(***************************************************************************)
THEOREM MarkerSafe == Spec => []MarkerMeansVerified
BY StoreInvariant, PTL DEF StoreInv

(***************************************************************************)
(* The receipt state the node requests from is never ahead of the disk.    *)
(***************************************************************************)
THEOREM ReceiptsSafe == Spec => []ReceiptsAreDurable
BY StoreInvariant, PTL DEF StoreInv

(***************************************************************************)
(* Only an assembly whose every chunk verified is written as an object.    *)
(***************************************************************************)
THEOREM CommitSafe == Spec => []OnlyVerifiedCommitted
BY StoreInvariant, PTL DEF StoreInv

(***************************************************************************)
(* Only the three writes of Commit touch objects/<id>, and each of them    *)
(* leaves a complete object complete.                                      *)
(***************************************************************************)
LEMMA ObjectWrites ==
  ASSUME StoreInv, [Next]_vars
  PROVE  \/ UNCHANGED objectVars
         \/ pc = "content" /\ WriteContent
         \/ pc = "manifest" /\ WriteManifest
         \/ pc = "marker" /\ WriteMarker
<1>1. CASE UNCHANGED vars
  BY <1>1 DEF vars, files
<1>2. CASE OwnerStep
  BY <1>2 DEF OwnerStep, StartNode, LoadPartial, BeginAcquisition, Crash,
     SaveKnown, AddFile, Add, Verify, WriteContent, WriteManifest, WriteMarker,
     RemoveManifest, RemoveChunk, RemoveDone, RemoveFails, files
<1>3. CASE CatalogStep \/ CliReturns
  BY <1>3 DEF CatalogStep, CatalogKnown, CatalogReadPartial, CatalogMkdir,
     CatalogBegin, CatalogComplete, CliReturns, files, objectVars
<1>4. QED
  BY <1>1, <1>2, <1>3 DEF Next

(***************************************************************************)
(* No step takes a complete object back (content, manifest or marker).     *)
(***************************************************************************)
LEMMA CompleteStep == StoreInv /\ [Next]_vars => (Complete => Complete')
<1> SUFFICES ASSUME StoreInv, [Next]_vars, Complete
             PROVE  Complete'
  OBVIOUS
<1> USE DEF Complete
<1>1. CASE UNCHANGED objectVars
  BY <1>1 DEF objectVars
<1>2. CASE pc = "content" /\ WriteContent
  BY <1>2 DEF WriteContent
<1>3. CASE pc = "manifest" /\ WriteManifest
  BY <1>3, StoreAssumption
  DEF WriteManifest, StoreInv, TypeOK, OnlyVerifiedCommitted
<1>4. CASE pc = "marker" /\ WriteMarker
  BY <1>4 DEF WriteMarker
<1>5. QED
  BY <1>1, <1>2, <1>3, <1>4, ObjectWrites

(***************************************************************************)
(* A complete publication stays complete through every later step.         *)
(***************************************************************************)
THEOREM CompleteStays == Spec => CompleteIsStable
BY StoreInvariant, CompleteStep, PTL DEF Spec, CompleteIsStable

(***************************************************************************)
(* A chunk of a finished download disappears only after the object is      *)
(* complete, in an add, or when the partial could not be read at startup.  *)
(***************************************************************************)
LEMMA DownloadStep ==
  StoreInv /\ [Next]_vars =>
    (AllGood(chunkFile) /\ (\E c \in Chunks : chunkFile'[c] = "absent")
       => Complete \/ owner = "add" \/ after = "unreadable")
<1> SUFFICES ASSUME StoreInv, [Next]_vars, AllGood(chunkFile),
                    NEW c \in Chunks, chunkFile'[c] = "absent"
             PROVE  Complete \/ owner = "add" \/ after = "unreadable"
  OBVIOUS
<1>1. chunkFile' # chunkFile
  BY DEF AllGood
<1>2. \/ \E d \in Chunks : RemoveChunk(d)
      \/ \E d \in Chunks, b \in {"good", "bad"} : Add(d, b)
  BY <1>1 DEF Next, OwnerStep, CatalogStep, vars, files, partialVars,
     StartNode, LoadPartial, BeginAcquisition, Crash, SaveKnown, AddFile,
     Verify, WriteContent, WriteManifest, WriteMarker, RemoveManifest,
     RemoveDone, RemoveFails, Begin, CatalogKnown, CatalogReadPartial,
     CatalogMkdir, CatalogBegin, CatalogComplete, CliReturns
<1>3. ASSUME NEW d \in Chunks, RemoveChunk(d)
      PROVE  Complete \/ owner = "add" \/ after = "unreadable"
  BY <1>3 DEF RemoveChunk, StoreInv, TypeOK, Progress
<1>4. ASSUME NEW d \in Chunks, NEW b \in {"good", "bad"}, Add(d, b)
      PROVE  FALSE
  BY <1>4 DEF Add, AllGood, StoreInv, TypeOK
<1>5. QED
  BY <1>2, <1>3, <1>4

(***************************************************************************)
(* Nothing but a commit, an add or an unreadable partial takes a finished  *)
(* download apart.                                                         *)
(***************************************************************************)
THEOREM DownloadSafe == Spec => DownloadNotLost
BY StoreInvariant, DownloadStep, PTL DEF Spec, DownloadNotLost

(***************************************************************************)
(* How chunk files change, for the refinement.  Files change one chunk at a time;  *)
(* the step that makes the object complete is the one that writes the      *)
(* marker, and by then every chunk file is durable and correct.            *)
(***************************************************************************)
LEMMA ChunkWrites ==
  ASSUME StoreInv, [Next]_vars
  PROVE  \/ UNCHANGED chunkFile
         \/ \E d \in Chunks, b \in Bytes : chunkFile' = [chunkFile EXCEPT ![d] = b]
<1>1. CASE UNCHANGED vars
  BY <1>1 DEF vars, files, partialVars
<1>2. CASE CatalogStep \/ CliReturns
  BY <1>2 DEF CatalogStep, CatalogKnown, CatalogReadPartial, CatalogMkdir,
     CatalogBegin, CatalogComplete, CliReturns, files, partialVars
<1>3. ASSUME NEW d \in Chunks, NEW b \in {"good", "bad"}, Add(d, b)
      PROVE  \/ UNCHANGED chunkFile
             \/ chunkFile' = [chunkFile EXCEPT ![d] = b]
  BY <1>3 DEF Add
<1>4. ASSUME NEW d \in Chunks, RemoveChunk(d)
      PROVE  chunkFile' = [chunkFile EXCEPT ![d] = "absent"]
  BY <1>4 DEF RemoveChunk
<1>5. CASE \/ StartNode \/ LoadPartial \/ BeginAcquisition \/ Crash
           \/ \E m \in Manifests : SaveKnown(m) \/ AddFile(m)
           \/ Verify \/ WriteContent \/ WriteManifest \/ WriteMarker
           \/ RemoveManifest \/ RemoveDone \/ RemoveFails
  BY <1>5 DEF StartNode, LoadPartial, BeginAcquisition, Crash, SaveKnown,
     AddFile, Verify, WriteContent, WriteManifest, WriteMarker,
     RemoveManifest, RemoveDone, RemoveFails, Begin, files, partialVars
<1>6. QED
  BY <1>1, <1>2, <1>3, <1>4, <1>5 DEF Next, OwnerStep, Bytes

(***************************************************************************)
(* A step of the store is a Receive, a Lose, a Finish or a stutter.        *)
(***************************************************************************)
LEMMA VerifiedStep == StoreInv /\ [Next]_vars => [Verified!Next]_Verified!vars
<1> SUFFICES ASSUME StoreInv, [Next]_vars
             PROVE  [Verified!Next]_Verified!vars
  OBVIOUS
<1> DEFINE Good == {c \in Chunks : chunkFile[c] = "good"}
<1>1. CASE Complete
  BY <1>1, CompleteStep DEF Verified!vars
<1>2. CASE ~Complete /\ Complete'
  <2>1. pc = "marker" /\ WriteMarker
    BY <1>2, ObjectWrites
    DEF objectVars, Complete, WriteContent, WriteManifest, StoreInv,
        MarkerMeansVerified
  <2>2. Good = Chunks
    BY <2>1 DEF StoreInv, Progress, OnlyVerifiedCommitted, AllGood
  <2>3. QED
    BY <1>2, <2>2 DEF Verified!Next, Verified!Finish, Verified!vars
<1>3. CASE ~Complete /\ ~Complete'
  <2> DEFINE Have == IF Complete THEN Chunks ELSE Good
  <2>1. Complete' = Complete
    BY <1>3 DEF Complete
  <2>2. Have = Good /\ Have' = Good'
    BY <1>3
  <2>3. ASSUME NEW d \in Chunks, NEW b \in Bytes,
               chunkFile' = [chunkFile EXCEPT ![d] = b]
        PROVE  \/ Good' = Good
               \/ d \notin Good /\ Good' = Good \cup {d}
               \/ d \in Good /\ Good' = Good \ {d}
    BY <2>3 DEF StoreInv, TypeOK
  <2>4. \/ Good' = Good
        \/ \E d \in Chunks \ Good : Good' = Good \cup {d}
        \/ \E d \in Good : Good' = Good \ {d}
    BY <2>3, ChunkWrites
  <2>5. \/ Have' = Have
        \/ \E d \in Chunks \ Have : Have' = Have \cup {d}
        \/ \E d \in Have : Have' = Have \ {d}
    BY <2>4, <2>2
  <2>6. CASE Have' = Have
    BY <2>6, <2>1 DEF Verified!vars
  <2>7. CASE \E d \in Chunks \ Have : Have' = Have \cup {d}
    BY <2>7, <2>1, <1>3 DEF Verified!Next, Verified!Receive
  <2>8. CASE \E d \in Have : Have' = Have \ {d}
    BY <2>8, <2>1, <1>3 DEF Verified!Next, Verified!Lose
  <2>9. QED
    BY <2>5, <2>6, <2>7, <2>8
<1>4. QED
  BY <1>1, <1>2, <1>3

(***************************************************************************)
(* The empty data directory is VerifiedStore's initial state.              *)
(***************************************************************************)
LEMMA VerifiedInit == Init => Verified!Init
BY DEF Init, Verified!Init, Complete, NoChunks

(***************************************************************************)
(* Commit's separate writes look like one step: the object appears at once *)
(* and only out of chunks that are all durable and correct.                *)
(***************************************************************************)
THEOREM StoreImplementsVerified == Spec => ImplementsVerifiedStore
BY StoreInvariant, VerifiedInit, VerifiedStep, PTL
DEF Spec, ImplementsVerifiedStore, Verified!Spec

-----------------------------------------------------------------------------
(***************************************************************************)
(* The scan of a Catalog.  While the publication has been held all along,  *)
(* the manifest the scan read from partial is still the one there, or the  *)
(* object is complete; and once past partial the scan has seen it or will. *)
(***************************************************************************)
ScanInv ==
  /\ held => Held
  /\ cli \in {"begin", "made"} =>
       cliManifest # None /\ (held => partialManifest = cliManifest \/ Complete)
  /\ cli = "complete" /\ held => cliState # "none" \/ Complete
  /\ ListedIfHeld

(***************************************************************************)
(* Nobody overwrites the manifest of a partial: Begin reports a conflict.  *)
(***************************************************************************)
LEMMA ManifestWrites ==
  ASSUME [Next]_vars, ~CatalogStep
  PROVE  partialManifest' = partialManifest \/ partialManifest = None \/ partialManifest' = None
<1>1. ASSUME NEW m, NEW otherwise, Begin(m, otherwise)
      PROVE  partialManifest' = partialManifest \/ partialManifest = None
  BY <1>1 DEF Begin
<1>2. CASE UNCHANGED vars \/ CliReturns
  BY <1>2 DEF vars, files, partialVars, CliReturns
<1>3. CASE LoadPartial \/ BeginAcquisition \/ RemoveDone
  BY <1>1, <1>3 DEF LoadPartial, BeginAcquisition, RemoveDone, partialVars
<1>4. CASE \/ StartNode \/ Crash
           \/ \E m \in Manifests : SaveKnown(m) \/ AddFile(m)
           \/ \E c \in Chunks, b \in {"good", "bad"} : Add(c, b)
           \/ Verify \/ WriteContent \/ WriteManifest \/ WriteMarker
           \/ RemoveManifest \/ (\E c \in Chunks : RemoveChunk(c)) \/ RemoveFails
  BY <1>4 DEF StartNode, Crash, SaveKnown, AddFile, Add, Verify, WriteContent, WriteManifest,
     WriteMarker, RemoveManifest, RemoveChunk, RemoveFails, files, partialVars
<1> QED
  BY <1>2, <1>3, <1>4 DEF Next, OwnerStep

(***************************************************************************)
(* The owner of the store does not touch the scan.                         *)
(***************************************************************************)
LEMMA ScanApart ==
  ASSUME [Next]_vars
  PROVE  UNCHANGED cliVars \/ CatalogStep \/ CliReturns
<1>1. OwnerStep => UNCHANGED cliVars
  BY DEF OwnerStep, StartNode, LoadPartial, BeginAcquisition, Crash, SaveKnown, AddFile,
     Add, Verify, WriteContent, WriteManifest, WriteMarker, RemoveManifest, RemoveChunk,
     RemoveDone, RemoveFails
<1>2. UNCHANGED vars => UNCHANGED cliVars
  BY DEF vars
<1> QED
  BY <1>1, <1>2 DEF Next

LEMMA ScanStep == StoreInv /\ ScanInv /\ [MCNext]_<<vars, held>> => ScanInv'
<1> SUFFICES ASSUME StoreInv, ScanInv, [MCNext]_<<vars, held>>
             PROVE  ScanInv'
  OBVIOUS
<1>1. [Next]_vars
  BY DEF MCNext
<1>2. Complete => Complete'
  BY <1>1, CompleteStep
<1>3. CASE UNCHANGED <<vars, held>>
  BY <1>3 DEF ScanInv, ListedIfHeld, Held, HasPartial, Complete, vars, files, partialVars,
              objectVars, cliVars
<1>4. CASE MCNext
  <2>1. /\ held' => Held'
        /\ cli # "off" => (held' => held)
    BY <1>4 DEF MCNext
  <2>2. CASE UNCHANGED cliVars /\ ~CatalogStep
    <3>1. held' /\ cli \in {"begin", "made"} => partialManifest' = cliManifest \/ Complete'
      BY <1>1, <1>2, <2>1, <2>2, ManifestWrites DEF ScanInv, Held, HasPartial
    <3> QED
      BY <1>2, <2>1, <2>2, <3>1 DEF ScanInv, ListedIfHeld, cliVars
  <2>3. CASE CatalogKnown
    BY <2>1, <2>3 DEF CatalogKnown, ScanInv, ListedIfHeld
  <2>4. CASE CatalogReadPartial
    BY <1>2, <2>1, <2>4 DEF CatalogReadPartial, ScanInv, ListedIfHeld, Held, HasPartial, files,
                            partialVars
  <2>5. CASE CatalogMkdir
    BY <1>2, <2>1, <2>5 DEF CatalogMkdir, ScanInv, ListedIfHeld
  <2>6. CASE CatalogBegin
    BY <1>2, <2>1, <2>6 DEF CatalogBegin, ScanInv, ListedIfHeld
  <2>7. CASE CatalogComplete
    BY <1>2, <2>1, <2>7 DEF CatalogComplete, ScanInv, ListedIfHeld
  <2>8. CASE CliReturns
    BY <2>1, <2>8 DEF CliReturns, ScanInv, ListedIfHeld
  <2> QED
    BY <1>1, ScanApart, <2>2, <2>3, <2>4, <2>5, <2>6, <2>7, <2>8 DEF CatalogStep
<1> QED
  BY <1>3, <1>4

(***************************************************************************)
(* A scan beside a running node does not miss a publication that the store *)
(* holds all the while, also when it moves from partial to complete.       *)
(***************************************************************************)
THEOREM HeldIsListed == MCSpec => []ListedIfHeld
<1>1. MCInit => Init /\ ScanInv
  BY DEF MCInit, Init, ScanInv, ListedIfHeld
<1>2. [MCNext]_<<vars, held>> => [Next]_vars
  BY DEF MCNext
<1>3. MCSpec => Spec
  BY <1>1, <1>2, PTL DEF MCSpec, Spec
<1>4. ScanInv => ListedIfHeld
  BY DEF ScanInv
<1> QED
  BY <1>1, <1>3, <1>4, StoreInvariant, ScanStep, PTL DEF MCSpec

=============================================================================
