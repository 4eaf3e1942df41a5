-------------------------- MODULE PublicationStore --------------------------
(***************************************************************************)
(* The files of one publication ID in a node's data directory             *)
(* (internal/publication/store.go, assembly.go, catalog.go), written one   *)
(* atomic file operation at a time by a store owner -- the node service or *)
(* the offline `add` command, which never run together -- while a          *)
(* `library`, `inspect` or `want` command runs beside it.  Every write can *)
(* fail and the owner can stop between any two of them.                    *)
(*                                                                         *)
(*   partial/<id>/manifest.json   partialManifest                          *)
(*   partial/<id>/chunks/<i>      chunkFile[i]                             *)
(*   objects/<id>/...             content, objManifest, marker             *)
(*   known/<id>/...               known, want                              *)
(*                                                                         *)
(* A publication ID is the prefix of its content's SHA-256 and every       *)
(* decoder enforces that (protocol.go IDMatchesHash), so the manifests of  *)
(* one ID differ in file name and signature only; "good" chunk bytes are   *)
(* the bytes that hash describes, "bad" bytes any others of that length.   *)
(* Manifests whose signature does not verify never reach the store's       *)
(* acquisition calls (policy.go Accept) and are not members of Manifests.  *)
(***************************************************************************)
EXTENDS Naturals, FiniteSets

CONSTANTS Chunks,       \* the chunk indexes of the publication
          Manifests,    \* the manifests that exist for its ID
          None          \* no manifest

ASSUME StoreAssumption == /\ Chunks # {}
                          /\ IsFiniteSet(Chunks)
                          /\ None \notin Manifests

VARIABLES
  partialDir, partialManifest, chunkFile,   \* partial/<id>
  content, objManifest, marker,             \* objects/<id>
  known, want,                              \* known/<id>
  owner,      \* the process that owns the store: "none", "node" or "add"
  pc,         \* where the owner is inside a store operation
  asm, mem,   \* its Assembly: the manifest, and the chunks it holds
  after,      \* what follows a hash mismatch or the RemoveAll in progress
  cli,        \* where the Catalog scan of a CLI process is
  cliManifest, cliState   \* the manifest it read, the state it will report

objectVars  == <<content, objManifest, marker>>
partialVars == <<partialDir, partialManifest, chunkFile>>
knownVars   == <<known, want>>
ownerVars   == <<owner, pc, asm, mem, after>>
cliVars     == <<cli, cliManifest, cliState>>
files       == <<objectVars, partialVars, knownVars>>
vars        == <<files, ownerVars, cliVars>>

Bytes == {"absent", "good", "bad"}
NoChunks == [c \in Chunks |-> "absent"]
AllReceived(f) == \A c \in Chunks : f[c] # "absent"
AllGood(f)     == \A c \in Chunks : f[c] = "good"

(***************************************************************************)
(* Store.Complete: marker, readable manifest whose signature verifies, and *)
(* content with the manifest's length and hash.                            *)
(***************************************************************************)
Complete == marker = "verified" /\ objManifest # None /\ content = "good"
HasPartial == partialManifest # None

TypeOK ==
  /\ partialDir \in {"absent", "present"}
  /\ partialManifest \in Manifests \cup {None}
  /\ chunkFile \in [Chunks -> Bytes]
  /\ content \in {"absent", "good"} /\ objManifest \in Manifests \cup {None}
  /\ marker \in {"absent", "verified"}
  /\ known \in Manifests \cup {None} /\ want \in {"absent", "wanted"}
  /\ owner \in {"none", "node", "add"}
  /\ pc \in {"off", "loading", "idle", "verify", "content", "manifest",
             "marker", "removing"}
  /\ asm \in Manifests \cup {None} /\ mem \in [Chunks -> Bytes]
  /\ after \in {"nothing", "discard", "restart", "commit", "unreadable"}
  /\ cli \in {"off", "partial", "begin", "made", "complete", "listed"}
  /\ cliManifest \in Manifests \cup {None}
  /\ cliState \in {"none", "known", "partial", "complete"}

Init ==
  /\ partialDir = "absent" /\ partialManifest = None /\ chunkFile = NoChunks
  /\ content = "absent" /\ objManifest = None /\ marker = "absent"
  /\ known = None /\ want = "absent"
  /\ owner = "none" /\ pc = "off" /\ asm = None /\ mem = NoChunks
  /\ after = "nothing"
  /\ cli = "off" /\ cliManifest = None /\ cliState = "none"

-----------------------------------------------------------------------------
(***************************************************************************)
(* The owner returning from a store operation.  An error leaves the node   *)
(* with the Assembly it had; it ends the add command.                      *)
(***************************************************************************)
Stop == /\ owner' = "none" /\ pc' = "off"
        /\ asm' = None /\ mem' = NoChunks /\ after' = "nothing"

Idle(a, m) == /\ pc' = "idle" /\ asm' = a /\ mem' = m /\ after' = "nothing"
              /\ UNCHANGED owner

Error == IF owner = "node" THEN Idle(asm, mem) ELSE Stop

(***************************************************************************)
(* Begin: create the directories, keep or write the manifest, reload the   *)
(* chunk files.  onMismatch is what the caller does if the assembly is     *)
(* already complete and its content has the wrong hash.                    *)
(***************************************************************************)
Begin(m, onMismatch) ==
  /\ partialDir' = "present"
  /\ UNCHANGED chunkFile
  /\ \/ /\ partialManifest \in {None, m}
        /\ partialManifest' = m
        /\ asm' = m /\ mem' = chunkFile
        /\ UNCHANGED owner
        /\ IF AllReceived(chunkFile) /\ onMismatch # "nothing"
           THEN pc' = "verify" /\ after' = onMismatch
           ELSE pc' = "idle" /\ after' = "nothing"
     \/ /\ partialManifest \notin {None, m}      \* conflicts with the manifest on disk
        /\ UNCHANGED partialManifest /\ Error
     \/ /\ partialManifest = None                \* the write fails
        /\ UNCHANGED partialManifest /\ Error

(***************************************************************************)
(* NewRuntime: a partial that loads is kept as the acquisition's Assembly  *)
(* (or left alone when the policy now refuses it); one that does not load  *)
(* is discarded.  Nothing here looks at whether it is complete.            *)
(***************************************************************************)
StartNode ==
  /\ owner = "none"
  /\ owner' = "node" /\ after' = "nothing"
  /\ pc' = IF HasPartial THEN "loading" ELSE "idle"
  /\ UNCHANGED <<asm, mem, files, cliVars>>

LoadPartial ==
  /\ pc = "loading"
  /\ \/ HasPartial /\ Begin(partialManifest, "nothing")
     \/ Idle(None, NoChunks) /\ UNCHANGED partialVars
     \/ /\ pc' = "removing" /\ after' = "unreadable"
        /\ UNCHANGED <<owner, asm, mem, partialVars>>
  /\ UNCHANGED <<objectVars, knownVars, cliVars>>

SaveKnown(m) ==
  /\ owner = "node" /\ pc = "idle" /\ asm = None
  /\ known' = m
  /\ UNCHANGED <<want, objectVars, partialVars, ownerVars, cliVars>>

\* acceptSignature: the policy admitted the manifest just saved as known
BeginAcquisition ==
  /\ owner = "node" /\ pc = "idle" /\ asm = None /\ known # None
  /\ ~Complete
  /\ Begin(known, "discard")
  /\ UNCHANGED <<objectVars, knownVars, cliVars>>

(***************************************************************************)
(* `ghost-node add`: a file already complete is left alone, otherwise the  *)
(* partial directory is restarted with the manifest of the local file.     *)
(***************************************************************************)
AddFile(m) ==
  /\ owner = "none" /\ ~Complete
  /\ owner' = "add" /\ asm' = m /\ mem' = NoChunks
  /\ pc' = "removing" /\ after' = "restart"
  /\ UNCHANGED <<files, cliVars>>

(***************************************************************************)
(* Store.Add of a missing chunk: memory first, then the durable file; a    *)
(* failed write takes the chunk back out of memory, even when only the     *)
(* final directory sync failed and the file is there.                      *)
(***************************************************************************)
AddKeepsFailedChunk(c, b) ==          \* mutated: a failed write is not taken back
  /\ pc = "idle" /\ asm # None /\ mem[c] = "absent"
  /\ IF owner = "add" THEN b = "good" ELSE ~Complete
  /\ \/ /\ chunkFile' = [chunkFile EXCEPT ![c] = b]
        /\ mem' = [mem EXCEPT ![c] = b]
        /\ IF AllReceived(mem') THEN pc' = "verify" /\ after' = "restart"
                                ELSE UNCHANGED <<pc, after>>
        /\ UNCHANGED <<owner, asm>>
     \/ UNCHANGED chunkFile /\ Idle(asm, [mem EXCEPT ![c] = b])
  /\ UNCHANGED <<partialDir, partialManifest, objectVars, knownVars, cliVars>>

Add(c, b) ==
  /\ pc = "idle" /\ asm # None /\ mem[c] = "absent"
  /\ IF owner = "add" THEN b = "good" ELSE ~Complete   \* acceptLeaf skips complete IDs
  /\ \/ /\ chunkFile' = [chunkFile EXCEPT ![c] = b]
        /\ mem' = [mem EXCEPT ![c] = b]
        /\ IF AllReceived(mem') THEN pc' = "verify" /\ after' = "restart"
                                ELSE UNCHANGED <<pc, after>>
        /\ UNCHANGED <<owner, asm>>
     \/ chunkFile' \in {chunkFile, [chunkFile EXCEPT ![c] = b]} /\ Error
  /\ UNCHANGED <<partialDir, partialManifest, objectVars, knownVars, cliVars>>

-----------------------------------------------------------------------------
(***************************************************************************)
(* Commit: reassemble and hash; then content, manifest.json and the        *)
(* complete marker, each durable before the next; then remove the partial. *)
(***************************************************************************)
VerifyNothing ==                      \* mutated: the hash is not compared
  /\ pc = "verify"
  /\ pc' = "content"
  /\ UNCHANGED <<after, owner, asm, mem, files, cliVars>>

Verify ==
  /\ pc = "verify"
  /\ \/ /\ AllGood(mem)
        /\ pc' = "content" /\ UNCHANGED after
     \/ /\ ~AllGood(mem)                         \* ErrHashMismatch
        /\ owner = "node"
        /\ pc' = "removing" /\ UNCHANGED after
  /\ UNCHANGED <<owner, asm, mem, files, cliVars>>

Proceed(next) == pc' = next /\ UNCHANGED <<owner, asm, mem, after>>

WriteContentInPlace ==                \* mutated: not through a temporary file
  /\ pc = "content"
  /\ \/ content' = "good" /\ Proceed("manifest")
     \/ content' \in {content, "bad", "good"} /\ Error
  /\ UNCHANGED <<objManifest, marker, partialVars, knownVars, cliVars>>

WriteContentThenMarker ==             \* mutated: the marker before the manifest
  /\ pc = "content"
  /\ \/ content' = "good" /\ Proceed("marker")
     \/ content' \in {content, "good"} /\ Error
  /\ UNCHANGED <<objManifest, marker, partialVars, knownVars, cliVars>>

WriteContent ==
  /\ pc = "content"
  /\ \/ content' = "good" /\ Proceed("manifest")
     \/ content' \in {content, "good"} /\ Error
  /\ UNCHANGED <<objManifest, marker, partialVars, knownVars, cliVars>>

WriteManifestThenRemove ==            \* mutated: the partial goes before the marker
  /\ pc = "manifest"
  /\ objManifest' = asm /\ pc' = "removing" /\ after' = "commit"
  /\ UNCHANGED <<owner, asm, mem, content, marker, partialVars, knownVars, cliVars>>

WriteManifest ==
  /\ pc = "manifest"
  /\ \/ objManifest' = asm /\ Proceed("marker")
     \/ objManifest' \in {objManifest, asm} /\ Error
  /\ UNCHANGED <<content, marker, partialVars, knownVars, cliVars>>

WriteMarker ==
  /\ pc = "marker"
  /\ \/ marker' = "verified" /\ pc' = "removing" /\ after' = "commit"
        /\ UNCHANGED <<owner, asm, mem>>
     \/ marker' \in {marker, "verified"} /\ Error
  /\ UNCHANGED <<content, objManifest, partialVars, knownVars, cliVars>>

(***************************************************************************)
(* os.RemoveAll of the partial directory, one directory entry at a time in *)
(* any order.  The last rmdir fails when an entry is back; any step can    *)
(* fail.  What follows depends on who called it: Commit, Restart, or       *)
(* DiscardPartial, whose error is ignored.                                 *)
(***************************************************************************)
RemoveManifest ==
  /\ pc = "removing" /\ HasPartial
  /\ partialManifest' = None
  /\ UNCHANGED <<partialDir, chunkFile, objectVars, knownVars, ownerVars, cliVars>>

RemoveChunk(c) ==
  /\ pc = "removing" /\ chunkFile[c] # "absent"
  /\ chunkFile' = [chunkFile EXCEPT ![c] = "absent"]
  /\ UNCHANGED <<partialDir, partialManifest, objectVars, knownVars, ownerVars, cliVars>>

RemoveDone ==
  /\ pc = "removing"
  /\ partialManifest = None /\ chunkFile = NoChunks
  /\ \/ /\ after = "commit"
        /\ IF owner = "node" THEN Idle(None, NoChunks) ELSE Stop
        /\ partialDir' = "absent" /\ UNCHANGED <<partialManifest, chunkFile>>
     \/ after = "restart" /\ Begin(asm, "nothing")
     \/ /\ after \in {"discard", "unreadable"}
        /\ Idle(None, NoChunks)
        /\ partialDir' = "absent" /\ UNCHANGED <<partialManifest, chunkFile>>
  /\ UNCHANGED <<objectVars, knownVars, cliVars>>

RemoveFails ==
  /\ pc = "removing"
  /\ IF after \in {"discard", "unreadable"} THEN Idle(None, NoChunks) ELSE Error
  /\ UNCHANGED <<files, cliVars>>

Crash ==
  /\ owner # "none"
  /\ Stop
  /\ UNCHANGED <<files, cliVars>>

-----------------------------------------------------------------------------
(***************************************************************************)
(* Catalog, as run by library and inspect and, through Resolve, by want:   *)
(* known manifests, then partial ones (LoadPartial, hence Begin), then     *)
(* complete objects; a later state replaces an earlier one.                *)
(***************************************************************************)
CatalogKnown ==
  /\ cli = "off"
  /\ cli' = "partial"
  /\ cliState' = IF known # None THEN "known" ELSE "none"
  /\ UNCHANGED <<cliManifest, files, ownerVars>>

CatalogReadPartial ==
  /\ cli = "partial"
  /\ cli' = IF HasPartial THEN "begin" ELSE "complete"
  /\ cliManifest' = partialManifest
  /\ UNCHANGED <<cliState, files, ownerVars>>

CatalogMkdir ==
  /\ cli = "begin"
  /\ cli' = "made"
  /\ partialDir' = "present"
  /\ UNCHANGED <<partialManifest, chunkFile, objectVars, knownVars, ownerVars, cliManifest, cliState>>

CatalogBegin ==
  /\ cli = "made"
  /\ cli' = "complete" /\ cliManifest' = None
  /\ \/ /\ partialManifest = cliManifest \/ (partialManifest = None /\ partialDir = "present")
        /\ partialManifest' = cliManifest
        /\ cliState' = "partial"
     \/ /\ partialManifest # cliManifest         \* conflict, or the write fails
        /\ UNCHANGED <<partialManifest, cliState>>
  /\ UNCHANGED <<partialDir, chunkFile, objectVars, knownVars, ownerVars>>

CatalogCompleteKnown ==               \* mutated: only objects that are also known
  /\ cli = "complete"
  /\ cli' = "listed"
  /\ cliState' = IF Complete /\ known # None THEN "complete" ELSE cliState
  /\ UNCHANGED <<cliManifest, files, ownerVars>>

CatalogComplete ==
  /\ cli = "complete"
  /\ cli' = "listed"
  /\ cliState' = IF Complete THEN "complete" ELSE cliState
  /\ UNCHANGED <<cliManifest, files, ownerVars>>

\* the command prints what it found; want also needs a known or partial manifest
CliReturns ==
  /\ cli = "listed"
  /\ cli' = "off" /\ cliState' = "none"
  /\ \/ UNCHANGED want
     \/ cliState # "none" /\ (known # None \/ HasPartial) /\ want' = "wanted"
  /\ UNCHANGED <<cliManifest, known, objectVars, partialVars, ownerVars>>

CatalogStep == \/ CatalogKnown \/ CatalogReadPartial \/ CatalogMkdir
               \/ CatalogBegin \/ CatalogComplete

OwnerStep ==
  \/ StartNode \/ LoadPartial \/ BeginAcquisition \/ Crash
  \/ \E m \in Manifests : SaveKnown(m) \/ AddFile(m)
  \/ \E c \in Chunks, b \in {"good", "bad"} : Add(c, b)
  \/ Verify \/ WriteContent \/ WriteManifest \/ WriteMarker
  \/ RemoveManifest \/ (\E c \in Chunks : RemoveChunk(c))
  \/ RemoveDone \/ RemoveFails

Next == OwnerStep \/ CatalogStep \/ CliReturns

Spec == Init /\ [][Next]_vars

-----------------------------------------------------------------------------
(***************************************************************************)
(* Whatever stops or fails between the writes of Commit, a complete marker *)
(* on disk always stands beside a manifest and verified content.           *)
(***************************************************************************)
MarkerMeansVerified == marker = "verified" => Complete

(***************************************************************************)
(* The receipt state that decides which chunks are requested next is what  *)
(* the disk holds, across restarts, failed writes and the CLI's own Begin: *)
(* a chunk believed received but not durable would never be asked for      *)
(* again.  (Once every chunk is in memory nothing is requested any more.)  *)
(***************************************************************************)
ReceiptsAreDurable ==
  pc = "idle" /\ ~AllReceived(mem) =>
    \A c \in Chunks : mem[c] # "absent" => chunkFile[c] = mem[c]

(***************************************************************************)
(* Bad bytes are never made durable as an object, and an assembly is       *)
(* committed only when every chunk verified.                               *)
(***************************************************************************)
OnlyVerifiedCommitted ==
  pc \in {"content", "manifest", "marker"} => asm # None /\ AllGood(mem)

(***************************************************************************)
(* A complete publication stays complete through every later operation,    *)
(* the clearing of what a stop left of its partial included.               *)
(***************************************************************************)
CompleteIsStable == [][Complete => Complete']_vars

(***************************************************************************)
(* A fully downloaded, correct partial is taken apart only after its       *)
(* object is complete -- so a stop anywhere inside Commit loses nothing -- *)
(* or by `add` of the same file, or when it could not be read at startup.  *)
(***************************************************************************)
DownloadNotLost ==
  [][AllGood(chunkFile) /\ (\E c \in Chunks : chunkFile'[c] = "absent")
       => Complete \/ owner = "add" \/ after = "unreadable"]_vars

(***************************************************************************)
(* The store implements VerifiedStore: the object appears in one step, out *)
(* of chunks that are all durable and correct; once it is complete what    *)
(* happens to the leftovers of its partial is invisible.                   *)
(***************************************************************************)
Verified == INSTANCE VerifiedStore
              WITH have <- IF Complete THEN Chunks
                           ELSE {c \in Chunks : chunkFile[c] = "good"},
                   complete <- Complete
ImplementsVerifiedStore == Verified!Spec

(***************************************************************************)
(* library and inspect are read-only, and want writes a marker separate    *)
(* from object and chunk files (docs/operations.md): beside a running      *)
(* node, a Catalog scan never brings back the partial directory of a       *)
(* publication that is complete.                                           *)
(***************************************************************************)
CatalogIsReadOnly ==
  [][CatalogStep /\ owner = "node" /\ Complete /\ ~HasPartial
       => UNCHANGED partialVars]_vars

(***************************************************************************)
(* Why they hold: what each point inside a store operation has already     *)
(* made true.                                                              *)
(***************************************************************************)
Progress ==
  /\ owner = "none" <=> pc = "off"
  /\ owner = "none" => mem = NoChunks
  /\ pc = "loading" => owner = "node"
  /\ pc = "verify" \/ pc = "content" \/ pc = "manifest" \/ pc = "marker"
       => mem = chunkFile /\ AllReceived(mem)
  /\ pc = "manifest" \/ pc = "marker" => content = "good"
  /\ pc = "marker" => objManifest # None
  /\ pc = "removing" => after # "nothing"
  /\ pc = "removing" /\ after = "commit" => Complete
  /\ pc = "removing" /\ owner = "node" /\ after \in {"commit", "restart"}
       => AllReceived(mem)
  /\ pc = "removing" /\ owner = "node" /\ after \in {"restart", "discard"}
       => ~AllGood(chunkFile)
  /\ pc = "removing" /\ owner = "add" => after \in {"commit", "restart"}
  /\ pc = "verify" => asm # None /\ after \in {"restart", "discard"}

StoreInv == /\ TypeOK /\ MarkerMeansVerified /\ ReceiptsAreDurable
            /\ OnlyVerifiedCommitted /\ Progress

=============================================================================
