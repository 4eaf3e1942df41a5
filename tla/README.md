# Ghost Cache: TLA+ models and proofs

Ghost Cache replicates files between Linux hosts over LoRa radios.  A node
compares its inventory with its neighbours', fetches what it lacks in small
batches, verifies it and offers it onward.  This directory models the parts of
it whose correctness depends on the order of things: what is durable when the
process stops, which answer belongs to which question, whose turn it is, and
what the operator's commands do beside a running node.

Source paths are relative to the repository root.  `PROJECT.json` maps every
definition to the lines it models.

## 1. The system

| Component | State | Operations | Talks to |
|---|---|---|---|
| Publication store (`internal/publication/store.go`, `assembly.go`) | directories `objects/<id>`, `partial/<id>`, `known/<id>`; an `Assembly` in memory | `Begin`, `Add`, `Commit`, `Restart`, `DiscardPartial`, `SaveKnown`, `Want`, `AddFileSigned`, `Complete`, listings | the node's loop, `add`, the read-only commands |
| Catalog (`catalog.go`, `cmd/ghost-node`) | none of its own | `Catalog`, `Resolve`; commands `library`, `inspect`, `want` | the store's files, beside a running node |
| Admission policy (`internal/node/policy.go`, `publication/signing.go`) | settings, trust store | `Accept`, `VerifyManifestSignature` | acquisition |
| Acquisition (`internal/node/runtime.go`) | `acquisitions`, `inspectedSources`, `tx` | `NewRuntime`, `acceptLeaf`, `addCandidate`, `initiate`, `acceptManifest`, `acceptSignature`, `acceptChunk`, `fail`, the `serve*` handlers | store, policy, peers |
| Reconciliation (`runtime.go`, `radix.go`) | `peerGenerations`, `peerOrder`, `reconcileQueue`, `reconcileActive`, `completeIDs` | `handleRootSummary`, `initiateReconcile`, `acceptSummary`, `acceptLeaf`, `advertise`, `serveSummary` | peers; hands missing IDs to acquisition |
| Scheduling (`runtime.go` `onTick`, `nextWork`; `controller.go`; `scheduler.go`) | `order`, `workCursor`, `preferReconcile`, deadlines, traffic history | one turn per idle tick | starts the exchanges of the two above |
| Modem client (`internal/modem`, `internal/node/radio.go`, `publication/link.go`) | request sequence, pending frames, decoder buffer | `Open`, `Info`, `SetConfig`, `Request`, `ReadFrame`, `Send`, `Receive` | the firmware, by serial line; used by every program |
| Modem firmware (`firmware/heltec-modem`) | radio state, interrupt flag, settings, serial buffer | `handleSerial`, `handleCommand`, `handleRadio`, `setup` | serial line, radio |
| Legacy publisher (`cmd/ghost-publish`) | one transfer: round, what the receiver has | announce, send chunks, query | the broadcaster, by radio |
| Legacy broadcaster (`cmd/ghost-broadcast`) | sessions: open assemblies by publication | manifest, chunk and query handlers, `commit` | the store, the publisher |
| Configuration (`internal/config`) | a file | read at start; `ConfirmRadioStatus` compares a modem's answer with it | the modem client |
| Identities, installation, console, presentation | files | offline | -- |

The node is one goroutine: `Run` receives a packet or times out, handles it,
and calls `onTick`.  So a handler is one action of a model.  What surrounds a
handler is not atomic: the disk writes inside it can fail or be the last thing
the process does, CLI commands run between any two of them, and peers, packets
and timers move on their own.  The modem is a second processor with an
interrupt handler of its own, joined to the host by a line that loses frames.

What is hard to test in this code, and what the properties below are for
(`PROJECT.json` lists each hazard at its line):

* *Durability.* `Commit` makes three files durable and then removes a
  directory; every one of these steps can fail or be the last.  `Add` updates
  memory and disk, and the disk write can fail with the file in place.
* *Commands beside the node.* `library`, `inspect` and `want` read, and partly
  write, what the node is moving.
* *Packets.* Answers are lost, late, repeated, from another source than the
  one now asked, or for a generation that has passed.
* *Restart.* The node reconstructs its work from disk, perhaps under another
  policy.
* *Bounds.* Tracked peers, queued jobs, acquisitions and sources are bounded,
  and what does not fit is dropped or evicted.
* *Turns.* Three kinds of work compete for an idle half-duplex channel, and
  the rotation is over a list that changes under its cursor.
* *The modem.* A request can time out although it was done; packets arrive
  while an answer is awaited; one interrupt flag says both that a packet came
  and that a transmission ended; a reset takes the settings with it.
* *The legacy transfer.* The publisher takes the first answer there is, the
  broadcaster forgets its sessions when it stops, and rounds are limited.

## 2. The modules

| Module | Models | Extends |
|---|---|---|
| `VerifiedStore` | what a data directory promises for one publication | -- |
| `PublicationStore` | the files of one publication, one atomic file operation at a time, with the node or `add` as owner and one CLI scan beside it | refines `VerifiedStore` |
| `PublicationStoreProofs` | theorems about `PublicationStore` and the scan beside it | `MCPublicationStore`, `TLAPS` |
| `AcquisitionPolicy` | manifests, signatures, `Accept` | -- |
| `Replica` | what a node promises of its library | `AcquisitionPolicy` |
| `Acquisition` | one node acquiring publications from its peers | `AcquisitionPolicy`, refines `Replica` |
| `AcquisitionMemory` | the same with a history of what policy refused at which source | `Acquisition` |
| `AcquisitionProofs` | theorems about `Acquisition` and `AcquisitionMemory` | `AcquisitionMemory`, `CommonLemmas` |
| `AcquisitionLiveness` | the same with a radio that heals, and fairness | `Acquisition` |
| `ChunkBatch` | which chunks of a publication are asked for next | -- |
| `ChunkBatchProofs` | theorems about `ChunkBatch` and the turns of its windows | `MCChunkBatch`, `CommonLemmas` |
| `Radix` | prefix summaries and leaves of an inventory | -- |
| `Reconciliation` | finding out what peers hold | `Radix` |
| `ReconciliationProofs` | theorems about `Reconciliation` | `Reconciliation`, `CommonLemmas` |
| `Scheduler` | whose turn it is, and the fairness of the loop | -- |
| `SchedulerProofs` | theorems about `Scheduler` and its bound on waiting | `MCScheduler`, `CommonLemmas` |
| `ModemLink` | host program, serial lines, firmware and radio chip | -- |
| `ModemLinkProofs` | theorems about `ModemLink` | `ModemLink`, `TLAPS` |
| `Broadcast` | ghost-publish, ghost-broadcast and the channel between them | refines `VerifiedStore` |
| `BroadcastProofs` | theorems about `Broadcast` | `Broadcast`, `TLAPS` |
| `CommonLemmas` | lists without repetitions, removal and appending, least elements | `TLAPS` |
| `MC*` | instances and history variables for TLC | |

### PublicationStore

A publication ID is a prefix of its content's SHA-256 and every decoder
enforces that, so the manifests of one ID differ only in file name and
signature (`Manifests`), and chunk bytes are *good* (what the hash describes)
or *bad*.  Each file is a variable: `partialManifest`, `chunkFile`, `content`,
`objManifest`, `marker`, `known`, `want`.  `writeAtomic` (temporary file,
fsync, rename, fsync of the directory) is one step that succeeds, or fails
with or without the new file in place -- the directory sync comes after the
rename.  `os.RemoveAll` is one step per entry, in any order, and can stop
half way.  `pc` says where the owner is inside `Begin`, `Add`, `Commit`,
`Restart` or `DiscardPartial`; `asm` and `mem` are its `Assembly`.  `Crash` is
enabled wherever there is an owner.  The CLI scan reads known, partial and
objects in the order `Catalog` does; `LoadPartial` in it is `Begin`, so it
also writes.  A crash is the end of a process, not of power: directory syncs
are modelled where the code calls them, and unlinks it does not sync are taken
as done.

`AddFileSigned` returns early for a file that is complete; otherwise it is
`Restart`, `Add` for each chunk, `Commit`, with the owner `add`.  The node and
`add` do not run together (docs/operations.md says to stop the service).

### AcquisitionPolicy, Replica, Acquisition, AcquisitionMemory, AcquisitionLiveness

The files of `PublicationStore` appear here with its theorems in mind: a
handler's store calls are one step with the outcomes that module allows
(done; an error, with what may then be left over; or the process gone in the
middle).  `os.RemoveAll`, after a commit, after a wrong hash or for a partial
that cannot be read at startup, may stop with any of the chunk files and the
manifest left (`Leftover`, `Start`).  `acq[i]` is the `acquisition` struct.  `air` holds requests and
answers; a message carries the transaction number and peer that `active`
compares.  `Transmit` lets at most `MaxLate` messages of earlier exchanges
survive beside a new one, none with the number about to be used -- that is the
assumption that no answer stays in the air for a full turn of the 16-bit
counter.  A restart draws the number at random (`runtime.go:112`); there the
assumption is that it does not land just below a number still in the air, which
is likely but not certain, and is left out.  `Faults` switches on bad bytes, failing disk, failing modem,
repeated delivery and departing peers, so that a run says which it has.

Time is abstract: backoff, quiet time and deadlines may end at any moment.  In
`Acquisition` which due acquisition goes first is left open, and `Scheduler`
settles it.  A publication fits in one window of eight chunks, so `Batch` is
its first missing chunks (`OneWindowBatch` of `ChunkBatchProofs`); `ChunkBatch`
has the windows.  `inspectedSources` is bounded per publication
(`MaxInspected`); its bound of 256 publications is not modelled.  Chunks is
never empty; the empty file has no chunk to wait for.

`AcquisitionMemory` adds `refused[i]`, the sources at which this run of the node
inspected `i` and dropped it, as a history: it is read from what happens to the
acquisition, not from `inspected`, so that a property can compare the two.

`AcquisitionLiveness` adds a bounded number of losses (`Lose`), lets an
exchange time out only when no answer can come any more, and states fairness.

`Replica` is the specification a user of the library would write: a publication
enters once, for good, under a manifest some peer holds, which the policy in
force admits or the operator asked for; a transfer that has begun ends under
the manifest it began with.  Messages, sources, chunks and files are gone from
it; `complete` is its `library`, `partial` its `begun`.

### ChunkBatch

One acquisition that has its assembly, with any of its chunks.  `MissingBatch`
searches from `cursor` round the end for a missing chunk, and takes up to
`MaxChunkBatch` missing chunks of that chunk's *window* (eight chunks, what a
request's bitmap spans) from the window's start; `initiate` cuts these down to
what the traffic allows, encodes them again as base and bitmap, and moves the
cursor behind the last, also when the sending then fails.  `Decoded` is what
`serveChunks` makes of base and bitmap.  An answer to an earlier request bears
another transaction number and has no effect, so `answers` is emptied when a
request is made.  `ChunkCount` is a 16-bit number, so `base + bit` stays below
2^16 for every chunk there is.

### Radix, Reconciliation

An ID is the sequence of its nibbles.  A digest stands for the set it is over,
a generation for the inventory: collisions are left out
(docs/node-protocol.md says they can delay discovery only).  The walk is as in
the code: `HandleRootSummary` tracks the peer, evicts the least recently heard,
drops jobs of an old generation and queues the differing children;
`InitiateReconcile`, `AcceptSummary`, `AcceptLeaf`, `ReconcileTimeout` are the
handlers.  `found` is what `acceptLeaf` hands to acquisition, `Acquire` the end
of that acquisition, with the snapshot `completeIDs` refreshed or, after an
error, stale.  A peer's answer may be one that does not decode (`good` is
false): `acceptSummary` and `acceptLeaf` then clear the active job without
queueing it again, as they do for an answer to another generation or branch
(`Usable`).  A leaf's IDs are handed over while `addCandidate` has room in the
table of acquisitions (`MaxAcquisitions`) and in the sources of one
(`MaxSources`), the rest are passed over; `continue` in the loop lets those that
have an acquisition already still take the source.  `givenUp` is a history: the
jobs, or the single IDs as jobs of the whole ID, that were given up in one of
these ways since the last root of their peer.

### Scheduler

`work[i]` is what `nextWork` can tell of an acquisition; jobs are counted, not
named.  Between turns everything else happens: answers, expiries, new
candidates, removals (`removeOrder`), traffic.  `quiet` is `CanInitiate`.

### ModemLink

`pc` is where the host is: inside `Open`, before the first `Info` of
`configureModem`, before `SetConfig`, before the readback, or serving (`Send`
and `Receive` in any order, as the node's loop, the legacy tools and the
console use them).  `call` is the request it waits for, `seq` and `pending` are
`Client`'s.  `radio`, `irq`, `txSequence`, `settings` are the firmware's
`radioState`, `radioInterrupt`, `txSequence` and `config`; `chip` and `buffer`
are the SX1262, which finishes what it sends and hears packets on its own.
`HandleTX` is the hard step: the flag is cleared before `startTransmit`, so a
packet that was just received is forgotten, and one completed while the radio
is being switched raises the flag again and is read as the end of the
transmission (`overtaken`).  A status answer says what settings the modem has
and whether its radio failed; `ConfirmRadioStatus` looks at the settings only.

A frame is a record.  A damaged frame is dropped by its decoder and so is a
lost one (`LoseFrame`); the byte-level resynchronisation at the next zero is
what makes that the whole effect of damage.  A client's deadline can pass at
any moment, also when the answer has already been read (`client.go:177`); so
can the modem's ten-second transmission timer.  `readAvailable` can return
several frames at once; here they are taken one by one, which reaches the same
`pending`.

### Broadcast

One publication of one file.  A step of the publisher is one send or one answer
taken; a step of the broadcaster is one handler, with `commit` a step of its
own because the broadcaster can stop between the last chunk and the commit, as
it can stop between any two handlers (`Reboot`).  The store operations are
those of `PublicationStore` with the outcomes its theorems allow: done, an
error with or without the file in place, or any of the files removed: by a
`Restart` that fails, and by a `Commit` whose removal of the partial fails after
the complete marker.  A store that already has a partial of the same content
under another name (`partial = "other"`) refuses every `Begin`.  The two queues
hold what has been sent and not read, including what the reader's modem client
has set aside.

## 3. What is checked

| Run | Instance | Shows |
|---|---|---|
| `PublicationStore` | 2 chunks, 2 manifests | all properties of the store below, and that it implements `VerifiedStore` |
| `CatalogBesideCommit` | 1 chunk, 1 manifest | violation: a scan recreates the partial of a complete publication |
| `AcquisitionCrash` | 1 ID above the size limit, 1 peer that may leave, 2 chunks, every policy, 2 stops, disk, modem and byte faults | `TypeOK`, `PolicyRespected`, `ReceiptsAreDurable`, `CompleteNotRequested`, and that it implements `Replica` |
| `AcquisitionSources` | 2 IDs, one above the size limit, 2 peers with different names and signatures, every policy, 1 late message, bad bytes, repeated answers | `ManifestsNotMixed`, `OneExchange`, `RefusalRemembered` |
| `AcquisitionLive` | 1 ID, 2 peers that may depart, 1 stop, permissive or trusted-only, the restart perhaps with the other | `EventuallyAcquiredIfLacking`, `WantHonoured` |
| `RestartAfterLastChunk` | 1 chunk, 1 stop | violation of `EventuallyAcquired` |
| `Reconciliation` | binary tree of depth 2, 2 peers of which one grows, 1 tracked, queue of 1, 1 acquisition of 1 source, 1 late message, answers that do not decode, 1 restart | `TypeOK`, `JobsCurrent`, `NoDuplicateJobs`, `DifferencesCovered` |
| `Scheduler` | 3 acquisitions, 2 jobs | `TypeOK`, `OrderMatchesTable`, `BoundedBypass`, `EveryoneServed` |
| `ModemLink` | 2 packets heard, 2 sends, 1 repeated INFO, 1 fault of any kind | the properties of the modem below |
| `ModemErrorEndsNode` | 1 packet, 1 fault | violation: one unreadable packet ends the node |
| `ChunkBatch` | 5 chunks, windows of 2, batches of up to 2, 1 fault | `RequestMeansWanted`, `EveryWindowInTurn`, `EverythingArrives` |
| `Broadcast` | 3 chunks, 13 rounds, 2 faults of any kind | the properties of the transfer below, and that it implements `VerifiedStore` |

Bounds.  Two chunks are one durable and one missing, and a last one; two
manifests are a conflict; two peers are a rotation and a mixture; two stops are
a stop during the work that an earlier stop left behind.  Two nibbles are a
root, an inner summary or leaf, and a second step of the walk; a queue of one
overflows when two branches differ or a timed-out job returns, a table of one
when a leaf lists two IDs, and one source when both peers hold the same ID.  Three
acquisitions are the least for which a removal makes the rotation skip one.
Five chunks in windows of two are a first, a middle and a shorter last window;
a batch is a whole window, or one chunk of it when the traffic allows no more.
`TxCount = 2` makes the transaction counter wrap at once.  For the modem, two
packets have an order and one of them can meet a transmission; two sends are a
timed-out request and the one its late answer meets; every fault is reached
alone, in every state.  Two faults in a transfer are a fault during the
recovery from the first, such as a second restart of the broadcaster; three
chunks are one on disk, one in flight and one not sent.

The runs of acquisition, chunk requests and reconciliation turn deadlock checking off: when
everything is held, or the bounded stops and growth are used up, the node
rightly has nothing to do.  So do those of the modem, whose host may end, and
of the transfer, whose publisher ends.

### Properties

*Store.* `MarkerMeansVerified`: a marker stands beside a manifest and verified
content after any failure.  `ReceiptsAreDurable`: the receipt state that
decides what is requested is what the disk holds.  `DownloadNotLost`: a downloaded
partial is taken apart only when its object is complete, by `add`, or when it
could not be read at startup.  `ListedIfHeld`: a scan does not miss a
publication that moves from partial to complete while it looks.
`ImplementsVerifiedStore`: it becomes complete in one step, from verified chunks
only, and stays so.

*Acquisition.* `PolicyRespected`: chunks are only requested under a manifest
the present policy admits, also after a restart with another policy.
`ManifestsNotMixed`: what is stored about a publication is a manifest some peer
holds, never a name of one with the signature of another.  `OneExchange`:
one self-initiated exchange is outstanding and it asks for something that is
missing.  `CompleteNotRequested`: what is held is not asked for, although a
failed commit leaves an acquisition of it and a failed refresh a stale snapshot.
`RefusalRemembered`: a source at which policy refused a publication does not
become a source of it again before the node stops, unless a partial waits or the
operator wants it, or the memory of that publication is full; so the refusal is
recorded, and nothing that happens to other acquisitions makes the node forget
it.  `ReceiptsAreDurable`: what is counted as received is on disk under the same
manifest; a removal that stopped half way leaves memory ahead of the disk only
when memory lacks nothing, and then the object is complete or the assembly will
not verify.  `ImplementsReplica`: see
section 2; its hard case is a partial that one run of the node left and
another, under a stricter policy, finds.
`EventuallyAcquiredIfLacking` and `WantHonoured` are about a node that may stop
once, anywhere: what an available source holds is acquired when policy admits it,
or the operator wants it.  Each excepts what the code does not do, described
under disagreements below: a partial that lacks nothing (`LacksSome`), and for
`WantHonoured` a partial that was deferred at the start and that no available
source continues (`Continues`).

*Chunk requests.* `RequestMeansWanted`: base and bitmap say just the missing
chunks the node takes answers for.  `EveryWindowInTurn`: before a missing chunk is asked for,
every other window is visited at most once; a *visit* is the requests for one
window that follow each other, and lasts until the window's last missing chunk
has been asked for.  A visit can be long: the batch starts at the window's first
missing chunk, not at the cursor, so while those in front keep being lost they
are asked for again and those behind them wait.  `EverythingArrives`: with
chunks that are heard at last, none waits for ever.

*Reconciliation.* `DifferencesCovered`: every ID of the generation last heard
from a peer is held, has been found at that peer, or lies under a job still to
be done or given up since the peer's last root -- nothing is lost through
timeouts, failed sends, late or repeated answers, or other peers' roots.  What
is given up is said exactly, branch by branch: what a full queue refused, what a
full table of acquisitions or list of sources passed over, and the job whose
answer did not decode.  All of it comes back with the peer's next root.  `JobsCurrent`: no job outlives the root that began it.
`NoDuplicateJobs`.

*Scheduler.* `BoundedBypass`: a due acquisition is passed over fewer than
N(N-1) times.  It is not one round: `removeOrder` shortens the list but leaves
the cursor, so a removal just after a turn skips the next in line.  The bound
is tight for three and four acquisitions.  `EveryoneServed`: every
acquisition that is due, reconciliation and roots get their turns.

*Modem.* `SentMeansOnAir`: when `Send` reports success, the packet has left the
antenna, whatever timed out before; the exception is the overtaken transmission
described above, which the firmware cannot tell from a finished one.
`TransmittedInOrderOnce`: no request is transmitted twice, and requests are
transmitted in order.  `PacketsInOrder` and `ReportedIsDelivered`: what the
modem reports reaches `Receive` once, in order, and eventually, although
requests in between set frames aside.  `ServesConfigured`: a host that serves
has read back its own settings from a modem that keeps them until it resets.
`StopsTransmitting`: the radio listens again although its interrupt may never
come.

*Transfer.* `ReportedIsCommitted`: "complete" is printed only for a committed
object.  `SessionOnDisk`: every chunk a receipt may claim is on disk.
`NoSimultaneousTransmission`: while nothing fails, the broadcaster is silent
whenever the publisher sends, which is what the protocol's rule of answering
only manifests and queries is for.  `Ingested`: with enough rounds the file is
committed and reported.  How many are enough is a result of its own: for one
fault, 5 rounds for two chunks, 7 for three, 8 for four; for two faults, 10 and
13.  A broadcaster that restarts loses its session and answers every chunk with
an error; the publisher takes each of these as the answer to a later request,
and each uses up a round.  So the default of eight rounds is not enough for one
restart of the broadcaster during a file of five chunks or more: the publisher
then reports that the transfer did not complete, although it may have.  Running
it again goes on from what is on disk.

### Fairness

`AcquisitionLiveness`: the service manager starts a process that ended
(`Restart=on-failure`); a peer in range answers a request and the node hears an
answer, except for `MaxLosses` losses; deadlines expire; and every acquisition
and every peer's reconciliation gets its turn although other work disables it
meanwhile (strong fairness).  This last one is what `Scheduler` shows of the
loop, from weaker assumptions: exchanges end, the channel is quiet again and
again, also between two roots (the advertisement interval, 30 s by default, is
much longer than the longest quiet period and deferral, a few seconds), and the
loop keeps ticking.

`ChunkBatch`: a chunk that is asked for again and again is sent and heard at
last (strong fairness for each chunk; any number of losses before), the node
keeps asking, deadlines pass.  Sends that fail are bounded.

`ModemLink`: the host reads or its deadline passes, and a serving host calls
`Receive` (`Run` does at every turn); the firmware's `loop` runs, so that its
timer expires.  That the radio reports the end of a transmission is not
assumed.

`Broadcast`: both programs take their steps, `waitForState` returns by its
deadline, and an operator whose publisher broke off runs it again -- not one
whose publisher gave up, so `Ingested` depends on the rounds.

### Where code and documents disagree

* `RestartAfterLastChunk`: the node stops between the last chunk file and the
  complete marker.  `NewRuntime` resumes an assembly that lacks nothing,
  `initiate` finds nothing to ask for and returns, and nothing ever commits it
  (`runtime.go:781`); docs/architecture.md:68 says that after a restart and
  after all chunks arrive the node verifies and commits.
* `CatalogBesideCommit`: a scan between reading a partial's manifest and
  `Begin` brings back the directory `Commit` removed (`catalog.go:32`,
  `store.go:280`); docs/operations.md:34 calls these commands read-only.
* `ModemErrorEndsNode`: the firmware reports a packet it cannot read, say one
  with a bad CRC, by an ERROR frame (`main.cpp:278`); `Receive` returns it as an
  error and `Run` ends the process (`radio.go:67`, `runtime.go:168`).
  docs/troubleshooting.md:72 says that missing chunks are expected and requested
  again.  The service manager restarts the node, without its sources, backoffs
  and reconciliation state.

One more is written into a property.  A partial that policy defers at startup is
not resumed;
when the operator then wants it, the node asks for a manifest, and `Begin`
refuses every manifest that differs from the one on disk (`store.go:294`).  If
the source it began with is gone, the transfer does not continue from another,
while docs/operations.md:79 and 85 say that want overrides admission policy and
begins when a source is available, and docs/architecture.md:28 that partial
chunks are source-independent.  `WantHonoured`, in whose run the node restarts
with another policy, therefore excepts a partial that no available source
continues (`Continues`); without that exception, or without that for a partial
that lacks nothing, TLC finds it violated.

## 4. What is proved

`PublicationStoreProofs`, for every finite non-empty set of chunks and every
set of manifests (`StoreAssumption`):

| Theorem | Says |
|---|---|
| `TypeCorrect` | `Spec => []TypeOK` |
| `StoreInvariant` | `Spec => []StoreInv`, the inductive invariant |
| `MarkerSafe`, `ReceiptsSafe` | `MarkerMeansVerified`, `ReceiptsAreDurable` |
| `CommitSafe` | `OnlyVerifiedCommitted`: bad bytes never reach the writes of `Commit` |
| `CompleteStays` | `CompleteIsStable`: what is complete stays complete |
| `DownloadSafe` | `DownloadNotLost` |
| `StoreImplementsVerified` | `Spec => Verified!Spec` |
| `HeldIsListed` | `MCSpec => []ListedIfHeld` |

`MarkerMeansVerified` is not inductive by itself: that the marker is written
beside a manifest and good content needs `Progress`, which records what each
point inside an operation has already made true (content written before the
manifest, manifest before the marker, memory equal to disk from the last chunk
on, what a removal in progress was called for).  `StoreInv` is their
conjunction; one lemma per action shows that the step preserves it.  The
refinement maps `have` to the chunks whose files are good, or to all of them
once the object is complete, and every step to `Receive`, `Lose`, `Finish` or a
stutter.

`HeldIsListed` is about the scan and the node together, so it is proved of the
instance with the history variable that notes what was held all the while.
`ScanInv` relates what the scan has already read to what is on disk now: a
partial whose manifest was read is still there or has become a complete object,
since nobody overwrites the manifest of a partial.

`BroadcastProofs`, for every finite set of chunks (also the empty one), every
number of rounds and every number of faults (`BroadcastAssumption`):

| Theorem | Says |
|---|---|
| `TransferInvariant` | `Spec => []TransferInv`, the inductive invariant |
| `TransferTypeCorrect` | `Spec => []TypeOK` |
| `ReportedCommitted`, `SessionSafe` | `ReportedIsCommitted`, `SessionOnDisk` |
| `TransferImplementsVerified` | `Spec => Verified!Spec` |
| `NeverSimultaneous` | `NoSimultaneousTransmission` |

That the publisher reports the truth needs what is on its way to it: every
COMPLETE in the queue, however late and whoever was restarted meanwhile, is of
an object that is complete (`Truthful`), and an object stays complete.  That
the commit is verified needs the session: it is open and whole whenever a
commit is about to happen, and what it holds is on disk -- unless a removal
stopped half way: then the session is whole, and its object is complete or its
next commit fails to verify and discards it.  `TransferInv` joins
these with `TypeOK`; the lemmas about queues say that taking, dropping and
appending messages keeps their type.

That the two never transmit at once (while `faults` is zero) needs to know what
is under way in each phase of the publisher.  `InTurn` says it: nothing while
it announces, the manifest or its answer once it has offered, only chunks while
it sends, then chunks with the query behind them, or the answer alone.  The hard
part is that a chunk is never refused: each one on its way is one the session
lacks, and is on its way once.

`SchedulerProofs`, for every finite set of publications and every number of jobs
(`SchedulerAssumption`):

| Theorem | Says |
|---|---|
| `TurnInvariant` | `Spec => []TurnInv`, the inductive invariant |
| `TurnTypeCorrect` | `Spec => []TypeOK` |
| `OrderSafe` | `OrderMatchesTable` |
| `BypassBounded` | `N > 1 /\ MCSpec => []BoundedBypass` |

The argument is about lists without repetitions: removing a position removes
that element and no other, appending a publication that is not in the table
adds one, and such a list is no longer than the set is large, which bounds the
cursor.  `TurnInv` adds that jobs only move between due, waiting and active,
with the bound on their sum.

`BypassBounded` is a termination argument carried in an invariant.  `Left(k, c)`
bounds how often the acquisition at position `k` can still be passed over with
the cursor at `c`: once by each one the rotation reaches before it, and by a
whole round of `N - 1` for each one ahead of it in the list, whose removal lets
the cursor skip it.  `BypassInv` says that the turns already lost and those
left stay below `N(N - 1)`.  The hypothesis is that of the property: a single
acquisition is never passed over, and the strict bound would be zero.

`AcquisitionProofs`, for every set of publications, peers and chunks, every
policy, and every kind of fault (`AcquisitionAssumption`, `PolicyAssumption`,
and `NoneAssumption`, that `None` is none of the values it stands beside):

| Theorem | Says |
|---|---|
| `AcquisitionInvariant` | `Spec => []AcquisitionInv`, the inductive invariant |
| `AcquisitionTypeOK` | `Spec => []TypeOK` |
| `OneExchangeAlways` | `OneExchange` |
| `ManifestsNeverMixed` | `ManifestsNotMixed` |
| `PolicyAlwaysRespected` | `PolicyRespected` |
| `ReceiptsAlwaysDurable` | `ReceiptsAreDurable` |
| `RefusalsRemembered` | `MemorySpec => RefusalRemembered`, an action property |
| `NeverRequestedWhenHeld` | `CompleteNotRequested` |
| `AcquisitionImplementsReplica` | `Spec => ImplementsReplica` |

`AllSound` says of each acquisition that its manifest is that of the source it
names (`Pinned`), what it waits for (`Waits`), that the policy admits its
assembly (`Admitted`) and that its receipts are on disk under its manifest
(`Durable`).  `AirSound` says that a message is one somebody could have sent.
The step that is not obvious is the signature: its answer carries no
publication, so that it is joined to the right manifest rests on
`SignaturesBelong`, that whatever bears the outstanding transaction number
answers the outstanding request, which in turn rests on `OneAtATime` and on the
assumption about the 16-bit counter in section 2.

`RefusalsRemembered` is about the history in `AcquisitionMemory`.  Its proof has
a fact about steps and an invariant.  The step fact, `Mindful`: no step but a
leaf gives an acquisition a source, and every step of a running node either
leaves what it inspected of a publication alone, records the inspection in the
step that drops the acquisition, or ends with the publication acquired.  A leaf
adds its sender, and only to what `Eligible` lets through.  The invariant,
`Remembered`: while a refused publication is not acquired, its manifest is known
on disk (so that `acceptLeaf` looks), and each source in `refused[i]` is in
`inspected[i]` or the memory of `i` is full.  A memory that is full stays so, for
it is cleared only when the publication is acquired: the other `clearInspected`,
for an invalid signature, is not reached, since base and signature come from one
source and no manifest a holder serves fails its verification.

`CompleteNotRequested` and the refinement rest on a second invariant,
`Settled`.  A node can have an acquisition of what it holds: a commit that fails
after the marker leaves one, and so does a process that stops between the marker
and the removal of the partial, for `NewRuntime` resumes the partial.  `Settled`
says that such an acquisition waits for nothing, and either lacks no chunk or
has no source, and that the partial beside the object has the object's manifest.
A resumed one never gets a source, since `acceptLeaf` passes over what is
complete.  So an answer is only ever taken about what is not held, and what
`Commit` writes is new.  Each handler then is one step of `Replica` or a
stutter: a signature begins, acquires or abandons, the last chunk acquires or
abandons (the assembly is that of the partial, by `Durable`), a start is
`Restart` with the partials it could not read.

`ChunkBatchProofs`, for every number of chunks, window and batch size
(`BatchAssumption`):

| Theorem | Says |
|---|---|
| `BatchInvariant` | `Spec => []BatchInv`, the inductive invariant |
| `BatchTypeOK` | `TypeOK` |
| `RequestAlwaysMeansWanted` | `RequestMeansWanted` |
| `ExchangeAlwaysOpen` | `ExchangeOpen`: a node that waits waits for a chunk it lacks |
| `WindowsTakeTurns` | `MCSpec => []EveryWindowInTurn` |
| `OneWindowBatch` | in a publication of one window a batch is its least missing chunks |

`BatchInv` adds to the properties that a request still in the air has no answers
yet, so that nothing it asks for has been taken off `wanted`.  The lemmas say
what the search finds (no missing chunk between the cursor and it, going round)
and what the least members of a finite set are.  `EveryWindowInTurn` is again a
bound carried in an invariant: `Ahead` is how many windows, going round, lie
between the one last asked and the watched chunk's, a whole round if the cursor
has passed it in its own window, and `TurnsInv` says that the visits counted
and those ahead stay within the number of windows.  Each visit to another
window uses up at least one; a visit to the chunk's own window asks for it
before it ends, because a batch that stops short of it leaves the cursor short
of it too.

`ReconciliationProofs`, for every radix, depth and leaf threshold, every
inventory, and every bound on tracked peers, queued jobs, acquisitions and their
sources (`RadixAssumption`,
`ReconciliationAssumption`, `NoneAssumption`):

| Theorem | Says |
|---|---|
| `ReconciliationInvariant` | `Spec => []ReconciliationInv`, the inductive invariant |
| `ReconciliationTypeOK` | `Spec => []TypeOK` |
| `JobsAlwaysCurrent` | `JobsCurrent` |
| `JobsNeverDuplicated` | `NoDuplicateJobs` |
| `DifferencesAlwaysCovered` | `DifferencesCovered` |

The invariant has one part per piece of state (`StoreOK`, `PeersTracked`,
`QueueBounded`, `JobsTracked`) and two about the air: an answer that bears the
active transaction number is about the generation and the branch that was asked
(`AirCurrent`).  With it an answer that decodes can be compared with what the
peer had then, and `DifferencesCovered` follows from the geometry of the
branches: the IDs under a branch are those under its children, children do not
overlap, and a branch with equal digests hides no difference.  That a job is
refused only by a full queue (`RefusedByFull`) is a counting argument: the first
one refused follows as many as there was room for.

`ModemLinkProofs`, for every number of sends, retries and faults
(`LinkAssumption`):

| Theorem | Says |
|---|---|
| `LinkInvariant` | `Spec => [](RadioInv /\ ServeInv)`, the inductive invariant |
| `LinkTypeOK` | `Spec => []TypeOK` |
| `SentMeansAlwaysOnAir` | `SentMeansOnAir` |
| `AlwaysServesConfigured` | `ServesConfigured` |
| `PacketsAlwaysInOrder` | `PacketsInOrder` |
| `AlwaysTransmittedInOrderOnce` | `NoWrap => (Spec => []TransmittedInOrderOnce)` |

`RadioInv` carries an answer back to its cause: every successful result on the
line bears the number of a transmission that left the antenna or was overtaken.
`ServeInv` follows the three requests of opening by their numbers, so that the
answer that confirms the settings is to the readback, with no request left on
the line behind it that could change them.  `OrderInv` says that of the
transmission requests on the line and those begun the later has the higher
number; it needs `NoWrap`, `MaxSends + 4 < 65536`: past the wrap of the 16-bit
counter a later request has a lower number, and the property is not about that.

`PacketInv` is about the packets on their way to the host.  The frames set aside
in `pending` and those on the line are one line, `pending \o toHost`: setting a
frame aside moves the mark between them and nothing else.  What `Receive` has
returned, followed by the packets of that line, is always what the modem has
reported less what was damaged; since each packet is heard once, a damaged frame
removes exactly one.

`CommonLemmas` has what several of these use: lists without repetitions under
removal and appending, bounds on their length, and that a non-empty set of
naturals has a least element.

Proved and checked by no run: the types and `ExchangeOpen` of `ChunkBatch`,
`OnlyVerifiedCommitted` of the store, and `CompleteIsStable`, which also follows
from its refinement.

Model-checked only: liveness.  Fairness and ENABLED are outside the proof system.
Every invariant and action property of the passing runs, and the three
refinements, are proved.

## 5. What is not modelled

* The radio console: every command is one request of the modem client or a loop
  of `ReadFrame`, and it keeps no state beside them.
* Byte layouts of serial frames, packets, manifests and signatures, JSON,
  cryptography, key and trust files, the configuration file, installation.
  They are sequential and covered by unit tests; what does not decode is a lost
  frame or an answer marked bad.
* Traffic pressure and the durations made from it: they decide how long, not
  whether.
* Publications of more than one window beside others: `ChunkBatch` has one
  acquisition and all its chunks, `Acquisition` several of one window each.
* Hash collisions, and power loss (unlinks that are not synced).
* In the modem: the OLED and its command, refusals of malformed requests that
  the client never sends, failing serial reads and writes, the wrap of the
  client's sequence number at 2^16, where the number of unsolicited frames,
  zero, is that of a request.  After a reset the modem has its default settings
  and nothing sets them again; the documents call the settings volatile.
* In the legacy transfer: several publications at once (sessions are separate,
  and the publisher skips packets of others), and two publishers.

## 6. Plan

Done: the store, acquisition with policy and chunk requests, reconciliation,
scheduling, the modem link and the legacy transfer, each with the proofs of
section 4.  Next, in this order:

1. Liveness of `Reconciliation`: with departing peers and with more peers than
   are tracked.
2. `Replication`: several nodes, each a `Replica`, with what reconciliation
   finds in place of `Held`.
