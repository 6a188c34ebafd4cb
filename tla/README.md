# Drifting: verification of the synchronisation core

Drifting is a local-first application for writing novels: a Tauri shell, a Rust
core and a React and TypeScript renderer. Each device keeps the whole of a
project in SQLite; a sync engine in the renderer exchanges immutable objects with
the other devices of the same account through a store that knows nothing about
their content. What is hard in this program is that engine: several devices, an
unreliable store, an author who never stops writing, timers, suspends, reloads,
and a process that may end between any two steps. This directory specifies it in
TLA+, checks it on small instances with TLC, and proves its safety properties with TLAPS.

Paths are relative to `src/src/renderer/sync/` unless they begin with `src/`.

## Contents

| File | What it is |
| --- | --- |
| `Frontier.tla`, `Frontier.cfg` | the lanes of one writer's frontier (`engine/frontier.ts`) |
| `FrontierSets.tla` | what a frontier promises: three sets of sequence numbers |
| `FrontierProofs.tla` | proofs: types, `assertWriterFrontierInvariants`, normal form, refinement |
| `SyncEngine.tla` | the sync cycle of every device over one provider |
| `SharedJournal.tla` | what the engine promises about history |
| `MCSyncEngine.tla`, `Engine*.cfg` | instances of it |
| `SyncEngineProofs.tla` | proof of type correctness |
| `SyncJournalProofs.tla` | proofs about history: provenance, lanes, receipts, application, refinement |
| `SyncCursorProofs.tla` | proofs about the cursor, lost objects and the verdict of convergence |
| `SyncScheduler.tla` | when cycles run: scheduler, holds, suspension, reloads |
| `MCSyncScheduler.tla`, `Scheduler*.cfg` | instances of it |
| `SyncSchedulerProofs.tla` | proofs of its safety properties |
| `Compaction.tla` | checkpoints, truncation, catch-up and pruning over the same provider |
| `MCCompaction.tla`, `Compaction*.cfg` | instances of it |
| `CompactionProofs.tla` | proofs of its safety properties |
| `Reducer.tla` | how change sets applied in any order become one state, and its rows |
| `MCReducer.tla`, `Reducer.cfg` | an instance of it |
| `ReducerProofs.tla` | proofs of its properties |
| `PROJECT.json` | components, runs, mutants, source map, findings, hazards, theorems |

## Inventory

**Journal** (`journal/`). *State*: `sync_change_set`, the writer state with its
hybrid clock, incarnations, order keys. *Operations*: run an authored transaction,
which appends one change set, gives it the next sequence number of this device's
writer and applies it locally, all in one SQLite transaction; rotate the writer
when the database turns out to be another installation's. *Correct when* a
writer's numbers have no gap and are never used twice.

**Durable runtime and cycle** (`engine/durable-runtime.ts`, `engine/cycle.ts`).
*State*: `sync_segment`, `sync_local_object`, `sync_transfer`,
`sync_remote_object`, `sync_cursor`, `sync_frontier`, `sync_blob_state`,
`sync_provider_binding`. *Operations*, in the order of a cycle: prepare (seal
unsealed change sets into hash-chained segments), pull (inventory once, then
changes; stage each object through an inbox file; commit the cursor), ingest
(verify segments, install blobs), apply (in contiguous order), publish (blobs,
then segments), and the verdict. *Hard*: a cycle is dozens of separate
transactions, provider calls and native file operations, and ends at any of them
when it is aborted or the process dies. *Correct when* the cursor skips nothing,
every journal is applied as a prefix, no receipt is false, blobs come first, a
loss blocks, and a verdict of convergence means what it says.

**Frontier** (`engine/frontier.ts`). *State*: three lanes (received, applied,
published) of highest number and gaps, and the hash of the segment applied last.
*Correct when* a lane is exactly the set of numbers observed.

**Providers** (`providers/`). In-memory, local-folder and hosted stores behind one
contract: immutable upload by logical key, a listing, a change feed. *Hard*: lost
answers, late uploads, lost objects, pages and tokens, pruning, rate limits.

**Native assets** (`assets/`). *State*: inbox files, staged and installed sources,
outside SQLite. *Correct when* files and rows agree after an interruption.

**Scheduler and coordinator** (`engine/scheduler.ts`, `engine/coordinator.ts`).
*State*: one pending job per generation, poll deadlines, one timer, one active
cycle, flags online / suspended / foreground. *Operations*: a trigger of each
kind, retry, network, focus, suspend. *Correct when* no wake-up is lost, nobody
starves, a server's Retry-After is respected, and nothing runs while suspended.

**Runtime control and supervisor** (`product-runtime-control.ts`,
`production-runtime.ts`). *State*: the mounted coordinator and the count of
holds. *Operations*: hold, release, attach, reload, deactivate, wait for
convergence. *Correct when* no cycle runs while the local replica changes owner.

**Reducer and materializer** (`reducer/`, `protocol/order.ts`, `journal/incarnation.ts`
and the authored operations in `src/src/renderer/usecase/`). *State*: registers, tagged
sets and lifecycles of every entity; the domain rows; the Yjs documents; the clock.
*Operations*: reduce a change set (a local one after its rows were written by the
operation itself, a remote one before the kernel writes them), rebuild the rows of
what became dirty. *Hard*: lanes of several writers arrive in any order, with clocks
that disagree, and two authors write the rows: the operations and the kernel.
*Correct when* the reduced state depends on what was applied and not on the order,
nobody's edit loses to one its author had seen and replaced, and the rows say what
the reduced state says.

**Compaction and checkpoints** (`compaction/`, `checkpoint/`). *State*:
`sync_checkpoint`, `sync_reducer_base`, the snapshot parts in `sync_local_object`,
`removed_at` of `sync_remote_object`, the key of the last fruitless catch-up.
*Operations*, in the order of a cycle: catch up (install the newest snapshot when
local segments do not reach it), drop local segments the provider pruned, rebase
the reducer and delete the journal rows its base covers in batches, capture and
publish or resume a checkpoint, plan a prune and send it. *Hard*: every decision is
taken from what the last pull saw, while other devices publish and prune, and any
cycle may end between two of its transactions. *Correct when* everything applied can
be replayed, nothing authored is deleted before it is at the provider, and what a
prune removes can be reconstructed from every snapshot it leaves.

**Restore** (`restore/`, `checkpoint/restore.ts`). Restores a set of projects
atomically.
**Authority, provisioning, disconnect** (`app-authority*.ts`, `provision/`,
`disconnect/`). One owner of all bindings; resumable transitions between local
and hosted. **Agent chat sync** (`agent-chat/`). Conversations as branches.
**Hosted** (`hosted/`). Sessions, quota, discovery.

Outside the sync engine: the agent runtime (`src/src/renderer/lib/agent/runtime`),
the Rust core (`src/crates/drifting-core`), the document and prose crates, the Tauri
shell (`src/src-tauri`), library backup, transfer, share links, and the interface.

*Interactions.* An authored commit calls the scheduler; the scheduler runs one
cycle at a time; a cycle reads and writes SQLite, calls the provider and the
native side. Devices meet only in the provider. Disconnecting, deleting a project
and restoring take a hold first. The events `sync:authority-changed` and
`db:ready` replace the coordinator. The operating system suspends and resumes.

## Frontier

`ObserveReceived`, `ObserveApplied` and `ObservePublished` are
`observeFrontierRange` on each lane, `SetAppliedSegmentHead` the function of that
name. The array of gaps is a set of ranges; a throw is an action that is not
enabled. `MaxSeq` bounds the numbers. Run **frontier** (`MaxSeq = 5`: a gap can be
split, and both pieces be cut at either end) checks that lanes have the one normal
form of the sets they stand for, the assertion the repository makes before it
saves, and that the module implements `FrontierSets`. The reachable lanes are all
sets over 1..5, which includes every relative position of a range and two gaps.

*Proved* (`FrontierProofs`), for every `MaxSeq`: all four properties of the run. The
inductive invariant `IInv` says that a lane's gaps are within the bound, end below its
maximum and do not touch, that the applied lane has none, and that applied and published
numbers were received. That the gaps are apart is needed because removing a range gap
by gap is right only then. The refinement follows from what `Remainder` means on sets
(one lemma) lifted to lanes. `LanesCanonical` follows from the normal form alone
(`CanonicalLemma`): both ends of a missing range are the ends of one gap, since next to
every gap a number was observed.

## SyncEngine

One action is one SQLite transaction, one provider call or one native file
operation of one device; devices interleave freely and the author acts at any
time. The variables are the tables (see the comments at the declarations), the
provider's log, and what a running cycle has in memory (`phase`, `page`, `todo`,
`upTo`, `item`), which `Interrupt` forgets at any point, whether by an abort, an
error or the end of the process. `LateUpload` lets an upload whose sender gave up
arrive afterwards; `LoseObject` removes an object from the provider.

*Abstractions.* A segment is its writer, its range and its predecessor's hash; a
hash is the identity of what it hashes; a blob is its content. Lanes are sets of
numbers, which is what the refinement of `Frontier` justifies. A device owns one
writer lane. One listing is one page: the page token only splits it, and tokens
are planned as a module. `BeginDownload` is one step, though the code reads the rows
of the object before the transaction that writes them: no other code writes those rows
while the device stages a page. Some code is a no-op within these limits and has no
action: `stageObservedSegmentBacklog` and the inventory check of
`persistInventoryCursor` (no rejected cursors or resets), the collision branch of
the quarantine (an object is its content). Left out: checkpoints, catch-up,
pruning providers, malformed bytes, transfer progress. In run **live**
`MaxSegment` is 1, since the age after which a short segment is sealed is not
modelled.

| Run | Instance | Question |
| --- | --- | --- |
| history | 2 devices, 2+1 change sets, segments of 1 or 2, one interruption, one object lost | cursor, receipts, chain, verdict, loss, and refinement of `SharedJournal` |
| shared | both devices add the same image, one interruption | blobs before segments, receipts, agreement |
| live | one change each, one interruption, fair cycles | every change arrives |

Two devices are enough for every interaction in the code: a device meets the rest
only through the log. Three change sets give two segments of one writer against a
foreign one, so that predecessors, gaps and out-of-order announcements occur; one
interruption can happen at each step, and what it leaves is what the next cycle
starts from, so a second one adds only a repetition. `FewFaults` keeps an interruption
and a loss apart once a device has written twice: together they are explored with one
change set each, either alone with all three. Deadlock is not checked in **history**,
since a device that a loss has blocked runs no more cycles; it is in **shared**.

*Fairness* (`LiveSpec`): weak fairness of each device's `Cycle`, all steps of a
cycle and its start. The scheduler justifies it: a poll or a retry starts another
cycle for as long as the application runs in the foreground (see below).
Interruptions are bounded, lost objects are not part of that run.

*Proved* for all constants (any devices, blobs, change sets, segment lengths,
interruptions and losses): every safety property of these runs, and the refinement. The
invariant is built in layers, each inductive on top of those before it; one lemma per
layer and step that matters, and frame lemmas for the rest (`OthersSame`: devices share
nothing but the provider; `LogStep`, `LogGrows`: the log is only appended to).

| Layer | What it says | Why it is needed |
| --- | --- | --- |
| `TypeOK`, `OwnLanes` (`SyncEngineProofs`) | `item` and `todo` fit the phase | an upload loop holds blobs or segments, never both |
| 1 `Provenance` (`SyncJournalProofs`) | a segment anywhere, in the network too, was sealed by the writer it names; the inbox holds what others shared, an upload what is one's own | nothing below could be said of an object that merely has the right type |
| 2 `LanesOK` | a lane cuts its journal from the beginning, without overlap, and is chained; it ends where its writer has applied itself | an interruption between sealing and upload must not make a second cut of the same change sets |
| 3 `ReceiptsOK` | whatever is taken for being at the provider, at any step of an upload or a download, was announced, blobs before segments | a receipt is written two steps after the upload it stands for |
| 4 `AppliedOK` | what is applied of another writer is a shared prefix with its blobs; the stored head is the hash of its last segment | a prefix alone does not say that the next segment will link |
| 5 `CursorsOK` (`SyncCursorProofs`) | what lies behind the cursor is durable, and what lies behind its next value is durable or still on the page | a cursor is committed by a later step than the rows that justify it |
| 6 `LossesOK` | an object lost behind the cursor is not observed; a page of changes is worked off in order; what was just uploaded, or is on the page, is not lost behind the cursor | an object is listed, lost and announced again while a page is open |
| 7 `VerdictsOK` | an idle device that reports convergence has nothing staged, quarantined, unpublished or unapplied | the verdict is read long after the checks it stands for |

Layers 1 to 4 give `ReceiptsAreTrue`, `BlobsFirst`, `HonestSegmentsAccepted` and, step by
step, `ImplementsJournal`; layers 5 to 7 give `CursorNeverSkips`, `LossBlocks` and, with
the first four, `ConvergedDevicesAgree`. For that one also `Settled` is needed: every
object in the log has a last word, so an announced segment that its author still
observes is not lost and is behind every cursor at the end of the log. `LossesOK` rests
on the order in which a page of changes is staged: the announcement of an object and its
loss may stand on the same page, and worked off in any other order the page would leave
the object observed.

Two theorems go beyond the runs. `NoForks`: the segments of one writer in the network
never overlap and are chained. `PrefixesApplied`: what a device has applied of any
writer, itself included, is one number, which is how `Compaction` and `Reducer` hold it.
The assumptions are those of `SyncEngine`: a blob is not a segment, a change set binds
blobs, `MaxSegment` is positive, quotas and bounds are natural numbers.

*Only checked*: `EveryChangeArrives`, which is about fairness, and `InboxDurable`, which
run **early_blob** refutes.

## SyncScheduler

JavaScript runs one callback at a time, so an action is a whole callback. The
record `sched` is the mounted scheduler; a method edits it and ends in `Wake`
(`scheduleWake`), which may start a cycle. Instants are kept relative: `Tick`
moves every deadline one unit nearer, and what is due stays due. A timer may fire
late (`Tick` is never blocked by a timer that is due), as browsers' timers do.
`notBefore` is a history variable: what the last failure asked for; a reload forgets
it, as the code keeps pending jobs in the scheduler that the reload discards. The triggers
manual, start, resume, online, lifecycle-flush and self-publish are one, "now",
because the scheduler treats them alike. Times are scaled: 1 debounce, 2, 3 and 4
for the polls, 2 and 4 for the windows, delays 0 and 3 (no wait, and a
Retry-After longer than debounce and active poll): all the orders of deadlines
that the real constants allow arise. Each project registers itself and its agent
chat, so two generations are the normal case. `holder` and `drains` are the
callers of `hold()`; `orphans` are cycles of coordinators that were replaced.

| Run | Instance | Question |
| --- | --- | --- |
| sched_holds | one generation, two holders, one reload, fair | exclusion, ownership of the suspension, holds are granted |
| sched_live | two generations, one poll interval, fair | timers, retries, requests are served, polls go on |

Run **sched_live** gives the three poll intervals the same length and both windows
the length 0: which of them is used is a question of lengths, and **sched_holds**
has them apart.

*Fairness*: time passes, timers fire, cycles end (provider calls have time-outs,
and the signal aborts them), promises resolve. No fairness of the author, the
window, the operating system or the release of a hold.

*Proved* (`SyncSchedulerProofs`), for any number of generations and holders and
for any delays: `TypeOK`, `WakeArmed`, `RetryAfterIsAFloor`, `QuietInBackground`,
`HoldExcludesCycles` and `SuspensionIsOwned`. The inductive invariant `IInv` is

- `Kept`, which every method of the scheduler keeps: jobs are well formed (no
  floor is later than the due time); no polls in the background (`Quiet`); a cycle
  that may not run is aborted (`Blocked`); a generation that was told to wait is
  not active and has a job whose floor is no earlier than it was told (`Waits`);
- `ArmedIfIdle`: an idle scheduler that may run has its timer at its earliest
  deadline. Between two methods of one callback this does not hold, so it is not
  part of `Kept`: it is what the trailing `Wake` of each callback restores;
- `HoldsOwn`: with a coordinator mounted, a hold implies suspended, and suspended
  implies a hold or the operating system; with none mounted nothing runs or waits.

`Waits` is what makes the floor inductive: that no cycle starts early is a fact
about `selectDueSyncGeneration`, but it rests on every way into `queue` keeping the
later of the old and the new floor. One lemma per method of the scheduler, one
step per action. The assumptions are those of `SyncScheduler`: finitely many
generations (a least deadline exists), positive intervals, `None` not a number.
`HoldDrains` is not among the theorems: run **sched_orphan** refutes it. The three
liveness properties are only model-checked.

## Compaction

`SyncEngine` takes a cycle apart up to the apply phase; `Compaction` has the phases
around and after it, so a pull is one action here and a cycle is interrupted where
compaction cares: between the transactions of catch-up, truncation and its batches,
between an upload and its receipt, between the plan of a prune and the request. An
action is again one transaction or one provider call. `Next` is any device's
`Cycle` or `Interrupt`; the author's commit and its sealing are one action.

*Abstractions.* A segment holds one change set and a lane is named by its device. A
frontier lane, which the apply phase keeps contiguous (theorem `PrefixesApplied`), is a
number. A snapshot is its author and its frontier: one device captures a frontier at
most once. `Ahead` is whose clock is ahead, since the commit time breaks ties between
snapshots. What a pull misses (`Late`: a download answered 404, an image that is not
at the provider yet) and interrupted cycles share one budget, `MaxFaults`. A base may
fail the check that it reproduces the reducer's state at any time (`NoTruncation`),
and the reducer may name any of the rows in `Named`, which truncation then keeps. The
key of a check that ran is remembered only if the catalog was incomplete (the code
sets it always): with a complete one the check would repeat itself and have the same
result. A check that is skipped keeps the key. Left out:
conflicts and quarantine, forked successors, payload v1, image bytes, the limit of
512 ids in a prune request, pages.

| Run | Instance | Question |
| --- | --- | --- |
| compaction | 2 devices, one prunes, 1 change set each, one fault | replay, own edits, anchors, pruning, the base |
| regress | no fault, the other clock ahead | do the retained snapshots cover what was pruned? |
| lost_receipt | nobody prunes, one fault, fair | is every captured checkpoint published? |

The smallest threshold and batch (1) make every checkpoint due and split every
deletion. Two devices with one change set each give all relations of two frontiers
(below, beside, above), snapshots of both, and a third snapshot that makes one of them
prunable; either clock was tried in **compaction** and the result is the same. With a
change set more for one device the state space is out of reach of a short run; the
theorems do not depend on it. Deadlock is not checked: a device with nothing to do, or
a blocked one, stops.

The action constraint `OwnStepsFirst` is a partial-order reduction. A step that
reads and writes only its own device's variables commutes with every step of the
others, and no property relates the local states of two devices, so it is enough to
look at the runs in which such a step is not overtaken. Steps that read the provider
(pull, upload, prune) are not among them, nor are interruptions. The fault budget is
shared, which disables steps but does not change what they do.

*Proved* (`CompactionProofs`), for any devices, pruners, clocks and bounds: `TypeOK`,
`ReplayComplete`, `OwnEditsKept`, `LanesStayAnchored`, `RemovedIsCovered` and
`BaseOnlyAdvances`. The inductive invariant `IInv` is

- `Typed`: `TypeOK`, finiteness of what is counted, and a pending checkpoint exists;
- `Lanes`: `LanesStayAnchored`, and `SealedFirst`: no object, lane or snapshot names
  history its writer has not sealed. Without it a fast-forward could move a device's
  own lane past its newest segment;
- `UploadsOwn`: a number in the published lane has its segment at the provider, and
  what a cycle is about to record was uploaded. Truncation trusts the lane, so
  `OwnEditsKept` rests on it;
- `Rows`: `ReplayComplete`, `OwnEditsKept`, and `DoomedCovered`: rows planned for
  deletion stay covered by the base and published, whatever happens between the
  batches. This is where the plan outlives the base it was made for, and why a base
  may only advance;
- `PlansKnowAll`: a prune plan accounts for every snapshot the device has seen, as
  kept, as dropped or as gone already. What the device has not seen the provider's
  guard on the basis cursor excludes; both halves give `RemovedIsCovered`.

`RemovedIsCovered` looks at one prune. That the retained snapshots cover everything
removed *before* does not hold: run **regress**. The assumptions are those of
`Compaction` (clocks apart, positive threshold and batch, `None` not a snapshot).

*Only checked*: `CapturedIsPublished` and `RetainedSnapshotsCover`, refuted. That
every segment is applied everywhere in the end, with devices that prune and no fault,
was checked once on this instance and holds; it takes too long for a regular run.

## Reducer

The module follows one element of a project: its name (a field register), its aliases
(a tagged set), its lifecycle and its prose. `CreateElement` to `PurgeElement` are the
operations of `useBookElement.ts`, each a whole authored transaction: the row it
writes, the change set it journals, the reduction of it and the refusal
(`LocalAccepted`) that rolls all of this back. `ApplyRemote` is
`applyVerifiedRemoteChangeSetInTransaction`: reduce, rebuild the row if the element is
dirty, apply the text, observe the clock, write the receipt. `Refresh` is the interface
loading the rows. A lane is applied in its own order (theorem `PrefixesApplied`); between
lanes any order is possible, since nothing waits for the causes of a change set.

*Abstractions.* A device is its writer, a number, because writers are ordered. A change
set is named by its stamp, a name by the change set that gave it, a text by the updates
it was made from; `seen` is what the author had applied. One change set changes the
element once, so the index of a mutation in it is not needed; a purge, which may also
remove aliases, is accepted only if it removes none. After a restart the last
projection is not in memory and the row is rebuilt whatever changed: `rebuilds` is
either. Two history variables mark what the code is known to do: `astray`, the row was
written from something out of date, and `ahead`, a change set was applied before its
causes. Left out: memberships, order positions, key-value entries, assets, the purge of
a generation, payload validation, rotation of writers, snapshots of the state; and the
hard delete of a live element, which no plan of the product uses now.

| Run | Instance | Question |
| --- | --- | --- |
| reducer | 3 devices, 2+1+1 change sets, one alias, one restore, device 2's clock ahead | convergence, causality, rows, aliases, prose |

Three writers are needed: with two, everything a change set depends on is in its own
lane or in the reader's. Four change sets give a create and three concurrent or
dependent successors from any of the devices, so that a rename, a trash and a restore
meet in every order. The purge of an element that only its row calls trashed needs a
fifth change set, a second one of the third device. With it, and without renames, alias
changes and prose edits, the instance was checked once: it reaches such a purge, refused
and accepted, and all properties hold. The theorems below cover any number. The clocks
stand still, which makes counters decide; one of them is ahead, which makes the wall
decide.

What the properties except, they except because the code does it. `RowsFollowState` and
`RowsFollowLifecycle` are not claimed while a row is `astray`: `updateElement` writes
every column from the interface store and journals only those that changed
(`useBookElement.ts:305`), so a name that arrived between the last refresh and the
transaction is overwritten in the row; a device that received a restore before the
trash it answers, and then trashes the element itself, shows a trashed row of an
element that its reduced state holds live; and a restore onto an incarnation that has a
name already shows the older one. A trashed row can be purged, and an element that is live
in the reduced state with it, unless it has aliases there: the transaction would remove
them, that removal does not materialize on a purged element, and so the purge is
refused (`sqlite-materializer.ts:634`). The next change set that touches the element, or a
restart, rebuilds the row. `AliasesFollowSet` ends at the first restore, because the kernel projects the aliases of every
incarnation (`materializeSet`), not of the live one. `ProseConvergesInOrder` assumes that
causes came first and that the element was never trashed, because a Yjs update is
applied only if its owner is live when it arrives (see below).

*Proved* (`ReducerProofs`), for any devices, clocks, quotas, aliases and incarnations:
all eight properties of the run. The argument has two halves.

- About the order: `ClockAhead` (the clock of a device is no earlier than any change
  set it has applied) and `LanesStamped` (a stamp names its writer and its place in the
  lane, so stamps are unique) are inductive with `CausalOrder`. A local write is later
  than the clock, hence than all its author had applied (`WrittenLast`).
- About the state: `Describes(r, H)` says what state a *set* of change sets amounts to:
  each register holds the last write of the set, each tagged set what is added and what
  is removed, a trash or a purge is there or not. One step of the reducer extends it
  (`ReduceDescribes`, which rests on the order being total and on stamps being unique),
  and it determines the state (`DescribesUnique`), so the order of arrival does not
  matter. `StateIsHistory` is this of each device and the change sets it has applied.

The rest follows from both. `NoNameComesBack` needs no further invariant.
`RowsFollowLifecycle`, `RowsFollowState` and `AliasesFollowSet` are inductive over each
row given `CausesKnown` (whoever writes to an element knew its create, whoever purges or
writes to a later incarnation knew a trash, which rests on `TrashesKnown`: a row is
trashed only after a trash was applied) and `GoneKnown` (a removed tag was added by
a change set that exists); the case of a row that is *not* rebuilt needs that equal
effects show the same row (`SameEffects`). `ProseConvergesInOrder` is strengthened to
`ProseIsHistory`: a device that took nothing before its causes holds the causes of all
it has applied, and the whole text of them while nothing was trashed. The assumptions
are those of `Reducer`: devices are positive numbers, clocks show natural numbers.

## Findings

Runs with `expect: violation` state what a document, a comment or a test says and
show what the code does; `PROJECT.json` has the quotations.

- **early_blob**: an image that arrives one cycle before the segment that declares
  it loses its inbox file, and the device later blocks as corrupt. An interruption
  between native installation and the commit of its receipt does the same.
- **sched_orphan**: a hold does not wait for a cycle of a replaced coordinator.
- **regress**: a checkpoint that was captured, cut off and resumed is published
  although other devices pruned meanwhile, and becomes a retained snapshot that does
  not cover what is gone. With three devices, two such snapshots are all that the next
  prune keeps. Pruning is switched off by default (`production-runtime.ts:98`).
- **lost_receipt**: after the upload of a snapshot part whose receipt is lost, every
  later pull of the device fails on its own object.

Behaviours the models have and no run singles out: a Yjs update that arrives before the
create of its element, or around a trash that it was concurrent with, is receipted
and never applied, so devices that have applied the same change sets can hold
different text (three devices are enough: one creates, one writes, the third receives
the writer's lane first); of an image that both devices add,
neither installs the source of the other's asset; an object lost between listing and
download fails every later cycle and never blocks the binding; a checkpoint whose
marker has its receipt but whose row was not yet updated (`provider-publisher.ts:422`)
may be superseded and pruned by another device, and is then resumed onto a pruned key,
which blocks the device, although a removed snapshot object "never blocks the binding"
(`src/docs/sync-engine/phase7-log-compaction.md:60`); the key of the last catch-up check counts listed markers rather than
readable ones, so after one download answered 404 the arrival of the missing snapshot
alone starts no new check; a download that is interrupted
and then made superfluous by the device's own upload of the same content leaves its
transfer open, so that the device never reports convergence again; releasing the
last hold resumes a scheduler that the operating system had suspended, and so does
mounting a coordinator meanwhile; commits less than two seconds apart put off
publication and the polls of their generation for as long as they last, which is
why `PollsGoOn` assumes that the author rests.

## Limits

Every safety property that a passing run checks, and both refinements, are theorems.
Only model-checked are the liveness properties, because TLAPS does not prove fairness or
ENABLED: `EveryChangeArrives`, `RequestsAreServed`, `PollsGoOn`, `HoldsAreGranted`. The
properties of the four runs that expect a violation are refuted, not proved. What a
recursive definition computes for every input cannot be proved with the installed
provers; no module here needs one. Bounds (`Quota`, `MaxSegment`,
`MaxInterrupts`, `MaxRemovals`, `MaxFaults`, `MaxReloads`, `MaxSeq`, `MaxIncarnation`) are constants of the
modules and the theorems hold for every value of them.

## Plan

Order is by what would hurt the author most.

1. `ConvergenceWait`: status store, pending counts and `waitForConvergence`
   over the coordinator, with disconnect as its caller.
2. `WriterLanes`: writer rotation over copied and restored databases; uniqueness
   of (writer, epoch, sequence), and what ingestion makes of a fork.
3. `ProviderCursor`: page tokens, repeated tokens, rejected cursors and resets.
4. `Reducer`: memberships, whose two ends have lifecycles of their own, and order
   positions with their rebalancing.
5. `Transitions`: authority, provisioning, disconnect and restore with crashes.
6. `AgentChat`: branches, export and reconciliation.
