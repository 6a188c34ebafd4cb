----------------------------- MODULE Compaction -----------------------------
(***************************************************************************)
(* Log compaction over a pruning provider (src/renderer/sync/compaction,   *)
(* checkpoint/provider-publisher.ts, the provider's prune operation).      *)
(* Devices publish checkpoints, prune what two of them cover, fast-forward *)
(* onto a checkpoint when history they miss is gone, and drop the journal  *)
(* rows their own base covers.                                             *)
(*                                                                         *)
(* Module SyncEngine takes the cycle apart up to the apply phase; here a   *)
(* pull is one action, so that a cycle is interrupted only where           *)
(* compaction cares.  A segment holds one change set, a lane is named by   *)
(* its device, and a frontier lane, which apply keeps contiguous, is a     *)
(* number.  Left out: image bytes, conflicts and quarantine, payload v1,   *)
(* change sets not sealed yet, the page and request size limits.           *)
(***************************************************************************)
EXTENDS Integers, FiniteSets

CONSTANTS
  Device,
  Pruner,           \* the devices whose pruning is enabled
  Ahead,            \* whose clock is ahead: it dates what is captured
  None,             \* no snapshot, no object, no check
  Quota,            \* bound: change sets each device authors
  Threshold,        \* change sets since the last checkpoint that make one due
  BatchSize,        \* change sets deleted per transaction
  Named,            \* rows the reducer may name after a base covers them
  MaxFaults         \* bound: late objects and interrupted cycles together

ASSUME PrunerAssumption == Pruner \subseteq Device
ASSUME AheadAssumption ==
  /\ Ahead \in [Device -> Int]
  /\ \A d, e \in Device : Ahead[d] = Ahead[e] => d = e
ASSUME QuotaAssumption == Quota \in [Device -> Nat]
ASSUME ThresholdAssumption == Threshold \in Nat \ {0}
ASSUME BatchAssumption == BatchSize \in Nat \ {0}
ASSUME NamedAssumption == Named \subseteq Device \X (Nat \ {0})
ASSUME FaultsAssumption == MaxFaults \in Nat

VARIABLES
  \* the provider: every object it took, the logical keys it pruned
  created, pruned,
  \* journal rows, applied lanes, own segments with a receipt
  journal, applied, published,
  bytes,            \* segments and snapshot parts held locally
  \* sync_remote_object rows, those with removed_at, what the cursor is past
  observed, removed, seen,
  \* the snapshot in sync_reducer_base, the latest sync_checkpoint row
  base, latest, checkpointDone,
  publishing,       \* own snapshot parts in local state 'publishing'
  blocked,          \* the binding is blocked-corrupt
  \* the running cycle
  phase,
  doomed,           \* candidate rows of later deletion transactions
  prunePlan,
  todo, item,       \* objects to publish, the one whose receipt is missing
  settled,          \* settledCatchUpKey: what the last fruitless check saw
  faults

providerVars == <<created, pruned>>
journalVars  == <<journal, applied, published>>
remoteVars   == <<observed, removed, seen>>
ckptVars     == <<latest, checkpointDone, publishing>>
cycleVars    == <<phase, doomed, prunePlan, todo, item>>

vars == <<providerVars, journalVars, bytes, remoteVars, base, ckptVars, blocked,
          cycleVars, settled, faults>>

-----------------------------------------------------------------------------
(* Frontiers and snapshots *)

LaneFrontier == [Device -> Nat]

Dominates(upper, lower) == \A w \in Device : upper[w] >= lower[w]

\* How many change sets it counts.
TotalApplied(f) == Cardinality(UNION { {w} \X (1 .. f[w]) : w \in Device })

\* One device captures one frontier once, so the two identify a snapshot.
Snapshot == [by : Device, cover : LaneFrontier]

ASSUME NoneAssumption == None \notin Snapshot

\* Dominance first; the commit time only breaks ties.
Newer(s, t) ==
  \/ TotalApplied(s.cover) > TotalApplied(t.cover)
  \/ /\ TotalApplied(s.cover) = TotalApplied(t.cover)
     /\ Ahead[s.by] > Ahead[t.by]

\* The newest snapshot of a set, if there is one.
NewestOf(S) == { s \in S : \A t \in S : ~Newer(t, s) }

RETAINED_SNAPSHOTS == 2

\* The newest snapshots of a set.
Retained(S) ==
  { s \in S : Cardinality({ t \in S : Newer(t, s) }) < RETAINED_SNAPSHOTS }

(* Objects of the provider *)

NumberedFromZero(w, n) == [kind |-> "segment", by |-> w, seq |-> n - 1]
SegmentOf(w, n) == [kind |-> "segment", by |-> w, seq |-> n]

Package(s) == [kind |-> "checkpoint", of |-> s]
Marker(s) == [kind |-> "snapshot-commit", of |-> s]

Segment == [kind : {"segment"}, by : Device, seq : Nat \ {0}]
SnapshotObject == [kind : {"checkpoint", "snapshot-commit"}, of : Snapshot]
Object == Segment \cup SnapshotObject

Segments(S) == { o \in S : o.kind = "segment" }
Markers(S) == { o \in S : o.kind = "snapshot-commit" }
SnapshotParts(S) == { o \in S : o.kind # "segment" }

Stored == created \ pruned

\* The snapshots whose marker and package are both among the objects.
Committed(S) == { s \in { m.of : m \in Markers(S) } : Package(s) \in S }

Covers(s, o) == o.seq <= s.cover[o.by]

(* What a device knows *)

Listed(d) == observed[d] \ removed[d]

Readable(d) == Listed(d) \cap bytes[d]

\* The remote snapshot catalog, and whether it shows every committed marker.
Catalog(d) == Committed(Readable(d))

CatalogComplete(d) ==
  \A m \in Markers(Listed(d)) : {m, Package(m.of)} \subseteq Readable(d)

NoCover == [w \in Device |-> 0]

BaseCover(d) == IF base[d] = None THEN NoCover ELSE base[d].cover

\* A hole in the received or the published lane of some writer.
HasGap(d) ==
  \/ \E o \in Segments(bytes[d]) : o.seq > applied[d][o.by]
  \/ \E n \in published[d] : \E m \in 1 .. n : m \notin published[d]

\* Local segments take the lane to n.
Reaches(d, w, n) ==
  \A k \in applied[d][w] + 1 .. n : SegmentOf(w, k) \in bytes[d]

CatchUpCheckKey(d) ==
  <<Markers(Listed(d)), applied[d], Cardinality(Segments(bytes[d]))>>

\* What may be late: a download answered 404, a segment whose images are not
\* at the provider yet.
Late(S) == { late \in SUBSET S : faults + Cardinality(late) <= MaxFaults }

EndCycle(d) ==
  /\ phase' = [phase EXCEPT ![d] = "idle"]
  /\ doomed' = [doomed EXCEPT ![d] = {}]
  /\ prunePlan' = [prunePlan EXCEPT ![d] = None]
  /\ todo' = [todo EXCEPT ![d] = {}]
  /\ item' = [item EXCEPT ![d] = None]

GoTo(d, p) ==
  /\ phase' = [phase EXCEPT ![d] = p]
  /\ UNCHANGED <<doomed, prunePlan, todo, item>>

-----------------------------------------------------------------------------
Init ==
  /\ created = {} /\ pruned = {}
  /\ journal = [d \in Device |-> {}]
  /\ applied = [d \in Device |-> NoCover]
  /\ published = [d \in Device |-> {}]
  /\ bytes = [d \in Device |-> {}]
  /\ observed = [d \in Device |-> {}]
  /\ removed = [d \in Device |-> {}]
  /\ seen = [d \in Device |-> {}]
  /\ base = [d \in Device |-> None]
  /\ latest = [d \in Device |-> None]
  /\ checkpointDone = [d \in Device |-> TRUE]
  /\ publishing = [d \in Device |-> {}]
  /\ blocked = [d \in Device |-> FALSE]
  /\ phase = [d \in Device |-> "idle"]
  /\ doomed = [d \in Device |-> {}]
  /\ prunePlan = [d \in Device |-> None]
  /\ todo = [d \in Device |-> {}]
  /\ item = [d \in Device |-> None]
  /\ settled = [d \in Device |-> None]
  /\ faults = 0

-----------------------------------------------------------------------------
(* Prepare and pull *)

NewestSealed(d, last) ==
  /\ \A o \in Segments(bytes[d]) : o.by = d => o.seq <= last
  /\ last = 0 \/ SegmentOf(d, last) \in bytes[d]

\* The author commits a change set and a cycle seals it behind the newest
\* segment of its own lane that the device still has.
SealSegment(d) == \E last \in 0 .. Quota[d] - 1 :
  /\ phase[d] = "idle"
  /\ ~blocked[d]
  /\ NewestSealed(d, last)
  /\ journal' = [journal EXCEPT ![d] = @ \cup {<<d, last + 1>>}]
  /\ applied' = [applied EXCEPT ![d][d] = last + 1]
  /\ bytes' = [bytes EXCEPT ![d] = @ \cup {SegmentOf(d, last + 1)}]
  /\ UNCHANGED <<providerVars, published, remoteVars, base, ckptVars, blocked,
                 cycleVars, settled, faults>>

\* Own snapshot parts whose download is attempted: a part in state 'publishing'
\* is not recognised as local, and its row cannot be inserted a second time.
Clashing(d) ==
  publishing[d] \cap ((created \ seen[d]) \cup (Listed(d) \ pruned))

\* Every change since the cursor is recorded and staged and the backlog retried.
\* A download answered 404 leaves an observed object without bytes.
Pull(d) ==
  /\ phase[d] = "idle"
  /\ ~blocked[d]
  /\ Clashing(d) = {}
  /\ \E missed \in Late(Stored \ bytes[d]) :
       /\ faults' = faults + Cardinality(missed)
       /\ bytes' = [bytes EXCEPT ![d] = @ \cup (Stored \ missed)]
  /\ observed' = [observed EXCEPT ![d] = @ \cup created]
  /\ removed' = [removed EXCEPT ![d] = pruned]
  /\ seen' = [seen EXCEPT ![d] = created]
  /\ GoTo(d, "catch-up")
  /\ UNCHANGED <<providerVars, journalVars, base, ckptVars, blocked, settled>>

-----------------------------------------------------------------------------
(* Catch-up *)

\* The newest snapshot, when it covers a lane further than local segments reach.
Needed(d) ==
  { s \in NewestOf(Catalog(d)) : \E w \in Device : ~Reaches(d, w, s.cover[w]) }

InstallsBelowBase(d) == { s \in Needed(d) : settled[d] # CatchUpCheckKey(d) }

\* What a check may install: nothing when the last fruitless check saw the same,
\* and nothing below the own base.
Installable(d) ==
  { s \in Needed(d) :
      settled[d] # CatchUpCheckKey(d) /\ Dominates(s.cover, BaseCover(d)) }

\* A check that is skipped keeps the key.  One that ran sets it, unless it saw
\* every snapshot: it would only repeat itself, and its key is left out.
NoCatchUp(d) ==
  /\ phase[d] = "catch-up"
  /\ Installable(d) = {}
  /\ settled' = [settled EXCEPT ![d] =
                   IF @ # CatchUpCheckKey(d) /\ CatalogComplete(d)
                   THEN None ELSE CatchUpCheckKey(d)]
  /\ GoTo(d, "apply")
  /\ UNCHANGED <<providerVars, journalVars, bytes, remoteVars, base, ckptVars,
                 blocked, faults>>

\* The snapshot becomes the reducer base, and every lane joins its frontier.
FastForward(d, s) ==
  /\ s \in Installable(d)
  /\ base' = [base EXCEPT ![d] = s]
  /\ applied' = [applied EXCEPT ![d] = [w \in Device |->
                   IF s.cover[w] > @[w] THEN s.cover[w] ELSE @[w]]]
  /\ settled' = [settled EXCEPT ![d] = None]
  /\ GoTo(d, "apply")
  /\ UNCHANGED <<providerVars, journal, published, bytes, remoteVars, ckptVars,
                 blocked, faults>>

-----------------------------------------------------------------------------
(* Apply and local truncation *)

NextToApply(d, w) == SegmentOf(w, applied[d][w] + 1)

ApplySegment(d, w) ==
  /\ phase[d] = "apply"
  /\ NextToApply(d, w) \in bytes[d]
  /\ applied' = [applied EXCEPT ![d][w] = @ + 1]
  /\ journal' = [journal EXCEPT ![d] = @ \cup {<<w, applied[d][w] + 1>>}]
  /\ UNCHANGED <<providerVars, published, bytes, remoteVars, base, ckptVars, blocked,
                 cycleVars, settled, faults>>

DropsTheNewest(d) ==
  { o \in Segments(bytes[d] \cap removed[d]) : o.seq <= applied[d][o.by] }

\* Applied segments the provider pruned, but never the newest of their lane.
Truncatable(d) ==
  { o \in Segments(bytes[d] \cap removed[d]) :
      /\ o.seq <= applied[d][o.by]
      /\ \E n \in Segments(bytes[d]) : n.by = o.by /\ n.seq > o.seq }

\* When nothing is left to apply, the local copies go.
TruncatePrunedLocalSegments(d) ==
  /\ phase[d] = "apply"
  /\ \A w \in Device : NextToApply(d, w) \notin bytes[d]
  /\ bytes' = [bytes EXCEPT ![d] = @ \ Truncatable(d)]
  /\ GoTo(d, "truncate")
  /\ UNCHANGED <<providerVars, journalVars, remoteVars, base, ckptVars, blocked,
                 settled, faults>>

\* Candidates for the base: newer than the current base, applied here in full,
\* covering more than the base, and covered by the newest snapshot.
BaseCandidates(d) ==
  LET catalog == Catalog(d)
      newest == NewestOf(catalog)
  IN  { s \in catalog :
          /\ base[d] \in catalog => Newer(s, base[d])
          /\ \A n \in newest : Dominates(n.cover, s.cover)
          /\ Dominates(applied[d], s.cover)
          /\ Dominates(s.cover, BaseCover(d))
          /\ ~Dominates(BaseCover(d), s.cover) }

\* The newest candidate, else the base there is.
PlannedBase(d) ==
  IF BaseCandidates(d) = {} THEN {base[d]} \ {None} ELSE NewestOf(BaseCandidates(d))

CoversOneMore(d, cover) ==
  { r \in journal[d] :
      r[2] <= cover[r[1]] + 1 /\ (r[1] = d => r[2] \in published[d]) }

CoversUnpublished(d, cover) == { r \in journal[d] : r[2] <= cover[r[1]] }

\* Applied rows that a base covers: a row of this device only once its own
\* segment is published.
CoveredRows(d, cover) ==
  { r \in journal[d] :
      r[2] <= cover[r[1]] /\ (r[1] = d => r[2] \in published[d]) }

Batch(rows) == { batch \in SUBSET rows :
  Cardinality(batch) = IF Cardinality(rows) < BatchSize THEN Cardinality(rows) ELSE BatchSize }

\* The first transaction installs the base and deletes the first batch of the
\* rows that the reducer does not name.
Rebase(d, s, kept) ==
  LET candidates == CoveredRows(d, s.cover) \ kept
  IN  /\ phase[d] = "truncate"
      /\ doomed[d] = {}
      /\ ~HasGap(d)
      /\ s \in PlannedBase(d)
      /\ base' = [base EXCEPT ![d] = s]
      /\ \E batch \in Batch(candidates) :
           /\ journal' = [journal EXCEPT ![d] = @ \ batch]
           /\ doomed' = [doomed EXCEPT ![d] = candidates \ batch]
           /\ phase' = [phase EXCEPT ![d] =
                          IF batch = candidates THEN "publish-blobs" ELSE @]
      /\ UNCHANGED <<providerVars, applied, published, bytes, remoteVars, ckptVars,
                     blocked, prunePlan, todo, item, settled, faults>>

DeleteBatch(d) ==
  /\ phase[d] = "truncate"
  /\ doomed[d] # {}
  /\ \E batch \in Batch(doomed[d]) :
       /\ journal' = [journal EXCEPT ![d] = @ \ batch]
       /\ doomed' = [doomed EXCEPT ![d] = @ \ batch]
       /\ phase' = [phase EXCEPT ![d] = IF batch = doomed[d] THEN "publish-blobs" ELSE @]
  /\ UNCHANGED <<providerVars, applied, published, bytes, remoteVars, base, ckptVars,
                 blocked, prunePlan, todo, item, settled, faults>>

\* Blocked, settled, nothing covered, or a base that did not reproduce the state.
NoTruncation(d) ==
  /\ phase[d] = "truncate"
  /\ doomed[d] = {}
  /\ GoTo(d, "publish-blobs")
  /\ UNCHANGED <<providerVars, journalVars, bytes, remoteVars, base, ckptVars, blocked,
                 settled, faults>>

-----------------------------------------------------------------------------
(* Publish *)

Unpublished(d) ==
  { o \in Segments(bytes[d]) : o.by = d /\ o.seq \notin published[d] }

\* A segment whose images are not at the provider yet waits.
PublishBlobs(d) ==
  /\ phase[d] = "publish-blobs"
  /\ \E late \in Late(Unpublished(d)) :
       /\ faults' = faults + Cardinality(late)
       /\ todo' = [todo EXCEPT ![d] = Unpublished(d) \ late]
  /\ phase' = [phase EXCEPT ![d] = "publish-segments"]
  /\ UNCHANGED <<providerVars, journalVars, bytes, remoteVars, base, ckptVars, blocked,
                 doomed, prunePlan, item, settled>>

\* Segments go in order, and a marker after its package.
NextToPublish(d, o) ==
  /\ o \in todo[d]
  /\ \A p \in todo[d] \ {o} :
       IF o.kind = "segment" THEN o.seq < p.seq ELSE p.kind = "snapshot-commit"

\* stat, then upload: an object that is there is left alone.  A snapshot part is
\* first marked 'publishing'.
Upload(d, o) ==
  /\ item[d] = None
  /\ NextToPublish(d, o)
  /\ o \notin pruned
  /\ created' = created \cup {o}
  /\ publishing' = [publishing EXCEPT ![d] = @ \cup SnapshotParts({o})]
  /\ item' = [item EXCEPT ![d] = o]
  /\ UNCHANGED <<pruned, journalVars, bytes, remoteVars, base, latest, checkpointDone,
                 blocked, phase, doomed, prunePlan, todo, settled, faults>>

\* A pruned key cannot be created again: IMMUTABLE_OBJECT_CONFLICT blocks.
UploadPruned(d, o) ==
  /\ item[d] = None
  /\ NextToPublish(d, o)
  /\ o \in pruned
  /\ publishing' = [publishing EXCEPT ![d] = @ \cup SnapshotParts({o})]
  /\ blocked' = [blocked EXCEPT ![d] = TRUE]
  /\ EndCycle(d)
  /\ UNCHANGED <<providerVars, journalVars, bytes, remoteVars, base, latest,
                 checkpointDone, settled, faults>>

RecordReceipt(d) ==
  LET o == item[d]
  IN  /\ o # None
      /\ observed' = [observed EXCEPT ![d] = @ \cup {o}]
      /\ removed' = [removed EXCEPT ![d] = @ \ {o}]
      /\ published' = [published EXCEPT ![d] = @ \cup { s.seq : s \in Segments({o}) }]
      /\ publishing' = [publishing EXCEPT ![d] = @ \ {o}]
      /\ todo' = [todo EXCEPT ![d] = @ \ {o}]
      /\ item' = [item EXCEPT ![d] = None]
      /\ UNCHANGED <<providerVars, journal, applied, bytes, seen, base, latest,
                     checkpointDone, blocked, phase, doomed, prunePlan, settled,
                     faults>>

FinishSegments(d) ==
  /\ phase[d] = "publish-segments"
  /\ todo[d] = {}
  /\ GoTo(d, "checkpoint")
  /\ UNCHANGED <<providerVars, journalVars, bytes, remoteVars, base, ckptVars, blocked,
                 settled, faults>>

-----------------------------------------------------------------------------
(* Checkpoint *)

\* A checkpoint captured and not published goes first, whatever came since.
ResumeCheckpoint(d) ==
  /\ phase[d] = "checkpoint"
  /\ ~HasGap(d)
  /\ ~checkpointDone[d]
  /\ todo' = [todo EXCEPT ![d] = {Package(latest[d]), Marker(latest[d])}]
  /\ phase' = [phase EXCEPT ![d] = "publish-snapshot"]
  /\ UNCHANGED <<providerVars, journalVars, bytes, remoteVars, base, ckptVars, blocked,
                 doomed, prunePlan, item, settled, faults>>

Position(s) == IF s = None THEN 0 ELSE TotalApplied(s.cover)

NewChanges(d) ==
  LET p == Position(latest[d])
      q == Position(base[d])
  IN  TotalApplied(applied[d]) - (IF p > q THEN p ELSE q)

\* The first checkpoint is always due, later ones by count; by size or by age,
\* which are left open, one change is enough.
Due(d) == NewChanges(d) > 0 /\ (latest[d] = None \/ NewChanges(d) >= Threshold)

AllowsCheckpoint(d) ==
  \A s \in NewestOf(Catalog(d)) : Dominates(applied[d], s.cover)

CaptureCheckpoint(d) ==
  LET s == [by |-> d, cover |-> applied[d]]
  IN  /\ phase[d] = "checkpoint"
      /\ ~HasGap(d)
      /\ checkpointDone[d]
      /\ NewChanges(d) > 0
      /\ AllowsCheckpoint(d)
      /\ latest' = [latest EXCEPT ![d] = s]
      /\ checkpointDone' = [checkpointDone EXCEPT ![d] = FALSE]
      /\ bytes' = [bytes EXCEPT ![d] = @ \cup {Package(s), Marker(s)}]
      /\ todo' = [todo EXCEPT ![d] = {Package(s), Marker(s)}]
      /\ phase' = [phase EXCEPT ![d] = "publish-snapshot"]
      /\ UNCHANGED <<providerVars, journalVars, remoteVars, base, publishing, blocked,
                     doomed, prunePlan, item, settled, faults>>

FinishCheckpoint(d) ==
  /\ phase[d] = "publish-snapshot"
  /\ todo[d] = {}
  /\ checkpointDone' = [checkpointDone EXCEPT ![d] = TRUE]
  /\ EndCycle(d)
  /\ UNCHANGED <<providerVars, journalVars, bytes, remoteVars, base, latest, publishing,
                 blocked, settled, faults>>

\* Neither captured nor pruned: a gap, not due, not allowed, pruned recently.
SkipCheckpoint(d) ==
  /\ phase[d] = "checkpoint"
  /\ ~HasGap(d) => checkpointDone[d] /\ ~(Due(d) /\ AllowsCheckpoint(d))
  /\ EndCycle(d)
  /\ UNCHANGED <<providerVars, journalVars, bytes, remoteVars, base, ckptVars, blocked,
                 settled, faults>>

-----------------------------------------------------------------------------
(* Pruning *)

CoveredRemoteSegments(d, S) ==
  { o \in Segments(Readable(d)) : \A s \in S : Covers(s, o) }

\* The two newest snapshots stay; older ones and what both cover may go.
PlanPrune(d) ==
  LET keep == Retained(Catalog(d))
      drop == CoveredRemoteSegments(d, keep)
              \cup UNION { {Package(s), Marker(s)} : s \in Catalog(d) \ keep }
  IN  /\ phase[d] = "checkpoint"
      /\ d \in Pruner
      /\ ~HasGap(d)
      /\ checkpointDone[d]
      /\ ~Due(d)
      /\ CatalogComplete(d)
      /\ AllowsCheckpoint(d)
      /\ Cardinality(Catalog(d)) >= RETAINED_SNAPSHOTS
      /\ drop # {}
      /\ prunePlan' = [prunePlan EXCEPT ![d] = [keep |-> keep, drop |-> drop]]
      /\ phase' = [phase EXCEPT ![d] = "prune"]
      /\ UNCHANGED <<providerVars, journalVars, bytes, remoteVars, base, ckptVars,
                     blocked, doomed, todo, item, settled, faults>>

BasisUnchecked(d) ==
  \E s \in prunePlan[d].keep : {Package(s), Marker(s)} \cap pruned # {}

\* The provider refuses when a retained object is gone or a snapshot object is
\* newer than the basis cursor.
PruneRejected(d) ==
  \/ \E s \in prunePlan[d].keep : {Package(s), Marker(s)} \cap pruned # {}
  \/ SnapshotParts(created) \ seen[d] # {}

\* It defers what is newer than the basis and segments within their grace time.
Prune(d) ==
  /\ phase[d] = "prune"
  /\ ~PruneRejected(d)
  /\ \E young \in SUBSET Segments(prunePlan[d].drop) :
       pruned' = pruned \cup ((prunePlan[d].drop \cap seen[d]) \ young)
  /\ EndCycle(d)
  /\ UNCHANGED <<created, journalVars, bytes, remoteVars, base, ckptVars, blocked,
                 settled, faults>>

RejectPrune(d) ==
  /\ phase[d] = "prune"
  /\ PruneRejected(d)
  /\ EndCycle(d)
  /\ UNCHANGED <<providerVars, journalVars, bytes, remoteVars, base, ckptVars, blocked,
                 settled, faults>>

-----------------------------------------------------------------------------
(* An abort or an error ends a cycle anywhere; the end of the process also *)
(* forgets what the last check saw.                                        *)

Interrupt(d) ==
  /\ phase[d] # "idle"
  /\ faults < MaxFaults
  /\ faults' = faults + 1
  /\ EndCycle(d)
  /\ \/ UNCHANGED settled
     \/ settled' = [settled EXCEPT ![d] = None]
  /\ UNCHANGED <<providerVars, journalVars, bytes, remoteVars, base, ckptVars, blocked>>

Publish(d) ==
  \/ PublishBlobs(d)
  \/ \E o \in todo[d] : Upload(d, o) \/ UploadPruned(d, o)
  \/ RecordReceipt(d)
  \/ FinishSegments(d)

Truncate(d) ==
  \/ TruncatePrunedLocalSegments(d)
  \/ /\ phase[d] = "truncate"
     /\ \E s \in PlannedBase(d), kept \in SUBSET Named : Rebase(d, s, kept)
  \/ DeleteBatch(d)
  \/ NoTruncation(d)

Checkpoint(d) ==
  \/ ResumeCheckpoint(d) \/ CaptureCheckpoint(d)
  \/ FinishCheckpoint(d) \/ SkipCheckpoint(d)
  \/ PlanPrune(d) \/ Prune(d) \/ RejectPrune(d)

Cycle(d) ==
  \/ SealSegment(d)
  \/ Pull(d)
  \/ NoCatchUp(d)
  \/ phase[d] = "catch-up" /\ \E s \in Installable(d) : FastForward(d, s)
  \/ \E w \in Device : ApplySegment(d, w)
  \/ Truncate(d)
  \/ Publish(d)
  \/ Checkpoint(d)

Next == \E d \in Device : Cycle(d) \/ Interrupt(d)

Spec == Init /\ [][Next]_vars

\* Cycles go on: the scheduler starts another one and lets each end.
LiveSpec == Spec /\ \A d \in Device : WF_vars(Cycle(d))
-----------------------------------------------------------------------------
(* Properties *)

Row == Device \X (Nat \ {0})
PrunePlan == [keep : SUBSET Snapshot, drop : SUBSET Object]
Phase == { "idle", "catch-up", "apply", "truncate", "publish-blobs",
           "publish-segments", "checkpoint", "publish-snapshot", "prune" }
CheckKey == (SUBSET Object) \X LaneFrontier \X Nat

ProviderOK == created \subseteq Object /\ pruned \subseteq Object

JournalOK ==
  /\ journal \in [Device -> SUBSET Row]
  /\ applied \in [Device -> LaneFrontier]
  /\ published \in [Device -> SUBSET (Nat \ {0})]

RemoteOK ==
  /\ bytes \in [Device -> SUBSET Object]
  /\ observed \in [Device -> SUBSET Object]
  /\ removed \in [Device -> SUBSET Object]
  /\ seen \in [Device -> SUBSET Object]

CheckpointOK ==
  /\ base \in [Device -> Snapshot \cup {None}]
  /\ latest \in [Device -> Snapshot \cup {None}]
  /\ checkpointDone \in [Device -> BOOLEAN]
  /\ publishing \in [Device -> SUBSET Object]

CycleOK ==
  /\ blocked \in [Device -> BOOLEAN]
  /\ phase \in [Device -> Phase]
  /\ doomed \in [Device -> SUBSET Row]
  /\ prunePlan \in [Device -> PrunePlan \cup {None}]
  /\ todo \in [Device -> SUBSET Object]
  /\ item \in [Device -> Object \cup {None}]

SettledOK ==
  /\ settled \in [Device -> CheckKey \cup {None}]
  /\ faults \in 0 .. MaxFaults

\* Types of the tables (schema/drizzle.ts) and of what a cycle has in memory.
TypeOK ==
  ProviderOK /\ JournalOK /\ RemoteOK /\ CheckpointOK /\ CycleOK /\ SettledOK

\* What a device applied can be replayed after a restart: each change set is
\* covered by the reducer base or has its journal row ("a reducer rebuild starts
\* from the base and replays only rows above the floor", phase7-log-compaction.md).
\* At risk: rows deleted in a later transaction than the base they were planned
\* for, a fast-forward in between, a cycle cut off between the batches.
ReplayComplete ==
  \A d, w \in Device : \A n \in 1 .. applied[d][w] :
    n <= BaseCover(d)[w] \/ <<w, n>> \in journal[d]

\* A device's own change set stays in its journal until its segment is at the
\* provider (coveredChangeSetIds, journal-truncation.ts): a snapshot may cover a
\* change set whose segment still waits for its images.
OwnEditsKept ==
  \A d \in Device : \A n \in 1 .. applied[d][d] :
    <<d, n>> \in journal[d] \/ SegmentOf(d, n) \in created

\* Whatever the provider pruned, a device keeps the newest segment of its own
\* lane: sealing chains the next one to it (local-truncation.ts).
LanesStayAnchored ==
  \A d \in Device :
    applied[d][d] > 0 => SegmentOf(d, applied[d][d]) \in bytes[d]

\* A segment that a prune removes is covered by every committed snapshot that is
\* left, although the plan was made from what the device saw a pull ago and other
\* devices publish and prune meanwhile (planPrune, the provider's prune guards).
RemovedIsCovered ==
  [][ \A o \in Segments(pruned' \ pruned) :
        \A s \in Committed(created' \ pruned') : Covers(s, o) ]_vars

\* The reducer base only advances, by truncation as by catch-up: "Catch-up refuses
\* a snapshot below the base" (journal-truncation.ts).
BaseOnlyAdvances ==
  [][ \A d \in Device : base[d] # None =>
        base'[d] # None /\ Dominates(base'[d].cover, base[d].cover) ]_vars

\* "Each retained snapshot covers everything removed, so either one plus the
\* remaining segments reconstructs the full history" (phase7-log-compaction.md).
RetainedSnapshotsCover ==
  \A s \in Retained(Committed(Stored)), o \in Segments(pruned) : Covers(s, o)

\* "A checkpoint captured but not published (its upload failed or was cut off)
\* resumes before anything newer is taken" (provider-publisher.ts).
CapturedIsPublished ==
  \A d \in Device : ~checkpointDone[d] ~> checkpointDone[d]
=============================================================================
