----------------------------- MODULE SyncEngine -----------------------------
(***************************************************************************)
(* The sync cycle of every device of one project, over one object provider *)
(* (src/renderer/sync/engine/{cycle,durable-runtime}.ts).  A device        *)
(* authors change sets at any time; its cycle seals them into segments,    *)
(* pulls, ingests, applies and publishes.  Every action is one SQLite      *)
(* transaction, one native file operation or one provider call, so a cycle *)
(* may be interrupted between any two of them; `phase', `page', `todo',    *)
(* `upTo' and `item' are what an interruption forgets.                     *)
(*                                                                         *)
(* Each device owns one writer lane, so a writer is named by its device.   *)
(* Frontier lanes are sets of sequence numbers, which module Frontier      *)
(* shows they implement.  A content hash is the identity of what it        *)
(* hashes, and an object that of its logical key.  Left out: snapshots and *)
(* pruning providers, cursors the provider rejects, malformed bytes.       *)
(***************************************************************************)
EXTENDS Integers, Sequences, FiniteSets

CONSTANTS
  Device,
  Blob,             \* images and PDFs, named by their content
  Binds(_, _),      \* the blobs change set <<device, seq>> binds to assets
  None,             \* no hash, no object
  Quota,            \* bound: change sets each device authors
  MaxSegment,       \* the most change sets of one segment
  MaxInterrupts,    \* bound: interrupted cycles
  MaxRemovals       \* bound: objects the provider loses

ASSUME QuotaAssumption == Quota \in [Device -> Nat]
ASSUME MaxSegmentAssumption == MaxSegment \in Nat \ {0}
ASSUME BoundsAssumption == MaxInterrupts \in Nat /\ MaxRemovals \in Nat
ASSUME BindsAssumption ==
  \A d \in Device : \A n \in 1 .. Quota[d] : Binds(d, n) \subseteq Blob

VARIABLES
  \* the provider
  log,              \* every change it ever announced, in order
  inflight,         \* uploads whose sender gave up but that may still arrive
  removals,
  \* sync_change_set (origin local), sync_segment, sync_frontier
  authored, rows, unpublished, applied, head,
  \* sync_local_object by state, sync_transfer by state, sync_remote_object
  staged, verified, quarantined, downloading, downloaded, uploading,
  observed, removed,
  \* sync_cursor
  inventory, cursor,
  \* sync_blob_state, the inbox files of blobs, the installed asset sources
  blobLocal, blobRemote, file, source,
  \* sync_provider_binding: blocked-corrupt, and the last cycle's verdict
  blocked, converged,
  \* volatile
  phase,            \* what the cycle does next
  page,             \* the listed changes still to stage
  todo,             \* the blobs still to install, or the objects still to upload
  upTo,             \* where the unsealed journal, or the listed log, ended
  item,             \* the object being transferred or installed
  interrupts

providerVars == <<log, inflight, removals>>
journalVars  == <<authored, rows, unpublished, applied, head>>
inboxVars    == <<staged, verified, quarantined>>
transferVars == <<downloading, downloaded, uploading>>
remoteVars   == <<observed, removed>>
cursorVars   == <<inventory, cursor>>
assetVars    == <<blobLocal, blobRemote, file, source>>
bindingVars  == <<blocked, converged>>
workVars     == <<page, todo>>
cycleVars    == <<phase, workVars, upTo, item, interrupts>>

vars == <<providerVars, journalVars, inboxVars, transferVars, remoteVars,
          cursorVars, assetVars, bindingVars, cycleVars>>

-----------------------------------------------------------------------------
(* Data *)

ChangeSet == [by : Device, seq : Nat \ {0}]

\* A writer never seals one range twice, so its ranges name its segments.
Hash(s) == [by |-> s.by, first |-> s.first, last |-> s.last]

Hashes == {None} \cup [by : Device, first : Nat \ {0}, last : Nat \ {0}]

Segment == [by : Device, first : Nat \ {0}, last : Nat \ {0}, prev : Hashes]

ASSUME BlobAssumption == \A b \in Blob : b \notin Segment

Object == Blob \cup Segment

\* What the provider lists of one change.
Entry == [obj : Object, present : BOOLEAN]

Seqs(s) == s.first .. s.last

ChangeSets(s) == { [by |-> s.by, seq |-> n] : n \in Seqs(s) }

RequiredBlobs(s) == UNION { Binds(s.by, n) : n \in Seqs(s) }

\* The highest n such that 1 .. n were all observed.
Contiguous(S) ==
  CHOOSE n \in S \cup {0} : 1 .. n \subseteq S /\ n + 1 \notin S

(* The provider *)

\* An announced change is current unless a later one is about the same object.
Current(i) ==
  /\ log[i].present
  /\ \A j \in i + 1 .. Len(log) : log[j].obj # log[i].obj

Stored == { log[i].obj : i \in { j \in 1 .. Len(log) : Current(j) } }

Announce(o, isPresent) == log' = Append(log, [obj |-> o, present |-> isPresent])

\* Immutable upload by logical key: an object already there is left alone.
Store(o) == IF o \in Stored THEN UNCHANGED log ELSE Announce(o, TRUE)

(* A device's tables *)

Rows(d, w) == { s \in rows[d] : s.by = w }

Received(d, w) == UNION { Seqs(s) : s \in Rows(d, w) }

\* The newest segment of the device's own lane.
LastSealed(d) == CHOOSE s \in Rows(d, d) : \A t \in Rows(d, d) : t.last <= s.last

SealedTo(d) == IF Rows(d, d) = {} THEN 0 ELSE LastSealed(d).last

\* Mutant: a segment names its predecessor's change sets, not its hash.
NamesPredecessor(d) == IF Rows(d, d) = {} THEN None ELSE LastSealed(d)

SealedHash(d) == IF Rows(d, d) = {} THEN None ELSE Hash(LastSealed(d))

\* The asset declarations of the segments this device has downloaded.
Declared(d) ==
  UNION { { c \in ChangeSets(s) : Binds(c.by, c.seq) # {} } :
          s \in downloaded[d] \cap Segment }

Matching(d, b) == { c \in Declared(d) : b \in Binds(c.by, c.seq) }

InboxBlobs(d) ==
  { b \in downloaded[d] \cap Blob \cap (staged[d] \cup verified[d]) :
      b \notin blobLocal[d] /\ b \notin removed[d] }

\* Mutant: the verdict of an earlier cycle outlives a later one that failed.
KeepsVerdict(d) ==
  /\ phase' = [phase EXCEPT ![d] = "idle"]
  /\ page' = [page EXCEPT ![d] = {}]
  /\ todo' = [todo EXCEPT ![d] = {}]
  /\ upTo' = [upTo EXCEPT ![d] = 0]
  /\ item' = [item EXCEPT ![d] = None]
  /\ UNCHANGED converged

\* A cycle that fails or dies reports nothing and keeps nothing in memory.
AbandonCycle(d) ==
  /\ phase' = [phase EXCEPT ![d] = "idle"]
  /\ page' = [page EXCEPT ![d] = {}]
  /\ todo' = [todo EXCEPT ![d] = {}]
  /\ upTo' = [upTo EXCEPT ![d] = 0]
  /\ item' = [item EXCEPT ![d] = None]
  /\ converged' = [converged EXCEPT ![d] = FALSE]

-----------------------------------------------------------------------------
Init ==
  /\ log = <<>> /\ inflight = {} /\ removals = 0
  /\ authored = [d \in Device |-> 0]
  /\ rows = [d \in Device |-> {}] /\ unpublished = [d \in Device |-> {}]
  /\ applied = [d \in Device |-> [w \in Device |-> {}]]
  /\ head = [d \in Device |-> [w \in Device |-> None]]
  /\ staged = [d \in Device |-> {}] /\ verified = [d \in Device |-> {}]
  /\ quarantined = [d \in Device |-> {}]
  /\ downloading = [d \in Device |-> {}] /\ downloaded = [d \in Device |-> {}]
  /\ uploading = [d \in Device |-> {}]
  /\ observed = [d \in Device |-> {}] /\ removed = [d \in Device |-> {}]
  /\ inventory = [d \in Device |-> "none"] /\ cursor = [d \in Device |-> 0]
  /\ blobLocal = [d \in Device |-> {}] /\ blobRemote = [d \in Device |-> {}]
  /\ file = [d \in Device |-> {}] /\ source = [d \in Device |-> {}]
  /\ blocked = [d \in Device |-> FALSE] /\ converged = [d \in Device |-> FALSE]
  /\ phase = [d \in Device |-> "idle"]
  /\ page = [d \in Device |-> {}] /\ todo = [d \in Device |-> {}]
  /\ upTo = [d \in Device |-> 0] /\ item = [d \in Device |-> None]
  /\ interrupts = 0

-----------------------------------------------------------------------------
(* The author: the canonical source of every asset a change set binds is   *)
(* verified and registered before the change set commits.                  *)

VerifyLocalBlob(d, b) ==
  /\ authored[d] < Quota[d]
  /\ b \in Binds(d, authored[d] + 1) \ blobLocal[d]
  /\ verified' = [verified EXCEPT ![d] = @ \cup {b}]
  /\ staged' = [staged EXCEPT ![d] = @ \ {b}]
  /\ blobLocal' = [blobLocal EXCEPT ![d] = @ \cup {b}]
  /\ file' = [file EXCEPT ![d] = @ \cup {b}]
  /\ UNCHANGED <<providerVars, journalVars, quarantined, transferVars, remoteVars,
                 cursorVars, blobRemote, source, bindingVars, cycleVars>>

Author(d) ==
  /\ authored[d] < Quota[d]
  /\ Binds(d, authored[d] + 1) \subseteq blobLocal[d]
  /\ authored' = [authored EXCEPT ![d] = @ + 1]
  /\ source' = [source EXCEPT ![d] = @ \cup
                  IF Binds(d, authored[d] + 1) = {} THEN {}
                  ELSE {[by |-> d, seq |-> authored[d] + 1]}]
  /\ UNCHANGED <<providerVars, rows, unpublished, applied, head, inboxVars,
                 transferVars, remoteVars, cursorVars, blobLocal, blobRemote, file,
                 bindingVars, cycleVars>>

-----------------------------------------------------------------------------
(* Prepare: the cycle reads the unsealed change sets once, then persists    *)
(* one segment per transaction.                                             *)

StartCycle(d) ==
  /\ phase[d] = "idle"
  /\ ~blocked[d]
  /\ phase' = [phase EXCEPT ![d] = "sealing"]
  /\ upTo' = [upTo EXCEPT ![d] = authored[d]]
  /\ UNCHANGED <<providerVars, journalVars, inboxVars, transferVars, remoteVars,
                 cursorVars, assetVars, bindingVars, workVars, item, interrupts>>

\* A segment ends at any change set up to MaxSegment: where its bytes reach the
\* size limit, or where the read ends and the tail is old enough.
SealSegment(d, last) ==
  LET s == [by |-> d, first |-> SealedTo(d) + 1, last |-> last, prev |-> SealedHash(d)]
  IN  /\ phase[d] = "sealing"
      /\ last \in SealedTo(d) + 1 .. upTo[d]
      /\ last - SealedTo(d) <= MaxSegment
      /\ rows' = [rows EXCEPT ![d] = @ \cup {s}]
      /\ unpublished' = [unpublished EXCEPT ![d] = @ \cup {s}]
      /\ verified' = [verified EXCEPT ![d] = @ \cup {s}]
      /\ applied' = [applied EXCEPT ![d][d] = @ \cup Seqs(s)]
      /\ head' = [head EXCEPT ![d][d] = Hash(s)]
      /\ UNCHANGED <<providerVars, authored, staged, quarantined, transferVars,
                     remoteVars, cursorVars, assetVars, bindingVars, cycleVars>>

\* Fewer than MaxSegment change sets, the oldest younger than maxAgeMs, wait
\* for a later cycle.
FinishSealing(d) ==
  /\ phase[d] = "sealing"
  /\ upTo[d] - SealedTo(d) < MaxSegment
  /\ phase' = [phase EXCEPT ![d] = "listing"]
  /\ upTo' = [upTo EXCEPT ![d] = 0]
  /\ UNCHANGED <<providerVars, journalVars, inboxVars, transferVars, remoteVars,
                 cursorVars, assetVars, bindingVars, workVars, item, interrupts>>

-----------------------------------------------------------------------------
(* Pull *)

\* The start cursor is captured and persisted before the inventory is listed.
CaptureStartCursor(d) ==
  /\ phase[d] = "listing"
  /\ inventory[d] = "none"
  /\ inventory' = [inventory EXCEPT ![d] = "captured"]
  /\ cursor' = [cursor EXCEPT ![d] = Len(log)]
  /\ UNCHANGED <<providerVars, journalVars, inboxVars, transferVars, remoteVars,
                 assetVars, bindingVars, cycleVars>>

\* One page holds the whole inventory, or every change after the cursor.
List(d) ==
  /\ phase[d] = "listing"
  /\ inventory[d] # "none"
  /\ phase' = [phase EXCEPT ![d] = "staging"]
  /\ page' = [page EXCEPT ![d] = IF inventory[d] = "captured"
                                 THEN { i \in 1 .. Len(log) : Current(i) }
                                 ELSE cursor[d] + 1 .. Len(log)]
  /\ upTo' = [upTo EXCEPT ![d] = IF inventory[d] = "captured"
                                 THEN cursor[d] ELSE Len(log)]
  /\ UNCHANGED <<providerVars, journalVars, inboxVars, transferVars, remoteVars,
                 cursorVars, assetVars, bindingVars, todo, item, interrupts>>

\* Changes are staged in the order they happened.  An inventory is sorted by key,
\* which says nothing of when its objects came.
Staging(d, i) ==
  /\ phase[d] = "staging"
  /\ i \in page[d]
  /\ inventory[d] = "captured" \/ \A j \in page[d] : i <= j

\* A verified local object of the same identity needs no download.
ObserveKnown(d, i) ==
  LET o == log[i].obj
  IN  /\ Staging(d, i)
      /\ log[i].present
      /\ o \in verified[d]
      /\ observed' = [observed EXCEPT ![d] = @ \cup {o}]
      /\ removed' = [removed EXCEPT ![d] = @ \ {o}]
      /\ page' = [page EXCEPT ![d] = @ \ {i}]
      /\ UNCHANGED <<providerVars, journalVars, inboxVars, transferVars, cursorVars,
                     assetVars, bindingVars, phase, todo, upTo, item, interrupts>>

BeginDownload(d, i) ==
  LET o == log[i].obj
  IN  /\ Staging(d, i)
      /\ log[i].present
      /\ o \notin verified[d]
      /\ observed' = [observed EXCEPT ![d] = @ \cup {o}]
      /\ removed' = [removed EXCEPT ![d] = @ \ {o}]
      /\ staged' = [staged EXCEPT ![d] = @ \cup {o}]
      /\ downloading' = [downloading EXCEPT ![d] = @ \cup {o}]
      /\ downloaded' = [downloaded EXCEPT ![d] = @ \ {o}]
      /\ phase' = [phase EXCEPT ![d] = "downloading"]
      /\ item' = [item EXCEPT ![d] = o]
      /\ UNCHANGED <<providerVars, journalVars, verified, quarantined, uploading,
                     cursorVars, assetVars, bindingVars, workVars, upTo, interrupts>>

\* The bytes are in the inbox: the row is staged, whatever it was before.
FinishDownload(d) ==
  LET o == item[d]
  IN  /\ phase[d] = "downloading"
      /\ o \in Stored
      /\ staged' = [staged EXCEPT ![d] = @ \cup {o}]
      /\ verified' = [verified EXCEPT ![d] = @ \ {o}]
      /\ downloading' = [downloading EXCEPT ![d] = @ \ {o}]
      /\ downloaded' = [downloaded EXCEPT ![d] = @ \cup {o}]
      /\ file' = [file EXCEPT ![d] = IF o \in Blob THEN @ \cup {o} ELSE @]
      /\ phase' = [phase EXCEPT ![d] = "staging"]
      /\ page' = [page EXCEPT ![d] =
                    { i \in @ : log[i].obj = o => \E j \in @ : j < i /\ log[j].obj = o }]
      /\ item' = [item EXCEPT ![d] = None]
      /\ UNCHANGED <<providerVars, journalVars, quarantined, uploading, remoteVars,
                     cursorVars, blobLocal, blobRemote, source, bindingVars, upTo,
                     interrupts, todo>>

\* REMOTE_OBJECT_MISSING fails the cycle; the transfer waits for a retry.
DownloadMissing(d) ==
  /\ phase[d] = "downloading"
  /\ item[d] \notin Stored
  /\ AbandonCycle(d)
  /\ UNCHANGED <<providerVars, journalVars, inboxVars, transferVars, remoteVars,
                 cursorVars, assetVars, blocked, interrupts>>

\* Mutant: every removal is taken for the loss of an unknown object.
IgnoresEveryRemoval(d, i) ==
  /\ Staging(d, i)
  /\ ~log[i].present
  /\ page' = [page EXCEPT ![d] = @ \ {i}]
  /\ UNCHANGED <<providerVars, journalVars, inboxVars, transferVars, remoteVars,
                 cursorVars, assetVars, bindingVars, phase, todo, upTo, item, interrupts>>

\* Removal of an object never observed says nothing.
IgnoreRemoval(d, i) ==
  /\ Staging(d, i)
  /\ ~log[i].present
  /\ log[i].obj \notin observed[d]
  /\ page' = [page EXCEPT ![d] = @ \ {i}]
  /\ UNCHANGED <<providerVars, journalVars, inboxVars, transferVars, remoteVars,
                 cursorVars, assetVars, bindingVars, phase, todo, upTo, item, interrupts>>

\* Removal of an observed object blocks the binding and fails the cycle, with
\* the cursor still before it.
RecordRemoval(d, i) ==
  /\ Staging(d, i)
  /\ ~log[i].present
  /\ log[i].obj \in observed[d]
  /\ removed' = [removed EXCEPT ![d] = @ \cup {log[i].obj}]
  /\ blocked' = [blocked EXCEPT ![d] = TRUE]
  /\ AbandonCycle(d)
  /\ UNCHANGED <<providerVars, journalVars, inboxVars, transferVars, observed,
                 cursorVars, assetVars, interrupts>>

\* Mutant: the cursor is committed with items of the page still to stage.
CommitsEarly(d) ==
  /\ phase[d] = "staging"
  /\ inventory' = [inventory EXCEPT ![d] = "complete"]
  /\ cursor' = [cursor EXCEPT ![d] = upTo[d]]
  /\ phase' = [phase EXCEPT ![d] = "ingesting"]
  /\ page' = [page EXCEPT ![d] = {}]
  /\ upTo' = [upTo EXCEPT ![d] = 0]
  /\ UNCHANGED <<providerVars, journalVars, inboxVars, transferVars, remoteVars,
                 assetVars, bindingVars, todo, item, interrupts>>

\* Mutant: the start cursor is captured after the inventory was listed.
CursorAfterInventory(d) ==
  /\ phase[d] = "staging"
  /\ page[d] = {}
  /\ inventory' = [inventory EXCEPT ![d] = "complete"]
  /\ cursor' = [cursor EXCEPT ![d] = IF inventory[d] = "captured" THEN Len(log) ELSE upTo[d]]
  /\ phase' = [phase EXCEPT ![d] = "ingesting"]
  /\ upTo' = [upTo EXCEPT ![d] = 0]
  /\ UNCHANGED <<providerVars, journalVars, inboxVars, transferVars, remoteVars,
                 assetVars, bindingVars, workVars, item, interrupts>>

\* Every item of the page is durable: the cursor moves past it.
CommitPage(d) ==
  /\ phase[d] = "staging"
  /\ page[d] = {}
  /\ inventory' = [inventory EXCEPT ![d] = "complete"]
  /\ cursor' = [cursor EXCEPT ![d] = upTo[d]]
  /\ phase' = [phase EXCEPT ![d] = IF inventory[d] = "captured"
                                   THEN "listing" ELSE "ingesting"]
  /\ upTo' = [upTo EXCEPT ![d] = 0]
  /\ UNCHANGED <<providerVars, journalVars, inboxVars, transferVars, remoteVars,
                 assetVars, bindingVars, workVars, item, interrupts>>

-----------------------------------------------------------------------------
(* Ingest *)

\* Mutant: every segment is compared with the applied head, next or not.
ChainsToHeadAlways(d, s) == s.prev = head[d][s.by]

\* A segment that starts where the applied lane ends must name its head, and
\* one that follows or precedes a known segment must link to it.
ChainLinks(d, s) ==
  LET end == Contiguous(applied[d][s.by])
  IN  /\ s.first = end + 1 =>
           s.prev = (IF end = 0 THEN None ELSE head[d][s.by])
      /\ \A r \in Rows(d, s.by) :
           /\ r.last = s.first - 1 => s.prev = Hash(r)
           /\ r.first = s.last + 1 => r.prev = Hash(s)

IngestSegment(d, s) ==
  /\ phase[d] = "ingesting"
  /\ s \in downloaded[d] \cap staged[d] \cap Segment
  /\ staged' = [staged EXCEPT ![d] = @ \ {s}]
  /\ IF ChainLinks(d, s)
     THEN /\ rows' = [rows EXCEPT ![d] = @ \cup {s}]
          /\ verified' = [verified EXCEPT ![d] = @ \cup {s}]
          /\ UNCHANGED <<quarantined, blocked>>
     ELSE /\ quarantined' = [quarantined EXCEPT ![d] = @ \cup {s}]
          /\ blocked' = [blocked EXCEPT ![d] = TRUE]
          /\ UNCHANGED <<rows, verified>>
  /\ UNCHANGED <<providerVars, authored, unpublished, applied, head, transferVars,
                 remoteVars, cursorVars, assetVars, converged, cycleVars>>

\* Blobs are looked at only when some downloaded segment declares an asset.
FinishSegments(d) ==
  /\ phase[d] = "ingesting"
  /\ downloaded[d] \cap staged[d] \cap Segment = {}
  /\ phase' = [phase EXCEPT ![d] = "installing"]
  /\ todo' = [todo EXCEPT ![d] = IF Declared(d) = {} THEN {} ELSE InboxBlobs(d)]
  /\ UNCHANGED <<providerVars, journalVars, inboxVars, transferVars, remoteVars,
                 cursorVars, assetVars, bindingVars, page, upTo, item, interrupts>>

Installing(d, b) == phase[d] = "installing" /\ b \in todo[d]

\* A blob verified since the query is left alone.
SkipBlob(d, b) ==
  /\ Installing(d, b)
  /\ b \in blobLocal[d]
  /\ todo' = [todo EXCEPT ![d] = @ \ {b}]
  /\ UNCHANGED <<providerVars, journalVars, inboxVars, transferVars, remoteVars,
                 cursorVars, assetVars, bindingVars, phase, page, upTo, item, interrupts>>

\* No declaration matches: the native port discards the inbox file.
DiscardUndeclared(d, b) ==
  /\ Installing(d, b)
  /\ b \notin blobLocal[d]
  /\ Matching(d, b) = {}
  /\ file' = [file EXCEPT ![d] = @ \ {b}]
  /\ todo' = [todo EXCEPT ![d] = @ \ {b}]
  /\ UNCHANGED <<providerVars, journalVars, inboxVars, transferVars, remoteVars,
                 cursorVars, blobLocal, blobRemote, source, bindingVars, phase, upTo,
                 page, item, interrupts>>

\* The native port copies the inbox file to every matching asset source and
\* discards it; the receipt is not in SQLite yet.
InstallSources(d, b) ==
  /\ Installing(d, b)
  /\ b \notin blobLocal[d]
  /\ Matching(d, b) # {}
  /\ b \in file[d]
  /\ source' = [source EXCEPT ![d] = @ \cup Matching(d, b)]
  /\ file' = [file EXCEPT ![d] = @ \ {b}]
  /\ phase' = [phase EXCEPT ![d] = "installed"]
  /\ item' = [item EXCEPT ![d] = b]
  /\ UNCHANGED <<providerVars, journalVars, inboxVars, transferVars, remoteVars,
                 cursorVars, blobLocal, blobRemote, bindingVars, workVars, upTo, interrupts>>

CommitInstall(d) ==
  LET b == item[d]
  IN  /\ phase[d] = "installed"
      /\ staged' = [staged EXCEPT ![d] = @ \ {b}]
      /\ verified' = [verified EXCEPT ![d] = @ \cup {b}]
      /\ blobLocal' = [blobLocal EXCEPT ![d] = @ \cup {b}]
      /\ blobRemote' = [blobRemote EXCEPT ![d] = @ \cup {b}]
      /\ phase' = [phase EXCEPT ![d] = "installing"]
      /\ todo' = [todo EXCEPT ![d] = @ \ {b}]
      /\ item' = [item EXCEPT ![d] = None]
      /\ UNCHANGED <<providerVars, journalVars, quarantined, transferVars, remoteVars,
                     cursorVars, file, source, bindingVars, page, upTo, interrupts>>

\* The port finds no inbox file: the object is quarantined and the binding blocks.
InstallFails(d, b) ==
  /\ Installing(d, b)
  /\ b \notin blobLocal[d]
  /\ Matching(d, b) # {}
  /\ b \notin file[d]
  /\ staged' = [staged EXCEPT ![d] = @ \ {b}]
  /\ verified' = [verified EXCEPT ![d] = @ \ {b}]
  /\ quarantined' = [quarantined EXCEPT ![d] = @ \cup {b}]
  /\ blocked' = [blocked EXCEPT ![d] = TRUE]
  /\ todo' = [todo EXCEPT ![d] = @ \ {b}]
  /\ UNCHANGED <<providerVars, journalVars, transferVars, remoteVars, cursorVars,
                 assetVars, converged, phase, page, upTo, item, interrupts>>

FinishIngest(d) ==
  /\ phase[d] = "installing"
  /\ todo[d] = {}
  /\ phase' = [phase EXCEPT ![d] = "applying"]
  /\ UNCHANGED <<providerVars, journalVars, inboxVars, transferVars, remoteVars,
                 cursorVars, assetVars, bindingVars, workVars, upTo, item, interrupts>>

-----------------------------------------------------------------------------
(* Apply: one change set per transaction, with its frontier.                *)

\* Mutant: any segment with something new is applied.
AdvancesAcrossGap(lane, s) == ~(Seqs(s) \subseteq lane)

CanAdvance(lane, s) ==
  /\ ~(Seqs(s) \subseteq lane)
  /\ s.first <= Contiguous(lane) + 1
  /\ s.last >= Contiguous(lane) + 1

\* Mutant: the required blobs are not waited for.
AppliesWithoutBlobs(d, s) ==
  /\ s \in rows[d] \cap downloaded[d]
  /\ CanAdvance(applied[d][s.by], s)

\* Only a downloaded segment is applied: own segments were applied when sealed.
Applicable(d, s) ==
  /\ s \in rows[d] \cap downloaded[d]
  /\ CanAdvance(applied[d][s.by], s)
  /\ RequiredBlobs(s) \subseteq blobLocal[d]

ApplyChangeSet(d, s, n) ==
  /\ phase[d] = "applying"
  /\ Applicable(d, s)
  /\ n \in Seqs(s) \ applied[d][s.by]
  /\ CanAdvance(applied[d][s.by], [s EXCEPT !.first = n, !.last = n])
  /\ applied' = [applied EXCEPT ![d][s.by] = @ \cup {n}]
  /\ head' = [head EXCEPT ![d][s.by] = IF n = s.last THEN Hash(s) ELSE @]
  /\ UNCHANGED <<providerVars, authored, rows, unpublished, inboxVars, transferVars,
                 remoteVars, cursorVars, assetVars, bindingVars, cycleVars>>

FinishApply(d) ==
  /\ phase[d] = "applying"
  /\ \A s \in rows[d] : ~Applicable(d, s)
  /\ phase' = [phase EXCEPT ![d] = "publishing-blobs"]
  /\ todo' = [todo EXCEPT ![d] = blobLocal[d] \ blobRemote[d]]
  /\ UNCHANGED <<providerVars, journalVars, inboxVars, transferVars, remoteVars,
                 cursorVars, assetVars, bindingVars, page, upTo, item, interrupts>>

-----------------------------------------------------------------------------
(* Publish: blobs, then the segments whose blobs are all at the provider.   *)

FinishBlobs(d) ==
  /\ phase[d] = "publishing-blobs"
  /\ todo[d] = {}
  /\ phase' = [phase EXCEPT ![d] = "publishing-segments"]
  /\ todo' = [todo EXCEPT ![d] =
                { s \in unpublished[d] : RequiredBlobs(s) \subseteq blobRemote[d] }]
  /\ UNCHANGED <<providerVars, journalVars, inboxVars, transferVars, remoteVars,
                 cursorVars, assetVars, bindingVars, page, upTo, item, interrupts>>

NextToPublish(d, o) ==
  /\ o \in todo[d]
  /\ \/ phase[d] = "publishing-blobs"
     \/ /\ phase[d] = "publishing-segments"
        /\ \A s \in todo[d] : o.first <= s.first

\* Mutant: an upload that was already running is taken for finished.
ResumesAsUploaded(d, o) ==
  /\ NextToPublish(d, o)
  /\ uploading' = [uploading EXCEPT ![d] = @ \cup {o}]
  /\ phase' = [phase EXCEPT ![d] = IF o \in uploading[d] THEN "uploaded" ELSE "uploading"]
  /\ item' = [item EXCEPT ![d] = o]
  /\ UNCHANGED <<providerVars, journalVars, inboxVars, downloading, downloaded,
                 remoteVars, cursorVars, assetVars, bindingVars, workVars, upTo, interrupts>>

\* The upload transfer is running before the provider hears of it.
BeginUpload(d, o) ==
  /\ NextToPublish(d, o)
  /\ uploading' = [uploading EXCEPT ![d] = @ \cup {o}]
  /\ phase' = [phase EXCEPT ![d] = "uploading"]
  /\ item' = [item EXCEPT ![d] = o]
  /\ UNCHANGED <<providerVars, journalVars, inboxVars, downloading, downloaded,
                 remoteVars, cursorVars, assetVars, bindingVars, workVars, upTo, interrupts>>

\* statImmutable finds the object, or uploadImmutable stores it.
Upload(d) ==
  /\ phase[d] = "uploading"
  /\ Store(item[d])
  /\ phase' = [phase EXCEPT ![d] = "uploaded"]
  /\ UNCHANGED <<inflight, removals, journalVars, inboxVars, transferVars, remoteVars,
                 cursorVars, assetVars, bindingVars, workVars, upTo, item, interrupts>>

CompleteUploadReceipt(d) ==
  /\ phase[d] = "uploaded"
  /\ observed' = [observed EXCEPT ![d] = @ \cup {item[d]}]
  /\ removed' = [removed EXCEPT ![d] = @ \ {item[d]}]
  /\ uploading' = [uploading EXCEPT ![d] = @ \ {item[d]}]
  /\ phase' = [phase EXCEPT ![d] = "receipted"]
  /\ UNCHANGED <<providerVars, journalVars, inboxVars, downloading, downloaded,
                 cursorVars, assetVars, bindingVars, workVars, upTo, item, interrupts>>

\* A second transaction marks the blob available or the segment published.
CommitPublished(d) ==
  LET o == item[d]
  IN  /\ phase[d] = "receipted"
      /\ IF o \in Blob
         THEN /\ blobRemote' = [blobRemote EXCEPT ![d] = @ \cup {o}]
              /\ phase' = [phase EXCEPT ![d] = "publishing-blobs"]
              /\ UNCHANGED unpublished
         ELSE /\ unpublished' = [unpublished EXCEPT ![d] = @ \ {o}]
              /\ phase' = [phase EXCEPT ![d] = "publishing-segments"]
              /\ UNCHANGED blobRemote
      /\ todo' = [todo EXCEPT ![d] = @ \ {o}]
      /\ item' = [item EXCEPT ![d] = None]
      /\ UNCHANGED <<providerVars, authored, rows, applied, head, inboxVars,
                     transferVars, remoteVars, cursorVars, blobLocal, file, source,
                     bindingVars, page, upTo, interrupts>>

\* inspectPending: what this device still knows to be outstanding.
NothingPending(d) ==
  /\ authored[d] = SealedTo(d)
  /\ unpublished[d] = {}
  /\ \A s \in rows[d] : Seqs(s) \subseteq applied[d][s.by]
  /\ downloading[d] \cup uploading[d] = {}
  /\ \A w \in Device : \A n \in Received(d, w) : 1 .. n \subseteq Received(d, w)
  /\ quarantined[d] = {}
  /\ removed[d] = {}

FinishCycle(d) ==
  /\ phase[d] = "publishing-segments"
  /\ todo[d] = {}
  /\ converged' = [converged EXCEPT ![d] = NothingPending(d)]
  /\ phase' = [phase EXCEPT ![d] = "idle"]
  /\ UNCHANGED <<providerVars, journalVars, inboxVars, transferVars, remoteVars,
                 cursorVars, assetVars, blocked, workVars, upTo, item, interrupts>>

-----------------------------------------------------------------------------
(* Failure: a crash, an abort or a provider error ends the cycle between    *)
(* two steps.  An upload it interrupts is lost, or arrives later.  Sources  *)
(* promoted without a SQLite receipt are rolled back.                       *)

Interrupt(d) ==
  /\ phase[d] # "idle"
  /\ interrupts < MaxInterrupts
  /\ interrupts' = interrupts + 1
  /\ inflight' \in IF phase[d] = "uploading"
                   THEN {inflight, inflight \cup {item[d]}} ELSE {inflight}
  /\ source' = [source EXCEPT ![d] =
                  IF phase[d] = "installed" THEN @ \ Matching(d, item[d]) ELSE @]
  /\ AbandonCycle(d)
  /\ UNCHANGED <<log, removals, journalVars, inboxVars, transferVars, remoteVars,
                 cursorVars, blobLocal, blobRemote, file, blocked>>

LateUpload(o) ==
  /\ o \in inflight
  /\ inflight' = inflight \ {o}
  /\ Store(o)
  /\ UNCHANGED <<removals, journalVars, inboxVars, transferVars, remoteVars,
                 cursorVars, assetVars, bindingVars, cycleVars>>

\* The provider loses an immutable object it holds.
LoseObject(o) ==
  /\ removals < MaxRemovals
  /\ o \in Stored
  /\ removals' = removals + 1
  /\ Announce(o, FALSE)
  /\ UNCHANGED <<inflight, journalVars, inboxVars, transferVars, remoteVars,
                 cursorVars, assetVars, bindingVars, cycleVars>>

-----------------------------------------------------------------------------
Prepare(d) ==
  \/ StartCycle(d)
  \/ \E n \in 1 .. upTo[d] : SealSegment(d, n)
  \/ FinishSealing(d)

Stage(d) ==
  \/ \E i \in page[d] : \/ ObserveKnown(d, i) \/ BeginDownload(d, i)
                        \/ IgnoreRemoval(d, i) \/ RecordRemoval(d, i)
  \/ FinishDownload(d) \/ DownloadMissing(d) \/ CommitPage(d)

Pull(d) == CaptureStartCursor(d) \/ List(d) \/ Stage(d)

Ingest(d) ==
  \/ \E s \in staged[d] : IngestSegment(d, s)
  \/ FinishSegments(d)
  \/ \E b \in todo[d] : \/ SkipBlob(d, b) \/ DiscardUndeclared(d, b)
                        \/ InstallSources(d, b) \/ InstallFails(d, b)
  \/ CommitInstall(d) \/ FinishIngest(d)

Apply(d) ==
  \/ \E s \in rows[d] : \E n \in Seqs(s) : ApplyChangeSet(d, s, n)
  \/ FinishApply(d)

Publish(d) ==
  \/ \E o \in todo[d] : BeginUpload(d, o)
  \/ Upload(d) \/ CompleteUploadReceipt(d) \/ CommitPublished(d)
  \/ FinishBlobs(d) \/ FinishCycle(d)

Cycle(d) == Prepare(d) \/ Pull(d) \/ Ingest(d) \/ Apply(d) \/ Publish(d)

Next ==
  \/ \E d \in Device : \/ Author(d)
                       \/ \E b \in Blob : VerifyLocalBlob(d, b)
                       \/ Cycle(d)
                       \/ Interrupt(d)
  \/ \E o \in inflight : LateUpload(o)
  \/ \E o \in Stored : LoseObject(o)

Spec == Init /\ [][Next]_vars

\* A registered project is polled for ever and a cycle is never left standing.
\* An interrupted upload need not arrive, the author need not write.
Fairness == \A d \in Device : WF_vars(Cycle(d))

LiveSpec == Spec /\ Fairness

-----------------------------------------------------------------------------
(* Properties *)

Phase == {"idle", "sealing", "listing", "staging", "downloading", "ingesting",
          "installing", "installed", "applying", "publishing-blobs",
          "publishing-segments", "uploading", "uploaded", "receipted"}

\* A cycle installs blobs; it uploads blobs, then segments.
PhaseOK(d) ==
  /\ page[d] \subseteq 1 .. Len(log)
  /\ phase[d] = "downloading" => item[d] \in Object
  /\ phase[d] \in {"installing", "installed", "publishing-blobs"} => todo[d] \subseteq Blob
  /\ phase[d] = "installed" => item[d] \in Blob
  /\ phase[d] = "publishing-segments" => todo[d] \subseteq Segment
  /\ phase[d] \in {"uploading", "uploaded", "receipted"} =>
       \/ item[d] \in Blob /\ todo[d] \subseteq Blob
       \/ item[d] \in Segment /\ todo[d] \subseteq Segment

ProviderOK ==
  /\ log \in Seq(Entry)
  /\ inflight \in SUBSET Object
  /\ removals \in Nat

JournalOK ==
  /\ authored \in [Device -> Nat]
  /\ rows \in [Device -> SUBSET Segment]
  /\ unpublished \in [Device -> SUBSET Segment]
  /\ applied \in [Device -> [Device -> SUBSET (Nat \ {0})]]
  /\ head \in [Device -> [Device -> Hashes]]

InboxOK ==
  /\ staged \in [Device -> SUBSET Object]
  /\ verified \in [Device -> SUBSET Object]
  /\ quarantined \in [Device -> SUBSET Object]

TransferOK ==
  /\ downloading \in [Device -> SUBSET Object]
  /\ downloaded \in [Device -> SUBSET Object]
  /\ uploading \in [Device -> SUBSET Object]

RemoteOK ==
  /\ observed \in [Device -> SUBSET Object]
  /\ removed \in [Device -> SUBSET Object]

CursorOK ==
  /\ inventory \in [Device -> {"none", "captured", "complete"}]
  /\ cursor \in [Device -> Nat]

AssetOK ==
  /\ blobLocal \in [Device -> SUBSET Blob]
  /\ blobRemote \in [Device -> SUBSET Blob]
  /\ file \in [Device -> SUBSET Blob]
  /\ source \in [Device -> SUBSET ChangeSet]

BindingOK ==
  /\ blocked \in [Device -> BOOLEAN]
  /\ converged \in [Device -> BOOLEAN]

CycleOK ==
  /\ phase \in [Device -> Phase]
  /\ page \in [Device -> SUBSET Nat]
  /\ todo \in [Device -> SUBSET Object]
  /\ upTo \in [Device -> Nat]
  /\ item \in [Device -> Object \cup {None}]
  /\ interrupts \in Nat

\* Every table holds rows of its kind, and what a cycle has in memory is what
\* its phase uses.
TypeOK ==
  /\ ProviderOK /\ JournalOK /\ InboxOK /\ TransferOK /\ RemoteOK
  /\ CursorOK /\ AssetOK /\ BindingOK /\ CycleOK
  /\ \A d \in Device : PhaseOK(d)

\* What the provider ever announced, whether or not it still holds it.
Announced == { log[i].obj : i \in { j \in 1 .. Len(log) : log[j].present } }

SharedSets == UNION { ChangeSets(s) : s \in Announced \cap Segment }

\* Whatever is delivered twice, late or out of order, and wherever a cycle is
\* interrupted, each device applies each writer's journal from its beginning
\* without a hole and never before it was shared.
Journal == INSTANCE SharedJournal WITH shared <- SharedSets

ImplementsJournal == Journal!Spec

\* "publish verified blobs before referencing segments": a reader never sees a
\* segment whose blobs have not been announced, and never applies a change set
\* of another writer before it has verified the blobs that change set binds.
BlobsFirst ==
  /\ \A s \in Announced \cap Segment : RequiredBlobs(s) \subseteq Announced
  /\ \A d \in Device : \A w \in Device \ {d} : \A n \in applied[d][w] :
       Binds(w, n) \subseteq blobLocal[d]

\* The cursor never moves past an announcement whose object is not durable here,
\* unless the object was lost again: an interrupted page is replayed, never
\* skipped, and the inventory cannot miss what arrived while it was listed.
CursorNeverSkips ==
  \A d \in Device : inventory[d] = "complete" =>
    \A i \in 1 .. cursor[d] :
      Current(i) => /\ log[i].obj \in verified[d] \cup staged[d] \cup quarantined[d]
                    /\ log[i].obj \in observed[d]

\* A segment the device counts as published, or a blob it counts as available,
\* was announced: lost responses and late uploads never leave a receipt for an
\* object that is not there.
ReceiptsAreTrue ==
  \A d \in Device :
    /\ Rows(d, d) \ unpublished[d] \subseteq Announced
    /\ blobRemote[d] \subseteq Announced

\* Segments honest writers published are never quarantined, in whatever order
\* they arrive and however far the device had applied when they did.
HonestSegmentsAccepted ==
  \A d \in Device : \A s \in staged[d] \cap downloaded[d] \cap Segment : ChainLinks(d, s)

\* Once the cursor is past the loss of an object this device had observed, the
\* binding is blocked: the loss is never forgotten.
LossBlocks ==
  \A d \in Device : inventory[d] = "complete" =>
    \A j \in 1 .. cursor[d] :
      /\ ~log[j].present
      /\ \A k \in j + 1 .. Len(log) : log[k].obj # log[j].obj
      => log[j].obj \notin observed[d]

\* Devices whose last cycle reported convergence, with the cursor at the end of
\* the log and nothing authored since, have applied the same history: all of it.
ConvergedDevicesAgree ==
  (\A d \in Device : /\ converged[d]
                     /\ phase[d] = "idle"
                     /\ cursor[d] = Len(log)
                     /\ authored[d] = SealedTo(d))
  => \A d, w \in Device : applied[d][w] = 1 .. authored[w]

\* phase2-native-asset-pipeline.md:42, "provider bytes first become a durable
\* inbox object": the bytes of a downloaded blob that is not installed yet are
\* there to be installed.
InboxDurable ==
  \A d \in Device : \A b \in downloaded[d] \cap staged[d] \cap Blob :
    b \in file[d] \/ (phase[d] = "installed" /\ item[d] = b)

\* Every change set reaches every device, or a device it has to pass is blocked.
EveryChangeArrives ==
  \A w, d \in Device : \A n \in 1 .. Quota[w] :
    (n <= authored[w]) ~> (n \in applied[d][w] \/ blocked[d] \/ blocked[w])
=============================================================================
