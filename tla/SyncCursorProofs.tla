-------------------------- MODULE SyncCursorProofs --------------------------
(***************************************************************************)
(* What SyncEngine keeps true of the provider cursor: nothing behind it    *)
(* was skipped, no loss behind it was overlooked, and devices that report  *)
(* convergence at the end of the log have the same history.                *)
(***************************************************************************)
EXTENDS SyncJournalProofs

(***************************************************************************)
(* Layer 5, the cursor: what lies behind it is durable here.               *)
(***************************************************************************)

\* An object the device has taken note of and keeps a row for.
Durable(d) == (verified[d] \cup staged[d] \cup quarantined[d]) \cap observed[d]

\* The device is working through a page of the listing or of changes.
Pulling(d) == phase[d] \in {"staging", "downloading"}

\* A cycle pulls before it does anything that needs an inventory.
PullsFirst(d) ==
  /\ phase[d] \notin {"idle", "sealing", "listing"} => inventory[d] # "none"
  /\ phase[d] = "downloading" => item[d] \in observed[d]
  /\ cursor[d] <= Len(log)
  /\ Pulling(d) => upTo[d] <= Len(log)

\* All that stands in the log up to the cursor is durable here.
CursorDurable(d) ==
  inventory[d] = "complete" =>
    \A i \in 1 .. cursor[d] : Current(i) => log[i].obj \in Durable(d)

\* Where the cursor will stand, what the page no longer holds is durable.
PageDurable(d) ==
  Pulling(d) =>
    \A i \in 1 .. upTo[d] : Current(i) => i \in page[d] \/ log[i].obj \in Durable(d)

\* Layer 5, for every device.
CursorsOK == \A d \in Device : PullsFirst(d) /\ CursorDurable(d) /\ PageDurable(d)

\* A durable object stays durable.
LEMMA DurableGrows ==
  ASSUME TypeOK, NEW d \in Device, DeviceStep(d)
  PROVE  Durable(d) \subseteq Durable(d)'
<1> USE DEF inboxVars, remoteVars, TypeOK, InboxOK, RemoteOK, Durable
<1>1. CASE Author(d) \/ (\E b \in Blob : VerifyLocalBlob(d, b)) \/ Interrupt(d)
  BY <1>1 DEF Author, VerifyLocalBlob, Interrupt
<1>2. CASE Prepare(d)
  <2>1. observed' = observed /\ staged' = staged /\ quarantined' = quarantined
    BY <1>2 DEF Prepare, StartCycle, SealSegment, FinishSealing
  <2>2. verified' = verified \/ \E s : verified' = [verified EXCEPT ![d] = @ \cup {s}]
    BY <1>2 DEF Prepare, StartCycle, SealSegment, FinishSealing
  <2> QED BY <2>1, <2>2
<1>3. CASE Pull(d)
  BY <1>3 DEF Pull, Stage, CaptureStartCursor, List, ObserveKnown, BeginDownload,
              IgnoreRemoval, RecordRemoval, FinishDownload, DownloadMissing, CommitPage
<1>4. CASE Ingest(d)
  BY <1>4 DEF Ingest, IngestSegment, FinishSegments, SkipBlob, DiscardUndeclared,
              InstallSources, InstallFails, CommitInstall, FinishIngest
<1>5. CASE Apply(d)
  BY <1>5 DEF Apply, ApplyChangeSet, FinishApply
<1>6. CASE Publish(d)
  BY <1>6 DEF Publish, BeginUpload, Upload, CompleteUploadReceipt, CommitPublished,
              FinishBlobs, FinishCycle
<1> QED BY <1>1, <1>2, <1>3, <1>4, <1>5, <1>6 DEF DeviceStep, Cycle

\* The steps that list, stage and move the cursor.
PullStep(d) ==
  \/ CaptureStartCursor(d) \/ List(d)
  \/ \E i \in page[d] : ObserveKnown(d, i) \/ BeginDownload(d, i) \/ IgnoreRemoval(d, i)
  \/ FinishDownload(d) \/ CommitPage(d)

\* The others leave a pull alone, or give it up, or come after it.
PullKept(d) ==
  /\ inventory'[d] = inventory[d] /\ cursor'[d] = cursor[d]
  /\ \/ phase'[d] \in {"idle", "sealing", "listing"}
     \/ /\ phase'[d] = phase[d] /\ page'[d] = page[d]
        /\ upTo'[d] = upTo[d] /\ item'[d] = item[d]
     \/ /\ phase[d] \notin {"idle", "sealing", "listing"}
        /\ phase'[d] \notin {"idle", "sealing", "listing", "staging", "downloading"}

\* Every step but those of a pull leaves the cursor and the page alone.
LEMMA PullQuiet ==
  ASSUME TypeOK, NEW d \in Device, DeviceStep(d), ~PullStep(d)
  PROVE  PullKept(d)
<1> USE DEF cursorVars, workVars, cycleVars, TypeOK, CycleOK, PullKept
<1>1. CASE Author(d) \/ (\E b \in Blob : VerifyLocalBlob(d, b))
  BY <1>1 DEF Author, VerifyLocalBlob
<1>2. CASE Interrupt(d)
  BY <1>2 DEF Interrupt, AbandonCycle
<1>3. CASE StartCycle(d) \/ FinishSealing(d)
  BY <1>3 DEF StartCycle, FinishSealing
<1>4. ASSUME NEW last, SealSegment(d, last)
      PROVE  PullKept(d)
  BY <1>4 DEF SealSegment
<1>5. CASE DownloadMissing(d) \/ \E i \in page[d] : RecordRemoval(d, i)
  BY <1>5 DEF DownloadMissing, RecordRemoval, AbandonCycle
<1>6. ASSUME NEW s, IngestSegment(d, s)
      PROVE  PullKept(d)
  BY <1>6 DEF IngestSegment
<1>7. CASE FinishSegments(d) \/ FinishIngest(d) \/ CommitInstall(d)
  BY <1>7 DEF FinishSegments, FinishIngest, CommitInstall
<1>8. ASSUME NEW b, \/ SkipBlob(d, b) \/ DiscardUndeclared(d, b)
                    \/ InstallSources(d, b) \/ InstallFails(d, b)
      PROVE  PullKept(d)
  BY <1>8 DEF SkipBlob, DiscardUndeclared, InstallSources, InstallFails, Installing
<1>9. CASE Apply(d)
  BY <1>9 DEF Apply, ApplyChangeSet, FinishApply
<1>10. CASE Publish(d)
  BY <1>10 DEF Publish, BeginUpload, NextToPublish, Upload, CompleteUploadReceipt,
               CommitPublished, FinishBlobs, FinishCycle
<1> QED
  BY <1>1, <1>2, <1>3, <1>4, <1>5, <1>6, <1>7, <1>8, <1>9, <1>10
  DEF DeviceStep, Cycle, Prepare, Pull, Stage, Ingest, PullStep

\* Such a step keeps layer 5, whatever the log gained meanwhile.
LEMMA CursorFrame ==
  ASSUME TypeOK, CursorsOK, [Next]_vars, NEW d \in Device, PullKept(d),
         observed[d] \subseteq observed'[d], Durable(d) \subseteq Durable(d)'
  PROVE  PullsFirst(d)' /\ CursorDurable(d)' /\ PageDurable(d)'
<1>1. /\ Len(log) \in Nat /\ Len(log') \in Nat /\ Len(log) <= Len(log')
      /\ \A i \in 1 .. Len(log) : log'[i] = log[i] /\ (Current(i)' => Current(i))
      /\ PullsFirst(d) /\ CursorDurable(d) /\ PageDurable(d)
      /\ cursor[d] \in Nat /\ upTo[d] \in Nat
  BY LogGrows DEF CursorsOK, TypeOK, CursorOK, CycleOK
<1>2. PullsFirst(d)'
  BY <1>1 DEF PullsFirst, PullKept, Pulling
<1>3. CursorDurable(d)'
  BY <1>1 DEF CursorDurable, PullsFirst, PullKept
<1>4. PageDurable(d)'
  BY <1>1 DEF PageDurable, PullsFirst, PullKept, Pulling
<1> QED BY <1>2, <1>3, <1>4

\* Every step keeps layer 5: the steps of a pull one by one, the others by the frame.
LEMMA CursorsStep ==
  ASSUME TypeOK, CursorsOK, [Next]_vars
  PROVE  CursorsOK'
<1> DEFINE Goal(d) == PullsFirst(d) /\ CursorDurable(d) /\ PageDurable(d)
<1> USE DEF cursorVars, workVars, cycleVars, remoteVars, inboxVars, providerVars
<1>0. /\ Len(log) \in Nat
      /\ \A d \in Device : PullsFirst(d) /\ CursorDurable(d) /\ PageDurable(d)
      /\ \A d \in Device : cursor[d] \in Nat /\ upTo[d] \in Nat
  BY LogLemma DEF CursorsOK, TypeOK, CursorOK, CycleOK
<1>1. ASSUME NEW d \in Device, CaptureStartCursor(d)
      PROVE  Goal(d)'
  <2>1. /\ log' = log /\ inventory'[d] = "captured" /\ cursor'[d] = Len(log)
        /\ phase'[d] = "listing"
    BY <1>1 DEF CaptureStartCursor, TypeOK, CursorOK
  <2> QED BY <2>1, <1>0 DEF PullsFirst, CursorDurable, PageDurable, Pulling
<1>2. ASSUME NEW d \in Device, List(d)
      PROVE  Goal(d)'
  <2>1. /\ UNCHANGED <<log, inventory, cursor, verified, staged, quarantined, observed>>
        /\ inventory[d] # "none"
        /\ phase'[d] = "staging"
        /\ page'[d] = IF inventory[d] = "captured" THEN { i \in 1 .. Len(log) : Current(i) }
                                                   ELSE cursor[d] + 1 .. Len(log)
        /\ upTo'[d] = IF inventory[d] = "captured" THEN cursor[d] ELSE Len(log)
        /\ inventory[d] \in {"captured", "complete"}
    BY <1>2 DEF List, TypeOK, CursorOK, CycleOK
  <2>2. PullsFirst(d)' /\ CursorDurable(d)'
    BY <2>1, <1>0 DEF PullsFirst, CursorDurable, Pulling, Durable, Current
  <2>3. ASSUME NEW i \in 1 .. upTo'[d], Current(i)
        PROVE  i \in page'[d] \/ log[i].obj \in Durable(d)
    <3>1. CASE inventory[d] = "captured"
      <4>1. i \in 1 .. Len(log)
        BY <3>1, <2>1, <1>0 DEF PullsFirst
      <4> QED BY <3>1, <4>1, <2>1, <2>3
    <3>2. CASE inventory[d] = "complete"
      <4>1. i \in 1 .. cursor[d] \/ i \in page'[d]
        BY <3>2, <2>1, <1>0
      <4> QED BY <3>2, <4>1, <2>3, <1>0 DEF CursorDurable
    <3> QED BY <3>1, <3>2, <2>1
  <2>4. PageDurable(d)'
    BY <2>1, <2>3 DEF PageDurable, Durable, Current
  <2> QED BY <2>2, <2>4
<1>3. ASSUME NEW d \in Device, NEW i \in page[d], ObserveKnown(d, i)
      PROVE  Goal(d)'
  <2>1. /\ UNCHANGED <<log, inventory, cursor, verified, staged, quarantined, phase, upTo>>
        /\ phase[d] = "staging"
        /\ page'[d] = page[d] \ {i}
        /\ observed'[d] = observed[d] \cup {log[i].obj}
        /\ log[i].obj \in verified[d]
    BY <1>3 DEF ObserveKnown, Staging, TypeOK, CycleOK, RemoteOK
  <2>2. Durable(d) \subseteq Durable(d)' /\ log[i].obj \in Durable(d)'
    BY <2>1 DEF Durable
  <2> QED BY <2>1, <2>2, <1>0 DEF PullsFirst, CursorDurable, PageDurable, Pulling, Current
<1>4. ASSUME NEW d \in Device, NEW i \in page[d], BeginDownload(d, i)
      PROVE  Goal(d)'
  <2>1. /\ UNCHANGED <<log, inventory, cursor, verified, quarantined, page, upTo>>
        /\ phase[d] = "staging" /\ phase'[d] = "downloading"
        /\ item'[d] = log[i].obj
        /\ observed'[d] = observed[d] \cup {log[i].obj}
        /\ staged'[d] = staged[d] \cup {log[i].obj}
    BY <1>4 DEF BeginDownload, Staging, TypeOK, CycleOK, RemoteOK, InboxOK
  <2>2. Durable(d) \subseteq Durable(d)'
    BY <2>1 DEF Durable
  <2> QED BY <2>1, <2>2, <1>0 DEF PullsFirst, CursorDurable, PageDurable, Pulling, Current
<1>5. ASSUME NEW d \in Device, NEW i \in page[d], IgnoreRemoval(d, i)
      PROVE  Goal(d)'
  <2>1. /\ UNCHANGED <<log, inventory, cursor, verified, staged, quarantined, observed, phase, upTo>>
        /\ phase[d] = "staging"
        /\ page'[d] = page[d] \ {i}
        /\ ~Current(i)
    BY <1>5 DEF IgnoreRemoval, Staging, Current, TypeOK, CycleOK
  <2> QED BY <2>1, <1>0 DEF PullsFirst, CursorDurable, PageDurable, Pulling, Current, Durable
<1>6. ASSUME NEW d \in Device, FinishDownload(d)
      PROVE  Goal(d)'
  <2>1. /\ UNCHANGED <<log, inventory, cursor, observed, quarantined, upTo>>
        /\ phase[d] = "downloading" /\ phase'[d] = "staging"
        /\ page'[d] = { i \in page[d] : log[i].obj = item[d] =>
                          \E j \in page[d] : j < i /\ log[j].obj = item[d] }
        /\ staged'[d] = staged[d] \cup {item[d]}
        /\ verified'[d] = verified[d] \ {item[d]}
    BY <1>6 DEF FinishDownload, TypeOK, CycleOK, InboxOK
  <2>2. Durable(d) \subseteq Durable(d)' /\ item[d] \in Durable(d)'
    BY <2>1, <1>0 DEF Durable, PullsFirst
  <2>3. \A i \in page[d] : i \in page'[d] \/ log[i].obj = item[d]
    BY <2>1
  <2> QED BY <2>1, <2>2, <2>3, <1>0 DEF PullsFirst, CursorDurable, PageDurable, Pulling, Current
<1>7. ASSUME NEW d \in Device, CommitPage(d)
      PROVE  Goal(d)'
  <2>1. /\ UNCHANGED <<log, verified, staged, quarantined, observed>>
        /\ phase[d] = "staging" /\ page[d] = {}
        /\ phase'[d] \in {"listing", "ingesting"}
        /\ inventory'[d] = "complete"
        /\ cursor'[d] = upTo[d]
    BY <1>7 DEF CommitPage, TypeOK, CycleOK, CursorOK
  <2> QED BY <2>1, <1>0 DEF PullsFirst, CursorDurable, PageDurable, Pulling, Current, Durable
<1>8. ASSUME NEW d \in Device, DeviceStep(d), ~PullStep(d)
      PROVE  Goal(d)'
  BY <1>8, PullQuiet, ObservedGrows, DurableGrows, CursorFrame
<1>9. ASSUME NEW e \in Device, Same(e)
      PROVE  Goal(e)'
  <2>1. PullKept(e) /\ observed[e] \subseteq observed'[e] /\ Durable(e) \subseteq Durable(e)'
    BY <1>9 DEF Same, SameInbox, SameCursor, SameCycle, PullKept, Durable
  <2> QED BY <2>1, CursorFrame
<1>10. ASSUME NEW d \in Device, DeviceStep(d)
       PROVE  \A e \in Device : Goal(e)'
  <2>1. Goal(d)'
    BY <1>1, <1>2, <1>3, <1>4, <1>5, <1>6, <1>7, <1>8, <1>10 DEF PullStep
  <2> QED BY <2>1, <1>9, <1>10, OthersSame
<1>11. ASSUME ProviderStep \/ UNCHANGED vars
       PROVE  \A e \in Device : Goal(e)'
  BY <1>9, <1>11, ProviderSame
<1> QED BY <1>10, <1>11 DEF Next, DeviceStep, ProviderStep, CursorsOK

(***************************************************************************)
(* Layer 6, losses: an object whose last mention behind the cursor is its  *)
(* loss is not one the device counts on.                                   *)
(***************************************************************************)
ObservesLate(d) == inventory[d] = "none" => observed[d] = {} /\ cursor[d] = 0

\* The removal would have been recorded and the cursor would not have moved.
LossKnown(d) ==
  \A j \in 1 .. cursor[d] : LostAt(j) => log[j].obj \notin observed[d]

\* What was just uploaded, and what a page lists, is newer than the cursor.
UploadFresh(d) ==
  phase[d] = "uploaded" =>
    \A j \in 1 .. cursor[d] : LostAt(j) => log[j].obj # item[d]

\* An object on the page was not lost before the cursor.
PageFresh(d) ==
  Pulling(d) =>
    \A i \in page[d] : \A j \in 1 .. cursor[d] : LostAt(j) => log[j].obj # log[i].obj

\* An inventory leaves the cursor where it was captured; a page of changes is
\* staged in order, so what it still holds is its end.
PageInOrder(d) ==
  Pulling(d) =>
    /\ inventory[d] = "captured" => upTo[d] = cursor[d]
    /\ inventory[d] = "complete" =>
         /\ \A i \in page[d] : i <= upTo[d] /\ \A j \in i .. upTo[d] : j \in page[d]
         /\ \A j \in 1 .. upTo[d] : LostAt(j) /\ j \notin page[d] => log[j].obj \notin observed[d]
         /\ phase[d] = "downloading" =>
              \E i \in page[d] : /\ log[i].obj = item[d] /\ log[i].present
                                 /\ \A j \in page[d] : i <= j

\* Layer 6, its parts together.
LossInv(d) ==
  ObservesLate(d) /\ LossKnown(d) /\ UploadFresh(d) /\ PageFresh(d) /\ PageInOrder(d)

\* Layer 6, for every device.
LossesOK == \A d \in Device : LossInv(d)

\* Of one object an announcement and a loss are not both the last word.
LEMMA LastWord ==
  ASSUME TypeOK, NEW i \in 1 .. Len(log), Current(i), NEW j \in 1 .. Len(log), LostAt(j)
  PROVE  log[i].obj # log[j].obj
<1>1. Len(log) \in Nat
  BY LogLemma DEF TypeOK
<1>2. i # j
  BY DEF Current, LostAt
<1>3. i \in j + 1 .. Len(log) \/ j \in i + 1 .. Len(log)
  BY <1>1, <1>2
<1> QED BY <1>3 DEF Current, LostAt

\* Steps that observe nothing and finish no upload.
LEMMA LossQuiet ==
  ASSUME TypeOK, NEW d \in Device, DeviceStep(d),
         ~PullStep(d), ~Upload(d), ~CompleteUploadReceipt(d)
  PROVE  /\ observed'[d] = observed[d]
         /\ phase'[d] = "uploaded" => phase[d] = "uploaded" /\ item'[d] = item[d]
<1> USE DEF remoteVars, cycleVars, TypeOK, CycleOK
<1> DEFINE Quiet == /\ observed'[d] = observed[d]
                    /\ phase'[d] = "uploaded" => phase[d] = "uploaded" /\ item'[d] = item[d]
<1>1. CASE Author(d) \/ (\E b \in Blob : VerifyLocalBlob(d, b))
  BY <1>1 DEF Author, VerifyLocalBlob
<1>2. CASE Interrupt(d)
  BY <1>2 DEF Interrupt, AbandonCycle
<1>3. CASE StartCycle(d) \/ FinishSealing(d)
  BY <1>3 DEF StartCycle, FinishSealing
<1>4. ASSUME NEW last, SealSegment(d, last)
      PROVE  Quiet
  BY <1>4 DEF SealSegment
<1>5. CASE DownloadMissing(d) \/ \E i \in page[d] : RecordRemoval(d, i)
  BY <1>5 DEF DownloadMissing, RecordRemoval, AbandonCycle
<1>6. ASSUME NEW s, IngestSegment(d, s)
      PROVE  Quiet
  BY <1>6 DEF IngestSegment
<1>7. CASE FinishSegments(d) \/ FinishIngest(d) \/ CommitInstall(d)
  BY <1>7 DEF FinishSegments, FinishIngest, CommitInstall
<1>8. ASSUME NEW b, \/ SkipBlob(d, b) \/ DiscardUndeclared(d, b)
                    \/ InstallSources(d, b) \/ InstallFails(d, b)
      PROVE  Quiet
  BY <1>8 DEF SkipBlob, DiscardUndeclared, InstallSources, InstallFails, Installing
<1>9. CASE Apply(d)
  BY <1>9 DEF Apply, ApplyChangeSet, FinishApply
<1>10. CASE Publish(d)
  BY <1>10 DEF Publish, BeginUpload, NextToPublish, CommitPublished, FinishBlobs, FinishCycle
<1> QED
  BY <1>1, <1>2, <1>3, <1>4, <1>5, <1>6, <1>7, <1>8, <1>9, <1>10
  DEF DeviceStep, Cycle, Prepare, Pull, Stage, Ingest, PullStep

\* A step that observes nothing keeps layer 6.
LEMMA LossFrame ==
  ASSUME TypeOK, CursorsOK, LossesOK, [Next]_vars, NEW d \in Device, PullKept(d),
         observed'[d] = observed[d],
         phase'[d] = "uploaded" => phase[d] = "uploaded" /\ item'[d] = item[d]
  PROVE  LossInv(d)'
<1>1. /\ Len(log) \in Nat
      /\ \A i \in 1 .. Len(log) : log'[i] = log[i] /\ (LostAt(i)' => LostAt(i))
      /\ cursor[d] \in Nat /\ upTo[d] \in Nat /\ cursor[d] <= Len(log)
      /\ Pulling(d) => upTo[d] <= Len(log)
      /\ page[d] \subseteq 1 .. Len(log)
  BY LogGrows DEF CursorsOK, PullsFirst, TypeOK, CursorOK, CycleOK, PhaseOK
<1>2. \A j \in 1 .. cursor[d] : j \in 1 .. Len(log)
  BY <1>1
<1>3. LossInv(d)
  BY DEF LossesOK
<1>4. ObservesLate(d)' /\ LossKnown(d)' /\ UploadFresh(d)'
  BY <1>1, <1>2, <1>3 DEF LossInv, ObservesLate, LossKnown, UploadFresh, PullKept
<1>5. Pulling(d)' => /\ phase'[d] = phase[d] /\ page'[d] = page[d]
                     /\ upTo'[d] = upTo[d] /\ item'[d] = item[d] /\ Pulling(d)
  BY DEF PullKept, Pulling
<1>6. PageFresh(d)'
  BY <1>1, <1>2, <1>3, <1>5 DEF LossInv, PageFresh, PullKept
<1>7. PageInOrder(d)'
  <2> SUFFICES ASSUME Pulling(d)' PROVE PageInOrder(d)'
    BY DEF PageInOrder
  <2>1. \A j \in 1 .. upTo[d] : j \in 1 .. Len(log)
    BY <1>1, <1>5
  <2>2. PageInOrder(d) /\ inventory'[d] = inventory[d] /\ cursor'[d] = cursor[d]
    BY <1>3 DEF LossInv, PullKept
  <2>3. \A i \in page[d] : log'[i] = log[i]
    BY <1>1
  <2> QED BY <1>1, <1>5, <2>1, <2>2, <2>3 DEF PageInOrder
<1> QED BY <1>4, <1>6, <1>7 DEF LossInv

\* Every step keeps layer 6.
LEMMA LossesStep ==
  ASSUME TypeOK, CursorsOK, LossesOK, CursorsOK', [Next]_vars
  PROVE  LossesOK'
<1> USE DEF cursorVars, workVars, cycleVars, remoteVars, inboxVars, providerVars
<1>0. /\ Len(log) \in Nat
      /\ \A d \in Device : ObservesLate(d) /\ LossKnown(d) /\ UploadFresh(d) /\ PageFresh(d) /\ PageInOrder(d)
      /\ \A d \in Device : /\ cursor[d] \in Nat /\ upTo[d] \in Nat /\ cursor[d] <= Len(log)
                           /\ Pulling(d) => upTo[d] <= Len(log) /\ inventory[d] \in {"captured", "complete"}
                           /\ page[d] \subseteq 1 .. Len(log)
  BY LogLemma DEF LossesOK, LossInv, CursorsOK, PullsFirst, Pulling, TypeOK, CursorOK, CycleOK, PhaseOK
<1>1. ASSUME NEW d \in Device, CaptureStartCursor(d)
      PROVE  LossInv(d)'
  <2>1. /\ UNCHANGED <<log, observed>>
        /\ inventory[d] = "none" /\ inventory'[d] = "captured"
        /\ phase'[d] = "listing"
    BY <1>1 DEF CaptureStartCursor, TypeOK, CursorOK
  <2>2. observed[d] = {}
    BY <2>1, <1>0 DEF ObservesLate
  <2> QED BY <2>1, <2>2
      DEF LossInv, ObservesLate, LossKnown, UploadFresh, PageFresh, PageInOrder, Pulling
<1>2. ASSUME NEW d \in Device, List(d)
      PROVE  LossInv(d)'
  <2>1. /\ UNCHANGED <<log, inventory, cursor, observed>>
        /\ phase'[d] = "staging"
        /\ page'[d] = IF inventory[d] = "captured" THEN { i \in 1 .. Len(log) : Current(i) }
                                                   ELSE cursor[d] + 1 .. Len(log)
        /\ upTo'[d] = IF inventory[d] = "captured" THEN cursor[d] ELSE Len(log)
        /\ inventory[d] \in {"captured", "complete"}
    BY <1>2 DEF List, TypeOK, CursorOK, CycleOK
  <2>2. ObservesLate(d)' /\ LossKnown(d)' /\ UploadFresh(d)'
    BY <2>1, <1>0 DEF ObservesLate, LossKnown, UploadFresh, LostAt
  <2>3. ASSUME NEW i \in page'[d], NEW j \in 1 .. cursor[d], LostAt(j)
        PROVE  log[j].obj # log[i].obj
    <3>1. j \in 1 .. Len(log)
      BY <1>0
    <3>2. CASE inventory[d] = "captured"
      BY <3>1, <3>2, <2>1, <2>3, LastWord
    <3>3. CASE inventory[d] = "complete"
      <4>1. i \in j + 1 .. Len(log)
        BY <3>3, <2>1, <1>0
      <4> QED BY <4>1, <2>3 DEF LostAt
    <3> QED BY <3>2, <3>3, <2>1
  <2>4. PageFresh(d)'
    BY <2>1, <2>3 DEF PageFresh, LostAt
  <2>5. PageInOrder(d)'
    <3>1. CASE inventory[d] = "captured"
      BY <3>1, <2>1 DEF PageInOrder
    <3>2. CASE inventory[d] = "complete"
      <4>1. page'[d] = cursor[d] + 1 .. Len(log) /\ upTo'[d] = Len(log)
        BY <3>2, <2>1
      <4>2. \A i \in page'[d] : i <= upTo'[d] /\ \A j \in i .. upTo'[d] : j \in page'[d]
        BY <4>1, <1>0
      <4>3. \A j \in 1 .. upTo'[d] : j \notin page'[d] => j \in 1 .. cursor[d]
        BY <4>1, <1>0
      <4> QED BY <3>2, <4>2, <4>3, <2>1, <1>0 DEF PageInOrder, LossKnown, LostAt
    <3> QED BY <3>1, <3>2, <2>1
  <2> QED BY <2>2, <2>4, <2>5 DEF LossInv
<1>3. ASSUME NEW d \in Device, NEW i \in page[d], ObserveKnown(d, i)
      PROVE  LossInv(d)'
  <2>1. /\ UNCHANGED <<log, inventory, cursor, phase, upTo>>
        /\ phase[d] = "staging" /\ log[i].present
        /\ inventory[d] = "captured" \/ \A j \in page[d] : i <= j
        /\ page'[d] = page[d] \ {i}
        /\ observed'[d] = observed[d] \cup {log[i].obj}
    BY <1>3 DEF ObserveKnown, Staging, TypeOK, CycleOK, RemoteOK
  <2>2. Pulling(d) /\ inventory[d] # "none" /\ ~LostAt(i)
    BY <2>1, <1>0 DEF Pulling, LostAt
  <2>3. ObservesLate(d)' /\ LossKnown(d)' /\ UploadFresh(d)' /\ PageFresh(d)'
    BY <2>1, <2>2, <1>0 DEF ObservesLate, LossKnown, UploadFresh, PageFresh, Pulling, LostAt
  <2>4. PageInOrder(d)'
    <3>1. CASE inventory[d] = "captured"
      BY <3>1, <2>1, <2>2, <1>0 DEF PageInOrder
    <3>2. CASE inventory[d] = "complete"
      <4>1. \A k \in page[d] : k <= upTo[d] /\ \A j \in k .. upTo[d] : j \in page[d]
        BY <3>2, <2>2, <1>0 DEF PageInOrder
      <4>2. \A k \in page'[d] : k <= upTo[d] /\ \A j \in k .. upTo[d] : j \in page'[d]
        <5>1. \A k \in page'[d] : k \in Nat /\ k > i
          BY <3>2, <2>1, <1>0
        <5> QED BY <4>1, <5>1, <2>1, <1>0
      <4>3. ASSUME NEW j \in 1 .. upTo[d], LostAt(j), j \notin page'[d]
            PROVE  log[j].obj \notin observed'[d]
        <5>1. j \notin page[d]
          BY <4>3, <2>1, <2>2
        <5>2. log[j].obj \notin observed[d]
          BY <3>2, <4>3, <5>1, <2>2, <1>0 DEF PageInOrder
        <5>3. i \in j + 1 .. Len(log)
          BY <4>1, <5>1, <1>0
        <5> QED BY <5>2, <5>3, <4>3, <2>1 DEF LostAt
      <4> QED BY <3>2, <4>2, <4>3, <2>1 DEF PageInOrder, LostAt
    <3> QED BY <3>1, <3>2, <2>2, <1>0
  <2> QED BY <2>3, <2>4 DEF LossInv
<1>4. ASSUME NEW d \in Device, NEW i \in page[d], BeginDownload(d, i)
      PROVE  LossInv(d)'
  <2>1. /\ UNCHANGED <<log, inventory, cursor, page, upTo>>
        /\ phase[d] = "staging" /\ phase'[d] = "downloading" /\ log[i].present
        /\ item'[d] = log[i].obj
        /\ inventory[d] = "captured" \/ \A j \in page[d] : i <= j
        /\ observed'[d] = observed[d] \cup {log[i].obj}
    BY <1>4 DEF BeginDownload, Staging, TypeOK, CycleOK, RemoteOK
  <2>2. Pulling(d) /\ inventory[d] # "none"
    BY <2>1, <1>0 DEF Pulling
  <2>3. ObservesLate(d)' /\ LossKnown(d)' /\ UploadFresh(d)' /\ PageFresh(d)'
    BY <2>1, <2>2, <1>0 DEF ObservesLate, LossKnown, UploadFresh, PageFresh, Pulling, LostAt
  <2>4. PageInOrder(d)'
    <3>1. CASE inventory[d] = "captured"
      BY <3>1, <2>1, <2>2, <1>0 DEF PageInOrder
    <3>2. CASE inventory[d] = "complete"
      <4>1. \A k \in page[d] : k <= upTo[d] /\ \A j \in k .. upTo[d] : j \in page[d]
        BY <3>2, <2>2, <1>0 DEF PageInOrder
      <4>2. ASSUME NEW j \in 1 .. upTo[d], LostAt(j), j \notin page[d]
            PROVE  log[j].obj \notin observed'[d]
        <5>1. log[j].obj \notin observed[d]
          BY <3>2, <4>2, <2>2, <1>0 DEF PageInOrder
        <5>2. i \in j + 1 .. Len(log)
          BY <4>1, <4>2, <1>0
        <5> QED BY <5>1, <5>2, <4>2, <2>1 DEF LostAt
      <4>3. \A j \in page[d] : i <= j
        BY <3>2, <2>1
      <4> QED BY <3>2, <4>1, <4>2, <4>3, <2>1 DEF PageInOrder, LostAt
    <3> QED BY <3>1, <3>2, <2>2, <1>0
  <2> QED BY <2>3, <2>4 DEF LossInv
<1>5. ASSUME NEW d \in Device, NEW i \in page[d], IgnoreRemoval(d, i)
      PROVE  LossInv(d)'
  <2>1. /\ UNCHANGED <<log, inventory, cursor, phase, upTo, observed>>
        /\ phase[d] = "staging" /\ log[i].obj \notin observed[d]
        /\ inventory[d] = "captured" \/ \A j \in page[d] : i <= j
        /\ page'[d] = page[d] \ {i}
    BY <1>5 DEF IgnoreRemoval, Staging, TypeOK, CycleOK
  <2>2. Pulling(d) /\ inventory[d] # "none"
    BY <2>1, <1>0 DEF Pulling
  <2>3. ObservesLate(d)' /\ LossKnown(d)' /\ UploadFresh(d)' /\ PageFresh(d)'
    BY <2>1, <2>2, <1>0 DEF ObservesLate, LossKnown, UploadFresh, PageFresh, Pulling, LostAt
  <2>4. PageInOrder(d)'
    <3>1. CASE inventory[d] = "captured"
      BY <3>1, <2>1, <2>2, <1>0 DEF PageInOrder
    <3>2. CASE inventory[d] = "complete"
      <4>1. \A k \in page[d] : k <= upTo[d] /\ \A j \in k .. upTo[d] : j \in page[d]
        BY <3>2, <2>2, <1>0 DEF PageInOrder
      <4>2. \A k \in page'[d] : k <= upTo[d] /\ \A j \in k .. upTo[d] : j \in page'[d]
        <5>1. \A k \in page'[d] : k \in Nat /\ k > i
          BY <3>2, <2>1, <1>0
        <5> QED BY <4>1, <5>1, <2>1, <1>0
      <4>3. \A j \in 1 .. upTo[d] : LostAt(j) /\ j \notin page'[d] => log[j].obj \notin observed[d]
        BY <3>2, <2>1, <2>2, <1>0 DEF PageInOrder
      <4> QED BY <3>2, <4>2, <4>3, <2>1 DEF PageInOrder, LostAt
    <3> QED BY <3>1, <3>2, <2>2, <1>0
  <2> QED BY <2>3, <2>4 DEF LossInv
<1>6. ASSUME NEW d \in Device, FinishDownload(d)
      PROVE  LossInv(d)'
  <2>1. /\ UNCHANGED <<log, inventory, cursor, observed, upTo>>
        /\ phase[d] = "downloading" /\ phase'[d] = "staging"
        /\ page'[d] = { i \in page[d] : log[i].obj = item[d] =>
                          \E j \in page[d] : j < i /\ log[j].obj = item[d] }
    BY <1>6 DEF FinishDownload, TypeOK, CycleOK
  <2>2. Pulling(d) /\ inventory[d] # "none" /\ page'[d] \subseteq page[d]
    BY <2>1, <1>0 DEF Pulling
  <2>3. ObservesLate(d)' /\ LossKnown(d)' /\ UploadFresh(d)' /\ PageFresh(d)'
    BY <2>1, <2>2, <1>0 DEF ObservesLate, LossKnown, UploadFresh, PageFresh, Pulling, LostAt
  <2>4. PageInOrder(d)'
    <3>1. CASE inventory[d] = "captured"
      BY <3>1, <2>1, <2>2, <1>0 DEF PageInOrder
    <3>2. CASE inventory[d] = "complete"
      <4>1. \A k \in page[d] : k <= upTo[d] /\ \A j \in k .. upTo[d] : j \in page[d]
        BY <3>2, <2>2, <1>0 DEF PageInOrder
      <4>2. PICK i \in page[d] : /\ log[i].obj = item[d] /\ log[i].present
                                 /\ \A j \in page[d] : i <= j
        BY <3>2, <2>1, <2>2, <1>0 DEF PageInOrder
      <4>3. page'[d] = page[d] \ {i}
        <5>1. \A k \in page[d] : k \in Nat /\ (k = i \/ i < k)
          BY <4>2, <1>0
        <5>2. i \notin page'[d]
          BY <4>2, <5>1, <2>1
        <5>3. \A k \in page[d] \ {i} : k \in page'[d]
          BY <4>2, <5>1, <2>1
        <5> QED BY <5>2, <5>3, <2>2
      <4>4. \A k \in page'[d] : k <= upTo[d] /\ \A j \in k .. upTo[d] : j \in page'[d]
        <5>1. \A k \in page'[d] : k \in Nat /\ k > i
          BY <4>2, <4>3, <1>0
        <5> QED BY <4>1, <4>3, <5>1, <1>0
      <4>5. \A j \in 1 .. upTo[d] : LostAt(j) /\ j \notin page'[d] => log[j].obj \notin observed[d]
        BY <3>2, <4>2, <4>3, <2>2, <1>0 DEF PageInOrder, LostAt
      <4> QED BY <3>2, <4>4, <4>5, <2>1 DEF PageInOrder, LostAt
    <3> QED BY <3>1, <3>2, <2>2, <1>0
  <2> QED BY <2>3, <2>4 DEF LossInv
<1>7. ASSUME NEW d \in Device, CommitPage(d)
      PROVE  LossInv(d)'
  <2>1. /\ UNCHANGED <<log, observed>>
        /\ phase[d] = "staging" /\ page[d] = {}
        /\ phase'[d] \in {"listing", "ingesting"}
        /\ inventory'[d] = "complete"
        /\ cursor'[d] = upTo[d]
    BY <1>7 DEF CommitPage, TypeOK, CycleOK, CursorOK
  <2>2. \A j \in 1 .. upTo[d] : LostAt(j) => log[j].obj \notin observed[d]
    BY <2>1, <1>0 DEF Pulling, PageInOrder, LossKnown
  <2> QED BY <2>1, <2>2
      DEF LossInv, ObservesLate, LossKnown, UploadFresh, PageFresh, PageInOrder, Pulling, LostAt
<1>8. ASSUME NEW d \in Device, Upload(d)
      PROVE  LossInv(d)'
  <2>1. /\ UNCHANGED <<inventory, cursor, observed, item>>
        /\ phase[d] = "uploading" /\ phase'[d] = "uploaded"
        /\ Store(item[d]) /\ item[d] \in Object
    BY <1>8 DEF Upload, TypeOK, CycleOK, PhaseOK, Object
  <2>2. \A j \in 1 .. cursor[d] : /\ j \in 1 .. Len(log)
                                  /\ LostAt(j)' => LostAt(j)
                                  /\ log'[j] = log[j]
    BY <1>0, LogGrows
  <2>3. ASSUME NEW j \in 1 .. cursor[d], LostAt(j)'
        PROVE  log[j].obj # item[d]
    <3>1. CASE item[d] \in Stored
      <4>1. PICK i \in 1 .. Len(log) : Current(i) /\ log[i].obj = item[d]
        BY <3>1 DEF Stored
      <4> QED BY <4>1, <2>2, <2>3, LastWord
    <3>2. CASE log' = Append(log, [obj |-> item[d], present |-> TRUE])
      <4>1. /\ Len(log) + 1 \in j + 1 .. Len(log')
            /\ log'[Len(log) + 1].obj = item[d]
        BY <3>2, <2>1, <2>2, EntryLemma DEF TypeOK, ProviderOK
      <4> QED BY <4>1, <2>2, <2>3 DEF LostAt
    <3> QED BY <3>1, <3>2, <2>1 DEF Store, Announce
  <2> QED BY <2>1, <2>2, <2>3, <1>0
      DEF LossInv, ObservesLate, LossKnown, UploadFresh, PageFresh, PageInOrder, Pulling
<1>9. ASSUME NEW d \in Device, CompleteUploadReceipt(d)
      PROVE  LossInv(d)'
  <2>1. /\ UNCHANGED <<log, inventory, cursor>>
        /\ phase[d] = "uploaded" /\ phase'[d] = "receipted"
        /\ observed'[d] = observed[d] \cup {item[d]}
    BY <1>9 DEF CompleteUploadReceipt, TypeOK, CycleOK, RemoteOK
  <2>2. inventory[d] # "none"
    BY <2>1 DEF CursorsOK, PullsFirst
  <2> QED BY <2>1, <2>2, <1>0
      DEF LossInv, ObservesLate, LossKnown, UploadFresh, PageFresh, PageInOrder, Pulling, LostAt
<1>10. ASSUME NEW d \in Device, DeviceStep(d),
              ~PullStep(d), ~Upload(d), ~CompleteUploadReceipt(d)
       PROVE  LossInv(d)'
  BY <1>10, PullQuiet, LossQuiet, LossFrame
<1>11. ASSUME NEW e \in Device, Same(e)
       PROVE  LossInv(e)'
  <2>1. PullKept(e) /\ observed'[e] = observed[e] /\ phase'[e] = phase[e] /\ item'[e] = item[e]
    BY <1>11 DEF Same, SameInbox, SameCursor, SameCycle, PullKept
  <2> QED BY <2>1, LossFrame
<1>12. ASSUME NEW d \in Device, DeviceStep(d)
       PROVE  \A e \in Device : LossInv(e)'
  <2>1. LossInv(d)'
    BY <1>1, <1>2, <1>3, <1>4, <1>5, <1>6, <1>7, <1>8, <1>9, <1>10, <1>12 DEF PullStep
  <2> QED BY <2>1, <1>11, <1>12, OthersSame
<1>13. ASSUME ProviderStep \/ UNCHANGED vars
       PROVE  \A e \in Device : LossInv(e)'
  BY <1>11, <1>13, ProviderSame
<1> QED BY <1>12, <1>13 DEF Next, DeviceStep, ProviderStep, LossesOK

(***************************************************************************)
(* Layer 7, the verdict: what a device that reported convergence has done. *)
(***************************************************************************)
Ingested == {"installing", "installed", "applying", "publishing-blobs",
             "publishing-segments", "uploading", "uploaded", "receipted"}

\* A staged segment is being downloaded, or is there to be ingested; what comes
\* after ingestion finds none.
StagedOK(d) ==
  /\ staged[d] \cap Segment \subseteq downloading[d] \cup downloaded[d]
  /\ phase[d] \in Ingested => staged[d] \cap downloaded[d] \cap Segment = {}
  /\ phase[d] \in Ingested \cup {"ingesting"} => inventory[d] = "complete"

\* inspectPending's findings stand until the next cycle starts.
VerdictOK(d) ==
  converged[d] /\ phase[d] = "idle" =>
    /\ unpublished[d] = {} /\ quarantined[d] = {} /\ staged[d] \cap Segment = {}
    /\ inventory[d] = "complete"
    /\ \A s \in rows[d] : Seqs(s) \subseteq applied[d][s.by]

\* Layer 7, for every device.
VerdictsOK == \A d \in Device : StagedOK(d) /\ VerdictOK(d)

\* A cycle past its ingestion has no segment staged.
LEMMA StagedStep ==
  ASSUME TypeOK, VerdictsOK, NEW d \in Device, DeviceStep(d)
  PROVE  StagedOK(d)'
<1> USE DEF inboxVars, transferVars, cursorVars, workVars, cycleVars
<1>0. StagedOK(d) /\ \A b \in Blob : b \notin Segment
  BY BlobAssumption DEF VerdictsOK
<1>1. ASSUME NEW b \in Blob, VerifyLocalBlob(d, b)
      PROVE  StagedOK(d)'
  BY <1>1, <1>0 DEF VerifyLocalBlob, StagedOK, Ingested, TypeOK, InboxOK, TransferOK, CursorOK, CycleOK, PhaseOK
<1>2. CASE Author(d)
  BY <1>2, <1>0 DEF Author, StagedOK, Ingested, TypeOK, InboxOK, TransferOK, CursorOK, CycleOK, PhaseOK
<1>3. CASE StartCycle(d)
  BY <1>3, <1>0 DEF StartCycle, StagedOK, Ingested, TypeOK, InboxOK, TransferOK, CursorOK, CycleOK, PhaseOK
<1>4. ASSUME NEW last \in 1 .. upTo[d], SealSegment(d, last)
      PROVE  StagedOK(d)'
  BY <1>4, <1>0 DEF SealSegment, StagedOK, Ingested, TypeOK, InboxOK, TransferOK, CursorOK, CycleOK, PhaseOK
<1>5. CASE FinishSealing(d)
  BY <1>5, <1>0 DEF FinishSealing, StagedOK, Ingested, TypeOK, InboxOK, TransferOK, CursorOK, CycleOK, PhaseOK
<1>6. CASE CaptureStartCursor(d)
  BY <1>6, <1>0 DEF CaptureStartCursor, StagedOK, Ingested, TypeOK, InboxOK, TransferOK, CursorOK, CycleOK, PhaseOK
<1>7. CASE List(d)
  BY <1>7, <1>0 DEF List, StagedOK, Ingested, TypeOK, InboxOK, TransferOK, CursorOK, CycleOK, PhaseOK
<1>8. ASSUME NEW i \in page[d], ObserveKnown(d, i)
      PROVE  StagedOK(d)'
  BY <1>8, <1>0 DEF ObserveKnown, Staging, StagedOK, Ingested, TypeOK, InboxOK, TransferOK, CursorOK, CycleOK, PhaseOK
<1>9. ASSUME NEW i \in page[d], BeginDownload(d, i)
      PROVE  StagedOK(d)'
  BY <1>9, <1>0 DEF BeginDownload, Staging, StagedOK, Ingested, TypeOK, InboxOK, TransferOK, CursorOK, CycleOK, PhaseOK
<1>10. ASSUME NEW i \in page[d], IgnoreRemoval(d, i)
      PROVE  StagedOK(d)'
  BY <1>10, <1>0 DEF IgnoreRemoval, Staging, StagedOK, Ingested, TypeOK, InboxOK, TransferOK, CursorOK, CycleOK, PhaseOK
<1>11. ASSUME NEW i \in page[d], RecordRemoval(d, i)
      PROVE  StagedOK(d)'
  BY <1>11, <1>0 DEF RecordRemoval, Staging, AbandonCycle, StagedOK, Ingested, TypeOK, InboxOK, TransferOK, CursorOK, CycleOK, PhaseOK
<1>12. CASE FinishDownload(d)
  BY <1>12, <1>0 DEF FinishDownload, StagedOK, Ingested, TypeOK, InboxOK, TransferOK, CursorOK, CycleOK, PhaseOK
<1>13. CASE DownloadMissing(d)
  BY <1>13, <1>0 DEF DownloadMissing, AbandonCycle, StagedOK, Ingested, TypeOK, InboxOK, TransferOK, CursorOK, CycleOK, PhaseOK
<1>14. CASE CommitPage(d)
  BY <1>14, <1>0 DEF CommitPage, StagedOK, Ingested, TypeOK, InboxOK, TransferOK, CursorOK, CycleOK, PhaseOK
<1>15. ASSUME NEW s \in staged[d], IngestSegment(d, s)
      PROVE  StagedOK(d)'
  BY <1>15, <1>0 DEF IngestSegment, StagedOK, Ingested, TypeOK, InboxOK, TransferOK, CursorOK, CycleOK, PhaseOK
<1>16. CASE FinishSegments(d)
  BY <1>16, <1>0 DEF FinishSegments, StagedOK, Ingested, TypeOK, InboxOK, TransferOK, CursorOK, CycleOK, PhaseOK
<1>17. ASSUME NEW b \in todo[d], SkipBlob(d, b)
      PROVE  StagedOK(d)'
  BY <1>17, <1>0 DEF SkipBlob, Installing, StagedOK, Ingested, TypeOK, InboxOK, TransferOK, CursorOK, CycleOK, PhaseOK
<1>18. ASSUME NEW b \in todo[d], DiscardUndeclared(d, b)
      PROVE  StagedOK(d)'
  BY <1>18, <1>0 DEF DiscardUndeclared, Installing, StagedOK, Ingested, TypeOK, InboxOK, TransferOK, CursorOK, CycleOK, PhaseOK
<1>19. ASSUME NEW b \in todo[d], InstallSources(d, b)
      PROVE  StagedOK(d)'
  BY <1>19, <1>0 DEF InstallSources, Installing, StagedOK, Ingested, TypeOK, InboxOK, TransferOK, CursorOK, CycleOK, PhaseOK
<1>20. ASSUME NEW b \in todo[d], InstallFails(d, b)
      PROVE  StagedOK(d)'
  BY <1>20, <1>0 DEF InstallFails, Installing, StagedOK, Ingested, TypeOK, InboxOK, TransferOK, CursorOK, CycleOK, PhaseOK
<1>21. CASE CommitInstall(d)
  BY <1>21, <1>0 DEF CommitInstall, StagedOK, Ingested, TypeOK, InboxOK, TransferOK, CursorOK, CycleOK, PhaseOK
<1>22. CASE FinishIngest(d)
  BY <1>22, <1>0 DEF FinishIngest, StagedOK, Ingested, TypeOK, InboxOK, TransferOK, CursorOK, CycleOK, PhaseOK
<1>23. ASSUME NEW s \in rows[d], NEW n \in Seqs(s), ApplyChangeSet(d, s, n)
      PROVE  StagedOK(d)'
  BY <1>23, <1>0 DEF ApplyChangeSet, StagedOK, Ingested, TypeOK, InboxOK, TransferOK, CursorOK, CycleOK, PhaseOK
<1>24. CASE FinishApply(d)
  BY <1>24, <1>0 DEF FinishApply, StagedOK, Ingested, TypeOK, InboxOK, TransferOK, CursorOK, CycleOK, PhaseOK
<1>25. ASSUME NEW o \in todo[d], BeginUpload(d, o)
      PROVE  StagedOK(d)'
  BY <1>25, <1>0 DEF BeginUpload, NextToPublish, StagedOK, Ingested, TypeOK, InboxOK, TransferOK, CursorOK, CycleOK, PhaseOK
<1>26. CASE Upload(d)
  BY <1>26, <1>0 DEF Upload, StagedOK, Ingested, TypeOK, InboxOK, TransferOK, CursorOK, CycleOK, PhaseOK
<1>27. CASE CompleteUploadReceipt(d)
  BY <1>27, <1>0 DEF CompleteUploadReceipt, StagedOK, Ingested, TypeOK, InboxOK, TransferOK, CursorOK, CycleOK, PhaseOK
<1>28. CASE CommitPublished(d)
  BY <1>28, <1>0 DEF CommitPublished, StagedOK, Ingested, TypeOK, InboxOK, TransferOK, CursorOK, CycleOK, PhaseOK
<1>29. CASE FinishBlobs(d)
  BY <1>29, <1>0 DEF FinishBlobs, StagedOK, Ingested, TypeOK, InboxOK, TransferOK, CursorOK, CycleOK, PhaseOK
<1>30. CASE FinishCycle(d)
  BY <1>30, <1>0 DEF FinishCycle, StagedOK, Ingested, TypeOK, InboxOK, TransferOK, CursorOK, CycleOK, PhaseOK
<1>31. CASE Interrupt(d)
  BY <1>31, <1>0 DEF Interrupt, AbandonCycle, StagedOK, Ingested, TypeOK, InboxOK, TransferOK, CursorOK, CycleOK, PhaseOK
<1> QED
  BY <1>1, <1>2, <1>3, <1>4, <1>5, <1>6, <1>7, <1>8, <1>9, <1>10,
     <1>11, <1>12, <1>13, <1>14, <1>15, <1>16, <1>17, <1>18, <1>19, <1>20,
     <1>21, <1>22, <1>23, <1>24, <1>25, <1>26, <1>27, <1>28, <1>29, <1>30,
     <1>31
  DEF DeviceStep, Cycle, Prepare, Pull, Stage, Ingest, Apply, Publish

\* An idle device only writes and registers what it writes; another is idle
\* after a step when it gave up its cycle or finished it.
LEMMA IdleStep ==
  ASSUME TypeOK, NEW d \in Device, DeviceStep(d), phase'[d] = "idle", converged'[d]
  PROVE  \/ Author(d) \/ (\E b \in Blob : VerifyLocalBlob(d, b))
         \/ FinishCycle(d)
<1> USE DEF cycleVars, bindingVars, TypeOK, CycleOK, BindingOK
<1>1. CASE Interrupt(d)
  BY <1>1 DEF Interrupt, AbandonCycle
<1>2. CASE Prepare(d)
  BY <1>2 DEF Prepare, StartCycle, SealSegment, FinishSealing
<1>3. CASE Pull(d)
  BY <1>3 DEF Pull, Stage, CaptureStartCursor, List, ObserveKnown, BeginDownload, Staging,
              IgnoreRemoval, RecordRemoval, FinishDownload, DownloadMissing, CommitPage, AbandonCycle
<1>4. CASE Ingest(d)
  BY <1>4 DEF Ingest, IngestSegment, FinishSegments, SkipBlob, DiscardUndeclared,
              InstallSources, InstallFails, CommitInstall, FinishIngest, Installing
<1>5. CASE Apply(d)
  BY <1>5 DEF Apply, ApplyChangeSet, FinishApply
<1>6. CASE Publish(d) /\ ~FinishCycle(d)
  BY <1>6 DEF Publish, BeginUpload, NextToPublish, Upload, CompleteUploadReceipt,
              CommitPublished, FinishBlobs
<1> QED BY <1>1, <1>2, <1>3, <1>4, <1>5, <1>6 DEF DeviceStep, Cycle

\* Only FinishCycle gives the verdict, after finding nothing pending.
LEMMA VerdictStep ==
  ASSUME TypeOK, VerdictsOK, NEW d \in Device, DeviceStep(d)
  PROVE  VerdictOK(d)'
<1> SUFFICES ASSUME phase'[d] = "idle", converged'[d] PROVE VerdictOK(d)'
  BY DEF VerdictOK
<1> USE DEF journalVars, inboxVars, cursorVars, bindingVars, cycleVars
<1>1. CASE Author(d)
  <2>1. UNCHANGED <<unpublished, quarantined, staged, inventory, rows, applied, converged, phase>>
    BY <1>1 DEF Author
  <2> QED BY <2>1 DEF VerdictsOK, VerdictOK
<1>2. ASSUME NEW b \in Blob, VerifyLocalBlob(d, b)
      PROVE  VerdictOK(d)'
  <2>1. /\ UNCHANGED <<unpublished, quarantined, inventory, rows, applied, converged, phase>>
        /\ staged'[d] = staged[d] \ {b}
    BY <1>2 DEF VerifyLocalBlob, TypeOK, InboxOK
  <2> QED BY <2>1 DEF VerdictsOK, VerdictOK
<1>3. CASE FinishCycle(d)
  <2>1. /\ UNCHANGED <<unpublished, quarantined, staged, downloading, downloaded, inventory, rows, applied>>
        /\ phase[d] = "publishing-segments"
        /\ converged'[d] = NothingPending(d)
    BY <1>3 DEF FinishCycle, TypeOK, BindingOK, transferVars
  <2>2. /\ unpublished[d] = {} /\ quarantined[d] = {} /\ downloading[d] = {}
        /\ \A s \in rows[d] : Seqs(s) \subseteq applied[d][s.by]
    BY <2>1 DEF NothingPending
  <2>3. staged[d] \cap Segment = {} /\ inventory[d] = "complete"
    BY <2>1, <2>2 DEF VerdictsOK, StagedOK, Ingested
  <2> QED BY <2>1, <2>2, <2>3 DEF VerdictOK
<1> QED BY <1>1, <1>2, <1>3, IdleStep

\* Every step keeps layer 7.
LEMMA VerdictsStep ==
  ASSUME TypeOK, VerdictsOK, [Next]_vars
  PROVE  VerdictsOK'
<1>1. ASSUME NEW e \in Device, Same(e)
      PROVE  StagedOK(e)' /\ VerdictOK(e)'
  BY <1>1 DEF VerdictsOK, StagedOK, VerdictOK, Same, SameJournal, SameInbox, SameCursor, SameCycle
<1>2. ASSUME NEW d \in Device, DeviceStep(d)
      PROVE  VerdictsOK'
  BY <1>1, <1>2, StagedStep, VerdictStep, OthersSame DEF VerdictsOK
<1>3. ASSUME ProviderStep \/ UNCHANGED vars
      PROVE  VerdictsOK'
  BY <1>1, <1>3, ProviderSame DEF VerdictsOK
<1> QED BY <1>2, <1>3 DEF Next, DeviceStep, ProviderStep

(* The invariant and what follows from it *)

\* Layers 5 to 7, and a last word on every object.
CursorInv == Settled /\ CursorsOK /\ LossesOK /\ VerdictsOK

\* They hold at first.
LEMMA CursorInit == Init => CursorInv
<1> SUFFICES ASSUME Init PROVE CursorInv
  OBVIOUS
<1>1. Settled
  BY DEF Init, Settled
<1>2. CursorsOK
  BY DEF Init, CursorsOK, PullsFirst, CursorDurable, PageDurable, Pulling
<1>3. LossesOK
  BY DEF Init, LossesOK, LossInv, ObservesLate, LossKnown, UploadFresh, PageFresh, PageInOrder, Pulling
<1>4. VerdictsOK
  BY DEF Init, VerdictsOK, StagedOK, VerdictOK, Ingested
<1> QED BY <1>1, <1>2, <1>3, <1>4 DEF CursorInv

(***************************************************************************)
(* The cursor's layers are inductive on top of the journal's.              *)
(***************************************************************************)
LEMMA CursorInvariant == Spec => [](JournalInv /\ CursorInv)
<1>1. TypeOK /\ CursorInv /\ [Next]_vars => CursorInv'
  <2> SUFFICES ASSUME TypeOK, CursorInv, [Next]_vars PROVE CursorInv'
    OBVIOUS
  <2>1. Settled' /\ CursorsOK' /\ VerdictsOK'
    BY SettledStep, CursorsStep, VerdictsStep DEF CursorInv
  <2>2. LossesOK'
    BY <2>1, LossesStep DEF CursorInv
  <2> QED BY <2>1, <2>2 DEF CursorInv
<1>2. JournalInv => TypeOK
  BY DEF JournalInv
<1> QED BY JournalInvariant, CursorInit, <1>1, <1>2, PTL DEF Spec

(***************************************************************************)
(* commitPage never moves the cursor past an announcement whose object is  *)
(* not durable on this device.                                             *)
(***************************************************************************)
THEOREM CursorSkipsNothing == Spec => []CursorNeverSkips
<1>1. CursorInv => CursorNeverSkips
  BY DEF CursorInv, CursorsOK, CursorDurable, Durable, CursorNeverSkips
<1> QED BY CursorInvariant, <1>1, PTL

(***************************************************************************)
(* The cursor never moves past the loss of an object the device observed:  *)
(* until the loss is recorded and the binding blocked, it stays before it. *)
(***************************************************************************)
THEOREM LossesBlock == Spec => []LossBlocks
<1>1. CursorInv => LossBlocks
  BY DEF CursorInv, LossesOK, LossInv, LossKnown, LostAt, LossBlocks
<1> QED BY CursorInvariant, <1>1, PTL

(***************************************************************************)
(* Devices that all report convergence with the cursor at the end of the   *)
(* log have applied the same history: everything every writer authored.    *)
(***************************************************************************)
THEOREM ConvergedAgree == Spec => []ConvergedDevicesAgree
<1>1. ASSUME JournalInv, CursorInv,
             \A d \in Device : /\ converged[d] /\ phase[d] = "idle"
                               /\ cursor[d] = Len(log) /\ authored[d] = SealedTo(d)
      PROVE  \A d, w \in Device : applied[d][w] = 1 .. authored[w]
  <2> SUFFICES ASSUME NEW d \in Device, NEW w \in Device
               PROVE  applied[d][w] = 1 .. authored[w]
    OBVIOUS
  <2>1. CASE d = w
    BY <1>1, <2>1 DEF JournalInv, LanesOK, LaneAuthored
  <2>2. CASE d # w
    <3>1. SealedTo(w) \in Nat /\ SealedTo(w) = authored[w]
      BY <1>1, SealedLemma DEF JournalInv, TypeOK
    <3>2. applied[d][w] \subseteq 1 .. SealedTo(w)
      <4>1. \A n \in applied[d][w] : [by |-> w, seq |-> n] \in SharedSets
        BY <1>1, <2>2 DEF JournalInv, AppliedOK, AppliedFrom
      <4>2. TypeOK /\ OwnLanes /\ Provenance
        BY <1>1 DEF JournalInv
      <4>3. \A n \in applied[d][w] : n \in Nat \ {0} /\ n <= SealedTo(w)
        BY <4>1, <4>2, SharedLemma
      <4> QED BY <4>3, <3>1
    <3>3. ASSUME NEW s \in Lane(w)
          PROVE  Seqs(s) \subseteq applied[d][w]
      <4>1. s \in Announced \cap observed[w]
        BY <1>1 DEF JournalInv, ReceiptsOK, PublishedOK, CursorInv, VerdictsOK, VerdictOK
      <4>2. PICK j \in 1 .. Len(log) : log[j].obj = s
        BY <4>1 DEF Announced
      <4>3. PICK i \in j .. Len(log) : /\ log[i].obj = s
                                       /\ \A k \in i + 1 .. Len(log) : log[k].obj # s
        BY <1>1, <4>2 DEF CursorInv, Settled
      <4>4. i \in 1 .. Len(log)
        BY <4>3
      <4>5. ~LostAt(i)
        BY <1>1, <4>1, <4>3, <4>4 DEF CursorInv, LossesOK, LossInv, LossKnown
      <4>6. Current(i)
        BY <4>3, <4>5 DEF Current, LostAt
      <4>7. s \in Durable(d)
        BY <1>1, <4>3, <4>4, <4>6
        DEF CursorInv, CursorsOK, CursorDurable, VerdictsOK, VerdictOK
      <4>8. s \in Segment /\ s.by = w
        BY <1>1 DEF JournalInv, TypeOK, JournalOK, Lane, Rows
      <4>9. quarantined[d] = {} /\ staged[d] \cap Segment = {}
        BY <1>1 DEF CursorInv, VerdictsOK, VerdictOK
      <4>10. s \in rows[d]
        BY <1>1, <4>7, <4>8, <4>9 DEF Durable, JournalInv, Provenance, RowsOK
      <4> QED BY <1>1, <4>8, <4>10 DEF CursorInv, VerdictsOK, VerdictOK
    <3>4. 1 .. SealedTo(w) \subseteq applied[d][w]
      BY <1>1, <3>3 DEF JournalInv, LanesOK, LaneCut
    <3> QED BY <3>1, <3>2, <3>4
  <2> QED BY <2>1, <2>2
<1>2. JournalInv /\ CursorInv => ConvergedDevicesAgree
  BY <1>1 DEF ConvergedDevicesAgree
<1> QED BY CursorInvariant, <1>2, PTL

=============================================================================
