------------------------- MODULE SyncJournalProofs -------------------------
(***************************************************************************)
(* What SyncEngine keeps true of the journals: who wrote what is shared,   *)
(* how a lane is cut into segments, what a receipt stands for, and what    *)
(* each device has applied.  Every layer is an invariant of its own and    *)
(* rests on the ones before it.                                            *)
(***************************************************************************)
EXTENDS SyncEngineProofs

(* What a step leaves alone *)

\* What one device can do, and what happens at the provider without it.
DeviceStep(d) ==
  \/ Author(d) \/ (\E b \in Blob : VerifyLocalBlob(d, b))
  \/ Cycle(d) \/ Interrupt(d)

\* What happens at the provider without any device.
ProviderStep ==
  (\E o \in inflight : LateUpload(o)) \/ (\E o \in Stored : LoseObject(o))

\* Groups of variables one device owns, unchanged for device e.
SameJournal(e) ==
  /\ authored'[e] = authored[e] /\ rows'[e] = rows[e]
  /\ unpublished'[e] = unpublished[e]
  /\ applied'[e] = applied[e] /\ head'[e] = head[e]

SameInbox(e) ==
  /\ staged'[e] = staged[e] /\ verified'[e] = verified[e]
  /\ quarantined'[e] = quarantined[e]
  /\ downloading'[e] = downloading[e] /\ downloaded'[e] = downloaded[e]
  /\ observed'[e] = observed[e]

SameAssets(e) == blobLocal'[e] = blobLocal[e] /\ blobRemote'[e] = blobRemote[e]

SameCursor(e) ==
  /\ inventory'[e] = inventory[e] /\ cursor'[e] = cursor[e]
  /\ converged'[e] = converged[e]

SameCycle(e) ==
  /\ phase'[e] = phase[e] /\ page'[e] = page[e] /\ todo'[e] = todo[e]
  /\ upTo'[e] = upTo[e] /\ item'[e] = item[e]

\* Nothing a proof below asks of a device has changed.
Same(e) ==
  SameJournal(e) /\ SameInbox(e) /\ SameAssets(e) /\ SameCursor(e) /\ SameCycle(e)

\* Devices share nothing but the provider.
LEMMA OthersSame ==
  ASSUME TypeOK, NEW d \in Device, DeviceStep(d)
  PROVE  \A e \in Device \ {d} : Same(e)
<1> USE DEF TypeOK, providerVars, journalVars, inboxVars, transferVars, remoteVars,
            cursorVars, assetVars, bindingVars, workVars, cycleVars,
            JournalOK, InboxOK, TransferOK, RemoteOK, CursorOK, AssetOK, BindingOK, CycleOK,
            Same, SameJournal, SameInbox, SameAssets, SameCursor, SameCycle
<1>1. ASSUME NEW b \in Blob, VerifyLocalBlob(d, b)
      PROVE  \A e \in Device \ {d} : Same(e)
  BY <1>1 DEF VerifyLocalBlob
<1>2. CASE Author(d)
  BY <1>2 DEF Author
<1>3. CASE StartCycle(d)
  BY <1>3 DEF StartCycle
<1>4. ASSUME NEW last \in 1 .. upTo[d], SealSegment(d, last)
      PROVE  \A e \in Device \ {d} : Same(e)
  BY <1>4 DEF SealSegment
<1>5. CASE FinishSealing(d)
  BY <1>5 DEF FinishSealing
<1>6. CASE CaptureStartCursor(d)
  BY <1>6 DEF CaptureStartCursor
<1>7. CASE List(d)
  BY <1>7 DEF List
<1>8. ASSUME NEW i \in page[d], ObserveKnown(d, i)
      PROVE  \A e \in Device \ {d} : Same(e)
  BY <1>8 DEF ObserveKnown, Staging
<1>9. ASSUME NEW i \in page[d], BeginDownload(d, i)
      PROVE  \A e \in Device \ {d} : Same(e)
  BY <1>9 DEF BeginDownload, Staging
<1>10. ASSUME NEW i \in page[d], IgnoreRemoval(d, i)
      PROVE  \A e \in Device \ {d} : Same(e)
  BY <1>10 DEF IgnoreRemoval, Staging
<1>11. ASSUME NEW i \in page[d], RecordRemoval(d, i)
      PROVE  \A e \in Device \ {d} : Same(e)
  BY <1>11 DEF RecordRemoval, Staging, AbandonCycle
<1>12. CASE FinishDownload(d)
  BY <1>12 DEF FinishDownload
<1>13. CASE DownloadMissing(d)
  BY <1>13 DEF DownloadMissing, AbandonCycle
<1>14. CASE CommitPage(d)
  BY <1>14 DEF CommitPage
<1>15. ASSUME NEW s \in staged[d], IngestSegment(d, s)
      PROVE  \A e \in Device \ {d} : Same(e)
  BY <1>15 DEF IngestSegment
<1>16. CASE FinishSegments(d)
  BY <1>16 DEF FinishSegments
<1>17. ASSUME NEW b \in todo[d], SkipBlob(d, b)
      PROVE  \A e \in Device \ {d} : Same(e)
  BY <1>17 DEF SkipBlob, Installing
<1>18. ASSUME NEW b \in todo[d], DiscardUndeclared(d, b)
      PROVE  \A e \in Device \ {d} : Same(e)
  BY <1>18 DEF DiscardUndeclared, Installing
<1>19. ASSUME NEW b \in todo[d], InstallSources(d, b)
      PROVE  \A e \in Device \ {d} : Same(e)
  BY <1>19 DEF InstallSources, Installing
<1>20. ASSUME NEW b \in todo[d], InstallFails(d, b)
      PROVE  \A e \in Device \ {d} : Same(e)
  BY <1>20 DEF InstallFails, Installing
<1>21. CASE CommitInstall(d)
  BY <1>21 DEF CommitInstall
<1>22. CASE FinishIngest(d)
  BY <1>22 DEF FinishIngest
<1>23. ASSUME NEW s \in rows[d], NEW n \in Seqs(s), ApplyChangeSet(d, s, n)
      PROVE  \A e \in Device \ {d} : Same(e)
  BY <1>23, SegmentLemma DEF ApplyChangeSet
<1>24. CASE FinishApply(d)
  BY <1>24 DEF FinishApply
<1>25. ASSUME NEW o \in todo[d], BeginUpload(d, o)
      PROVE  \A e \in Device \ {d} : Same(e)
  BY <1>25 DEF BeginUpload, NextToPublish
<1>26. CASE Upload(d)
  BY <1>26 DEF Upload
<1>27. CASE CompleteUploadReceipt(d)
  BY <1>27 DEF CompleteUploadReceipt
<1>28. CASE CommitPublished(d)
  BY <1>28 DEF CommitPublished
<1>29. CASE FinishBlobs(d)
  BY <1>29 DEF FinishBlobs
<1>30. CASE FinishCycle(d)
  BY <1>30 DEF FinishCycle
<1>31. CASE Interrupt(d)
  BY <1>31 DEF Interrupt, AbandonCycle
<1> QED
  BY <1>1, <1>2, <1>3, <1>4, <1>5, <1>6, <1>7, <1>8, <1>9, <1>10, <1>11, <1>12, <1>13, <1>14, <1>15, <1>16, <1>17, <1>18, <1>19, <1>20, <1>21, <1>22, <1>23, <1>24, <1>25, <1>26, <1>27, <1>28, <1>29, <1>30, <1>31
  DEF DeviceStep, Cycle, Prepare, Pull, Stage, Ingest, Apply, Publish

\* The provider changes no device.
LEMMA ProviderSame ==
  ASSUME ProviderStep \/ UNCHANGED vars
  PROVE  \A e \in Device : Same(e)
BY DEF ProviderStep, LateUpload, LoseObject, vars, journalVars, inboxVars, transferVars,
       remoteVars, cursorVars, assetVars, bindingVars, workVars, cycleVars,
       Same, SameJournal, SameInbox, SameAssets, SameCursor, SameCycle

\* Only an interrupted upload stays in the network.
LEMMA InflightSame ==
  ASSUME NEW d \in Device, DeviceStep(d)
  PROVE  Interrupt(d) \/ inflight' = inflight
<1> USE DEF providerVars
<1>1. CASE Author(d) \/ (\E b \in Blob : VerifyLocalBlob(d, b))
  BY <1>1 DEF Author, VerifyLocalBlob
<1>2. CASE Prepare(d)
  BY <1>2 DEF Prepare, StartCycle, SealSegment, FinishSealing
<1>3. CASE Pull(d)
  BY <1>3 DEF Pull, Stage, CaptureStartCursor, List, ObserveKnown, BeginDownload,
              IgnoreRemoval, RecordRemoval, FinishDownload, DownloadMissing, CommitPage
<1>4. CASE Ingest(d)
  BY <1>4 DEF Ingest, IngestSegment, FinishSegments, SkipBlob, DiscardUndeclared,
              InstallSources, InstallFails, CommitInstall, FinishIngest
<1>5. CASE Apply(d)
  BY <1>5 DEF Apply, ApplyChangeSet, FinishApply
<1>6. CASE Publish(d)
  BY <1>6 DEF Publish, BeginUpload, Upload, CompleteUploadReceipt, CommitPublished,
              FinishBlobs, FinishCycle
<1> QED BY <1>1, <1>2, <1>3, <1>4, <1>5, <1>6 DEF DeviceStep, Cycle

(* The provider's log *)

\* Entry j of the log is the last word on its object, and says it is lost.
LostAt(j) ==
  /\ ~log[j].present
  /\ \A k \in j + 1 .. Len(log) : log[k].obj # log[j].obj

\* Actions that announce nothing.
LEMMA LogSame ==
  ASSUME NEW d \in Device, DeviceStep(d), ~Upload(d)
  PROVE  log' = log
<1> USE DEF providerVars
<1>1. CASE Author(d) \/ (\E b \in Blob : VerifyLocalBlob(d, b)) \/ Interrupt(d)
  BY <1>1 DEF Author, VerifyLocalBlob, Interrupt
<1>2. CASE Prepare(d)
  BY <1>2 DEF Prepare, StartCycle, SealSegment, FinishSealing
<1>3. CASE Pull(d)
  BY <1>3 DEF Pull, Stage, CaptureStartCursor, List, ObserveKnown, BeginDownload,
              IgnoreRemoval, RecordRemoval, FinishDownload, DownloadMissing, CommitPage
<1>4. CASE Ingest(d)
  BY <1>4 DEF Ingest, IngestSegment, FinishSegments, SkipBlob, DiscardUndeclared,
              InstallSources, InstallFails, CommitInstall, FinishIngest
<1>5. CASE Apply(d)
  BY <1>5 DEF Apply, ApplyChangeSet, FinishApply
<1>6. CASE Publish(d)
  BY <1>6 DEF Publish, BeginUpload, CompleteUploadReceipt, CommitPublished,
              FinishBlobs, FinishCycle
<1> QED BY <1>1, <1>2, <1>3, <1>4, <1>5, <1>6 DEF DeviceStep, Cycle

\* An upload tells of an object its device or the network holds, a loss of one
\* that is stored.
LEMMA LogStep ==
  ASSUME TypeOK, [Next]_vars
  PROVE  \/ log' = log
         \/ \E o \in Object : /\ log' = Append(log, [obj |-> o, present |-> TRUE])
                              /\ \/ o \in inflight
                                 \/ \E d \in Device : phase[d] = "uploading" /\ o = item[d]
         \/ \E o \in Stored \cap Object : log' = Append(log, [obj |-> o, present |-> FALSE])
<1>1. ASSUME NEW d \in Device, Upload(d)
      PROVE  \/ log' = log
             \/ /\ log' = Append(log, [obj |-> item[d], present |-> TRUE])
                /\ item[d] \in Object /\ phase[d] = "uploading"
  <2>1. item[d] \in Object
    BY <1>1 DEF Upload, TypeOK, PhaseOK, Object
  <2> QED BY <1>1, <2>1 DEF Upload, Store, Announce
<1>2. ASSUME NEW o \in inflight, LateUpload(o)
      PROVE  log' = log \/ (log' = Append(log, [obj |-> o, present |-> TRUE]) /\ o \in Object)
  BY <1>2 DEF LateUpload, Store, Announce, TypeOK, ProviderOK
<1>3. ASSUME NEW o \in Stored, LoseObject(o)
      PROVE  log' = Append(log, [obj |-> o, present |-> FALSE]) /\ o \in Object
  <2>1. o \in Object
    BY LogLemma DEF Stored, TypeOK
  <2> QED BY <1>3, <2>1 DEF LoseObject, Announce
<1>4. CASE UNCHANGED vars
  BY <1>4 DEF vars, providerVars
<1>5. ASSUME NEW d \in Device, DeviceStep(d)
      PROVE  log' = log \/ Upload(d)
  BY <1>5, LogSame
<1> QED
  <2>1. CASE \E d \in Device : DeviceStep(d)
    BY <2>1, <1>1, <1>5
  <2>2. CASE ProviderStep
    BY <2>2, <1>2, <1>3 DEF ProviderStep
  <2> QED BY <2>1, <2>2, <1>4 DEF Next, DeviceStep, ProviderStep

(***************************************************************************)
(* What was announced stays announced; an announcement that was overtaken  *)
(* stays overtaken.                                                        *)
(***************************************************************************)
LEMMA LogGrows ==
  ASSUME TypeOK, [Next]_vars
  PROVE  /\ Len(log) \in Nat /\ Len(log') \in Nat /\ Len(log) <= Len(log')
         /\ Announced \subseteq Announced'
         /\ \A i \in 1 .. Len(log) : /\ log'[i] = log[i]
                                     /\ Current(i)' => Current(i)
                                     /\ LostAt(i)' => LostAt(i)
<1>1. log' = log \/ \E e \in Entry : log' = Append(log, e)
  BY LogStep, EntryLemma
<1>2. /\ log \in Seq(Entry) /\ log' \in Seq(Entry)
      /\ Len(log) <= Len(log')
      /\ \A i \in 1 .. Len(log) : log'[i] = log[i]
  BY <1>1, AppendLemma DEF TypeOK, ProviderOK
<1>3. Len(log) \in Nat /\ Len(log') \in Nat
  BY <1>2
<1>4. 1 .. Len(log) \subseteq 1 .. Len(log')
  BY <1>2, <1>3
<1>5. Announced \subseteq Announced'
  BY <1>2, <1>4 DEF Announced
<1>6. ASSUME NEW i \in 1 .. Len(log)
      PROVE  (Current(i)' => Current(i)) /\ (LostAt(i)' => LostAt(i))
  <2>1. \A k \in i + 1 .. Len(log) : k \in i + 1 .. Len(log') /\ log'[k] = log[k]
    BY <1>2, <1>3
  <2>2. log'[i] = log[i]
    BY <1>2
  <2> QED BY <2>1, <2>2 DEF Current, LostAt
<1> QED BY <1>2, <1>3, <1>5, <1>6

\* What a step newly announces was uploaded.
LEMMA NewlyAnnounced ==
  ASSUME TypeOK, [Next]_vars, NEW o \in Announced'
  PROVE  \/ o \in Announced
         \/ o \in inflight
         \/ \E d \in Device : phase[d] = "uploading" /\ o = item[d]
<1>1. PICK i \in 1 .. Len(log') : log'[i].present /\ o = log'[i].obj
  BY DEF Announced
<1>2. log \in Seq(Entry) /\ Len(log) \in Nat
  BY DEF TypeOK, ProviderOK
<1>3. CASE i \in 1 .. Len(log)
  <2>1. log'[i] = log[i]
    BY <1>3, LogGrows
  <2> QED BY <1>1, <1>3, <2>1 DEF Announced
<1>4. ASSUME NEW e \in Entry, log' = Append(log, e), i \notin 1 .. Len(log)
      PROVE  log'[i] = e
  BY <1>1, <1>2, <1>4
<1>5. CASE i \notin 1 .. Len(log)
  <2>1. log' # log
    BY <1>1, <1>5
  <2>2. ASSUME NEW u \in Object, log' = Append(log, [obj |-> u, present |-> TRUE])
        PROVE  o = u
    BY <2>2, <1>1, <1>4, <1>5, EntryLemma
  <2>3. ASSUME NEW u \in Object, log' = Append(log, [obj |-> u, present |-> FALSE])
        PROVE  FALSE
    BY <2>3, <1>1, <1>4, <1>5, EntryLemma
  <2> QED BY <2>1, <2>2, <2>3, LogStep
<1> QED BY <1>3, <1>5

(***************************************************************************)
(* The last word on an object: what a log says of it is never undecided.   *)
(***************************************************************************)
Settled ==
  \A j \in 1 .. Len(log) : \E i \in j .. Len(log) :
    /\ log[i].obj = log[j].obj
    /\ \A k \in i + 1 .. Len(log) : log[k].obj # log[j].obj

\* Appending to the log leaves a last word on every object.
LEMMA SettledStep ==
  ASSUME TypeOK, Settled, [Next]_vars
  PROVE  Settled'
<1>1. log' = log \/ \E e \in Entry : log' = Append(log, e)
  BY LogStep, EntryLemma
<1>2. CASE log' = log
  BY <1>2 DEF Settled
<1>3. ASSUME NEW e \in Entry, log' = Append(log, e)
      PROVE  Settled'
  <2>1. /\ Len(log) \in Nat /\ Len(log') = Len(log) + 1
        /\ \A i \in 1 .. Len(log) : log'[i] = log[i]
        /\ log'[Len(log) + 1] = e
    BY <1>3 DEF TypeOK, ProviderOK
  <2> SUFFICES ASSUME NEW j \in 1 .. Len(log')
               PROVE  \E i \in j .. Len(log') :
                        /\ log'[i].obj = log'[j].obj
                        /\ \A k \in i + 1 .. Len(log') : log'[k].obj # log'[j].obj
    BY DEF Settled
  <2>2. CASE e.obj = log'[j].obj
    <3>1. Len(log) + 1 \in j .. Len(log') /\ Len(log) + 1 + 1 .. Len(log') = {}
      BY <2>1
    <3> QED BY <3>1, <2>1, <2>2
  <2>3. CASE e.obj # log'[j].obj
    <3>1. j \in 1 .. Len(log) /\ log'[j] = log[j]
      BY <2>1, <2>3
    <3>2. PICK i \in j .. Len(log) : /\ log[i].obj = log[j].obj
                                     /\ \A k \in i + 1 .. Len(log) : log[k].obj # log[j].obj
      BY <3>1 DEF Settled
    <3>3. i \in j .. Len(log') /\ i \in 1 .. Len(log)
      BY <2>1, <3>1
    <3>4. \A k \in i + 1 .. Len(log') : k = Len(log) + 1 \/ k \in (i + 1 .. Len(log)) \cap (1 .. Len(log))
      BY <2>1, <3>3
    <3> QED BY <3>1, <3>2, <3>3, <3>4, <2>1, <2>3
  <2> QED BY <2>2, <2>3
<1> QED BY <1>1, <1>2, <1>3

(* Lanes *)

\* The segments a writer has sealed.
Lane(w) == Rows(w, w)

\* No step removes a segment row: a lane only grows.
LEMMA RowsGrow ==
  ASSUME TypeOK, OwnLanes, [Next]_vars, NEW d \in Device
  PROVE  rows[d] \subseteq rows'[d] /\ Lane(d) \subseteq Lane(d)'
BY RowsStep DEF TypeOK, JournalOK, Lane, Rows

\* Nothing is sent into the network but what an upload was sending.
LEMMA NewlyShared ==
  ASSUME TypeOK, [Next]_vars, NEW o \in (Announced \cup inflight)'
  PROVE  \/ o \in Announced \cup inflight
         \/ \E d \in Device : phase[d] = "uploading" /\ o = item[d]
<1>1. ASSUME o \in inflight'
      PROVE  o \in inflight \/ \E d \in Device : phase[d] = "uploading" /\ o = item[d]
  <2>1. ASSUME NEW d \in Device, Interrupt(d)
        PROVE  o \in inflight \/ (phase[d] = "uploading" /\ o = item[d])
    BY <1>1, <2>1 DEF Interrupt
  <2>2. ASSUME NEW u, LateUpload(u) \/ LoseObject(u)
        PROVE  o \in inflight
    BY <1>1, <2>2 DEF LateUpload, LoseObject
  <2>3. ASSUME NEW d \in Device, DeviceStep(d)
        PROVE  Interrupt(d) \/ inflight' = inflight
    BY <2>3, InflightSame
  <2>4. CASE UNCHANGED vars
    BY <1>1, <2>4 DEF vars, providerVars
  <2> QED BY <1>1, <2>1, <2>2, <2>3, <2>4 DEF Next, DeviceStep
<1> QED BY <1>1, NewlyAnnounced

(***************************************************************************)
(* Layer 1, provenance: what is shared was sealed by its writer, and what  *)
(* a device holds of others was shared.                                    *)
(***************************************************************************)
Authentic == \A s \in (Announced \cup inflight) \cap Segment : s \in Lane(s.by)

\* sync_segment: the rows are the verified segments, sealed here or shared.
RowsOK(d) ==
  /\ verified[d] \cap Segment = rows[d]
  /\ \A s \in rows[d] : s.by = d \/ s \in Announced
  /\ unpublished[d] \subseteq Lane(d)

\* The inbox: a device downloads what others shared and it has not verified.
InboxForeign(d) ==
  /\ \A s \in (staged[d] \cup downloading[d] \cup downloaded[d]) \cap Segment :
       s.by # d /\ s \in Announced
  /\ phase[d] = "downloading" /\ item[d] \in Segment =>
       item[d].by # d /\ item[d] \in Announced /\ item[d] \notin verified[d]

\* A device uploads what it sealed.
OutgoingOwn(d) ==
  /\ phase[d] \in {"publishing-segments", "uploading", "uploaded", "receipted"} =>
       todo[d] \cap Segment \subseteq Lane(d)
  /\ phase[d] \in {"uploading", "uploaded", "receipted"} /\ item[d] \in Segment =>
       item[d] \in Lane(d)

\* Layer 1: every segment anywhere was sealed by the writer it names.
Provenance ==
  Authentic /\ \A d \in Device : RowsOK(d) /\ InboxForeign(d) /\ OutgoingOwn(d)

\* What is announced or in flight is still what its writer sealed.
LEMMA AuthenticStep ==
  ASSUME TypeOK, OwnLanes, Provenance, [Next]_vars
  PROVE  Authentic'
<1>1. ASSUME NEW s \in (Announced \cup inflight)' \cap Segment
      PROVE  \/ s \in (Announced \cup inflight) \cap Segment
             \/ \E d \in Device : phase[d] = "uploading" /\ s = item[d]
  BY NewlyShared
<1>2. ASSUME NEW s \in Segment, NEW d \in Device, phase[d] = "uploading", s = item[d]
      PROVE  s \in Lane(s.by)
  <2>1. s \in Lane(d)
    BY <1>2 DEF Provenance, OutgoingOwn
  <2> QED BY <2>1 DEF Lane, Rows
<1>3. \A s \in Segment : s.by \in Device /\ Lane(s.by) \subseteq Lane(s.by)'
  BY RowsGrow DEF Segment
<1> QED BY <1>1, <1>2, <1>3 DEF Authentic, Provenance

\* Every step keeps layer 1.
LEMMA ProvenanceStep ==
  ASSUME TypeOK, OwnLanes, Provenance, [Next]_vars
  PROVE  Provenance'
<1> USE DEF journalVars, inboxVars, transferVars, workVars, cycleVars
<1>0. /\ Authentic' /\ Announced \subseteq Announced'
      /\ \A d \in Device : Lane(d) \subseteq Lane(d)'
      /\ \A d \in Device : RowsOK(d) /\ InboxForeign(d) /\ OutgoingOwn(d)
      /\ \A b \in Blob : b \notin Segment
  BY AuthenticStep, LogGrows, RowsGrow, BlobAssumption DEF Provenance
<1>1. ASSUME NEW d \in Device, NEW b \in Blob, VerifyLocalBlob(d, b)
      PROVE  RowsOK(d)' /\ InboxForeign(d)' /\ OutgoingOwn(d)'
  <2>1. UNCHANGED <<rows, unpublished, downloading, downloaded, phase, todo, item>>
    BY <1>1 DEF VerifyLocalBlob
  <2>2. /\ verified'[d] = verified[d] \cup {b}
        /\ staged'[d] = staged[d] \ {b}
    BY <1>1 DEF VerifyLocalBlob, TypeOK, InboxOK
  <2>3. b \notin Segment
    BY <1>0
  <2> QED BY <2>1, <2>2, <2>3, <1>0 DEF RowsOK, InboxForeign, OutgoingOwn
<1>2. ASSUME NEW d \in Device, Author(d)
      PROVE  RowsOK(d)' /\ InboxForeign(d)' /\ OutgoingOwn(d)'
  BY <1>2, <1>0 DEF Author, RowsOK, InboxForeign, OutgoingOwn, TypeOK, JournalOK, InboxOK, TransferOK, CycleOK, PhaseOK
<1>3. ASSUME NEW d \in Device, StartCycle(d)
      PROVE  RowsOK(d)' /\ InboxForeign(d)' /\ OutgoingOwn(d)'
  BY <1>3, <1>0 DEF StartCycle, RowsOK, InboxForeign, OutgoingOwn, TypeOK, JournalOK, InboxOK, TransferOK, CycleOK, PhaseOK
<1>4. ASSUME NEW d \in Device, NEW last \in 1 .. upTo[d], SealSegment(d, last)
      PROVE  RowsOK(d)' /\ InboxForeign(d)' /\ OutgoingOwn(d)'
  <2> DEFINE s == [by |-> d, first |-> SealedTo(d) + 1, last |-> last, prev |-> SealedHash(d)]
  <2>1. last \in Nat /\ last > SealedTo(d)
    BY <1>4, SealedLemma DEF SealSegment, TypeOK, CycleOK
  <2>2. s \in Segment /\ s.by = d
    BY <2>1, SealLemma DEF TypeOK
  <2>3. /\ rows'[d] = rows[d] \cup {s}
        /\ unpublished'[d] = unpublished[d] \cup {s}
        /\ verified'[d] = verified[d] \cup {s}
        /\ UNCHANGED <<staged, downloading, downloaded, phase, todo, item>>
        /\ phase[d] = "sealing"
    BY <1>4 DEF SealSegment, TypeOK, JournalOK, InboxOK
  <2> HIDE DEF s
  <2>4. s \in Lane(d)'
    BY <2>2, <2>3 DEF Lane, Rows
  <2>5. RowsOK(d)'
    BY <2>2, <2>3, <2>4, <1>0 DEF RowsOK
  <2> QED BY <2>3, <2>5, <1>0 DEF InboxForeign, OutgoingOwn
<1>5. ASSUME NEW d \in Device, FinishSealing(d)
      PROVE  RowsOK(d)' /\ InboxForeign(d)' /\ OutgoingOwn(d)'
  BY <1>5, <1>0 DEF FinishSealing, RowsOK, InboxForeign, OutgoingOwn, TypeOK, JournalOK, InboxOK, TransferOK, CycleOK, PhaseOK
<1>6. ASSUME NEW d \in Device, CaptureStartCursor(d)
      PROVE  RowsOK(d)' /\ InboxForeign(d)' /\ OutgoingOwn(d)'
  BY <1>6, <1>0 DEF CaptureStartCursor, RowsOK, InboxForeign, OutgoingOwn, TypeOK, JournalOK, InboxOK, TransferOK, CycleOK, PhaseOK
<1>7. ASSUME NEW d \in Device, List(d)
      PROVE  RowsOK(d)' /\ InboxForeign(d)' /\ OutgoingOwn(d)'
  BY <1>7, <1>0 DEF List, RowsOK, InboxForeign, OutgoingOwn, TypeOK, JournalOK, InboxOK, TransferOK, CycleOK, PhaseOK
<1>8. ASSUME NEW d \in Device, NEW i \in page[d], ObserveKnown(d, i)
      PROVE  RowsOK(d)' /\ InboxForeign(d)' /\ OutgoingOwn(d)'
  BY <1>8, <1>0 DEF ObserveKnown, Staging, RowsOK, InboxForeign, OutgoingOwn, TypeOK, JournalOK, InboxOK, TransferOK, CycleOK, PhaseOK
<1>9. ASSUME NEW d \in Device, NEW i \in page[d], BeginDownload(d, i)
      PROVE  RowsOK(d)' /\ InboxForeign(d)' /\ OutgoingOwn(d)'
  <2> DEFINE o == log[i].obj
  <2>1. /\ o \notin verified[d]
        /\ UNCHANGED <<rows, unpublished, verified, todo>>
        /\ staged'[d] = staged[d] \cup {o}
        /\ downloading'[d] = downloading[d] \cup {o}
        /\ downloaded'[d] = downloaded[d] \ {o}
        /\ phase'[d] = "downloading" /\ item'[d] = o
    BY <1>9 DEF BeginDownload, TypeOK, InboxOK, TransferOK, CycleOK
  <2>2. o \in Announced
    <3>1. i \in 1 .. Len(log) /\ log[i].present
      BY <1>9 DEF BeginDownload, Staging, TypeOK, PhaseOK
    <3> QED BY <3>1 DEF Announced
  <2>3. o \in Segment => o.by # d
    <3>1. o \in Segment => o \in Lane(o.by)
      BY <2>2 DEF Provenance, Authentic
    <3> QED BY <3>1, <2>1, <1>0 DEF Lane, Rows, RowsOK
  <2> HIDE DEF o
  <2> QED BY <2>1, <2>2, <2>3, <1>0 DEF RowsOK, InboxForeign, OutgoingOwn
<1>10. ASSUME NEW d \in Device, NEW i \in page[d], IgnoreRemoval(d, i)
      PROVE  RowsOK(d)' /\ InboxForeign(d)' /\ OutgoingOwn(d)'
  BY <1>10, <1>0 DEF IgnoreRemoval, Staging, RowsOK, InboxForeign, OutgoingOwn, TypeOK, JournalOK, InboxOK, TransferOK, CycleOK, PhaseOK
<1>11. ASSUME NEW d \in Device, NEW i \in page[d], RecordRemoval(d, i)
      PROVE  RowsOK(d)' /\ InboxForeign(d)' /\ OutgoingOwn(d)'
  BY <1>11, <1>0 DEF RecordRemoval, Staging, AbandonCycle, RowsOK, InboxForeign, OutgoingOwn, TypeOK, JournalOK, InboxOK, TransferOK, CycleOK, PhaseOK
<1>12. ASSUME NEW d \in Device, FinishDownload(d)
      PROVE  RowsOK(d)' /\ InboxForeign(d)' /\ OutgoingOwn(d)'
  BY <1>12, <1>0 DEF FinishDownload, RowsOK, InboxForeign, OutgoingOwn, TypeOK, JournalOK, InboxOK, TransferOK, CycleOK, PhaseOK
<1>13. ASSUME NEW d \in Device, DownloadMissing(d)
      PROVE  RowsOK(d)' /\ InboxForeign(d)' /\ OutgoingOwn(d)'
  BY <1>13, <1>0 DEF DownloadMissing, AbandonCycle, RowsOK, InboxForeign, OutgoingOwn, TypeOK, JournalOK, InboxOK, TransferOK, CycleOK, PhaseOK
<1>14. ASSUME NEW d \in Device, CommitPage(d)
      PROVE  RowsOK(d)' /\ InboxForeign(d)' /\ OutgoingOwn(d)'
  BY <1>14, <1>0 DEF CommitPage, RowsOK, InboxForeign, OutgoingOwn, TypeOK, JournalOK, InboxOK, TransferOK, CycleOK, PhaseOK
<1>15. ASSUME NEW d \in Device, NEW s \in staged[d], IngestSegment(d, s)
      PROVE  RowsOK(d)' /\ InboxForeign(d)' /\ OutgoingOwn(d)'
  BY <1>15, <1>0 DEF IngestSegment, RowsOK, InboxForeign, OutgoingOwn, TypeOK, JournalOK, InboxOK, TransferOK, CycleOK, PhaseOK
<1>16. ASSUME NEW d \in Device, FinishSegments(d)
      PROVE  RowsOK(d)' /\ InboxForeign(d)' /\ OutgoingOwn(d)'
  BY <1>16, <1>0 DEF FinishSegments, RowsOK, InboxForeign, OutgoingOwn, TypeOK, JournalOK, InboxOK, TransferOK, CycleOK, PhaseOK
<1>17. ASSUME NEW d \in Device, NEW b \in todo[d], SkipBlob(d, b)
      PROVE  RowsOK(d)' /\ InboxForeign(d)' /\ OutgoingOwn(d)'
  BY <1>17, <1>0 DEF SkipBlob, Installing, RowsOK, InboxForeign, OutgoingOwn, TypeOK, JournalOK, InboxOK, TransferOK, CycleOK, PhaseOK
<1>18. ASSUME NEW d \in Device, NEW b \in todo[d], DiscardUndeclared(d, b)
      PROVE  RowsOK(d)' /\ InboxForeign(d)' /\ OutgoingOwn(d)'
  BY <1>18, <1>0 DEF DiscardUndeclared, Installing, RowsOK, InboxForeign, OutgoingOwn, TypeOK, JournalOK, InboxOK, TransferOK, CycleOK, PhaseOK
<1>19. ASSUME NEW d \in Device, NEW b \in todo[d], InstallSources(d, b)
      PROVE  RowsOK(d)' /\ InboxForeign(d)' /\ OutgoingOwn(d)'
  BY <1>19, <1>0 DEF InstallSources, Installing, RowsOK, InboxForeign, OutgoingOwn, TypeOK, JournalOK, InboxOK, TransferOK, CycleOK, PhaseOK
<1>20. ASSUME NEW d \in Device, NEW b \in todo[d], InstallFails(d, b)
      PROVE  RowsOK(d)' /\ InboxForeign(d)' /\ OutgoingOwn(d)'
  BY <1>20, <1>0 DEF InstallFails, Installing, RowsOK, InboxForeign, OutgoingOwn, TypeOK, JournalOK, InboxOK, TransferOK, CycleOK, PhaseOK
<1>21. ASSUME NEW d \in Device, CommitInstall(d)
      PROVE  RowsOK(d)' /\ InboxForeign(d)' /\ OutgoingOwn(d)'
  BY <1>21, <1>0 DEF CommitInstall, RowsOK, InboxForeign, OutgoingOwn, TypeOK, JournalOK, InboxOK, TransferOK, CycleOK, PhaseOK
<1>22. ASSUME NEW d \in Device, FinishIngest(d)
      PROVE  RowsOK(d)' /\ InboxForeign(d)' /\ OutgoingOwn(d)'
  BY <1>22, <1>0 DEF FinishIngest, RowsOK, InboxForeign, OutgoingOwn, TypeOK, JournalOK, InboxOK, TransferOK, CycleOK, PhaseOK
<1>23. ASSUME NEW d \in Device, NEW s \in rows[d], NEW n \in Seqs(s), ApplyChangeSet(d, s, n)
      PROVE  RowsOK(d)' /\ InboxForeign(d)' /\ OutgoingOwn(d)'
  BY <1>23, <1>0 DEF ApplyChangeSet, RowsOK, InboxForeign, OutgoingOwn, TypeOK, JournalOK, InboxOK, TransferOK, CycleOK, PhaseOK
<1>24. ASSUME NEW d \in Device, FinishApply(d)
      PROVE  RowsOK(d)' /\ InboxForeign(d)' /\ OutgoingOwn(d)'
  BY <1>24, <1>0 DEF FinishApply, RowsOK, InboxForeign, OutgoingOwn, TypeOK, JournalOK, InboxOK, TransferOK, CycleOK, PhaseOK
<1>25. ASSUME NEW d \in Device, NEW o \in todo[d], BeginUpload(d, o)
      PROVE  RowsOK(d)' /\ InboxForeign(d)' /\ OutgoingOwn(d)'
  BY <1>25, <1>0 DEF BeginUpload, NextToPublish, RowsOK, InboxForeign, OutgoingOwn, TypeOK, JournalOK, InboxOK, TransferOK, CycleOK, PhaseOK
<1>26. ASSUME NEW d \in Device, Upload(d)
      PROVE  RowsOK(d)' /\ InboxForeign(d)' /\ OutgoingOwn(d)'
  BY <1>26, <1>0 DEF Upload, RowsOK, InboxForeign, OutgoingOwn, TypeOK, JournalOK, InboxOK, TransferOK, CycleOK, PhaseOK
<1>27. ASSUME NEW d \in Device, CompleteUploadReceipt(d)
      PROVE  RowsOK(d)' /\ InboxForeign(d)' /\ OutgoingOwn(d)'
  BY <1>27, <1>0 DEF CompleteUploadReceipt, RowsOK, InboxForeign, OutgoingOwn, TypeOK, JournalOK, InboxOK, TransferOK, CycleOK, PhaseOK
<1>28. ASSUME NEW d \in Device, CommitPublished(d)
      PROVE  RowsOK(d)' /\ InboxForeign(d)' /\ OutgoingOwn(d)'
  BY <1>28, <1>0 DEF CommitPublished, RowsOK, InboxForeign, OutgoingOwn, TypeOK, JournalOK, InboxOK, TransferOK, CycleOK, PhaseOK
<1>29. ASSUME NEW d \in Device, FinishBlobs(d)
      PROVE  RowsOK(d)' /\ InboxForeign(d)' /\ OutgoingOwn(d)'
  BY <1>29, <1>0 DEF FinishBlobs, RowsOK, InboxForeign, OutgoingOwn, TypeOK, JournalOK, InboxOK, TransferOK, CycleOK, PhaseOK
<1>30. ASSUME NEW d \in Device, FinishCycle(d)
      PROVE  RowsOK(d)' /\ InboxForeign(d)' /\ OutgoingOwn(d)'
  BY <1>30, <1>0 DEF FinishCycle, RowsOK, InboxForeign, OutgoingOwn, TypeOK, JournalOK, InboxOK, TransferOK, CycleOK, PhaseOK
<1>31. ASSUME NEW d \in Device, Interrupt(d)
      PROVE  RowsOK(d)' /\ InboxForeign(d)' /\ OutgoingOwn(d)'
  BY <1>31, <1>0 DEF Interrupt, AbandonCycle, RowsOK, InboxForeign, OutgoingOwn, TypeOK, JournalOK, InboxOK, TransferOK, CycleOK, PhaseOK
<1>32. ASSUME NEW e \in Device, Same(e)
       PROVE  RowsOK(e)' /\ InboxForeign(e)' /\ OutgoingOwn(e)'
  BY <1>32, <1>0 DEF RowsOK, InboxForeign, OutgoingOwn, Same, SameJournal, SameInbox, SameCycle, Lane, Rows
<1>33. ASSUME NEW d \in Device, DeviceStep(d)
       PROVE  Provenance'
  <2>1. RowsOK(d)' /\ InboxForeign(d)' /\ OutgoingOwn(d)'
    BY <1>33,
       <1>1, <1>2, <1>3, <1>4, <1>5, <1>6, <1>7, <1>8, <1>9, <1>10,
       <1>11, <1>12, <1>13, <1>14, <1>15, <1>16, <1>17, <1>18, <1>19, <1>20,
       <1>21, <1>22, <1>23, <1>24, <1>25, <1>26, <1>27, <1>28, <1>29, <1>30,
       <1>31
    DEF DeviceStep, Cycle, Prepare, Pull, Stage, Ingest, Apply, Publish
  <2>2. \A e \in Device \ {d} : Same(e)
    BY <1>33, OthersSame
  <2> QED BY <2>1, <2>2, <1>0, <1>32 DEF Provenance
<1>34. ASSUME ProviderStep \/ UNCHANGED vars
       PROVE  Provenance'
  <2>1. \A e \in Device : Same(e)
    BY <1>34, ProviderSame
  <2> QED BY <2>1, <1>0, <1>32 DEF Provenance
<1> QED BY <1>33, <1>34 DEF Next, DeviceStep, ProviderStep

(***************************************************************************)
(* Layer 2, lanes: how a writer cuts its journal into segments.            *)
(***************************************************************************)

\* The segments cut the sealed journal from its beginning, without overlap.
LaneCut(w) ==
  /\ \A s \in Lane(w) : s.first <= s.last
  /\ \A s, t \in Lane(w) : s = t \/ s.last < t.first \/ t.last < s.first
  /\ \A n \in 1 .. SealedTo(w) : \E s \in Lane(w) : n \in Seqs(s)

\* Each names the one it follows; the first names none.
LaneLinked(w) ==
  /\ \A s \in Lane(w) : s.first = 1 => s.prev = None
  /\ \A s, t \in Lane(w) : s.last + 1 = t.first => t.prev = Hash(s)

\* Sealing applies to the writer itself what it had authored.
LaneAuthored(w) ==
  /\ applied[w][w] = 1 .. SealedTo(w)
  /\ SealedTo(w) <= authored[w] /\ authored[w] <= Quota[w]
  /\ phase[w] = "sealing" => upTo[w] <= authored[w]

\* Layer 2: every lane is cut, linked and authored.
LanesOK == \A w \in Device : LaneCut(w) /\ LaneLinked(w) /\ LaneAuthored(w)

\* Only sealing touches a device's own lane.
LEMMA OwnLaneStep ==
  ASSUME TypeOK, Provenance, NEW d \in Device, DeviceStep(d)
  PROVE  \/ \E last \in 1 .. upTo[d] : SealSegment(d, last)
         \/ /\ Lane(d)' = Lane(d) /\ applied'[d][d] = applied[d][d]
            /\ authored'[d] = authored[d] \/ Author(d)
            /\ phase'[d] = "sealing" =>
                 \/ upTo'[d] = authored[d]
                 \/ phase[d] = "sealing" /\ upTo'[d] = upTo[d]
<1> USE DEF journalVars
<1> DEFINE Kept == Lane(d)' = Lane(d) /\ applied'[d][d] = applied[d][d]
           Sealing == phase'[d] = "sealing" =>
                        \/ upTo'[d] = authored[d]
                        \/ phase[d] = "sealing" /\ upTo'[d] = upTo[d]
<1>1. CASE Author(d) \/ (\E b \in Blob : VerifyLocalBlob(d, b)) \/ Interrupt(d)
  <2>1. rows' = rows /\ applied' = applied
    BY <1>1 DEF Author, VerifyLocalBlob, Interrupt
  <2>2. (authored'[d] = authored[d] \/ Author(d)) /\ Sealing
    BY <1>1 DEF Author, VerifyLocalBlob, Interrupt, AbandonCycle, cycleVars, TypeOK, CycleOK
  <2> QED BY <2>1, <2>2 DEF Lane, Rows
<1>2. CASE StartCycle(d) \/ FinishSealing(d)
  <2>1. rows' = rows /\ applied' = applied /\ authored' = authored
    BY <1>2 DEF StartCycle, FinishSealing
  <2>2. Sealing
    BY <1>2 DEF StartCycle, FinishSealing, TypeOK, CycleOK
  <2> QED BY <2>1, <2>2 DEF Lane, Rows
<1>3. CASE Pull(d)
  <2>1. rows' = rows /\ applied' = applied /\ authored' = authored
    BY <1>3 DEF Pull, Stage, CaptureStartCursor, List, ObserveKnown, BeginDownload,
              IgnoreRemoval, RecordRemoval, FinishDownload, DownloadMissing, CommitPage
  <2>2. phase'[d] = "sealing" => phase[d] = "sealing" /\ upTo'[d] = upTo[d]
    BY <1>3 DEF Pull, Stage, CaptureStartCursor, List, ObserveKnown, BeginDownload,
              IgnoreRemoval, RecordRemoval, FinishDownload, DownloadMissing, CommitPage,
              Staging, AbandonCycle, cycleVars, TypeOK, CycleOK
  <2> QED BY <2>1, <2>2 DEF Lane, Rows
<1>4. CASE \E s \in staged[d] : IngestSegment(d, s)
  <2>1. PICK s \in staged[d] : IngestSegment(d, s)
    BY <1>4
  <2>2. s \in Segment /\ s.by # d
    BY <2>1 DEF IngestSegment, Provenance, InboxForeign
  <2>3. rows'[d] = rows[d] \/ rows'[d] = rows[d] \cup {s}
    BY <2>1 DEF IngestSegment, TypeOK, JournalOK
  <2>4. applied' = applied /\ authored' = authored /\ UNCHANGED <<phase, upTo>>
    BY <2>1 DEF IngestSegment, cycleVars
  <2> QED BY <2>2, <2>3, <2>4 DEF Lane, Rows
<1>5. CASE Ingest(d) /\ ~\E s \in staged[d] : IngestSegment(d, s)
  <2>1. rows' = rows /\ applied' = applied /\ authored' = authored
    BY <1>5 DEF Ingest, FinishSegments, SkipBlob, DiscardUndeclared, InstallSources,
                InstallFails, CommitInstall, FinishIngest
  <2>2. phase'[d] = "sealing" => phase[d] = "sealing" /\ upTo'[d] = upTo[d]
    BY <1>5 DEF Ingest, FinishSegments, SkipBlob, DiscardUndeclared, InstallSources,
                InstallFails, CommitInstall, FinishIngest, TypeOK, CycleOK
  <2> QED BY <2>1, <2>2 DEF Lane, Rows
<1>6. CASE \E s \in rows[d] : \E n \in Seqs(s) : ApplyChangeSet(d, s, n)
  <2>1. PICK s \in rows[d] : \E n \in Seqs(s) : ApplyChangeSet(d, s, n)
    BY <1>6
  <2>2. PICK n \in Seqs(s) : ApplyChangeSet(d, s, n)
    BY <2>1
  <2>3. s \in Segment /\ s.by # d
    BY <2>2 DEF ApplyChangeSet, Applicable, Provenance, InboxForeign, TypeOK, JournalOK
  <2>4. applied'[d][d] = applied[d][d]
    BY <2>2, <2>3 DEF ApplyChangeSet, TypeOK, JournalOK
  <2>5. rows' = rows /\ authored' = authored /\ UNCHANGED <<phase, upTo>>
    BY <2>2 DEF ApplyChangeSet, cycleVars
  <2> QED BY <2>4, <2>5 DEF Lane, Rows
<1>7. CASE FinishApply(d) \/ Publish(d)
  <2>1. rows' = rows /\ applied' = applied /\ authored' = authored
    BY <1>7 DEF FinishApply, Publish, BeginUpload, Upload, CompleteUploadReceipt,
                CommitPublished, FinishBlobs, FinishCycle
  <2>2. phase'[d] = "sealing" => phase[d] = "sealing" /\ upTo'[d] = upTo[d]
    BY <1>7 DEF FinishApply, Publish, BeginUpload, NextToPublish, Upload, CompleteUploadReceipt,
                CommitPublished, FinishBlobs, FinishCycle, TypeOK, CycleOK
  <2> QED BY <2>1, <2>2 DEF Lane, Rows
<1> QED BY <1>1, <1>2, <1>3, <1>4, <1>5, <1>6, <1>7 DEF DeviceStep, Cycle, Prepare, Apply

\* Where a lane ends is a function of the lane.
LEMMA SealedSame ==
  ASSUME NEW w \in Device, Lane(w)' = Lane(w)
  PROVE  SealedTo(w)' = SealedTo(w)
<1>1. Rows(w, w)' = Rows(w, w)
  BY DEF Lane
<1>2. LastSealed(w)' = LastSealed(w)
  BY <1>1 DEF LastSealed
<1> QED BY <1>1, <1>2 DEF SealedTo

\* An unchanged lane stays cut and linked.
LEMMA LaneFrame ==
  ASSUME NEW w \in Device, Lane(w)' = Lane(w), LaneCut(w), LaneLinked(w)
  PROVE  LaneCut(w)' /\ LaneLinked(w)'
BY SealedSame DEF LaneCut, LaneLinked

(***************************************************************************)
(* One more segment at the end of a lane.                                  *)
(***************************************************************************)
LEMMA SealStep ==
  ASSUME TypeOK, OwnLanes, LanesOK, (TypeOK /\ OwnLanes)',
         NEW d \in Device, NEW last \in 1 .. upTo[d], SealSegment(d, last)
  PROVE  /\ LaneCut(d)' /\ LaneLinked(d)' /\ LaneAuthored(d)'
         /\ SealedTo(d)' = last /\ SealedTo(d) < last
         /\ \A t \in Lane(d)' \ Lane(d) : t.first = SealedTo(d) + 1 /\ t.last = last
<1> DEFINE s == [by |-> d, first |-> SealedTo(d) + 1, last |-> last, prev |-> SealedHash(d)]
<1>1. /\ last \in Nat /\ SealedTo(d) \in Nat /\ last > SealedTo(d)
      /\ \A t \in Lane(d) : t.last <= SealedTo(d)
      /\ Lane(d) = {} => SealedTo(d) = 0
  BY SealedLemma DEF SealSegment, TypeOK, CycleOK, Lane
<1>2. s \in Segment
  BY <1>1, SealLemma DEF TypeOK
<1>3. s.by = d /\ s.first = SealedTo(d) + 1 /\ s.last = last /\ s.prev = SealedHash(d)
  OBVIOUS
<1>4. /\ rows'[d] = rows[d] \cup {s}
      /\ applied'[d][d] = applied[d][d] \cup Seqs(s)
      /\ UNCHANGED <<authored, phase, upTo>>
      /\ phase[d] = "sealing"
  BY DEF SealSegment, cycleVars, TypeOK, JournalOK
<1> HIDE DEF s
<1>5. Lane(d)' = Lane(d) \cup {s}
  BY <1>3, <1>4 DEF Lane, Rows
<1>6. Lane(d) \subseteq Segment /\ \A t \in Segment : {t.first, t.last} \subseteq Nat \ {0}
  BY DEF Lane, Rows, TypeOK, JournalOK, Segment
<1>7. SealedTo(d)' = last
  <2>1. /\ Lane(d)' # {} /\ LastSealed(d)' \in Lane(d)'
        /\ \A t \in Lane(d)' : t.last <= LastSealed(d)'.last
    BY <1>5 DEF OwnLanes, LastSealed, Lane
  <2>2. SealedTo(d)' = LastSealed(d)'.last
    BY <2>1 DEF SealedTo, Lane
  <2> QED BY <2>1, <2>2, <1>1, <1>3, <1>5, <1>6
<1>8. LaneCut(d)'
  <2>1. LaneCut(d)
    BY DEF LanesOK
  <2>2. \A t \in Lane(d)' : t.first <= t.last
    BY <2>1, <1>1, <1>3, <1>5 DEF LaneCut
  <2>3. \A t, u \in Lane(d)' : t = u \/ t.last < u.first \/ u.last < t.first
    BY <2>1, <1>1, <1>3, <1>5, <1>6 DEF LaneCut
  <2>4. ASSUME NEW n \in 1 .. last
        PROVE  \E t \in Lane(d)' : n \in Seqs(t)
    <3>1. CASE n <= SealedTo(d)
      BY <3>1, <2>1, <1>1, <1>5 DEF LaneCut
    <3>2. CASE n > SealedTo(d)
      <4>1. n \in Seqs(s)
        BY <3>2, <1>1, <1>3 DEF Seqs
      <4> QED BY <4>1, <1>5
    <3> QED BY <3>1, <3>2, <1>1
  <2> QED BY <2>2, <2>3, <2>4, <1>7 DEF LaneCut
<1>9. LaneLinked(d)'
  <2>1. LaneCut(d) /\ LaneLinked(d)
    BY DEF LanesOK
  <2>2. s.first = 1 => s.prev = None
    <3>1. CASE Lane(d) = {}
      BY <3>1, <1>3 DEF SealedHash, Lane
    <3>2. CASE Lane(d) # {}
      <4>1. SealedTo(d) # 0
        BY <3>2, <1>1, <1>6
      <4> QED BY <4>1, <1>1, <1>3
    <3> QED BY <3>1, <3>2
  <2>3. ASSUME NEW t \in Lane(d), t.last + 1 = s.first
        PROVE  s.prev = Hash(t)
    <3>1. t.last = SealedTo(d)
      BY <2>3, <1>1, <1>3, <1>6
    <3>2. LastSealed(d) \in Lane(d) /\ SealedTo(d) = LastSealed(d).last
      BY DEF OwnLanes, LastSealed, SealedTo, Lane
    <3>3. t = LastSealed(d)
      BY <3>1, <3>2, <2>1, <1>6 DEF LaneCut
    <3> QED BY <3>3, <1>3 DEF SealedHash, Lane
  <2>4. \A t \in Lane(d)' : ~(s.last + 1 = t.first)
    BY <2>1, <1>1, <1>3, <1>5, <1>6 DEF LaneCut
  <2> QED BY <2>1, <2>2, <2>3, <2>4, <1>5 DEF LaneLinked
<1>10. LaneAuthored(d)'
  <2>1. LaneAuthored(d)
    BY DEF LanesOK
  <2>2. upTo[d] <= authored[d] /\ authored[d] \in Nat /\ upTo[d] \in Nat
    BY <2>1, <1>4 DEF LaneAuthored, TypeOK, JournalOK, CycleOK
  <2>3. last <= authored[d]
    BY <2>2
  <2>4. applied'[d][d] = 1 .. last
    BY <2>1, <1>1, <1>3, <1>4 DEF LaneAuthored, Seqs
  <2> QED BY <2>1, <2>2, <2>3, <2>4, <1>4, <1>7 DEF LaneAuthored
<1> QED BY <1>1, <1>3, <1>5, <1>7, <1>8, <1>9, <1>10

\* Every step keeps layer 2: SealStep does where a lane changes, the frame elsewhere.
LEMMA LanesOKStep ==
  ASSUME TypeOK, OwnLanes, Provenance, LanesOK, (TypeOK /\ OwnLanes)', [Next]_vars
  PROVE  LanesOK'
<1>1. ASSUME NEW w \in Device, Same(w)
      PROVE  (LaneCut(w) /\ LaneLinked(w) /\ LaneAuthored(w))'
  <2>1. Lane(w)' = Lane(w)
    BY <1>1 DEF Same, SameJournal, Lane, Rows
  <2>2. LaneAuthored(w)'
    BY <1>1, <2>1, SealedSame DEF Same, SameJournal, SameCycle, LanesOK, LaneAuthored
  <2> QED BY <2>1, <2>2, LaneFrame DEF LanesOK
<1>2. ASSUME NEW d \in Device, DeviceStep(d)
      PROVE  (LaneCut(d) /\ LaneLinked(d) /\ LaneAuthored(d))'
  <2>1. CASE \E last \in 1 .. upTo[d] : SealSegment(d, last)
    BY <2>1, SealStep
  <2>2. CASE ~\E last \in 1 .. upTo[d] : SealSegment(d, last)
    <3>1. /\ Lane(d)' = Lane(d) /\ applied'[d][d] = applied[d][d]
          /\ authored'[d] = authored[d] \/ Author(d)
          /\ phase'[d] = "sealing" =>
               \/ upTo'[d] = authored[d]
               \/ phase[d] = "sealing" /\ upTo'[d] = upTo[d]
      BY <1>2, <2>2, OwnLaneStep
    <3>2. LaneAuthored(d) /\ SealedTo(d)' = SealedTo(d) /\ SealedTo(d) \in Nat
      BY <3>1, SealedSame, SealedLemma DEF LanesOK, TypeOK
    <3>3. /\ authored[d] \in Nat /\ upTo'[d] \in Nat /\ Quota[d] \in Nat
          /\ authored[d] <= authored'[d] /\ authored'[d] <= Quota[d] /\ authored'[d] \in Nat
      <4>1. authored[d] \in Nat /\ upTo'[d] \in Nat /\ Quota[d] \in Nat
        BY QuotaAssumption DEF TypeOK, JournalOK, CycleOK
      <4>2. CASE Author(d)
        BY <4>1, <4>2 DEF Author, TypeOK, JournalOK
      <4>3. CASE authored'[d] = authored[d]
        BY <4>1, <4>3, <3>2 DEF LaneAuthored
      <4> QED BY <4>1, <4>2, <4>3, <3>1
    <3>4. LaneAuthored(d)'
      BY <3>1, <3>2, <3>3 DEF LaneAuthored
    <3> QED BY <3>1, <3>4, LaneFrame DEF LanesOK
  <2> QED BY <2>1, <2>2
<1>3. ASSUME NEW d \in Device, DeviceStep(d)
      PROVE  LanesOK'
  BY <1>1, <1>2, <1>3, OthersSame DEF LanesOK
<1>4. ASSUME ProviderStep \/ UNCHANGED vars
      PROVE  LanesOK'
  BY <1>1, <1>4, ProviderSame DEF LanesOK
<1> QED BY <1>3, <1>4 DEF Next, DeviceStep, ProviderStep

(***************************************************************************)
(* Layer 3, receipts: what a device takes for being at the provider was    *)
(* announced, and a segment goes there after its blobs.                    *)
(***************************************************************************)
BlobsAnnounced(s) == RequiredBlobs(s) \subseteq Announced

\* A row marked published was announced and observed by its device.
PublishedOK(d) == Lane(d) \ unpublished[d] \subseteq Announced \cap observed[d]

\* What a device downloaded, or takes for being remote, was announced.
ArrivedOK(d) ==
  /\ blobRemote[d] \cup downloaded[d] \subseteq Announced
  /\ phase[d] \in {"installing", "installed"} => todo[d] \subseteq Announced
  /\ phase[d] = "installed" => item[d] \in Announced

\* A completed upload was announced, and its receipt observed it.
UploadedOK(d) ==
  /\ phase[d] \in {"uploaded", "receipted"} => item[d] \in Announced
  /\ phase[d] = "receipted" => item[d] \in observed[d]

\* A segment queued or being sent has all its blobs announced.
ReadyOK(d) ==
  /\ phase[d] \in {"publishing-segments", "uploading", "uploaded", "receipted"} =>
       \A s \in todo[d] \cap Segment : BlobsAnnounced(s)
  /\ phase[d] \in {"uploading", "uploaded", "receipted"} /\ item[d] \in Segment =>
       BlobsAnnounced(item[d])

\* So has a segment that is announced or still in flight.
SharedReady == \A s \in (Announced \cup inflight) \cap Segment : BlobsAnnounced(s)

\* Layer 3, its parts together.
ReceiptsOK ==
  /\ SharedReady
  /\ \A d \in Device : PublishedOK(d) /\ ArrivedOK(d) /\ UploadedOK(d) /\ ReadyOK(d)

\* An object the provider holds was announced, and so is one that is stored.
LEMMA StoreLemma ==
  ASSUME TypeOK
  PROVE  /\ Stored \subseteq Announced
         /\ \A o \in Object : Store(o) => o \in Announced'
<1>1. Stored \subseteq Announced
  BY DEF Stored, Current, Announced
<1>2. ASSUME NEW o \in Object, Store(o)
      PROVE  o \in Announced'
  <2>1. CASE log' = log
    BY <2>1, <1>1, <1>2 DEF Store, Announce, Announced, TypeOK, ProviderOK
  <2>2. CASE log' = Append(log, [obj |-> o, present |-> TRUE])
    <3>1. /\ Len(log) + 1 \in 1 .. Len(log')
          /\ log'[Len(log) + 1] = [obj |-> o, present |-> TRUE]
      BY <2>2, EntryLemma DEF TypeOK, ProviderOK
    <3> QED BY <3>1 DEF Announced
  <2> QED BY <2>1, <2>2, <1>2 DEF Store, Announce
<1> QED BY <1>1, <1>2

\* What enters the network was ready on the device that sent it.
LEMMA SharedReadyStep ==
  ASSUME TypeOK, ReceiptsOK, [Next]_vars
  PROVE  SharedReady'
<1>1. ASSUME NEW s \in (Announced \cup inflight)' \cap Segment
      PROVE  BlobsAnnounced(s)
  <2>1. \/ s \in (Announced \cup inflight) \cap Segment
        \/ \E d \in Device : phase[d] = "uploading" /\ s = item[d]
    BY <1>1, NewlyShared
  <2> QED BY <2>1, <1>1 DEF ReceiptsOK, SharedReady, ReadyOK
<1>2. Announced \subseteq Announced'
  BY LogGrows
<1> QED BY <1>1, <1>2 DEF SharedReady, BlobsAnnounced

\* What a device has observed it does not forget.
LEMMA ObservedGrows ==
  ASSUME TypeOK, NEW d \in Device, DeviceStep(d)
  PROVE  observed[d] \subseteq observed'[d]
<1> USE DEF remoteVars, TypeOK, RemoteOK
<1>1. CASE Author(d) \/ (\E b \in Blob : VerifyLocalBlob(d, b)) \/ Interrupt(d)
  BY <1>1 DEF Author, VerifyLocalBlob, Interrupt
<1>2. CASE Prepare(d)
  BY <1>2 DEF Prepare, StartCycle, SealSegment, FinishSealing
<1>3. CASE Pull(d)
  BY <1>3 DEF Pull, Stage, CaptureStartCursor, List, ObserveKnown, BeginDownload,
              IgnoreRemoval, RecordRemoval, FinishDownload, DownloadMissing, CommitPage
<1>4. CASE Ingest(d)
  BY <1>4 DEF Ingest, IngestSegment, FinishSegments, SkipBlob, DiscardUndeclared,
              InstallSources, InstallFails, CommitInstall, FinishIngest
<1>5. CASE Apply(d)
  BY <1>5 DEF Apply, ApplyChangeSet, FinishApply
<1>6. CASE Publish(d)
  BY <1>6 DEF Publish, BeginUpload, Upload, CompleteUploadReceipt, CommitPublished,
              FinishBlobs, FinishCycle
<1> QED BY <1>1, <1>2, <1>3, <1>4, <1>5, <1>6 DEF DeviceStep, Cycle

\* Only sealing and the receipt of a segment change what is unpublished.
LEMMA UnpublishedSame ==
  ASSUME NEW d \in Device, DeviceStep(d), ~CommitPublished(d),
         ~\E last \in 1 .. upTo[d] : SealSegment(d, last)
  PROVE  unpublished' = unpublished
<1> USE DEF journalVars
<1>1. CASE Author(d) \/ (\E b \in Blob : VerifyLocalBlob(d, b)) \/ Interrupt(d)
  BY <1>1 DEF Author, VerifyLocalBlob, Interrupt
<1>2. CASE Prepare(d)
  BY <1>2 DEF Prepare, StartCycle, FinishSealing
<1>3. CASE Pull(d)
  BY <1>3 DEF Pull, Stage, CaptureStartCursor, List, ObserveKnown, BeginDownload,
              IgnoreRemoval, RecordRemoval, FinishDownload, DownloadMissing, CommitPage
<1>4. CASE Ingest(d)
  BY <1>4 DEF Ingest, IngestSegment, FinishSegments, SkipBlob, DiscardUndeclared,
              InstallSources, InstallFails, CommitInstall, FinishIngest
<1>5. CASE Apply(d)
  BY <1>5 DEF Apply, ApplyChangeSet, FinishApply
<1>6. CASE Publish(d)
  BY <1>6 DEF Publish, BeginUpload, Upload, CompleteUploadReceipt, FinishBlobs, FinishCycle
<1> QED BY <1>1, <1>2, <1>3, <1>4, <1>5, <1>6 DEF DeviceStep, Cycle

\* A device marks as published only what it has a receipt for.
LEMMA PublishedStep ==
  ASSUME TypeOK, Provenance, ReceiptsOK, [Next]_vars, NEW d \in Device, DeviceStep(d)
  PROVE  PublishedOK(d)'
<1>1. /\ Announced \cap observed[d] \subseteq (Announced \cap observed[d])'
      /\ Lane(d) \ unpublished[d] \subseteq Announced \cap observed[d]
  BY LogGrows, ObservedGrows DEF ReceiptsOK, PublishedOK
<1>2. CASE \E last \in 1 .. upTo[d] : SealSegment(d, last)
  <2>1. PICK s : /\ rows'[d] = rows[d] \cup {s}
                 /\ unpublished'[d] = unpublished[d] \cup {s}
    BY <1>2 DEF SealSegment, TypeOK, JournalOK
  <2> QED BY <1>1, <2>1 DEF PublishedOK, Lane, Rows
<1>3. CASE CommitPublished(d)
  <2>1. /\ rows' = rows
        /\ unpublished[d] \ {item[d]} \subseteq unpublished'[d]
        /\ phase[d] = "receipted"
    BY <1>3 DEF CommitPublished, TypeOK, JournalOK
  <2>2. item[d] \in Announced \cap observed[d]
    BY <2>1 DEF ReceiptsOK, UploadedOK
  <2> QED BY <1>1, <2>1, <2>2 DEF PublishedOK, Lane, Rows
<1>4. CASE ~CommitPublished(d) /\ ~\E last \in 1 .. upTo[d] : SealSegment(d, last)
  <2>1. unpublished' = unpublished /\ Lane(d)' = Lane(d)
    BY <1>4, UnpublishedSame, OwnLaneStep
  <2> QED BY <1>1, <2>1 DEF PublishedOK
<1> QED BY <1>2, <1>3, <1>4

\* No other device disturbs that.
LEMMA PublishedFrame ==
  ASSUME TypeOK, ReceiptsOK, [Next]_vars, NEW e \in Device, Same(e)
  PROVE  PublishedOK(e)'
BY LogGrows DEF ReceiptsOK, PublishedOK, Same, SameJournal, SameInbox, Lane, Rows

\* Every step keeps layer 3.
LEMMA ReceiptsStep ==
  ASSUME TypeOK, Provenance, ReceiptsOK, [Next]_vars
  PROVE  ReceiptsOK'
<1> USE DEF journalVars, transferVars, remoteVars, assetVars, workVars, cycleVars
<1>0. /\ SharedReady' /\ Announced \subseteq Announced'
      /\ \A s : BlobsAnnounced(s) => BlobsAnnounced(s)'
      /\ \A d \in Device : ArrivedOK(d) /\ UploadedOK(d) /\ ReadyOK(d)
      /\ \A b \in Blob : b \notin Segment
  BY SharedReadyStep, LogGrows, BlobAssumption DEF ReceiptsOK, BlobsAnnounced
<1>1. ASSUME NEW d \in Device, NEW b \in Blob, VerifyLocalBlob(d, b)
      PROVE  ArrivedOK(d)' /\ UploadedOK(d)' /\ ReadyOK(d)'
  BY <1>1, <1>0 DEF VerifyLocalBlob, ArrivedOK, UploadedOK, ReadyOK, TypeOK, JournalOK, TransferOK, RemoteOK, AssetOK, CycleOK, PhaseOK
<1>2. ASSUME NEW d \in Device, Author(d)
      PROVE  ArrivedOK(d)' /\ UploadedOK(d)' /\ ReadyOK(d)'
  BY <1>2, <1>0 DEF Author, ArrivedOK, UploadedOK, ReadyOK, TypeOK, JournalOK, TransferOK, RemoteOK, AssetOK, CycleOK, PhaseOK
<1>3. ASSUME NEW d \in Device, StartCycle(d)
      PROVE  ArrivedOK(d)' /\ UploadedOK(d)' /\ ReadyOK(d)'
  BY <1>3, <1>0 DEF StartCycle, ArrivedOK, UploadedOK, ReadyOK, TypeOK, JournalOK, TransferOK, RemoteOK, AssetOK, CycleOK, PhaseOK
<1>4. ASSUME NEW d \in Device, NEW last \in 1 .. upTo[d], SealSegment(d, last)
      PROVE  ArrivedOK(d)' /\ UploadedOK(d)' /\ ReadyOK(d)'
  BY <1>4, <1>0 DEF SealSegment, ArrivedOK, UploadedOK, ReadyOK, TypeOK, JournalOK, TransferOK, RemoteOK, AssetOK, CycleOK, PhaseOK
<1>5. ASSUME NEW d \in Device, FinishSealing(d)
      PROVE  ArrivedOK(d)' /\ UploadedOK(d)' /\ ReadyOK(d)'
  BY <1>5, <1>0 DEF FinishSealing, ArrivedOK, UploadedOK, ReadyOK, TypeOK, JournalOK, TransferOK, RemoteOK, AssetOK, CycleOK, PhaseOK
<1>6. ASSUME NEW d \in Device, CaptureStartCursor(d)
      PROVE  ArrivedOK(d)' /\ UploadedOK(d)' /\ ReadyOK(d)'
  BY <1>6, <1>0 DEF CaptureStartCursor, ArrivedOK, UploadedOK, ReadyOK, TypeOK, JournalOK, TransferOK, RemoteOK, AssetOK, CycleOK, PhaseOK
<1>7. ASSUME NEW d \in Device, List(d)
      PROVE  ArrivedOK(d)' /\ UploadedOK(d)' /\ ReadyOK(d)'
  BY <1>7, <1>0 DEF List, ArrivedOK, UploadedOK, ReadyOK, TypeOK, JournalOK, TransferOK, RemoteOK, AssetOK, CycleOK, PhaseOK
<1>8. ASSUME NEW d \in Device, NEW i \in page[d], ObserveKnown(d, i)
      PROVE  ArrivedOK(d)' /\ UploadedOK(d)' /\ ReadyOK(d)'
  BY <1>8, <1>0 DEF ObserveKnown, Staging, ArrivedOK, UploadedOK, ReadyOK, TypeOK, JournalOK, TransferOK, RemoteOK, AssetOK, CycleOK, PhaseOK
<1>9. ASSUME NEW d \in Device, NEW i \in page[d], BeginDownload(d, i)
      PROVE  ArrivedOK(d)' /\ UploadedOK(d)' /\ ReadyOK(d)'
  BY <1>9, <1>0 DEF BeginDownload, Staging, ArrivedOK, UploadedOK, ReadyOK, TypeOK, JournalOK, TransferOK, RemoteOK, AssetOK, CycleOK, PhaseOK
<1>10. ASSUME NEW d \in Device, NEW i \in page[d], IgnoreRemoval(d, i)
      PROVE  ArrivedOK(d)' /\ UploadedOK(d)' /\ ReadyOK(d)'
  BY <1>10, <1>0 DEF IgnoreRemoval, Staging, ArrivedOK, UploadedOK, ReadyOK, TypeOK, JournalOK, TransferOK, RemoteOK, AssetOK, CycleOK, PhaseOK
<1>11. ASSUME NEW d \in Device, NEW i \in page[d], RecordRemoval(d, i)
      PROVE  ArrivedOK(d)' /\ UploadedOK(d)' /\ ReadyOK(d)'
  BY <1>11, <1>0 DEF RecordRemoval, Staging, AbandonCycle, ArrivedOK, UploadedOK, ReadyOK, TypeOK, JournalOK, TransferOK, RemoteOK, AssetOK, CycleOK, PhaseOK
<1>12. ASSUME NEW d \in Device, FinishDownload(d)
      PROVE  ArrivedOK(d)' /\ UploadedOK(d)' /\ ReadyOK(d)'
  <2>1. item[d] \in Announced
    BY <1>12, StoreLemma DEF FinishDownload
  <2>2. /\ downloaded'[d] = downloaded[d] \cup {item[d]}
        /\ blobRemote' = blobRemote /\ phase'[d] = "staging"
    BY <1>12 DEF FinishDownload, TypeOK, TransferOK, CycleOK
  <2> QED BY <2>1, <2>2, <1>0 DEF ArrivedOK, UploadedOK, ReadyOK
<1>13. ASSUME NEW d \in Device, DownloadMissing(d)
      PROVE  ArrivedOK(d)' /\ UploadedOK(d)' /\ ReadyOK(d)'
  BY <1>13, <1>0 DEF DownloadMissing, AbandonCycle, ArrivedOK, UploadedOK, ReadyOK, TypeOK, JournalOK, TransferOK, RemoteOK, AssetOK, CycleOK, PhaseOK
<1>14. ASSUME NEW d \in Device, CommitPage(d)
      PROVE  ArrivedOK(d)' /\ UploadedOK(d)' /\ ReadyOK(d)'
  BY <1>14, <1>0 DEF CommitPage, ArrivedOK, UploadedOK, ReadyOK, TypeOK, JournalOK, TransferOK, RemoteOK, AssetOK, CycleOK, PhaseOK
<1>15. ASSUME NEW d \in Device, NEW s \in staged[d], IngestSegment(d, s)
      PROVE  ArrivedOK(d)' /\ UploadedOK(d)' /\ ReadyOK(d)'
  BY <1>15, <1>0 DEF IngestSegment, ArrivedOK, UploadedOK, ReadyOK, TypeOK, JournalOK, TransferOK, RemoteOK, AssetOK, CycleOK, PhaseOK
<1>16. ASSUME NEW d \in Device, FinishSegments(d)
      PROVE  ArrivedOK(d)' /\ UploadedOK(d)' /\ ReadyOK(d)'
  <2>1. InboxBlobs(d) \subseteq downloaded[d]
    BY DEF InboxBlobs
  <2>2. /\ UNCHANGED <<downloaded, blobRemote>>
        /\ phase'[d] = "installing" /\ todo'[d] \subseteq downloaded[d]
    BY <1>16, <2>1 DEF FinishSegments, TypeOK, CycleOK
  <2> QED BY <2>2, <1>0 DEF ArrivedOK, UploadedOK, ReadyOK
<1>17. ASSUME NEW d \in Device, NEW b \in todo[d], SkipBlob(d, b)
      PROVE  ArrivedOK(d)' /\ UploadedOK(d)' /\ ReadyOK(d)'
  BY <1>17, <1>0 DEF SkipBlob, Installing, ArrivedOK, UploadedOK, ReadyOK, TypeOK, JournalOK, TransferOK, RemoteOK, AssetOK, CycleOK, PhaseOK
<1>18. ASSUME NEW d \in Device, NEW b \in todo[d], DiscardUndeclared(d, b)
      PROVE  ArrivedOK(d)' /\ UploadedOK(d)' /\ ReadyOK(d)'
  BY <1>18, <1>0 DEF DiscardUndeclared, Installing, ArrivedOK, UploadedOK, ReadyOK, TypeOK, JournalOK, TransferOK, RemoteOK, AssetOK, CycleOK, PhaseOK
<1>19. ASSUME NEW d \in Device, NEW b \in todo[d], InstallSources(d, b)
      PROVE  ArrivedOK(d)' /\ UploadedOK(d)' /\ ReadyOK(d)'
  BY <1>19, <1>0 DEF InstallSources, Installing, ArrivedOK, UploadedOK, ReadyOK, TypeOK, JournalOK, TransferOK, RemoteOK, AssetOK, CycleOK, PhaseOK
<1>20. ASSUME NEW d \in Device, NEW b \in todo[d], InstallFails(d, b)
      PROVE  ArrivedOK(d)' /\ UploadedOK(d)' /\ ReadyOK(d)'
  BY <1>20, <1>0 DEF InstallFails, Installing, ArrivedOK, UploadedOK, ReadyOK, TypeOK, JournalOK, TransferOK, RemoteOK, AssetOK, CycleOK, PhaseOK
<1>21. ASSUME NEW d \in Device, CommitInstall(d)
      PROVE  ArrivedOK(d)' /\ UploadedOK(d)' /\ ReadyOK(d)'
  BY <1>21, <1>0 DEF CommitInstall, ArrivedOK, UploadedOK, ReadyOK, TypeOK, JournalOK, TransferOK, RemoteOK, AssetOK, CycleOK, PhaseOK
<1>22. ASSUME NEW d \in Device, FinishIngest(d)
      PROVE  ArrivedOK(d)' /\ UploadedOK(d)' /\ ReadyOK(d)'
  BY <1>22, <1>0 DEF FinishIngest, ArrivedOK, UploadedOK, ReadyOK, TypeOK, JournalOK, TransferOK, RemoteOK, AssetOK, CycleOK, PhaseOK
<1>23. ASSUME NEW d \in Device, NEW s \in rows[d], NEW n \in Seqs(s), ApplyChangeSet(d, s, n)
      PROVE  ArrivedOK(d)' /\ UploadedOK(d)' /\ ReadyOK(d)'
  BY <1>23, <1>0 DEF ApplyChangeSet, ArrivedOK, UploadedOK, ReadyOK, TypeOK, JournalOK, TransferOK, RemoteOK, AssetOK, CycleOK, PhaseOK
<1>24. ASSUME NEW d \in Device, FinishApply(d)
      PROVE  ArrivedOK(d)' /\ UploadedOK(d)' /\ ReadyOK(d)'
  BY <1>24, <1>0 DEF FinishApply, ArrivedOK, UploadedOK, ReadyOK, TypeOK, JournalOK, TransferOK, RemoteOK, AssetOK, CycleOK, PhaseOK
<1>25. ASSUME NEW d \in Device, NEW o \in todo[d], BeginUpload(d, o)
      PROVE  ArrivedOK(d)' /\ UploadedOK(d)' /\ ReadyOK(d)'
  BY <1>25, <1>0 DEF BeginUpload, NextToPublish, ArrivedOK, UploadedOK, ReadyOK, TypeOK, JournalOK, TransferOK, RemoteOK, AssetOK, CycleOK, PhaseOK
<1>26. ASSUME NEW d \in Device, Upload(d)
      PROVE  ArrivedOK(d)' /\ UploadedOK(d)' /\ ReadyOK(d)'
  <2>1. item[d] \in Announced'
    BY <1>26, StoreLemma DEF Upload, TypeOK, PhaseOK, Object
  <2>2. /\ UNCHANGED <<downloaded, blobRemote, todo, item>>
        /\ phase[d] = "uploading" /\ phase'[d] = "uploaded"
    BY <1>26 DEF Upload, TypeOK, CycleOK
  <2> QED BY <2>1, <2>2, <1>0 DEF ArrivedOK, UploadedOK, ReadyOK
<1>27. ASSUME NEW d \in Device, CompleteUploadReceipt(d)
      PROVE  ArrivedOK(d)' /\ UploadedOK(d)' /\ ReadyOK(d)'
  BY <1>27, <1>0 DEF CompleteUploadReceipt, ArrivedOK, UploadedOK, ReadyOK, TypeOK, JournalOK, TransferOK, RemoteOK, AssetOK, CycleOK, PhaseOK
<1>28. ASSUME NEW d \in Device, CommitPublished(d)
      PROVE  ArrivedOK(d)' /\ UploadedOK(d)' /\ ReadyOK(d)'
  BY <1>28, <1>0 DEF CommitPublished, ArrivedOK, UploadedOK, ReadyOK, TypeOK, JournalOK, TransferOK, RemoteOK, AssetOK, CycleOK, PhaseOK
<1>29. ASSUME NEW d \in Device, FinishBlobs(d)
      PROVE  ArrivedOK(d)' /\ UploadedOK(d)' /\ ReadyOK(d)'
  <2>1. /\ UNCHANGED <<downloaded, blobRemote>>
        /\ phase'[d] = "publishing-segments"
        /\ \A s \in todo'[d] : RequiredBlobs(s) \subseteq blobRemote[d]
    BY <1>29 DEF FinishBlobs, TypeOK, CycleOK
  <2>2. \A s \in todo'[d] : BlobsAnnounced(s)
    BY <2>1, <1>0 DEF BlobsAnnounced, ArrivedOK
  <2> QED BY <2>1, <2>2, <1>0 DEF ArrivedOK, UploadedOK, ReadyOK
<1>30. ASSUME NEW d \in Device, FinishCycle(d)
      PROVE  ArrivedOK(d)' /\ UploadedOK(d)' /\ ReadyOK(d)'
  BY <1>30, <1>0 DEF FinishCycle, ArrivedOK, UploadedOK, ReadyOK, TypeOK, JournalOK, TransferOK, RemoteOK, AssetOK, CycleOK, PhaseOK
<1>31. ASSUME NEW d \in Device, Interrupt(d)
      PROVE  ArrivedOK(d)' /\ UploadedOK(d)' /\ ReadyOK(d)'
  BY <1>31, <1>0 DEF Interrupt, AbandonCycle, ArrivedOK, UploadedOK, ReadyOK, TypeOK, JournalOK, TransferOK, RemoteOK, AssetOK, CycleOK, PhaseOK
<1>32. ASSUME NEW e \in Device, Same(e)
       PROVE  ArrivedOK(e)' /\ UploadedOK(e)' /\ ReadyOK(e)'
  BY <1>32, <1>0 DEF ArrivedOK, UploadedOK, ReadyOK, Same, SameInbox, SameAssets, SameCycle
<1>33. ASSUME NEW d \in Device, DeviceStep(d)
       PROVE  ReceiptsOK'
  <2>1. ArrivedOK(d)' /\ UploadedOK(d)' /\ ReadyOK(d)'
    BY <1>33,
       <1>1, <1>2, <1>3, <1>4, <1>5, <1>6, <1>7, <1>8, <1>9, <1>10,
       <1>11, <1>12, <1>13, <1>14, <1>15, <1>16, <1>17, <1>18, <1>19, <1>20,
       <1>21, <1>22, <1>23, <1>24, <1>25, <1>26, <1>27, <1>28, <1>29, <1>30,
       <1>31
    DEF DeviceStep, Cycle, Prepare, Pull, Stage, Ingest, Apply, Publish
  <2>2. \A e \in Device \ {d} : Same(e)
    BY <1>33, OthersSame
  <2>3. PublishedOK(d)'
    BY <1>33, PublishedStep
  <2> QED BY <2>1, <2>2, <2>3, <1>0, <1>32, PublishedFrame DEF ReceiptsOK
<1>34. ASSUME ProviderStep \/ UNCHANGED vars
       PROVE  ReceiptsOK'
  <2>1. \A e \in Device : Same(e)
    BY <1>34, ProviderSame
  <2> QED BY <2>1, <1>0, <1>32, PublishedFrame DEF ReceiptsOK
<1> QED BY <1>33, <1>34 DEF Next, DeviceStep, ProviderStep

(***************************************************************************)
(* Layer 4, application: each device has applied an initial part of every  *)
(* other journal, with the blobs it binds and the hash of its end.         *)
(***************************************************************************)
AppliedFrom(d, w) ==
  /\ \E m \in Nat : applied[d][w] = 1 .. m
  /\ \A n \in applied[d][w] : /\ [by |-> w, seq |-> n] \in SharedSets
                              /\ Binds(w, n) \subseteq blobLocal[d]

\* The head stored for a writer is the hash of the segment applied last.
HeadFrom(d, w) ==
  \A r \in Lane(w) : Contiguous(applied[d][w]) = r.last => head[d][w] = Hash(r)

\* Layer 4: what a device applied of others is a prefix that was shared.
AppliedOK ==
  \A d \in Device : \A w \in Device \ {d} : AppliedFrom(d, w) /\ HeadFrom(d, w)

\* A prefix is contiguous up to its end.
LEMMA ContiguousLemma ==
  \A m \in Nat : Contiguous(1 .. m) = m
<1> TAKE m \in Nat
<1>1. /\ m \in (1 .. m) \cup {0}
      /\ 1 .. m \subseteq 1 .. m /\ m + 1 \notin 1 .. m
  OBVIOUS
<1>2. ASSUME NEW n \in (1 .. m) \cup {0}, 1 .. n \subseteq 1 .. m, n + 1 \notin 1 .. m
      PROVE  n = m
  BY <1>2
<1> QED BY <1>1, <1>2 DEF Contiguous

\* What is shared of a journal is part of a sealed segment.
LEMMA SharedLemma ==
  ASSUME TypeOK, OwnLanes, Provenance, NEW w \in Device, NEW n,
         [by |-> w, seq |-> n] \in SharedSets
  PROVE  \E s \in Lane(w) \cap Announced : n \in Seqs(s) /\ n \in Nat \ {0} /\ n <= SealedTo(w)
<1>1. PICK s \in Announced \cap Segment : [by |-> w, seq |-> n] \in ChangeSets(s)
  BY DEF SharedSets
<1>2. PICK k \in Seqs(s) : [by |-> w, seq |-> n] = [by |-> s.by, seq |-> k]
  BY <1>1 DEF ChangeSets
<1>3. s.by = w /\ n \in Seqs(s)
  BY <1>2
<1>4. s \in Lane(w)
  BY <1>1, <1>3 DEF Provenance, Authentic
<1>5. s.last <= SealedTo(w) /\ SealedTo(w) \in Nat
  BY <1>4, SealedLemma DEF Lane, TypeOK
<1>6. n \in Nat \ {0} /\ n <= s.last /\ s.last \in Nat
  BY <1>1, <1>3 DEF Seqs, Segment
<1> QED BY <1>1, <1>3, <1>4, <1>5, <1>6

\* What was shared stays shared.
LEMMA SharedGrows ==
  ASSUME TypeOK, [Next]_vars
  PROVE  SharedSets \subseteq SharedSets'
BY LogGrows DEF SharedSets

\* A verified blob stays verified.
LEMMA BlobsGrow ==
  ASSUME TypeOK, NEW d \in Device, DeviceStep(d)
  PROVE  blobLocal[d] \subseteq blobLocal'[d]
<1> USE DEF assetVars, TypeOK, AssetOK
<1>1. CASE Author(d) \/ (\E b \in Blob : VerifyLocalBlob(d, b)) \/ Interrupt(d)
  BY <1>1 DEF Author, VerifyLocalBlob, Interrupt
<1>2. CASE Prepare(d)
  BY <1>2 DEF Prepare, StartCycle, SealSegment, FinishSealing
<1>3. CASE Pull(d)
  BY <1>3 DEF Pull, Stage, CaptureStartCursor, List, ObserveKnown, BeginDownload,
              IgnoreRemoval, RecordRemoval, FinishDownload, DownloadMissing, CommitPage
<1>4. CASE Ingest(d)
  BY <1>4 DEF Ingest, IngestSegment, FinishSegments, SkipBlob, DiscardUndeclared,
              InstallSources, InstallFails, CommitInstall, FinishIngest
<1>5. CASE Apply(d)
  BY <1>5 DEF Apply, ApplyChangeSet, FinishApply
<1>6. CASE Publish(d)
  BY <1>6 DEF Publish, BeginUpload, Upload, CompleteUploadReceipt, CommitPublished,
              FinishBlobs, FinishCycle
<1> QED BY <1>1, <1>2, <1>3, <1>4, <1>5, <1>6 DEF DeviceStep, Cycle

\* Only authoring, sealing and applying move a journal.
LEMMA JournalSame ==
  ASSUME NEW d \in Device, DeviceStep(d), ~Author(d),
         ~\E last \in 1 .. upTo[d] : SealSegment(d, last),
         ~\E s \in rows[d] : \E n \in Seqs(s) : ApplyChangeSet(d, s, n)
  PROVE  UNCHANGED <<authored, applied, head>>
<1> USE DEF journalVars
<1>1. CASE (\E b \in Blob : VerifyLocalBlob(d, b)) \/ Interrupt(d)
  BY <1>1 DEF VerifyLocalBlob, Interrupt
<1>2. CASE StartCycle(d) \/ FinishSealing(d)
  BY <1>2 DEF StartCycle, FinishSealing
<1>3. CASE Pull(d)
  BY <1>3 DEF Pull, Stage, CaptureStartCursor, List, ObserveKnown, BeginDownload,
              IgnoreRemoval, RecordRemoval, FinishDownload, DownloadMissing, CommitPage
<1>4. CASE Ingest(d)
  BY <1>4 DEF Ingest, IngestSegment, FinishSegments, SkipBlob, DiscardUndeclared,
              InstallSources, InstallFails, CommitInstall, FinishIngest
<1>5. CASE FinishApply(d)
  BY <1>5 DEF FinishApply
<1>6. CASE Publish(d)
  BY <1>6 DEF Publish, BeginUpload, Upload, CompleteUploadReceipt, CommitPublished,
              FinishBlobs, FinishCycle
<1> QED BY <1>1, <1>2, <1>3, <1>4, <1>5, <1>6 DEF DeviceStep, Cycle, Prepare, Apply

\* Only ApplyChangeSet moves a device along another journal.
LEMMA AppliedSame ==
  ASSUME TypeOK, NEW d \in Device, DeviceStep(d), NEW w \in Device \ {d},
         ~\E s \in rows[d] : \E n \in Seqs(s) : ApplyChangeSet(d, s, n)
  PROVE  applied'[d][w] = applied[d][w] /\ head'[d][w] = head[d][w]
<1>1. CASE Author(d)
  BY <1>1 DEF Author
<1>2. ASSUME NEW last \in 1 .. upTo[d], SealSegment(d, last)
      PROVE  applied'[d][w] = applied[d][w] /\ head'[d][w] = head[d][w]
  <2>1. PICK S, h : /\ applied' = [applied EXCEPT ![d][d] = @ \cup S]
                    /\ head' = [head EXCEPT ![d][d] = h]
    BY <1>2 DEF SealSegment
  <2> QED BY <2>1 DEF TypeOK, JournalOK
<1> QED BY <1>1, <1>2, JournalSame

\* A new segment of a lane is newer than all of it.
LEMMA NewInLane ==
  ASSUME TypeOK, OwnLanes, Provenance, LanesOK, (TypeOK /\ OwnLanes)', [Next]_vars,
         NEW w \in Device, NEW r \in Lane(w)', r \notin Lane(w)
  PROVE  SealedTo(w) < r.last
<1>1. ~Same(w)
  BY DEF Same, SameJournal, Lane, Rows
<1>2. DeviceStep(w)
  BY <1>1, OthersSame, ProviderSame DEF Next, DeviceStep, ProviderStep
<1>3. PICK last \in 1 .. upTo[w] : SealSegment(w, last)
  BY <1>2, OwnLaneStep
<1> QED BY <1>3, SealStep

\* A device that has not moved along a journal still knows the hash of its end.
LEMMA HeadFrame ==
  ASSUME TypeOK, OwnLanes, Provenance, LanesOK, (TypeOK /\ OwnLanes)', [Next]_vars,
         NEW d \in Device, NEW w \in Device \ {d}, AppliedFrom(d, w), HeadFrom(d, w),
         applied'[d][w] = applied[d][w], head'[d][w] = head[d][w]
  PROVE  HeadFrom(d, w)'
<1>1. PICK m \in Nat : applied[d][w] = 1 .. m
  BY DEF AppliedFrom
<1>2. Contiguous(applied[d][w]) = m
  BY <1>1, ContiguousLemma
<1>3. m <= SealedTo(w) /\ SealedTo(w) \in Nat
  <2>1. SealedTo(w) \in Nat
    BY SealedLemma DEF TypeOK
  <2>2. CASE m = 0
    BY <2>1, <2>2
  <2>3. CASE m # 0
    <3>1. [by |-> w, seq |-> m] \in SharedSets
      BY <2>3, <1>1 DEF AppliedFrom
    <3> QED BY <2>1, <3>1, SharedLemma
  <2> QED BY <2>2, <2>3
<1>4. Contiguous(applied[d][w])' = m
  BY <1>2
<1>5. ASSUME NEW r \in Lane(w)', m = r.last
      PROVE  r \in Lane(w)
  BY <1>3, <1>5, NewInLane
<1> QED BY <1>2, <1>4, <1>5 DEF HeadFrom

\* A device that applies nothing keeps its prefix, its change sets and their blobs.
LEMMA AppliedFrame ==
  ASSUME TypeOK, [Next]_vars, NEW d \in Device, NEW w \in Device \ {d}, AppliedFrom(d, w),
         applied'[d][w] = applied[d][w], blobLocal[d] \subseteq blobLocal'[d]
  PROVE  AppliedFrom(d, w)'
BY SharedGrows DEF AppliedFrom

(***************************************************************************)
(* The next change set of another journal.                                 *)
(***************************************************************************)
LEMMA ApplyStep ==
  ASSUME TypeOK, OwnLanes, Provenance, LanesOK, AppliedOK, (TypeOK /\ OwnLanes)', [Next]_vars,
         NEW d \in Device, NEW s \in rows[d], NEW n \in Seqs(s), ApplyChangeSet(d, s, n)
  PROVE  /\ s.by \in Device \ {d}
         /\ applied[d][s.by] = 1 .. n - 1
         /\ applied' = [applied EXCEPT ![d][s.by] = 1 .. n]
         /\ [by |-> s.by, seq |-> n] \in SharedSets
         /\ AppliedFrom(d, s.by)' /\ HeadFrom(d, s.by)'
<1>1. /\ s \in Segment /\ s.by \in Device \ {d} /\ s \in Announced
      /\ s \in Lane(s.by)
      /\ n \in Nat \ {0} /\ n <= s.last /\ s.last \in Nat \ {0} /\ s.first \in Nat \ {0}
  <2>1. s \in Segment /\ s.by \in Device
    BY SegmentLemma DEF TypeOK, JournalOK
  <2>2. s.by # d /\ s \in Announced
    BY <2>1 DEF ApplyChangeSet, Applicable, Provenance, InboxForeign
  <2>3. s \in Lane(s.by)
    BY <2>1, <2>2 DEF Provenance, Authentic
  <2> QED BY <2>1, <2>2, <2>3 DEF Seqs, Segment
<1> DEFINE w == s.by
<1>2. AppliedFrom(d, w) /\ HeadFrom(d, w)
  BY <1>1 DEF AppliedOK
<1>3. PICK m \in Nat : applied[d][w] = 1 .. m
  BY <1>2 DEF AppliedFrom
<1>4. Contiguous(applied[d][w]) = m
  BY <1>3, ContiguousLemma
<1>5. n = m + 1
  <2>1. CanAdvance(applied[d][w], [s EXCEPT !.first = n, !.last = n])
    BY DEF ApplyChangeSet
  <2>2. [s EXCEPT !.first = n, !.last = n].first = n /\ [s EXCEPT !.first = n, !.last = n].last = n
    BY <1>1 DEF Segment
  <2> QED BY <2>1, <2>2, <1>1, <1>4 DEF CanAdvance
<1>6. /\ applied'[d][w] = 1 .. n
      /\ applied' = [applied EXCEPT ![d][s.by] = 1 .. n]
  <2>1. applied' = [applied EXCEPT ![d][w] = @ \cup {n}]
    BY DEF ApplyChangeSet
  <2>2. applied[d][w] \cup {n} = 1 .. n
    BY <1>3, <1>5
  <2> QED BY <2>1, <2>2, <1>1 DEF TypeOK, JournalOK
<1>7. head'[d][w] = IF n = s.last THEN Hash(s) ELSE head[d][w]
  BY <1>1 DEF ApplyChangeSet, TypeOK, JournalOK
<1>8. [by |-> w, seq |-> n] \in SharedSets /\ Binds(w, n) \subseteq blobLocal[d]
  <2>1. [by |-> w, seq |-> n] \in ChangeSets(s)
    BY DEF ChangeSets
  <2>2. Binds(w, n) \subseteq RequiredBlobs(s)
    BY DEF RequiredBlobs
  <2>3. RequiredBlobs(s) \subseteq blobLocal[d]
    BY DEF ApplyChangeSet, Applicable
  <2> QED BY <2>1, <2>2, <2>3, <1>1 DEF SharedSets
<1>9. AppliedFrom(d, w)'
  <2>1. blobLocal' = blobLocal
    BY DEF ApplyChangeSet, assetVars
  <2>2. SharedSets \subseteq SharedSets'
    BY SharedGrows
  <2>3. \A k \in 1 .. n : k \in applied[d][w] \/ k = n
    BY <1>3, <1>5
  <2>4. \A k \in applied'[d][w] : /\ [by |-> w, seq |-> k] \in SharedSets'
                                  /\ Binds(w, k) \subseteq blobLocal'[d]
    BY <1>2, <1>6, <1>8, <2>1, <2>2, <2>3 DEF AppliedFrom
  <2>5. n \in Nat
    BY <1>1
  <2> QED BY <1>6, <2>4, <2>5 DEF AppliedFrom
<1>10. HeadFrom(d, w)'
  <2>1. Contiguous(applied[d][w])' = n
    BY <1>1, <1>6, ContiguousLemma
  <2>2. Lane(w)' = Lane(w)
    BY DEF ApplyChangeSet, Lane, Rows
  <2>3. ASSUME NEW r \in Lane(w), n = r.last
        PROVE  r = s
    <3>1. /\ r = s \/ r.last < s.first \/ s.last < r.first
          /\ r.first <= r.last
      BY <1>1 DEF LanesOK, LaneCut
    <3>2. s.first <= n /\ r.first \in Nat
      BY <1>1 DEF Seqs, Lane, Rows, TypeOK, JournalOK, Segment
    <3> QED BY <2>3, <3>1, <3>2, <1>1
  <2> QED BY <2>1, <2>2, <2>3, <1>7 DEF HeadFrom
<1> QED BY <1>1, <1>3, <1>5, <1>6, <1>8, <1>9, <1>10

\* Every step keeps layer 4.
LEMMA AppliedStep ==
  ASSUME TypeOK, OwnLanes, Provenance, LanesOK, AppliedOK, (TypeOK /\ OwnLanes)', [Next]_vars
  PROVE  AppliedOK'
<1>1. ASSUME NEW e \in Device, Same(e), NEW w \in Device \ {e}
      PROVE  AppliedFrom(e, w)' /\ HeadFrom(e, w)'
  BY <1>1, AppliedFrame, HeadFrame DEF AppliedOK, Same, SameJournal, SameAssets
<1>2. ASSUME NEW d \in Device, DeviceStep(d), NEW w \in Device \ {d}
      PROVE  AppliedFrom(d, w)' /\ HeadFrom(d, w)'
  <2>1. blobLocal[d] \subseteq blobLocal'[d]
    BY <1>2, BlobsGrow
  <2>2. CASE ~\E s \in rows[d] : \E n \in Seqs(s) : ApplyChangeSet(d, s, n)
    BY <1>2, <2>1, <2>2, AppliedSame, AppliedFrame, HeadFrame DEF AppliedOK
  <2>3. ASSUME NEW s \in rows[d], NEW n \in Seqs(s), ApplyChangeSet(d, s, n)
        PROVE  AppliedFrom(d, w)' /\ HeadFrom(d, w)'
    <3>1. CASE w = s.by
      BY <2>3, <3>1, ApplyStep
    <3>2. CASE w # s.by
      <4>1. applied'[d][w] = applied[d][w] /\ head'[d][w] = head[d][w]
        BY <2>3, <3>2 DEF ApplyChangeSet, TypeOK, JournalOK
      <4> QED BY <4>1, <2>1, AppliedFrame, HeadFrame DEF AppliedOK
    <3> QED BY <3>1, <3>2
  <2> QED BY <2>2, <2>3
<1>3. ASSUME NEW d \in Device, DeviceStep(d)
      PROVE  AppliedOK'
  BY <1>1, <1>2, <1>3, OthersSame DEF AppliedOK
<1>4. ASSUME ProviderStep \/ UNCHANGED vars
      PROVE  AppliedOK'
  BY <1>1, <1>4, ProviderSame DEF AppliedOK
<1> QED BY <1>3, <1>4 DEF Next, DeviceStep, ProviderStep

(***************************************************************************)
(* The journals of the abstract specification.                             *)
(***************************************************************************)
LEMMA AnnounceLemma ==
  ASSUME TypeOK, NEW o \in Object, NEW p \in BOOLEAN,
         log' = Append(log, [obj |-> o, present |-> p])
  PROVE  Announced' = Announced \cup (IF p THEN {o} ELSE {})
<1>1. /\ Len(log) \in Nat /\ Len(log') = Len(log) + 1
      /\ \A i \in 1 .. Len(log) : log'[i] = log[i]
      /\ log'[Len(log) + 1] = [obj |-> o, present |-> p]
  BY DEF TypeOK, ProviderOK, Entry
<1>2. 1 .. Len(log') = (1 .. Len(log)) \cup {Len(log) + 1}
  BY <1>1
<1> QED BY <1>1, <1>2 DEF Announced

\* Announcing a sealed segment shares its part of its writer's journal.
LEMMA ShareStep ==
  ASSUME TypeOK, OwnLanes, Provenance, LanesOK, [Next]_vars, UNCHANGED <<authored, applied>>
  PROVE  [Journal!Next]_Journal!vars
<1>1. CASE log' = log
  BY <1>1 DEF Journal!vars, SharedSets, Announced
<1>2. ASSUME NEW o \in Stored \cap Object, log' = Append(log, [obj |-> o, present |-> FALSE])
      PROVE  UNCHANGED Journal!vars
  BY <1>2, AnnounceLemma DEF Journal!vars, SharedSets
<1>3. ASSUME NEW o \in Object, log' = Append(log, [obj |-> o, present |-> TRUE]),
             \/ o \in inflight
             \/ \E d \in Device : phase[d] = "uploading" /\ o = item[d]
      PROVE  [Journal!Next]_Journal!vars
  <2>1. Announced' = Announced \cup {o}
    BY <1>3, AnnounceLemma
  <2>2. CASE o \notin Segment
    BY <2>1, <2>2 DEF Journal!vars, SharedSets
  <2>3. CASE o \in Segment
    <3>1. o.by \in Device /\ o \in Lane(o.by)
      <4>1. o.by \in Device
        BY <2>3, SegmentLemma
      <4>2. \/ o \in Lane(o.by)
            \/ \E d \in Device : o \in Lane(d)
        BY <1>3, <2>3 DEF Provenance, Authentic, OutgoingOwn
      <4> QED BY <4>1, <4>2 DEF Lane, Rows
    <3>2. /\ LaneCut(o.by) /\ LaneAuthored(o.by)
          /\ o.last <= SealedTo(o.by) /\ SealedTo(o.by) \in Nat
          /\ o.first \in Nat \ {0} /\ o.last \in Nat /\ o.first <= o.last
          /\ authored[o.by] \in Nat /\ Quota[o.by] \in Nat
      BY <2>3, <3>1, SealedLemma, QuotaAssumption
      DEF LanesOK, LaneCut, Lane, Segment, TypeOK, JournalOK
    <3>3. o.first .. o.last \subseteq applied[o.by][o.by]
      BY <3>2 DEF LaneAuthored
    <3>4. o.first \in 1 .. Quota[o.by] /\ o.last \in 1 .. Quota[o.by]
      BY <3>2 DEF LaneAuthored
    <3>5. SharedSets' = SharedSets \cup { [by |-> o.by, seq |-> n] : n \in o.first .. o.last }
      BY <2>1, <2>3 DEF SharedSets, ChangeSets, Seqs
    <3>6. Journal!Share(o.by, o.first, o.last)
      BY <3>3, <3>5 DEF Journal!Share
    <3> QED BY <3>1, <3>4, <3>6 DEF Journal!Next
  <2> QED BY <2>2, <2>3
<1> QED BY <1>1, <1>2, <1>3, LogStep

\* Every step is a step of the abstract journal or changes nothing it sees.
LEMMA JournalStep ==
  ASSUME TypeOK, OwnLanes, Provenance, LanesOK, AppliedOK, (TypeOK /\ OwnLanes)', [Next]_vars
  PROVE  [Journal!Next]_Journal!vars
<1>1. ASSUME NEW d \in Device, Author(d)
      PROVE  [Journal!Next]_Journal!vars
  <2>1. log' = log /\ applied' = applied
    BY <1>1 DEF Author, providerVars
  <2>2. Journal!Author(d)
    BY <1>1, <2>1 DEF Author, Journal!Author, SharedSets, Announced
  <2> QED BY <2>2 DEF Journal!Next
<1>2. ASSUME NEW d \in Device, NEW last \in 1 .. upTo[d], SealSegment(d, last)
      PROVE  [Journal!Next]_Journal!vars
  <2>1. /\ LaneAuthored(d) /\ LaneAuthored(d)'
        /\ SealedTo(d)' = last /\ SealedTo(d) < last /\ SealedTo(d) \in Nat /\ last \in Nat
        /\ authored[d] \in Nat /\ Quota[d] \in Nat
    BY <1>2, SealStep, SealedLemma, QuotaAssumption DEF LanesOK, TypeOK, JournalOK, CycleOK
  <2>2. log' = log /\ authored' = authored
    BY <1>2 DEF SealSegment, providerVars
  <2>3. applied'[d][d] = 1 .. last /\ last <= authored[d] /\ last \in 1 .. Quota[d]
    BY <2>1, <2>2 DEF LaneAuthored
  <2>4. applied' = [applied EXCEPT ![d][d] = 1 .. last]
    <3>1. PICK S : applied' = [applied EXCEPT ![d][d] = S]
      BY <1>2 DEF SealSegment
    <3>2. S = 1 .. last
      BY <2>3, <3>1 DEF TypeOK, JournalOK
    <3> QED BY <3>1, <3>2
  <2>5. applied[d][d] \subseteq 1 .. last /\ \A m \in 1 .. last : m <= authored[d]
    BY <2>1, <2>3 DEF LaneAuthored
  <2>6. Journal!Apply(d, d, last)
    BY <2>2, <2>4, <2>5 DEF Journal!Apply, SharedSets, Announced
  <2> QED BY <2>3, <2>6 DEF Journal!Next
<1>3. ASSUME NEW d \in Device, NEW s \in rows[d], NEW n \in Seqs(s), ApplyChangeSet(d, s, n)
      PROVE  [Journal!Next]_Journal!vars
  <2>1. /\ s.by \in Device \ {d}
        /\ applied[d][s.by] = 1 .. n - 1
        /\ applied' = [applied EXCEPT ![d][s.by] = 1 .. n]
        /\ [by |-> s.by, seq |-> n] \in SharedSets
    BY <1>3, ApplyStep
  <2>2. n \in Nat \ {0} /\ n <= SealedTo(s.by) /\ SealedTo(s.by) \in Nat
    BY <2>1, SharedLemma, SealedLemma DEF TypeOK
  <2>3. n \in 1 .. Quota[s.by]
    <3>1. SealedTo(s.by) <= authored[s.by] /\ authored[s.by] <= Quota[s.by]
      BY <2>1 DEF LanesOK, LaneAuthored
    <3>2. authored[s.by] \in Nat /\ Quota[s.by] \in Nat
      BY <2>1, QuotaAssumption DEF TypeOK, JournalOK
    <3> QED BY <2>2, <3>1, <3>2
  <2>4. log' = log /\ authored' = authored
    BY <1>3 DEF ApplyChangeSet, providerVars
  <2>5. applied[d][s.by] \subseteq 1 .. n /\ \A m \in 1 .. n \ applied[d][s.by] : m = n
    BY <2>1, <2>2
  <2>6. Journal!Apply(d, s.by, n)
    BY <2>1, <2>4, <2>5 DEF Journal!Apply, SharedSets, Announced
  <2> QED BY <2>1, <2>3, <2>6 DEF Journal!Next
<1>4. ASSUME NEW d \in Device, DeviceStep(d), UNCHANGED <<authored, applied>>
      PROVE  [Journal!Next]_Journal!vars
  BY <1>4, ShareStep
<1>5. ASSUME ProviderStep \/ UNCHANGED vars
      PROVE  [Journal!Next]_Journal!vars
  <2>1. UNCHANGED <<authored, applied>>
    BY <1>5 DEF ProviderStep, LateUpload, LoseObject, vars, journalVars
  <2> QED BY <2>1, ShareStep
<1>6. ASSUME NEW d \in Device, DeviceStep(d)
      PROVE  [Journal!Next]_Journal!vars
  BY <1>1, <1>2, <1>3, <1>4, <1>6, JournalSame
<1> QED BY <1>5, <1>6 DEF Next, DeviceStep, ProviderStep

(* The invariant and what follows from it *)

\* Layers 1 to 4 on top of the types: the inductive invariant.
JournalInv ==
  /\ TypeOK /\ OwnLanes
  /\ Provenance /\ LanesOK /\ ReceiptsOK /\ AppliedOK

\* The invariant holds at first, and the first state is one of the journal.
LEMMA JournalInit == Init => JournalInv /\ Journal!Init
<1> SUFFICES ASSUME Init PROVE JournalInv /\ Journal!Init
  OBVIOUS
<1>1. Announced = {} /\ SharedSets = {}
  BY DEF Init, Announced, SharedSets
<1>2. /\ \A d \in Device : Lane(d) = {} /\ SealedTo(d) = 0
      /\ \A d \in Device : phase[d] = "idle"
  BY DEF Init, Lane, Rows, SealedTo
<1>3. Provenance
  BY <1>1, <1>2 DEF Init, Provenance, Authentic, RowsOK, InboxForeign, OutgoingOwn
<1>4. LanesOK
  BY <1>2, QuotaAssumption DEF Init, LanesOK, LaneCut, LaneLinked, LaneAuthored
<1>5. ReceiptsOK
  BY <1>1, <1>2 DEF Init, ReceiptsOK, SharedReady, PublishedOK, ArrivedOK, UploadedOK, ReadyOK
<1>6. AppliedOK
  <2>1. 0 \in Nat /\ {} = 1 .. 0
    OBVIOUS
  <2> QED BY <1>2, <2>1 DEF Init, AppliedOK, AppliedFrom, HeadFrom
<1>7. Journal!Init
  BY <1>1 DEF Init, Journal!Init
<1> QED BY <1>3, <1>4, <1>5, <1>6, <1>7, InitTyped DEF JournalInv

(***************************************************************************)
(* The four layers together are inductive.                                 *)
(***************************************************************************)
LEMMA JournalInvariant == Spec => []JournalInv
<1>1. JournalInv /\ [Next]_vars => JournalInv'
  <2> SUFFICES ASSUME JournalInv, [Next]_vars PROVE JournalInv'
    OBVIOUS
  <2>1. TypeOK' /\ OwnLanes'
    BY TypeStep, LanesStep DEF JournalInv
  <2> QED BY <2>1, ProvenanceStep, LanesOKStep, ReceiptsStep, AppliedStep DEF JournalInv
<1> QED BY JournalInit, <1>1, PTL DEF Spec

(***************************************************************************)
(* A published segment or an available blob was announced.                 *)
(***************************************************************************)
THEOREM ReceiptsTrue == Spec => []ReceiptsAreTrue
<1>1. JournalInv => ReceiptsAreTrue
  BY DEF JournalInv, ReceiptsOK, ReceiptsAreTrue, PublishedOK, ArrivedOK, Lane
<1> QED BY JournalInvariant, <1>1, PTL

(***************************************************************************)
(* Blobs are announced before the segments that need them, and verified    *)
(* before the change sets that bind them are applied.                      *)
(***************************************************************************)
THEOREM BlobsComeFirst == Spec => []BlobsFirst
<1>1. JournalInv => BlobsFirst
  BY DEF JournalInv, ReceiptsOK, SharedReady, BlobsAnnounced, AppliedOK, AppliedFrom, BlobsFirst
<1> QED BY JournalInvariant, <1>1, PTL

(***************************************************************************)
(* ingestSegments never quarantines what an honest writer published.       *)
(***************************************************************************)
THEOREM HonestAccepted == Spec => []HonestSegmentsAccepted
<1>1. JournalInv => HonestSegmentsAccepted
  <2> SUFFICES ASSUME JournalInv, NEW d \in Device,
                      NEW s \in staged[d] \cap downloaded[d] \cap Segment
               PROVE  ChainLinks(d, s)
    BY DEF HonestSegmentsAccepted
  <2> DEFINE w == s.by
  <2>1. w \in Device \ {d} /\ s \in Lane(w)
    BY SegmentLemma DEF JournalInv, Provenance, InboxForeign, Authentic
  <2>2. Rows(d, w) \subseteq Lane(w)
    BY <2>1 DEF JournalInv, Provenance, RowsOK, Authentic, Rows, TypeOK, JournalOK
  <2>3. LaneCut(w) /\ LaneLinked(w) /\ AppliedFrom(d, w) /\ HeadFrom(d, w)
    BY <2>1 DEF JournalInv, LanesOK, AppliedOK
  <2>4. Lane(w) \subseteq Segment /\ \A t \in Segment : {t.first, t.last} \subseteq Nat \ {0}
    BY <2>1 DEF JournalInv, TypeOK, JournalOK, Lane, Rows, Segment
  <2>5. ASSUME NEW r \in Rows(d, w)
        PROVE  /\ r.last = s.first - 1 => s.prev = Hash(r)
               /\ r.first = s.last + 1 => r.prev = Hash(s)
    <3>1. r \in Lane(w) /\ {r.first, r.last, s.first, s.last} \subseteq Nat
      BY <2>1, <2>2, <2>4
    <3> QED BY <3>1, <2>1, <2>3 DEF LaneLinked
  <2>6. PICK m \in Nat : applied[d][w] = 1 .. m
    BY <2>3 DEF AppliedFrom
  <2>7. Contiguous(applied[d][w]) = m
    BY <2>6, ContiguousLemma
  <2>8. ASSUME s.first = m + 1, m # 0
        PROVE  s.prev = head[d][w]
    <3>1. m \in 1 .. SealedTo(w)
      <4>1. [by |-> w, seq |-> m] \in SharedSets
        BY <2>3, <2>6, <2>8 DEF AppliedFrom
      <4> QED BY <4>1, <2>1, SharedLemma, SealedLemma DEF JournalInv, TypeOK
    <3>2. PICK r \in Lane(w) : m \in Seqs(r)
      BY <3>1, <2>3 DEF LaneCut
    <3>3. r.first <= m /\ m <= r.last /\ {r.first, r.last, s.first, s.last} \subseteq Nat
      BY <3>2, <2>1, <2>4 DEF Seqs
    <3>4. r = s \/ r.last < s.first \/ s.last < r.first
      BY <3>2, <2>1, <2>3 DEF LaneCut
    <3>5. s.first <= s.last
      BY <2>1, <2>3 DEF LaneCut
    <3>6. r.last = m
      BY <3>3, <3>4, <3>5, <2>8
    <3>7. head[d][w] = Hash(r)
      BY <3>2, <3>6, <2>3, <2>7 DEF HeadFrom
    <3>8. s.prev = Hash(r)
      BY <3>2, <3>6, <2>1, <2>3, <2>8 DEF LaneLinked
    <3> QED BY <3>7, <3>8
  <2>9. s.first = 1 => s.prev = None
    BY <2>1, <2>3 DEF LaneLinked
  <2> QED BY <2>5, <2>7, <2>8, <2>9 DEF ChainLinks
<1> QED BY JournalInvariant, <1>1, PTL

(***************************************************************************)
(* A lane never forks: of the segments of one writer that the provider     *)
(* announced or still receives, no two hold the same change set, and       *)
(* neighbours are chained, although sealing, uploading and its receipt are *)
(* separate steps (sealSegments, publishSegments).                         *)
(***************************************************************************)
LanesNeverFork ==
  \A s, t \in (Announced \cup inflight) \cap Segment : s.by = t.by =>
    /\ s = t \/ Seqs(s) \cap Seqs(t) = {}
    /\ t.first = s.last + 1 => t.prev = Hash(s)

THEOREM NoForks == Spec => []LanesNeverFork
<1>1. JournalInv => LanesNeverFork
  <2> SUFFICES ASSUME JournalInv,
                      NEW s \in (Announced \cup inflight) \cap Segment,
                      NEW t \in (Announced \cup inflight) \cap Segment, s.by = t.by
               PROVE  /\ s = t \/ Seqs(s) \cap Seqs(t) = {}
                      /\ t.first = s.last + 1 => t.prev = Hash(s)
    BY DEF LanesNeverFork
  <2> DEFINE w == s.by
  <2>1. w \in Device /\ s \in Lane(w) /\ t \in Lane(w)
    BY SegmentLemma DEF JournalInv, Provenance, Authentic
  <2>2. LaneCut(w) /\ LaneLinked(w)
    BY <2>1 DEF JournalInv, LanesOK
  <2>3. {s.first, s.last, t.first, t.last} \subseteq Nat
    BY DEF Segment
  <2>4. s = t \/ Seqs(s) \cap Seqs(t) = {}
    <3>1. s = t \/ s.last < t.first \/ t.last < s.first
      BY <2>1, <2>2 DEF LaneCut
    <3> QED BY <3>1, <2>3 DEF Seqs
  <2>5. t.first = s.last + 1 => t.prev = Hash(s)
    BY <2>1, <2>2, <2>3 DEF LaneLinked
  <2> QED BY <2>4, <2>5
<1> QED BY JournalInvariant, <1>1, PTL

(***************************************************************************)
(* What a device has applied of any writer, itself included, is an initial *)
(* part of that writer's journal: one number says it all, which is why the *)
(* frontier's contiguous number may stand for a lane.                      *)
(***************************************************************************)
AppliedArePrefixes ==
  \A d, w \in Device : \E m \in 0 .. authored[w] : applied[d][w] = 1 .. m

THEOREM PrefixesApplied == Spec => []AppliedArePrefixes
<1>1. JournalInv => AppliedArePrefixes
  <2> SUFFICES ASSUME JournalInv, NEW d \in Device, NEW w \in Device
               PROVE  \E m \in 0 .. authored[w] : applied[d][w] = 1 .. m
    BY DEF AppliedArePrefixes
  <2>1. /\ authored[w] \in Nat /\ SealedTo(w) \in Nat
        /\ SealedTo(w) <= authored[w]
        /\ applied[w][w] = 1 .. SealedTo(w)
    BY SealedLemma DEF JournalInv, TypeOK, JournalOK, LanesOK, LaneAuthored
  <2>2. CASE d = w
    BY <2>1, <2>2
  <2>3. CASE d # w
    <3>1. AppliedFrom(d, w)
      BY <2>3 DEF JournalInv, AppliedOK
    <3>2. PICK m \in Nat : applied[d][w] = 1 .. m
      BY <3>1 DEF AppliedFrom
    <3>3. \A n \in applied[d][w] : n <= SealedTo(w)
      BY <3>1, SharedLemma DEF AppliedFrom, JournalInv
    <3>4. m <= authored[w]
      <4>1. m = 0 \/ m \in applied[d][w]
        BY <3>2
      <4> QED BY <4>1, <3>3, <2>1
    <3> QED BY <3>2, <3>4
  <2> QED BY <2>2, <2>3
<1> QED BY JournalInvariant, <1>1, PTL

(***************************************************************************)
(* The engine implements SharedJournal: every step of it authors, shares   *)
(* or applies as the abstract specification allows, or does nothing there. *)
(***************************************************************************)
THEOREM Implements == Spec => ImplementsJournal
<1>1. JournalInv /\ JournalInv' /\ [Next]_vars => [Journal!Next]_Journal!vars
  BY JournalStep DEF JournalInv
<1> QED BY JournalInit, JournalInvariant, <1>1, PTL DEF Spec, ImplementsJournal, Journal!Spec

=============================================================================
