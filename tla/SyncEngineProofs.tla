-------------------------- MODULE SyncEngineProofs --------------------------
(***************************************************************************)
(* Type correctness of SyncEngine, for every set of devices and blobs and  *)
(* every bound.  TypeOK alone is not inductive: the next segment of a      *)
(* device is numbered after the newest of its lane, so the lane must have  *)
(* a newest segment (OwnLanes).                                            *)
(***************************************************************************)
EXTENDS SyncEngine, TLAPS

\* A lane that has segments has a newest one.
OwnLanes ==
  \A d \in Device : Rows(d, d) # {} =>
    \E s \in Rows(d, d) : \A t \in Rows(d, d) : t.last <= s.last

(***************************************************************************)
(* Where the own lane ends (sealLane's lastSegment): a sequence number no  *)
(* segment of the lane passes, and a hash or none.                         *)
(***************************************************************************)
LEMMA SealedLemma ==
  ASSUME JournalOK, OwnLanes, NEW d \in Device
  PROVE  /\ SealedTo(d) \in Nat
         /\ SealedHash(d) \in Hashes
         /\ \A t \in Rows(d, d) : t.last <= SealedTo(d)
         /\ Rows(d, d) = {} => SealedTo(d) = 0
<1>1. Rows(d, d) \subseteq Segment
  BY DEF JournalOK, Rows
<1>2. CASE Rows(d, d) = {}
  BY <1>2 DEF SealedTo, SealedHash, Hashes
<1>3. CASE Rows(d, d) # {}
  <2>1. LastSealed(d) \in Rows(d, d) /\ \A t \in Rows(d, d) : t.last <= LastSealed(d).last
    BY <1>3 DEF LastSealed, OwnLanes
  <2>2. LastSealed(d) \in Segment
    BY <2>1, <1>1
  <2> QED BY <2>1, <2>2, <1>3 DEF SealedTo, SealedHash, Hash, Hashes, Segment
<1> QED BY <1>2, <1>3

\* The segment sealLane builds is a segment, and so is its hash.
LEMMA SealLemma ==
  ASSUME JournalOK, OwnLanes, NEW d \in Device, NEW last \in Nat, last > SealedTo(d)
  PROVE  LET s == [by |-> d, first |-> SealedTo(d) + 1, last |-> last, prev |-> SealedHash(d)]
         IN  /\ s \in Segment
             /\ Hash(s) \in Hashes
             /\ Seqs(s) \subseteq Nat \ {0}
<1>1. SealedTo(d) \in Nat /\ SealedHash(d) \in Hashes
  BY SealedLemma
<1> QED BY <1>1 DEF Segment, Hash, Hashes, Seqs

\* The fields of a segment, and what is computed from it, have their types.
LEMMA SegmentLemma ==
  ASSUME NEW s \in Segment
  PROVE  /\ s.by \in Device
         /\ Hash(s) \in Hashes
         /\ Seqs(s) \subseteq Nat \ {0}
         /\ ChangeSets(s) \subseteq ChangeSet
BY DEF Segment, Hash, Hashes, Seqs, ChangeSets, ChangeSet

\* What the log holds are objects.
LEMMA LogLemma ==
  ASSUME ProviderOK
  PROVE  /\ Len(log) \in Nat
         /\ \A i \in 1 .. Len(log) : log[i] \in Entry /\ log[i].obj \in Object
<1>1. \A i \in 1 .. Len(log) : log[i] \in Entry
  BY DEF ProviderOK
<1>2. \A e \in Entry : e.obj \in Object
  BY DEF Entry
<1> QED BY <1>1, <1>2 DEF ProviderOK

\* The provider only ever appends to what it announced.
LEMMA AppendLemma ==
  ASSUME ProviderOK, log' = log \/ \E e \in Entry : log' = Append(log, e)
  PROVE  /\ log' \in Seq(Entry)
         /\ Len(log) <= Len(log')
         /\ \A i \in 1 .. Len(log) : log'[i] = log[i]
BY LogLemma DEF ProviderOK

\* An announcement and a removal of an object are entries of the log.
LEMMA EntryLemma ==
  ASSUME NEW o \in Object
  PROVE  /\ [obj |-> o, present |-> TRUE] \in Entry
         /\ [obj |-> o, present |-> FALSE] \in Entry
BY DEF Entry

(***************************************************************************)
(* Every action keeps every table typed.                                   *)
(***************************************************************************)
LEMMA TypeStep ==
  ASSUME TypeOK, OwnLanes, [Next]_vars
  PROVE  TypeOK'
<1> USE DEF TypeOK, providerVars, journalVars, inboxVars, transferVars, remoteVars,
            cursorVars, assetVars, bindingVars, workVars, cycleVars
<1>0. /\ Blob \subseteq Object /\ Segment \subseteq Object
      /\ \A d \in Device : \A i \in page[d] : log[i].obj \in Object
  BY LogLemma DEF Object, PhaseOK
<1>1. ASSUME NEW d \in Device, NEW b \in Blob, VerifyLocalBlob(d, b)
      PROVE  TypeOK'
  <2>1. ProviderOK' /\ JournalOK' /\ TransferOK' /\ RemoteOK' /\ CursorOK' /\ BindingOK' /\ CycleOK'
    BY <1>1 DEF VerifyLocalBlob, ProviderOK, JournalOK, TransferOK, RemoteOK, CursorOK, BindingOK, CycleOK
  <2>2. InboxOK'
    BY <1>1, <1>0 DEF VerifyLocalBlob, InboxOK
  <2>3. AssetOK'
    BY <1>1 DEF VerifyLocalBlob, AssetOK
  <2>4. \A e \in Device : PhaseOK(e)'
    BY <1>1 DEF VerifyLocalBlob, PhaseOK, CycleOK
  <2> QED BY <2>1, <2>2, <2>3, <2>4
<1>2. ASSUME NEW d \in Device, Author(d)
      PROVE  TypeOK'
  <2>1. [by |-> d, seq |-> authored[d] + 1] \in ChangeSet
    BY DEF JournalOK, ChangeSet
  <2>2. ProviderOK' /\ InboxOK' /\ TransferOK' /\ RemoteOK' /\ CursorOK' /\ BindingOK' /\ CycleOK'
    BY <1>2 DEF Author, ProviderOK, InboxOK, TransferOK, RemoteOK, CursorOK, BindingOK, CycleOK
  <2>3. JournalOK'
    BY <1>2 DEF Author, JournalOK
  <2>4. AssetOK'
    BY <1>2, <2>1 DEF Author, AssetOK
  <2>5. \A e \in Device : PhaseOK(e)'
    BY <1>2 DEF Author, PhaseOK, CycleOK
  <2> QED BY <2>2, <2>3, <2>4, <2>5
<1>3. ASSUME NEW d \in Device, StartCycle(d)
      PROVE  TypeOK'
  BY <1>3, <1>0 DEF StartCycle, ProviderOK, JournalOK, InboxOK, TransferOK, RemoteOK, CursorOK, AssetOK,
         BindingOK, CycleOK, Phase, PhaseOK
<1>4. ASSUME NEW d \in Device, FinishSealing(d)
      PROVE  TypeOK'
  BY <1>4, <1>0 DEF FinishSealing, ProviderOK, JournalOK, InboxOK, TransferOK, RemoteOK, CursorOK, AssetOK,
         BindingOK, CycleOK, Phase, PhaseOK
<1>5. ASSUME NEW d \in Device, NEW last \in 1 .. upTo[d], SealSegment(d, last)
      PROVE  TypeOK'
  <2>1. last \in Nat /\ last > SealedTo(d)
    BY <1>5, SealedLemma DEF SealSegment, CycleOK
  <2> DEFINE s == [by |-> d, first |-> SealedTo(d) + 1, last |-> last, prev |-> SealedHash(d)]
  <2>3. s \in Segment /\ Hash(s) \in Hashes /\ Seqs(s) \subseteq Nat \ {0}
    BY <2>1, SealLemma
  <2>4. ProviderOK' /\ TransferOK' /\ RemoteOK' /\ CursorOK' /\ AssetOK' /\ BindingOK' /\ CycleOK'
    BY <1>5 DEF SealSegment, ProviderOK, TransferOK, RemoteOK, CursorOK, AssetOK, BindingOK, CycleOK
  <2>5. JournalOK'
    BY <1>5, <2>3 DEF SealSegment, JournalOK
  <2>6. InboxOK'
    BY <1>5, <2>3, <1>0 DEF SealSegment, InboxOK
  <2>7. \A e \in Device : PhaseOK(e)'
    BY <1>5 DEF SealSegment, PhaseOK, CycleOK
  <2> QED BY <2>4, <2>5, <2>6, <2>7
<1>6. ASSUME NEW d \in Device, CaptureStartCursor(d)
      PROVE  TypeOK'
  BY <1>6, <1>0 DEF CaptureStartCursor, ProviderOK, JournalOK, InboxOK, TransferOK, RemoteOK, CursorOK, AssetOK,
         BindingOK, CycleOK, Phase, PhaseOK
<1>7. ASSUME NEW d \in Device, List(d)
      PROVE  TypeOK'
  BY <1>7, <1>0 DEF List, ProviderOK, JournalOK, InboxOK, TransferOK, RemoteOK, CursorOK, AssetOK,
         BindingOK, CycleOK, Phase, PhaseOK
<1>8. ASSUME NEW d \in Device, NEW i \in page[d], ObserveKnown(d, i)
      PROVE  TypeOK'
  BY <1>8, <1>0 DEF ObserveKnown, Staging, ProviderOK, JournalOK, InboxOK, TransferOK, RemoteOK, CursorOK, AssetOK,
         BindingOK, CycleOK, Phase, PhaseOK
<1>9. ASSUME NEW d \in Device, NEW i \in page[d], BeginDownload(d, i)
      PROVE  TypeOK'
  <2>1. log[i].obj \in Object
    BY <1>0
  <2>2. ProviderOK' /\ JournalOK' /\ CursorOK' /\ AssetOK' /\ BindingOK'
    BY <1>9 DEF BeginDownload, Staging, ProviderOK, JournalOK, CursorOK, AssetOK, BindingOK
  <2>3. InboxOK'
    BY <1>9, <2>1 DEF BeginDownload, Staging, InboxOK
  <2>4. TransferOK'
    BY <1>9, <2>1 DEF BeginDownload, Staging, TransferOK
  <2>5. RemoteOK'
    BY <1>9, <2>1 DEF BeginDownload, Staging, RemoteOK
  <2>6. CycleOK'
    BY <1>9, <2>1 DEF BeginDownload, Staging, CycleOK, Phase
  <2>7. \A e \in Device : PhaseOK(e)'
    BY <1>9, <2>1 DEF BeginDownload, Staging, PhaseOK, CycleOK
  <2> QED BY <2>2, <2>3, <2>4, <2>5, <2>6, <2>7
<1>10. ASSUME NEW d \in Device, FinishDownload(d)
      PROVE  TypeOK'
  BY <1>10, <1>0 DEF FinishDownload, ProviderOK, JournalOK, InboxOK, TransferOK, RemoteOK, CursorOK, AssetOK,
         BindingOK, CycleOK, Phase, PhaseOK
<1>11. ASSUME NEW d \in Device, DownloadMissing(d)
      PROVE  TypeOK'
  BY <1>11, <1>0 DEF DownloadMissing, AbandonCycle, ProviderOK, JournalOK, InboxOK, TransferOK, RemoteOK, CursorOK, AssetOK,
         BindingOK, CycleOK, Phase, PhaseOK
<1>12. ASSUME NEW d \in Device, NEW i \in page[d], IgnoreRemoval(d, i)
      PROVE  TypeOK'
  BY <1>12, <1>0 DEF IgnoreRemoval, Staging, ProviderOK, JournalOK, InboxOK, TransferOK, RemoteOK, CursorOK, AssetOK,
         BindingOK, CycleOK, Phase, PhaseOK
<1>13. ASSUME NEW d \in Device, NEW i \in page[d], RecordRemoval(d, i)
      PROVE  TypeOK'
  <2>1. log[i].obj \in Object
    BY <1>0
  <2>2. ProviderOK' /\ JournalOK' /\ InboxOK' /\ TransferOK' /\ CursorOK' /\ AssetOK'
    BY <1>13 DEF RecordRemoval, AbandonCycle, Staging, ProviderOK, JournalOK, InboxOK, TransferOK, CursorOK, AssetOK
  <2>3. RemoteOK'
    BY <1>13, <2>1 DEF RecordRemoval, AbandonCycle, Staging, RemoteOK
  <2>4. BindingOK'
    BY <1>13 DEF RecordRemoval, AbandonCycle, Staging, BindingOK
  <2>5. CycleOK'
    BY <1>13 DEF RecordRemoval, AbandonCycle, Staging, CycleOK, Phase
  <2>6. \A e \in Device : PhaseOK(e)'
    BY <1>13 DEF RecordRemoval, AbandonCycle, Staging, PhaseOK, CycleOK
  <2> QED BY <2>2, <2>3, <2>4, <2>5, <2>6
<1>14. ASSUME NEW d \in Device, CommitPage(d)
      PROVE  TypeOK'
  BY <1>14, <1>0 DEF CommitPage, ProviderOK, JournalOK, InboxOK, TransferOK, RemoteOK, CursorOK, AssetOK,
         BindingOK, CycleOK, Phase, PhaseOK
<1>15. ASSUME NEW d \in Device, NEW s \in staged[d], IngestSegment(d, s)
      PROVE  TypeOK'
  <2>1. s \in Segment /\ s \in Object
    BY <1>15, <1>0 DEF IngestSegment
  <2>2. rows' = rows \/ rows' = [rows EXCEPT ![d] = @ \cup {s}]
    BY <1>15 DEF IngestSegment
  <2>3. UNCHANGED <<authored, unpublished, applied, head>>
    BY <1>15 DEF IngestSegment
  <2>4. ProviderOK' /\ TransferOK' /\ RemoteOK' /\ CursorOK' /\ AssetOK' /\ CycleOK'
    BY <1>15 DEF IngestSegment, ProviderOK, TransferOK, RemoteOK, CursorOK, AssetOK, CycleOK
  <2>5. JournalOK'
    BY <1>15, <2>1, <2>2, <2>3 DEF IngestSegment, JournalOK
  <2>6. InboxOK'
    BY <1>15, <2>1 DEF IngestSegment, InboxOK
  <2>7. BindingOK'
    BY <1>15 DEF IngestSegment, BindingOK
  <2>8. \A e \in Device : PhaseOK(e)'
    BY <1>15 DEF IngestSegment, PhaseOK, CycleOK
  <2> QED BY <2>4, <2>5, <2>6, <2>7, <2>8
<1>16. ASSUME NEW d \in Device, FinishSegments(d)
      PROVE  TypeOK'
  <2>1. InboxBlobs(d) \subseteq Blob
    BY DEF InboxBlobs
  <2>2. ProviderOK' /\ JournalOK' /\ InboxOK' /\ TransferOK' /\ RemoteOK' /\ CursorOK' /\ AssetOK' /\ BindingOK'
    BY <1>16 DEF FinishSegments, ProviderOK, JournalOK, InboxOK, TransferOK, RemoteOK, CursorOK, AssetOK, BindingOK
  <2>3. CycleOK'
    BY <1>16, <2>1, <1>0 DEF FinishSegments, CycleOK, Phase
  <2>4. \A e \in Device : PhaseOK(e)'
    BY <1>16, <2>1 DEF FinishSegments, PhaseOK, CycleOK
  <2> QED BY <2>2, <2>3, <2>4
<1>17. ASSUME NEW d \in Device, NEW b \in todo[d], SkipBlob(d, b)
      PROVE  TypeOK'
  BY <1>17, <1>0 DEF SkipBlob, Installing, ProviderOK, JournalOK, InboxOK, TransferOK, RemoteOK, CursorOK, AssetOK,
         BindingOK, CycleOK, Phase, PhaseOK
<1>18. ASSUME NEW d \in Device, NEW b \in todo[d], DiscardUndeclared(d, b)
      PROVE  TypeOK'
  BY <1>18, <1>0 DEF DiscardUndeclared, Installing, ProviderOK, JournalOK, InboxOK, TransferOK, RemoteOK, CursorOK, AssetOK,
         BindingOK, CycleOK, Phase, PhaseOK
<1>19. ASSUME NEW d \in Device, NEW b \in todo[d], InstallSources(d, b)
      PROVE  TypeOK'
  <2>1. Declared(d) \subseteq ChangeSet
    BY SegmentLemma DEF Declared
  <2>2. b \in Blob /\ Matching(d, b) \subseteq ChangeSet
    BY <1>19, <2>1 DEF InstallSources, Installing, PhaseOK, Matching
  <2>3. ProviderOK' /\ JournalOK' /\ InboxOK' /\ TransferOK' /\ RemoteOK' /\ CursorOK' /\ BindingOK'
    BY <1>19 DEF InstallSources, Installing, ProviderOK, JournalOK, InboxOK, TransferOK, RemoteOK, CursorOK, BindingOK
  <2>4. AssetOK'
    BY <1>19, <2>2 DEF InstallSources, Installing, AssetOK
  <2>5. CycleOK'
    BY <1>19, <2>2, <1>0 DEF InstallSources, Installing, CycleOK, Phase
  <2>6. \A e \in Device : PhaseOK(e)'
    BY <1>19, <2>2 DEF InstallSources, Installing, PhaseOK, CycleOK
  <2> QED BY <2>3, <2>4, <2>5, <2>6
<1>20. ASSUME NEW d \in Device, CommitInstall(d)
      PROVE  TypeOK'
  <2>1. item[d] \in Blob
    BY <1>20 DEF CommitInstall, PhaseOK
  <2>2. ProviderOK' /\ JournalOK' /\ TransferOK' /\ RemoteOK' /\ CursorOK' /\ BindingOK'
    BY <1>20 DEF CommitInstall, ProviderOK, JournalOK, TransferOK, RemoteOK, CursorOK, BindingOK
  <2>3. InboxOK'
    BY <1>20, <2>1, <1>0 DEF CommitInstall, InboxOK
  <2>4. AssetOK'
    BY <1>20, <2>1 DEF CommitInstall, AssetOK
  <2>5. CycleOK'
    BY <1>20 DEF CommitInstall, CycleOK, Phase
  <2>6. \A e \in Device : PhaseOK(e)'
    BY <1>20, <2>1 DEF CommitInstall, PhaseOK, CycleOK
  <2> QED BY <2>2, <2>3, <2>4, <2>5, <2>6
<1>21. ASSUME NEW d \in Device, NEW b \in todo[d], InstallFails(d, b)
      PROVE  TypeOK'
  BY <1>21, <1>0 DEF InstallFails, Installing, ProviderOK, JournalOK, InboxOK, TransferOK, RemoteOK, CursorOK, AssetOK,
         BindingOK, CycleOK, Phase, PhaseOK
<1>22. ASSUME NEW d \in Device, FinishIngest(d)
      PROVE  TypeOK'
  BY <1>22, <1>0 DEF FinishIngest, ProviderOK, JournalOK, InboxOK, TransferOK, RemoteOK, CursorOK, AssetOK,
         BindingOK, CycleOK, Phase, PhaseOK
<1>23. ASSUME NEW d \in Device, NEW s \in rows[d], NEW m \in Seqs(s), ApplyChangeSet(d, s, m)
      PROVE  TypeOK'
  <2>1. /\ s.by \in Device /\ Hash(s) \in Hashes
        /\ m \in Nat \ {0}
    BY SegmentLemma DEF JournalOK
  <2>2. JournalOK'
    BY <1>23, <2>1 DEF ApplyChangeSet, JournalOK
  <2>3. ProviderOK' /\ InboxOK' /\ TransferOK' /\ RemoteOK' /\ CursorOK' /\ AssetOK' /\ BindingOK' /\ CycleOK'
    BY <1>23 DEF ApplyChangeSet, ProviderOK, InboxOK, TransferOK, RemoteOK, CursorOK, AssetOK, BindingOK, CycleOK
  <2>4. \A e \in Device : PhaseOK(e)'
    BY <1>23 DEF ApplyChangeSet, PhaseOK
  <2> QED BY <2>2, <2>3, <2>4
<1>24. ASSUME NEW d \in Device, FinishApply(d)
      PROVE  TypeOK'
  <2>1. blobLocal[d] \ blobRemote[d] \subseteq Blob
    BY DEF AssetOK
  <2>2. ProviderOK' /\ JournalOK' /\ InboxOK' /\ TransferOK' /\ RemoteOK' /\ CursorOK' /\ AssetOK' /\ BindingOK'
    BY <1>24 DEF FinishApply, ProviderOK, JournalOK, InboxOK, TransferOK, RemoteOK, CursorOK, AssetOK, BindingOK
  <2>3. CycleOK'
    BY <1>24, <2>1, <1>0 DEF FinishApply, CycleOK, Phase
  <2>4. \A e \in Device : PhaseOK(e)'
    BY <1>24, <2>1 DEF FinishApply, PhaseOK, CycleOK
  <2> QED BY <2>2, <2>3, <2>4
<1>25. ASSUME NEW d \in Device, FinishBlobs(d)
      PROVE  TypeOK'
  <2>1. unpublished[d] \subseteq Segment
    BY DEF JournalOK
  <2>2. ProviderOK' /\ JournalOK' /\ InboxOK' /\ TransferOK' /\ RemoteOK' /\ CursorOK' /\ AssetOK' /\ BindingOK'
    BY <1>25 DEF FinishBlobs, ProviderOK, JournalOK, InboxOK, TransferOK, RemoteOK, CursorOK, AssetOK, BindingOK
  <2>3. CycleOK'
    BY <1>25, <2>1, <1>0 DEF FinishBlobs, CycleOK, Phase
  <2>4. \A e \in Device : PhaseOK(e)'
    BY <1>25, <2>1 DEF FinishBlobs, PhaseOK, CycleOK
  <2> QED BY <2>2, <2>3, <2>4
<1>26. ASSUME NEW d \in Device, NEW o \in todo[d], BeginUpload(d, o)
      PROVE  TypeOK'
  <2>1. o \in Object
    BY DEF CycleOK
  <2>2. \/ o \in Blob /\ todo[d] \subseteq Blob
        \/ o \in Segment /\ todo[d] \subseteq Segment
    BY <1>26 DEF BeginUpload, NextToPublish, PhaseOK
  <2>3. ProviderOK' /\ JournalOK' /\ InboxOK' /\ RemoteOK' /\ CursorOK' /\ AssetOK' /\ BindingOK'
    BY <1>26 DEF BeginUpload, ProviderOK, JournalOK, InboxOK, RemoteOK, CursorOK, AssetOK, BindingOK
  <2>4. TransferOK'
    BY <1>26, <2>1 DEF BeginUpload, TransferOK
  <2>5. CycleOK'
    BY <1>26, <2>1 DEF BeginUpload, CycleOK, Phase
  <2>6. \A e \in Device : PhaseOK(e)'
    BY <1>26, <2>2 DEF BeginUpload, PhaseOK, CycleOK
  <2> QED BY <2>3, <2>4, <2>5, <2>6
<1>27. ASSUME NEW d \in Device, Upload(d)
      PROVE  TypeOK'
  <2>1. item[d] \in Object
    BY <1>27, <1>0 DEF Upload, PhaseOK
  <2>2. log' = log \/ \E e \in Entry : log' = Append(log, e)
    BY <1>27, <2>1, EntryLemma DEF Upload, Store, Announce
  <2>3. log' \in Seq(Entry) /\ Len(log) <= Len(log')
    BY <2>2, AppendLemma
  <2>4. JournalOK' /\ InboxOK' /\ TransferOK' /\ RemoteOK' /\ CursorOK' /\ AssetOK' /\ BindingOK'
    BY <1>27 DEF Upload, JournalOK, InboxOK, TransferOK, RemoteOK, CursorOK, AssetOK, BindingOK
  <2>5. ProviderOK'
    BY <1>27, <2>3 DEF Upload, ProviderOK
  <2>6. CycleOK'
    BY <1>27 DEF Upload, CycleOK, Phase
  <2>7. \A e \in Device : PhaseOK(e)'
    BY <1>27, <2>3 DEF Upload, PhaseOK, CycleOK, ProviderOK
  <2> QED BY <2>4, <2>5, <2>6, <2>7
<1>28. ASSUME NEW d \in Device, CompleteUploadReceipt(d)
      PROVE  TypeOK'
  <2>1. item[d] \in Object
    BY <1>28, <1>0 DEF CompleteUploadReceipt, PhaseOK
  <2>2. ProviderOK' /\ JournalOK' /\ InboxOK' /\ CursorOK' /\ AssetOK' /\ BindingOK'
    BY <1>28 DEF CompleteUploadReceipt, ProviderOK, JournalOK, InboxOK, CursorOK, AssetOK, BindingOK
  <2>3. TransferOK'
    BY <1>28 DEF CompleteUploadReceipt, TransferOK
  <2>4. RemoteOK'
    BY <1>28, <2>1 DEF CompleteUploadReceipt, RemoteOK
  <2>5. CycleOK'
    BY <1>28 DEF CompleteUploadReceipt, CycleOK, Phase
  <2>6. \A e \in Device : PhaseOK(e)'
    BY <1>28 DEF CompleteUploadReceipt, PhaseOK, CycleOK
  <2> QED BY <2>2, <2>3, <2>4, <2>5, <2>6
<1>29. ASSUME NEW d \in Device, CommitPublished(d)
      PROVE  TypeOK'
  <2>1. \/ item[d] \in Blob /\ todo[d] \subseteq Blob
        \/ item[d] \in Segment /\ item[d] \notin Blob /\ todo[d] \subseteq Segment
    BY <1>29, BlobAssumption DEF CommitPublished, PhaseOK
  <2>2. ProviderOK' /\ InboxOK' /\ TransferOK' /\ RemoteOK' /\ CursorOK' /\ BindingOK'
    BY <1>29 DEF CommitPublished, ProviderOK, InboxOK, TransferOK, RemoteOK, CursorOK, BindingOK
  <2>3. JournalOK'
    BY <1>29, <2>1 DEF CommitPublished, JournalOK
  <2>4. AssetOK'
    BY <1>29, <2>1 DEF CommitPublished, AssetOK
  <2>5. CycleOK'
    BY <1>29 DEF CommitPublished, CycleOK, Phase
  <2>6. \A e \in Device : PhaseOK(e)'
    BY <1>29, <2>1 DEF CommitPublished, PhaseOK, CycleOK
  <2> QED BY <2>2, <2>3, <2>4, <2>5, <2>6
<1>30. ASSUME NEW d \in Device, FinishCycle(d)
      PROVE  TypeOK'
  <2>1. NothingPending(d) \in BOOLEAN
    BY DEF NothingPending
  <2>2. ProviderOK' /\ JournalOK' /\ InboxOK' /\ TransferOK' /\ RemoteOK' /\ CursorOK' /\ AssetOK'
    BY <1>30 DEF FinishCycle, ProviderOK, JournalOK, InboxOK, TransferOK, RemoteOK, CursorOK, AssetOK
  <2>3. BindingOK'
    BY <1>30, <2>1 DEF FinishCycle, BindingOK
  <2>4. CycleOK'
    BY <1>30 DEF FinishCycle, CycleOK, Phase
  <2>5. \A e \in Device : PhaseOK(e)'
    BY <1>30 DEF FinishCycle, PhaseOK, CycleOK
  <2> QED BY <2>2, <2>3, <2>4, <2>5
<1>31. ASSUME NEW d \in Device, Interrupt(d)
      PROVE  TypeOK'
  <2>1. phase[d] = "uploading" => item[d] \in Object
    BY <1>0 DEF PhaseOK
  <2>2. JournalOK' /\ InboxOK' /\ TransferOK' /\ RemoteOK' /\ CursorOK'
    BY <1>31 DEF Interrupt, AbandonCycle, JournalOK, InboxOK, TransferOK, RemoteOK, CursorOK
  <2>3. ProviderOK'
    BY <1>31, <2>1 DEF Interrupt, AbandonCycle, ProviderOK
  <2>4. AssetOK'
    BY <1>31 DEF Interrupt, AbandonCycle, AssetOK
  <2>5. BindingOK'
    BY <1>31 DEF Interrupt, AbandonCycle, BindingOK
  <2>6. CycleOK'
    BY <1>31 DEF Interrupt, AbandonCycle, CycleOK, Phase
  <2>7. \A e \in Device : PhaseOK(e)'
    BY <1>31 DEF Interrupt, AbandonCycle, PhaseOK, CycleOK
  <2> QED BY <2>2, <2>3, <2>4, <2>5, <2>6, <2>7
<1>32. ASSUME NEW o \in inflight, LateUpload(o)
      PROVE  TypeOK'
  <2>1. o \in Object
    BY DEF ProviderOK
  <2>2. log' = log \/ \E e \in Entry : log' = Append(log, e)
    BY <1>32, <2>1, EntryLemma DEF LateUpload, Store, Announce
  <2>3. log' \in Seq(Entry) /\ Len(log) <= Len(log')
    BY <2>2, AppendLemma
  <2>4. ProviderOK'
    BY <1>32, <2>3 DEF LateUpload, ProviderOK
  <2>5. JournalOK' /\ InboxOK' /\ TransferOK' /\ RemoteOK' /\ CursorOK' /\ AssetOK' /\ BindingOK' /\ CycleOK'
    BY <1>32 DEF LateUpload, JournalOK, InboxOK, TransferOK, RemoteOK, CursorOK, AssetOK, BindingOK, CycleOK
  <2>6. \A e \in Device : PhaseOK(e)'
    BY <1>32, <2>3 DEF LateUpload, PhaseOK, CycleOK, ProviderOK
  <2> QED BY <2>4, <2>5, <2>6
<1>33. ASSUME NEW o \in Stored, LoseObject(o)
      PROVE  TypeOK'
  <2>1. o \in Object
    BY LogLemma DEF Stored, Current
  <2>2. log' = log \/ \E e \in Entry : log' = Append(log, e)
    BY <1>33, <2>1, EntryLemma DEF LoseObject, Announce
  <2>3. log' \in Seq(Entry) /\ Len(log) <= Len(log')
    BY <2>2, AppendLemma
  <2>4. ProviderOK'
    BY <1>33, <2>3 DEF LoseObject, ProviderOK
  <2>5. JournalOK' /\ InboxOK' /\ TransferOK' /\ RemoteOK' /\ CursorOK' /\ AssetOK' /\ BindingOK' /\ CycleOK'
    BY <1>33 DEF LoseObject, JournalOK, InboxOK, TransferOK, RemoteOK, CursorOK, AssetOK, BindingOK, CycleOK
  <2>6. \A e \in Device : PhaseOK(e)'
    BY <1>33, <2>3 DEF LoseObject, PhaseOK, CycleOK, ProviderOK
  <2> QED BY <2>4, <2>5, <2>6
<1>34. CASE UNCHANGED vars
  BY <1>34 DEF vars, ProviderOK, JournalOK, InboxOK, TransferOK, RemoteOK, CursorOK, AssetOK,
         BindingOK, CycleOK, Phase, PhaseOK
<1> QED
  BY <1>1, <1>2, <1>3, <1>4, <1>5, <1>6, <1>7, <1>8, <1>9, <1>10,
     <1>11, <1>12, <1>13, <1>14, <1>15, <1>16, <1>17, <1>18, <1>19, <1>20,
     <1>21, <1>22, <1>23, <1>24, <1>25, <1>26, <1>27, <1>28, <1>29, <1>30,
     <1>31, <1>32, <1>33, <1>34
  DEF Next, Cycle, Prepare, Pull, Stage, Ingest, Apply, Publish

(***************************************************************************)
(* Only sealing and ingesting add segments, one at a time.                 *)
(***************************************************************************)
LEMMA RowsStep ==
  ASSUME TypeOK, OwnLanes, [Next]_vars
  PROVE  \/ rows' = rows
         \/ \E d \in Device : \E s \in Segment : rows' = [rows EXCEPT ![d] = @ \cup {s}]
<1> USE DEF journalVars
<1>1. ASSUME NEW d \in Device, NEW last \in 1 .. upTo[d], SealSegment(d, last)
      PROVE  \E s \in Segment : rows' = [rows EXCEPT ![d] = @ \cup {s}]
  <2>1. last \in Nat /\ last > SealedTo(d)
    BY <1>1, SealedLemma DEF SealSegment, TypeOK, CycleOK
  <2> QED BY <1>1, <2>1, SealLemma DEF SealSegment, TypeOK
<1>2. ASSUME NEW d \in Device, NEW s \in staged[d], IngestSegment(d, s)
      PROVE  s \in Segment /\ (rows' = rows \/ rows' = [rows EXCEPT ![d] = @ \cup {s}])
  BY <1>2 DEF IngestSegment
<1>3. ASSUME NEW d \in Device, Prepare(d)
      PROVE  rows' = rows \/ \E last \in 1 .. upTo[d] : SealSegment(d, last)
  BY <1>3 DEF Prepare, StartCycle, FinishSealing
<1>4. ASSUME NEW d \in Device, Pull(d)
      PROVE  rows' = rows
  BY <1>4 DEF Pull, Stage, CaptureStartCursor, List, ObserveKnown, BeginDownload,
              IgnoreRemoval, RecordRemoval, FinishDownload, DownloadMissing, CommitPage
<1>5. ASSUME NEW d \in Device, Ingest(d)
      PROVE  rows' = rows \/ \E s \in staged[d] : IngestSegment(d, s)
  BY <1>5 DEF Ingest, FinishSegments, SkipBlob, DiscardUndeclared, InstallSources,
              InstallFails, CommitInstall, FinishIngest
<1>6. ASSUME NEW d \in Device, Apply(d) \/ Publish(d)
      PROVE  rows' = rows
  BY <1>6 DEF Apply, ApplyChangeSet, FinishApply, Publish, BeginUpload, Upload,
              CompleteUploadReceipt, CommitPublished, FinishBlobs, FinishCycle
<1>7. ASSUME NEW d \in Device, Author(d) \/ (\E b \in Blob : VerifyLocalBlob(d, b)) \/ Interrupt(d)
      PROVE  rows' = rows
  BY <1>7 DEF Author, VerifyLocalBlob, Interrupt
<1>8. ASSUME NEW o, LateUpload(o) \/ LoseObject(o)
      PROVE  rows' = rows
  BY <1>8 DEF LateUpload, LoseObject
<1>9. CASE UNCHANGED vars
  BY <1>9 DEF vars
<1> QED BY <1>1, <1>2, <1>3, <1>4, <1>5, <1>6, <1>7, <1>8, <1>9 DEF Next, Cycle

(***************************************************************************)
(* A segment added to a lane leaves it with a newest one.                  *)
(***************************************************************************)
LEMMA LanesStep ==
  ASSUME TypeOK, OwnLanes, [Next]_vars
  PROVE  OwnLanes'
<1>1. \/ rows' = rows
      \/ \E d \in Device : \E s \in Segment : rows' = [rows EXCEPT ![d] = @ \cup {s}]
  BY RowsStep
<1>2. CASE rows' = rows
  BY <1>2 DEF OwnLanes, Rows
<1>3. ASSUME NEW d \in Device, NEW s \in Segment, rows' = [rows EXCEPT ![d] = @ \cup {s}]
      PROVE  OwnLanes'
  <2>1. \A e \in Device : rows[e] \subseteq Segment
    BY DEF TypeOK, JournalOK
  <2>2. \A t \in Segment : t.last \in Nat
    BY DEF Segment
  <2> SUFFICES ASSUME NEW e \in Device, Rows(e, e)' # {}
               PROVE  \E m \in Rows(e, e)' : \A t \in Rows(e, e)' : t.last <= m.last
    BY DEF OwnLanes
  <2>3. CASE Rows(e, e)' = Rows(e, e)
    BY <2>3 DEF OwnLanes
  <2>4. CASE Rows(e, e)' # Rows(e, e)
    <3>1. Rows(e, e)' = Rows(e, e) \cup {s}
      BY <1>3, <2>4 DEF Rows, TypeOK, JournalOK
    <3>2. CASE Rows(e, e) = {}
      BY <3>1, <3>2, <2>2
    <3>3. CASE Rows(e, e) # {}
      <4>1. PICK m \in Rows(e, e) : \A t \in Rows(e, e) : t.last <= m.last
        BY <3>3 DEF OwnLanes
      <4>2. m \in Segment /\ \A t \in Rows(e, e) : t \in Segment
        BY <2>1, <4>1 DEF Rows
      <4> QED BY <4>1, <4>2, <3>1, <2>2
    <3> QED BY <3>2, <3>3
  <2> QED BY <2>3, <2>4
<1> QED BY <1>1, <1>2, <1>3

\* The first state has the types, and lanes that name their writers.
LEMMA InitTyped == Init => TypeOK /\ OwnLanes
<1> SUFFICES ASSUME Init PROVE TypeOK /\ OwnLanes
  OBVIOUS
<1>1. ProviderOK /\ JournalOK /\ InboxOK /\ TransferOK /\ RemoteOK /\ CursorOK
      /\ AssetOK /\ BindingOK /\ CycleOK
  BY DEF Init, ProviderOK, JournalOK, InboxOK, TransferOK, RemoteOK, CursorOK, AssetOK,
         BindingOK, CycleOK, Phase, Hashes
<1>2. \A d \in Device : PhaseOK(d)
  BY DEF Init, PhaseOK
<1>3. OwnLanes
  BY DEF Init, OwnLanes, Rows
<1> QED BY <1>1, <1>2, <1>3 DEF TypeOK

(***************************************************************************)
(* TypeOK for every number of devices, blobs, change sets, interruptions   *)
(* and losses.                                                             *)
(***************************************************************************)
THEOREM TypeCorrect == Spec => []TypeOK
<1>1. TypeOK /\ OwnLanes /\ [Next]_vars => (TypeOK /\ OwnLanes)'
  BY TypeStep, LanesStep
<1> QED BY InitTyped, <1>1, PTL DEF Spec
=============================================================================
