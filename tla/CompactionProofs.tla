-------------------------- MODULE CompactionProofs --------------------------
(***************************************************************************)
(* Safety of Compaction, for every set of devices and pruners and every    *)
(* bound: the types, and that no step of a truncation, a catch-up, a       *)
(* checkpoint or a prune loses what a device has applied or authored.      *)
(*                                                                         *)
(* The inductive invariant IInv has four parts beside the types and what   *)
(* it is to prove: nothing names history its writer has not sealed         *)
(* (SealedFirst), a writer's published numbers are those whose segment the *)
(* provider took (UploadsOwn), rows planned for deletion are covered by    *)
(* the base there is (DoomedCovered), and a prune plan accounts for every  *)
(* snapshot the device has seen (PlansKnowAll).                            *)
(***************************************************************************)
EXTENDS Compaction, FiniteSetTheorems, TLAPS

(***************************************************************************)
(* Objects and snapshots.                                                  *)
(***************************************************************************)
LEMMA ObjectLemma ==
  /\ \A w \in Device : \A n \in Nat \ {0} :
       SegmentOf(w, n) \in Object /\ SegmentOf(w, n).kind = "segment"
       /\ SegmentOf(w, n).by = w /\ SegmentOf(w, n).seq = n
  /\ \A s \in Snapshot :
       /\ Package(s) \in Object /\ Package(s).kind = "checkpoint" /\ Package(s).of = s
       /\ Marker(s) \in Object /\ Marker(s).kind = "snapshot-commit" /\ Marker(s).of = s
BY DEF SegmentOf, Package, Marker, Object, Segment, SnapshotObject

\* A segment of a set of objects, taken apart.
LEMMA SegmentsLemma ==
  ASSUME NEW S, S \subseteq Object, NEW o \in Segments(S)
  PROVE  /\ o \in S /\ o \in Object /\ o.kind = "segment"
         /\ o.by \in Device /\ o.seq \in Nat \ {0}
         /\ o = SegmentOf(o.by, o.seq)
BY DEF Segments, SegmentOf, Object, Segment, SnapshotObject

\* A commit marker of a set of objects, taken apart.
LEMMA MarkersLemma ==
  ASSUME NEW S, S \subseteq Object, NEW m \in Markers(S)
  PROVE  /\ m \in S /\ m.kind = "snapshot-commit"
         /\ m.of \in Snapshot
         /\ m = Marker(m.of)
BY DEF Markers, Marker, Object, Segment, SnapshotObject

\* A committed snapshot has its marker and its package.
LEMMA CommittedLemma ==
  ASSUME NEW S, S \subseteq Object, NEW s \in Committed(S)
  PROVE  s \in Snapshot /\ Marker(s) \in S /\ Package(s) \in S
BY MarkersLemma DEF Committed

\* What a device's catalog lists can be read there.
LEMMA CatalogLemma ==
  ASSUME RemoteOK, NEW d \in Device
  PROVE  /\ Readable(d) \subseteq Object
         /\ Catalog(d) \subseteq Snapshot
         /\ \A s \in Catalog(d) : Marker(s) \in bytes[d] /\ Package(s) \in bytes[d]
<1>1. Readable(d) \subseteq bytes[d] /\ Readable(d) \subseteq Object
  BY DEF Readable, Listed, RemoteOK
<1> QED BY <1>1, CommittedLemma DEF Catalog

\* Covers are frontiers.
LEMMA CoverLemma ==
  /\ NoCover \in LaneFrontier
  /\ \A s \in Snapshot : s.cover \in LaneFrontier /\ s.by \in Device
BY DEF NoCover, LaneFrontier, Snapshot

\* So is the cover of a base, absent or not.
LEMMA BaseCoverLemma ==
  ASSUME CheckpointOK, NEW d \in Device
  PROVE  BaseCover(d) \in LaneFrontier
BY CoverLemma DEF BaseCover, CheckpointOK

\* A base that is planned, and one that catch-up installs, dominates the base
\* there was.
LEMMA PlannedBaseLemma ==
  ASSUME RemoteOK, CheckpointOK, NEW d \in Device, NEW s \in PlannedBase(d)
  PROVE  s \in Snapshot /\ s # None /\ Dominates(s.cover, BaseCover(d))
<1>1. CASE BaseCandidates(d) = {}
  <2>1. s = base[d] /\ s # None /\ s \in Snapshot
    BY <1>1 DEF PlannedBase, CheckpointOK
  <2> QED BY <2>1, CoverLemma DEF BaseCover, Dominates, LaneFrontier
<1>2. CASE BaseCandidates(d) # {}
  <2>1. s \in BaseCandidates(d)
    BY <1>2 DEF PlannedBase, NewestOf
  <2>2. s \in Catalog(d) /\ Dominates(s.cover, BaseCover(d))
    BY <2>1 DEF BaseCandidates
  <2> QED BY <2>2, CatalogLemma, NoneAssumption
<1> QED BY <1>1, <1>2

\* A snapshot that can be installed is listed and dominates the base.
LEMMA InstallableLemma ==
  ASSUME RemoteOK, NEW d \in Device, NEW s \in Installable(d)
  PROVE  /\ s \in Catalog(d) /\ s \in Snapshot /\ s # None
         /\ Dominates(s.cover, BaseCover(d))
BY CatalogLemma, NoneAssumption DEF Installable, Needed, NewestOf

\* What is late is counted.
LEMMA LateLemma ==
  ASSUME SettledOK, NEW S, IsFiniteSet(S), NEW late \in Late(S)
  PROVE  faults + Cardinality(late) \in 0 .. MaxFaults
BY FS_Subset, FS_CardinalityType, FaultsAssumption DEF Late, SettledOK

\* The key of a catch-up check has its type: it counts a finite set.
LEMMA CheckKeyLemma ==
  ASSUME JournalOK, RemoteOK, NEW d \in Device, IsFiniteSet(bytes[d])
  PROVE  CatchUpCheckKey(d) \in CheckKey
<1>1. Markers(Listed(d)) \subseteq Object
  BY DEF Markers, Listed, RemoteOK
<1>2. IsFiniteSet(Segments(bytes[d]))
  BY FS_Subset DEF Segments
<1>3. Cardinality(Segments(bytes[d])) \in Nat
  BY <1>2, FS_CardinalityType
<1> QED BY <1>1, <1>3 DEF CatchUpCheckKey, CheckKey, JournalOK

-----------------------------------------------------------------------------
(***************************************************************************)
(* Types.  What a device counts must be finite, and a checkpoint that is   *)
(* not published must be known.                                            *)
(***************************************************************************)
Finite == IsFiniteSet(created) /\ \A d \in Device : IsFiniteSet(bytes[d])

\* A checkpoint that is not done exists.
PendingKnown == \A d \in Device : ~checkpointDone[d] => latest[d] \in Snapshot

\* Types, with what is counted finite.
Typed == TypeOK /\ Finite /\ PendingKnown

\* Every step keeps the types.
LEMMA TypeStep ==
  ASSUME Typed, [Next]_vars
  PROVE  Typed'
<1> USE DEF Typed, TypeOK, providerVars, journalVars, remoteVars, ckptVars, cycleVars, GoTo, EndCycle
<1>0. IsFiniteSet(created) /\ \A d \in Device : IsFiniteSet(bytes[d])
  BY DEF Finite
<1>1. ASSUME NEW d \in Device, SealSegment(d)
      PROVE  Typed'
  <2>1. PICK last \in 0 .. Quota[d] - 1 :
          /\ journal' = [journal EXCEPT ![d] = @ \cup {<<d, last + 1>>}]
          /\ applied' = [applied EXCEPT ![d][d] = last + 1]
          /\ bytes' = [bytes EXCEPT ![d] = @ \cup {SegmentOf(d, last + 1)}]
    BY <1>1 DEF SealSegment
  <2>2. last + 1 \in Nat \ {0} /\ SegmentOf(d, last + 1) \in Object /\ <<d, last + 1>> \in Row
    BY QuotaAssumption, ObjectLemma DEF Row
  <2>3. ProviderOK' /\ CheckpointOK' /\ CycleOK' /\ SettledOK' /\ PendingKnown'
    BY <1>1 DEF SealSegment, ProviderOK, CheckpointOK, CycleOK, SettledOK, PendingKnown
  <2>4. JournalOK'
    BY <1>1, <2>1, <2>2 DEF SealSegment, JournalOK, LaneFrontier
  <2>5. RemoteOK'
    BY <1>1, <2>1, <2>2 DEF SealSegment, RemoteOK
  <2>6. Finite'
    <3>1. IsFiniteSet(bytes[d] \cup {SegmentOf(d, last + 1)})
      BY <1>0, FS_AddElement
    <3> QED BY <1>1, <2>1, <3>1, <1>0 DEF SealSegment, Finite, RemoteOK
  <2> QED BY <2>3, <2>4, <2>5, <2>6
<1>2. ASSUME NEW d \in Device, Pull(d)
      PROVE  Typed'
  <2>1. PICK missed \in Late(Stored \ bytes[d]) :
          /\ faults' = faults + Cardinality(missed)
          /\ bytes' = [bytes EXCEPT ![d] = @ \cup (Stored \ missed)]
    BY <1>2 DEF Pull
  <2>2. IsFiniteSet(Stored) /\ IsFiniteSet(Stored \ bytes[d]) /\ IsFiniteSet(Stored \ missed)
    BY <1>0, FS_Subset, FS_Difference DEF Stored
  <2>3. ProviderOK' /\ JournalOK' /\ CheckpointOK' /\ CycleOK' /\ PendingKnown'
    BY <1>2 DEF Pull, ProviderOK, JournalOK, CheckpointOK, CycleOK, Phase, PendingKnown
  <2>4. RemoteOK'
    BY <1>2, <2>1 DEF Pull, RemoteOK, ProviderOK, Stored
  <2>5. SettledOK'
    BY <1>2, <2>1, <2>2, LateLemma DEF Pull, SettledOK
  <2>6. Finite'
    <3>1. IsFiniteSet(bytes[d] \cup (Stored \ missed))
      BY <1>0, <2>2, FS_Union
    <3> QED BY <1>2, <2>1, <3>1, <1>0 DEF Pull, Finite, RemoteOK
  <2> QED BY <2>3, <2>4, <2>5, <2>6
<1>3. ASSUME NEW d \in Device, NoCatchUp(d)
      PROVE  Typed'
  <2>1. CatchUpCheckKey(d) \in CheckKey
    BY <1>0, CheckKeyLemma
  <2>2. ProviderOK' /\ JournalOK' /\ RemoteOK' /\ CheckpointOK' /\ CycleOK' /\ Finite' /\ PendingKnown'
    BY <1>3 DEF NoCatchUp, ProviderOK, JournalOK, RemoteOK, CheckpointOK, CycleOK, Phase, Finite, PendingKnown, CheckpointOK
  <2>3. SettledOK'
    BY <1>3, <2>1 DEF NoCatchUp, SettledOK
  <2> QED BY <2>2, <2>3
<1>4. ASSUME NEW d \in Device, NEW s \in Installable(d), FastForward(d, s)
      PROVE  Typed'
  <2>1. s \in Snapshot /\ s.cover \in LaneFrontier
    BY InstallableLemma, CoverLemma
  <2>2. ProviderOK' /\ RemoteOK' /\ SettledOK' /\ Finite' /\ PendingKnown'
    BY <1>4 DEF FastForward, ProviderOK, RemoteOK, SettledOK, Finite, PendingKnown, CheckpointOK
  <2>3. JournalOK'
    BY <1>4, <2>1 DEF FastForward, JournalOK, LaneFrontier
  <2>4. CheckpointOK'
    BY <1>4, <2>1 DEF FastForward, CheckpointOK
  <2>5. CycleOK'
    BY <1>4, <2>1 DEF FastForward, CycleOK, Phase
  <2> QED BY <2>2, <2>3, <2>4, <2>5
<1>5. ASSUME NEW d \in Device, NEW w \in Device, ApplySegment(d, w)
      PROVE  Typed'
  <2>1. applied[d][w] + 1 \in Nat \ {0} /\ <<w, applied[d][w] + 1>> \in Row
    BY DEF JournalOK, LaneFrontier, Row
  <2>2. ProviderOK' /\ RemoteOK' /\ CheckpointOK' /\ CycleOK' /\ SettledOK' /\ Finite' /\ PendingKnown'
    BY <1>5 DEF ApplySegment, ProviderOK, RemoteOK, CheckpointOK, CycleOK, Phase, SettledOK, Finite, PendingKnown, CheckpointOK
  <2>3. JournalOK'
    BY <1>5, <2>1 DEF ApplySegment, JournalOK, LaneFrontier
  <2> QED BY <2>2, <2>3
<1>6. ASSUME NEW d \in Device, TruncatePrunedLocalSegments(d)
      PROVE  Typed'
  <2>1. IsFiniteSet(bytes[d] \ Truncatable(d))
    BY <1>0, FS_Subset
  <2>2. ProviderOK' /\ JournalOK' /\ CheckpointOK' /\ CycleOK' /\ SettledOK' /\ PendingKnown'
    BY <1>6 DEF TruncatePrunedLocalSegments, ProviderOK, JournalOK, CheckpointOK, CycleOK, Phase, SettledOK, PendingKnown, CheckpointOK
  <2>3. RemoteOK'
    BY <1>6, <2>1 DEF TruncatePrunedLocalSegments, RemoteOK
  <2>4. Finite'
    BY <1>6, <1>0, <2>1 DEF TruncatePrunedLocalSegments, Finite, RemoteOK
  <2> QED BY <2>2, <2>3, <2>4
<1>7. ASSUME NEW d \in Device, NEW s \in PlannedBase(d), NEW kept \in SUBSET Named, Rebase(d, s, kept)
      PROVE  Typed'
  <2>1. s \in Snapshot
    BY PlannedBaseLemma
  <2>2. PICK batch : /\ batch \subseteq CoveredRows(d, s.cover) \ kept
                     /\ journal' = [journal EXCEPT ![d] = @ \ batch]
                     /\ doomed' = [doomed EXCEPT ![d] = (CoveredRows(d, s.cover) \ kept) \ batch]
                     /\ phase' = [phase EXCEPT ![d] =
                                    IF batch = CoveredRows(d, s.cover) \ kept THEN "publish-blobs" ELSE @]
    BY <1>7 DEF Rebase, Batch
  <2>3. CoveredRows(d, s.cover) \subseteq Row
    BY DEF CoveredRows, JournalOK
  <2>4. ProviderOK' /\ RemoteOK' /\ SettledOK' /\ Finite' /\ PendingKnown'
    BY <1>7 DEF Rebase, ProviderOK, RemoteOK, SettledOK, Finite, PendingKnown, CheckpointOK
  <2>5. JournalOK'
    BY <1>7, <2>1, <2>2, <2>3 DEF Rebase, JournalOK
  <2>6. CheckpointOK'
    BY <1>7, <2>1, <2>2, <2>3 DEF Rebase, CheckpointOK
  <2>7. CycleOK'
    BY <1>7, <2>1, <2>2, <2>3 DEF Rebase, CycleOK, Phase
  <2> QED BY <2>4, <2>5, <2>6, <2>7
<1>8. ASSUME NEW d \in Device, DeleteBatch(d)
      PROVE  Typed'
  BY <1>8, <1>0 DEF DeleteBatch, ProviderOK, JournalOK, RemoteOK, CheckpointOK, CycleOK,
     SettledOK, Phase, Finite, PendingKnown
<1>9. ASSUME NEW d \in Device, NoTruncation(d)
      PROVE  Typed'
  BY <1>9, <1>0 DEF NoTruncation, ProviderOK, JournalOK, RemoteOK, CheckpointOK, CycleOK,
     SettledOK, Phase, Finite, PendingKnown
<1>10. ASSUME NEW d \in Device, PublishBlobs(d)
      PROVE  Typed'
  <2>1. PICK late \in Late(Unpublished(d)) :
          /\ faults' = faults + Cardinality(late)
          /\ todo' = [todo EXCEPT ![d] = Unpublished(d) \ late]
    BY <1>10 DEF PublishBlobs
  <2>2. Unpublished(d) \subseteq Object /\ IsFiniteSet(Unpublished(d))
    BY <1>0, FS_Subset DEF Unpublished, Segments, RemoteOK
  <2>3. ProviderOK' /\ JournalOK' /\ RemoteOK' /\ CheckpointOK' /\ Finite' /\ PendingKnown'
    BY <1>10 DEF PublishBlobs, ProviderOK, JournalOK, RemoteOK, CheckpointOK, Finite, PendingKnown
  <2>4. CycleOK'
    BY <1>10, <2>1, <2>2 DEF PublishBlobs, CycleOK, Phase
  <2>5. SettledOK'
    BY <1>10, <2>1, <2>2, LateLemma DEF PublishBlobs, SettledOK
  <2> QED BY <2>3, <2>4, <2>5
<1>11. ASSUME NEW d \in Device, NEW o \in todo[d], Upload(d, o)
      PROVE  Typed'
  <2>1. o \in Object /\ SnapshotParts({o}) \subseteq Object
    BY DEF CycleOK, SnapshotParts
  <2>2. IsFiniteSet(created \cup {o})
    BY <1>0, FS_AddElement
  <2>3. JournalOK' /\ RemoteOK' /\ SettledOK'
    BY <1>11 DEF Upload, JournalOK, RemoteOK, SettledOK
  <2>4. ProviderOK'
    BY <1>11, <2>1, <2>2 DEF Upload, ProviderOK
  <2>5. CheckpointOK'
    BY <1>11, <2>1, <2>2 DEF Upload, CheckpointOK
  <2>6. CycleOK'
    BY <1>11, <2>1, <2>2 DEF Upload, CycleOK, Phase
  <2>7. Finite'
    BY <1>11, <1>0, <2>1, <2>2 DEF Upload, Finite
  <2>8. PendingKnown'
    BY <1>11, <2>1, <2>2 DEF Upload, PendingKnown, CheckpointOK
  <2> QED BY <2>3, <2>4, <2>5, <2>6, <2>7, <2>8
<1>12. ASSUME NEW d \in Device, NEW o \in todo[d], UploadPruned(d, o)
      PROVE  Typed'
  <2>1. SnapshotParts({o}) \subseteq Object
    BY DEF CycleOK, SnapshotParts
  <2>2. ProviderOK' /\ JournalOK' /\ RemoteOK' /\ SettledOK' /\ Finite' /\ PendingKnown'
    BY <1>12 DEF UploadPruned, ProviderOK, JournalOK, RemoteOK, SettledOK, Finite, PendingKnown, CheckpointOK
  <2>3. CheckpointOK'
    BY <1>12, <2>1 DEF UploadPruned, CheckpointOK
  <2>4. CycleOK'
    BY <1>12, <2>1 DEF UploadPruned, CycleOK, Phase
  <2> QED BY <2>2, <2>3, <2>4
<1>13. ASSUME NEW d \in Device, RecordReceipt(d)
      PROVE  Typed'
  <2>1. item[d] \in Object
    BY <1>13 DEF RecordReceipt, CycleOK
  <2>2. { q.seq : q \in Segments({item[d]}) } \subseteq Nat \ {0}
    BY <2>1, SegmentsLemma
  <2>3. ProviderOK' /\ SettledOK' /\ Finite' /\ PendingKnown'
    BY <1>13 DEF RecordReceipt, ProviderOK, SettledOK, Finite, PendingKnown, CheckpointOK
  <2>4. JournalOK'
    BY <1>13, <2>1, <2>2 DEF RecordReceipt, JournalOK
  <2>5. RemoteOK'
    BY <1>13, <2>1, <2>2 DEF RecordReceipt, RemoteOK
  <2>6. CheckpointOK'
    BY <1>13, <2>1, <2>2 DEF RecordReceipt, CheckpointOK
  <2>7. CycleOK'
    BY <1>13, <2>1, <2>2 DEF RecordReceipt, CycleOK, Phase
  <2> QED BY <2>3, <2>4, <2>5, <2>6, <2>7
<1>14. ASSUME NEW d \in Device, FinishSegments(d)
      PROVE  Typed'
  BY <1>14, <1>0 DEF FinishSegments, ProviderOK, JournalOK, RemoteOK, CheckpointOK, CycleOK,
     SettledOK, Phase, Finite, PendingKnown
<1>15. ASSUME NEW d \in Device, ResumeCheckpoint(d)
      PROVE  Typed'
  <2>1. Package(latest[d]) \in Object /\ Marker(latest[d]) \in Object
    BY <1>15, ObjectLemma DEF ResumeCheckpoint, PendingKnown
  <2>2. ProviderOK' /\ JournalOK' /\ RemoteOK' /\ CheckpointOK' /\ SettledOK' /\ Finite' /\ PendingKnown'
    BY <1>15 DEF ResumeCheckpoint, ProviderOK, JournalOK, RemoteOK, CheckpointOK, SettledOK, Finite, PendingKnown, CheckpointOK
  <2>3. CycleOK'
    BY <1>15, <2>1 DEF ResumeCheckpoint, CycleOK, Phase
  <2> QED BY <2>2, <2>3
<1>16. ASSUME NEW d \in Device, CaptureCheckpoint(d)
      PROVE  Typed'
  <2> DEFINE s == [by |-> d, cover |-> applied[d]]
  <2>1. s \in Snapshot
    BY DEF Snapshot, JournalOK
  <2>2. Package(s) \in Object /\ Marker(s) \in Object
    BY <2>1, ObjectLemma
  <2> HIDE DEF s
  <2>3. /\ latest' = [latest EXCEPT ![d] = s]
        /\ checkpointDone' = [checkpointDone EXCEPT ![d] = FALSE]
        /\ bytes' = [bytes EXCEPT ![d] = @ \cup {Package(s), Marker(s)}]
        /\ todo' = [todo EXCEPT ![d] = {Package(s), Marker(s)}]
        /\ phase' = [phase EXCEPT ![d] = "publish-snapshot"]
        /\ UNCHANGED <<created, pruned, journal, applied, published, observed, removed, seen,
                       base, publishing, blocked, doomed, prunePlan, item, settled, faults>>
    BY <1>16 DEF CaptureCheckpoint, s
  <2>4. ProviderOK' /\ JournalOK' /\ SettledOK'
    BY <2>3 DEF ProviderOK, JournalOK, SettledOK
  <2>5. RemoteOK'
    BY <2>2, <2>3 DEF RemoteOK
  <2>6. CheckpointOK' /\ PendingKnown'
    BY <2>1, <2>3 DEF CheckpointOK, PendingKnown
  <2>7. CycleOK'
    BY <2>2, <2>3 DEF CycleOK, Phase
  <2>8. Finite'
    <3>1. IsFiniteSet((bytes[d] \cup {Package(s)}) \cup {Marker(s)})
      BY <1>0, FS_AddElement
    <3>2. IsFiniteSet(bytes[d] \cup {Package(s), Marker(s)})
      <4>1. bytes[d] \cup {Package(s), Marker(s)} = (bytes[d] \cup {Package(s)}) \cup {Marker(s)}
        OBVIOUS
      <4> QED BY <3>1, <4>1
    <3> QED BY <2>3, <3>2, <1>0 DEF Finite, RemoteOK
  <2> QED BY <2>4, <2>5, <2>6, <2>7, <2>8
<1>17. ASSUME NEW d \in Device, FinishCheckpoint(d)
      PROVE  Typed'
  BY <1>17, <1>0 DEF FinishCheckpoint, ProviderOK, JournalOK, RemoteOK, CheckpointOK, CycleOK,
     SettledOK, Phase, Finite, PendingKnown
<1>18. ASSUME NEW d \in Device, SkipCheckpoint(d)
      PROVE  Typed'
  BY <1>18, <1>0 DEF SkipCheckpoint, ProviderOK, JournalOK, RemoteOK, CheckpointOK, CycleOK,
     SettledOK, Phase, Finite, PendingKnown
<1>19. ASSUME NEW d \in Device, PlanPrune(d)
      PROVE  Typed'
  <2>1. PICK plan : plan \in PrunePlan /\ prunePlan' = [prunePlan EXCEPT ![d] = plan]
    <3> DEFINE keep == Retained(Catalog(d))
              drop == CoveredRemoteSegments(d, keep)
                      \cup UNION { {Package(s), Marker(s)} : s \in Catalog(d) \ keep }
    <3>1. keep \subseteq Snapshot /\ Catalog(d) \subseteq Snapshot
      BY CatalogLemma DEF Retained
    <3>2. \A s \in Catalog(d) : Package(s) \in Object /\ Marker(s) \in Object
      BY <3>1, ObjectLemma
    <3> HIDE DEF keep
    <3>3. CoveredRemoteSegments(d, keep) \subseteq Object
      BY CatalogLemma DEF CoveredRemoteSegments, Segments
    <3>4. drop \subseteq Object
      BY <3>2, <3>3
    <3>5. [keep |-> keep, drop |-> drop] \in PrunePlan
      BY <3>1, <3>4 DEF PrunePlan
    <3>6. prunePlan' = [prunePlan EXCEPT ![d] = [keep |-> keep, drop |-> drop]]
      BY <1>19 DEF PlanPrune, keep
    <3> QED BY <3>5, <3>6
  <2>2. ProviderOK' /\ JournalOK' /\ RemoteOK' /\ CheckpointOK' /\ SettledOK' /\ Finite' /\ PendingKnown'
    BY <1>19 DEF PlanPrune, ProviderOK, JournalOK, RemoteOK, CheckpointOK, SettledOK, Finite, PendingKnown, CheckpointOK
  <2>3. CycleOK'
    BY <1>19, <2>1 DEF PlanPrune, CycleOK, Phase
  <2> QED BY <2>2, <2>3
<1>20. ASSUME NEW d \in Device, Prune(d)
      PROVE  Typed'
  BY <1>20, <1>0 DEF Prune, ProviderOK, JournalOK, RemoteOK, CheckpointOK, CycleOK,
     SettledOK, Phase, Finite, PendingKnown
<1>21. ASSUME NEW d \in Device, RejectPrune(d)
      PROVE  Typed'
  BY <1>21, <1>0 DEF RejectPrune, ProviderOK, JournalOK, RemoteOK, CheckpointOK, CycleOK,
     SettledOK, Phase, Finite, PendingKnown
<1>22. ASSUME NEW d \in Device, Interrupt(d)
      PROVE  Typed'
  <2>1. faults' \in 0 .. MaxFaults
    BY <1>22, FaultsAssumption DEF Interrupt, SettledOK
  <2>2. ProviderOK' /\ JournalOK' /\ RemoteOK' /\ CheckpointOK' /\ CycleOK' /\ Finite' /\ PendingKnown'
    BY <1>22 DEF Interrupt, ProviderOK, JournalOK, RemoteOK, CheckpointOK, CycleOK, Phase, Finite, PendingKnown, CheckpointOK
  <2>3. SettledOK'
    BY <1>22, <2>1 DEF Interrupt, SettledOK
  <2> QED BY <2>2, <2>3
<1>23. CASE UNCHANGED vars
  BY <1>23 DEF vars, ProviderOK, JournalOK, RemoteOK, CheckpointOK, CycleOK, SettledOK, Finite, PendingKnown
<1> QED
  BY <1>1, <1>2, <1>3, <1>4, <1>5, <1>6, <1>7, <1>8, <1>9, <1>10, <1>11, <1>12, <1>13, <1>14, <1>15, <1>16, <1>17, <1>18, <1>19, <1>20, <1>21, <1>22, <1>23
  DEF Next, Cycle, Truncate, Publish, Checkpoint

\* They hold at first.
LEMMA InitTyped == Init => Typed
<1> SUFFICES ASSUME Init PROVE Typed
  OBVIOUS
<1>1. ProviderOK /\ JournalOK /\ RemoteOK
  BY CoverLemma DEF Init, ProviderOK, JournalOK, RemoteOK
<1>2. CheckpointOK /\ CycleOK /\ PendingKnown
  BY DEF Init, CheckpointOK, CycleOK, Phase, PendingKnown
<1>3. SettledOK
  BY FaultsAssumption DEF Init, SettledOK
<1>4. Finite
  BY FS_EmptySet DEF Init, Finite
<1> QED BY <1>1, <1>2, <1>3, <1>4 DEF Typed, TypeOK

-----------------------------------------------------------------------------
(***************************************************************************)
(* Lanes.  Whatever a device has, holds or is about to publish names only  *)
(* history that its writer has sealed: a snapshot never reaches beyond the *)
(* head of the lanes it covers, so that a catch-up leaves the own lane as  *)
(* it is.                                                                  *)
(***************************************************************************)
WithinLanes(f) == \A w \in Device : f[w] <= applied[w][w]

\* The object names only history that its writer has sealed.
SealedObject(o) ==
  IF o.kind = "segment" THEN o.seq <= applied[o.by][o.by] ELSE WithinLanes(o.of.cover)

\* So does every object that was created, downloaded or planned, and every frontier.
SealedFirst ==
  /\ \A o \in created : SealedObject(o)
  /\ \A d \in Device :
       /\ \A o \in bytes[d] : SealedObject(o)
       /\ \A o \in todo[d] : SealedObject(o)
       /\ WithinLanes(applied[d])
       /\ latest[d] \in Snapshot => WithinLanes(latest[d].cover)

\* Nothing runs ahead of its writer, and a lane keeps its anchor.
Lanes == SealedFirst /\ LanesStayAnchored

\* No writer's own lane moves back.
HeadsGrow == \A w \in Device : applied[w][w] <= applied'[w][w]

\* Applied lanes are numbers.
LEMMA AppliedLemma ==
  ASSUME Typed
  PROVE  \A d, w \in Device : applied[d][w] \in Nat
BY DEF Typed, TypeOK, JournalOK, LaneFrontier

\* A snapshot that a device can read is within the lanes.
LEMMA CoverWithinLemma ==
  ASSUME Typed, SealedFirst, NEW d \in Device, NEW s \in Catalog(d)
  PROVE  \A w \in Device : s.cover[w] <= applied[w][w]
<1>1. s \in Snapshot /\ Marker(s) \in bytes[d]
  BY CatalogLemma DEF Typed, TypeOK
<1>2. SealedObject(Marker(s)) /\ Marker(s).kind = "snapshot-commit" /\ Marker(s).of = s
  BY <1>1, ObjectLemma DEF SealedFirst
<1> QED BY <1>2 DEF SealedObject, WithinLanes

\* A device seals behind the head of its own lane, although it looks at the
\* segments it still has.
LEMMA SealLemma ==
  ASSUME Typed, Lanes, NEW d \in Device, SealSegment(d)
  PROVE  /\ applied[d][d] + 1 \in Nat \ {0}
         /\ journal' = [journal EXCEPT ![d] = @ \cup {<<d, applied[d][d] + 1>>}]
         /\ applied' = [applied EXCEPT ![d][d] = applied[d][d] + 1]
         /\ bytes' = [bytes EXCEPT ![d] = @ \cup {SegmentOf(d, applied[d][d] + 1)}]
<1>1. PICK last \in 0 .. Quota[d] - 1 :
        /\ NewestSealed(d, last)
        /\ journal' = [journal EXCEPT ![d] = @ \cup {<<d, last + 1>>}]
        /\ applied' = [applied EXCEPT ![d][d] = last + 1]
        /\ bytes' = [bytes EXCEPT ![d] = @ \cup {SegmentOf(d, last + 1)}]
  BY DEF SealSegment
<1>2. applied[d][d] \in Nat /\ last \in Nat
  BY AppliedLemma, QuotaAssumption
<1>3. applied[d][d] <= last
  <2>1. CASE applied[d][d] = 0
    BY <2>1, <1>2
  <2>2. CASE applied[d][d] > 0
    <3>1. SegmentOf(d, applied[d][d]) \in bytes[d]
      BY <2>2 DEF Lanes, LanesStayAnchored
    <3>2. SegmentOf(d, applied[d][d]) \in Segments(bytes[d])
          /\ SegmentOf(d, applied[d][d]).by = d /\ SegmentOf(d, applied[d][d]).seq = applied[d][d]
      BY <3>1, <2>2, <1>2, ObjectLemma DEF Segments
    <3> QED BY <3>2, <1>1 DEF NewestSealed
  <2> QED BY <2>1, <2>2, <1>2
<1>4. last <= applied[d][d]
  <2>1. CASE last = 0
    BY <2>1, <1>2
  <2>2. CASE last # 0
    <3>1. SegmentOf(d, last) \in bytes[d]
      BY <2>2, <1>1 DEF NewestSealed
    <3>2. SegmentOf(d, last).kind = "segment" /\ SegmentOf(d, last).by = d
          /\ SegmentOf(d, last).seq = last
      BY <2>2, <1>2, ObjectLemma
    <3> QED BY <3>1, <3>2 DEF Lanes, SealedFirst, SealedObject
  <2> QED BY <2>1, <2>2
<1>5. last = applied[d][d]
  BY <1>2, <1>3, <1>4
<1> QED BY <1>1, <1>2, <1>5

\* Apply never gets past what the writer sealed, and has nothing to do in the
\* own lane.
LEMMA ApplyLemma ==
  ASSUME Typed, SealedFirst, NEW d \in Device, NEW w \in Device, ApplySegment(d, w)
  PROVE  applied[d][w] + 1 <= applied[w][w] /\ w # d
<1>1. applied[d][w] \in Nat /\ applied[w][w] \in Nat
  BY AppliedLemma
<1>2. SegmentOf(w, applied[d][w] + 1) \in bytes[d]
  BY DEF ApplySegment, NextToApply
<1>3. SegmentOf(w, applied[d][w] + 1).kind = "segment"
      /\ SegmentOf(w, applied[d][w] + 1).by = w
      /\ SegmentOf(w, applied[d][w] + 1).seq = applied[d][w] + 1
  BY <1>1, ObjectLemma
<1>4. applied[d][w] + 1 <= applied[w][w]
  BY <1>2, <1>3 DEF SealedFirst, SealedObject
<1> QED BY <1>1, <1>4

\* A catch-up advances lanes of others at most, to where their writers are.
LEMMA FastForwardLemma ==
  ASSUME Typed, SealedFirst, NEW d \in Device, NEW s \in Installable(d), FastForward(d, s)
  PROVE  /\ \A w \in Device : /\ applied[d][w] <= applied'[d][w]
                              /\ s.cover[w] <= applied'[d][w]
                              /\ applied'[d][w] = applied[d][w] \/ applied'[d][w] = s.cover[w]
                              /\ applied'[d][w] <= applied[w][w]
         /\ applied'[d][d] = applied[d][d]
         /\ \A e \in Device \ {d} : applied'[e] = applied[e]
<1>1. s \in Catalog(d) /\ s.cover \in LaneFrontier
  BY InstallableLemma, CoverLemma DEF Typed, TypeOK
<1>2. \A w \in Device : s.cover[w] <= applied[w][w]
  BY <1>1, CoverWithinLemma
<1>3. \A w \in Device : s.cover[w] \in Nat
  BY <1>1 DEF LaneFrontier
<1>4. applied \in [Device -> LaneFrontier]
  BY DEF Typed, TypeOK, JournalOK
<1>5. \A w \in Device :
        applied'[d][w] = IF s.cover[w] > applied[d][w] THEN s.cover[w] ELSE applied[d][w]
  BY <1>4 DEF FastForward
<1>6. \A e \in Device \ {d} : applied'[e] = applied[e]
  BY <1>4 DEF FastForward
<1>7. \A w \in Device : applied[d][w] <= applied[w][w]
  BY DEF SealedFirst, WithinLanes
<1> QED BY <1>2, <1>3, <1>5, <1>6, <1>7, AppliedLemma

\* Three actions change what is applied.
LEMMA AppliedStep ==
  ASSUME [Next]_vars
  PROVE  \/ applied' = applied
         \/ \E d \in Device :
              \/ SealSegment(d)
              \/ \E s \in Installable(d) : FastForward(d, s)
              \/ \E w \in Device : ApplySegment(d, w)
<1> USE DEF journalVars
<1>1. ASSUME NEW d \in Device, Truncate(d)
      PROVE  applied' = applied
  BY <1>1 DEF Truncate, TruncatePrunedLocalSegments, Rebase, DeleteBatch, NoTruncation
<1>2. ASSUME NEW d \in Device, Publish(d)
      PROVE  applied' = applied
  BY <1>2 DEF Publish, PublishBlobs, Upload, UploadPruned, RecordReceipt, FinishSegments
<1>3. ASSUME NEW d \in Device, Checkpoint(d)
      PROVE  applied' = applied
  BY <1>3 DEF Checkpoint, ResumeCheckpoint, CaptureCheckpoint, FinishCheckpoint,
              SkipCheckpoint, PlanPrune, Prune, RejectPrune
<1>4. ASSUME NEW d \in Device, Pull(d) \/ NoCatchUp(d) \/ Interrupt(d)
      PROVE  applied' = applied
  BY <1>4 DEF Pull, NoCatchUp, Interrupt
<1>5. CASE UNCHANGED vars
  BY <1>5 DEF vars
<1> QED BY <1>1, <1>2, <1>3, <1>4, <1>5 DEF Next, Cycle

\* Nothing moves a writer's own lane back, a fast-forward included.
LEMMA HeadsLemma ==
  ASSUME Typed, Lanes, [Next]_vars
  PROVE  HeadsGrow
<1>0. applied \in [Device -> LaneFrontier] /\ \A d, w \in Device : applied[d][w] \in Nat
  BY AppliedLemma DEF Typed, TypeOK, JournalOK
<1>1. CASE applied' = applied
  BY <1>0, <1>1 DEF HeadsGrow
<1>2. ASSUME NEW d \in Device, SealSegment(d)
      PROVE  HeadsGrow
  <2>1. applied' = [applied EXCEPT ![d][d] = applied[d][d] + 1]
    BY <1>2, SealLemma
  <2> QED BY <2>1, <1>0 DEF HeadsGrow, LaneFrontier
<1>3. ASSUME NEW d \in Device, NEW s \in Installable(d), FastForward(d, s)
      PROVE  HeadsGrow
  BY <1>0, <1>3, FastForwardLemma DEF HeadsGrow, Lanes
<1>4. ASSUME NEW d \in Device, NEW w \in Device, ApplySegment(d, w)
      PROVE  HeadsGrow
  BY <1>0, <1>4 DEF ApplySegment, HeadsGrow, LaneFrontier
<1> QED BY <1>1, <1>2, <1>3, <1>4, AppliedStep

\* What is within the lanes stays so.
LEMMA StaysSealed ==
  ASSUME Typed, Typed', HeadsGrow
  PROVE  /\ \A o \in Object : SealedObject(o) => SealedObject(o)'
         /\ \A f \in LaneFrontier : WithinLanes(f) => WithinLanes(f)'
<1>1. \A w \in Device : applied[w][w] \in Nat /\ applied'[w][w] \in Nat
  BY AppliedLemma DEF Typed, TypeOK, JournalOK, LaneFrontier
<1>2. ASSUME NEW f \in LaneFrontier, WithinLanes(f)
      PROVE  WithinLanes(f)'
  <2>1. \A w \in Device : f[w] \in Nat
    BY DEF LaneFrontier
  <2> QED BY <1>1, <1>2, <2>1 DEF HeadsGrow, WithinLanes
<1>3. ASSUME NEW o \in Object, SealedObject(o)
      PROVE  SealedObject(o)'
  <2>1. CASE o.kind = "segment"
    <3>1. o.by \in Device /\ o.seq \in Nat
      BY <2>1 DEF Object, Segment, SnapshotObject
    <3> QED BY <1>1, <1>3, <2>1, <3>1 DEF HeadsGrow, SealedObject
  <2>2. CASE o.kind # "segment"
    <3>1. o.of.cover \in LaneFrontier
      BY <2>2, CoverLemma DEF Object, Segment, SnapshotObject
    <3> QED BY <1>2, <1>3, <2>2, <3>1 DEF SealedObject
  <2> QED BY <2>1, <2>2
<1> QED BY <1>2, <1>3

\* Nothing that is not sealed gets anywhere.
LEMMA SealedStep ==
  ASSUME Typed, Typed', Lanes, [Next]_vars
  PROVE  SealedFirst'
<1> USE DEF providerVars, journalVars, remoteVars, ckptVars, cycleVars, GoTo, EndCycle
<1>0. /\ \A o \in Object : SealedObject(o) => SealedObject(o)'
      /\ \A f \in LaneFrontier : WithinLanes(f) => WithinLanes(f)'
  BY HeadsLemma, StaysSealed
<1>t. /\ created \subseteq Object /\ applied \in [Device -> LaneFrontier]
      /\ bytes \in [Device -> SUBSET Object] /\ todo \in [Device -> SUBSET Object]
      /\ latest \in [Device -> Snapshot \cup {None}]
      /\ checkpointDone \in [Device -> BOOLEAN]
      /\ \A s \in Snapshot : s.cover \in LaneFrontier
  BY CoverLemma DEF Typed, TypeOK, ProviderOK, JournalOK, RemoteOK, CheckpointOK, CycleOK
<1> DEFINE Objects(d) == bytes[d] \cup todo[d]
\* It is enough to look at what is new.
<1>n. ASSUME \A o \in created' : o \in created \/ SealedObject(o)',
             \A d \in Device : \A o \in Objects(d)' :
               o \in created \/ o \in Objects(d) \/ SealedObject(o)',
             \A d \in Device : applied'[d] = applied[d] \/ WithinLanes(applied[d])',
             \A d \in Device : latest'[d] = latest[d] \/ WithinLanes(latest[d].cover)'
      PROVE  SealedFirst'
  <2>1. /\ \A o \in created : SealedObject(o)'
        /\ \A d \in Device : \A o \in Objects(d) : SealedObject(o)'
    BY <1>0, <1>t DEF Lanes, SealedFirst
  <2>2. \A d \in Device : WithinLanes(applied[d])'
    <3> TAKE d \in Device
    <3>1. CASE applied'[d] = applied[d]
      <4> DEFINE f == applied[d]
      <4>1. f \in LaneFrontier /\ WithinLanes(f)
        BY <1>t DEF Lanes, SealedFirst
      <4>2. \A g \in LaneFrontier : WithinLanes(g) => \A w \in Device : g[w] <= applied'[w][w]
        BY <1>0 DEF WithinLanes
      <4> QED BY <4>1, <4>2, <3>1 DEF WithinLanes
    <3> QED BY <3>1, <1>n
  <2>3. \A d \in Device : latest'[d] \in Snapshot => WithinLanes(latest[d].cover)'
    <3> TAKE d \in Device
    <3>1. CASE latest'[d] = latest[d] /\ latest'[d] \in Snapshot
      <4>1. latest[d].cover \in LaneFrontier /\ WithinLanes(latest[d].cover)
        BY <1>t, <3>1 DEF Lanes, SealedFirst
      <4>2. \A g \in LaneFrontier : WithinLanes(g) => \A w \in Device : g[w] <= applied'[w][w]
        BY <1>0 DEF WithinLanes
      <4> QED BY <4>1, <4>2, <3>1 DEF WithinLanes
    <3> QED BY <3>1, <1>n
  <2> QED BY <2>1, <2>2, <2>3, <1>n DEF SealedFirst
<1>1. ASSUME NEW d \in Device, SealSegment(d)
      PROVE  SealedFirst'
  <2>1. PICK n \in Nat \ {0} :
          /\ n = applied[d][d] + 1
          /\ applied' = [applied EXCEPT ![d][d] = n]
          /\ bytes' = [bytes EXCEPT ![d] = @ \cup {SegmentOf(d, n)}]
    BY <1>1, SealLemma
  <2>2. UNCHANGED <<created, todo, latest>>
    BY <1>1 DEF SealSegment
  <2>3. SealedObject(SegmentOf(d, n))'
    BY <2>1, <1>t, ObjectLemma DEF SealedObject, LaneFrontier
  <2>4. WithinLanes(applied[d])'
    <3>1. \A w \in Device : applied[d][w] <= applied[w][w]
      BY DEF Lanes, SealedFirst, WithinLanes
    <3> QED BY <2>1, <3>1, <1>t DEF WithinLanes, LaneFrontier
  <2>5. \A e \in Device : e # d => applied'[e] = applied[e]
    BY <2>1, <1>t
  <2>6. \A e \in Device : \A o \in Objects(e)' : o \in Objects(e) \/ o = SegmentOf(d, n)
    BY <2>1, <2>2, <1>t
  <2> QED BY <1>n, <2>2, <2>3, <2>4, <2>5, <2>6
<1>2. ASSUME NEW d \in Device, Pull(d)
      PROVE  SealedFirst'
  <2>1. UNCHANGED <<created, todo, latest, applied>>
    BY <1>2 DEF Pull
  <2>2. \A e \in Device : \A o \in bytes'[e] : o \in bytes[e] \/ o \in created
    BY <1>2, <1>t DEF Pull, Stored
  <2> QED BY <1>n, <2>1, <2>2
<1>3. ASSUME NEW d \in Device, NEW s \in Installable(d), FastForward(d, s)
      PROVE  SealedFirst'
  <2>1. UNCHANGED <<created, todo, latest, bytes>>
    BY <1>3 DEF FastForward
  <2>2. WithinLanes(applied[d])'
    <3>1. HeadsGrow
      BY HeadsLemma
    <3>2. \A w \in Device : applied'[d][w] <= applied[w][w] /\ applied'[d][w] \in Nat
          /\ applied[w][w] \in Nat /\ applied'[w][w] \in Nat
      BY <1>3, FastForwardLemma, AppliedLemma DEF Lanes, Typed, TypeOK, JournalOK, LaneFrontier
    <3> QED BY <3>1, <3>2 DEF HeadsGrow, WithinLanes
  <2>3. \A e \in Device \ {d} : applied'[e] = applied[e]
    BY <1>3, FastForwardLemma DEF Lanes
  <2> QED BY <1>n, <2>1, <2>2, <2>3
<1>4. ASSUME NEW d \in Device, NEW w \in Device, ApplySegment(d, w)
      PROVE  SealedFirst'
  <2>1. UNCHANGED <<created, todo, latest, bytes>>
    BY <1>4 DEF ApplySegment
  <2>2. applied[d][w] + 1 <= applied[w][w] /\ w # d
    BY <1>4, ApplyLemma DEF Lanes
  <2>3. WithinLanes(applied[d])'
    <3>1. \A x \in Device : applied[d][x] <= applied[x][x]
      BY DEF Lanes, SealedFirst, WithinLanes
    <3> QED BY <1>4, <2>2, <3>1, <1>t DEF ApplySegment, WithinLanes, LaneFrontier
  <2>4. \A e \in Device \ {d} : applied'[e] = applied[e]
    BY <1>4, <1>t DEF ApplySegment
  <2> QED BY <1>n, <2>1, <2>3, <2>4
<1>5. ASSUME NEW d \in Device, Truncate(d)
      PROVE  SealedFirst'
  <2>1. UNCHANGED <<created, todo, latest, applied>>
    BY <1>5 DEF Truncate, TruncatePrunedLocalSegments, Rebase, DeleteBatch, NoTruncation
  <2>2. \A e \in Device : bytes'[e] \subseteq bytes[e]
    BY <1>5, <1>t DEF Truncate, TruncatePrunedLocalSegments, Rebase, DeleteBatch, NoTruncation
  <2> QED BY <1>n, <2>1, <2>2
<1>6. ASSUME NEW d \in Device, PublishBlobs(d)
      PROVE  SealedFirst'
  <2>1. UNCHANGED <<created, bytes, latest, applied>>
    BY <1>6 DEF PublishBlobs
  <2>2. \A e \in Device : \A o \in todo'[e] : o \in bytes[e] \/ o \in todo[e]
    BY <1>6, <1>t DEF PublishBlobs, Unpublished, Segments
  <2> QED BY <1>n, <2>1, <2>2
<1>7. ASSUME NEW d \in Device, NEW o \in todo[d], Upload(d, o)
      PROVE  SealedFirst'
  <2>1. UNCHANGED <<todo, bytes, latest, applied>> /\ created' = created \cup {o}
    BY <1>7 DEF Upload
  <2>2. SealedObject(o)'
    BY <1>0, <1>t DEF Lanes, SealedFirst
  <2> QED BY <1>n, <2>1, <2>2
<1>8. ASSUME NEW d \in Device,
             \/ \E o \in todo[d] : UploadPruned(d, o)
             \/ RecordReceipt(d) \/ FinishSegments(d) \/ FinishCheckpoint(d)
             \/ SkipCheckpoint(d) \/ PlanPrune(d) \/ Prune(d) \/ RejectPrune(d)
             \/ Interrupt(d) \/ NoCatchUp(d)
      PROVE  SealedFirst'
  <2>1. UNCHANGED <<created, bytes, latest, applied>>
    BY <1>8 DEF UploadPruned, RecordReceipt, FinishSegments, FinishCheckpoint,
                SkipCheckpoint, PlanPrune, Prune, RejectPrune, Interrupt, NoCatchUp
  <2>2. todo' = todo \/ \E work : todo' = [todo EXCEPT ![d] = work] /\ work \subseteq todo[d]
    <3>1. CASE \E o \in todo[d] : UploadPruned(d, o)
      BY <3>1 DEF UploadPruned
    <3>4. CASE RecordReceipt(d)
      <4>1. todo' = [todo EXCEPT ![d] = todo[d] \ {item[d]}]
        BY <3>4, <1>t DEF RecordReceipt
      <4> QED BY <4>1
    <3>2. CASE FinishSegments(d) \/ PlanPrune(d) \/ NoCatchUp(d)
      BY <3>2 DEF FinishSegments, PlanPrune, NoCatchUp
    <3>3. CASE FinishCheckpoint(d) \/ SkipCheckpoint(d) \/ Prune(d) \/ RejectPrune(d)
               \/ Interrupt(d)
      BY <3>3 DEF FinishCheckpoint, SkipCheckpoint, Prune, RejectPrune, Interrupt
    <3> QED BY <1>8, <3>1, <3>2, <3>3, <3>4
  <2>3. \A e \in Device : todo'[e] \subseteq todo[e]
    BY <2>2, <1>t
  <2> QED BY <1>n, <2>1, <2>3
<1>9. ASSUME NEW d \in Device, ResumeCheckpoint(d)
      PROVE  SealedFirst'
  <2>1. UNCHANGED <<created, bytes, latest, applied>>
    BY <1>9 DEF ResumeCheckpoint
  <2>2. latest[d] \in Snapshot /\ WithinLanes(latest[d].cover)'
    BY <1>9, <1>0, <1>t DEF ResumeCheckpoint, Typed, PendingKnown, Lanes, SealedFirst
  <2>3. SealedObject(Package(latest[d]))' /\ SealedObject(Marker(latest[d]))'
    <3>1. \A s \in Snapshot : WithinLanes(s.cover)' =>
            SealedObject(Package(s))' /\ SealedObject(Marker(s))'
      BY ObjectLemma DEF SealedObject
    <3>2. latest'[d] = latest[d]
      BY <2>1
    <3> QED BY <2>2, <3>1, <3>2 DEF SealedObject, WithinLanes, Package, Marker
  <2>4. \A e \in Device : \A o \in todo'[e] :
          o \in todo[e] \/ o = Package(latest[d]) \/ o = Marker(latest[d])
    BY <1>9, <1>t DEF ResumeCheckpoint
  <2> QED BY <1>n, <2>1, <2>3, <2>4
<1>10. ASSUME NEW d \in Device, CaptureCheckpoint(d)
      PROVE  SealedFirst'
  <2>0. [by |-> d, cover |-> applied[d]] \in Snapshot
    BY <1>t DEF Snapshot
  <2>1. PICK s \in Snapshot :
          /\ s = [by |-> d, cover |-> applied[d]]
          /\ UNCHANGED <<created, applied>>
          /\ latest' = [latest EXCEPT ![d] = s]
          /\ bytes' = [bytes EXCEPT ![d] = @ \cup {Package(s), Marker(s)}]
          /\ todo' = [todo EXCEPT ![d] = {Package(s), Marker(s)}]
    BY <1>10, <2>0 DEF CaptureCheckpoint
  <2>2. \A w \in Device : s.cover[w] <= applied'[w][w]
    BY <2>1 DEF Lanes, SealedFirst, WithinLanes
  <2>3. SealedObject(Package(s))' /\ SealedObject(Marker(s))'
    BY <2>1, <2>2, ObjectLemma DEF SealedObject, WithinLanes
  <2>4. \A e \in Device : \A o \in Objects(e)' :
          o \in Objects(e) \/ o = Package(s) \/ o = Marker(s)
    BY <2>1, <1>t
  <2>5. \A e \in Device : latest'[e] = latest[e] \/ WithinLanes(latest[e].cover)'
    BY <2>1, <2>2, <1>t DEF WithinLanes
  <2> QED BY <1>n, <2>1, <2>3, <2>4, <2>5
<1>11. CASE UNCHANGED vars
  BY <1>11, <1>n DEF vars
<1> QED BY <1>1, <1>2, <1>3, <1>4, <1>5, <1>6, <1>7, <1>8, <1>9, <1>10, <1>11
        DEF Next, Cycle, Publish, Checkpoint

\* Only truncation drops a local object.
LEMMA BytesStep ==
  ASSUME Typed, [Next]_vars
  PROVE  \/ \A e \in Device : bytes[e] \subseteq bytes'[e]
         \/ \E d \in Device : TruncatePrunedLocalSegments(d)
<1>t. bytes \in [Device -> SUBSET Object]
  BY DEF Typed, TypeOK, RemoteOK
<1>1. ASSUME NEW d \in Device, SealSegment(d) \/ Pull(d) \/ CaptureCheckpoint(d)
      PROVE  \A e \in Device : bytes[e] \subseteq bytes'[e]
  BY <1>1, <1>t DEF SealSegment, Pull, CaptureCheckpoint
<1>2. ASSUME NEW d \in Device,
             \/ NoCatchUp(d) \/ DeleteBatch(d) \/ NoTruncation(d) \/ Interrupt(d)
             \/ \E s \in Installable(d) : FastForward(d, s)
             \/ \E w \in Device : ApplySegment(d, w)
             \/ \E s \in PlannedBase(d), kept \in SUBSET Named : Rebase(d, s, kept)
      PROVE  bytes' = bytes
  BY <1>2 DEF NoCatchUp, DeleteBatch, NoTruncation, Interrupt, FastForward, ApplySegment, Rebase
<1>3. ASSUME NEW d \in Device, Publish(d)
      PROVE  bytes' = bytes
  BY <1>3 DEF Publish, PublishBlobs, Upload, UploadPruned, RecordReceipt, FinishSegments
<1>4. ASSUME NEW d \in Device, ResumeCheckpoint(d) \/ FinishCheckpoint(d) \/ SkipCheckpoint(d)
                               \/ PlanPrune(d) \/ Prune(d) \/ RejectPrune(d)
      PROVE  bytes' = bytes
  BY <1>4 DEF ResumeCheckpoint, FinishCheckpoint, SkipCheckpoint, PlanPrune, Prune, RejectPrune
<1>5. CASE UNCHANGED vars
  BY <1>5 DEF vars
<1> QED BY <1>1, <1>2, <1>3, <1>4, <1>5 DEF Next, Cycle, Truncate, Checkpoint

\* The head of a lane moves when its device seals, and never otherwise.
LEMMA OwnHeadLemma ==
  ASSUME Typed, Lanes, [Next]_vars, NEW e \in Device
  PROVE  applied'[e][e] = applied[e][e] \/ SealSegment(e)
<1>t. applied \in [Device -> LaneFrontier]
  BY DEF Typed, TypeOK, JournalOK
<1>1. ASSUME NEW d \in Device, SealSegment(d), d # e
      PROVE  applied'[e][e] = applied[e][e]
  BY <1>1, <1>t, SealLemma
<1>2. ASSUME NEW d \in Device, NEW s \in Installable(d), FastForward(d, s)
      PROVE  applied'[e][e] = applied[e][e]
  BY <1>2, FastForwardLemma DEF Lanes
<1>3. ASSUME NEW d \in Device, NEW w \in Device, ApplySegment(d, w)
      PROVE  applied'[e][e] = applied[e][e]
  <2>1. w # d
    BY <1>3, ApplyLemma DEF Lanes
  <2> QED BY <1>3, <2>1, <1>t DEF ApplySegment, LaneFrontier
<1> QED BY <1>1, <1>2, <1>3, AppliedStep

\* Every step keeps the newest segment of a device's own lane.
LEMMA AnchorStep ==
  ASSUME Typed, Lanes, [Next]_vars
  PROVE  LanesStayAnchored'
<1> SUFFICES ASSUME NEW e \in Device, applied'[e][e] > 0
             PROVE  SegmentOf(e, applied'[e][e]) \in bytes'[e]
  BY DEF LanesStayAnchored, SegmentOf
<1>t. bytes \in [Device -> SUBSET Object] /\ applied \in [Device -> LaneFrontier]
      /\ applied[e][e] \in Nat
  BY AppliedLemma DEF Typed, TypeOK, RemoteOK, JournalOK
<1>1. CASE SealSegment(e)
  BY <1>1, <1>t, SealLemma DEF LaneFrontier
<1>2. CASE applied'[e][e] = applied[e][e]
  <2> DEFINE o == SegmentOf(e, applied[e][e])
  <2>1. o \in bytes[e] /\ applied[e][e] \in Nat \ {0}
    BY <1>2, <1>t DEF Lanes, LanesStayAnchored
  <2>2. CASE \A d \in Device : bytes[d] \subseteq bytes'[d]
    BY <2>1, <2>2, <1>2
  <2>3. ASSUME NEW d \in Device, TruncatePrunedLocalSegments(d)
        PROVE  o \in bytes'[e]
    <3>1. CASE d # e
      BY <2>1, <2>3, <3>1, <1>t DEF TruncatePrunedLocalSegments
    <3>2. CASE d = e
      <4>1. \A n \in Segments(bytes[e]) : n.by = e => n.seq <= applied[e][e] /\ n.seq \in Nat
        BY <1>t, SegmentsLemma DEF Lanes, SealedFirst, SealedObject
      <4>2. o.by = e /\ o.seq = applied[e][e]
        BY <2>1, ObjectLemma
      <4>3. o \notin Truncatable(e)
        BY <4>1, <4>2, <1>t DEF Truncatable
      <4> QED BY <2>1, <2>3, <3>2, <4>3, <1>t DEF TruncatePrunedLocalSegments
    <3> QED BY <3>1, <3>2
  <2> QED BY <2>2, <2>3, <1>2, BytesStep
<1> QED BY <1>1, <1>2, OwnHeadLemma

-----------------------------------------------------------------------------
(***************************************************************************)
(* Uploads.  A cycle publishes its own segments and snapshot parts, in the *)
(* phases for it, and a receipt is for an object that is there.            *)
(***************************************************************************)
UploadsOwn ==
  \A d \in Device :
    /\ \A n \in published[d] : SegmentOf(d, n) \in created
    /\ \A o \in Segments(todo[d]) : o.by = d
    /\ phase[d] \notin {"publish-segments", "publish-snapshot"} => todo[d] = {}
    /\ item[d] # None => item[d] \in todo[d] /\ item[d] \in created

\* What was created, pruned or published stays so.
LEMMA CreatedStep ==
  ASSUME Typed, [Next]_vars
  PROVE  created \subseteq created' /\ pruned \subseteq pruned'
         /\ \A d \in Device : published[d] \subseteq published'[d]
<1> USE DEF providerVars, journalVars
<1>t. published \in [Device -> SUBSET (Nat \ {0})]
  BY DEF Typed, TypeOK, JournalOK
<1>1. ASSUME NEW d \in Device, NEW o \in todo[d], Upload(d, o)
      PROVE  created \subseteq created' /\ UNCHANGED <<pruned, published>>
  BY <1>1 DEF Upload
<1>2. ASSUME NEW d \in Device, Prune(d)
      PROVE  pruned \subseteq pruned' /\ UNCHANGED <<created, published>>
  BY <1>2 DEF Prune
<1>3. ASSUME NEW d \in Device, RecordReceipt(d)
      PROVE  (\A e \in Device : published[e] \subseteq published'[e])
             /\ UNCHANGED <<created, pruned>>
  BY <1>3, <1>t DEF RecordReceipt
<1>4. ASSUME NEW d \in Device, Truncate(d)
      PROVE  UNCHANGED <<created, pruned, published>>
  BY <1>4 DEF Truncate, TruncatePrunedLocalSegments, Rebase, DeleteBatch, NoTruncation
<1>5. ASSUME NEW d \in Device, PublishBlobs(d) \/ (\E o \in todo[d] : UploadPruned(d, o))
                               \/ FinishSegments(d)
      PROVE  UNCHANGED <<created, pruned, published>>
  BY <1>5 DEF PublishBlobs, UploadPruned, FinishSegments
<1>6. ASSUME NEW d \in Device, ResumeCheckpoint(d) \/ CaptureCheckpoint(d) \/ FinishCheckpoint(d)
                               \/ SkipCheckpoint(d) \/ PlanPrune(d) \/ RejectPrune(d)
      PROVE  UNCHANGED <<created, pruned, published>>
  BY <1>6 DEF ResumeCheckpoint, CaptureCheckpoint, FinishCheckpoint, SkipCheckpoint,
              PlanPrune, RejectPrune
<1>7. ASSUME NEW d \in Device,
             \/ SealSegment(d) \/ Pull(d) \/ NoCatchUp(d) \/ Interrupt(d)
             \/ \E s \in Installable(d) : FastForward(d, s)
             \/ \E w \in Device : ApplySegment(d, w)
      PROVE  UNCHANGED <<created, pruned, published>>
  BY <1>7 DEF SealSegment, Pull, NoCatchUp, Interrupt, FastForward, ApplySegment
<1>8. CASE UNCHANGED vars
  BY <1>8 DEF vars
<1> QED BY <1>1, <1>2, <1>3, <1>4, <1>5, <1>6, <1>7, <1>8
        DEF Next, Cycle, Publish, Checkpoint

\* Every step keeps receipts true.
LEMMA UploadsStep ==
  ASSUME Typed, UploadsOwn, [Next]_vars
  PROVE  UploadsOwn'
<1> USE DEF providerVars, journalVars, ckptVars, cycleVars, GoTo, EndCycle
<1>t. /\ published \in [Device -> SUBSET (Nat \ {0})] /\ phase \in [Device -> Phase]
      /\ todo \in [Device -> SUBSET Object] /\ item \in [Device -> Object \cup {None}]
      /\ bytes \in [Device -> SUBSET Object]
  BY DEF Typed, TypeOK, JournalOK, CycleOK, RemoteOK
\* A step that starts no publication and ends none but an empty one.
<1>n. ASSUME NEW d \in Device, UNCHANGED <<created, published, todo, item>>,
             \A e \in Device \ {d} : phase'[e] = phase[e],
             phase'[d] = phase[d] \/ todo[d] = {}
      PROVE  UploadsOwn'
  BY <1>n, <1>t DEF UploadsOwn
\* A step that ends the cycle.
<1>m. ASSUME NEW d \in Device, EndCycle(d), UNCHANGED <<created, published>>
      PROVE  UploadsOwn'
  <2>1. \A e \in Device \ {d} : /\ phase'[e] = phase[e] /\ todo'[e] = todo[e]
                                /\ item'[e] = item[e]
    BY <1>m, <1>t
  <2>2. phase'[d] = "idle" /\ todo'[d] = {} /\ item'[d] = None
    BY <1>m, <1>t
  <2> QED BY <2>1, <2>2, <1>m DEF UploadsOwn, Segments
<1>1. ASSUME NEW d \in Device, SealSegment(d)
      PROVE  UploadsOwn'
  BY <1>1, <1>n DEF SealSegment
<1>2. ASSUME NEW d \in Device,
             \/ Pull(d) \/ NoCatchUp(d) \/ TruncatePrunedLocalSegments(d) \/ NoTruncation(d)
             \/ phase[d] = "catch-up" /\ \E s \in Installable(d) : FastForward(d, s)
             \/ \E w \in Device : ApplySegment(d, w)
      PROVE  UploadsOwn'
  <2>1. UNCHANGED <<created, published, todo, item>>
        /\ phase[d] \in {"idle", "catch-up", "apply", "truncate"}
    BY <1>2 DEF Pull, NoCatchUp, TruncatePrunedLocalSegments, NoTruncation, FastForward,
                ApplySegment
  <2>2. \A e \in Device \ {d} : phase'[e] = phase[e]
    BY <1>2, <1>t DEF Pull, NoCatchUp, TruncatePrunedLocalSegments, NoTruncation,
                      FastForward, ApplySegment
  <2>3. todo[d] = {}
    BY <2>1 DEF UploadsOwn
  <2> QED BY <2>1, <2>2, <2>3, <1>n
<1>3. ASSUME NEW d \in Device, DeleteBatch(d) \/ PlanPrune(d) \/ FinishSegments(d)
             \/ \E s \in PlannedBase(d), kept \in SUBSET Named : Rebase(d, s, kept)
      PROVE  UploadsOwn'
  <2>1. UNCHANGED <<created, published, todo, item>>
        /\ (phase[d] \in {"truncate", "checkpoint"} \/ todo[d] = {})
    BY <1>3 DEF DeleteBatch, PlanPrune, FinishSegments, Rebase
  <2>2. \A e \in Device \ {d} : phase'[e] = phase[e]
    BY <1>3, <1>t DEF DeleteBatch, PlanPrune, FinishSegments, Rebase
  <2>3. todo[d] = {}
    BY <2>1 DEF UploadsOwn
  <2> QED BY <2>1, <2>2, <2>3, <1>n
<1>4. ASSUME NEW d \in Device, PublishBlobs(d)
      PROVE  UploadsOwn'
  <2>1. PICK late \in Late(Unpublished(d)) : todo' = [todo EXCEPT ![d] = Unpublished(d) \ late]
    BY <1>4 DEF PublishBlobs
  <2>2. UNCHANGED <<created, published, item>>
        /\ phase' = [phase EXCEPT ![d] = "publish-segments"] /\ phase[d] = "publish-blobs"
    BY <1>4 DEF PublishBlobs
  <2>3. item[d] = None
    BY <2>2 DEF UploadsOwn
  <2>4. \A o \in Segments(todo'[d]) : o.by = d
    BY <2>1, <1>t DEF Segments, Unpublished
  <2> QED BY <2>1, <2>2, <2>3, <2>4, <1>t DEF UploadsOwn
<1>5. ASSUME NEW d \in Device, NEW o \in todo[d], Upload(d, o)
      PROVE  UploadsOwn'
  BY <1>5, <1>t DEF Upload, UploadsOwn
<1>6. ASSUME NEW d \in Device, NEW o \in todo[d], UploadPruned(d, o)
      PROVE  UploadsOwn'
  BY <1>6, <1>m DEF UploadPruned
<1>7. ASSUME NEW d \in Device, RecordReceipt(d)
      PROVE  UploadsOwn'
  <2>1. item[d] \in Object /\ item[d] \in todo[d] /\ item[d] \in created
    BY <1>7, <1>t DEF RecordReceipt, UploadsOwn
  <2>2. \A n \in { q.seq : q \in Segments({item[d]}) } : SegmentOf(d, n) \in created
    <3>1. ASSUME NEW q \in Segments({item[d]})
          PROVE  SegmentOf(d, q.seq) \in created
      <4>1. q = item[d] /\ q = SegmentOf(q.by, q.seq) /\ q \in Segments(todo[d])
        BY <2>1, SegmentsLemma DEF Segments
      <4>2. q.by = d
        BY <4>1 DEF UploadsOwn
      <4> QED BY <4>1, <4>2, <2>1
    <3> QED BY <3>1
  <2>3. /\ published' = [published EXCEPT ![d] = @ \cup { q.seq : q \in Segments({item[d]}) }]
        /\ todo' = [todo EXCEPT ![d] = @ \ {item[d]}]
        /\ item' = [item EXCEPT ![d] = None]
        /\ UNCHANGED <<created, phase>>
    BY <1>7 DEF RecordReceipt
  <2>4. \A e \in Device : \A n \in published'[e] : SegmentOf(e, n) \in created'
    BY <2>2, <2>3, <1>t DEF UploadsOwn
  <2>5. \A e \in Device : \A o \in Segments(todo'[e]) : o.by = e
    BY <2>3, <1>t DEF UploadsOwn, Segments
  <2>6. \A e \in Device : phase'[e] \notin {"publish-segments", "publish-snapshot"} => todo'[e] = {}
    BY <2>3, <1>t DEF UploadsOwn
  <2>7. \A e \in Device : item'[e] # None => item'[e] \in todo'[e] /\ item'[e] \in created'
    BY <2>3, <1>t DEF UploadsOwn
  <2> QED BY <2>4, <2>5, <2>6, <2>7 DEF UploadsOwn
<1>8. ASSUME NEW d \in Device, ResumeCheckpoint(d) \/ CaptureCheckpoint(d)
      PROVE  UploadsOwn'
  <2>1. PICK s : todo' = [todo EXCEPT ![d] = {Package(s), Marker(s)}]
    BY <1>8 DEF ResumeCheckpoint, CaptureCheckpoint
  <2>2. UNCHANGED <<created, published, item>>
        /\ phase' = [phase EXCEPT ![d] = "publish-snapshot"] /\ phase[d] = "checkpoint"
    BY <1>8 DEF ResumeCheckpoint, CaptureCheckpoint
  <2>3. item[d] = None
    BY <2>2 DEF UploadsOwn
  <2>4. Segments(todo'[d]) = {}
    BY <2>1, <1>t DEF Segments, Package, Marker
  <2> QED BY <2>1, <2>2, <2>3, <2>4, <1>t DEF UploadsOwn
<1>9. ASSUME NEW d \in Device, FinishCheckpoint(d) \/ SkipCheckpoint(d) \/ Prune(d)
                               \/ RejectPrune(d) \/ Interrupt(d)
      PROVE  UploadsOwn'
  BY <1>9, <1>m DEF FinishCheckpoint, SkipCheckpoint, Prune, RejectPrune, Interrupt
<1>10. CASE UNCHANGED vars
  BY <1>10 DEF vars, UploadsOwn
<1> QED BY <1>1, <1>2, <1>3, <1>4, <1>5, <1>6, <1>7, <1>8, <1>9, <1>10
        DEF Next, Cycle, Truncate, Publish, Checkpoint

-----------------------------------------------------------------------------
(***************************************************************************)
(* Rows.  The base advances, and what is deleted in a later transaction    *)
(* than the one that installed the base is covered by whatever base there  *)
(* is by then.                                                             *)
(***************************************************************************)
Deletable(d, r) == r[2] <= BaseCover(d)[r[1]] /\ (r[1] = d => r[2] \in published[d])

\* Rows planned for deletion may still be deleted.
DoomedCovered == \A d \in Device : \A r \in doomed[d] : Deletable(d, r)

\* What the journal rows owe: replay, own edits, and sound plans of deletion.
Rows == ReplayComplete /\ OwnEditsKept /\ DoomedCovered

\* Two actions change the base.
LEMMA BaseStep ==
  ASSUME [Next]_vars
  PROVE  \/ base' = base
         \/ \E d \in Device :
              \/ \E s \in Installable(d) : FastForward(d, s)
              \/ \E s \in PlannedBase(d), kept \in SUBSET Named : Rebase(d, s, kept)
<1>1. ASSUME NEW d \in Device, TruncatePrunedLocalSegments(d) \/ DeleteBatch(d) \/ NoTruncation(d)
      PROVE  base' = base
  BY <1>1 DEF TruncatePrunedLocalSegments, DeleteBatch, NoTruncation
<1>2. ASSUME NEW d \in Device, Publish(d)
      PROVE  base' = base
  BY <1>2 DEF Publish, PublishBlobs, Upload, UploadPruned, RecordReceipt, FinishSegments
<1>3. ASSUME NEW d \in Device, Checkpoint(d)
      PROVE  base' = base
  BY <1>3 DEF Checkpoint, ResumeCheckpoint, CaptureCheckpoint, FinishCheckpoint,
              SkipCheckpoint, PlanPrune, Prune, RejectPrune
<1>4. ASSUME NEW d \in Device, SealSegment(d) \/ Pull(d) \/ NoCatchUp(d) \/ Interrupt(d)
                               \/ \E w \in Device : ApplySegment(d, w)
      PROVE  base' = base
  BY <1>4 DEF SealSegment, Pull, NoCatchUp, Interrupt, ApplySegment
<1>5. CASE UNCHANGED vars
  BY <1>5 DEF vars
<1> QED BY <1>1, <1>2, <1>3, <1>4, <1>5 DEF Next, Cycle, Truncate

\* A base is replaced only by one that dominates it.
LEMMA BaseAdvances ==
  ASSUME Typed, [Next]_vars, NEW d \in Device
  PROVE  /\ \A w \in Device : BaseCover(d)[w] <= BaseCover(d)'[w]
         /\ base[d] # None => base'[d] # None /\ Dominates(base'[d].cover, base[d].cover)
<1>t. /\ base \in [Device -> Snapshot \cup {None}] /\ BaseCover(d) \in LaneFrontier
      /\ RemoteOK /\ CheckpointOK
  BY BaseCoverLemma DEF Typed, TypeOK, CheckpointOK
<1>0. \A w \in Device : BaseCover(d)[w] \in Nat
  BY <1>t DEF LaneFrontier
<1>1. CASE base'[d] = base[d]
  BY <1>0, <1>1 DEF BaseCover, Dominates
<1>2. ASSUME NEW s \in Snapshot, s # None, base'[d] = s, Dominates(s.cover, BaseCover(d))
      PROVE  /\ \A w \in Device : BaseCover(d)[w] <= BaseCover(d)'[w]
             /\ base[d] # None => base'[d] # None /\ Dominates(base'[d].cover, base[d].cover)
  <2>1. \A w \in Device : s.cover[w] \in Nat /\ BaseCover(d)[w] <= s.cover[w]
    BY <1>0, <1>2, CoverLemma DEF Dominates, LaneFrontier
  <2>2. BaseCover(d)' = s.cover
    BY <1>2 DEF BaseCover
  <2> QED BY <1>2, <2>1, <2>2 DEF BaseCover
<1>3. ASSUME NEW e \in Device, NEW s \in Installable(e), FastForward(e, s)
      PROVE  base'[d] = base[d] \/ (e = d /\ base'[d] = s)
  BY <1>3, <1>t DEF FastForward
<1>4. ASSUME NEW e \in Device, NEW s \in PlannedBase(e), NEW kept \in SUBSET Named, Rebase(e, s, kept)
      PROVE  base'[d] = base[d] \/ (e = d /\ base'[d] = s)
  BY <1>4, <1>t DEF Rebase
<1> QED BY <1>1, <1>2, <1>3, <1>4, <1>t, BaseStep, InstallableLemma, PlannedBaseLemma

\* A row leaves the journal only when the base there is then covers it, and an
\* own row only after its segment was published.
LEMMA JournalKeeps ==
  ASSUME Typed, DoomedCovered, [Next]_vars, NEW d \in Device, NEW r \in journal[d]
  PROVE  r \in journal'[d]
         \/ (r[2] <= BaseCover(d)'[r[1]] /\ (r[1] = d => r[2] \in published[d]))
<1> USE DEF journalVars
<1>t. journal \in [Device -> SUBSET Row] /\ base \in [Device -> Snapshot \cup {None}]
  BY DEF Typed, TypeOK, JournalOK, CheckpointOK
<1>1. ASSUME NEW e \in Device, NEW s \in PlannedBase(e), NEW kept \in SUBSET Named, Rebase(e, s, kept)
      PROVE  r \in journal'[d]
             \/ (r[2] <= BaseCover(d)'[r[1]] /\ (r[1] = d => r[2] \in published[d]))
  <2>1. PICK batch : /\ batch \subseteq CoveredRows(e, s.cover)
                     /\ journal' = [journal EXCEPT ![e] = @ \ batch]
    BY <1>1 DEF Rebase, Batch
  <2>2. e = d => BaseCover(d)' = s.cover
    <3>1. s # None
      BY PlannedBaseLemma DEF Typed, TypeOK
    <3> QED BY <1>1, <1>t, <3>1 DEF Rebase, BaseCover
  <2> QED BY <2>1, <2>2, <1>t DEF CoveredRows
<1>2. ASSUME NEW e \in Device, DeleteBatch(e)
      PROVE  r \in journal'[d]
             \/ (r[2] <= BaseCover(d)'[r[1]] /\ (r[1] = d => r[2] \in published[d]))
  <2>1. PICK batch : batch \subseteq doomed[e] /\ journal' = [journal EXCEPT ![e] = @ \ batch]
    BY <1>2 DEF DeleteBatch, Batch
  <2>2. BaseCover(d)' = BaseCover(d)
    BY <1>2 DEF DeleteBatch, BaseCover
  <2> QED BY <2>1, <2>2, <1>t DEF DoomedCovered, Deletable
<1>3. ASSUME NEW e \in Device, SealSegment(e) \/ \E w \in Device : ApplySegment(e, w)
      PROVE  r \in journal'[d]
  BY <1>3, <1>t DEF SealSegment, ApplySegment
<1>4. ASSUME NEW e \in Device,
             \/ TruncatePrunedLocalSegments(e) \/ NoTruncation(e)
             \/ \E s \in Installable(e) : FastForward(e, s)
             \/ Pull(e) \/ NoCatchUp(e) \/ Interrupt(e)
      PROVE  journal' = journal
  BY <1>4 DEF TruncatePrunedLocalSegments, NoTruncation, FastForward, Pull, NoCatchUp, Interrupt
<1>5. ASSUME NEW e \in Device, Publish(e)
      PROVE  journal' = journal
  BY <1>5 DEF Publish, PublishBlobs, Upload, UploadPruned, RecordReceipt, FinishSegments
<1>6. ASSUME NEW e \in Device, Checkpoint(e)
      PROVE  journal' = journal
  BY <1>6 DEF Checkpoint, ResumeCheckpoint, CaptureCheckpoint, FinishCheckpoint,
              SkipCheckpoint, PlanPrune, Prune, RejectPrune
<1>7. CASE UNCHANGED vars
  BY <1>7 DEF vars
<1> QED BY <1>1, <1>2, <1>3, <1>4, <1>5, <1>6, <1>7 DEF Next, Cycle, Truncate

\* What waits for deletion was waiting, or is covered by the base just installed.
LEMMA DoomedStep ==
  ASSUME Typed, DoomedCovered, [Next]_vars
  PROVE  DoomedCovered'
<1> USE DEF cycleVars, GoTo, EndCycle, journalVars
<1> SUFFICES ASSUME NEW d \in Device, NEW r \in doomed'[d]
             PROVE  Deletable(d, r)'
  BY DEF DoomedCovered, Deletable
<1>t. doomed \in [Device -> SUBSET Row]
  BY DEF Typed, TypeOK, CycleOK
<1>n. ASSUME r \in doomed[d]
      PROVE  Deletable(d, r)'
  <2>1. r[1] \in Device /\ r[2] \in Nat /\ Deletable(d, r)
    BY <1>n, <1>t DEF Row, DoomedCovered
  <2>2. BaseCover(d)[r[1]] <= BaseCover(d)'[r[1]] /\ published[d] \subseteq published'[d]
    BY <2>1, BaseAdvances, CreatedStep
  <2>3. BaseCover(d)[r[1]] \in Nat /\ BaseCover(d)'[r[1]] \in Nat
    BY <2>1, TypeStep, BaseCoverLemma DEF Typed, TypeOK, LaneFrontier, BaseCover, CheckpointOK,
       NoCover, Snapshot
  <2> QED BY <2>1, <2>2, <2>3 DEF Deletable
<1>1. ASSUME NEW e \in Device, NEW s \in PlannedBase(e), NEW kept \in SUBSET Named, Rebase(e, s, kept)
      PROVE  Deletable(d, r)'
  <2>1. e # d => r \in doomed[d]
    BY <1>1, <1>t DEF Rebase
  <2>2. ASSUME e = d PROVE Deletable(d, r)'
    <3>1. s # None
      BY PlannedBaseLemma DEF Typed, TypeOK
    <3>2. BaseCover(d)' = s.cover
      BY <1>1, <2>2, <3>1 DEF Rebase, BaseCover, Typed, TypeOK, CheckpointOK
    <3>3. r \in CoveredRows(d, s.cover) /\ published' = published
      BY <1>1, <2>2, <1>t DEF Rebase
    <3> QED BY <3>2, <3>3 DEF CoveredRows, Deletable
  <2> QED BY <2>1, <2>2, <1>n
<1>2. ASSUME NEW e \in Device, DeleteBatch(e)
      PROVE  r \in doomed[d]
  BY <1>2, <1>t DEF DeleteBatch
<1>3. ASSUME NEW e \in Device,
             \/ SealSegment(e) \/ Pull(e) \/ NoCatchUp(e)
             \/ \E s \in Installable(e) : FastForward(e, s)
             \/ \E w \in Device : ApplySegment(e, w)
             \/ TruncatePrunedLocalSegments(e) \/ NoTruncation(e) \/ PublishBlobs(e)
             \/ \E o \in todo[e] : Upload(e, o)
             \/ RecordReceipt(e) \/ FinishSegments(e)
             \/ ResumeCheckpoint(e) \/ CaptureCheckpoint(e) \/ PlanPrune(e)
      PROVE  doomed' = doomed
  BY <1>3 DEF SealSegment, Pull, NoCatchUp, FastForward, ApplySegment,
     TruncatePrunedLocalSegments, NoTruncation, PublishBlobs, Upload, RecordReceipt,
     FinishSegments, ResumeCheckpoint, CaptureCheckpoint, PlanPrune
<1>4. ASSUME NEW e \in Device,
             \/ \E o \in todo[e] : UploadPruned(e, o)
             \/ FinishCheckpoint(e) \/ SkipCheckpoint(e) \/ Prune(e) \/ RejectPrune(e)
             \/ Interrupt(e)
      PROVE  r \in doomed[d]
  <2>1. doomed' = [doomed EXCEPT ![e] = {}]
    BY <1>4 DEF UploadPruned, FinishCheckpoint, SkipCheckpoint, Prune, RejectPrune, Interrupt
  <2> QED BY <2>1, <1>t
<1>5. CASE UNCHANGED vars
  BY <1>5, <1>n DEF vars
<1> QED BY <1>n, <1>1, <1>2, <1>3, <1>4, <1>5 DEF Next, Cycle, Truncate, Publish, Checkpoint

\* Every step keeps replay possible.
LEMMA ReplayStep ==
  ASSUME Typed, Typed', Lanes, Rows, [Next]_vars
  PROVE  ReplayComplete'
<1> SUFFICES ASSUME NEW d \in Device, NEW w \in Device, NEW n \in 1 .. applied'[d][w]
             PROVE  n <= BaseCover(d)'[w] \/ <<w, n>> \in journal'[d]
  BY DEF ReplayComplete
<1>t. /\ applied \in [Device -> LaneFrontier] /\ journal \in [Device -> SUBSET Row]
      /\ base \in [Device -> Snapshot \cup {None}]
      /\ \A e, x \in Device : applied[e][x] \in Nat /\ applied'[e][x] \in Nat
      /\ BaseCover(d)[w] \in Nat /\ BaseCover(d)'[w] \in Nat
      /\ n \in Nat /\ n <= applied'[d][w]
  BY AppliedLemma, BaseCoverLemma
  DEF Typed, TypeOK, JournalOK, CheckpointOK, LaneFrontier, BaseCover, NoCover, Snapshot
<1>1. CASE n <= applied[d][w]
  <2>1. n <= BaseCover(d)[w] \/ <<w, n>> \in journal[d]
    BY <1>1 DEF Rows, ReplayComplete
  <2>2. CASE n <= BaseCover(d)[w]
    BY <2>2, <1>t, BaseAdvances
  <2>3. CASE <<w, n>> \in journal[d]
    <3>1. <<w, n>>[1] = w /\ <<w, n>>[2] = n
      OBVIOUS
    <3> QED BY <2>3, <3>1, JournalKeeps DEF Rows
  <2> QED BY <2>1, <2>2, <2>3
<1>2. ASSUME applied[d][w] < n, NEW e \in Device, SealSegment(e)
      PROVE  <<w, n>> \in journal'[d]
  <2>1. applied' = [applied EXCEPT ![e][e] = applied[e][e] + 1]
    BY <1>2, SealLemma
  <2>2. applied'[d][w] # applied[d][w]
    BY <1>2, <1>t
  <2>3. e = d /\ w = d
    BY <2>1, <2>2, <1>t DEF LaneFrontier
  <2>4. n = applied[d][d] + 1
    BY <1>2, <2>1, <2>3, <1>t DEF LaneFrontier
  <2> QED BY <1>2, <2>3, <2>4, <1>t, SealLemma
<1>3. ASSUME applied[d][w] < n, NEW e \in Device, NEW s \in Installable(e), FastForward(e, s)
      PROVE  n <= BaseCover(d)'[w]
  <2>0. applied'[d][w] # applied[d][w]
    BY <1>3, <1>t
  <2>1. e = d
    BY <1>3, <2>0, FastForwardLemma DEF Lanes
  <2>2. n <= s.cover[w]
    BY <1>3, <1>t, <2>1, FastForwardLemma DEF Lanes
  <2>3. BaseCover(d)' = s.cover
    <3>1. s # None
      BY InstallableLemma DEF Typed, TypeOK
    <3> QED BY <1>3, <1>t, <2>1, <3>1 DEF FastForward, BaseCover
  <2> QED BY <2>2, <2>3
<1>4. ASSUME applied[d][w] < n, NEW e \in Device, NEW x \in Device, ApplySegment(e, x)
      PROVE  <<w, n>> \in journal'[d]
  <2>0. applied'[d][w] # applied[d][w]
    BY <1>4, <1>t
  <2>1. applied' = [applied EXCEPT ![e][x] = applied[e][x] + 1]
    BY <1>4, <1>t DEF ApplySegment, LaneFrontier
  <2>2. e = d /\ x = w
    BY <2>0, <2>1, <1>t DEF LaneFrontier
  <2>3. n = applied[d][w] + 1
    BY <1>4, <2>1, <2>2, <1>t DEF LaneFrontier
  <2> QED BY <1>4, <2>2, <2>3, <1>t DEF ApplySegment
<1> QED BY <1>1, <1>2, <1>3, <1>4, <1>t, AppliedStep

\* Every step keeps the rows of unpublished edits.
LEMMA OwnEditsStep ==
  ASSUME Typed, Typed', Lanes, UploadsOwn, Rows, [Next]_vars
  PROVE  OwnEditsKept'
<1> SUFFICES ASSUME NEW d \in Device, NEW n \in 1 .. applied'[d][d]
             PROVE  <<d, n>> \in journal'[d] \/ SegmentOf(d, n) \in created'
  BY DEF OwnEditsKept, SegmentOf
<1>t. /\ applied \in [Device -> LaneFrontier] /\ journal \in [Device -> SUBSET Row]
      /\ applied[d][d] \in Nat /\ applied'[d][d] \in Nat
  BY AppliedLemma DEF Typed, TypeOK, JournalOK, LaneFrontier
<1>1. CASE n <= applied[d][d]
  <2>1. <<d, n>> \in journal[d] \/ SegmentOf(d, n) \in created
    BY <1>1 DEF Rows, OwnEditsKept
  <2>2. CASE SegmentOf(d, n) \in created
    BY <2>2, CreatedStep
  <2>3. CASE <<d, n>> \in journal[d]
    <3>1. <<d, n>>[1] = d /\ <<d, n>>[2] = n
      OBVIOUS
    <3>2. <<d, n>> \in journal'[d] \/ n \in published[d]
      BY <2>3, <3>1, JournalKeeps DEF Rows
    <3> QED BY <3>2, CreatedStep DEF UploadsOwn
  <2> QED BY <2>1, <2>2, <2>3
<1>2. CASE applied[d][d] < n
  <2>1. SealSegment(d)
    BY <1>2, <1>t, OwnHeadLemma
  <2>2. n = applied[d][d] + 1
    BY <1>2, <1>t, <2>1, SealLemma DEF LaneFrontier
  <2> QED BY <2>1, <2>2, <1>t, SealLemma
<1> QED BY <1>1, <1>2, <1>t

-----------------------------------------------------------------------------
(***************************************************************************)
(* Pruning.  Between the pull that a plan was made after and the request,  *)
(* nothing a device remembers of the provider changes, and every snapshot  *)
(* it has seen is either retained by the plan or dropped by it.            *)
(***************************************************************************)
PlanComplete(d) ==
  /\ prunePlan[d] \in PrunePlan
  /\ \A o \in Segments(prunePlan[d].drop), s \in prunePlan[d].keep : Covers(s, o)
  /\ \A m \in Markers(seen[d] \ removed[d]) :
       m.of \in prunePlan[d].keep \/ m \in prunePlan[d].drop

\* A prune plan accounts for every snapshot the device has seen.
PlansKnowAll ==
  \A d \in Device :
    /\ seen[d] \subseteq observed[d]
    /\ removed[d] \subseteq pruned
    /\ phase[d] = "prune" => PlanComplete(d)

\* A plan, made when every committed marker was readable, is complete.
LEMMA PlanLemma ==
  ASSUME Typed, PlansKnowAll, NEW d \in Device, PlanPrune(d)
  PROVE  PlanComplete(d)'
<1> DEFINE keep == Retained(Catalog(d))
           drop == CoveredRemoteSegments(d, keep)
                   \cup UNION { {Package(s), Marker(s)} : s \in Catalog(d) \ keep }
<1>t. /\ prunePlan \in [Device -> PrunePlan \cup {None}]
      /\ observed \in [Device -> SUBSET Object] /\ seen \in [Device -> SUBSET Object]
      /\ Catalog(d) \subseteq Snapshot /\ Readable(d) \subseteq Object
  BY CatalogLemma DEF Typed, TypeOK, CycleOK, RemoteOK
<1>1. /\ prunePlan' = [prunePlan EXCEPT ![d] = [keep |-> keep, drop |-> drop]]
      /\ CatalogComplete(d)
      /\ UNCHANGED <<seen, removed, observed>>
  BY DEF PlanPrune, remoteVars
<1>2. prunePlan'[d] = [keep |-> keep, drop |-> drop]
  BY <1>1, <1>t
<1>k. keep \subseteq Snapshot
  BY <1>t DEF Retained
<1>p. \A s \in Catalog(d) : /\ Package(s) \in Object /\ Package(s).kind # "segment"
                            /\ Marker(s) \in Object /\ Marker(s).kind # "segment"
  BY <1>t, ObjectLemma
<1> HIDE DEF keep
<1>3. drop \subseteq Object
  BY <1>t, <1>p DEF CoveredRemoteSegments, Segments
<1>4. [keep |-> keep, drop |-> drop] \in PrunePlan
  BY <1>3, <1>k DEF PrunePlan
<1>5. \A o \in Segments(drop), s \in keep : Covers(s, o)
  BY <1>p DEF CoveredRemoteSegments, Segments
<1>6. \A m \in Markers(seen[d] \ removed[d]) : m.of \in keep \/ m \in drop
  <2> SUFFICES ASSUME NEW m \in Markers(seen[d] \ removed[d]), m.of \notin keep
               PROVE  m \in drop
    OBVIOUS
  <2>1. m \in Markers(Listed(d))
    BY DEF Markers, Listed, PlansKnowAll
  <2>2. m \in Readable(d) /\ Package(m.of) \in Readable(d)
    BY <1>1, <2>1 DEF CatalogComplete
  <2>3. m \in Markers(Readable(d))
    BY <2>1, <2>2 DEF Markers
  <2>4. m.of \in Catalog(d) /\ m = Marker(m.of)
    BY <2>2, <2>3, <1>t, MarkersLemma DEF Catalog, Committed
  <2>5. {Package(m.of), Marker(m.of)} \in { {Package(s), Marker(s)} : s \in Catalog(d) \ keep }
    BY <2>4
  <2> QED BY <2>4, <2>5
<1>7. prunePlan'[d] \in PrunePlan
  BY <1>2, <1>4
<1> HIDE DEF drop
<1>8. prunePlan'[d].keep = keep /\ prunePlan'[d].drop = drop
  BY <1>2
<1>9. \A o \in Segments(prunePlan'[d].drop), s \in prunePlan'[d].keep : Covers(s, o)
  BY <1>5, <1>8
<1>10. \A m \in Markers(seen'[d] \ removed'[d]) :
         m.of \in prunePlan'[d].keep \/ m \in prunePlan'[d].drop
  BY <1>1, <1>6, <1>8
<1> QED BY <1>7, <1>9, <1>10 DEF PlanComplete, Covers, Segments, Markers

\* What a device remembers of the provider changes in its pull and with its receipts.
LEMMA SeenStep ==
  ASSUME Typed, [Next]_vars
  PROVE  \/ UNCHANGED remoteVars
         \/ \E d \in Device : Pull(d) \/ RecordReceipt(d)
<1>1. ASSUME NEW d \in Device, Truncate(d)
      PROVE  UNCHANGED remoteVars
  BY <1>1 DEF Truncate, TruncatePrunedLocalSegments, Rebase, DeleteBatch, NoTruncation
<1>2. ASSUME NEW d \in Device, PublishBlobs(d) \/ FinishSegments(d)
             \/ \E o \in todo[d] : Upload(d, o) \/ UploadPruned(d, o)
      PROVE  UNCHANGED remoteVars
  BY <1>2 DEF PublishBlobs, FinishSegments, Upload, UploadPruned
<1>3. ASSUME NEW d \in Device, Checkpoint(d)
      PROVE  UNCHANGED remoteVars
  BY <1>3 DEF Checkpoint, ResumeCheckpoint, CaptureCheckpoint, FinishCheckpoint,
              SkipCheckpoint, PlanPrune, Prune, RejectPrune
<1>4. ASSUME NEW d \in Device,
             \/ SealSegment(d) \/ NoCatchUp(d) \/ Interrupt(d)
             \/ \E s \in Installable(d) : FastForward(d, s)
             \/ \E w \in Device : ApplySegment(d, w)
      PROVE  UNCHANGED remoteVars
  BY <1>4 DEF SealSegment, NoCatchUp, Interrupt, FastForward, ApplySegment
<1>5. CASE UNCHANGED vars
  BY <1>5 DEF vars
<1> QED BY <1>1, <1>2, <1>3, <1>4, <1>5 DEF Next, Cycle, Publish

\* A device that is about to prune has just planned, or its plan stands.
LEMMA PrunePhaseStep ==
  ASSUME Typed, UploadsOwn, [Next]_vars, NEW d \in Device, phase'[d] = "prune"
  PROVE  PlanPrune(d) \/ (phase[d] = "prune" /\ prunePlan'[d] = prunePlan[d])
<1> USE DEF cycleVars, GoTo, EndCycle
<1>t. phase \in [Device -> Phase] /\ prunePlan \in [Device -> PrunePlan \cup {None}]
  BY DEF Typed, TypeOK, CycleOK
<1>1. ASSUME NEW e \in Device, PlanPrune(e)
      PROVE  PlanPrune(d) \/ (phase[d] = "prune" /\ prunePlan'[d] = prunePlan[d])
  BY <1>1, <1>t DEF PlanPrune
<1>2. ASSUME NEW e \in Device, EndCycle(e)
      PROVE  phase[d] = "prune" /\ prunePlan'[d] = prunePlan[d]
  BY <1>2, <1>t
<1>3. ASSUME NEW e \in Device, NEW p, p # "prune", phase' = [phase EXCEPT ![e] = p],
             UNCHANGED prunePlan
      PROVE  phase[d] = "prune" /\ prunePlan'[d] = prunePlan[d]
  BY <1>3, <1>t
<1>4. CASE UNCHANGED <<phase, prunePlan>>
  BY <1>4
<1>5. ASSUME NEW e \in Device,
             \/ \E o \in todo[e] : UploadPruned(e, o)
             \/ FinishCheckpoint(e) \/ SkipCheckpoint(e) \/ Prune(e) \/ RejectPrune(e)
             \/ Interrupt(e)
      PROVE  EndCycle(e)
  BY <1>5 DEF UploadPruned, FinishCheckpoint, SkipCheckpoint, Prune, RejectPrune, Interrupt
<1>6. ASSUME NEW e \in Device,
             \/ SealSegment(e) \/ RecordReceipt(e) \/ \E w \in Device : ApplySegment(e, w)
             \/ \E o \in todo[e] : Upload(e, o)
      PROVE  UNCHANGED <<phase, prunePlan>>
  BY <1>6 DEF SealSegment, RecordReceipt, ApplySegment, Upload
<1>7. ASSUME NEW e \in Device,
             \/ Pull(e) \/ NoCatchUp(e) \/ TruncatePrunedLocalSegments(e) \/ NoTruncation(e)
             \/ \E s \in Installable(e) : FastForward(e, s)
             \/ PublishBlobs(e) \/ FinishSegments(e)
             \/ ResumeCheckpoint(e) \/ CaptureCheckpoint(e)
      PROVE  (\E p : p # "prune" /\ phase' = [phase EXCEPT ![e] = p]) /\ UNCHANGED prunePlan
  BY <1>7 DEF Pull, NoCatchUp, TruncatePrunedLocalSegments, NoTruncation, FastForward,
              PublishBlobs, FinishSegments, ResumeCheckpoint, CaptureCheckpoint
<1>8. ASSUME NEW e \in Device,
             DeleteBatch(e) \/ \E s \in PlannedBase(e), kept \in SUBSET Named : Rebase(e, s, kept)
      PROVE  (\E p : p # "prune" /\ phase' = [phase EXCEPT ![e] = p]) /\ UNCHANGED prunePlan
  <2>1. phase[e] = "truncate" /\ UNCHANGED prunePlan
    BY <1>8 DEF DeleteBatch, Rebase
  <2>2. phase' = [phase EXCEPT ![e] = "publish-blobs"] \/ phase' = [phase EXCEPT ![e] = phase[e]]
    BY <1>8, <1>t DEF DeleteBatch, Rebase
  <2> QED BY <2>1, <2>2
<1>9. CASE UNCHANGED vars
  BY <1>9 DEF vars
<1> QED BY <1>1, <1>2, <1>3, <1>4, <1>5, <1>6, <1>7, <1>8, <1>9
        DEF Next, Cycle, Truncate, Publish, Checkpoint

\* Every step keeps plans complete.
LEMMA PlansStep ==
  ASSUME Typed, UploadsOwn, PlansKnowAll, [Next]_vars
  PROVE  PlansKnowAll'
<1> USE DEF remoteVars
<1>t. /\ seen \in [Device -> SUBSET Object] /\ observed \in [Device -> SUBSET Object]
      /\ removed \in [Device -> SUBSET Object] /\ phase \in [Device -> Phase]
  BY DEF Typed, TypeOK, RemoteOK, CycleOK
<1>0. created \subseteq created' /\ pruned \subseteq pruned'
  BY CreatedStep
<1>1. ASSUME NEW e \in Device, Pull(e)
      PROVE  /\ \A d \in Device : seen'[d] \subseteq observed'[d] /\ removed'[d] \subseteq pruned'
             /\ phase'[e] # "prune"
             /\ \A d \in Device \ {e} : seen'[d] = seen[d] /\ removed'[d] = removed[d]
  BY <1>1, <1>0, <1>t DEF Pull, GoTo, PlansKnowAll, providerVars
<1>2. ASSUME NEW e \in Device, RecordReceipt(e)
      PROVE  /\ \A d \in Device : seen'[d] \subseteq observed'[d] /\ removed'[d] \subseteq pruned'
             /\ phase'[e] # "prune"
             /\ \A d \in Device \ {e} : seen'[d] = seen[d] /\ removed'[d] = removed[d]
  <2>1. phase[e] # "prune"
    BY <1>2 DEF RecordReceipt, UploadsOwn
  <2> QED BY <1>2, <2>1, <1>0, <1>t DEF RecordReceipt, PlansKnowAll
<1>3. ASSUME UNCHANGED remoteVars
      PROVE  \A d \in Device : /\ seen'[d] \subseteq observed'[d]
                               /\ removed'[d] \subseteq pruned'
                               /\ seen'[d] = seen[d] /\ removed'[d] = removed[d]
  BY <1>3, <1>0 DEF PlansKnowAll
<1>4. \A d \in Device : seen'[d] \subseteq observed'[d] /\ removed'[d] \subseteq pruned'
  BY <1>1, <1>2, <1>3, SeenStep
<1>5. ASSUME NEW d \in Device, phase'[d] = "prune"
      PROVE  seen'[d] = seen[d] /\ removed'[d] = removed[d]
  BY <1>1, <1>2, <1>3, <1>5, SeenStep
<1>6. ASSUME NEW d \in Device, phase'[d] = "prune"
      PROVE  PlanComplete(d)'
  <2>1. CASE PlanPrune(d)
    BY <2>1, PlanLemma
  <2>2. CASE phase[d] = "prune" /\ prunePlan'[d] = prunePlan[d]
    BY <2>2, <1>5, <1>6 DEF PlansKnowAll, PlanComplete
  <2> QED BY <1>6, <2>1, <2>2, PrunePhaseStep
<1> QED BY <1>4, <1>6 DEF PlansKnowAll

\* The provider's guards: what the plan did not know of is newer than its basis.
LEMMA PruneLemma ==
  ASSUME Typed, PlansKnowAll, NEW d \in Device, Prune(d),
         NEW o \in Segments(pruned' \ pruned), NEW s \in Committed(created' \ pruned')
  PROVE  Covers(s, o)
<1>1. PICK young \in SUBSET Segments(prunePlan[d].drop) :
        pruned' = pruned \cup ((prunePlan[d].drop \cap seen[d]) \ young)
  BY DEF Prune
<1>2. /\ created' = created /\ PlanComplete(d)
      /\ SnapshotParts(created) \subseteq seen[d]
  BY DEF Prune, PlansKnowAll, PruneRejected
<1>3. s \in Snapshot /\ Marker(s) \in created /\ Marker(s) \notin pruned'
  BY <1>2, CommittedLemma DEF Typed, TypeOK, ProviderOK
<1>4. Marker(s).kind = "snapshot-commit" /\ Marker(s).of = s
  BY <1>3, ObjectLemma
<1>5. Marker(s) \in seen[d]
  BY <1>2, <1>3, <1>4 DEF SnapshotParts
<1>6. Marker(s) \in Markers(seen[d] \ removed[d])
  BY <1>1, <1>3, <1>4, <1>5 DEF Markers, PlansKnowAll
<1>7. Marker(s) \notin prunePlan[d].drop
  BY <1>1, <1>3, <1>4, <1>5 DEF Segments
<1>8. s \in prunePlan[d].keep
  BY <1>2, <1>4, <1>6, <1>7 DEF PlanComplete
<1>9. o \in Segments(prunePlan[d].drop)
  BY <1>1 DEF Segments
<1> QED BY <1>2, <1>8, <1>9 DEF PlanComplete

\* Only a prune takes objects from the provider.
LEMMA PrunedStep ==
  ASSUME [Next]_vars
  PROVE  pruned' = pruned \/ \E d \in Device : Prune(d)
<1> USE DEF providerVars
<1>1. ASSUME NEW d \in Device, Truncate(d)
      PROVE  pruned' = pruned
  BY <1>1 DEF Truncate, TruncatePrunedLocalSegments, Rebase, DeleteBatch, NoTruncation
<1>2. ASSUME NEW d \in Device, Publish(d)
      PROVE  pruned' = pruned
  BY <1>2 DEF Publish, PublishBlobs, Upload, UploadPruned, RecordReceipt, FinishSegments
<1>3. ASSUME NEW d \in Device, ResumeCheckpoint(d) \/ CaptureCheckpoint(d) \/ FinishCheckpoint(d)
                               \/ SkipCheckpoint(d) \/ PlanPrune(d) \/ RejectPrune(d)
      PROVE  pruned' = pruned
  BY <1>3 DEF ResumeCheckpoint, CaptureCheckpoint, FinishCheckpoint, SkipCheckpoint,
              PlanPrune, RejectPrune
<1>4. ASSUME NEW d \in Device,
             \/ SealSegment(d) \/ Pull(d) \/ NoCatchUp(d) \/ Interrupt(d)
             \/ \E s \in Installable(d) : FastForward(d, s)
             \/ \E w \in Device : ApplySegment(d, w)
      PROVE  pruned' = pruned
  BY <1>4 DEF SealSegment, Pull, NoCatchUp, Interrupt, FastForward, ApplySegment
<1>5. CASE UNCHANGED vars
  BY <1>5 DEF vars
<1> QED BY <1>1, <1>2, <1>3, <1>4, <1>5 DEF Next, Cycle, Checkpoint

-----------------------------------------------------------------------------
(***************************************************************************)
(* The inductive invariant and the theorems.                               *)
(***************************************************************************)
IInv == Typed /\ Lanes /\ UploadsOwn /\ Rows /\ PlansKnowAll

\* The inductive invariant holds at first,
LEMMA InitLemma == Init => IInv
<1> SUFFICES ASSUME Init PROVE IInv
  OBVIOUS
<1>1. Typed
  BY InitTyped
<1>2. \A d, w \in Device : applied[d][w] = 0
  BY DEF Init, NoCover
<1>3. Lanes
  BY <1>2, NoneAssumption
  DEF Init, Lanes, SealedFirst, LanesStayAnchored, SealedObject, WithinLanes
<1>4. UploadsOwn /\ PlansKnowAll
  BY DEF Init, UploadsOwn, Segments, PlansKnowAll
<1>5. Rows
  <2>1. \A d, w \in Device : 1 .. applied[d][w] = {}
    BY <1>2
  <2> QED BY <2>1 DEF Init, Rows, ReplayComplete, OwnEditsKept, DoomedCovered
<1> QED BY <1>1, <1>3, <1>4, <1>5 DEF IInv

\* is preserved by every step,
LEMMA NextLemma == IInv /\ [Next]_vars => IInv'
<1> SUFFICES ASSUME IInv, [Next]_vars PROVE IInv'
  OBVIOUS
<1> USE DEF IInv
<1>1. Typed'
  BY TypeStep
<1>2. Lanes'
  BY <1>1, SealedStep, AnchorStep DEF Lanes
<1>3. UploadsOwn' /\ PlansKnowAll'
  BY UploadsStep, PlansStep
<1>4. Rows'
  BY <1>1, DoomedStep, ReplayStep, OwnEditsStep DEF Rows
<1> QED BY <1>1, <1>2, <1>3, <1>4

\* and so always holds.
LEMMA Inductive == Spec => []IInv
BY InitLemma, NextLemma, PTL DEF Spec

(***************************************************************************)
(* Every table holds rows of its kind (schema/drizzle.ts).                 *)
(***************************************************************************)
THEOREM TypeCorrect == Spec => []TypeOK
<1>1. IInv => TypeOK
  BY DEF IInv, Typed
<1> QED BY Inductive, <1>1, PTL

(***************************************************************************)
(* Whatever is truncated in however many transactions, and wherever a      *)
(* catch-up or an interruption comes in between, a rebuild from the base   *)
(* and the rows left finds every change set that was applied.              *)
(***************************************************************************)
THEOREM ReplayCorrect == Spec => []ReplayComplete
<1>1. IInv => ReplayComplete
  BY DEF IInv, Rows
<1> QED BY Inductive, <1>1, PTL

(***************************************************************************)
(* The only copy of an own change set is never deleted                     *)
(* (coveredChangeSetIds).                                                  *)
(***************************************************************************)
THEOREM OwnEditsCorrect == Spec => []OwnEditsKept
<1>1. IInv => OwnEditsKept
  BY DEF IInv, Rows
<1> QED BY Inductive, <1>1, PTL

(***************************************************************************)
(* Sealing always finds the segment to chain the next one to               *)
(* (truncatePrunedLocalSegments).                                          *)
(***************************************************************************)
THEOREM LanesCorrect == Spec => []LanesStayAnchored
<1>1. IInv => LanesStayAnchored
  BY DEF IInv, Lanes
<1> QED BY Inductive, <1>1, PTL

(***************************************************************************)
(* The basis cursor and the completeness of the catalog suffice for the    *)
(* promise of planPrune, however many devices publish and prune.           *)
(***************************************************************************)
THEOREM PruneCorrect == Spec => RemovedIsCovered
<1>1. IInv /\ [Next]_vars =>
        [ \A o \in Segments(pruned' \ pruned) :
            \A s \in Committed(created' \ pruned') : Covers(s, o) ]_vars
  <2> SUFFICES ASSUME IInv, [Next]_vars,
                      NEW o \in Segments(pruned' \ pruned),
                      NEW s \in Committed(created' \ pruned')
               PROVE  Covers(s, o)
    OBVIOUS
  <2>1. CASE pruned' = pruned
    BY <2>1 DEF Segments
  <2>2. ASSUME NEW d \in Device, Prune(d) PROVE Covers(s, o)
    BY <2>2, PruneLemma DEF IInv
  <2> QED BY <2>1, <2>2, PrunedStep
<1> QED BY Inductive, <1>1, PTL DEF Spec, RemovedIsCovered

(***************************************************************************)
(* Truncation and catch-up never take the base back                        *)
(* (planBase, installSnapshotCatchUp).                                     *)
(***************************************************************************)
THEOREM BaseCorrect == Spec => BaseOnlyAdvances
<1>1. IInv /\ [Next]_vars =>
        [ \A d \in Device : base[d] # None =>
            base'[d] # None /\ Dominates(base'[d].cover, base[d].cover) ]_vars
  BY BaseAdvances DEF IInv
<1> QED BY Inductive, <1>1, PTL DEF Spec, BaseOnlyAdvances
=============================================================================
