------------------------------ MODULE Frontier ------------------------------
(***************************************************************************)
(* The durable frontier of one (generation, writer, epoch):                *)
(* src/renderer/sync/engine/frontier.ts.  A lane records the highest       *)
(* sequence number observed and the gaps below it.  The code keeps the     *)
(* gaps in an array sorted by firstSeq; here they are a set of ranges and  *)
(* "the first gap" is the one with the least firstSeq.                     *)
(* A throw of the code is an action that is not enabled.                   *)
(***************************************************************************)
EXTENDS Integers

CONSTANT MaxSeq     \* bound: the highest sequence number a range reaches

ASSUME MaxSeqAssumption == MaxSeq \in Nat

VARIABLES received, applied, published, head

vars == <<received, applied, published, head>>

Range == [firstSeq : Nat \ {0}, lastSeq : Nat \ {0}]

\* assertRange
RangeOK(r) == r \in Range /\ r.firstSeq <= r.lastSeq

Seqs(r) == r.firstSeq .. r.lastSeq

EmptyLane == [maxSeq |-> 0, gaps |-> {}]

\* Mutant: the pieces are not checked for emptiness.
EmptyPiecesKept(gap, c) ==
  IF c.lastSeq < gap.firstSeq \/ c.firstSeq > gap.lastSeq
  THEN {gap}
  ELSE { [firstSeq |-> gap.firstSeq, lastSeq |-> c.firstSeq - 1],
         [firstSeq |-> c.lastSeq + 1, lastSeq |-> gap.lastSeq] }

\* Mutant: a range inside a gap closes the gap above it too.
UpperPieceLost(gap, c) ==
  IF c.lastSeq < gap.firstSeq \/ c.firstSeq > gap.lastSeq
  THEN {gap}
  ELSE { p \in { [firstSeq |-> gap.firstSeq, lastSeq |-> c.firstSeq - 1] } :
         p.firstSeq <= p.lastSeq }

(***************************************************************************)
(* What is left of a gap once the range c is covered: nothing, one piece   *)
(* or the two pieces on either side of c.                                  *)
(***************************************************************************)
Remainder(gap, c) ==
  IF c.lastSeq < gap.firstSeq \/ c.firstSeq > gap.lastSeq
  THEN {gap}
  ELSE { p \in { [firstSeq |-> gap.firstSeq, lastSeq |-> c.firstSeq - 1],
                 [firstSeq |-> c.lastSeq + 1, lastSeq |-> gap.lastSeq] } :
         p.firstSeq <= p.lastSeq }

RemoveCoveredRange(gaps, c) == UNION { Remainder(gap, c) : gap \in gaps }

\* Mutant: the gap starts at the last sequence observed.
OpensTooEarly(lane, r) ==
  IF r.firstSeq > lane.maxSeq + 1
  THEN {[firstSeq |-> lane.maxSeq, lastSeq |-> r.firstSeq - 1]}
  ELSE {}

\* The gap a range opens when it starts beyond the next expected sequence.
Opened(lane, r) ==
  IF r.firstSeq > lane.maxSeq + 1
  THEN {[firstSeq |-> lane.maxSeq + 1, lastSeq |-> r.firstSeq - 1]}
  ELSE {}

ObserveLaneRange(lane, r) ==
  [maxSeq |-> IF r.lastSeq > lane.maxSeq THEN r.lastSeq ELSE lane.maxSeq,
   gaps   |-> RemoveCoveredRange(lane.gaps \cup Opened(lane, r), r)]

Overlaps(a, b) == a.firstSeq <= b.lastSeq /\ b.firstSeq <= a.lastSeq

IsFrontierRangeComplete(lane, r) ==
  /\ r.lastSeq <= lane.maxSeq
  /\ \A gap \in lane.gaps : ~Overlaps(gap, r)

FirstGap(lane) ==
  CHOOSE g \in lane.gaps : \A h \in lane.gaps : g.firstSeq <= h.firstSeq

ContiguousFrontierSeq(lane) ==
  IF lane.gaps = {} THEN lane.maxSeq ELSE FirstGap(lane).firstSeq - 1

\* Mutant: any incomplete range advances the lane.
AdvancesAcrossGap(lane, r) == ~IsFrontierRangeComplete(lane, r)

CanAdvanceContiguousFrontier(lane, r) ==
  /\ ~IsFrontierRangeComplete(lane, r)
  /\ r.firstSeq <= ContiguousFrontierSeq(lane) + 1
  /\ r.lastSeq >= ContiguousFrontierSeq(lane) + 1

-----------------------------------------------------------------------------
(* The state machine: observeFrontierRange on each lane, setAppliedSegmentHead. *)

Ranges == { r \in [firstSeq : 1 .. MaxSeq, lastSeq : 1 .. MaxSeq] :
              r.firstSeq <= r.lastSeq }

Init ==
  /\ received = EmptyLane
  /\ applied = EmptyLane
  /\ published = EmptyLane
  /\ head = 0

ObserveReceived(r) ==
  /\ received' = ObserveLaneRange(received, r)
  /\ UNCHANGED <<applied, published, head>>

\* A complete range is returned unchanged; one that does not reach the next
\* contiguous sequence throws.
ObserveApplied(r) ==
  /\ IsFrontierRangeComplete(received, r)
  /\ CanAdvanceContiguousFrontier(applied, r)
  /\ applied' = ObserveLaneRange(applied, r)
  /\ UNCHANGED <<received, published, head>>

ObservePublished(r) ==
  /\ IsFrontierRangeComplete(received, r)
  /\ published' = ObserveLaneRange(published, r)
  /\ UNCHANGED <<received, applied, head>>

\* The head is the sha256 of the segment ending at lastSeq; it is abstracted
\* to that sequence number.
SetAppliedSegmentHead(lastSeq) ==
  /\ lastSeq >= 1
  /\ ContiguousFrontierSeq(applied) >= lastSeq
  /\ lastSeq = applied.maxSeq
  /\ head' = lastSeq
  /\ UNCHANGED <<received, applied, published>>

Next ==
  \/ \E r \in Ranges : ObserveReceived(r)
  \/ \E r \in Ranges : ObserveApplied(r)
  \/ \E r \in Ranges : ObservePublished(r)
  \/ \E s \in 1 .. MaxSeq : SetAppliedSegmentHead(s)

Spec == Init /\ [][Next]_vars

-----------------------------------------------------------------------------
(* Properties *)

\* The sequence numbers a lane says it has observed.
Observed(lane) ==
  { s \in 1 .. lane.maxSeq : \A gap \in lane.gaps : s \notin Seqs(gap) }

LaneType(lane) ==
  /\ lane \in [maxSeq : Nat, gaps : SUBSET Range]
  /\ \A gap \in lane.gaps : RangeOK(gap)

\* Every variable has its type and every gap is a non-empty range.
TypeOK ==
  /\ LaneType(received)
  /\ LaneType(applied)
  /\ LaneType(published)
  /\ head \in Nat

\* Gaps are disjoint and never adjacent (a sequence number lies between any
\* two of them), and each ends below the maximum, which was itself observed.
LaneNormal(lane) ==
  /\ \A g, h \in lane.gaps :
       g = h \/ g.lastSeq + 1 < h.firstSeq \/ h.lastSeq + 1 < g.firstSeq
  /\ \A g \in lane.gaps : g.lastSeq < lane.maxSeq

\* assertWriterFrontierInvariants, which the repository calls before it saves a
\* frontier: whatever ranges arrive in whatever order, no call of
\* observeFrontierRange or setAppliedSegmentHead builds a state it rejects.
WriterFrontierInvariants ==
  /\ LaneNormal(received) /\ LaneNormal(applied) /\ LaneNormal(published)
  /\ applied.maxSeq <= received.maxSeq
  /\ published.maxSeq <= received.maxSeq
  /\ head # 0 => /\ applied.maxSeq # 0
                 /\ ContiguousFrontierSeq(applied) = applied.maxSeq

\* The one normal form of a set of observed sequence numbers: its maximum and
\* its maximal missing intervals.
Canonical(S) ==
  LET max == IF S = {} THEN 0 ELSE CHOOSE m \in S : \A s \in S : s <= m
  IN  [maxSeq |-> max,
       gaps |-> { r \in Ranges : /\ Seqs(r) \cap S = {}
                                 /\ r.firstSeq - 1 \in S \cup {0}
                                 /\ r.lastSeq + 1 \in S }]

\* Duplicate and reordered delivery is idempotent: a lane is determined by the
\* set of sequence numbers observed, not by how they arrived.
LanesCanonical ==
  /\ received = Canonical(Observed(received))
  /\ applied = Canonical(Observed(applied))
  /\ published = Canonical(Observed(published))

\* The frontier implements the lanes-as-sets specification: gap splitting never
\* loses or invents a sequence number, the applied lane is a prefix, and nothing
\* is applied or published before it is received.
Sets == INSTANCE FrontierSets WITH
          received  <- Observed(received),
          applied   <- Observed(applied),
          published <- Observed(published)

ImplementsSets == Sets!Spec
=============================================================================
