--------------------------- MODULE FrontierProofs ---------------------------
(***************************************************************************)
(* Theorems about Frontier, for every bound on sequence numbers: the       *)
(* invariants the code asserts before every save hold of every reachable   *)
(* frontier, and the gap representation implements FrontierSets.           *)
(***************************************************************************)
EXTENDS Frontier, TLAPS

(***************************************************************************)
(* Cutting a range out of one gap (removeCoveredRange) leaves non-empty    *)
(* pieces of the gap, outside the range, that cover the rest of the gap    *)
(* and are separated from each other.                                      *)
(***************************************************************************)
LEMMA RemainderLemma ==
  ASSUME NEW gap, NEW c, RangeOK(gap), RangeOK(c)
  PROVE  /\ \A p \in Remainder(gap, c) :
              /\ RangeOK(p)
              /\ gap.firstSeq <= p.firstSeq /\ p.lastSeq <= gap.lastSeq
              /\ p.lastSeq < c.firstSeq \/ c.lastSeq < p.firstSeq
         /\ \A s \in Seqs(gap) : s \notin Seqs(c) =>
              \E p \in Remainder(gap, c) : s \in Seqs(p)
         /\ \A p, q \in Remainder(gap, c) :
              p = q \/ p.lastSeq + 1 < q.firstSeq \/ q.lastSeq + 1 < p.firstSeq
<1> DEFINE L == [firstSeq |-> gap.firstSeq, lastSeq |-> c.firstSeq - 1]
           R == [firstSeq |-> c.lastSeq + 1, lastSeq |-> gap.lastSeq]
<1>1. /\ gap.firstSeq \in Nat \ {0} /\ gap.lastSeq \in Nat \ {0}
      /\ c.firstSeq \in Nat \ {0} /\ c.lastSeq \in Nat \ {0}
      /\ gap.firstSeq <= gap.lastSeq /\ c.firstSeq <= c.lastSeq
  BY DEF RangeOK, Range
<1>2. CASE c.lastSeq < gap.firstSeq \/ c.firstSeq > gap.lastSeq
  <2>1. Remainder(gap, c) = {gap}
    BY <1>2 DEF Remainder
  <2> QED BY <2>1, <1>1, <1>2
<1>3. CASE ~(c.lastSeq < gap.firstSeq \/ c.firstSeq > gap.lastSeq)
  <2>1. Remainder(gap, c) = { p \in {L, R} : p.firstSeq <= p.lastSeq }
    BY <1>3 DEF Remainder
  <2>2. ASSUME NEW p \in Remainder(gap, c)
        PROVE  /\ RangeOK(p)
               /\ gap.firstSeq <= p.firstSeq /\ p.lastSeq <= gap.lastSeq
               /\ p.lastSeq < c.firstSeq \/ c.lastSeq < p.firstSeq
    <3>1. CASE p = L /\ L.firstSeq <= L.lastSeq
      BY <3>1, <1>1, <1>3 DEF RangeOK, Range
    <3>2. CASE p = R /\ R.firstSeq <= R.lastSeq
      BY <3>2, <1>1, <1>3 DEF RangeOK, Range
    <3> QED BY <3>1, <3>2, <2>1
  <2>3. ASSUME NEW s \in Seqs(gap), s \notin Seqs(c)
        PROVE  \E p \in Remainder(gap, c) : s \in Seqs(p)
    <3>1. s \in Int /\ gap.firstSeq <= s /\ s <= gap.lastSeq
      BY <1>1 DEF Seqs
    <3>2. CASE s < c.firstSeq
      <4>1. L \in Remainder(gap, c) /\ s \in Seqs(L)
        BY <3>1, <3>2, <2>1, <1>1 DEF Seqs
      <4> QED BY <4>1
    <3>3. CASE s > c.lastSeq
      <4>1. R \in Remainder(gap, c) /\ s \in Seqs(R)
        BY <3>1, <3>3, <2>1, <1>1 DEF Seqs
      <4> QED BY <4>1
    <3> QED BY <3>1, <3>2, <3>3, <2>3, <1>1 DEF Seqs
  <2>4. ASSUME NEW p \in Remainder(gap, c), NEW q \in Remainder(gap, c)
        PROVE  p = q \/ p.lastSeq + 1 < q.firstSeq \/ q.lastSeq + 1 < p.firstSeq
    <3>1. p \in {L, R} /\ q \in {L, R}
      BY <2>1
    <3> QED BY <3>1, <1>1
  <2> QED BY <2>2, <2>3, <2>4
<1> QED BY <1>2, <1>3

(***************************************************************************)
(* observeLaneRange keeps a lane in normal form and adds exactly the       *)
(* sequence numbers of the range to what it says was observed.             *)
(***************************************************************************)
LEMMA ObserveLaneLemma ==
  ASSUME NEW lane, LaneType(lane), LaneNormal(lane), NEW r, RangeOK(r)
  PROVE  LET new == ObserveLaneRange(lane, r)
         IN  /\ LaneType(new)
             /\ LaneNormal(new)
             /\ Observed(new) = Observed(lane) \cup Seqs(r)
<1> DEFINE new == ObserveLaneRange(lane, r)
           G == lane.gaps \cup Opened(lane, r)
<1>1. /\ r.firstSeq \in Nat \ {0} /\ r.lastSeq \in Nat \ {0}
      /\ r.firstSeq <= r.lastSeq /\ lane.maxSeq \in Nat
  BY DEF RangeOK, Range, LaneType
<1>2. /\ \A g \in G : RangeOK(g)
      /\ \A g \in lane.gaps : g \in G /\ g.lastSeq < lane.maxSeq
      /\ \A g \in G \ lane.gaps :
           g.firstSeq = lane.maxSeq + 1 /\ g.lastSeq = r.firstSeq - 1
      /\ r.firstSeq > lane.maxSeq + 1 =>
           [firstSeq |-> lane.maxSeq + 1, lastSeq |-> r.firstSeq - 1] \in G
  BY <1>1 DEF Opened, RangeOK, Range, LaneType, LaneNormal
<1>3. ASSUME NEW g \in G, NEW h \in G
      PROVE  g = h \/ g.lastSeq + 1 < h.firstSeq \/ h.lastSeq + 1 < g.firstSeq
  <2>1. CASE g \in lane.gaps /\ h \in lane.gaps
    BY <2>1 DEF LaneNormal
  <2>2. CASE g \in lane.gaps /\ h \notin lane.gaps
    BY <2>2, <1>1, <1>2 DEF RangeOK, Range
  <2>3. CASE g \notin lane.gaps /\ h \in lane.gaps
    BY <2>3, <1>1, <1>2 DEF RangeOK, Range
  <2>4. CASE g \notin lane.gaps /\ h \notin lane.gaps
    BY <2>4 DEF Opened
  <2> QED BY <2>1, <2>2, <2>3, <2>4
<1>4. /\ new.gaps = UNION { Remainder(g, r) : g \in G }
      /\ new.maxSeq \in Nat /\ new.maxSeq >= lane.maxSeq
      /\ new.maxSeq >= r.lastSeq
      /\ new.maxSeq = lane.maxSeq \/ new.maxSeq = r.lastSeq
      /\ new = [maxSeq |-> new.maxSeq, gaps |-> new.gaps]
  BY <1>1 DEF ObserveLaneRange, RemoveCoveredRange
<1>5. \A p \in new.gaps : \E g \in G : p \in Remainder(g, r)
  BY <1>4
<1>6. ASSUME NEW p \in new.gaps
      PROVE  \E g \in G : /\ p \in Remainder(g, r)
                          /\ RangeOK(p)
                          /\ g.firstSeq <= p.firstSeq /\ p.lastSeq <= g.lastSeq
                          /\ p.lastSeq < r.firstSeq \/ r.lastSeq < p.firstSeq
  <2>1. PICK g \in G : p \in Remainder(g, r)
    BY <1>5
  <2> QED BY <2>1, <1>2, RemainderLemma
<1>7. LaneType(new)
  <2>1. \A p \in new.gaps : RangeOK(p) /\ p \in Range
    BY <1>6 DEF RangeOK
  <2> QED BY <2>1, <1>4 DEF LaneType
<1>8. ASSUME NEW p \in new.gaps, NEW q \in new.gaps
      PROVE  p = q \/ p.lastSeq + 1 < q.firstSeq \/ q.lastSeq + 1 < p.firstSeq
  <2>1. PICK g \in G : p \in Remainder(g, r) /\ RangeOK(p)
                       /\ g.firstSeq <= p.firstSeq /\ p.lastSeq <= g.lastSeq
    BY <1>6
  <2>2. PICK h \in G : q \in Remainder(h, r) /\ RangeOK(q)
                       /\ h.firstSeq <= q.firstSeq /\ q.lastSeq <= h.lastSeq
    BY <1>6
  <2>3. CASE g = h
    BY <2>1, <2>2, <2>3, <1>2, RemainderLemma
  <2>4. CASE g # h
    BY <2>1, <2>2, <2>4, <1>2, <1>3 DEF RangeOK, Range
  <2> QED BY <2>3, <2>4
<1>9. ASSUME NEW p \in new.gaps
      PROVE  p.lastSeq < new.maxSeq
  <2>1. PICK g \in G : RangeOK(p) /\ p.lastSeq <= g.lastSeq
    BY <1>6
  <2>2. CASE g \in lane.gaps
    BY <2>1, <2>2, <1>1, <1>2, <1>4 DEF RangeOK, Range
  <2>3. CASE g \notin lane.gaps
    BY <2>1, <2>3, <1>1, <1>2, <1>4 DEF RangeOK, Range
  <2> QED BY <2>2, <2>3
<1>10. LaneNormal(new)
  BY <1>8, <1>9 DEF LaneNormal
<1>11. ASSUME NEW s \in Observed(new)
       PROVE  s \in Observed(lane) \cup Seqs(r)
  <2>1. s \in 1 .. new.maxSeq /\ \A p \in new.gaps : s \notin Seqs(p)
    BY DEF Observed
  <2>2. CASE s \notin Seqs(r)
    <3>1. \A g \in G : s \notin Seqs(g)
      BY <2>1, <2>2, <1>2, <1>4, RemainderLemma
    <3>2. s <= lane.maxSeq
      <4>1. CASE s > lane.maxSeq
        <5>1. s < r.firstSeq
          BY <4>1, <2>1, <2>2, <1>1, <1>4 DEF Seqs
        <5>2. s \in Seqs([firstSeq |-> lane.maxSeq + 1, lastSeq |-> r.firstSeq - 1])
          BY <4>1, <5>1, <2>1, <1>1 DEF Seqs
        <5>3. r.firstSeq > lane.maxSeq + 1
          BY <4>1, <5>1, <2>1, <1>1
        <5> QED BY <5>2, <5>3, <3>1, <1>2
      <4> QED BY <4>1, <2>1, <1>1
    <3> QED BY <3>1, <3>2, <2>1, <1>1, <1>2 DEF Observed
  <2> QED BY <2>2
<1>12. ASSUME NEW s \in Observed(lane) \cup Seqs(r)
       PROVE  s \in Observed(new)
  <2>1. s \in 1 .. new.maxSeq
    BY <1>1, <1>4 DEF Observed, Seqs
  <2>2. ASSUME NEW p \in new.gaps
        PROVE  s \notin Seqs(p)
    <3>1. PICK g \in G : /\ RangeOK(p)
                         /\ g.firstSeq <= p.firstSeq /\ p.lastSeq <= g.lastSeq
                         /\ p.lastSeq < r.firstSeq \/ r.lastSeq < p.firstSeq
      BY <1>6
    <3>2. CASE s \in Seqs(r)
      BY <3>1, <3>2, <1>1 DEF Seqs, RangeOK, Range
    <3>3. CASE s \in Observed(lane)
      <4>1. s \notin Seqs(g)
        BY <3>3, <1>1, <1>2 DEF Observed, Seqs
      <4> QED BY <4>1, <3>1, <1>2 DEF Seqs, RangeOK, Range
    <3> QED BY <3>2, <3>3
  <2> QED BY <2>1, <2>2 DEF Observed
<1>13. Observed(new) = Observed(lane) \cup Seqs(r)
  BY <1>11, <1>12
<1> QED BY <1>7, <1>10, <1>13

(***************************************************************************)
(* isFrontierRangeComplete answers whether every sequence number of the    *)
(* range was observed.                                                     *)
(***************************************************************************)
LEMMA CompleteLemma ==
  ASSUME NEW lane, LaneType(lane), NEW r, RangeOK(r)
  PROVE  IsFrontierRangeComplete(lane, r) <=> Seqs(r) \subseteq Observed(lane)
<1>1. /\ r.firstSeq \in Nat \ {0} /\ r.lastSeq \in Nat \ {0}
      /\ r.firstSeq <= r.lastSeq /\ lane.maxSeq \in Nat
      /\ \A g \in lane.gaps : /\ g.firstSeq \in Nat \ {0} /\ g.lastSeq \in Nat \ {0}
                              /\ g.firstSeq <= g.lastSeq
  BY DEF RangeOK, Range, LaneType
<1>2. ASSUME IsFrontierRangeComplete(lane, r), NEW s \in Seqs(r)
      PROVE  s \in Observed(lane)
  <2>1. s \in 1 .. lane.maxSeq
    BY <1>1, <1>2 DEF Seqs, IsFrontierRangeComplete
  <2>2. \A g \in lane.gaps : s \notin Seqs(g)
    BY <1>1, <1>2 DEF Seqs, IsFrontierRangeComplete, Overlaps
  <2> QED BY <2>1, <2>2 DEF Observed
<1>3. ASSUME Seqs(r) \subseteq Observed(lane)
      PROVE  IsFrontierRangeComplete(lane, r)
  <2>1. r.lastSeq \in Observed(lane) /\ r.firstSeq \in Observed(lane)
    BY <1>1, <1>3 DEF Seqs
  <2>2. ASSUME NEW g \in lane.gaps, Overlaps(g, r)
        PROVE  FALSE
    <3>1. CASE g.firstSeq >= r.firstSeq
      <4>1. g.firstSeq \in Seqs(r) /\ g.firstSeq \in Seqs(g)
        BY <3>1, <2>2, <1>1 DEF Seqs, Overlaps
      <4> QED BY <4>1, <1>3 DEF Observed
    <3>2. CASE g.firstSeq < r.firstSeq
      <4>1. r.firstSeq \in Seqs(r) /\ r.firstSeq \in Seqs(g)
        BY <3>2, <2>2, <1>1 DEF Seqs, Overlaps
      <4> QED BY <4>1, <1>3 DEF Observed
    <3> QED BY <3>1, <3>2, <1>1
  <2>3. r.lastSeq <= lane.maxSeq
    BY <2>1, <1>1 DEF Observed
  <2> QED BY <2>2, <2>3 DEF IsFrontierRangeComplete
<1> QED BY <1>2, <1>3

-----------------------------------------------------------------------------
(***************************************************************************)
(* Every lane stays within the bound on sequence numbers: a gap is one of  *)
(* the ranges a lane can be told of.                                       *)
(***************************************************************************)
Bounded(lane) == lane.maxSeq <= MaxSeq /\ lane.gaps \subseteq Ranges

(***************************************************************************)
(* The inductive invariant.  The applied lane never has a gap: that is what *)
(* canAdvanceContiguousFrontier is for, and what makes "contiguous" and    *)
(* "highest" the same number on it.                                        *)
(***************************************************************************)
IInv ==
  /\ TypeOK
  /\ LaneNormal(received) /\ LaneNormal(applied) /\ LaneNormal(published)
  /\ Bounded(received) /\ Bounded(applied) /\ Bounded(published)
  /\ applied.gaps = {}
  /\ Observed(applied) \subseteq Observed(received)
  /\ Observed(published) \subseteq Observed(received)
  /\ head \in 0 .. applied.maxSeq

\* What the state machine is told of are ranges that assertRange accepts.
LEMMA RangesOK == \A r \in Ranges : RangeOK(r)
BY MaxSeqAssumption DEF Ranges, RangeOK, Range

(* A lane without gaps observed exactly 1..maxSeq. *)
LEMMA NoGapsLemma ==
  ASSUME NEW lane, lane.gaps = {}
  PROVE  /\ Observed(lane) = 1 .. lane.maxSeq
         /\ ContiguousFrontierSeq(lane) = lane.maxSeq
BY DEF Observed, ContiguousFrontierSeq

(* The maximum of a lane in normal form was itself observed. *)
LEMMA MaxObserved ==
  ASSUME NEW lane, LaneType(lane), LaneNormal(lane), lane.maxSeq # 0
  PROVE  lane.maxSeq \in Observed(lane)
BY DEF LaneType, LaneNormal, Observed, Seqs, Range

(* What the applied lane becomes: it stays without gaps. *)
LEMMA ApplyLemma ==
  ASSUME NEW lane, LaneType(lane), LaneNormal(lane), lane.gaps = {},
         NEW r, RangeOK(r), CanAdvanceContiguousFrontier(lane, r)
  PROVE  /\ ObserveLaneRange(lane, r).gaps = {}
         /\ ObserveLaneRange(lane, r).maxSeq = r.lastSeq
         /\ lane.maxSeq < r.lastSeq
<1>1. /\ r.firstSeq \in Nat \ {0} /\ r.lastSeq \in Nat \ {0}
      /\ r.firstSeq <= r.lastSeq /\ lane.maxSeq \in Nat
  BY DEF RangeOK, Range, LaneType
<1>2. r.firstSeq <= lane.maxSeq + 1 /\ r.lastSeq >= lane.maxSeq + 1
  BY NoGapsLemma DEF CanAdvanceContiguousFrontier
<1>3. Opened(lane, r) = {}
  BY <1>1, <1>2 DEF Opened
<1>4. ObserveLaneRange(lane, r).gaps = {}
  BY <1>3 DEF ObserveLaneRange, RemoveCoveredRange
<1> QED BY <1>1, <1>2, <1>4 DEF ObserveLaneRange

\* Observing a range within the bound keeps a lane within it.
LEMMA BoundedLemma ==
  ASSUME NEW lane, LaneType(lane), LaneNormal(lane), Bounded(lane), NEW r \in Ranges
  PROVE  Bounded(ObserveLaneRange(lane, r))
<1> DEFINE new == ObserveLaneRange(lane, r)
           G == lane.gaps \cup Opened(lane, r)
<1>1. /\ MaxSeq \in Nat /\ lane.maxSeq \in Nat /\ RangeOK(r)
      /\ r.firstSeq \in 1 .. MaxSeq /\ r.lastSeq \in 1 .. MaxSeq
  BY MaxSeqAssumption, RangesOK DEF LaneType, Ranges
<1>2. ASSUME NEW g \in G
      PROVE  RangeOK(g) /\ g.lastSeq <= MaxSeq
  <2>1. CASE g \in lane.gaps
    BY <2>1, RangesOK DEF Bounded, Ranges
  <2>2. CASE g \in Opened(lane, r)
    BY <2>2, <1>1 DEF Opened, RangeOK, Range
  <2> QED BY <2>1, <2>2
<1>3. ASSUME NEW p \in new.gaps
      PROVE  p \in Ranges
  <2>1. PICK g \in G : p \in Remainder(g, r)
    BY DEF ObserveLaneRange, RemoveCoveredRange
  <2>2. RangeOK(p) /\ p.lastSeq <= g.lastSeq
    BY <2>1, <1>1, <1>2, RemainderLemma
  <2>3. RangeOK(g) /\ g.lastSeq <= MaxSeq
    BY <1>2
  <2>4. p.firstSeq \in 1 .. MaxSeq /\ p.lastSeq \in 1 .. MaxSeq /\ p.firstSeq <= p.lastSeq
    BY <2>2, <2>3, <1>1 DEF RangeOK, Range
  <2>5. p = [firstSeq |-> p.firstSeq, lastSeq |-> p.lastSeq]
    BY <2>2 DEF RangeOK, Range
  <2> QED BY <2>4, <2>5 DEF Ranges
<1>4. new.maxSeq <= MaxSeq
  BY <1>1 DEF ObserveLaneRange, Bounded
<1> QED BY <1>3, <1>4 DEF Bounded

(***************************************************************************)
(* A lane in normal form is a function of what it observed: its maximum is *)
(* the highest sequence number, its gaps are the maximal missing ranges.   *)
(***************************************************************************)
LEMMA CanonicalLemma ==
  ASSUME NEW lane, LaneType(lane), LaneNormal(lane), Bounded(lane)
  PROVE  lane = Canonical(Observed(lane))
<1> DEFINE S == Observed(lane)
           max == IF S = {} THEN 0 ELSE CHOOSE m \in S : \A s \in S : s <= m
           Missing(r) == /\ Seqs(r) \cap S = {}
                         /\ r.firstSeq - 1 \in S \cup {0}
                         /\ r.lastSeq + 1 \in S
<1>1. /\ lane.maxSeq \in Nat
      /\ \A s : s \in S <=> /\ s \in 1 .. lane.maxSeq
                           /\ \A g \in lane.gaps : ~(g.firstSeq <= s /\ s <= g.lastSeq)
      /\ \A g \in lane.gaps : /\ g.firstSeq \in Nat \ {0} /\ g.lastSeq \in Nat \ {0}
                              /\ g.firstSeq <= g.lastSeq
                              /\ g.lastSeq < lane.maxSeq
      /\ \A g, h \in lane.gaps :
           g = h \/ g.lastSeq + 1 < h.firstSeq \/ h.lastSeq + 1 < g.firstSeq
  <2>1. /\ lane.maxSeq \in Nat
        /\ \A g \in lane.gaps : /\ g.firstSeq \in Nat \ {0} /\ g.lastSeq \in Nat \ {0}
                                /\ g.firstSeq <= g.lastSeq
    BY DEF LaneType, RangeOK, Range
  <2>2. ASSUME NEW s
        PROVE  s \in S <=> /\ s \in 1 .. lane.maxSeq
                          /\ \A g \in lane.gaps : ~(g.firstSeq <= s /\ s <= g.lastSeq)
    BY <2>1 DEF Observed, Seqs
  <2> QED BY <2>1, <2>2 DEF LaneNormal
<1>2. lane.maxSeq = max
  <2>1. CASE lane.maxSeq = 0
    <3>1. S = {}
      BY <2>1, <1>1
    <3> QED BY <2>1, <3>1
  <2>2. CASE lane.maxSeq # 0
    <3>1. lane.maxSeq \in S
      BY <2>2, MaxObserved
    <3>2. \A s \in S : s \in Nat /\ s <= lane.maxSeq
      BY <1>1
    <3> HIDE DEF S
    <3>3. max \in S /\ \A s \in S : s <= max
      BY <3>1, <3>2
    <3> HIDE DEF max
    <3> QED BY <3>1, <3>2, <3>3, <1>1
  <2> QED BY <2>1, <2>2
<1>3. ASSUME NEW g \in lane.gaps
      PROVE  g \in Ranges /\ Missing(g)
  <2> HIDE DEF S
  <2>1. \A s \in Seqs(g) : s \notin S
    BY <1>1 DEF Seqs
  <2>2. g.firstSeq - 1 \in S \cup {0}
    BY <1>1
  <2>3. g.lastSeq + 1 \in S
    BY <1>1
  <2> QED BY <2>1, <2>2, <2>3 DEF Bounded
<1>4. ASSUME NEW r \in Ranges, Missing(r)
      PROVE  r \in lane.gaps
  <2> HIDE DEF S
  <2>1. /\ r.firstSeq \in Nat \ {0} /\ r.lastSeq \in Nat \ {0} /\ r.firstSeq <= r.lastSeq
    BY RangesOK DEF RangeOK, Range
  <2>2. /\ r.firstSeq \notin S /\ r.lastSeq \notin S
        /\ \A s \in Int : r.firstSeq <= s /\ s <= r.lastSeq => s \notin S
    BY <1>4, <2>1 DEF Seqs
  <2>3. r.lastSeq + 1 \in S /\ (r.firstSeq - 1 \in S \/ r.firstSeq = 1)
    BY <1>4, <2>1
  <2>4. PICK g \in lane.gaps : g.firstSeq <= r.firstSeq /\ r.firstSeq <= g.lastSeq
    BY <2>1, <2>2, <2>3, <1>1
  <2>5. g.firstSeq = r.firstSeq
    BY <2>1, <2>3, <2>4, <1>1
  <2>6. g.lastSeq = r.lastSeq
    <3>1. CASE g.lastSeq < r.lastSeq
      <4>1. g.lastSeq + 1 \in S
        BY <1>3 
      <4> QED BY <4>1, <3>1, <2>1, <2>2, <2>4, <1>1
    <3>2. CASE g.lastSeq > r.lastSeq
      BY <3>2, <2>1, <2>3, <2>4, <1>1
    <3> QED BY <3>1, <3>2, <2>1, <1>1
  <2>7. /\ r = [firstSeq |-> r.firstSeq, lastSeq |-> r.lastSeq]
        /\ g = [firstSeq |-> g.firstSeq, lastSeq |-> g.lastSeq]
    BY DEF Ranges, Bounded
  <2> QED BY <2>4, <2>5, <2>6, <2>7
<1>5. lane.gaps = { r \in Ranges : Missing(r) }
  BY <1>3, <1>4
<1>6. lane = [maxSeq |-> lane.maxSeq, gaps |-> lane.gaps]
  BY DEF LaneType
<1>7. Canonical(S) = [maxSeq |-> max, gaps |-> { r \in Ranges : Missing(r) }]
  BY DEF Canonical
<1> QED BY <1>2, <1>5, <1>6, <1>7

(* The empty lanes satisfy the inductive invariant. *)
THEOREM InitInv == Init => IInv
<1> SUFFICES ASSUME Init PROVE IInv
  OBVIOUS
<1>1. LaneType(EmptyLane) /\ LaneNormal(EmptyLane) /\ Bounded(EmptyLane)
  BY MaxSeqAssumption DEF LaneType, LaneNormal, Bounded, EmptyLane, Range
<1>2. Observed(EmptyLane) = {} /\ EmptyLane.gaps = {} /\ EmptyLane.maxSeq = 0
  BY DEF Observed, EmptyLane
<1> QED BY <1>1, <1>2 DEF Init, IInv, TypeOK

(***************************************************************************)
(* Every call of observeFrontierRange and setAppliedSegmentHead preserves  *)
(* the inductive invariant.                                                *)
(***************************************************************************)
THEOREM NextInv == IInv /\ [Next]_vars => IInv'
<1> SUFFICES ASSUME IInv, [Next]_vars PROVE IInv'
  OBVIOUS
<1> USE DEF TypeOK
<1>1. ASSUME NEW r \in Ranges, ObserveReceived(r) PROVE IInv'
  BY <1>1, ObserveLaneLemma, BoundedLemma, RangesOK DEF ObserveReceived, IInv
<1>2. ASSUME NEW r \in Ranges, ObserveApplied(r) PROVE IInv'
  <2>1. RangeOK(r)
    BY RangesOK
  <2>2. /\ LaneType(applied') /\ LaneNormal(applied')
        /\ Observed(applied') = Observed(applied) \cup Seqs(r)
    BY <1>2, <2>1, ObserveLaneLemma DEF ObserveApplied, IInv
  <2>3. Seqs(r) \subseteq Observed(received)
    BY <1>2, <2>1, CompleteLemma DEF ObserveApplied, IInv
  <2>4. applied'.gaps = {} /\ applied'.maxSeq = r.lastSeq
        /\ applied.maxSeq < r.lastSeq /\ applied.maxSeq \in Nat /\ r.lastSeq \in Nat
    BY <1>2, <2>1, ApplyLemma DEF ObserveApplied, IInv, LaneType, RangeOK, Range
  <2>5. head' \in Nat /\ head' \in 0 .. applied'.maxSeq
    BY <1>2, <2>4 DEF ObserveApplied, IInv
  <2>6. /\ received' = received /\ published' = published
    BY <1>2 DEF ObserveApplied
  <2>7. Bounded(applied')
    BY <1>2, BoundedLemma DEF ObserveApplied, IInv
  <2> QED BY <2>2, <2>3, <2>4, <2>5, <2>6, <2>7 DEF IInv
<1>3. ASSUME NEW r \in Ranges, ObservePublished(r) PROVE IInv'
  <2>1. RangeOK(r)
    BY RangesOK
  <2>2. Seqs(r) \subseteq Observed(received)
    BY <1>3, <2>1, CompleteLemma DEF ObservePublished, IInv
  <2> QED BY <1>3, <2>1, <2>2, ObserveLaneLemma, BoundedLemma DEF ObservePublished, IInv
<1>4. ASSUME NEW s \in 1 .. MaxSeq, SetAppliedSegmentHead(s) PROVE IInv'
  BY <1>4, MaxSeqAssumption DEF SetAppliedSegmentHead, IInv, LaneType
<1>5. ASSUME UNCHANGED vars PROVE IInv'
  BY <1>5 DEF vars, IInv
<1> QED BY <1>1, <1>2, <1>3, <1>4, <1>5 DEF Next

\* The inductive invariant contains all that assertWriterFrontierInvariants asks.
LEMMA InvImplies == IInv => WriterFrontierInvariants
<1> SUFFICES ASSUME IInv PROVE WriterFrontierInvariants
  OBVIOUS
<1>1. /\ applied.maxSeq \in Nat /\ published.maxSeq \in Nat /\ received.maxSeq \in Nat
  BY DEF IInv, TypeOK, LaneType
<1>2. applied.maxSeq <= received.maxSeq
  BY <1>1, MaxObserved DEF IInv, TypeOK, Observed
<1>3. published.maxSeq <= received.maxSeq
  BY <1>1, MaxObserved DEF IInv, TypeOK, Observed
<1> QED BY <1>1, <1>2, <1>3, NoGapsLemma DEF IInv, WriterFrontierInvariants

\* The inductive invariant holds of every reachable frontier.
THEOREM IInvCorrect == Spec => []IInv
BY InitInv, NextInv, PTL DEF Spec

(* Every variable of a frontier keeps its type. *)
THEOREM TypeCorrect == Spec => []TypeOK
<1>1. IInv => TypeOK
  BY DEF IInv
<1> QED BY <1>1, IInvCorrect, PTL

(***************************************************************************)
(* No sequence of calls builds a frontier that                             *)
(* assertWriterFrontierInvariants rejects, so no save can fail on it.      *)
(***************************************************************************)
THEOREM FrontierInvariantsCorrect == Spec => []WriterFrontierInvariants
BY IInvCorrect, InvImplies, PTL

(***************************************************************************)
(* Redelivery and reordering leave no trace: two frontiers that observed   *)
(* the same sequence numbers are stored alike, however the ranges arrived. *)
(***************************************************************************)
THEOREM LanesCanonicalCorrect == Spec => []LanesCanonical
<1>1. IInv => LanesCanonical
  BY CanonicalLemma DEF IInv, TypeOK, LanesCanonical
<1> QED BY <1>1, IInvCorrect, PTL

-----------------------------------------------------------------------------
\* An empty lane has observed nothing.
LEMMA InitRefines == Init => Sets!Init
BY DEF Init, Sets!Init, EmptyLane, Observed

(* Every step of the lanes with gaps is a step of the lanes as sets. *)
LEMMA NextRefines == IInv /\ [Next]_vars => [Sets!Next]_(Sets!vars)
<1> SUFFICES ASSUME IInv, [Next]_vars PROVE [Sets!Next]_(Sets!vars)
  OBVIOUS
<1>0. \A r \in Ranges : /\ RangeOK(r)
                        /\ r.firstSeq \in 1 .. MaxSeq /\ r.lastSeq \in 1 .. MaxSeq
                        /\ r.firstSeq <= r.lastSeq
                        /\ Seqs(r) = r.firstSeq .. r.lastSeq
  BY RangesOK DEF Ranges, Seqs
<1>1. ASSUME NEW r \in Ranges, ObserveReceived(r) PROVE Sets!Next
  <2>1. Sets!Receive(r.firstSeq, r.lastSeq)
    BY <1>0, <1>1, ObserveLaneLemma DEF ObserveReceived, IInv, TypeOK, Sets!Receive
  <2> QED BY <1>0, <2>1 DEF Sets!Next
<1>2. ASSUME NEW r \in Ranges, ObserveApplied(r) PROVE Sets!Next
  <2>1. /\ Observed(applied') = Observed(applied) \cup Seqs(r)
        /\ Seqs(r) \subseteq Observed(received)
    BY <1>0, <1>2, ObserveLaneLemma, CompleteLemma DEF ObserveApplied, IInv, TypeOK
  <2>2. applied'.gaps = {} /\ applied'.maxSeq = r.lastSeq
    BY <1>0, <1>2, ApplyLemma DEF ObserveApplied, IInv, TypeOK
  <2>3. Observed(applied') = 1 .. r.lastSeq
    BY <2>2, NoGapsLemma
  <2>4. 1 .. r.lastSeq \subseteq Observed(received)
    BY <2>1, <2>3 DEF IInv
  <2>5. Sets!Apply(r.lastSeq)
    BY <1>2, <2>1, <2>3, <2>4 DEF ObserveApplied, Sets!Apply
  <2> QED BY <1>0, <2>5 DEF Sets!Next
<1>3. ASSUME NEW r \in Ranges, ObservePublished(r) PROVE Sets!Next
  <2>1. /\ Observed(published') = Observed(published) \cup Seqs(r)
        /\ Seqs(r) \subseteq Observed(received)
    BY <1>0, <1>3, ObserveLaneLemma, CompleteLemma DEF ObservePublished, IInv, TypeOK
  <2>2. Sets!Publish(r.firstSeq, r.lastSeq)
    BY <1>0, <1>3, <2>1 DEF ObservePublished, Sets!Publish
  <2> QED BY <1>0, <2>2 DEF Sets!Next
<1>4. ASSUME NEW s \in 1 .. MaxSeq, SetAppliedSegmentHead(s) PROVE Sets!Next
  <2>1. Observed(applied) = 1 .. s
    BY <1>4, NoGapsLemma DEF SetAppliedSegmentHead, IInv
  <2>2. Sets!SetHead(s)
    BY <1>4, <2>1 DEF SetAppliedSegmentHead, Sets!SetHead
  <2> QED BY <2>2 DEF Sets!Next
<1>5. CASE UNCHANGED vars
  BY <1>5 DEF vars, Sets!vars
<1> QED BY <1>1, <1>2, <1>3, <1>4, <1>5 DEF Next

(***************************************************************************)
(* The frontier with gaps implements the frontier of sets, whatever ranges *)
(* arrive, in whatever order and however often.                            *)
(***************************************************************************)
THEOREM FrontierImplementsSets == Spec => ImplementsSets
BY InitRefines, NextRefines, IInvCorrect, PTL DEF Spec, ImplementsSets, Sets!Spec
=============================================================================
