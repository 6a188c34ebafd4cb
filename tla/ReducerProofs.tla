--------------------------- MODULE ReducerProofs ---------------------------
(***************************************************************************)
(* The reducer and the materializer, for every number of devices, change   *)
(* sets, aliases and incarnations, and whatever the clocks show.           *)
(***************************************************************************)
EXTENDS Reducer, FiniteSetTheorems, WellFoundedInduction, TLAPS

(* The total order of change sets *)

\* A stamp is four numbers, and is known by them.
LEMMA StampParts ==
  ASSUME NEW x \in Stamp
  PROVE  x[1] \in Nat /\ x[2] \in Nat /\ x[3] \in Nat /\ x[4] \in Nat
  BY DEF Stamp

\* A stamp is its four parts.
LEMMA SameStamp ==
  ASSUME NEW x \in Stamp, NEW y \in Stamp,
         x[1] = y[1], x[2] = y[2], x[3] = y[3], x[4] = y[4]
  PROVE  x = y
  BY DEF Stamp

\* The order of change sets is total.
LEMMA BeforeTotal ==
  ASSUME NEW x \in Stamp, NEW y \in Stamp
  PROVE  Before(x, y) \/ Before(y, x) \/ x = y
  BY StampParts, SameStamp DEF Before, EarlierHlc

\* The order of stamps is strict,
LEMMA BeforeAsymmetric ==
  ASSUME NEW x \in Stamp, NEW y \in Stamp, Before(x, y)
  PROVE  ~Before(y, x) /\ x # y
  BY StampParts DEF Before, EarlierHlc

\* and transitive.
LEMMA BeforeTransitive ==
  ASSUME NEW x \in Stamp, NEW y \in Stamp, NEW z \in Stamp, Before(x, y), Before(y, z)
  PROVE  Before(x, z)
  BY StampParts DEF Before, EarlierHlc

\* The absent stamp has the type of a stamp.
LEMMA NoStampType == NoStamp \in Stamp
  BY DEF NoStamp, Stamp

(* The clock *)

\* A local clock moves past its past.
LEMMA NextLocalLemma ==
  ASSUME NEW h \in Hlc, NEW now \in Nat
  PROVE  /\ NextLocalHlc(h, now) \in Hlc
         /\ EarlierHlc(h, NextLocalHlc(h, now))
  BY DEF Hlc, NextLocalHlc, EarlierHlc

\* An observed clock is no earlier than either of the two.
LEMMA ObserveLemma ==
  ASSUME NEW g \in Hlc, NEW h \in Hlc, NEW now \in Nat
  PROVE  /\ ObserveRemoteHlc(g, h, now) \in Hlc
         /\ ~EarlierHlc(ObserveRemoteHlc(g, h, now), g)
         /\ ~EarlierHlc(ObserveRemoteHlc(g, h, now), h)
<1>1. g[1] \in Nat /\ g[2] \in Nat /\ h[1] \in Nat /\ h[2] \in Nat
  BY DEF Hlc
<1> QED BY <1>1 DEF ObserveRemoteHlc, Larger, Hlc, EarlierHlc

(* The incarnation of an element *)

\* A set of natural numbers has a least one: minimal among the intervals 0 .. n.
LEMMA LeastLemma ==
  ASSUME NEW S, S \subseteq Nat, S # {}
  PROVE  \E m \in S : \A n \in S : m <= n
<1> DEFINE R == StrictSubsetOrdering(Nat)
           T == { 0 .. n : n \in S }
<1>1. T \subseteq FiniteSubsetsOf(Nat)
  <2>1. ASSUME NEW n \in S PROVE 0 .. n \in FiniteSubsetsOf(Nat)
    <3>1. IsFiniteSet(0 .. n)
      BY FS_Interval
    <3> QED BY <3>1 DEF FiniteSubsetsOf
  <2> QED BY <2>1
<1>2. PICK x \in T : \A y \in T : <<y, x>> \notin R
  <2>1. IsWellFoundedOn(R, FiniteSubsetsOf(Nat))
    BY FS_StrictSubsetOrderingWellFounded
  <2>2. T # {}
    OBVIOUS
  <2> HIDE DEF R, T
  <2> QED BY <1>1, <2>1, <2>2, WFMin
<1>3. PICK m \in S : x = 0 .. m
  OBVIOUS
<1>4. ASSUME NEW n \in S, n < m PROVE FALSE
  <2>1. 0 .. n \subseteq 0 .. m /\ 0 .. n # 0 .. m
    <3>1. m \in 0 .. m /\ m \notin 0 .. n
      BY <1>4
    <3> QED BY <1>4, <3>1
  <2>2. 0 .. n \in SUBSET Nat /\ 0 .. m \in SUBSET Nat
    OBVIOUS
  <2>3. <<0 .. n, 0 .. m>> \in R
    BY <2>1, <2>2 DEF StrictSubsetOrdering
  <2> QED BY <1>2, <1>3, <2>3
<1> QED BY <1>4

\* The walk through the incarnations stops at the first that does not walk on.
LEMMA CurrentLemma ==
  ASSUME NEW r
  PROVE  /\ Current(r) \in Incarnation
         /\ ~WalksOn(r, Current(r))
         /\ \A j \in Incarnation : j < Current(r) => WalksOn(r, j)
<1> DEFINE S == {i \in Incarnation : ~WalksOn(r, i)}
<1>1. S \subseteq Nat
  BY MaxIncarnationAssumption DEF Incarnation
<1>2. MaxIncarnation \in S
  BY MaxIncarnationAssumption DEF Incarnation, WalksOn
<1>3. PICK m \in S : \A n \in S : m <= n
  BY <1>1, <1>2, LeastLemma
<1>4. \A j \in Incarnation : j < m => WalksOn(r, j)
  BY <1>1, <1>3, MaxIncarnationAssumption DEF Incarnation
<1>5. \E i \in Incarnation : ~WalksOn(r, i) /\ \A j \in Incarnation : j < i => WalksOn(r, j)
  BY <1>3, <1>4
<1> HIDE DEF S
<1> QED BY <1>5 DEF Current

\* The current incarnation depends on nothing but the seeds and the trashes.
LEMMA SameCurrent ==
  ASSUME NEW r, NEW s, r.seeds = s.seeds, r.trashes = s.trashes
  PROVE  Current(r) = Current(s) /\ \A i \in Incarnation : (WalksOn(r, i) <=> WalksOn(s, i))
<1>1. \A i : WalksOn(r, i) <=> WalksOn(s, i)
  BY DEF WalksOn, Seeded
<1> QED BY <1>1 DEF Current

(* What a reduced state is, whatever the order of its change sets *)

\* The change sets that seed an incarnation, and those that rename in it.
Seeding(H, i) == {e \in H : e.op \in {"create", "restore"} /\ e.inc = i}
\* The renames of an incarnation in a set of change sets.
Renaming(H, i) == {e \in H : e.op = "rename" /\ e.inc = i}

\* e is the last of S in the total order.
Latest(e, S) == e \in S /\ \A f \in S : f = e \/ Before(f.stamp, e.stamp)

\* The seed s is what the last create or restore of S wrote.
SeedIs(s, S) ==
  IF S = {} THEN s = NoSeed
  ELSE \E e \in S : Latest(e, S) /\ s = [by |-> e.stamp, name |-> e.name]
\* The register n is what the last rename of S wrote.
NameIs(n, S) ==
  IF S = {} THEN n = NoStamp
  ELSE \E e \in S : Latest(e, S) /\ n = e.stamp

\* r is the state that the set H of change sets amounts to.
Describes(r, H) ==
  /\ \A i \in Incarnation : SeedIs(r.seeds[i], Seeding(H, i))
  /\ \A i \in Incarnation : NameIs(r.names[i], Renaming(H, i))
  /\ \A i : i \in r.trashes <=> \E e \in H : e.op = "trash" /\ e.inc = i
  /\ r.purged <=> \E e \in H : e.op = "purge"
  /\ \A t : t \in r.adds <=> \E e \in H : t \in Tags(e)
  /\ \A t : t \in r.removed <=> \E e \in H : t \in e.gone

\* The fields of a change set have their types.
LEMMA ChangeSetParts ==
  ASSUME NEW e \in ChangeSet
  PROVE  /\ e.op \in Operation /\ e.inc \in Incarnation /\ e.stamp \in Stamp
         /\ e.name \in Stamp /\ e.adds \in SUBSET Alias /\ e.gone \in SUBSET Tag
         /\ e.text \in SUBSET Stamp /\ e.seen \in [Device -> Nat]
  BY DEF ChangeSet

\* The fields of a reduced state have their types.
LEMMA StateParts ==
  ASSUME NEW r \in State
  PROVE  /\ r.seeds \in [Incarnation -> Seed] /\ r.trashes \in SUBSET Incarnation
         /\ r.purged \in BOOLEAN /\ r.names \in [Incarnation -> Stamp]
         /\ r.adds \in SUBSET Tag /\ r.removed \in SUBSET Tag
  BY DEF State

\* A reduced state is its six fields.
LEMMA SameState ==
  ASSUME NEW r \in State, NEW s \in State,
         r.seeds = s.seeds, r.trashes = s.trashes, r.purged = s.purged,
         r.names = s.names, r.adds = s.adds, r.removed = s.removed
  PROVE  r = s
  BY DEF State

\* A change set adds tags.
LEMMA TagsType ==
  ASSUME NEW e \in ChangeSet
  PROVE  Tags(e) \in SUBSET Tag
  BY ChangeSetParts DEF Tags, Tag

\* The reducer returns a state.
LEMMA ReduceType ==
  ASSUME NEW r \in State, NEW e \in ChangeSet
  PROVE  Reduce(r, e) \in State
<1>1. [by |-> e.stamp, name |-> e.name] \in Seed
  BY ChangeSetParts DEF Seed
<1> DEFINE x == Reduce(r, e)
<1>2. x.seeds \in [Incarnation -> Seed] /\ x.names \in [Incarnation -> Stamp]
  BY <1>1, StateParts, ChangeSetParts DEF Reduce
<1>3. x.trashes \in SUBSET Incarnation /\ x.purged \in BOOLEAN
  BY StateParts, ChangeSetParts DEF Reduce
<1>4. x.adds \in SUBSET Tag /\ x.removed \in SUBSET Tag
  BY StateParts, ChangeSetParts, TagsType DEF Reduce
<1>5. x = [seeds |-> x.seeds, trashes |-> x.trashes, purged |-> x.purged,
           names |-> x.names, adds |-> x.adds, removed |-> x.removed]
  BY DEF Reduce
<1>6. x \in State
  <2> HIDE DEF x
  <2> QED BY <1>2, <1>3, <1>4, <1>5 DEF State
<1> QED BY <1>6

\* The empty state describes the empty set of change sets.
LEMMA InitStateLemma == InitState \in State /\ Describes(InitState, {})
<1>1. NoSeed \in Seed
  BY NoStampType DEF NoSeed, Seed
<1>2. InitState \in State
  BY <1>1, NoStampType DEF InitState, State
<1>3. \A i \in Incarnation : InitState.seeds[i] = NoSeed /\ InitState.names[i] = NoStamp
  BY DEF InitState
<1>4. \A i : Seeding({}, i) = {} /\ Renaming({}, i) = {}
  BY DEF Seeding, Renaming
<1>5. InitState.trashes = {} /\ InitState.purged = FALSE /\ InitState.adds = {} /\ InitState.removed = {}
  BY DEF InitState
<1> QED BY <1>2, <1>3, <1>4, <1>5 DEF Describes, SeedIs, NameIs

\* A register keeps the last of its writes.
LEMMA LatestLemma ==
  ASSUME NEW S, S \subseteq ChangeSet, NEW e \in ChangeSet, NEW g \in S, Latest(g, S),
         \A f \in S : f.stamp # e.stamp
  PROVE  /\ Before(g.stamp, e.stamp) => Latest(e, S \union {e})
         /\ ~Before(g.stamp, e.stamp) => Latest(g, S \union {e})
<1>1. e.stamp \in Stamp /\ \A f \in S : f.stamp \in Stamp
  BY ChangeSetParts
<1>2. ASSUME Before(g.stamp, e.stamp), NEW f \in S PROVE Before(f.stamp, e.stamp)
  BY <1>1, <1>2, BeforeTransitive DEF Latest
<1>3. ~Before(g.stamp, e.stamp) => Before(e.stamp, g.stamp)
  BY <1>1, BeforeTotal
<1> QED BY <1>2, <1>3 DEF Latest

\* Two change sets that are both the last of a set are one.
LEMMA LatestUnique ==
  ASSUME NEW S, S \subseteq ChangeSet, NEW e, NEW f, Latest(e, S), Latest(f, S)
  PROVE  e = f
<1>1. e \in S /\ f \in S /\ e.stamp \in Stamp /\ f.stamp \in Stamp
  BY ChangeSetParts DEF Latest
<1> QED BY <1>1, BeforeAsymmetric DEF Latest

\* Reducing a further change set gives the state of the set with it.
LEMMA ReduceDescribes ==
  ASSUME NEW r \in State, NEW H, H \subseteq ChangeSet, NEW e \in ChangeSet,
         e.stamp # NoStamp, \A f \in H : f.stamp # NoStamp /\ f.stamp # e.stamp,
         Describes(r, H)
  PROVE  Describes(Reduce(r, e), H \union {e})
<1> DEFINE x == Reduce(r, e)
           G == H \union {e}
<1>1. e.inc \in Incarnation /\ e.stamp \in Stamp
  BY ChangeSetParts
<1>2. ASSUME NEW i \in Incarnation PROVE SeedIs(x.seeds[i], Seeding(G, i))
  <2> DEFINE S == Seeding(H, i)
  <2>1. S \subseteq ChangeSet /\ (\A f \in S : f.stamp # NoStamp /\ f.stamp # e.stamp)
    BY DEF Seeding
  <2>2. SeedIs(r.seeds[i], S)
    BY <1>2 DEF Describes
  <2>3. CASE ~(e.op \in {"create", "restore"} /\ e.inc = i)
    <3>1. Seeding(G, i) = S
      BY <2>3 DEF Seeding
    <3>2. x.seeds[i] = r.seeds[i]
      BY <2>3, StateParts, <1>1, <1>2 DEF Reduce
    <3> QED BY <2>2, <3>1, <3>2
  <2>4. CASE e.op \in {"create", "restore"} /\ e.inc = i
    <3> DEFINE new == [by |-> e.stamp, name |-> e.name]
    <3>1. Seeding(G, i) = S \union {e}
      BY <2>4 DEF Seeding
    <3>2. x.seeds[i] = IF Wins(e.stamp, r.seeds[i].by) THEN new ELSE r.seeds[i]
      BY <2>4, StateParts, <1>2 DEF Reduce
    <3>3. CASE S = {}
      <4>1. r.seeds[i].by = NoStamp
        BY <2>2, <3>3 DEF SeedIs, NoSeed
      <4>2. x.seeds[i] = new
        BY <3>2, <4>1 DEF Wins
      <4>3. Latest(e, S \union {e})
        BY <3>3 DEF Latest
      <4> HIDE DEF S, x, G
      <4> QED BY <3>1, <4>2, <4>3 DEF SeedIs
    <3>4. CASE S # {}
      <4>1. PICK g \in S : Latest(g, S) /\ r.seeds[i] = [by |-> g.stamp, name |-> g.name]
        BY <2>2, <3>4 DEF SeedIs
      <4>2. r.seeds[i].by = g.stamp /\ g.stamp # NoStamp
        BY <2>1, <4>1
      <4> HIDE DEF S, x, G
      <4>3. /\ Before(g.stamp, e.stamp) => Latest(e, S \union {e})
            /\ ~Before(g.stamp, e.stamp) => Latest(g, S \union {e})
        BY <2>1, <4>1, LatestLemma
      <4>4. Wins(e.stamp, r.seeds[i].by) <=> Before(g.stamp, e.stamp)
        BY <4>2 DEF Wins
      <4> QED BY <3>1, <3>2, <4>1, <4>3, <4>4 DEF SeedIs
    <3> QED BY <3>3, <3>4
  <2> QED BY <2>3, <2>4
<1>3. ASSUME NEW i \in Incarnation PROVE NameIs(x.names[i], Renaming(G, i))
  <2> DEFINE S == Renaming(H, i)
  <2>1. S \subseteq ChangeSet /\ (\A f \in S : f.stamp # NoStamp /\ f.stamp # e.stamp)
    BY DEF Renaming
  <2>2. NameIs(r.names[i], S)
    BY <1>3 DEF Describes
  <2>3. CASE ~(e.op = "rename" /\ e.inc = i)
    <3>1. Renaming(G, i) = S
      BY <2>3 DEF Renaming
    <3>2. x.names[i] = r.names[i]
      BY <2>3, StateParts, <1>1, <1>3 DEF Reduce
    <3> QED BY <2>2, <3>1, <3>2
  <2>4. CASE e.op = "rename" /\ e.inc = i
    <3>1. Renaming(G, i) = S \union {e}
      BY <2>4 DEF Renaming
    <3>2. x.names[i] = IF Wins(e.stamp, r.names[i]) THEN e.stamp ELSE r.names[i]
      BY <2>4, StateParts, <1>3 DEF Reduce
    <3>3. CASE S = {}
      <4>1. x.names[i] = e.stamp
        BY <2>2, <3>2, <3>3 DEF NameIs, Wins
      <4>2. Latest(e, S \union {e})
        BY <3>3 DEF Latest
      <4> HIDE DEF S, x, G
      <4> QED BY <3>1, <4>1, <4>2 DEF NameIs
    <3>4. CASE S # {}
      <4>1. PICK g \in S : Latest(g, S) /\ r.names[i] = g.stamp
        BY <2>2, <3>4 DEF NameIs
      <4> HIDE DEF S, x, G
      <4>2. /\ Before(g.stamp, e.stamp) => Latest(e, S \union {e})
            /\ ~Before(g.stamp, e.stamp) => Latest(g, S \union {e})
        BY <2>1, <4>1, LatestLemma
      <4>3. Wins(e.stamp, r.names[i]) <=> Before(g.stamp, e.stamp)
        BY <2>1, <4>1 DEF Wins
      <4> QED BY <3>1, <3>2, <4>1, <4>2, <4>3 DEF NameIs
    <3> QED BY <3>3, <3>4
  <2> QED BY <2>3, <2>4
<1>4. \A i : i \in x.trashes <=> \E f \in G : f.op = "trash" /\ f.inc = i
  BY DEF Describes, Reduce
<1>5. x.purged <=> \E f \in G : f.op = "purge"
  BY StateParts DEF Describes, Reduce
<1>6. \A t : t \in x.adds <=> \E f \in G : t \in Tags(f)
  BY DEF Describes, Reduce
<1>7. \A t : t \in x.removed <=> \E f \in G : t \in f.gone
  BY DEF Describes, Reduce
<1>8. Describes(x, G)
  <2> HIDE DEF x, G
  <2> QED BY <1>2, <1>3, <1>4, <1>5, <1>6, <1>7 DEF Describes
<1> QED BY <1>8

\* A set of change sets amounts to one state only.
LEMMA DescribesUnique ==
  ASSUME NEW r \in State, NEW s \in State, NEW H, H \subseteq ChangeSet,
         Describes(r, H), Describes(s, H)
  PROVE  r = s
<1>1. ASSUME NEW i \in Incarnation PROVE r.seeds[i] = s.seeds[i]
  <2>1. Seeding(H, i) \subseteq ChangeSet
    BY DEF Seeding
  <2>2. SeedIs(r.seeds[i], Seeding(H, i)) /\ SeedIs(s.seeds[i], Seeding(H, i))
    BY <1>1 DEF Describes
  <2> QED BY <2>1, <2>2, LatestUnique DEF SeedIs
<1>2. ASSUME NEW i \in Incarnation PROVE r.names[i] = s.names[i]
  <2>1. Renaming(H, i) \subseteq ChangeSet
    BY DEF Renaming
  <2>2. NameIs(r.names[i], Renaming(H, i)) /\ NameIs(s.names[i], Renaming(H, i))
    BY <1>2 DEF Describes
  <2> QED BY <2>1, <2>2, LatestUnique DEF NameIs
<1>3. r.seeds = s.seeds /\ r.names = s.names
  BY <1>1, <1>2, StateParts
<1>4. r.trashes = s.trashes /\ r.adds = s.adds /\ r.removed = s.removed
  BY DEF Describes
<1>5. r.purged = s.purged
  BY StateParts DEF Describes
<1> QED BY <1>3, <1>4, <1>5, SameState

(* The authored operations *)

\* d journals e, which tells what d had applied and is stamped by its clock.
Writes(d, e, newRow) ==
  /\ e \in ChangeSet
  /\ newRow \in Row
  /\ \E now \in Wall[d] : e.stamp = NextStamp(d, now)
  /\ e.seen = applied[d]
  /\ Author(d, e, newRow)

\* The fields of a row have their types.
LEMMA RowParts ==
  ASSUME NEW x \in Row
  PROVE  x.state \in {"none", "live", "trashed"} /\ x.name \in Stamp /\ x.aliases \in SUBSET Alias
  BY DEF Row

\* The next stamp names its writer and its place in the lane, and is later than the clock.
LEMMA NextStampType ==
  ASSUME TypeOK, NEW d \in Device, NEW now \in Wall[d]
  PROVE  /\ NextStamp(d, now) \in Stamp
         /\ NextStamp(d, now)[3] = d
         /\ NextStamp(d, now)[4] = Len(journal[d]) + 1
         /\ EarlierHlc(clock[d], NextStamp(d, now))
<1> DEFINE h == NextLocalHlc(clock[d], now)
<1>1. now \in Nat /\ d \in Nat /\ clock[d] \in Hlc /\ Len(journal[d]) \in Nat
  BY WallAssumption, DeviceAssumption DEF TypeOK
<1>2. h \in Hlc /\ EarlierHlc(clock[d], h)
  BY <1>1, NextLocalLemma
<1>3. NextStamp(d, now) = <<h[1], h[2], d, Len(journal[d]) + 1>>
  BY DEF NextStamp
<1> HIDE DEF h
<1> QED BY <1>1, <1>2, <1>3 DEF Hlc, Stamp, EarlierHlc

\* A draft is a change set.
LEMMA DraftLemma ==
  ASSUME TypeOK, NEW d \in Device, NEW op \in Operation, NEW s \in Stamp
  PROVE  Draft(d, op, s) \in ChangeSet
<1>1. Current(reduced[d]) \in Incarnation
  BY CurrentLemma
<1>2. applied[d] \in [Device -> Nat]
  BY DEF TypeOK
<1> QED BY <1>1, <1>2, NoStampType DEF Draft, ChangeSet

\* What a draft is filled with before an operation adds its own fields.
LEMMA DraftParts ==
  ASSUME NEW d, NEW op, NEW s
  PROVE  LET e == Draft(d, op, s)
         IN  /\ e.op = op /\ e.inc = Current(reduced[d]) /\ e.stamp = s /\ e.name = NoStamp
             /\ e.adds = {} /\ e.gone = {} /\ e.text = {} /\ e.seen = applied[d]
  BY DEF Draft

\* What a create writes: the change set, the row and what the interface shows.
LEMMA CreateWrites ==
  ASSUME TypeOK, NEW d \in Device, CreateElement(d)
  PROVE  \E e, x : /\ Writes(d, e, x)
                   /\ e.op = "create" /\ e.inc = Current(reduced[d])
                   /\ e.name = e.stamp /\ e.adds = x.aliases /\ e.gone = {} /\ e.text = {e.stamp}
                   /\ x.state = "live" /\ x.name = e.stamp
                   /\ shown' = [shown EXCEPT ![d] = e.stamp]
                   /\ UNCHANGED astray
<1>1. PICK now \in Wall[d], aliases \in SUBSET Alias :
        LET s == NextStamp(d, now)
            e == [Draft(d, "create", s) EXCEPT !.name = s, !.adds = aliases, !.text = {s}]
        IN  /\ Author(d, e, [state |-> "live", name |-> s, aliases |-> aliases])
            /\ shown' = [shown EXCEPT ![d] = s]
            /\ UNCHANGED astray
  BY DEF CreateElement
<1> DEFINE s == NextStamp(d, now)
           e == [Draft(d, "create", s) EXCEPT !.name = s, !.adds = aliases, !.text = {s}]
           x == [state |-> "live", name |-> s, aliases |-> aliases]
<1>2. s \in Stamp
  BY NextStampType
<1>3. Draft(d, "create", s) \in ChangeSet
  BY <1>2, DraftLemma DEF Operation
<1>4. /\ e \in ChangeSet
      /\ e.op = "create" /\ e.inc = Current(reduced[d]) /\ e.stamp = s /\ e.name = s
      /\ e.adds = aliases /\ e.gone = {} /\ e.text = {s} /\ e.seen = applied[d]
  <2> DEFINE b == Draft(d, "create", s)
  <2> HIDE DEF s
  <2>1. b.op = "create" /\ b.inc = Current(reduced[d]) /\ b.stamp = s /\ b.gone = {} /\ b.seen = applied[d]
    BY DraftParts
  <2> HIDE DEF b
  <2>2. {s} \in SUBSET Stamp /\ b \in ChangeSet
    BY <1>2, <1>3 DEF b
  <2>3. LET f == [b EXCEPT !.name = s, !.adds = aliases, !.text = {s}]
        IN  /\ f \in ChangeSet
            /\ f.op = b.op /\ f.inc = b.inc /\ f.stamp = b.stamp /\ f.name = s /\ f.adds = aliases
            /\ f.gone = b.gone /\ f.text = {s} /\ f.seen = b.seen
    BY <1>2, <2>2 DEF ChangeSet
  <2> QED BY <2>1, <2>3 DEF b
<1>5. x \in Row /\ x.state = "live" /\ x.name = s /\ x.aliases = aliases
  BY <1>2 DEF Row
<1>6. Author(d, e, x) /\ shown' = [shown EXCEPT ![d] = s] /\ UNCHANGED astray
  BY <1>1
<1> HIDE DEF s, e, x
<1>7. Writes(d, e, x)
  BY <1>4, <1>5, <1>6 DEF Writes, s
<1> QED BY <1>4, <1>5, <1>6, <1>7

\* What a rename writes.
LEMMA RenameWrites ==
  ASSUME TypeOK, NEW d \in Device, RenameElement(d)
  PROVE  \E e, x : /\ Writes(d, e, x)
                   /\ e.op = "rename" /\ e.inc = Current(reduced[d])
                   /\ e.adds = {} /\ e.gone = {} /\ e.text = {}
                   /\ Editable(d)
                   /\ x = [row[d] EXCEPT !.name = e.stamp]
                   /\ shown' = [shown EXCEPT ![d] = e.stamp]
                   /\ astray' = [astray EXCEPT ![d] = FALSE]
<1>1. PICK now \in Wall[d] :
        LET s == NextStamp(d, now)
        IN  /\ Editable(d)
            /\ Author(d, Draft(d, "rename", s), [row[d] EXCEPT !.name = s])
            /\ shown' = [shown EXCEPT ![d] = s]
            /\ astray' = [astray EXCEPT ![d] = FALSE]
  BY DEF RenameElement
<1> DEFINE s == NextStamp(d, now)
           e == Draft(d, "rename", s)
           x == [row[d] EXCEPT !.name = s]
<1>2. s \in Stamp
  BY NextStampType
<1>3. e \in ChangeSet
  BY <1>2, DraftLemma DEF Operation
<1>4. e.op = "rename" /\ e.inc = Current(reduced[d]) /\ e.stamp = s /\ e.adds = {} /\ e.gone = {}
      /\ e.text = {} /\ e.seen = applied[d]
  BY DEF Draft
<1>5. x \in Row
  BY <1>2 DEF Row, TypeOK
<1> HIDE DEF s, e
<1>6. Writes(d, e, x)
  BY <1>1, <1>3, <1>4, <1>5 DEF Writes, s, e
<1> QED BY <1>1, <1>4, <1>6 DEF s, e

\* What a replacement of the aliases writes: the difference from what is visible.
LEMMA ReplaceWrites ==
  ASSUME TypeOK, NEW d \in Device, ReplaceAliases(d)
  PROVE  \E e, x : /\ Writes(d, e, x)
                   /\ e.op = "aliases" /\ e.inc = Current(reduced[d])
                   /\ e.adds = x.aliases \ AliasesAt(reduced[d], e.inc)
                   /\ e.gone = {t \in VisibleAdds(reduced[d]) : t.inc = e.inc /\ t.alias \notin x.aliases}
                   /\ e.adds # {} \/ e.gone # {}
                   /\ e.text = {}
                   /\ Editable(d)
                   /\ x.state = row[d].state /\ x.name = shown[d]
                   /\ astray' = [astray EXCEPT ![d] = @ \/ shown[d] # row[d].name]
                   /\ UNCHANGED shown
<1> DEFINE r == reduced[d]
           i == Current(r)
<1>1. PICK now \in Wall[d], aliases \in SUBSET Alias :
        LET e == [Draft(d, "aliases", NextStamp(d, now)) EXCEPT
                    !.adds = aliases \ AliasesAt(r, i),
                    !.gone = {t \in VisibleAdds(r) : t.inc = i /\ t.alias \notin aliases}]
        IN  /\ Editable(d)
            /\ e.adds # {} \/ e.gone # {}
            /\ Author(d, e, [row[d] EXCEPT !.aliases = aliases, !.name = shown[d]])
            /\ astray' = [astray EXCEPT ![d] = @ \/ shown[d] # row[d].name]
            /\ UNCHANGED shown
  BY DEF ReplaceAliases
<1> DEFINE s == NextStamp(d, now)
           adds == aliases \ AliasesAt(r, i)
           gone == {t \in VisibleAdds(r) : t.inc = i /\ t.alias \notin aliases}
           e == [Draft(d, "aliases", s) EXCEPT !.adds = adds, !.gone = gone]
           x == [row[d] EXCEPT !.aliases = aliases, !.name = shown[d]]
<1>2. s \in Stamp
  BY NextStampType
<1>3. Draft(d, "aliases", s) \in ChangeSet
  BY <1>2, DraftLemma DEF Operation
<1>4. reduced[d] \in State /\ row[d] \in Row /\ shown[d] \in Stamp
  BY DEF TypeOK
<1>5. adds \in SUBSET Alias /\ gone \in SUBSET Tag
  BY <1>4, StateParts DEF VisibleAdds
<1>6. x \in Row /\ x.state = row[d].state /\ x.name = shown[d] /\ x.aliases = aliases
  BY <1>4 DEF Row
<1> HIDE DEF adds, gone
<1>7. /\ e.op = "aliases" /\ e.inc = i /\ e.stamp = s /\ e.adds = adds
      /\ e.gone = gone /\ e.text = {} /\ e.seen = applied[d] /\ e \in ChangeSet
  <2> DEFINE b == Draft(d, "aliases", s)
  <2> HIDE DEF s
  <2>1. b.op = "aliases" /\ b.inc = i /\ b.stamp = s /\ b.text = {} /\ b.seen = applied[d]
    BY DraftParts
  <2> HIDE DEF b
  <2>2. b \in ChangeSet
    BY <1>3 DEF b
  <2>3. LET f == [b EXCEPT !.adds = adds, !.gone = gone]
        IN  /\ f \in ChangeSet
            /\ f.op = b.op /\ f.inc = b.inc /\ f.stamp = b.stamp /\ f.name = b.name /\ f.adds = adds
            /\ f.gone = gone /\ f.text = b.text /\ f.seen = b.seen
    BY <1>5, <2>2 DEF ChangeSet
  <2> QED BY <2>1, <2>3 DEF b
<1> HIDE DEF s, e, x
<1>8. Editable(d) /\ (e.adds # {} \/ e.gone # {}) /\ Author(d, e, x)
      /\ astray' = [astray EXCEPT ![d] = @ \/ shown[d] # row[d].name] /\ UNCHANGED shown
  BY <1>1 DEF s, e, x, adds, gone
<1>9. Writes(d, e, x)
  BY <1>6, <1>7, <1>8 DEF Writes, s
<1> QED BY <1>6, <1>7, <1>8, <1>9 DEF adds, gone

\* What an edit of the prose writes: no row.
LEMMA ProseWrites ==
  ASSUME TypeOK, NEW d \in Device, WriteProse(d)
  PROVE  \E e : /\ Writes(d, e, row[d])
                /\ e.op = "prose" /\ e.inc = Current(reduced[d])
                /\ e.adds = {} /\ e.gone = {} /\ e.text = {e.stamp}
                /\ Editable(d)
                /\ UNCHANGED <<shown, astray>>
<1>1. PICK now \in Wall[d] :
        LET s == NextStamp(d, now)
        IN  /\ Editable(d)
            /\ Author(d, [Draft(d, "prose", s) EXCEPT !.text = {s}], row[d])
            /\ UNCHANGED <<shown, astray>>
  BY DEF WriteProse
<1> DEFINE s == NextStamp(d, now)
           e == [Draft(d, "prose", s) EXCEPT !.text = {s}]
<1>2. s \in Stamp
  BY NextStampType
<1>3. Draft(d, "prose", s) \in ChangeSet
  BY <1>2, DraftLemma DEF Operation
<1>4. e = [op |-> "prose", inc |-> Current(reduced[d]), stamp |-> s, name |-> NoStamp, adds |-> {},
           gone |-> {}, text |-> {s}, seen |-> applied[d]]
  BY DEF Draft
<1>5. e \in ChangeSet /\ row[d] \in Row
  BY <1>2, <1>3, <1>4 DEF ChangeSet, Draft, TypeOK
<1> HIDE DEF s, e
<1>6. Writes(d, e, row[d])
  BY <1>1, <1>4, <1>5 DEF Writes, s, e
<1> QED BY <1>1, <1>4, <1>6 DEF s, e

\* What a trash writes, and when the row goes astray.
LEMMA TrashWrites ==
  ASSUME TypeOK, NEW d \in Device, TrashElement(d)
  PROVE  \E e, x : /\ Writes(d, e, x)
                   /\ e.op = "trash" /\ e.inc = Current(reduced[d])
                   /\ e.adds = {} /\ e.gone = {} /\ e.text = {}
                   /\ Editable(d)
                   /\ x = [row[d] EXCEPT !.state = "trashed"]
                   /\ shown' = [shown EXCEPT ![d] = NoStamp]
                   /\ astray' = [astray EXCEPT ![d] = @ \/ Status(Reduce(reduced[d], e)) = "live"]
<1>1. PICK now \in Wall[d] :
        LET e == Draft(d, "trash", NextStamp(d, now))
        IN  /\ Editable(d)
            /\ Author(d, e, [row[d] EXCEPT !.state = "trashed"])
            /\ shown' = [shown EXCEPT ![d] = NoStamp]
            /\ astray' = [astray EXCEPT ![d] = @ \/ Status(Reduce(reduced[d], e)) = "live"]
  BY DEF TrashElement
<1> DEFINE s == NextStamp(d, now)
           e == Draft(d, "trash", s)
           x == [row[d] EXCEPT !.state = "trashed"]
<1>2. s \in Stamp
  BY NextStampType
<1>3. e \in ChangeSet
  BY <1>2, DraftLemma DEF Operation
<1>4. e.op = "trash" /\ e.inc = Current(reduced[d]) /\ e.stamp = s /\ e.adds = {} /\ e.gone = {}
      /\ e.text = {} /\ e.seen = applied[d]
  BY DEF Draft
<1>5. x \in Row
  BY <1>2 DEF Row, TypeOK
<1> HIDE DEF s, e
<1>6. Writes(d, e, x)
  BY <1>1, <1>3, <1>4, <1>5 DEF Writes, s, e
<1> QED BY <1>1, <1>4, <1>6 DEF s, e

\* What a restore writes: a new incarnation, seeded from the row.
LEMMA RestoreWrites ==
  ASSUME TypeOK, NEW d \in Device, RestoreElement(d)
  PROVE  \E e, x : /\ Writes(d, e, x)
                   /\ e.op = "restore" /\ e.inc = Current(reduced[d]) + 1
                   /\ e.name = row[d].name /\ e.adds = row[d].aliases /\ e.gone = {}
                   /\ e.text = prose[d] \union {e.stamp}
                   /\ row[d].state = "trashed" /\ Status(reduced[d]) = "trashed"
                   /\ x = [row[d] EXCEPT !.state = "live"]
                   /\ shown' = [shown EXCEPT ![d] = row[d].name]
                   /\ astray' = [astray EXCEPT ![d] = reduced[d].names[e.inc] # NoStamp]
<1> DEFINE next == Current(reduced[d]) + 1
<1>1. PICK now \in Wall[d] :
        LET s == NextStamp(d, now)
            e == [Draft(d, "restore", s) EXCEPT
                    !.inc = next, !.name = row[d].name, !.adds = row[d].aliases,
                    !.text = prose[d] \union {s}]
        IN  /\ row[d].state = "trashed" /\ Status(reduced[d]) = "trashed"
            /\ next \in Incarnation
            /\ Author(d, e, [row[d] EXCEPT !.state = "live"])
            /\ shown' = [shown EXCEPT ![d] = row[d].name]
            /\ astray' = [astray EXCEPT ![d] = reduced[d].names[next] # NoStamp]
  BY DEF RestoreElement
<1> DEFINE s == NextStamp(d, now)
           e == [Draft(d, "restore", s) EXCEPT
                    !.inc = next, !.name = row[d].name, !.adds = row[d].aliases,
                    !.text = prose[d] \union {s}]
           x == [row[d] EXCEPT !.state = "live"]
<1>2. s \in Stamp
  BY NextStampType
<1>3. Draft(d, "restore", s) \in ChangeSet
  BY <1>2, DraftLemma DEF Operation
<1>4. row[d] \in Row /\ prose[d] \in SUBSET Stamp
  BY DEF TypeOK
<1>5. x \in Row
  BY <1>4 DEF Row
<1> HIDE DEF x
<1>6. /\ row[d].state = "trashed" /\ Status(reduced[d]) = "trashed"
      /\ next \in Incarnation /\ Author(d, e, x)
      /\ shown' = [shown EXCEPT ![d] = row[d].name]
      /\ astray' = [astray EXCEPT ![d] = reduced[d].names[next] # NoStamp]
  BY <1>1 DEF x
<1>7. /\ e.op = "restore" /\ e.inc = next /\ e.stamp = s /\ e.name = row[d].name
      /\ e.adds = row[d].aliases /\ e.gone = {} /\ e.text = prose[d] \union {s}
      /\ e.seen = applied[d] /\ e \in ChangeSet
  <2> DEFINE b == Draft(d, "restore", s)
             t == prose[d] \union {s}
  <2> HIDE DEF s
  <2>1. b.op = "restore" /\ b.stamp = s /\ b.gone = {} /\ b.seen = applied[d]
    BY DraftParts
  <2> HIDE DEF b, t, next
  <2>2. b \in ChangeSet /\ t \in SUBSET Stamp /\ row[d].name \in Stamp /\ row[d].aliases \in SUBSET Alias
    BY <1>2, <1>3, <1>4, RowParts DEF b, t
  <2>3. LET f == [b EXCEPT !.inc = next, !.name = row[d].name, !.adds = row[d].aliases, !.text = t]
        IN  /\ f \in ChangeSet
            /\ f.op = b.op /\ f.inc = next /\ f.stamp = b.stamp /\ f.name = row[d].name
            /\ f.adds = row[d].aliases /\ f.gone = b.gone /\ f.text = t /\ f.seen = b.seen
    BY <1>6, <2>2 DEF ChangeSet
  <2> QED BY <2>1, <2>3 DEF b, t, next
<1> HIDE DEF s, e
<1>8. Writes(d, e, x)
  BY <1>5, <1>6, <1>7 DEF Writes, s
<1>9. x = [row[d] EXCEPT !.state = "live"]
  BY DEF x
<1> HIDE DEF next
<1>10. next = Current(reduced[d]) + 1
  BY DEF next
<1> QED BY <1>6, <1>7, <1>8, <1>9, <1>10

\* What a purge writes: the row is gone.
LEMMA PurgeWrites ==
  ASSUME TypeOK, NEW d \in Device, PurgeElement(d)
  PROVE  \E e : /\ Writes(d, e, NoRow)
                /\ e.op = "purge" /\ e.inc = Current(reduced[d])
                /\ e.adds = {} /\ e.gone \subseteq VisibleAdds(reduced[d]) /\ e.text = {}
                /\ row[d].state = "trashed" /\ Status(reduced[d]) \in {"trashed", "live"}
                /\ UNCHANGED <<shown, astray>>
<1>1. PICK now \in Wall[d] :
        LET r == reduced[d]
            e == [Draft(d, "purge", NextStamp(d, now)) EXCEPT
                    !.gone = {t \in VisibleAdds(r) : LiveAt(r, t.inc)}]
        IN  /\ row[d].state = "trashed" /\ Status(r) \in {"trashed", "live"}
            /\ Author(d, e, NoRow)
            /\ UNCHANGED <<shown, astray>>
  BY DEF PurgeElement
<1> DEFINE s == NextStamp(d, now)
           gone == {t \in VisibleAdds(reduced[d]) : LiveAt(reduced[d], t.inc)}
           e == [Draft(d, "purge", s) EXCEPT !.gone = gone]
<1>2. s \in Stamp
  BY NextStampType
<1>3. Draft(d, "purge", s) \in ChangeSet
  BY <1>2, DraftLemma DEF Operation
<1>4. gone \in SUBSET Tag /\ gone \subseteq VisibleAdds(reduced[d])
  <2>1. reduced[d] \in State
    BY DEF TypeOK
  <2> QED BY <2>1, StateParts DEF VisibleAdds
<1>5. NoRow \in Row
  BY NoStampType DEF NoRow, Row
<1> HIDE DEF gone
<1>6. /\ e.op = "purge" /\ e.inc = Current(reduced[d]) /\ e.stamp = s /\ e.adds = {}
      /\ e.gone = gone /\ e.text = {} /\ e.seen = applied[d] /\ e \in ChangeSet
  <2> DEFINE b == Draft(d, "purge", s)
  <2>1. b.adds = {}
    BY DEF Draft
  <2> HIDE DEF s
  <2>2. /\ b.op = "purge" /\ b.inc = Current(reduced[d]) /\ b.stamp = s /\ b.text = {}
        /\ b.seen = applied[d]
    BY DraftParts
  <2> HIDE DEF b
  <2>3. b \in ChangeSet
    BY <1>3 DEF b
  <2>4. LET f == [b EXCEPT !.gone = gone]
        IN  /\ f \in ChangeSet
            /\ f.op = b.op /\ f.inc = b.inc /\ f.stamp = b.stamp /\ f.adds = b.adds
            /\ f.gone = gone /\ f.text = b.text /\ f.seen = b.seen
    BY <1>4, <2>3 DEF ChangeSet
  <2> QED BY <2>1, <2>2, <2>4 DEF b
<1> HIDE DEF s, e
<1>7. /\ row[d].state = "trashed" /\ Status(reduced[d]) \in {"trashed", "live"}
      /\ Author(d, e, NoRow) /\ UNCHANGED <<shown, astray>>
  BY <1>1 DEF s, e, gone
<1>8. Writes(d, e, NoRow)
  BY <1>5, <1>6, <1>7 DEF Writes, s
<1> QED BY <1>4, <1>6, <1>7, <1>8

\* Every step writes a change set, applies one of another writer, or refreshes.
LEMMA StepKinds ==
  ASSUME TypeOK, Next
  PROVE  \/ \E d \in Device, e \in ChangeSet, x \in Row : Writes(d, e, x)
         \/ \E d, w \in Device : ApplyRemote(d, w)
         \/ \E d \in Device : Refresh(d)
<1>1. ASSUME NEW d, NEW e, NEW x, Writes(d, e, x) PROVE e \in ChangeSet /\ x \in Row
  BY <1>1 DEF Writes
<1> QED
  BY <1>1, CreateWrites, RenameWrites, ReplaceWrites, ProseWrites, TrashWrites, RestoreWrites,
     PurgeWrites DEF Next


(* Types *)

\* d applies the change set e of w, and rebuilds the row or not.
Receives(d, w, e, rebuilds) ==
  /\ w # d
  /\ applied[d][w] + 1 \in 1 .. Len(journal[w])
  /\ e = journal[w][applied[d][w] + 1]
  /\ rebuilds \in BOOLEAN
  /\ Effects(Reduce(reduced[d], e)) # Effects(reduced[d]) => rebuilds
  /\ applied' = [applied EXCEPT ![d][w] = @ + 1]
  /\ \E now \in Wall[d] :
       clock' = [clock EXCEPT ![d] = ObserveRemoteHlc(@, <<e.stamp[1], e.stamp[2]>>, now)]
  /\ reduced' = [reduced EXCEPT ![d] = Reduce(reduced[d], e)]
  /\ row' = IF rebuilds THEN [row EXCEPT ![d] = Rebuilt(@, Reduce(reduced[d], e))] ELSE row
  /\ prose' = [prose EXCEPT ![d] = @ \union TextTaken(Reduce(reduced[d], e), e)]
  /\ astray' = [astray EXCEPT ![d] = @ /\ ~(rebuilds /\ Status(Reduce(reduced[d], e)) = "live")]
  /\ ahead' = [ahead EXCEPT ![d] = @ \/ \E v \in Device : applied[d][v] < e.seen[v]]
  /\ journal' = journal
  /\ shown' = shown

\* A lane is a sequence of change sets.
LEMMA JournalType ==
  ASSUME TypeOK, NEW w \in Device
  PROVE  /\ Len(journal[w]) \in Nat
         /\ \A n \in 1 .. Len(journal[w]) : journal[w][n] \in ChangeSet
  BY DEF TypeOK

\* Applying a remote change set is a Receives, rebuilding the row or not.
LEMMA ApplyReceives ==
  ASSUME TypeOK, NEW d \in Device, NEW w \in Device, ApplyRemote(d, w)
  PROVE  \E e \in ChangeSet, rebuilds \in BOOLEAN : Receives(d, w, e, rebuilds)
<1> DEFINE e == journal[w][applied[d][w] + 1]
           r == Reduce(reduced[d], e)
<1>1. applied[d][w] \in Nat /\ Len(journal[w]) \in Nat /\ applied[d][w] < Len(journal[w])
  BY DEF TypeOK, ApplyRemote
<1>2. applied[d][w] + 1 \in 1 .. Len(journal[w])
  BY <1>1
<1>3. e \in ChangeSet
  BY <1>2, JournalType
<1>4. PICK now \in Wall[d], rebuilds \in {Effects(r) # Effects(reduced[d]), TRUE} :
            /\ applied' = [applied EXCEPT ![d][w] = @ + 1]
            /\ clock' = [clock EXCEPT ![d] = ObserveRemoteHlc(@, <<e.stamp[1], e.stamp[2]>>, now)]
            /\ reduced' = [reduced EXCEPT ![d] = r]
            /\ row' = IF rebuilds THEN [row EXCEPT ![d] = Rebuilt(@, r)] ELSE row
            /\ prose' = [prose EXCEPT ![d] = @ \union TextTaken(r, e)]
            /\ astray' = [astray EXCEPT ![d] = @ /\ ~(rebuilds /\ Status(r) = "live")]
            /\ ahead' = [ahead EXCEPT ![d] = @ \/ \E v \in Device : applied[d][v] < e.seen[v]]
            /\ UNCHANGED <<journal, shown>>
  BY DEF ApplyRemote
<1>5. w # d
  BY DEF ApplyRemote
<1>6. rebuilds \in BOOLEAN /\ (Effects(r) # Effects(reduced[d]) => rebuilds)
  OBVIOUS
<1>7. Receives(d, w, e, rebuilds)
  <2> HIDE DEF e
  <2> QED BY <1>2, <1>4, <1>5, <1>6 DEF Receives, e
<1> QED BY <1>3, <1>7

\* A rebuilt row is a row.
LEMMA RebuiltType ==
  ASSUME NEW old \in Row, NEW r \in State
  PROVE  Rebuilt(old, r) \in Row
<1>1. NameOf(r) \in Stamp
  <2>1. Current(r) \in Incarnation
    BY CurrentLemma
  <2> QED BY <2>1, StateParts DEF NameOf, Seed
<1>2. {t.alias : t \in VisibleAdds(r)} \in SUBSET Alias
  BY StateParts DEF VisibleAdds, Tag
<1>3. NoRow \in Row
  BY NoStampType DEF NoRow, Row
<1> DEFINE shownAliases == IF \E t \in r.adds \union r.removed : t.inc = Current(r)
                           THEN {t.alias : t \in VisibleAdds(r)} ELSE old.aliases
<1>4. [state |-> "live", name |-> NameOf(r), aliases |-> shownAliases] \in Row
  BY <1>1, <1>2, RowParts DEF Row
<1>5. [old EXCEPT !.state = "trashed"] \in Row
  BY DEF Row
<1> QED BY <1>3, <1>4, <1>5 DEF Rebuilt

\* An authored transaction keeps the types.
LEMMA WritesType ==
  ASSUME TypeOK, NEW d \in Device, NEW e, NEW x, Writes(d, e, x),
         shown' \in [Device -> Stamp], astray' \in [Device -> BOOLEAN]
  PROVE  TypeOK'
<1>1. e \in ChangeSet /\ x \in Row /\ Author(d, e, x)
  BY DEF Writes
<1>2. e.stamp[1] \in Nat /\ e.stamp[2] \in Nat /\ e.text \in SUBSET Stamp
  BY <1>1, ChangeSetParts, StampParts
<1>3. Reduce(reduced[d], e) \in State
  BY <1>1, ReduceType DEF TypeOK
<1>4. journal' \in [Device -> Seq(ChangeSet)]
  BY <1>1 DEF TypeOK, Author
<1>5. applied' \in [Device -> [Device -> Nat]]
  BY <1>1 DEF TypeOK, Author
<1>6. Len(journal'[d]) = Len(journal[d]) + 1 /\ (\A w \in Device : w # d => journal'[w] = journal[w])
  BY <1>1 DEF TypeOK, Author
<1>7. \A c, w \in Device : applied'[c][w] = IF c = d /\ w = d THEN applied[c][w] + 1 ELSE applied[c][w]
  BY <1>1 DEF TypeOK, Author
<1>8. \A c \in Device : applied'[c][c] = Len(journal'[c])
  BY <1>6, <1>7 DEF TypeOK
<1>9. \A c, w \in Device : applied'[c][w] <= Len(journal'[w])
  <2>1. \A c, w \in Device : applied[c][w] <= Len(journal[w]) /\ applied[c][w] \in Nat /\ Len(journal[w]) \in Nat
    BY JournalType DEF TypeOK
  <2>2. ASSUME NEW c \in Device, NEW w \in Device PROVE applied'[c][w] <= Len(journal'[w])
    <3>1. CASE w # d
      BY <1>6, <1>7, <2>1, <3>1
    <3>2. CASE w = d /\ c = d
      BY <1>8, <2>1, <3>2, <1>6
    <3>3. CASE w = d /\ c # d
      BY <1>6, <1>7, <2>1, <3>3
    <3> QED BY <3>1, <3>2, <3>3
  <2> QED BY <2>2
<1>10. clock' \in [Device -> Hlc] /\ reduced' \in [Device -> State] /\ row' \in [Device -> Row]
       /\ prose' \in [Device -> SUBSET Stamp] /\ ahead' \in [Device -> BOOLEAN]
  BY <1>1, <1>2, <1>3 DEF TypeOK, Author, Hlc
<1> QED BY <1>4, <1>5, <1>8, <1>9, <1>10 DEF TypeOK

\* So does the application of a remote change set.
LEMMA ReceivesType ==
  ASSUME TypeOK, NEW d \in Device, NEW w \in Device, NEW e \in ChangeSet, NEW rebuilds,
         Receives(d, w, e, rebuilds)
  PROVE  TypeOK'
<1> DEFINE r == Reduce(reduced[d], e)
<1>1. r \in State
  BY ReduceType DEF TypeOK
<1>2. e.text \in SUBSET Stamp /\ <<e.stamp[1], e.stamp[2]>> \in Hlc
  BY ChangeSetParts, StampParts DEF Hlc
<1>3. TextTaken(r, e) \in SUBSET Stamp
  BY <1>2 DEF TextTaken
<1>4. Rebuilt(row[d], r) \in Row
  BY <1>1, RebuiltType DEF TypeOK
<1> HIDE DEF r
<1>5. row' \in [Device -> Row] /\ reduced' \in [Device -> State] /\ prose' \in [Device -> SUBSET Stamp]
  BY <1>1, <1>3, <1>4 DEF TypeOK, Receives, r
<1>6. clock' \in [Device -> Hlc]
  <2>1. PICK now \in Wall[d] :
          clock' = [clock EXCEPT ![d] = ObserveRemoteHlc(@, <<e.stamp[1], e.stamp[2]>>, now)]
    BY DEF Receives
  <2>2. now \in Nat /\ clock[d] \in Hlc
    BY WallAssumption DEF TypeOK
  <2>3. ObserveRemoteHlc(clock[d], <<e.stamp[1], e.stamp[2]>>, now) \in Hlc
    BY <1>2, <2>2, ObserveLemma
  <2> QED BY <2>1, <2>3 DEF TypeOK
<1>7. astray' \in [Device -> BOOLEAN] /\ ahead' \in [Device -> BOOLEAN]
  BY DEF TypeOK, Receives
<1>8. applied' \in [Device -> [Device -> Nat]]
      /\ \A c, v \in Device : applied'[c][v] = IF c = d /\ v = w THEN applied[c][v] + 1 ELSE applied[c][v]
  <2>1. applied' = [applied EXCEPT ![d] = [applied[d] EXCEPT ![w] = applied[d][w] + 1]]
    BY DEF Receives
  <2>2. applied \in [Device -> [Device -> Nat]] /\ applied[d] \in [Device -> Nat]
    BY DEF TypeOK
  <2>3. [applied[d] EXCEPT ![w] = applied[d][w] + 1] \in [Device -> Nat]
    BY <2>2
  <2> QED BY <2>1, <2>2, <2>3
<1>9. (\A c \in Device : applied'[c][c] = Len(journal'[c]))
      /\ (\A c, v \in Device : applied'[c][v] <= Len(journal'[v]))
  BY <1>8, JournalType DEF TypeOK, Receives
<1> QED BY <1>5, <1>6, <1>7, <1>8, <1>9 DEF TypeOK, Receives

\* An authored operation leaves the interface and the history variable in their types.
LEMMA AuthoredType ==
  ASSUME TypeOK, NEW d \in Device,
         \/ CreateElement(d) \/ RenameElement(d) \/ ReplaceAliases(d) \/ WriteProse(d)
         \/ TrashElement(d) \/ RestoreElement(d) \/ PurgeElement(d)
  PROVE  TypeOK'
<1>1. ASSUME NEW e, NEW x, Writes(d, e, x) PROVE e.stamp \in Stamp
  BY <1>1, ChangeSetParts DEF Writes
<1>2. row[d].name \in Stamp /\ NoStamp \in Stamp /\ shown \in [Device -> Stamp] /\ astray \in [Device -> BOOLEAN]
  BY RowParts, NoStampType DEF TypeOK
<1>3. CASE CreateElement(d)
  <2>1. PICK e, x : Writes(d, e, x) /\ shown' = [shown EXCEPT ![d] = e.stamp] /\ UNCHANGED astray
    BY <1>3, CreateWrites
  <2> QED BY <1>1, <1>2, <2>1, WritesType
<1>4. CASE RenameElement(d)
  <2>1. PICK e, x : Writes(d, e, x) /\ shown' = [shown EXCEPT ![d] = e.stamp]
                    /\ astray' = [astray EXCEPT ![d] = FALSE]
    BY <1>4, RenameWrites
  <2> QED BY <1>1, <1>2, <2>1, WritesType
<1>5. CASE ReplaceAliases(d)
  <2>1. PICK e, x : Writes(d, e, x) /\ UNCHANGED shown
                    /\ astray' = [astray EXCEPT ![d] = @ \/ shown[d] # row[d].name]
    BY <1>5, ReplaceWrites
  <2> QED BY <1>2, <2>1, WritesType
<1>6. CASE WriteProse(d)
  <2>1. PICK e : Writes(d, e, row[d]) /\ UNCHANGED <<shown, astray>>
    BY <1>6, ProseWrites
  <2> QED BY <1>2, <2>1, WritesType
<1>7. CASE TrashElement(d)
  <2>1. PICK e, x : /\ Writes(d, e, x)
                    /\ shown' = [shown EXCEPT ![d] = NoStamp]
                    /\ astray' = [astray EXCEPT ![d] = @ \/ Status(Reduce(reduced[d], e)) = "live"]
    BY <1>7, TrashWrites
  <2> QED BY <1>2, <2>1, WritesType
<1>8. CASE RestoreElement(d)
  <2>1. PICK e, x : /\ Writes(d, e, x)
                    /\ shown' = [shown EXCEPT ![d] = row[d].name]
                    /\ astray' = [astray EXCEPT ![d] = reduced[d].names[e.inc] # NoStamp]
    BY <1>8, RestoreWrites
  <2> QED BY <1>2, <2>1, WritesType
<1>9. CASE PurgeElement(d)
  <2>1. PICK e : Writes(d, e, NoRow) /\ UNCHANGED <<shown, astray>>
    BY <1>9, PurgeWrites
  <2> QED BY <1>2, <2>1, WritesType
<1> QED BY <1>3, <1>4, <1>5, <1>6, <1>7, <1>8, <1>9

\* So does every step.
LEMMA TypeStep ==
  ASSUME TypeOK, [Next]_vars
  PROVE  TypeOK'
<1>1. CASE UNCHANGED vars
  BY <1>1 DEF TypeOK, vars
<1>2. CASE \E d, w \in Device : ApplyRemote(d, w)
  BY <1>2, ApplyReceives, ReceivesType
<1>3. CASE \E d \in Device : Refresh(d)
  <2>1. PICK d \in Device : Refresh(d)
    BY <1>3
  <2>2. shown' \in [Device -> Stamp]
    BY <2>1, RowParts, NoStampType DEF TypeOK, Refresh
  <2> QED BY <2>1, <2>2 DEF TypeOK, Refresh
<1> QED BY <1>1, <1>2, <1>3, AuthoredType DEF Next

\* They hold at first.
LEMMA TypeInit == Init => TypeOK
<1> SUFFICES ASSUME Init PROVE TypeOK
  OBVIOUS
<1>1. <<0, 0>> \in Hlc
  BY DEF Hlc
<1>2. NoRow \in Row
  BY NoStampType DEF NoRow, Row
<1> QED BY <1>1, <1>2, InitStateLemma, NoStampType DEF Init, TypeOK

\* The variables keep their types, and a device has applied no more of a lane
\* than was written and all of its own, whoever authors or applies what.
THEOREM TypeCorrect == Spec => []TypeOK
<1> QED BY TypeInit, TypeStep, PTL DEF Spec

(* The causal order *)

\* Each lane is stamped with its writer and its place in it, and no author had
\* applied what was not yet written.
LanesStamped ==
  \A w \in Device : \A n \in 1 .. Len(journal[w]) :
    /\ journal[w][n].stamp[3] = w
    /\ journal[w][n].stamp[4] = n
    /\ \A v \in Device : journal[w][n].seen[v] <= Len(journal[v])

\* The clock of a device is no earlier than any change set it has applied.
ClockAhead ==
  \A d, w \in Device : \A n \in 1 .. applied[d][w] : ~EarlierHlc(clock[d], journal[w][n].stamp)

\* A device has applied a prefix of each lane.
LEMMA AppliedType ==
  ASSUME TypeOK, NEW d \in Device, NEW w \in Device
  PROVE  applied[d][w] \in Nat /\ Len(journal[w]) \in Nat /\ applied[d][w] <= Len(journal[w])
  BY DEF TypeOK

\* What a written change set leaves of the lanes and of the other devices.
LEMMA WritesParts ==
  ASSUME TypeOK, NEW d \in Device, NEW e, NEW x, Writes(d, e, x)
  PROVE  /\ e \in ChangeSet /\ e.seen = applied[d]
         /\ e.stamp[3] = d /\ e.stamp[4] = Len(journal[d]) + 1 /\ EarlierHlc(clock[d], e.stamp)
         /\ Len(journal'[d]) = Len(journal[d]) + 1 /\ journal'[d][Len(journal[d]) + 1] = e
         /\ \A w \in Device : w # d => Len(journal'[w]) = Len(journal[w])
         /\ \A w \in Device : \A n \in 1 .. Len(journal[w]) : journal'[w][n] = journal[w][n]
         /\ applied'[d][d] = applied[d][d] + 1
         /\ \A c, w \in Device : c # d \/ w # d => applied'[c][w] = applied[c][w]
         /\ clock'[d] = <<e.stamp[1], e.stamp[2]>>
         /\ \A c \in Device : c # d => clock'[c] = clock[c]
<1>1. e \in ChangeSet /\ Author(d, e, x) /\ e.seen = applied[d]
  BY DEF Writes
<1>2. e.stamp[3] = d /\ e.stamp[4] = Len(journal[d]) + 1 /\ EarlierHlc(clock[d], e.stamp)
  BY NextStampType DEF Writes
<1>3. journal \in [Device -> Seq(ChangeSet)] /\ journal' = [journal EXCEPT ![d] = Append(@, e)]
  BY <1>1 DEF TypeOK, Author
<1>4. Len(journal'[d]) = Len(journal[d]) + 1 /\ journal'[d][Len(journal[d]) + 1] = e
  BY <1>1, <1>3
<1>5. \A w \in Device : w # d => journal'[w] = journal[w]
  BY <1>3
<1>6. \A n \in 1 .. Len(journal[d]) : journal'[d][n] = journal[d][n]
  BY <1>1, <1>3
<1>7. \A w \in Device : \A n \in 1 .. Len(journal[w]) : journal'[w][n] = journal[w][n]
  BY <1>5, <1>6
<1>8. /\ applied'[d][d] = applied[d][d] + 1
      /\ \A c, w \in Device : c # d \/ w # d => applied'[c][w] = applied[c][w]
  BY <1>1 DEF TypeOK, Author
<1>9. clock'[d] = <<e.stamp[1], e.stamp[2]>> /\ (\A c \in Device : c # d => clock'[c] = clock[c])
  BY <1>1 DEF TypeOK, Author
<1> QED BY <1>1, <1>2, <1>4, <1>5, <1>7, <1>8, <1>9

\* What an applied change set leaves.
LEMMA ReceivesParts ==
  ASSUME TypeOK, NEW d \in Device, NEW w \in Device, NEW e \in ChangeSet, NEW rebuilds,
         Receives(d, w, e, rebuilds)
  PROVE  /\ w # d /\ applied[d][w] + 1 \in 1 .. Len(journal[w]) /\ e = journal[w][applied[d][w] + 1]
         /\ journal' = journal
         /\ applied'[d][w] = applied[d][w] + 1
         /\ \A c, v \in Device : c # d \/ v # w => applied'[c][v] = applied[c][v]
         /\ ~EarlierHlc(clock'[d], clock[d]) /\ ~EarlierHlc(clock'[d], e.stamp)
         /\ \A c \in Device : c # d => clock'[c] = clock[c]
<1>1. PICK now \in Wall[d] :
        clock' = [clock EXCEPT ![d] = ObserveRemoteHlc(@, <<e.stamp[1], e.stamp[2]>>, now)]
  BY DEF Receives
<1> DEFINE h == <<e.stamp[1], e.stamp[2]>>
<1>2. now \in Nat /\ clock[d] \in Hlc /\ h \in Hlc
  BY WallAssumption, ChangeSetParts, StampParts DEF TypeOK, Hlc
<1>3. clock'[d] = ObserveRemoteHlc(clock[d], h, now) /\ (\A c \in Device : c # d => clock'[c] = clock[c])
  BY <1>1 DEF TypeOK
<1>4. ~EarlierHlc(clock'[d], clock[d]) /\ ~EarlierHlc(clock'[d], h)
  <2> HIDE DEF h
  <2> QED BY <1>2, <1>3, ObserveLemma
<1>5. ~EarlierHlc(clock'[d], e.stamp)
  BY <1>4 DEF EarlierHlc
<1>6. /\ applied'[d][w] = applied[d][w] + 1
      /\ \A c, v \in Device : c # d \/ v # w => applied'[c][v] = applied[c][v]
  <2>1. applied' = [applied EXCEPT ![d] = [applied[d] EXCEPT ![w] = applied[d][w] + 1]]
    BY DEF Receives
  <2>2. applied \in [Device -> [Device -> Nat]] /\ applied[d] \in [Device -> Nat]
    BY DEF TypeOK
  <2> QED BY <2>1, <2>2
<1> QED BY <1>3, <1>4, <1>5, <1>6 DEF Receives

\* Clocks that are not earlier, one after the other.
LEMMA NotEarlierTransitive ==
  ASSUME NEW g, NEW h, NEW x, g[1] \in Nat, g[2] \in Nat, h[1] \in Nat, h[2] \in Nat,
         x[1] \in Nat, x[2] \in Nat
  PROVE  /\ ~EarlierHlc(g, h) /\ ~EarlierHlc(h, x) => ~EarlierHlc(g, x)
         /\ EarlierHlc(h, g) /\ ~EarlierHlc(h, x) => EarlierHlc(x, g)
  BY DEF EarlierHlc

\* What makes the order of stamps an order of causes.
CausalInv == LanesStamped /\ ClockAhead /\ CausalOrder

\* An authored change set is stamped after all its author had applied.
LEMMA WritesCausal ==
  ASSUME TypeOK, TypeOK', CausalInv, NEW d \in Device, NEW e, NEW x, Writes(d, e, x)
  PROVE  CausalInv'
<1>1. /\ e \in ChangeSet /\ e.seen = applied[d]
      /\ e.stamp[3] = d /\ e.stamp[4] = Len(journal[d]) + 1 /\ EarlierHlc(clock[d], e.stamp)
      /\ Len(journal'[d]) = Len(journal[d]) + 1 /\ journal'[d][Len(journal[d]) + 1] = e
      /\ \A w \in Device : w # d => Len(journal'[w]) = Len(journal[w])
      /\ \A w \in Device : \A n \in 1 .. Len(journal[w]) : journal'[w][n] = journal[w][n]
      /\ applied'[d][d] = applied[d][d] + 1
      /\ \A c, w \in Device : c # d \/ w # d => applied'[c][w] = applied[c][w]
      /\ clock'[d] = <<e.stamp[1], e.stamp[2]>>
      /\ \A c \in Device : c # d => clock'[c] = clock[c]
  BY WritesParts
<1>2. e.stamp \in Stamp /\ e.stamp[1] \in Nat /\ e.stamp[2] \in Nat
  BY <1>1, ChangeSetParts, StampParts
<1>3. \A c \in Device : clock[c][1] \in Nat /\ clock[c][2] \in Nat
  BY DEF TypeOK, Hlc
<1>4. \A w \in Device : \A n \in 1 .. Len(journal[w]) :
        journal[w][n].stamp[1] \in Nat /\ journal[w][n].stamp[2] \in Nat
  BY JournalType, ChangeSetParts, StampParts
<1>5. \A w \in Device : Len(journal[w]) \in Nat /\ Len(journal'[w]) \in Nat /\ Len(journal[w]) <= Len(journal'[w])
  <2>1. \A w \in Device : Len(journal[w]) \in Nat
    BY AppliedType
  <2>2. /\ Len(journal'[d]) = Len(journal[d]) + 1
        /\ \A w \in Device : w # d => Len(journal'[w]) = Len(journal[w])
    BY <1>1
  <2> QED BY <2>1, <2>2
<1>6. \A c, w \in Device : applied[c][w] \in Nat /\ applied[c][w] <= Len(journal[w])
  BY AppliedType
\* Every place of a lane but the new one is an old place.
<1>7. \A w \in Device : \A n \in 1 .. Len(journal'[w]) :
        n \in 1 .. Len(journal[w]) \/ (w = d /\ n = Len(journal[d]) + 1)
  BY <1>1, <1>5
<1>8. LanesStamped'
  <2> SUFFICES ASSUME NEW w \in Device, NEW n \in 1 .. Len(journal'[w])
               PROVE  /\ journal'[w][n].stamp[3] = w
                      /\ journal'[w][n].stamp[4] = n
                      /\ \A v \in Device : journal'[w][n].seen[v] <= Len(journal'[v])
    BY DEF LanesStamped
  <2>1. CASE n \in 1 .. Len(journal[w])
    <3>1. \A v \in Device : journal[w][n].seen[v] \in Nat
      BY <2>1, JournalType, ChangeSetParts
    <3>2. \A v \in Device : journal[w][n].seen[v] <= Len(journal[v])
      BY <2>1 DEF CausalInv, LanesStamped
    <3>3. \A v \in Device : journal[w][n].seen[v] <= Len(journal'[v])
      BY <1>5, <3>1, <3>2
    <3>4. journal[w][n].stamp[3] = w /\ journal[w][n].stamp[4] = n
      BY <2>1 DEF CausalInv, LanesStamped
    <3> QED BY <1>1, <2>1, <3>3, <3>4
  <2>2. CASE w = d /\ n = Len(journal[d]) + 1
    <3>1. \A v \in Device : applied[d][v] <= Len(journal'[v])
      BY <1>1, <1>5, <1>6, AppliedType
    <3> QED BY <1>1, <2>2, <3>1
  <2> QED BY <1>7, <2>1, <2>2
<1>9. ClockAhead'
  <2> SUFFICES ASSUME NEW c \in Device, NEW w \in Device, NEW n \in 1 .. applied'[c][w]
               PROVE  ~EarlierHlc(clock'[c], journal'[w][n].stamp)
    BY DEF ClockAhead
  <2>1. CASE c # d
    <3>1. n \in 1 .. applied[c][w] /\ n \in 1 .. Len(journal[w])
      BY <1>1, <1>6, <2>1, AppliedType
    <3> QED BY <1>1, <2>1, <3>1 DEF CausalInv, ClockAhead
  <2>2. CASE c = d /\ n \in 1 .. applied[d][w]
    <3>1. n \in 1 .. Len(journal[w])
      BY <1>6, <2>2, AppliedType
    <3>2. ~EarlierHlc(clock[d], journal[w][n].stamp)
      BY <2>2 DEF CausalInv, ClockAhead
    <3>3. EarlierHlc(journal[w][n].stamp, e.stamp)
      BY <1>1, <1>2, <1>3, <1>4, <3>1, <3>2, NotEarlierTransitive
    <3>4. ~EarlierHlc(<<e.stamp[1], e.stamp[2]>>, journal[w][n].stamp)
      BY <1>2, <1>4, <3>1, <3>3 DEF EarlierHlc
    <3> QED BY <1>1, <2>2, <3>1, <3>4
  <2>3. CASE c = d /\ n \notin 1 .. applied[d][w]
    <3>1. w = d /\ n = Len(journal[d]) + 1
      BY <1>1, <1>6, <2>3 DEF TypeOK
    <3>2. ~EarlierHlc(<<e.stamp[1], e.stamp[2]>>, e.stamp)
      BY <1>2 DEF EarlierHlc
    <3> QED BY <1>1, <2>3, <3>1, <3>2
  <2> QED BY <2>1, <2>2, <2>3
<1>10. CausalOrder'
  <2> SUFFICES ASSUME NEW w \in Device, NEW v \in Device, NEW n \in 1 .. Len(journal'[w]),
                      NEW k \in 1 .. journal'[w][n].seen[v]
               PROVE  Before(journal'[v][k].stamp, journal'[w][n].stamp)
    BY DEF CausalOrder
  <2>1. CASE n \in 1 .. Len(journal[w])
    <3>1. journal'[w][n] = journal[w][n] /\ journal[w][n].seen[v] \in Nat
          /\ journal[w][n].seen[v] <= Len(journal[v])
      BY <1>1, <2>1, JournalType, ChangeSetParts DEF CausalInv, LanesStamped
    <3>2. k \in 1 .. journal[w][n].seen[v] /\ k \in 1 .. Len(journal[v])
      BY <3>1, AppliedType
    <3> QED BY <1>1, <2>1, <3>1, <3>2 DEF CausalInv, CausalOrder
  <2>2. CASE w = d /\ n = Len(journal[d]) + 1
    <3>1. journal'[w][n] = e /\ k \in 1 .. applied[d][v]
      BY <1>1, <2>2
    <3>2. k \in 1 .. Len(journal[v])
      BY <1>6, <3>1, AppliedType
    <3>3. ~EarlierHlc(clock[d], journal[v][k].stamp)
      BY <3>1 DEF CausalInv, ClockAhead
    <3>4. EarlierHlc(journal[v][k].stamp, e.stamp)
      BY <1>1, <1>2, <1>3, <1>4, <3>2, <3>3, NotEarlierTransitive
    <3> QED BY <1>1, <3>1, <3>2, <3>4 DEF Before
  <2> QED BY <1>7, <2>1, <2>2
<1> QED BY <1>8, <1>9, <1>10 DEF CausalInv

\* A received one moves the clock past it.
LEMMA ReceivesCausal ==
  ASSUME TypeOK, CausalInv, NEW d \in Device, NEW w \in Device, NEW e \in ChangeSet, NEW rebuilds,
         Receives(d, w, e, rebuilds)
  PROVE  CausalInv'
<1>1. /\ w # d /\ applied[d][w] + 1 \in 1 .. Len(journal[w]) /\ e = journal[w][applied[d][w] + 1]
      /\ journal' = journal
      /\ applied'[d][w] = applied[d][w] + 1
      /\ \A c, v \in Device : c # d \/ v # w => applied'[c][v] = applied[c][v]
      /\ ~EarlierHlc(clock'[d], clock[d]) /\ ~EarlierHlc(clock'[d], e.stamp)
      /\ \A c \in Device : c # d => clock'[c] = clock[c]
  BY ReceivesParts
<1>2. LanesStamped' /\ CausalOrder'
  BY <1>1 DEF CausalInv, LanesStamped, CausalOrder
<1>3. ClockAhead'
  <2> SUFFICES ASSUME NEW c \in Device, NEW v \in Device, NEW n \in 1 .. applied'[c][v]
               PROVE  ~EarlierHlc(clock'[c], journal[v][n].stamp)
    BY <1>1 DEF ClockAhead
  <2>1. CASE c # d
    BY <1>1, <2>1 DEF CausalInv, ClockAhead
  <2>2. CASE c = d /\ n \in 1 .. applied[d][v]
    <3>1. ~EarlierHlc(clock[d], journal[v][n].stamp)
      BY <2>2 DEF CausalInv, ClockAhead
    <3>2. n \in 1 .. Len(journal[v])
      BY <2>2, AppliedType
    <3>3. journal[v][n].stamp[1] \in Nat /\ journal[v][n].stamp[2] \in Nat
      BY <3>2, JournalType, ChangeSetParts, StampParts
    <3>4. clock[d][1] \in Nat /\ clock[d][2] \in Nat
      BY DEF TypeOK, Hlc
    <3>5. clock'[d][1] \in Nat /\ clock'[d][2] \in Nat
      BY ReceivesType DEF TypeOK, Hlc
    <3> QED BY <1>1, <2>2, <3>1, <3>3, <3>4, <3>5, NotEarlierTransitive
  <2>3. CASE c = d /\ n \notin 1 .. applied[d][v]
    <3>1. v = w /\ n = applied[d][w] + 1
      BY <1>1, <2>3, AppliedType
    <3> QED BY <1>1, <2>3, <3>1
  <2> QED BY <2>1, <2>2, <2>3
<1> QED BY <1>2, <1>3 DEF CausalInv

\* Every step keeps causality.
LEMMA CausalStep ==
  ASSUME TypeOK, CausalInv, [Next]_vars
  PROVE  CausalInv'
<1>1. CASE UNCHANGED vars
  BY <1>1 DEF CausalInv, LanesStamped, ClockAhead, CausalOrder, vars
<1>2. CASE \E d \in Device, e \in ChangeSet, x \in Row : Writes(d, e, x)
  BY <1>2, TypeStep, WritesCausal
<1>3. CASE \E d, w \in Device : ApplyRemote(d, w)
  BY <1>3, ApplyReceives, ReceivesCausal
<1>4. CASE \E d \in Device : Refresh(d)
  BY <1>4 DEF CausalInv, LanesStamped, ClockAhead, CausalOrder, Refresh
<1> QED BY <1>1, <1>2, <1>3, <1>4, StepKinds

\* It holds at first.
LEMMA CausalInit == Init => CausalInv
<1> SUFFICES ASSUME Init PROVE CausalInv
  OBVIOUS
<1>1. \A w \in Device : journal[w] = <<>> /\ Len(journal[w]) = 0
  BY DEF Init
<1>2. \A d, w \in Device : applied[d][w] = 0
  BY DEF Init
<1> QED BY <1>1, <1>2 DEF CausalInv, LanesStamped, ClockAhead, CausalOrder

\* A change set comes after all its author had applied: each clock is no
\* earlier than what its device has applied, since it observes the clock of
\* each change set, and the next local clock is later.
THEOREM Causality == Spec => []CausalOrder
<1>1. TypeOK /\ CausalInv /\ [Next]_vars => (TypeOK /\ CausalInv)'
  BY TypeStep, CausalStep
<1>2. CausalInv => CausalOrder
  BY DEF CausalInv
<1> QED BY TypeInit, CausalInit, <1>1, <1>2, PTL DEF Spec

(* The state and the history *)

\* The change sets a device has applied.
History(d) == UNION {{journal[w][n] : n \in 1 .. applied[d][w]} : w \in Device}

\* The reduced state is the one its change sets amount to.
StateIsHistory == \A d \in Device : Describes(reduced[d], History(d))

\* Membership in what a device has applied.
LEMMA InHistory ==
  ASSUME NEW d, NEW f
  PROVE  f \in History(d) <=> \E w \in Device : \E n \in 1 .. applied[d][w] : f = journal[w][n]
  BY DEF History

\* What a device has applied are change sets.
LEMMA HistoryType ==
  ASSUME TypeOK, NEW d \in Device
  PROVE  History(d) \subseteq ChangeSet
<1>1. ASSUME NEW w \in Device, NEW n \in 1 .. applied[d][w] PROVE journal[w][n] \in ChangeSet
  BY AppliedType, JournalType
<1> QED BY <1>1, InHistory

\* Two stamps of the lanes are the same only at the same place.
LEMMA StampsDiffer ==
  ASSUME TypeOK, LanesStamped, NEW v \in Device, NEW w \in Device,
         NEW k \in 1 .. Len(journal[v]), NEW n \in 1 .. Len(journal[w])
  PROVE  /\ journal[v][k].stamp = journal[w][n].stamp => v = w /\ k = n
         /\ journal[v][k].stamp # NoStamp
<1>1. /\ journal[v][k].stamp[3] = v /\ journal[v][k].stamp[4] = k
      /\ journal[w][n].stamp[3] = w /\ journal[w][n].stamp[4] = n
  BY DEF LanesStamped
<1>2. v # 0 /\ NoStamp[3] = 0
  BY DeviceAssumption DEF NoStamp
<1> QED BY <1>1, <1>2

\* What d writes is new to its history, and the history grows by it.
LEMMA WritesHistory ==
  ASSUME TypeOK, LanesStamped, NEW d \in Device, NEW e, NEW x, Writes(d, e, x)
  PROVE  /\ e \in ChangeSet /\ e.stamp # NoStamp
         /\ \A f \in History(d) : f.stamp # NoStamp /\ f.stamp # e.stamp
         /\ History(d)' = History(d) \union {e}
         /\ \A c \in Device : c # d => History(c)' = History(c)
<1>1. /\ e \in ChangeSet
      /\ e.stamp[3] = d /\ e.stamp[4] = Len(journal[d]) + 1
      /\ journal'[d][Len(journal[d]) + 1] = e
      /\ \A w \in Device : \A n \in 1 .. Len(journal[w]) : journal'[w][n] = journal[w][n]
      /\ applied'[d][d] = applied[d][d] + 1
      /\ \A c, w \in Device : c # d \/ w # d => applied'[c][w] = applied[c][w]
  BY WritesParts
<1>2. \A c, w \in Device : \A n \in 1 .. applied[c][w] :
        n \in 1 .. Len(journal[w]) /\ journal'[w][n] = journal[w][n]
  BY <1>1, AppliedType
<1>3. e.stamp # NoStamp
  BY <1>1, DeviceAssumption DEF NoStamp
<1>4. ASSUME NEW f \in History(d) PROVE f.stamp # NoStamp /\ f.stamp # e.stamp
  <2>1. PICK w \in Device : \E n \in 1 .. applied[d][w] : f = journal[w][n]
    BY InHistory
  <2>1a. PICK n \in 1 .. applied[d][w] : f = journal[w][n]
    BY <2>1
  <2>2. n \in 1 .. Len(journal[w])
    BY <1>2
  <2>3. f.stamp[3] = w /\ f.stamp[4] = n
    BY <2>1a, <2>2 DEF LanesStamped
  <2>4. n # Len(journal[d]) + 1 \/ w # d
    BY <2>2, AppliedType
  <2> QED BY <1>1, <2>1a, <2>2, <2>3, <2>4, StampsDiffer
<1>5. ASSUME NEW c \in Device, c # d PROVE History(c)' = History(c)
  BY <1>1, <1>2, <1>5 DEF History
<1>6. applied[d][d] = Len(journal[d]) /\ applied'[d][d] = Len(journal[d]) + 1
  BY <1>1 DEF TypeOK
<1>7. ASSUME NEW f PROVE f \in History(d)' <=> f \in History(d) \/ f = e
  <2>1. f \in History(d)' <=> \E w \in Device : \E n \in 1 .. applied'[d][w] : f = journal'[w][n]
    BY DEF History
  <2>2. ASSUME NEW w \in Device, NEW n \in 1 .. applied'[d][w], f = journal'[w][n]
        PROVE  f \in History(d) \/ f = e
    <3>1. n \in 1 .. applied[d][w] \/ (w = d /\ n = Len(journal[d]) + 1)
      BY <1>1, <1>6, AppliedType
    <3> QED BY <1>1, <1>2, <2>2, <3>1, InHistory
  <2>3. ASSUME NEW w \in Device, NEW n \in 1 .. applied[d][w], f = journal[w][n]
        PROVE  n \in 1 .. applied'[d][w] /\ f = journal'[w][n]
    BY <1>1, <1>2, <2>3, AppliedType
  <2>4. Len(journal[d]) + 1 \in 1 .. applied'[d][d]
    BY <1>6, AppliedType
  <2> QED BY <1>1, <2>1, <2>2, <2>3, <2>4, InHistory
<1>8. History(d)' = History(d) \union {e}
  BY <1>7
<1> QED BY <1>1, <1>3, <1>4, <1>5, <1>8

\* The same of what d applies.
LEMMA ReceivesHistory ==
  ASSUME TypeOK, LanesStamped, NEW d \in Device, NEW w \in Device, NEW e \in ChangeSet, NEW rebuilds,
         Receives(d, w, e, rebuilds)
  PROVE  /\ e.stamp # NoStamp
         /\ \A f \in History(d) : f.stamp # NoStamp /\ f.stamp # e.stamp
         /\ History(d)' = History(d) \union {e}
         /\ \A c \in Device : c # d => History(c)' = History(c)
<1>1. /\ w # d /\ applied[d][w] + 1 \in 1 .. Len(journal[w]) /\ e = journal[w][applied[d][w] + 1]
      /\ journal' = journal
      /\ applied'[d][w] = applied[d][w] + 1
      /\ \A c, v \in Device : c # d \/ v # w => applied'[c][v] = applied[c][v]
  BY ReceivesParts
<1>2. e.stamp # NoStamp
  BY <1>1, StampsDiffer
<1>3. ASSUME NEW f \in History(d) PROVE f.stamp # NoStamp /\ f.stamp # e.stamp
  <2>1. PICK v \in Device : \E n \in 1 .. applied[d][v] : f = journal[v][n]
    BY InHistory
  <2>1a. PICK n \in 1 .. applied[d][v] : f = journal[v][n]
    BY <2>1
  <2>2. n \in 1 .. Len(journal[v]) /\ (v # w \/ n # applied[d][w] + 1)
    BY AppliedType
  <2> QED BY <1>1, <2>1a, <2>2, StampsDiffer
<1>4. ASSUME NEW c \in Device, c # d PROVE History(c)' = History(c)
  BY <1>1, <1>4 DEF History
<1>5. ASSUME NEW f PROVE f \in History(d)' <=> f \in History(d) \/ f = e
  <2>1. f \in History(d)' <=> \E v \in Device : \E n \in 1 .. applied'[d][v] : f = journal[v][n]
    BY <1>1 DEF History
  <2>2. ASSUME NEW v \in Device, NEW n \in 1 .. applied'[d][v], f = journal[v][n]
        PROVE  f \in History(d) \/ f = e
    <3>1. n \in 1 .. applied[d][v] \/ (v = w /\ n = applied[d][w] + 1)
      BY <1>1, AppliedType
    <3> QED BY <1>1, <2>2, <3>1, InHistory
  <2>3. ASSUME NEW v \in Device, NEW n \in 1 .. applied[d][v] PROVE n \in 1 .. applied'[d][v]
    BY <1>1, AppliedType
  <2>4. applied[d][w] + 1 \in 1 .. applied'[d][w]
    BY <1>1, AppliedType
  <2> QED BY <1>1, <2>1, <2>2, <2>3, <2>4, InHistory
<1>6. History(d)' = History(d) \union {e}
  BY <1>5
<1> QED BY <1>2, <1>3, <1>4, <1>6

\* One reduction more describes one change set more.
LEMMA HistoryStep ==
  ASSUME TypeOK, LanesStamped, StateIsHistory, [Next]_vars
  PROVE  StateIsHistory'
<1>1. ASSUME UNCHANGED <<journal, applied, reduced>> PROVE StateIsHistory'
  <2>1. ASSUME NEW d \in Device PROVE History(d)' = History(d)
    BY <1>1 DEF History
  <2>2. ASSUME NEW d \in Device PROVE Describes(reduced'[d], History(d)')
    BY <1>1, <2>1 DEF StateIsHistory
  <2> QED BY <2>2 DEF StateIsHistory
<1>2. ASSUME NEW d \in Device, NEW e \in ChangeSet, e.stamp # NoStamp,
             \A f \in History(d) : f.stamp # NoStamp /\ f.stamp # e.stamp,
             History(d)' = History(d) \union {e},
             \A c \in Device : c # d => History(c)' = History(c),
             reduced' = [reduced EXCEPT ![d] = Reduce(reduced[d], e)]
      PROVE  StateIsHistory'
  <2>1. reduced[d] \in State /\ reduced'[d] = Reduce(reduced[d], e)
        /\ \A c \in Device : c # d => reduced'[c] = reduced[c]
    BY <1>2 DEF TypeOK
  <2>2. Describes(Reduce(reduced[d], e), History(d) \union {e})
    BY <1>2, <2>1, HistoryType, ReduceDescribes DEF StateIsHistory
  <2>3. ASSUME NEW c \in Device PROVE Describes(reduced'[c], History(c)')
    BY <1>2, <2>1, <2>2 DEF StateIsHistory
  <2> QED BY <2>3 DEF StateIsHistory
<1>3. CASE \E d \in Device, e \in ChangeSet, x \in Row : Writes(d, e, x)
  <2>1. PICK d \in Device, e \in ChangeSet, x \in Row : Writes(d, e, x)
    BY <1>3
  <2>2. reduced' = [reduced EXCEPT ![d] = Reduce(reduced[d], e)]
    BY <2>1 DEF Writes, Author
  <2> QED BY <1>2, <2>1, <2>2, WritesHistory
<1>4. CASE \E d, w \in Device : ApplyRemote(d, w)
  <2>1. PICK d \in Device, w \in Device, e \in ChangeSet, rebuilds \in BOOLEAN : Receives(d, w, e, rebuilds)
    BY <1>4, ApplyReceives
  <2>2. reduced' = [reduced EXCEPT ![d] = Reduce(reduced[d], e)]
    BY <2>1 DEF Receives
  <2>3. /\ e.stamp # NoStamp
        /\ \A f \in History(d) : f.stamp # NoStamp /\ f.stamp # e.stamp
        /\ History(d)' = History(d) \union {e}
        /\ \A c \in Device : c # d => History(c)' = History(c)
    BY <2>1, ReceivesHistory
  <2> QED BY <1>2, <2>2, <2>3
<1>5. CASE UNCHANGED vars \/ \E d \in Device : Refresh(d)
  BY <1>1, <1>5 DEF Refresh, vars
<1> QED BY <1>3, <1>4, <1>5, StepKinds

\* It holds at first.
LEMMA HistoryInit == Init => StateIsHistory
<1> SUFFICES ASSUME Init, NEW d \in Device PROVE Describes(reduced[d], History(d))
  BY DEF StateIsHistory
<1>1. \A w \in Device : applied[d][w] = 0
  BY DEF Init
<1>2. History(d) = {}
  BY <1>1 DEF History
<1>3. reduced[d] = InitState
  BY DEF Init
<1> QED BY <1>2, <1>3, InitStateLemma

\* What every step keeps, and the other theorems start from.
Basis == TypeOK /\ CausalInv /\ StateIsHistory

\* Types, causality and history are preserved together,
LEMMA BasisStep == Basis /\ [Next]_vars => Basis'
  BY TypeStep, CausalStep, HistoryStep DEF Basis, CausalInv

\* and so always hold.
LEMMA BasisAlways == Spec => []Basis
<1>1. Init => Basis
  BY TypeInit, CausalInit, HistoryInit DEF Basis
<1> QED BY <1>1, BasisStep, PTL DEF Spec

\* Devices with the same change sets hold the same reduced state, whatever the
\* order the lanes reached each of them in.
THEOREM Convergence == Spec => []SameHistorySameState
<1>1. ASSUME Basis PROVE SameHistorySameState
  <2> SUFFICES ASSUME NEW d \in Device, NEW e \in Device, applied[d] = applied[e]
               PROVE  reduced[d] = reduced[e]
    BY DEF SameHistorySameState
  <2>1. History(d) = History(e)
    BY DEF History
  <2>2. reduced[d] \in State /\ reduced[e] \in State /\ History(d) \subseteq ChangeSet
    BY <1>1, HistoryType DEF Basis, TypeOK
  <2>3. Describes(reduced[d], History(d)) /\ Describes(reduced[e], History(d))
    BY <1>1, <2>1 DEF Basis, StateIsHistory
  <2> QED BY <2>2, <2>3, DescribesUnique
<1> QED BY BasisAlways, <1>1, PTL

\* A name that its author had seen and replaced does not win over the new one:
\* the register holds the last rename of the order, and Causality puts the
\* replaced one before it.
THEOREM NameStays == Spec => []NoNameComesBack
<1>1. ASSUME Basis PROVE NoNameComesBack
  <2> SUFFICES ASSUME NEW d \in Device, Status(reduced[d]) = "live",
                      NEW i \in Applied(d), NEW j \in Applied(d),
                      Get(i).op = "rename", Get(i).inc = Current(reduced[d]),
                      Get(j).stamp = NameOf(reduced[d]), Knew(Get(i), j)
               PROVE  FALSE
    BY DEF NoNameComesBack
  <2>1. ASSUME NEW p \in Applied(d)
        PROVE  p[1] \in Device /\ p[2] \in 1 .. applied[d][p[1]] /\ Get(p) = journal[p[1]][p[2]]
    BY DEF Applied, Get
  <2>2. TypeOK /\ LanesStamped /\ CausalOrder
    BY <1>1 DEF Basis, CausalInv
  <2>3. /\ i[1] \in Device /\ i[2] \in 1 .. applied[d][i[1]] /\ i[2] \in 1 .. Len(journal[i[1]])
        /\ j[1] \in Device /\ j[2] \in 1 .. applied[d][j[1]] /\ j[2] \in 1 .. Len(journal[j[1]])
    BY <2>1, <2>2, AppliedType
  <2>4. Get(i) \in History(d) /\ Get(i) \in ChangeSet /\ Get(i).stamp \in Stamp
    BY <2>1, <2>2, <2>3, InHistory, JournalType, ChangeSetParts
  <2>5. Get(j) \in ChangeSet /\ Get(j).stamp \in Stamp
    BY <2>1, <2>2, <2>3, JournalType, ChangeSetParts
  <2>6. Before(Get(j).stamp, Get(i).stamp)
    <3>1. Get(i).seen[j[1]] \in Nat
      BY <2>3, <2>4, ChangeSetParts
    <3>2. j[2] \in 1 .. Get(i).seen[j[1]]
      BY <2>2, <2>3, <3>1, AppliedType DEF Knew
    <3> QED BY <2>1, <2>2, <2>3, <3>2 DEF CausalOrder
  <2>7. Current(reduced[d]) \in Incarnation
    BY CurrentLemma
  <2> DEFINE S == Renaming(History(d), Current(reduced[d]))
  <2>8. Get(i) \in S
    BY <2>4 DEF Renaming
  <2>9. NameIs(reduced[d].names[Current(reduced[d])], S)
    BY <1>1, <2>7 DEF Basis, StateIsHistory, Describes
  <2> HIDE DEF S
  <2>10. PICK g \in S : Latest(g, S) /\ reduced[d].names[Current(reduced[d])] = g.stamp
    BY <2>8, <2>9 DEF NameIs
  <2>11. g \in History(d)
    BY DEF S, Renaming
  <2>12. g.stamp # NoStamp /\ g.stamp \in Stamp
    <3>1. PICK w \in Device : \E n \in 1 .. applied[d][w] : g = journal[w][n]
      BY <2>11, InHistory
    <3>1a. PICK n \in 1 .. applied[d][w] : g = journal[w][n]
      BY <3>1
    <3>2. n \in 1 .. Len(journal[w])
      BY <2>2, AppliedType
    <3> QED BY <2>2, <3>1a, <3>2, StampsDiffer, JournalType, ChangeSetParts
  <2>13. NameOf(reduced[d]) = g.stamp
    BY <2>10, <2>12 DEF NameOf
  <2>14. Get(i).stamp = g.stamp \/ Before(Get(i).stamp, g.stamp)
    BY <2>8, <2>10 DEF Latest
  <2> QED BY <2>4, <2>5, <2>6, <2>12, <2>13, <2>14, BeforeAsymmetric, BeforeTransitive
<1> QED BY BasisAlways, <1>1, PTL

(* The lifecycle *)

LEMMA BeforeNone ==
  ASSUME NEW x \in Stamp, Before(x, NoStamp)
  PROVE  FALSE
  BY StampParts DEF Before, EarlierHlc, NoStamp

\* What a change set leaves alone, by its kind.
LEMMA ReduceKeeps ==
  ASSUME NEW r \in State, NEW e \in ChangeSet
  PROVE  LET s == Reduce(r, e)
         IN  /\ e.op \notin {"create", "restore"} => s.seeds = r.seeds
             /\ e.op # "trash" => s.trashes = r.trashes
             /\ e.op = "trash" => s.trashes = r.trashes \union {e.inc}
             /\ e.op # "rename" => s.names = r.names
             /\ e.op # "purge" => s.purged = r.purged
             /\ e.op = "purge" => s.purged
             /\ r.purged => s.purged
             /\ e.adds = {} => s.adds = r.adds
             /\ e.gone = {} => s.removed = r.removed
             /\ s.adds = r.adds \union Tags(e)
             /\ s.removed = r.removed \union e.gone
<1> DEFINE s == Reduce(r, e)
<1>1. e.op \notin {"create", "restore"} => s.seeds = r.seeds
  BY DEF Reduce
<1>2. /\ e.op # "trash" => s.trashes = r.trashes
      /\ e.op = "trash" => s.trashes = r.trashes \union {e.inc}
      /\ e.op # "rename" => s.names = r.names
  BY DEF Reduce
<1>3. /\ e.op # "purge" => s.purged = r.purged
      /\ e.op = "purge" => s.purged
      /\ r.purged => s.purged
  <2>1. r.purged \in BOOLEAN
    BY StateParts
  <2>2. s.purged = (r.purged \/ e.op = "purge")
    BY DEF Reduce
  <2> QED BY <2>1, <2>2
<1>4. s.adds = r.adds \union Tags(e) /\ s.removed = r.removed \union e.gone
  BY DEF Reduce
<1>5. e.adds = {} => Tags(e) = {}
  BY DEF Tags
<1> HIDE DEF s
<1>6. (e.adds = {} => s.adds = r.adds) /\ (e.gone = {} => s.removed = r.removed)
  BY <1>4, <1>5
<1> QED BY <1>1, <1>2, <1>3, <1>4, <1>6 DEF s

\* A seeded incarnation stays seeded.
LEMMA SeededStays ==
  ASSUME NEW r \in State, NEW e \in ChangeSet, NEW i \in Incarnation, Seeded(r, i)
  PROVE  Seeded(Reduce(r, e), i)
<1>1. r.seeds \in [Incarnation -> Seed] /\ r.seeds[i].by \in Stamp /\ r.seeds[i].by # NoStamp
  BY StateParts DEF Seed, Seeded
<1>2. CASE e.op \in {"create", "restore"} /\ e.inc = i /\ Wins(e.stamp, r.seeds[e.inc].by)
  <2>1. e.stamp # NoStamp
    BY <1>1, <1>2, BeforeNone DEF Wins
  <2>2. Reduce(r, e).seeds[i].by = e.stamp
    BY <1>1, <1>2, StateParts DEF Reduce
  <2> QED BY <2>1, <2>2 DEF Seeded
<1>3. CASE ~(e.op \in {"create", "restore"} /\ e.inc = i /\ Wins(e.stamp, r.seeds[e.inc].by))
  <2>1. Reduce(r, e).seeds[i] = r.seeds[i]
    BY <1>1, <1>3, ChangeSetParts DEF Reduce
  <2> QED BY <1>1, <2>1 DEF Seeded
<1> QED BY <1>2, <1>3

\* There is a first incarnation.
LEMMA ZeroIncarnation == 0 \in Incarnation
  BY MaxIncarnationAssumption DEF Incarnation

\* What each status means.
LEMMA StatusMeans ==
  ASSUME NEW r
  PROVE  /\ Status(r) = "live" <=> ~r.purged /\ Seeded(r, 0) /\ Current(r) \notin r.trashes
         /\ Status(r) = "trashed" <=> ~r.purged /\ Seeded(r, 0) /\ Current(r) \in r.trashes
         /\ Status(r) = "unresolved" <=> ~r.purged /\ ~Seeded(r, 0)
         /\ Status(r) = "purged" <=> r.purged
         /\ Status(r) \in {"live", "trashed", "unresolved", "purged"}
  BY DEF Status

\* The status and the live incarnation depend on seeds, trashes and purge only.
LEMMA SameStatus ==
  ASSUME NEW r, NEW s, r.seeds = s.seeds, r.trashes = s.trashes, r.purged = s.purged
  PROVE  Status(r) = Status(s) /\ Current(r) = Current(s)
<1>1. Current(r) = Current(s)
  BY SameCurrent
<1> QED BY <1>1 DEF Status, Seeded

\* Without a change of the effects, nothing that a row shows changes.
LEMMA SameEffects ==
  ASSUME NEW r, NEW s, Effects(r) = Effects(s)
  PROVE  /\ r.names = s.names /\ VisibleAdds(r) = VisibleAdds(s) /\ Status(r) = Status(s)
         /\ Status(r) \in {"live", "trashed"} =>
              Current(r) = Current(s) /\ r.seeds[Current(r)] = s.seeds[Current(s)]
<1> DEFINE x == Effects(r)
           y == Effects(s)
           life(z) == IF Status(z) \in {"live", "trashed"} THEN <<Current(z), z.seeds[Current(z)]>>
                                                           ELSE <<0, NoSeed>>
<1>1. x.names = r.names /\ x.tags = VisibleAdds(r) /\ x.status = Status(r) /\ x.life = life(r)
  BY DEF Effects
<1>2. y.names = s.names /\ y.tags = VisibleAdds(s) /\ y.status = Status(s) /\ y.life = life(s)
  BY DEF Effects
<1>3. x = y
  OBVIOUS
<1> HIDE DEF x, y
<1> QED BY <1>1, <1>2, <1>3

\* The parts of the state a written change set changes, at d and nowhere else.
LEMMA WritesRow ==
  ASSUME TypeOK, NEW d \in Device, NEW e, NEW x, Writes(d, e, x)
  PROVE  /\ LocalAccepted(Reduce(reduced[d], e), e)
         /\ reduced'[d] = Reduce(reduced[d], e) /\ row'[d] = x /\ prose'[d] = prose[d] \union e.text
         /\ \A c \in Device : c # d =>
              reduced'[c] = reduced[c] /\ row'[c] = row[c] /\ prose'[c] = prose[c]
         /\ ahead' = ahead
  BY DEF TypeOK, Writes, Author

\* The same of an applied one.
LEMMA ReceivesRow ==
  ASSUME TypeOK, NEW d \in Device, NEW w \in Device, NEW e \in ChangeSet, NEW rebuilds,
         Receives(d, w, e, rebuilds)
  PROVE  LET r == Reduce(reduced[d], e)
         IN  /\ reduced'[d] = r
             /\ row'[d] = IF rebuilds THEN Rebuilt(row[d], r) ELSE row[d]
             /\ prose'[d] = prose[d] \union TextTaken(r, e)
             /\ astray'[d] <=> astray[d] /\ ~(rebuilds /\ Status(r) = "live")
             /\ ahead'[d] <=> ahead[d] \/ \E v \in Device : applied[d][v] < e.seen[v]
             /\ \A c \in Device : c # d =>
                  /\ reduced'[c] = reduced[c] /\ row'[c] = row[c] /\ prose'[c] = prose[c]
                  /\ astray'[c] = astray[c] /\ ahead'[c] = ahead[c]
<1> DEFINE r == Reduce(reduced[d], e)
<1> HIDE DEF r
<1>1. reduced'[d] = r /\ (row'[d] = IF rebuilds THEN Rebuilt(row[d], r) ELSE row[d])
      /\ prose'[d] = prose[d] \union TextTaken(r, e)
  BY DEF TypeOK, Receives, r
<1>2. (astray'[d] <=> astray[d] /\ ~(rebuilds /\ Status(r) = "live"))
  BY DEF TypeOK, Receives, r
<1>3. (ahead'[d] <=> ahead[d] \/ \E v \in Device : applied[d][v] < e.seen[v])
  BY DEF TypeOK, Receives
<1>4. \A c \in Device : c # d =>
        /\ reduced'[c] = reduced[c] /\ row'[c] = row[c] /\ prose'[c] = prose[c]
        /\ astray'[c] = astray[c] /\ ahead'[c] = ahead[c]
  BY DEF TypeOK, Receives
<1> QED BY <1>1, <1>2, <1>3, <1>4 DEF r

\* What RowsFollowLifecycle says of one device.
LifeFits(r, x, a) ==
  /\ ~a => (x.state = "live" <=> Status(r) = "live")
  /\ Status(r) \in {"purged", "unresolved"} => x = NoRow

\* The property, one device at a time.
LEMMA LifeOfRow ==
  RowsFollowLifecycle <=> \A d \in Device : LifeFits(reduced[d], row[d], astray[d])
  BY DEF RowsFollowLifecycle, LifeFits

\* Of an authored operation on a live element: the status stays live where the
\* kernel accepts the change set only then.
LEMMA AuthoredLife ==
  ASSUME TypeOK, NEW d \in Device, LifeFits(reduced[d], row[d], astray[d]),
         \/ CreateElement(d) \/ RenameElement(d) \/ ReplaceAliases(d) \/ WriteProse(d)
         \/ TrashElement(d) \/ RestoreElement(d) \/ PurgeElement(d)
  PROVE  /\ LifeFits(reduced'[d], row'[d], astray'[d])
         /\ \A c \in Device : c # d =>
              reduced'[c] = reduced[c] /\ row'[c] = row[c] /\ astray'[c] = astray[c]
<1> DEFINE r == reduced[d]
<1>1. r \in State /\ row[d] \in Row /\ astray \in [Device -> BOOLEAN]
  BY DEF TypeOK
<1>2. ASSUME NEW e, NEW x, Writes(d, e, x), x.state = "live",
             e.op = "rename" \/ e.adds # {} \/ e.gone # {} \/ e.text # {}
      PROVE  \A a : LifeFits(reduced'[d], row'[d], a)
  BY <1>2, WritesRow DEF LocalAccepted, LiveAt, LifeFits
<1>3. CASE CreateElement(d)
  <2>1. PICK e, x : Writes(d, e, x) /\ x.state = "live" /\ e.text = {e.stamp} /\ UNCHANGED astray
    BY <1>3, CreateWrites
  <2> QED BY <1>2, <2>1, WritesRow
<1>4. CASE RenameElement(d)
  <2>1. PICK e, x : /\ Writes(d, e, x) /\ e.op = "rename" /\ Editable(d)
                    /\ x = [row[d] EXCEPT !.name = e.stamp]
                    /\ astray' = [astray EXCEPT ![d] = FALSE]
    BY <1>4, RenameWrites
  <2>2. x.state = "live"
    BY <1>1, <2>1 DEF Editable, Row
  <2> QED BY <1>1, <1>2, <2>1, <2>2, WritesRow
<1>5. CASE ReplaceAliases(d)
  <2>1. PICK e, x : /\ Writes(d, e, x) /\ Editable(d)
                    /\ e.adds # {} \/ e.gone # {}
                    /\ x.state = row[d].state
                    /\ astray' = [astray EXCEPT ![d] = @ \/ shown[d] # row[d].name]
    BY <1>5, ReplaceWrites
  <2> QED BY <1>1, <1>2, <2>1, WritesRow DEF Editable
<1>6. CASE WriteProse(d)
  <2>1. PICK e : Writes(d, e, row[d]) /\ e.text = {e.stamp} /\ Editable(d) /\ UNCHANGED <<shown, astray>>
    BY <1>6, ProseWrites
  <2> QED BY <1>2, <2>1, WritesRow DEF Editable
<1>7. CASE TrashElement(d)
  <2>1. PICK e, x : /\ Writes(d, e, x) /\ e.op = "trash" /\ Editable(d)
                    /\ x = [row[d] EXCEPT !.state = "trashed"]
                    /\ astray' = [astray EXCEPT ![d] = @ \/ Status(Reduce(reduced[d], e)) = "live"]
    BY <1>7, TrashWrites
  <2>2. e \in ChangeSet /\ x.state = "trashed"
    BY <1>1, <2>1 DEF Writes, Row
  <2>3. astray'[d] <=> astray[d] \/ Status(Reduce(r, e)) = "live"
    BY <1>1, <2>1
  <2>4. Status(Reduce(r, e)) \notin {"purged", "unresolved"}
    <3>1. Seeded(r, 0) /\ ~r.purged
      BY <2>1, StatusMeans DEF Editable
    <3>2. Reduce(r, e).purged = r.purged
      BY <1>1, <2>1, <2>2, ReduceKeeps
    <3> QED BY <1>1, <2>2, <3>1, <3>2, SeededStays, ZeroIncarnation, StatusMeans
  <2>5. reduced'[d] = Reduce(r, e) /\ row'[d] = x
        /\ \A c \in Device : c # d => reduced'[c] = reduced[c] /\ row'[c] = row[c]
    BY <2>1, WritesRow
  <2>6. \A c \in Device : c # d => astray'[c] = astray[c]
    BY <1>1, <2>1
  <2>7. LifeFits(reduced'[d], row'[d], astray'[d])
    BY <2>2, <2>3, <2>4, <2>5 DEF LifeFits
  <2> QED BY <2>5, <2>6, <2>7
<1>8. CASE RestoreElement(d)
  <2>1. PICK e, x : /\ Writes(d, e, x) /\ e.text = prose[d] \union {e.stamp}
                    /\ x = [row[d] EXCEPT !.state = "live"]
                    /\ astray' = [astray EXCEPT ![d] = reduced[d].names[e.inc] # NoStamp]
    BY <1>8, RestoreWrites
  <2>2. x.state = "live"
    BY <1>1, <2>1 DEF Row
  <2> QED BY <1>1, <1>2, <2>1, <2>2, WritesRow
<1>9. CASE PurgeElement(d)
  <2>1. PICK e : Writes(d, e, NoRow) /\ e.op = "purge" /\ UNCHANGED <<shown, astray>>
    BY <1>9, PurgeWrites
  <2>2. Reduce(r, e).purged
    BY <1>1, <2>1, ReduceKeeps DEF Writes
  <2>3. Status(Reduce(r, e)) = "purged"
    BY <2>2, StatusMeans
  <2>4. NoRow.state = "none"
    BY DEF NoRow
  <2> QED BY <2>1, <2>3, <2>4, WritesRow DEF LifeFits
<1> QED BY <1>3, <1>4, <1>5, <1>6, <1>7, <1>8, <1>9

\* A received change set keeps the row at its place in the lifecycle.
LEMMA ReceivedLife ==
  ASSUME TypeOK, NEW d \in Device, NEW w \in Device, NEW e \in ChangeSet, NEW rebuilds,
         Receives(d, w, e, rebuilds), LifeFits(reduced[d], row[d], astray[d])
  PROVE  LifeFits(reduced'[d], row'[d], astray'[d])
<1> DEFINE r == Reduce(reduced[d], e)
<1>1. reduced[d] \in State /\ row[d] \in Row /\ row[d].state \in {"none", "live", "trashed"}
  BY RowParts DEF TypeOK
<1>2. /\ reduced'[d] = r
      /\ row'[d] = IF rebuilds THEN Rebuilt(row[d], r) ELSE row[d]
      /\ astray'[d] <=> astray[d] /\ ~(rebuilds /\ Status(r) = "live")
  BY ReceivesRow
<1>3. rebuilds \in BOOLEAN /\ (Effects(r) # Effects(reduced[d]) => rebuilds)
  BY DEF Receives
<1>4. CASE ~rebuilds
  <2>1. Status(r) = Status(reduced[d])
    BY <1>3, <1>4, SameEffects
  <2> HIDE DEF r
  <2> QED BY <1>2, <1>4, <2>1 DEF LifeFits
<1>5. CASE rebuilds
  <2> DEFINE x == Rebuilt(row[d], r)
  <2>1. Status(r) = "live" => x.state = "live"
    BY DEF Rebuilt
  <2>2. Status(r) = "trashed" => x.state # "live"
    BY <1>1 DEF Rebuilt, Row
  <2>3. Status(r) = "purged" => x = NoRow /\ x.state = "none"
    BY DEF Rebuilt, NoRow
  <2>4. Status(r) = "unresolved" => x = NoRow /\ x.state = "none"
    <3>1. ASSUME Status(r) = "unresolved" PROVE Status(reduced[d]) = "unresolved"
      <4>1. ~r.purged /\ ~Seeded(r, 0)
        BY <3>1, StatusMeans
      <4>2. ~Seeded(reduced[d], 0)
        BY <1>1, <4>1, SeededStays, ZeroIncarnation
      <4>3. ~reduced[d].purged
        BY <1>1, <4>1, ReduceKeeps
      <4> QED BY <4>2, <4>3, StatusMeans
    <3>2. ASSUME Status(r) = "unresolved" PROVE x = row[d]
      BY <3>2 DEF Rebuilt
    <3>3. NoRow.state = "none"
      BY DEF NoRow
    <3> QED BY <3>1, <3>2, <3>3 DEF LifeFits
  <2>5. Status(r) \in {"live", "trashed", "unresolved", "purged"}
    BY StatusMeans
  <2> HIDE DEF x, r
  <2>6. row'[d] = x /\ reduced'[d] = r
    BY <1>2, <1>5 DEF x
  <2> QED BY <2>1, <2>2, <2>3, <2>4, <2>5, <2>6 DEF LifeFits
<1> QED BY <1>3, <1>4, <1>5

\* So does every step.
LEMMA LifeStep ==
  ASSUME TypeOK, RowsFollowLifecycle, [Next]_vars
  PROVE  RowsFollowLifecycle'
<1>1. \A d \in Device : LifeFits(reduced[d], row[d], astray[d])
  BY LifeOfRow
<1> SUFFICES \A d \in Device : LifeFits(reduced'[d], row'[d], astray'[d])
  BY DEF RowsFollowLifecycle, LifeFits
<1>2. CASE UNCHANGED vars \/ \E d \in Device : Refresh(d)
  BY <1>1, <1>2 DEF vars, Refresh
<1>3. CASE \E d, w \in Device : ApplyRemote(d, w)
  <2>1. PICK d \in Device, w \in Device, e \in ChangeSet, rebuilds \in BOOLEAN : Receives(d, w, e, rebuilds)
    BY <1>3, ApplyReceives
  <2>2. \A c \in Device : c # d =>
          reduced'[c] = reduced[c] /\ row'[c] = row[c] /\ astray'[c] = astray[c]
    BY <2>1, ReceivesRow
  <2>3. LifeFits(reduced'[d], row'[d], astray'[d])
    BY <1>1, <2>1, ReceivedLife
  <2> QED BY <1>1, <2>2, <2>3
<1>4. ASSUME NEW d \in Device,
             \/ CreateElement(d) \/ RenameElement(d) \/ ReplaceAliases(d) \/ WriteProse(d)
             \/ TrashElement(d) \/ RestoreElement(d) \/ PurgeElement(d)
      PROVE  \A c \in Device : LifeFits(reduced'[c], row'[c], astray'[c])
  <2>1. LifeFits(reduced[d], row[d], astray[d])
    BY <1>1
  <2>2. /\ LifeFits(reduced'[d], row'[d], astray'[d])
        /\ \A c \in Device : c # d =>
             reduced'[c] = reduced[c] /\ row'[c] = row[c] /\ astray'[c] = astray[c]
    BY <1>4, <2>1, AuthoredLife
  <2> QED BY <1>1, <2>2
<1> QED BY <1>2, <1>3, <1>4 DEF Next

\* It holds at first.
LEMMA LifeInit == Init => RowsFollowLifecycle
<1> SUFFICES ASSUME Init, NEW d \in Device PROVE LifeFits(reduced[d], row[d], astray[d])
  BY LifeOfRow
<1>1. reduced[d] = InitState /\ row[d] = NoRow
  BY DEF Init
<1>2. ~InitState.purged /\ ~Seeded(InitState, 0)
  BY ZeroIncarnation DEF InitState, Seeded, NoSeed
<1>3. Status(InitState) = "unresolved"
  BY <1>2, StatusMeans
<1>4. NoRow.state = "none"
  BY DEF NoRow
<1> QED BY <1>1, <1>3, <1>4 DEF LifeFits

\* A row is live where the reduced state is, gone where that is purged, and
\* absent before the create, whatever the order of arrival: a purge decides
\* alone, and what was seeded stays seeded.
THEOREM LifecycleShown == Spec => []RowsFollowLifecycle
<1>1. TypeOK /\ RowsFollowLifecycle /\ [Next]_vars => (TypeOK /\ RowsFollowLifecycle)'
  BY TypeStep, LifeStep
<1> QED BY TypeInit, LifeInit, <1>1, PTL DEF Spec

(* What an author knew *)

\* The change sets the author of e had applied, of the lanes J.
Past(J, e) == UNION {{J[v][k] : k \in 1 .. e.seen[v]} : v \in Device}

\* Whoever wrote anything but the create knew the create, whoever purged or
\* wrote to a later incarnation knew a trash, and a restore opens a later one.
Known(e, past) ==
  /\ e.op # "create" => \E f \in past : f.op = "create" /\ f.inc = 0
  /\ e.op = "purge" \/ e.inc > 0 => \E f \in past : f.op = "trash"
  /\ e.op = "restore" => e.inc > 0

\* Every writer knew the create, and the trash, that its change set presupposes.
CausesKnown ==
  \A w \in Device : \A n \in 1 .. Len(journal[w]) :
    Known(journal[w][n], Past(journal, journal[w][n]))

\* A row is trashed only where a trash of the element has been applied: the
\* device may hold the restore that answers it, and the element be live.
TrashesKnown ==
  \A d \in Device : row[d].state = "trashed" => reduced[d].trashes # {}

\* Membership in what the author of a change set had applied.
LEMMA InPast ==
  ASSUME NEW e, NEW f
  PROVE  f \in Past(journal, e) <=> \E v \in Device : \E k \in 1 .. e.seen[v] : f = journal[v][k]
  BY DEF Past

\* Everything in a history has a stamp.
LEMMA HistoryStamps ==
  ASSUME TypeOK, LanesStamped, NEW d \in Device, NEW f \in History(d)
  PROVE  f.stamp # NoStamp /\ f \in ChangeSet
<1>1. PICK w \in Device : \E n \in 1 .. applied[d][w] : f = journal[w][n]
  BY InHistory
<1>2. PICK n \in 1 .. applied[d][w] : f = journal[w][n]
  BY <1>1
<1>3. n \in 1 .. Len(journal[w])
  BY AppliedType
<1> QED BY <1>2, <1>3, StampsDiffer, JournalType

\* An incarnation is seeded when some change set of the history seeds it.
LEMMA SeededBy ==
  ASSUME NEW r, NEW H, \A f \in H : f.stamp # NoStamp, Describes(r, H), NEW i \in Incarnation
  PROVE  Seeded(r, i) <=> \E f \in H : f.op \in {"create", "restore"} /\ f.inc = i
<1> DEFINE S == Seeding(H, i)
<1>1. SeedIs(r.seeds[i], S)
  BY DEF Describes
<1>2. S \subseteq H
  BY DEF Seeding
<1>3. S # {} <=> \E f \in H : f.op \in {"create", "restore"} /\ f.inc = i
  BY DEF Seeding
<1>4. CASE S = {}
  BY <1>1, <1>3, <1>4 DEF SeedIs, NoSeed, Seeded
<1>5. CASE S # {}
  <2> HIDE DEF S
  <2>1. PICK g \in S : r.seeds[i] = [by |-> g.stamp, name |-> g.name]
    BY <1>1, <1>5 DEF SeedIs
  <2> QED BY <1>2, <1>3, <1>5, <2>1 DEF Seeded
<1> QED BY <1>4, <1>5

\* A step to a later incarnation is taken over a trash.
LEMMA LaterTrashed ==
  ASSUME NEW r, Current(r) > 0
  PROVE  0 \in r.trashes
  BY CurrentLemma, ZeroIncarnation DEF WalksOn

\* The live incarnation is a number.
LEMMA CurrentNat ==
  ASSUME NEW r
  PROVE  Current(r) \in Nat
  BY CurrentLemma, MaxIncarnationAssumption DEF Incarnation

\* What the state of the author was when it wrote.
LEMMA AuthorState ==
  ASSUME TypeOK, NEW d \in Device,
         \/ CreateElement(d) \/ RenameElement(d) \/ ReplaceAliases(d) \/ WriteProse(d)
         \/ TrashElement(d) \/ RestoreElement(d) \/ PurgeElement(d)
  PROVE  \E e, x :
           /\ Writes(d, e, x)
           /\ e.op # "create" => Status(reduced[d]) \in {"live", "trashed"}
           /\ e.op = "purge" => row[d].state = "trashed"
           /\ \/ e.op # "restore" /\ e.inc = Current(reduced[d])
              \/ e.inc = Current(reduced[d]) + 1 /\ Status(reduced[d]) = "trashed"
<1>1. CASE CreateElement(d)
  BY <1>1, CreateWrites
<1>2. CASE RenameElement(d)
  BY <1>2, RenameWrites DEF Editable
<1>3. CASE ReplaceAliases(d)
  BY <1>3, ReplaceWrites DEF Editable
<1>4. CASE WriteProse(d)
  BY <1>4, ProseWrites DEF Editable
<1>5. CASE TrashElement(d)
  BY <1>5, TrashWrites DEF Editable
<1>6. CASE RestoreElement(d)
  BY <1>6, RestoreWrites
<1>7. CASE PurgeElement(d)
  BY <1>7, PurgeWrites
<1> QED BY <1>1, <1>2, <1>3, <1>4, <1>5, <1>6, <1>7

\* Lanes only grow, so the past of what is written stays as it was.
LEMMA PastStays ==
  ASSUME TypeOK, LanesStamped,
         \A v \in Device : \A k \in 1 .. Len(journal[v]) : journal'[v][k] = journal[v][k],
         NEW w \in Device, NEW n \in 1 .. Len(journal[w])
  PROVE  Past(journal', journal[w][n]) = Past(journal, journal[w][n])
<1>1. \A v \in Device : journal[w][n].seen[v] \in Nat /\ journal[w][n].seen[v] <= Len(journal[v])
  BY JournalType, ChangeSetParts DEF LanesStamped
<1>2. \A v \in Device : \A k \in 1 .. journal[w][n].seen[v] : k \in 1 .. Len(journal[v])
  BY <1>1, AppliedType
<1> QED BY <1>2 DEF Past

\* The past of what d writes is what d has applied.
LEMMA PastOfWritten ==
  ASSUME TypeOK, NEW d \in Device, NEW e, NEW x, Writes(d, e, x)
  PROVE  Past(journal', e) = History(d)
<1>1. /\ e.seen = applied[d]
      /\ \A w \in Device : \A n \in 1 .. Len(journal[w]) : journal'[w][n] = journal[w][n]
  BY WritesParts
<1>2. \A v \in Device : \A k \in 1 .. applied[d][v] : journal'[v][k] = journal[v][k]
  BY <1>1, AppliedType
<1>3. ASSUME NEW f
      PROVE  f \in Past(journal', e) <=> \E v \in Device : \E k \in 1 .. e.seen[v] : f = journal'[v][k]
  BY DEF Past
<1>4. ASSUME NEW f PROVE f \in Past(journal', e) <=> f \in History(d)
  <2>1. f \in Past(journal', e) <=> \E v \in Device : \E k \in 1 .. applied[d][v] : f = journal'[v][k]
    BY <1>1, <1>3
  <2> QED BY <1>2, <2>1, InHistory
<1> QED BY <1>4

\* Every step keeps this: what is allowed depends on what is known.
LEMMA CausesKnownStep ==
  ASSUME Basis, TrashesKnown, CausesKnown, [Next]_vars
  PROVE  CausesKnown'
<1>1. TypeOK /\ LanesStamped /\ StateIsHistory
  BY DEF Basis, CausalInv
<1>2. ASSUME journal' = journal PROVE CausesKnown'
  BY <1>2 DEF CausesKnown
<1>3. ASSUME NEW d \in Device,
             \/ CreateElement(d) \/ RenameElement(d) \/ ReplaceAliases(d) \/ WriteProse(d)
             \/ TrashElement(d) \/ RestoreElement(d) \/ PurgeElement(d)
      PROVE  CausesKnown'
  <2> DEFINE r == reduced[d]
             H == History(d)
  <2>1. PICK e, x :
           /\ Writes(d, e, x)
           /\ e.op # "create" => Status(r) \in {"live", "trashed"}
           /\ e.op = "purge" => row[d].state = "trashed"
           /\ \/ e.op # "restore" /\ e.inc = Current(r)
              \/ e.inc = Current(r) + 1 /\ Status(r) = "trashed"
    BY <1>1, <1>3, AuthorState
  <2>2. /\ e \in ChangeSet /\ e.seen = applied[d]
        /\ Len(journal'[d]) = Len(journal[d]) + 1 /\ journal'[d][Len(journal[d]) + 1] = e
        /\ \A w \in Device : w # d => Len(journal'[w]) = Len(journal[w])
        /\ \A w \in Device : \A n \in 1 .. Len(journal[w]) : journal'[w][n] = journal[w][n]
    BY <1>1, <2>1, WritesParts
  <2>3. Past(journal', e) = H
    BY <1>1, <2>1, PastOfWritten
  <2>4. Describes(r, H) /\ \A f \in H : f.stamp # NoStamp /\ f \in ChangeSet
    BY <1>1, HistoryStamps DEF StateIsHistory
  <2>5. \A f \in H : f.op = "restore" => f.inc > 0
    <3>1. ASSUME NEW w \in Device, NEW n \in 1 .. applied[d][w], journal[w][n].op = "restore"
          PROVE  journal[w][n].inc > 0
      <4>1. n \in 1 .. Len(journal[w])
        BY <1>1, AppliedType
      <4> QED BY <3>1, <4>1 DEF CausesKnown, Known
    <3> QED BY <3>1, InHistory
  <2> HIDE DEF H
  <2>6. ASSUME Seeded(r, 0) PROVE \E f \in H : f.op = "create" /\ f.inc = 0
    BY <2>4, <2>5, <2>6, SeededBy, ZeroIncarnation
  <2>7. ASSUME NEW i, i \in r.trashes PROVE \E f \in H : f.op = "trash"
    BY <2>4, <2>7 DEF Describes
  <2>8. e.op # "create" => \E f \in H : f.op = "create" /\ f.inc = 0
    BY <2>1, <2>6, StatusMeans
  <2>9. e.op = "purge" \/ e.inc > 0 => \E f \in H : f.op = "trash"
    <3>1. Status(r) = "trashed" => Current(r) \in r.trashes
      BY StatusMeans
    <3>2. e.op = "purge" => r.trashes # {}
      BY <2>1 DEF TrashesKnown
    <3> QED BY <2>1, <2>7, <3>1, <3>2, LaterTrashed, CurrentNat
  <2>10. e.op = "restore" => e.inc > 0
    BY <2>1, CurrentNat
  <2>11. \A w \in Device : \A n \in 1 .. Len(journal'[w]) :
           n \in 1 .. Len(journal[w]) \/ (w = d /\ n = Len(journal[d]) + 1)
    BY <1>1, <2>2, AppliedType
  <2> SUFFICES ASSUME NEW w \in Device, NEW n \in 1 .. Len(journal'[w])
               PROVE  Known(journal'[w][n], Past(journal', journal'[w][n]))
    BY DEF CausesKnown
  <2>12. CASE n \in 1 .. Len(journal[w])
    <3>1. journal'[w][n] = journal[w][n] /\ Past(journal', journal[w][n]) = Past(journal, journal[w][n])
      BY <1>1, <2>2, <2>12, PastStays
    <3>2. Known(journal[w][n], Past(journal, journal[w][n]))
      BY <2>12 DEF CausesKnown
    <3> QED BY <3>1, <3>2
  <2>13. CASE w = d /\ n = Len(journal[d]) + 1
    <3>1. Known(e, H)
      BY <2>8, <2>9, <2>10 DEF Known
    <3> QED BY <2>2, <2>3, <2>13, <3>1
  <2> QED BY <2>11, <2>12, <2>13
<1>4. CASE \E d, w \in Device : ApplyRemote(d, w)
  BY <1>2, <1>4 DEF ApplyRemote
<1>5. CASE UNCHANGED vars \/ \E d \in Device : Refresh(d)
  BY <1>2, <1>5 DEF vars, Refresh
<1> QED BY <1>3, <1>4, <1>5 DEF Next

\* Whatever makes a row trashed is, or follows, a trash that is applied.
LEMMA TrashesKnownStep ==
  ASSUME Basis, TrashesKnown, [Next]_vars
  PROVE  TrashesKnown'
<1>1. TypeOK
  BY DEF Basis
<1>2. ASSUME NEW r \in State, NEW e \in ChangeSet
      PROVE  /\ r.trashes \subseteq Reduce(r, e).trashes
             /\ e.op = "trash" => Reduce(r, e).trashes # {}
  BY <1>2, ReduceKeeps
<1>3. ASSUME NEW d \in Device, NEW e, NEW x, Writes(d, e, x),
             e.op = "trash" \/ x.state # "trashed" \/ x.state = row[d].state
      PROVE  TrashesKnown'
  <2>1. e \in ChangeSet /\ reduced[d] \in State
    BY <1>1, <1>3 DEF Writes, TypeOK
  <2>2. x.state = "trashed" => Reduce(reduced[d], e).trashes # {}
    BY <1>2, <1>3, <2>1 DEF TrashesKnown
  <2>3. /\ reduced'[d] = Reduce(reduced[d], e) /\ row'[d] = x
        /\ \A c \in Device : c # d => reduced'[c] = reduced[c] /\ row'[c] = row[c]
    BY <1>1, <1>3, WritesRow
  <2> QED BY <2>2, <2>3 DEF TrashesKnown
<1>4. ASSUME NEW d \in Device,
             \/ CreateElement(d) \/ RenameElement(d) \/ ReplaceAliases(d) \/ WriteProse(d)
             \/ TrashElement(d) \/ RestoreElement(d) \/ PurgeElement(d)
      PROVE  TrashesKnown'
  <2>1. row[d] \in Row
    BY <1>1 DEF TypeOK
  <2>2. CASE CreateElement(d)
    BY <1>1, <1>3, <2>2, CreateWrites
  <2>3. CASE RenameElement(d)
    <3>1. PICK e, x : Writes(d, e, x) /\ x = [row[d] EXCEPT !.name = e.stamp]
      BY <1>1, <2>3, RenameWrites
    <3>2. x.state = row[d].state
      BY <2>1, <3>1 DEF Row
    <3> QED BY <1>3, <3>1, <3>2
  <2>4. CASE ReplaceAliases(d)
    BY <1>1, <1>3, <2>4, ReplaceWrites
  <2>5. CASE WriteProse(d)
    BY <1>1, <1>3, <2>5, ProseWrites
  <2>6. CASE TrashElement(d)
    BY <1>1, <1>3, <2>6, TrashWrites
  <2>7. CASE RestoreElement(d)
    <3>1. PICK e, x : Writes(d, e, x) /\ x = [row[d] EXCEPT !.state = "live"]
      BY <1>1, <2>7, RestoreWrites
    <3>2. x.state = "live"
      BY <2>1, <3>1 DEF Row
    <3> QED BY <1>3, <3>1, <3>2
  <2>8. CASE PurgeElement(d)
    <3>1. PICK e : Writes(d, e, NoRow)
      BY <1>1, <2>8, PurgeWrites
    <3>2. NoRow.state # "trashed"
      BY DEF NoRow
    <3> QED BY <1>3, <3>1, <3>2
  <2> QED BY <1>4, <2>2, <2>3, <2>4, <2>5, <2>6, <2>7, <2>8
<1>5. CASE \E d, w \in Device : ApplyRemote(d, w)
  <2>1. PICK d \in Device, w \in Device, e \in ChangeSet, rebuilds \in BOOLEAN :
               Receives(d, w, e, rebuilds)
    BY <1>1, <1>5, ApplyReceives
  <2> DEFINE r == Reduce(reduced[d], e)
             x == Rebuilt(row[d], r)
  <2>2. /\ reduced'[d] = r /\ row'[d] = IF rebuilds THEN x ELSE row[d]
        /\ \A c \in Device : c # d => reduced'[c] = reduced[c] /\ row'[c] = row[c]
    BY <1>1, <2>1, ReceivesRow
  <2>3. row[d].state = "trashed" => r.trashes # {}
    BY <1>1, <1>2 DEF TrashesKnown, TypeOK
  <2>4. x.state = "trashed" => Status(r) = "trashed" \/ row[d].state = "trashed"
    BY DEF Rebuilt, NoRow
  <2>5. Status(r) = "trashed" => r.trashes # {}
    BY StatusMeans
  <2> HIDE DEF r, x
  <2> QED BY <2>2, <2>3, <2>4, <2>5 DEF TrashesKnown
<1>6. CASE UNCHANGED vars \/ \E d \in Device : Refresh(d)
  BY <1>6 DEF vars, Refresh, TrashesKnown
<1> QED BY <1>4, <1>5, <1>6 DEF Next

\* It holds at first.
LEMMA TrashesKnownInit == Init => TrashesKnown
  BY DEF Init, NoRow, TrashesKnown

\* It holds at first.
LEMMA CausesKnownInit == Init => CausesKnown
<1> SUFFICES ASSUME Init PROVE CausesKnown
  OBVIOUS
<1>1. \A w \in Device : Len(journal[w]) = 0
  BY DEF Init
<1> QED BY <1>1 DEF CausesKnown

\* And so always.
LEMMA CausesAlways == Spec => [](Basis /\ CausesKnown)
<1>1. Init => Basis /\ TrashesKnown /\ CausesKnown
  BY TypeInit, CausalInit, HistoryInit, TrashesKnownInit, CausesKnownInit DEF Basis
<1>2. Basis /\ TrashesKnown /\ CausesKnown /\ [Next]_vars
      => (Basis /\ TrashesKnown /\ CausesKnown)'
  BY BasisStep, TrashesKnownStep, CausesKnownStep
<1> QED BY <1>1, <1>2, PTL DEF Spec

(* The prose *)

TextOf(H) == UNION {f.text : f \in H}

\* Unless d took something before its causes, it holds the causes of all it
\* has applied, and the whole text of them while nothing was trashed.
ProseIsHistory ==
  \A d \in Device : ~ahead[d] =>
    /\ \A f \in History(d) : Past(journal, f) \subseteq History(d)
    /\ reduced[d].trashes = {} => prose[d] = TextOf(History(d))

\* The text of one change set more.
LEMMA TextOfMore ==
  ASSUME NEW H, NEW e
  PROVE  TextOf(H \union {e}) = TextOf(H) \union e.text
  BY DEF TextOf

\* Of what is in the history of a device, the past stays as it was.
LEMMA HistoryPastStays ==
  ASSUME TypeOK, LanesStamped, NEW d \in Device, NEW f \in History(d),
         \A v \in Device : \A k \in 1 .. Len(journal[v]) : journal'[v][k] = journal[v][k]
  PROVE  Past(journal', f) = Past(journal, f)
<1>1. PICK w \in Device : \E n \in 1 .. applied[d][w] : f = journal[w][n]
  BY InHistory
<1>2. PICK n \in 1 .. applied[d][w] : f = journal[w][n]
  BY <1>1
<1>3. n \in 1 .. Len(journal[w])
  BY AppliedType
<1> QED BY <1>2, <1>3, PastStays

\* A change set that comes after its causes, while nothing was trashed, finds
\* the element live in the incarnation it writes to.
LEMMA TakenInOrder ==
  ASSUME NEW r \in State, NEW H, \A f \in H : f.stamp # NoStamp, Describes(r, H), r.trashes = {},
         NEW e \in H, NEW past, past \subseteq H, Known(e, past), e.inc \in Incarnation,
         \A f \in H : f.op # "purge" \/ \E g \in H : g.op = "trash"
  PROVE  LiveAt(r, e.inc)
<1>1. \A f \in H : f.op # "trash"
  BY DEF Describes
<1>2. ~r.purged
  BY <1>1 DEF Describes
<1>3. ~(e.inc > 0)
  BY <1>1 DEF Known
<1>4. e.inc = 0
  BY <1>3, MaxIncarnationAssumption DEF Incarnation
<1>5. \E f \in H : f.op \in {"create", "restore"} /\ f.inc = 0
  BY <1>4 DEF Known
<1>6. Seeded(r, 0)
  BY <1>5, SeededBy, ZeroIncarnation
<1>7. Current(r) = 0
  BY LaterTrashed, CurrentNat
<1> QED BY <1>2, <1>4, <1>6, <1>7, StatusMeans DEF LiveAt

\* Whatever a device has applied, its writer knew the causes of it.
LEMMA HistoryKnown ==
  ASSUME TypeOK, CausesKnown, NEW d \in Device, NEW f \in History(d)
  PROVE  Known(f, Past(journal, f))
<1>1. PICK w \in Device : \E n \in 1 .. applied[d][w] : f = journal[w][n]
  BY InHistory
<1>2. PICK n \in 1 .. applied[d][w] : f = journal[w][n]
  BY <1>1
<1>3. n \in 1 .. Len(journal[w])
  BY AppliedType
<1> QED BY <1>2, <1>3 DEF CausesKnown

\* An edit extends the text its author holds.
LEMMA WritesProse ==
  ASSUME Basis, CausesKnown, ProseIsHistory, NEW d \in Device, NEW e, NEW x, Writes(d, e, x)
  PROVE  ProseIsHistory'
<1>1. TypeOK /\ LanesStamped /\ StateIsHistory
  BY DEF Basis, CausalInv
<1>2. /\ e \in ChangeSet /\ e.seen = applied[d]
      /\ \A w \in Device : \A n \in 1 .. Len(journal[w]) : journal'[w][n] = journal[w][n]
  BY <1>1, WritesParts
<1>3. /\ History(d)' = History(d) \union {e}
      /\ \A c \in Device : c # d => History(c)' = History(c)
  BY <1>1, WritesHistory
<1>4. /\ reduced'[d] = Reduce(reduced[d], e) /\ prose'[d] = prose[d] \union e.text
      /\ \A c \in Device : c # d => reduced'[c] = reduced[c] /\ prose'[c] = prose[c]
      /\ ahead' = ahead
  BY <1>1, WritesRow
<1>5. Past(journal', e) = History(d)
  BY <1>1, PastOfWritten
<1> SUFFICES ASSUME NEW c \in Device, ~ahead[c]
             PROVE  /\ \A f \in History(c)' : Past(journal', f) \subseteq History(c)'
                    /\ reduced'[c].trashes = {} => prose'[c] = TextOf(History(c)')
  BY <1>4 DEF ProseIsHistory
<1>6. /\ \A f \in History(c) : Past(journal', f) \subseteq History(c)
      /\ reduced[c].trashes = {} => prose[c] = TextOf(History(c))
  BY <1>1, <1>2, HistoryPastStays DEF ProseIsHistory
<1>7. CASE c # d
  BY <1>3, <1>4, <1>6, <1>7
<1>8. CASE c = d
  <2>1. \A f \in History(d)' : Past(journal', f) \subseteq History(d)'
    BY <1>3, <1>5, <1>6, <1>8
  <2>2. reduced'[d].trashes = {} => reduced[d].trashes = {}
    <3>1. reduced[d] \in State
      BY <1>1 DEF TypeOK
    <3>2. Reduce(reduced[d], e).trashes = {} => reduced[d].trashes = {}
      BY <1>2, <3>1, ReduceKeeps
    <3> QED BY <1>4, <3>2
  <2>3. TextOf(History(d) \union {e}) = TextOf(History(d)) \union e.text
    BY TextOfMore
  <2>4. reduced'[d].trashes = {} => prose'[d] = TextOf(History(d)')
    BY <1>3, <1>4, <1>6, <1>8, <2>2, <2>3
  <2> QED BY <1>8, <2>1, <2>4
<1> QED BY <1>7, <1>8

\* A received change set extends the text of a device that holds its causes.
LEMMA ReceivesProse ==
  ASSUME Basis, CausesKnown, ProseIsHistory, NEW d \in Device, NEW w \in Device,
         NEW e \in ChangeSet, NEW rebuilds, Receives(d, w, e, rebuilds)
  PROVE  ProseIsHistory'
<1> DEFINE r == Reduce(reduced[d], e)
           H == History(d) \union {e}
<1>1. TypeOK /\ LanesStamped /\ StateIsHistory
  BY DEF Basis, CausalInv
<1>2. /\ applied[d][w] + 1 \in 1 .. Len(journal[w]) /\ e = journal[w][applied[d][w] + 1]
      /\ journal' = journal
  BY <1>1, ReceivesParts
<1>3. /\ e.stamp # NoStamp
      /\ \A f \in History(d) : f.stamp # NoStamp /\ f.stamp # e.stamp
      /\ History(d)' = H
      /\ \A c \in Device : c # d => History(c)' = History(c)
  BY <1>1, ReceivesHistory
<1>4. /\ reduced'[d] = r
      /\ prose'[d] = prose[d] \union TextTaken(r, e)
      /\ ahead'[d] <=> ahead[d] \/ \E v \in Device : applied[d][v] < e.seen[v]
      /\ \A c \in Device : c # d =>
           reduced'[c] = reduced[c] /\ prose'[c] = prose[c] /\ ahead'[c] = ahead[c]
  BY <1>1, ReceivesRow
<1>5. ASSUME NEW c \in Device, c # d, ~ahead'[c]
      PROVE  /\ \A f \in History(c)' : Past(journal', f) \subseteq History(c)'
             /\ reduced'[c].trashes = {} => prose'[c] = TextOf(History(c)')
  BY <1>2, <1>3, <1>4, <1>5 DEF ProseIsHistory
<1>6. ASSUME ~ahead'[d]
      PROVE  /\ \A f \in H : Past(journal, f) \subseteq H
             /\ r.trashes = {} => prose'[d] = TextOf(H)
  <2>1. /\ \A f \in History(d) : Past(journal, f) \subseteq History(d)
        /\ reduced[d].trashes = {} => prose[d] = TextOf(History(d))
    BY <1>4, <1>6 DEF ProseIsHistory
  <2>2. Past(journal, e) \subseteq History(d)
    <3>1. \A v \in Device : e.seen[v] \in Nat /\ applied[d][v] \in Nat /\ e.seen[v] <= applied[d][v]
      BY <1>1, <1>4, <1>6, AppliedType, ChangeSetParts
    <3>2. ASSUME NEW v \in Device, NEW k \in 1 .. e.seen[v] PROVE journal[v][k] \in History(d)
      <4>1. k \in 1 .. applied[d][v]
        BY <3>1
      <4> QED BY <4>1, InHistory
    <3> QED BY <3>2, InPast
  <2>3. \A f \in H : Past(journal, f) \subseteq H
    BY <2>1, <2>2
  <2>4. ASSUME r.trashes = {} PROVE prose'[d] = TextOf(H)
    <3>1. reduced[d] \in State /\ r \in State
      BY <1>1, ReduceType DEF TypeOK
    <3>2. reduced[d].trashes = {}
      BY <2>4, <3>1, ReduceKeeps
    <3>3. Describes(r, H)
      BY <1>1, <1>3, <3>1, HistoryType, ReduceDescribes DEF StateIsHistory
    <3>4. \A f \in H : f.stamp # NoStamp
      BY <1>3
    <3>5. Known(e, Past(journal, e)) /\ e.inc \in Incarnation
      BY <1>2, ChangeSetParts DEF CausesKnown
    <3>6. \A f \in H : Known(f, Past(journal, f))
      BY <1>1, <3>5, HistoryKnown
    <3>7. \A f \in H : f.op # "purge" \/ \E g \in H : g.op = "trash"
      BY <2>3, <3>6 DEF Known
    <3>8. e \in H /\ Past(journal, e) \subseteq H
      BY <2>2
    <3> HIDE DEF r, H
    <3>9. LiveAt(r, e.inc)
      BY <2>4, <3>1, <3>3, <3>4, <3>5, <3>7, <3>8, TakenInOrder
    <3>10. TextTaken(r, e) = e.text
      BY <3>9 DEF TextTaken
    <3>11. TextOf(H) = TextOf(History(d)) \union e.text
      BY TextOfMore DEF H
    <3> QED BY <1>4, <2>1, <3>2, <3>10, <3>11
  <2> QED BY <2>3, <2>4
<1> HIDE DEF r, H
<1> SUFFICES ASSUME NEW c \in Device, ~ahead'[c]
             PROVE  /\ \A f \in History(c)' : Past(journal', f) \subseteq History(c)'
                    /\ reduced'[c].trashes = {} => prose'[c] = TextOf(History(c)')
  BY DEF ProseIsHistory
<1>7. CASE c = d
  BY <1>2, <1>3, <1>4, <1>6, <1>7
<1> QED BY <1>5, <1>7

\* Every step keeps the prose a function of the history.
LEMMA ProseStep ==
  ASSUME Basis, CausesKnown, ProseIsHistory, [Next]_vars
  PROVE  ProseIsHistory'
<1>1. TypeOK
  BY DEF Basis
<1>2. CASE UNCHANGED vars \/ \E d \in Device : Refresh(d)
  <2>1. UNCHANGED <<journal, applied, reduced, prose, ahead>>
    BY <1>2 DEF vars, Refresh
  <2>2. \A d \in Device : History(d)' = History(d)
    BY <2>1 DEF History
  <2>3. ASSUME NEW d \in Device, ~ahead'[d]
        PROVE  /\ \A f \in History(d)' : Past(journal', f) \subseteq History(d)'
               /\ reduced'[d].trashes = {} => prose'[d] = TextOf(History(d)')
    BY <2>1, <2>2, <2>3 DEF ProseIsHistory
  <2> QED BY <2>3 DEF ProseIsHistory
<1>3. CASE \E d \in Device, e \in ChangeSet, x \in Row : Writes(d, e, x)
  BY <1>3, WritesProse
<1>4. CASE \E d, w \in Device : ApplyRemote(d, w)
  BY <1>1, <1>4, ApplyReceives, ReceivesProse
<1> QED BY <1>1, <1>2, <1>3, <1>4, StepKinds

\* It holds at first.
LEMMA ProseInit == Init => ProseIsHistory
<1> SUFFICES ASSUME Init, NEW d \in Device
             PROVE  /\ \A f \in History(d) : Past(journal, f) \subseteq History(d)
                    /\ prose[d] = TextOf(History(d))
  BY DEF ProseIsHistory
<1>1. \A w \in Device : applied[d][w] = 0
  BY DEF Init
<1>2. History(d) = {}
  BY <1>1 DEF History
<1>3. prose[d] = {}
  BY DEF Init
<1> QED BY <1>2, <1>3 DEF TextOf

\* Devices with the same change sets hold the same text of an element never
\* trashed, if each came after its causes: then each update found the element
\* live and was taken.
THEOREM SameText == Spec => []ProseConvergesInOrder
<1>1. ASSUME Basis, ProseIsHistory PROVE ProseConvergesInOrder
  <2> SUFFICES ASSUME NEW d \in Device, NEW e \in Device, applied[d] = applied[e],
                      ~ahead[d], ~ahead[e], reduced[d].trashes = {}
               PROVE  prose[d] = prose[e]
    BY DEF ProseConvergesInOrder
  <2>1. History(d) = History(e)
    BY DEF History
  <2>2. Describes(reduced[d], History(d)) /\ Describes(reduced[e], History(d))
    BY <1>1, <2>1 DEF Basis, StateIsHistory
  <2>3. reduced[d] \in State /\ reduced[e] \in State /\ History(d) \subseteq ChangeSet
    BY <1>1, HistoryType DEF Basis, TypeOK
  <2>4. reduced[e].trashes = {}
    BY <2>2, <2>3, DescribesUnique
  <2> QED BY <1>1, <2>1, <2>4 DEF ProseIsHistory
<1>2. Init => ProseIsHistory
  BY ProseInit
<1>3. (Basis /\ CausesKnown) /\ ProseIsHistory /\ [Next]_vars => ProseIsHistory'
  BY ProseStep
<1> QED BY CausesAlways, <1>1, <1>2, <1>3, PTL DEF Spec

(* The name of the row *)

\* What d writes comes, in the total order, after all it has applied.
LEMMA WrittenLast ==
  ASSUME TypeOK, TypeOK', CausalInv, NEW d \in Device, NEW e, NEW x, Writes(d, e, x)
  PROVE  \A f \in History(d) : Before(f.stamp, e.stamp)
<1>1. /\ e.seen = applied[d]
      /\ Len(journal'[d]) = Len(journal[d]) + 1 /\ journal'[d][Len(journal[d]) + 1] = e
      /\ \A w \in Device : \A n \in 1 .. Len(journal[w]) : journal'[w][n] = journal[w][n]
  BY WritesParts
<1>2. CausalOrder'
  BY WritesCausal DEF CausalInv
<1>3. Len(journal[d]) + 1 \in 1 .. Len(journal'[d])
  BY <1>1, AppliedType
<1>4. ASSUME NEW w \in Device, NEW n \in 1 .. applied[d][w] PROVE Before(journal[w][n].stamp, e.stamp)
  <2>1. n \in 1 .. Len(journal[w])
    BY AppliedType
  <2> QED BY <1>1, <1>2, <1>3, <2>1 DEF CausalOrder
<1> QED BY <1>4, InHistory

\* So it wins each register it writes.
LEMMA WrittenWins ==
  ASSUME NEW r, NEW H, NEW s, \A f \in H : Before(f.stamp, s), Describes(r, H), NEW i \in Incarnation
  PROVE  Wins(s, r.names[i]) /\ Wins(s, r.seeds[i].by)
<1>1. NameIs(r.names[i], Renaming(H, i)) /\ SeedIs(r.seeds[i], Seeding(H, i))
  BY DEF Describes
<1>2. Renaming(H, i) \subseteq H /\ Seeding(H, i) \subseteq H
  BY DEF Renaming, Seeding
<1>3. Wins(s, r.names[i])
  BY <1>1, <1>2 DEF NameIs, Wins
<1>4. Wins(s, r.seeds[i].by)
  <2>1. CASE Seeding(H, i) = {}
    BY <1>1, <2>1 DEF SeedIs, NoSeed, Wins
  <2>2. CASE Seeding(H, i) # {}
    <3>1. PICK g \in Seeding(H, i) : r.seeds[i] = [by |-> g.stamp, name |-> g.name]
      BY <1>1, <2>2 DEF SeedIs
    <3> QED BY <1>2, <3>1 DEF Wins
  <2> QED BY <2>1, <2>2
<1> QED BY <1>3, <1>4

\* The create is the first change set of all, and is reduced from nothing.
LEMMA CreateFirst ==
  ASSUME Basis, CausesKnown, NEW d \in Device, CreateElement(d)
  PROVE  reduced[d] = InitState /\ (\A w \in Device : Len(journal[w]) = 0) /\ History(d) = {}
<1>1. TypeOK /\ LanesStamped /\ StateIsHistory
  BY DEF Basis, CausalInv
<1>2. \A w \in Device : \A n \in 1 .. Len(journal[w]) : journal[w][n].op # "create"
  BY DEF CreateElement
<1>3. ASSUME NEW w \in Device, NEW n \in 1 .. Len(journal[w]) PROVE FALSE
  <2> DEFINE e == journal[w][n]
  <2>1. \E f \in Past(journal, e) : f.op = "create"
    BY <1>2 DEF CausesKnown, Known
  <2>2. PICK v \in Device : \E k \in 1 .. e.seen[v] : journal[v][k].op = "create"
    BY <2>1, InPast
  <2>3. PICK k \in 1 .. e.seen[v] : journal[v][k].op = "create"
    BY <2>2
  <2>4. e.seen[v] \in Nat /\ e.seen[v] <= Len(journal[v]) /\ Len(journal[v]) \in Nat
    BY <1>1, AppliedType, JournalType, ChangeSetParts DEF LanesStamped
  <2>5. k \in 1 .. Len(journal[v])
    BY <2>4
  <2> QED BY <1>2, <2>3, <2>5
<1>4. \A w \in Device : Len(journal[w]) = 0
  <2>1. ASSUME NEW w \in Device, Len(journal[w]) # 0 PROVE FALSE
    <3>1. 1 \in 1 .. Len(journal[w])
      BY <1>1, <2>1, AppliedType
    <3> QED BY <1>3, <3>1
  <2> QED BY <2>1
<1>5. \A w \in Device : applied[d][w] = 0
  <2>1. \A w \in Device : applied[d][w] \in Nat /\ applied[d][w] <= Len(journal[w])
    BY <1>1, AppliedType
  <2>2. ASSUME NEW w \in Device PROVE applied[d][w] = 0
    <3>1. applied[d][w] \in Nat /\ applied[d][w] <= 0
      BY <1>4, <2>1
    <3> QED BY <3>1
  <2> QED BY <2>2
<1>6. History(d) = {}
  BY <1>5 DEF History
<1>7. Describes(reduced[d], {}) /\ reduced[d] \in State
  BY <1>1, <1>6 DEF StateIsHistory, TypeOK
<1>8. reduced[d] = InitState
  BY <1>7, InitStateLemma, DescribesUnique
<1> QED BY <1>4, <1>6, <1>8

\* At first the live incarnation is the first and nothing is trashed.
LEMMA InitCurrent == Current(InitState) = 0 /\ InitState.trashes = {}
<1>1. InitState.trashes = {}
  BY DEF InitState
<1> QED BY <1>1, LaterTrashed, CurrentNat

\* What RowsFollowState says of one device.
NameFits(r, x, a) == Status(r) = "live" /\ ~a => x.name = NameOf(r)

\* The winning name depends on seeds, trashes and names only.
LEMMA SameName ==
  ASSUME NEW r, NEW s, r.seeds = s.seeds, r.trashes = s.trashes, r.names = s.names
  PROVE  NameOf(r) = NameOf(s)
  BY SameCurrent DEF NameOf

\* The part of every authored operation on the others.
Alone(d) ==
  \A c \in Device : c # d => reduced'[c] = reduced[c] /\ row'[c] = row[c] /\ astray'[c] = astray[c]

\* An authored transaction leaves the row with the winning name.
LEMMA AuthoredName ==
  ASSUME Basis, CausesKnown, NEW d \in Device, NameFits(reduced[d], row[d], astray[d]),
         \/ CreateElement(d) \/ RenameElement(d) \/ ReplaceAliases(d) \/ WriteProse(d)
         \/ TrashElement(d) \/ RestoreElement(d) \/ PurgeElement(d)
  PROVE  NameFits(reduced'[d], row'[d], astray'[d])
<1> DEFINE r == reduced[d]
<1>1. TypeOK /\ r \in State /\ row[d] \in Row /\ astray \in [Device -> BOOLEAN] /\ CausalInv
      /\ StateIsHistory
  BY DEF Basis, TypeOK
<1>2. TypeOK'
  BY <1>1, AuthoredType
<1>3. ASSUME NEW e, NEW x, Writes(d, e, x)
      PROVE  /\ e \in ChangeSet /\ reduced'[d] = Reduce(r, e) /\ row'[d] = x
             /\ \A i \in Incarnation : Wins(e.stamp, r.names[i]) /\ Wins(e.stamp, r.seeds[i].by)
             /\ LocalAccepted(Reduce(r, e), e)
  <2>1. \A f \in History(d) : Before(f.stamp, e.stamp)
    BY <1>1, <1>2, <1>3, WrittenLast
  <2>2. Describes(r, History(d))
    BY <1>1 DEF StateIsHistory
  <2>3. \A i \in Incarnation : Wins(e.stamp, r.names[i]) /\ Wins(e.stamp, r.seeds[i].by)
    BY <2>1, <2>2, WrittenWins
  <2>4. reduced'[d] = Reduce(r, e) /\ row'[d] = x /\ LocalAccepted(Reduce(r, e), e)
    BY <1>1, <1>3, WritesRow
  <2> QED BY <1>3, <2>3, <2>4 DEF Writes
<1>4. CASE CreateElement(d)
  <2>1. PICK e, x : /\ Writes(d, e, x) /\ e.op = "create" /\ e.inc = Current(r)
                    /\ e.name = e.stamp /\ x.name = e.stamp
    BY <1>1, <1>4, CreateWrites
  <2>2. r = InitState /\ e.inc = 0 /\ e \in ChangeSet
    BY <1>3, <1>4, <2>1, CreateFirst, InitCurrent
  <2> DEFINE s == Reduce(r, e)
  <2>3. s.trashes = {} /\ s.names = r.names
    BY <1>1, <2>1, <2>2, ReduceKeeps, InitCurrent
  <2>4. Current(s) = 0
    BY <2>3, LaterTrashed, CurrentNat
  <2>5. s.names[0] = NoStamp
    BY <2>2, <2>3, ZeroIncarnation DEF InitState
  <2>6. s.seeds[0].name = e.name
    <3>1. Wins(e.stamp, r.seeds[0].by)
      BY <1>3, <2>1, ZeroIncarnation
    <3>2. s.seeds = [r.seeds EXCEPT ![0] = [by |-> e.stamp, name |-> e.name]]
      BY <2>1, <2>2, <3>1 DEF Reduce
    <3> QED BY <1>1, <3>2, StateParts, ZeroIncarnation
  <2> HIDE DEF s
  <2>7. NameOf(s) = e.stamp
    BY <2>1, <2>4, <2>5, <2>6 DEF NameOf
  <2>8. reduced'[d] = s /\ row'[d] = x
    BY <1>3, <2>1 DEF s
  <2> QED BY <2>1, <2>7, <2>8 DEF NameFits
<1>5. CASE RenameElement(d)
  <2>1. PICK e, x : /\ Writes(d, e, x) /\ e.op = "rename" /\ e.inc = Current(r)
                    /\ x = [row[d] EXCEPT !.name = e.stamp]
    BY <1>1, <1>5, RenameWrites
  <2>2. e \in ChangeSet /\ x.name = e.stamp /\ e.inc \in Incarnation
    BY <1>1, <1>3, <2>1, ChangeSetParts DEF Row
  <2> DEFINE s == Reduce(r, e)
  <2>3. s.trashes = r.trashes /\ s.seeds = r.seeds
    BY <1>1, <2>1, <2>2, ReduceKeeps
  <2>4. Current(s) = e.inc
    BY <2>1, <2>3, SameCurrent
  <2>5. s.names[e.inc] = e.stamp
    <3>1. Wins(e.stamp, r.names[e.inc])
      BY <1>3, <2>1, <2>2
    <3>2. s.names = [r.names EXCEPT ![e.inc] = e.stamp]
      BY <2>1, <3>1 DEF Reduce
    <3> QED BY <1>1, <2>2, <3>2, StateParts
  <2>6. e.stamp # NoStamp
    BY <1>1, <2>1, WritesHistory DEF CausalInv
  <2> HIDE DEF s
  <2>7. NameOf(s) = e.stamp
    BY <2>4, <2>5, <2>6 DEF NameOf
  <2>8. reduced'[d] = s /\ row'[d] = x
    BY <1>3, <2>1 DEF s
  <2> QED BY <2>2, <2>7, <2>8 DEF NameFits
<1>6. ASSUME NEW e \in ChangeSet, e.op \notin {"create", "restore", "rename", "trash", "purge"},
             Status(r) = "live", ~astray[d]
      PROVE  row[d].name = NameOf(Reduce(r, e))
  <2>1. NameOf(Reduce(r, e)) = NameOf(r)
    BY <1>1, <1>6, ReduceKeeps, SameName
  <2> QED BY <1>6, <2>1 DEF NameFits
<1>7. CASE ReplaceAliases(d)
  <2>1. PICK e, x : /\ Writes(d, e, x) /\ e.op = "aliases" /\ Editable(d)
                    /\ x.name = shown[d]
                    /\ astray' = [astray EXCEPT ![d] = @ \/ shown[d] # row[d].name]
    BY <1>1, <1>7, ReplaceWrites
  <2>2. astray'[d] <=> astray[d] \/ shown[d] # row[d].name
    BY <1>1, <2>1
  <2> QED BY <1>3, <1>6, <2>1, <2>2 DEF NameFits, Editable
<1>8. CASE WriteProse(d)
  <2>1. PICK e : Writes(d, e, row[d]) /\ e.op = "prose" /\ Editable(d) /\ UNCHANGED <<shown, astray>>
    BY <1>1, <1>8, ProseWrites
  <2> QED BY <1>3, <1>6, <2>1 DEF NameFits, Editable
<1>9. CASE TrashElement(d)
  <2>1. PICK e, x : /\ Writes(d, e, x)
                    /\ astray' = [astray EXCEPT ![d] = @ \/ Status(Reduce(reduced[d], e)) = "live"]
    BY <1>1, <1>9, TrashWrites
  <2>2. astray'[d] <=> astray[d] \/ Status(Reduce(reduced[d], e)) = "live"
    BY <1>1, <2>1
  <2> QED BY <1>3, <2>1, <2>2 DEF NameFits
<1>10. CASE RestoreElement(d)
  <2>1. PICK e, x : /\ Writes(d, e, x) /\ e.op = "restore"
                    /\ e.name = row[d].name /\ e.text = prose[d] \union {e.stamp}
                    /\ x = [row[d] EXCEPT !.state = "live"]
                    /\ astray' = [astray EXCEPT ![d] = reduced[d].names[e.inc] # NoStamp]
    BY <1>1, <1>10, RestoreWrites
  <2>2. e \in ChangeSet /\ x.name = row[d].name /\ e.inc \in Incarnation
    BY <1>1, <1>3, <2>1, ChangeSetParts DEF Row
  <2> DEFINE s == Reduce(r, e)
  <2>3. s.names = r.names
    BY <1>1, <2>1, <2>2, ReduceKeeps
  <2>4. Current(s) = e.inc
    BY <1>3, <2>1 DEF LocalAccepted, LiveAt
  <2>5. s.seeds[e.inc].name = e.name
    <3>1. Wins(e.stamp, r.seeds[e.inc].by)
      BY <1>3, <2>1, <2>2
    <3>2. s.seeds = [r.seeds EXCEPT ![e.inc] = [by |-> e.stamp, name |-> e.name]]
      BY <2>1, <3>1 DEF Reduce
    <3> QED BY <1>1, <2>2, <3>2, StateParts
  <2>6. astray'[d] <=> r.names[e.inc] # NoStamp
    BY <1>1, <2>1
  <2>7. reduced'[d] = s /\ row'[d] = x
    BY <1>3, <2>1
  <2> HIDE DEF s
  <2> QED BY <2>1, <2>2, <2>3, <2>4, <2>5, <2>6, <2>7 DEF NameFits, NameOf
<1>11. CASE PurgeElement(d)
  <2>1. PICK e : Writes(d, e, NoRow) /\ e.op = "purge"
    BY <1>1, <1>11, PurgeWrites
  <2>2. Status(Reduce(r, e)) = "purged"
    BY <1>1, <1>3, <2>1, ReduceKeeps, StatusMeans
  <2> QED BY <1>3, <2>1, <2>2 DEF NameFits
<1> QED BY <1>4, <1>5, <1>7, <1>8, <1>9, <1>10, <1>11

\* So does a received change set, if the row is rebuilt or the effect is unchanged.
LEMMA ReceivedName ==
  ASSUME TypeOK, NEW d \in Device, NEW w \in Device, NEW e \in ChangeSet, NEW rebuilds,
         Receives(d, w, e, rebuilds), NameFits(reduced[d], row[d], astray[d])
  PROVE  NameFits(reduced'[d], row'[d], astray'[d])
<1> DEFINE r == Reduce(reduced[d], e)
<1>1. /\ reduced'[d] = r
      /\ row'[d] = IF rebuilds THEN Rebuilt(row[d], r) ELSE row[d]
      /\ astray'[d] <=> astray[d] /\ ~(rebuilds /\ Status(r) = "live")
  BY ReceivesRow
<1>2. rebuilds \in BOOLEAN /\ (Effects(r) # Effects(reduced[d]) => rebuilds)
  BY DEF Receives
<1>3. Status(r) = "live" => Rebuilt(row[d], r).name = NameOf(r)
  BY DEF Rebuilt
<1>4. CASE ~rebuilds
  <2>1. /\ r.names = reduced[d].names /\ Status(r) = Status(reduced[d])
        /\ Status(r) = "live" =>
             Current(r) = Current(reduced[d]) /\ r.seeds[Current(r)] = reduced[d].seeds[Current(reduced[d])]
    BY <1>2, <1>4, SameEffects
  <2> HIDE DEF r
  <2>2. Status(r) = "live" => NameOf(r) = NameOf(reduced[d])
    BY <2>1 DEF NameOf
  <2> QED BY <1>1, <1>4, <2>1, <2>2 DEF NameFits
<1>5. CASE rebuilds
  BY <1>1, <1>3, <1>5 DEF NameFits
<1> QED BY <1>2, <1>4, <1>5

\* While an author edits, its row and its state agree.
LEMMA AuthoredAlone ==
  ASSUME TypeOK, RowsFollowLifecycle, NEW d \in Device,
         \/ CreateElement(d) \/ RenameElement(d) \/ ReplaceAliases(d) \/ WriteProse(d)
         \/ TrashElement(d) \/ RestoreElement(d) \/ PurgeElement(d)
  PROVE  Alone(d)
  BY AuthoredLife, LifeOfRow DEF Alone

\* Every step keeps the winning name shown.
LEMMA NameStep ==
  ASSUME Basis, CausesKnown, RowsFollowLifecycle, RowsFollowState, [Next]_vars
  PROVE  RowsFollowState'
<1>1. TypeOK /\ \A d \in Device : NameFits(reduced[d], row[d], astray[d])
  BY DEF Basis, RowsFollowState, NameFits
<1> SUFFICES \A d \in Device : NameFits(reduced'[d], row'[d], astray'[d])
  BY DEF RowsFollowState, NameFits
<1>2. CASE UNCHANGED vars \/ \E d \in Device : Refresh(d)
  BY <1>1, <1>2 DEF vars, Refresh
<1>3. CASE \E d, w \in Device : ApplyRemote(d, w)
  <2>1. PICK d \in Device, w \in Device, e \in ChangeSet, rebuilds \in BOOLEAN : Receives(d, w, e, rebuilds)
    BY <1>1, <1>3, ApplyReceives
  <2>2. \A c \in Device : c # d =>
          reduced'[c] = reduced[c] /\ row'[c] = row[c] /\ astray'[c] = astray[c]
    BY <1>1, <2>1, ReceivesRow
  <2>3. NameFits(reduced'[d], row'[d], astray'[d])
    BY <1>1, <2>1, ReceivedName
  <2> QED BY <1>1, <2>2, <2>3
<1>4. ASSUME NEW d \in Device,
             \/ CreateElement(d) \/ RenameElement(d) \/ ReplaceAliases(d) \/ WriteProse(d)
             \/ TrashElement(d) \/ RestoreElement(d) \/ PurgeElement(d)
      PROVE  \A c \in Device : NameFits(reduced'[c], row'[c], astray'[c])
  <2>1. NameFits(reduced[d], row[d], astray[d])
    BY <1>1
  <2>2. NameFits(reduced'[d], row'[d], astray'[d])
    BY <1>4, <2>1, AuthoredName
  <2>3. Alone(d)
    BY <1>1, <1>4, AuthoredAlone
  <2> QED BY <1>1, <2>2, <2>3 DEF Alone
<1> QED BY <1>2, <1>3, <1>4 DEF Next

\* It holds at first.
LEMMA NameInit == Init => RowsFollowState
<1> SUFFICES ASSUME Init, NEW d \in Device PROVE Status(reduced[d]) # "live"
  BY DEF RowsFollowState
<1>1. reduced[d] = InitState
  BY DEF Init
<1>2. ~Seeded(InitState, 0)
  BY ZeroIncarnation DEF InitState, Seeded, NoSeed
<1> QED BY <1>1, <1>2, StatusMeans

\* A live row shows the winning name, unless its device wrote it from a store
\* or a row out of date: what a device writes comes after all it has applied
\* and so wins, and what others write has the row rebuilt when it wins.
THEOREM NameShown == Spec => []RowsFollowState
<1>1. (Basis /\ CausesKnown) /\ RowsFollowLifecycle /\ RowsFollowState /\ [Next]_vars
        => RowsFollowState'
  BY NameStep
<1> QED BY CausesAlways, LifecycleShown, NameInit, <1>1, PTL DEF Spec

(* The aliases of the row *)

\* A removed tag was added by a change set that is written.
GoneKnown ==
  \A w \in Device : \A n \in 1 .. Len(journal[w]) : \A t \in journal[w][n].gone :
    \E v \in Device : \E k \in 1 .. Len(journal[v]) : t.by = journal[v][k].stamp

\* What AliasesFollowSet says of one device, and that no alias comes from nowhere.
AliasFits(r, x) ==
  /\ x.aliases \subseteq {t.alias : t \in r.adds}
  /\ LiveAt(r, 0) /\ (\A t \in r.adds : t.inc = 0) => x.aliases = AliasesAt(r, 0)

\* A removed tag was added by someone, and rows show the visible aliases.
AliasInv == GoneKnown /\ \A d \in Device : AliasFits(reduced[d], row[d])

\* A tag names the change set that added it.
LEMMA TagBy ==
  ASSUME NEW e, NEW t \in Tags(e)
  PROVE  t.by = e.stamp /\ t.inc = e.inc /\ t.alias \in e.adds
  BY DEF Tags

\* Each tag a device knows of was added by a written change set.
LEMMA TagKnown ==
  ASSUME TypeOK, StateIsHistory, GoneKnown, NEW d \in Device,
         NEW t \in reduced[d].adds \union reduced[d].removed
  PROVE  \E v \in Device : \E k \in 1 .. Len(journal[v]) : t.by = journal[v][k].stamp
<1>1. Describes(reduced[d], History(d))
  BY DEF StateIsHistory
<1>2. \A v \in Device : \A k \in 1 .. applied[d][v] : k \in 1 .. Len(journal[v])
  BY AppliedType
<1>3. CASE t \in reduced[d].adds
  <2>1. PICK f \in History(d) : t \in Tags(f)
    BY <1>1, <1>3 DEF Describes
  <2>2. t.by = f.stamp
    BY <2>1, TagBy
  <2> QED BY <1>2, <2>2, InHistory
<1>4. CASE t \in reduced[d].removed
  <2>1. PICK f \in History(d) : t \in f.gone
    BY <1>1, <1>4 DEF Describes
  <2> QED BY <1>2, <2>1, InHistory DEF GoneKnown
<1> QED BY <1>3, <1>4

\* The stamp of a new change set is in no lane.
LEMMA FreshStamp ==
  ASSUME TypeOK, LanesStamped, NEW d \in Device, NEW e, NEW x, Writes(d, e, x)
  PROVE  \A v \in Device : \A k \in 1 .. Len(journal[v]) : journal[v][k].stamp # e.stamp
<1>1. e.stamp[3] = d /\ e.stamp[4] = Len(journal[d]) + 1
  BY WritesParts
<1>2. \A v \in Device : \A k \in 1 .. Len(journal[v]) :
        journal[v][k].stamp[3] = v /\ journal[v][k].stamp[4] = k
  BY DEF LanesStamped
<1>3. Len(journal[d]) \in Nat
  BY JournalType
<1>4. ASSUME NEW v \in Device, NEW k \in 1 .. Len(journal[v]), journal[v][k].stamp = e.stamp PROVE FALSE
  <2>1. v = d /\ k = Len(journal[d]) + 1
    BY <1>1, <1>2, <1>4
  <2> QED BY <1>3, <2>1
<1> QED BY <1>4

\* The aliases shown depend on the tags and the status only.
LEMMA SameAliases ==
  ASSUME NEW r, NEW s, NEW x, NEW y, AliasFits(r, x), y.aliases = x.aliases,
         s.adds = r.adds, s.removed = r.removed, Status(s) = Status(r), Current(s) = Current(r)
  PROVE  AliasFits(s, y)
  BY DEF AliasFits, AliasesAt, VisibleAdds, LiveAt

\* An alias is visible while one tag of it is.
LEMMA AliasesOf ==
  ASSUME NEW r, NEW i, NEW a
  PROVE  a \in AliasesAt(r, i) <=> \E t \in r.adds : t \notin r.removed /\ t.inc = i /\ t.alias = a
  BY DEF AliasesAt, VisibleAdds

\* New aliases: what is gone was seen, what is added carries a new stamp, so
\* the set amounts to what the row was given.
LEMMA ReplacedAliases ==
  ASSUME NEW r, NEW s, NEW e, NEW aliases,
         e.adds = aliases \ AliasesAt(r, e.inc),
         \A t : t \in e.gone <=> t \in VisibleAdds(r) /\ t.inc = e.inc /\ t.alias \notin aliases,
         s.adds = r.adds \union Tags(e), s.removed = r.removed \union e.gone,
         \A t \in r.adds \union r.removed : t.by # e.stamp
  PROVE  aliases = AliasesAt(s, e.inc)
<1> DEFINE i == e.inc
<1>1. ASSUME NEW a, a \in AliasesAt(s, i) PROVE a \in aliases
  <2>1. PICK t \in s.adds : t \notin s.removed /\ t.inc = i /\ t.alias = a
    BY <1>1, AliasesOf
  <2>2. CASE t \in Tags(e)
    BY <2>1, <2>2, TagBy
  <2>3. CASE t \in r.adds
    BY <2>1, <2>3 DEF VisibleAdds
  <2> QED BY <2>2, <2>3
<1>2. ASSUME NEW a \in aliases, a \in AliasesAt(r, i) PROVE a \in AliasesAt(s, i)
  <2>1. PICK t \in r.adds : t \notin r.removed /\ t.inc = i /\ t.alias = a
    BY <1>2, AliasesOf
  <2> QED BY <2>1, AliasesOf
<1>3. ASSUME NEW a \in aliases, a \notin AliasesAt(r, i) PROVE a \in AliasesAt(s, i)
  <2> DEFINE t == [by |-> e.stamp, alias |-> a, inc |-> e.inc]
  <2>1. a \in e.adds
    BY <1>3
  <2>2. t \in Tags(e)
    BY <2>1 DEF Tags
  <2>3. t.by = e.stamp /\ t.alias = a /\ t.inc = i
    OBVIOUS
  <2> HIDE DEF t
  <2>4. t \notin r.removed /\ t \notin r.adds
    BY <2>3
  <2>5. t \notin s.removed
    BY <2>4 DEF VisibleAdds
  <2> QED BY <2>2, <2>3, <2>5, AliasesOf
<1> QED BY <1>1, <1>2, <1>3

\* An authored transaction leaves the row with the visible aliases.
LEMMA AuthoredAlias ==
  ASSUME Basis, CausesKnown, GoneKnown, NEW d \in Device, AliasFits(reduced[d], row[d]),
         \/ CreateElement(d) \/ RenameElement(d) \/ ReplaceAliases(d) \/ WriteProse(d)
         \/ TrashElement(d) \/ RestoreElement(d) \/ PurgeElement(d)
  PROVE  AliasFits(reduced'[d], row'[d])
<1> DEFINE r == reduced[d]
<1>1. TypeOK /\ LanesStamped /\ StateIsHistory /\ r \in State /\ row[d] \in Row
  BY DEF Basis, TypeOK, CausalInv
<1>2. ASSUME NEW e, NEW x, Writes(d, e, x)
      PROVE  /\ e \in ChangeSet /\ reduced'[d] = Reduce(r, e) /\ row'[d] = x
             /\ LocalAccepted(Reduce(r, e), e)
             /\ Reduce(r, e).adds = r.adds \union Tags(e)
             /\ Reduce(r, e).removed = r.removed \union e.gone
  BY <1>1, <1>2, WritesRow, ReduceKeeps DEF Writes
\* A kind that touches neither the aliases nor the lifecycle.
<1>3. ASSUME NEW e, NEW x, Writes(d, e, x), e.op \in {"rename", "prose"}, e.adds = {}, e.gone = {},
             x.aliases = row[d].aliases
      PROVE  AliasFits(reduced'[d], row'[d])
  <2> DEFINE s == Reduce(r, e)
  <2>1. e \in ChangeSet /\ reduced'[d] = s /\ row'[d] = x
    BY <1>2, <1>3
  <2>2. /\ s.seeds = r.seeds /\ s.trashes = r.trashes /\ s.purged = r.purged
        /\ s.adds = r.adds /\ s.removed = r.removed
    BY <1>1, <1>3, <2>1, ReduceKeeps
  <2> HIDE DEF s
  <2>3. Status(s) = Status(r) /\ Current(s) = Current(r)
    BY <2>2, SameStatus
  <2> QED BY <1>3, <2>1, <2>2, <2>3, SameAliases
\* A kind that leaves the element not live in its first incarnation.
<1>4. ASSUME NEW e, NEW x, Writes(d, e, x), x.aliases \subseteq row[d].aliases, ~LiveAt(Reduce(r, e), 0)
      PROVE  AliasFits(reduced'[d], row'[d])
  BY <1>2, <1>4 DEF AliasFits
<1>5. CASE CreateElement(d)
  <2>1. PICK e, x : /\ Writes(d, e, x) /\ e.op = "create" /\ e.inc = Current(r)
                    /\ e.adds = x.aliases /\ e.gone = {}
    BY <1>1, <1>5, CreateWrites
  <2>2. r = InitState /\ e.inc = 0
    BY <1>5, <2>1, CreateFirst, InitCurrent
  <2> DEFINE s == Reduce(r, e)
  <2>3. s.adds = Tags(e) /\ s.removed = {}
    <3>1. r.adds = {} /\ r.removed = {}
      BY <2>2 DEF InitState
    <3>2. s.adds = r.adds \union Tags(e) /\ s.removed = r.removed \union e.gone
      BY <1>2, <2>1
    <3> HIDE DEF s, r
    <3> QED BY <2>1, <3>1, <3>2
  <2>4. ASSUME NEW a PROVE a \in e.adds <=> \E t \in Tags(e) : t.inc = 0 /\ t.alias = a
    <3>1. ASSUME a \in e.adds PROVE [by |-> e.stamp, alias |-> a, inc |-> e.inc] \in Tags(e)
      BY <3>1 DEF Tags
    <3> QED BY <2>2, <3>1, TagBy
  <2>5. reduced'[d] = s /\ row'[d] = x
    BY <1>2, <2>1
  <2> HIDE DEF s
  <2>6. x.aliases = AliasesAt(s, 0)
    <3>1. \A a : a \in AliasesAt(s, 0) <=> \E t \in s.adds : t \notin s.removed /\ t.inc = 0 /\ t.alias = a
      BY AliasesOf
    <3>2. \A a : a \in AliasesAt(s, 0) <=> a \in e.adds
      BY <2>3, <2>4, <3>1
    <3> QED BY <2>1, <3>2
  <2>7. x.aliases \subseteq {t.alias : t \in s.adds}
    BY <2>1, <2>3, <2>4
  <2> QED BY <2>5, <2>6, <2>7 DEF AliasFits
<1>6. CASE RenameElement(d)
  <2>1. PICK e, x : /\ Writes(d, e, x) /\ e.op = "rename" /\ e.adds = {} /\ e.gone = {}
                    /\ x = [row[d] EXCEPT !.name = e.stamp]
    BY <1>1, <1>6, RenameWrites
  <2>2. x.aliases = row[d].aliases
    BY <1>1, <2>1 DEF Row
  <2> QED BY <1>3, <2>1, <2>2
<1>7. CASE WriteProse(d)
  <2>1. PICK e : Writes(d, e, row[d]) /\ e.op = "prose" /\ e.adds = {} /\ e.gone = {}
    BY <1>1, <1>7, ProseWrites
  <2> QED BY <1>3, <2>1
<1>8. CASE ReplaceAliases(d)
  <2>1. PICK e, x : /\ Writes(d, e, x)
                    /\ e.op = "aliases" /\ e.inc = Current(r)
                    /\ e.adds = x.aliases \ AliasesAt(r, e.inc)
                    /\ e.gone = {t \in VisibleAdds(r) : t.inc = e.inc /\ t.alias \notin x.aliases}
    BY <1>1, <1>8, ReplaceWrites
  <2> DEFINE s == Reduce(r, e)
  <2>2. \A t \in r.adds \union r.removed : t.by # e.stamp
    BY <1>1, <2>1, TagKnown, FreshStamp
  <2>3. /\ e \in ChangeSet /\ reduced'[d] = s /\ row'[d] = x
        /\ s.adds = r.adds \union Tags(e) /\ s.removed = r.removed \union e.gone
    BY <1>2, <2>1
  <2>4. s.seeds = r.seeds /\ s.trashes = r.trashes
    BY <1>1, <2>1, <2>3, ReduceKeeps
  <2>5. Current(s) = e.inc
    BY <2>1, <2>4, SameCurrent
  <2> HIDE DEF s, r
  <2>6. x.aliases = AliasesAt(s, e.inc)
    <3>1. \A t : t \in e.gone <=> t \in VisibleAdds(r) /\ t.inc = e.inc /\ t.alias \notin x.aliases
      BY <2>1
    <3>2. e.adds = x.aliases \ AliasesAt(r, e.inc)
      BY <2>1
    <3>3. s.adds = r.adds \union Tags(e) /\ s.removed = r.removed \union e.gone
      BY <2>3
    <3> QED BY <2>2, <3>1, <3>2, <3>3, ReplacedAliases, Zenon
  <2>7. x.aliases \subseteq {t.alias : t \in s.adds}
    BY <2>6, AliasesOf
  <2> QED BY <2>3, <2>5, <2>6, <2>7 DEF AliasFits, LiveAt
<1>9. CASE TrashElement(d)
  <2>1. PICK e, x : /\ Writes(d, e, x) /\ e.op = "trash" /\ e.inc = Current(r)
                    /\ x = [row[d] EXCEPT !.state = "trashed"]
    BY <1>1, <1>9, TrashWrites
  <2> DEFINE s == Reduce(r, e)
  <2>2. x.aliases = row[d].aliases
    BY <1>1, <2>1 DEF Row
  <2>3. s.trashes = r.trashes \union {Current(r)}
    BY <1>1, <1>2, <2>1, ReduceKeeps
  <2>4. 0 \in s.trashes
    BY <2>3, LaterTrashed, CurrentNat
  <2>5. ~LiveAt(s, 0)
    BY <2>4, StatusMeans DEF LiveAt
  <2> QED BY <1>4, <2>1, <2>2, <2>5
<1>10. CASE RestoreElement(d)
  <2>1. PICK e, x : /\ Writes(d, e, x) /\ e.inc = Current(r) + 1
                    /\ e.text = prose[d] \union {e.stamp}
                    /\ x = [row[d] EXCEPT !.state = "live"]
    BY <1>1, <1>10, RestoreWrites
  <2>2. x.aliases = row[d].aliases
    BY <1>1, <2>1 DEF Row
  <2>3. Current(Reduce(r, e)) = Current(r) + 1
    BY <1>2, <2>1 DEF LocalAccepted, LiveAt
  <2>4. ~LiveAt(Reduce(r, e), 0)
    BY <2>3, CurrentNat DEF LiveAt
  <2> QED BY <1>4, <2>1, <2>2, <2>4
<1>11. CASE PurgeElement(d)
  <2>1. PICK e : Writes(d, e, NoRow) /\ e.op = "purge"
    BY <1>1, <1>11, PurgeWrites
  <2>2. Status(Reduce(r, e)) = "purged"
    BY <1>1, <1>2, <2>1, ReduceKeeps, StatusMeans
  <2>3. NoRow.aliases = {}
    BY DEF NoRow
  <2> QED BY <1>4, <2>1, <2>2, <2>3 DEF LiveAt
<1> QED BY <1>5, <1>6, <1>7, <1>8, <1>9, <1>10, <1>11

\* So does a received change set.
LEMMA ReceivedAlias ==
  ASSUME TypeOK, NEW d \in Device, NEW w \in Device, NEW e \in ChangeSet, NEW rebuilds,
         Receives(d, w, e, rebuilds), AliasFits(reduced[d], row[d])
  PROVE  AliasFits(reduced'[d], row'[d])
<1> DEFINE r == Reduce(reduced[d], e)
           old == reduced[d]
           x == Rebuilt(row[d], r)
<1>1. /\ reduced'[d] = r
      /\ row'[d] = IF rebuilds THEN x ELSE row[d]
  BY ReceivesRow
<1>2. rebuilds \in BOOLEAN /\ (Effects(r) # Effects(old) => rebuilds)
  BY DEF Receives
<1>3. old \in State /\ row[d] \in Row
  BY DEF TypeOK
<1>4. old.adds \subseteq r.adds
  BY <1>3, ReduceKeeps
<1>5. row[d].aliases \subseteq {t.alias : t \in r.adds}
  BY <1>4 DEF AliasFits
<1>6. CASE ~rebuilds
  <2>1. /\ VisibleAdds(r) = VisibleAdds(old) /\ Status(r) = Status(old)
        /\ Status(r) = "live" => Current(r) = Current(old)
    BY <1>2, <1>6, SameEffects
  <2> HIDE DEF r
  <2>2. AliasesAt(r, 0) = AliasesAt(old, 0)
    BY <2>1 DEF AliasesAt
  <2>3. LiveAt(r, 0) => LiveAt(old, 0)
    BY <2>1 DEF LiveAt
  <2> QED BY <1>1, <1>4, <1>5, <1>6, <2>2, <2>3 DEF AliasFits
<1>7. CASE rebuilds
  <2>1. {t.alias : t \in VisibleAdds(r)} \subseteq {t.alias : t \in r.adds}
    BY DEF VisibleAdds
  <2> DEFINE touched == \E t \in r.adds \union r.removed : t.inc = Current(r)
  <2>2. CASE Status(r) = "live"
    <3>1. x.aliases = IF touched THEN {t.alias : t \in VisibleAdds(r)} ELSE row[d].aliases
      BY <2>2 DEF Rebuilt
    <3>2. x.aliases \subseteq {t.alias : t \in r.adds}
      BY <1>5, <2>1, <3>1
    <3>3. ASSUME LiveAt(r, 0), \A t \in r.adds : t.inc = 0 PROVE x.aliases = AliasesAt(r, 0)
      <4>1. Current(r) = 0
        BY <3>3 DEF LiveAt
      <4>2. CASE touched
        <5>1. x.aliases = {t.alias : t \in VisibleAdds(r)}
          BY <3>1, <4>2
        <5>2. {u \in VisibleAdds(r) : u.inc = 0} = VisibleAdds(r)
          BY <3>3 DEF VisibleAdds
        <5> HIDE DEF x, r
        <5> QED BY <5>1, <5>2 DEF AliasesAt
      <4>3. CASE ~touched
        <5>1. r.adds = {}
          BY <3>3, <4>1, <4>3
        <5>2. row[d].aliases = {} /\ AliasesAt(r, 0) = {}
          BY <1>5, <5>1 DEF AliasesAt, VisibleAdds
        <5> QED BY <3>1, <4>3, <5>2
      <4> QED BY <4>2, <4>3
    <3> HIDE DEF x, r
    <3> QED BY <1>1, <1>7, <3>2, <3>3 DEF AliasFits
  <2>3. CASE Status(r) # "live"
    <3>1. x.aliases = row[d].aliases \/ x.aliases = {}
      BY <1>3, <2>3 DEF Rebuilt, Row, NoRow
    <3>2. ~LiveAt(r, 0)
      BY <2>3 DEF LiveAt
    <3> HIDE DEF x, r
    <3> QED BY <1>1, <1>5, <1>7, <3>1, <3>2 DEF AliasFits
  <2> QED BY <2>2, <2>3
<1> QED BY <1>2, <1>6, <1>7

\* Every step keeps removals behind their additions.
LEMMA GoneKnownStep ==
  ASSUME Basis, GoneKnown, [Next]_vars
  PROVE  GoneKnown'
<1>1. TypeOK /\ StateIsHistory
  BY DEF Basis
<1>2. ASSUME journal' = journal PROVE GoneKnown'
  BY <1>2 DEF GoneKnown
<1>3. ASSUME NEW d \in Device, NEW e, NEW x, Writes(d, e, x),
             \A t \in e.gone : \E v \in Device : \E k \in 1 .. Len(journal[v]) : t.by = journal[v][k].stamp
      PROVE  GoneKnown'
  <2>1. /\ Len(journal'[d]) = Len(journal[d]) + 1 /\ journal'[d][Len(journal[d]) + 1] = e
        /\ \A w \in Device : w # d => Len(journal'[w]) = Len(journal[w])
        /\ \A w \in Device : \A n \in 1 .. Len(journal[w]) : journal'[w][n] = journal[w][n]
    BY <1>1, <1>3, WritesParts
  <2>2. \A w \in Device : \A n \in 1 .. Len(journal'[w]) :
          n \in 1 .. Len(journal[w]) \/ (w = d /\ n = Len(journal[d]) + 1)
    BY <1>1, <2>1, AppliedType
  <2>3. \A v \in Device : \A k \in 1 .. Len(journal[v]) : k \in 1 .. Len(journal'[v])
    BY <1>1, <2>1, AppliedType
  <2> SUFFICES ASSUME NEW w \in Device, NEW n \in 1 .. Len(journal'[w]), NEW t \in journal'[w][n].gone
               PROVE  \E v \in Device : \E k \in 1 .. Len(journal'[v]) : t.by = journal'[v][k].stamp
    BY DEF GoneKnown
  <2>4. \E v \in Device : \E k \in 1 .. Len(journal[v]) : t.by = journal[v][k].stamp
    <3>1. CASE n \in 1 .. Len(journal[w])
      BY <2>1, <3>1 DEF GoneKnown
    <3>2. CASE w = d /\ n = Len(journal[d]) + 1
      BY <1>3, <2>1, <3>2
    <3> QED BY <2>2, <3>1, <3>2
  <2> QED BY <2>1, <2>3, <2>4
<1>4. ASSUME NEW d \in Device,
             \/ CreateElement(d) \/ RenameElement(d) \/ ReplaceAliases(d) \/ WriteProse(d)
             \/ TrashElement(d) \/ RestoreElement(d) \/ PurgeElement(d)
      PROVE  GoneKnown'
  <2>1. PICK e, x : Writes(d, e, x) /\ e.gone \subseteq reduced[d].adds
    <3>1. CASE CreateElement(d)
      BY <1>1, <3>1, CreateWrites
    <3>2. CASE RenameElement(d)
      BY <1>1, <3>2, RenameWrites
    <3>3. CASE ReplaceAliases(d)
      <4>1. PICK e, x : /\ Writes(d, e, x)
                        /\ e.gone = {t \in VisibleAdds(reduced[d]) : t.inc = e.inc /\ t.alias \notin x.aliases}
        BY <1>1, <3>3, ReplaceWrites
      <4>2. e.gone \subseteq reduced[d].adds
        BY <4>1 DEF VisibleAdds
      <4> QED BY <4>1, <4>2
    <3>4. CASE WriteProse(d)
      BY <1>1, <3>4, ProseWrites
    <3>5. CASE TrashElement(d)
      BY <1>1, <3>5, TrashWrites
    <3>6. CASE RestoreElement(d)
      BY <1>1, <3>6, RestoreWrites
    <3>7. CASE PurgeElement(d)
      BY <1>1, <3>7, PurgeWrites DEF VisibleAdds
    <3> QED BY <1>4, <3>1, <3>2, <3>3, <3>4, <3>5, <3>6, <3>7
  <2>2. \A t \in e.gone : \E v \in Device : \E k \in 1 .. Len(journal[v]) : t.by = journal[v][k].stamp
    BY <1>1, <2>1, TagKnown
  <2> QED BY <1>3, <2>1, <2>2
<1>5. CASE \E d, w \in Device : ApplyRemote(d, w)
  BY <1>2, <1>5 DEF ApplyRemote
<1>6. CASE UNCHANGED vars \/ \E d \in Device : Refresh(d)
  BY <1>2, <1>6 DEF vars, Refresh
<1> QED BY <1>4, <1>5, <1>6 DEF Next

\* Every step keeps the visible aliases shown.
LEMMA AliasStep ==
  ASSUME Basis, CausesKnown, RowsFollowLifecycle, AliasInv, [Next]_vars
  PROVE  AliasInv'
<1>1. TypeOK /\ GoneKnown /\ \A d \in Device : AliasFits(reduced[d], row[d])
  BY DEF Basis, AliasInv
<1>2. GoneKnown'
  BY <1>1, GoneKnownStep
<1> SUFFICES \A d \in Device : AliasFits(reduced'[d], row'[d])
  BY <1>2 DEF AliasInv
<1>3. CASE UNCHANGED vars \/ \E d \in Device : Refresh(d)
  BY <1>1, <1>3 DEF vars, Refresh
<1>4. CASE \E d, w \in Device : ApplyRemote(d, w)
  <2>1. PICK d \in Device, w \in Device, e \in ChangeSet, rebuilds \in BOOLEAN : Receives(d, w, e, rebuilds)
    BY <1>1, <1>4, ApplyReceives
  <2>2. \A c \in Device : c # d => reduced'[c] = reduced[c] /\ row'[c] = row[c]
    BY <1>1, <2>1, ReceivesRow
  <2>3. AliasFits(reduced'[d], row'[d])
    BY <1>1, <2>1, ReceivedAlias
  <2> QED BY <1>1, <2>2, <2>3
<1>5. ASSUME NEW d \in Device,
             \/ CreateElement(d) \/ RenameElement(d) \/ ReplaceAliases(d) \/ WriteProse(d)
             \/ TrashElement(d) \/ RestoreElement(d) \/ PurgeElement(d)
      PROVE  \A c \in Device : AliasFits(reduced'[c], row'[c])
  <2>1. AliasFits(reduced[d], row[d])
    BY <1>1
  <2>2. AliasFits(reduced'[d], row'[d])
    BY <1>1, <1>5, <2>1, AuthoredAlias
  <2>3. Alone(d)
    BY <1>1, <1>5, AuthoredAlone
  <2> QED BY <1>1, <2>2, <2>3 DEF Alone
<1> QED BY <1>3, <1>4, <1>5 DEF Next

\* It holds at first.
LEMMA AliasInit == Init => AliasInv
<1> SUFFICES ASSUME Init PROVE AliasInv
  OBVIOUS
<1>1. \A w \in Device : Len(journal[w]) = 0
  BY DEF Init
<1>2. ASSUME NEW d \in Device PROVE AliasFits(reduced[d], row[d])
  <2>1. reduced[d] = InitState /\ row[d] = NoRow /\ NoRow.aliases = {}
    BY DEF Init, NoRow
  <2>2. ~Seeded(InitState, 0)
    BY ZeroIncarnation DEF InitState, Seeded, NoSeed
  <2>3. ~LiveAt(InitState, 0)
    BY <2>2, StatusMeans DEF LiveAt
  <2> QED BY <2>1, <2>3 DEF AliasFits
<1> QED BY <1>1, <1>2 DEF AliasInv, GoneKnown

\* Before the first restore the row shows the aliases added and not removed: a
\* removal names only tags its author had seen, and each new tag carries a new
\* stamp, so no removal, early or late, hits it.
THEOREM AliasesShown == Spec => []AliasesFollowSet
<1>1. AliasInv => AliasesFollowSet
  BY DEF AliasInv, AliasFits, AliasesFollowSet
<1>2. (Basis /\ CausesKnown) /\ RowsFollowLifecycle /\ AliasInv /\ [Next]_vars => AliasInv'
  BY AliasStep
<1> QED BY CausesAlways, LifecycleShown, AliasInit, <1>1, <1>2, PTL DEF Spec
=============================================================================
