------------------------------ MODULE Reducer ------------------------------
(***************************************************************************)
(* The reducer and the materializer: how the change sets of several        *)
(* writers, applied in any order that keeps each writer's own, become one  *)
(* reduced state and the rows and the text a device shows.                 *)
(*                                                                         *)
(* Sources (under src/src/renderer): sync/protocol/order.ts (the hybrid    *)
(* clock and the total order of change sets), sync/reducer/reducer.ts (the *)
(* registers, tagged sets and lifecycles), sync/journal/incarnation.ts     *)
(* (what an author may do in which lifecycle state),                       *)
(* sync/reducer/production-domain-kernel.ts and sqlite-materializer.ts     *)
(* (how effects reach the rows), and the element's own operations          *)
(* (usecase/useBookElement.ts, sync-lifecycle-restore.ts and the alias     *)
(* authority).                                                             *)
(*                                                                         *)
(* The module follows one element of a project: its name (a field          *)
(* register), its aliases (a tagged set), its lifecycle (create, trash,    *)
(* restore, purge) and its prose (Yjs updates).  A device is its writer    *)
(* id, a number; a change set is named by its stamp, which is its place in *)
(* the total order; a name is the stamp of the change set that gave it,    *)
(* and a text is the set of the updates it was put together from.          *)
(***************************************************************************)
EXTENDS Integers, Sequences

CONSTANTS
    Device,          \* the devices, each the only writer of its lane
    Alias,           \* the aliases the element may have
    Wall,            \* Wall[d]: the instants the clock of d may show
    Quota,           \* Quota[d]: bound on the change sets d authors
    MaxIncarnation   \* bound on how often the element is restored

ASSUME DeviceAssumption == Device \subseteq Nat \ {0}
ASSUME WallAssumption == Wall \in [Device -> SUBSET Nat]
ASSUME QuotaAssumption == Quota \in [Device -> Nat]
ASSUME MaxIncarnationAssumption == MaxIncarnation \in Nat

VARIABLES
    journal,   \* journal[w]: the change sets of writer w, in their order
    applied,   \* applied[d][w]: how many of them d has applied
    clock,     \* clock[d]: the hybrid clock of d, <<wall, counter>>
    reduced,   \* reduced[d]: the state the reducer of d holds
    row,       \* row[d]: the element's row in the database of d
    prose,     \* prose[d]: the updates the element's document holds at d
    shown,     \* shown[d]: the name the interface of d has in its store
    astray,    \* history: a row written from something out of date
    ahead      \* history: d has applied a change set before its causes

vars == <<journal, applied, clock, reduced, row, prose, shown, astray, ahead>>
-----------------------------------------------------------------------------
(* The clock and the total order *)

Hlc == Nat \X Nat

\* A stamp is <<wall, counter, writer, sequence>>.
Stamp == Nat \X Nat \X Nat \X Nat
NoStamp == <<0, 0, 0, 0>>

EarlierHlc(g, h) == g[1] < h[1] \/ (g[1] = h[1] /\ g[2] < h[2])

WriterFirst(x, y) ==
    \/ x[1] < y[1]
    \/ x[1] = y[1] /\ x[3] < y[3]
    \/ x[1] = y[1] /\ x[3] = y[3] /\ x[2] < y[2]

\* compareSyncTotalOrder: by clock, then by writer, then by sequence.
Before(x, y) ==
    \/ EarlierHlc(x, y)
    \/ /\ x[1] = y[1] /\ x[2] = y[2]
       /\ x[3] < y[3] \/ (x[3] = y[3] /\ x[4] < y[4])

NextLocalHlc(previous, now) ==
    IF now > previous[1] THEN <<now, 0>> ELSE <<previous[1], previous[2] + 1>>

Larger(m, n) == IF m > n THEN m ELSE n

IgnoresRemote(local, remote, now) == NextLocalHlc(local, now)

\* The wall is the largest of the three, and the counter goes past those of
\* the clocks that show it.
ObserveRemoteHlc(local, remote, now) ==
    LET wall == Larger(now, Larger(local[1], remote[1]))
        Past(h) == IF h[1] = wall THEN h[2] + 1 ELSE 0
    IN  <<wall, Larger(Past(local), Past(remote))>>
-----------------------------------------------------------------------------
(* Change sets *)

Incarnation == 0 .. MaxIncarnation
Operation == {"create", "rename", "aliases", "prose", "trash", "restore", "purge"}

\* The tag of an added alias: the change set that added it, and the
\* incarnation of the set it was added to.
Tag == [by : Stamp, alias : Alias, inc : Incarnation]

ChangeSet ==
    [op : Operation, inc : Incarnation, stamp : Stamp,
     name : Stamp,             \* the name a create or a restore seeds the row with
     adds : SUBSET Alias,      \* the aliases added
     gone : SUBSET Tag,        \* the observed tags removed
     text : SUBSET Stamp,      \* what the Yjs update carries; empty when there is none
     seen : [Device -> Nat]]   \* what the author had applied

Applied(d) == UNION {{w} \X (1 .. applied[d][w]) : w \in Device}
Get(i) == journal[i[1]][i[2]]

\* What the author of e had applied: in its own lane, all that came before e.
Knew(e, i) == i[2] <= e.seen[i[1]]
-----------------------------------------------------------------------------
(* The reducer *)

Seed == [by : Stamp, name : Stamp]
NoSeed == [by |-> NoStamp, name |-> NoStamp]

State ==
    [seeds   : [Incarnation -> Seed],      \* the create or restore of each incarnation
     trashes : SUBSET Incarnation,         \* the incarnations that were trashed
     purged  : BOOLEAN,
     names   : [Incarnation -> Stamp],     \* the name register of each incarnation
     adds    : SUBSET Tag,
     removed : SUBSET Tag]

InitState ==
    [seeds |-> [i \in Incarnation |-> NoSeed], trashes |-> {}, purged |-> FALSE,
     names |-> [i \in Incarnation |-> NoStamp], adds |-> {}, removed |-> {}]

LastArrivalWins(incoming, current) == TRUE

\* A register takes a write that is later in the total order, or its first.
Wins(incoming, current) == current = NoStamp \/ Before(current, incoming)

NextTags(e) == {[by |-> e.stamp, alias |-> a, inc |-> e.inc + 1] : a \in e.adds}
Tags(e) == {[by |-> e.stamp, alias |-> a, inc |-> e.inc] : a \in e.adds}

\* applyPreparedMutation for every mutation of the change set e.
Reduce(r, e) ==
    [seeds |-> IF e.op \in {"create", "restore"} /\ Wins(e.stamp, r.seeds[e.inc].by)
               THEN [r.seeds EXCEPT ![e.inc] = [by |-> e.stamp, name |-> e.name]]
               ELSE r.seeds,
     trashes |-> IF e.op = "trash" THEN r.trashes \union {e.inc} ELSE r.trashes,
     purged |-> r.purged \/ e.op = "purge",
     names |-> IF e.op = "rename" /\ Wins(e.stamp, r.names[e.inc])
               THEN [r.names EXCEPT ![e.inc] = e.stamp] ELSE r.names,
     adds |-> r.adds \union Tags(e),
     removed |-> r.removed \union e.gone]

Seeded(r, i) == r.seeds[i].by # NoStamp

\* The walk from incarnation 0: on while this one is trashed and the next seeded.
WalksOn(r, i) == i \in r.trashes /\ i + 1 \in Incarnation /\ Seeded(r, i + 1)
Current(r) ==
    CHOOSE i \in Incarnation : ~WalksOn(r, i) /\ \A j \in Incarnation : j < i => WalksOn(r, j)

\* resolvedLifecycle: a purge decides alone; without a create nothing is resolved.
Status(r) ==
    IF r.purged THEN "purged"
    ELSE IF ~Seeded(r, 0) THEN "unresolved"
    ELSE IF Current(r) \in r.trashes THEN "trashed" ELSE "live"

\* canMaterializeTarget, for an element the reducer has a lifecycle of.
LiveAt(r, i) == Status(r) = "live" /\ Current(r) = i

VisibleAdds(r) == r.adds \ r.removed
AliasesAt(r, i) == {t.alias : t \in {u \in VisibleAdds(r) : u.inc = i}}

\* The name a live row should show.
NameOf(r) == LET i == Current(r) IN
             IF r.names[i] # NoStamp THEN r.names[i] ELSE r.seeds[i].name
-----------------------------------------------------------------------------
(* The materializer *)

Row == [state : {"none", "live", "trashed"}, name : Stamp, aliases : SUBSET Alias]
NoRow == [state |-> "none", name |-> NoStamp, aliases |-> {}]

NamesOnly(r) == [names |-> r.names, status |-> Status(r)]

\* The effects whose change makes the element dirty.  A Yjs update is an
\* effect of its document and does not.
Effects(r) ==
    [names |-> r.names,
     tags |-> VisibleAdds(r),
     removed |-> {[alias |-> t.alias, inc |-> t.inc] : t \in r.removed},
     status |-> Status(r),
     life |-> IF Status(r) \in {"live", "trashed"} THEN <<Current(r), r.seeds[Current(r)]>>
                                                  ELSE <<0, NoSeed>>]

KeepsTrashMark(old, r) ==
    IF Status(r) = "live" /\ old.state # "trashed"
    THEN [state |-> "live", name |-> NameOf(r), aliases |-> {t.alias : t \in VisibleAdds(r)}]
    ELSE IF Status(r) = "trashed" /\ old.state # "none" THEN [old EXCEPT !.state = "trashed"]
    ELSE IF Status(r) = "purged" THEN NoRow
    ELSE old

SeedOnly(old, r) ==
    IF Status(r) = "live"
    THEN [state |-> "live", name |-> r.seeds[Current(r)].name,
          aliases |-> {t.alias : t \in VisibleAdds(r)}]
    ELSE IF Status(r) = "trashed" /\ old.state # "none" THEN [old EXCEPT !.state = "trashed"]
    ELSE IF Status(r) = "purged" THEN NoRow
    ELSE old

\* The rows of a dirty element, rebuilt from the reduced state r in the order
\* of the kernel: the row from its seed, the aliases, the fields, then trash
\* and purge.  The aliases are those of every incarnation.
Rebuilt(old, r) ==
    LET live == Status(r) = "live"
        touched == \E t \in r.adds \union r.removed : t.inc = Current(r)
    IN  IF live
        THEN [state |-> "live", name |-> NameOf(r),
              aliases |-> IF touched THEN {t.alias : t \in VisibleAdds(r)} ELSE old.aliases]
        ELSE IF Status(r) = "trashed" /\ old.state # "none"
        THEN [old EXCEPT !.state = "trashed"]
        ELSE IF Status(r) = "purged" THEN NoRow
        ELSE old

FirstTextOnly(r, e) ==
    IF LiveAt(r, e.inc) /\ e.op \in {"create", "restore"} THEN e.text ELSE {}

\* A Yjs update is applied only when it arrives while its incarnation of the
\* element is live; otherwise it is receipted and never tried again.
TextTaken(r, e) == IF LiveAt(r, e.inc) THEN e.text ELSE {}
-----------------------------------------------------------------------------
Init ==
    /\ journal = [w \in Device |-> <<>>]
    /\ applied = [d \in Device |-> [w \in Device |-> 0]]
    /\ clock = [d \in Device |-> <<0, 0>>]
    /\ reduced = [d \in Device |-> InitState]
    /\ row = [d \in Device |-> NoRow]
    /\ prose = [d \in Device |-> {}]
    /\ shown = [d \in Device |-> NoStamp]
    /\ astray = [d \in Device |-> FALSE]
    /\ ahead = [d \in Device |-> FALSE]
-----------------------------------------------------------------------------
(* Authored transactions *)

\* The stamp of the next change set of d when its clock shows the instant now.
NextStamp(d, now) ==
    LET hlc == NextLocalHlc(clock[d], now)
    IN  <<hlc[1], hlc[2], d, Len(journal[d]) + 1>>

\* A local change set whose own effects would not materialize is refused, and
\* the transaction with it.
LocalAccepted(r, e) ==
    (e.op = "rename" \/ e.adds # {} \/ e.gone # {} \/ e.text # {}) => LiveAt(r, e.inc)

\* Journal e, reduce it and write the row, in one transaction.
Author(d, e, newRow) ==
    /\ Len(journal[d]) < Quota[d]
    /\ LocalAccepted(Reduce(reduced[d], e), e)
    /\ journal' = [journal EXCEPT ![d] = Append(@, e)]
    /\ applied' = [applied EXCEPT ![d][d] = @ + 1]
    /\ clock' = [clock EXCEPT ![d] = <<e.stamp[1], e.stamp[2]>>]
    /\ reduced' = [reduced EXCEPT ![d] = Reduce(@, e)]
    /\ row' = [row EXCEPT ![d] = newRow]
    /\ prose' = [prose EXCEPT ![d] = @ \union e.text]
    /\ UNCHANGED ahead

\* A change set of d that says nothing yet; the operations fill it in.
Draft(d, op, stamp) ==
    [op |-> op, inc |-> Current(reduced[d]), stamp |-> stamp, name |-> NoStamp,
     adds |-> {}, gone |-> {}, text |-> {}, seen |-> applied[d]]

\* The element is in the store of the interface, and its lifecycle is live.
Editable(d) == shown[d] # NoStamp /\ row[d].state = "live" /\ Status(reduced[d]) = "live"

\* createElement: the row, its aliases and the full text it starts with.  The
\* id is fresh, so the element is created once.
CreateElement(d) ==
    \E now \in Wall[d], aliases \in SUBSET Alias :
        LET s == NextStamp(d, now)
            e == [Draft(d, "create", s) EXCEPT !.name = s, !.adds = aliases, !.text = {s}]
        IN  /\ \A w \in Device : \A n \in 1 .. Len(journal[w]) : journal[w][n].op # "create"
            /\ Author(d, e, [state |-> "live", name |-> s, aliases |-> aliases])
            /\ shown' = [shown EXCEPT ![d] = s]
            /\ UNCHANGED astray

\* updateElement with a new name.
RenameElement(d) ==
    \E now \in Wall[d] :
        LET s == NextStamp(d, now)
        IN  /\ Editable(d)
            /\ Author(d, Draft(d, "rename", s), [row[d] EXCEPT !.name = s])
            /\ shown' = [shown EXCEPT ![d] = s]
            /\ astray' = [astray EXCEPT ![d] = FALSE]

\* updateElement with new aliases: every observed tag of an alias that goes is
\* removed.  The row takes every other column from the store, the name too,
\* and only the aliases are journaled.
ReplaceAliases(d) ==
    \E now \in Wall[d], aliases \in SUBSET Alias :
        LET r == reduced[d]
            i == Current(r)
            e == [Draft(d, "aliases", NextStamp(d, now)) EXCEPT
                    !.adds = aliases \ AliasesAt(r, i),
                    !.gone = {t \in VisibleAdds(r) : t.inc = i /\ t.alias \notin aliases}]
        IN  /\ Editable(d)
            /\ e.adds # {} \/ e.gone # {}
            /\ Author(d, e, [row[d] EXCEPT !.aliases = aliases, !.name = shown[d]])
            /\ astray' = [astray EXCEPT ![d] = @ \/ shown[d] # row[d].name]
            /\ UNCHANGED shown

\* appendAuthoredYjsUpdate: one update of the open document.
WriteProse(d) ==
    \E now \in Wall[d] :
        LET s == NextStamp(d, now)
        IN  /\ Editable(d)
            /\ Author(d, [Draft(d, "prose", s) EXCEPT !.text = {s}], row[d])
            /\ UNCHANGED <<shown, astray>>

\* removeElement.  When a restore is here before the trash it answers, the
\* element stays live in the reduced state, and the row is trashed all the same.
TrashElement(d) ==
    \E now \in Wall[d] :
        LET e == Draft(d, "trash", NextStamp(d, now))
        IN  /\ Editable(d)
            /\ Author(d, e, [row[d] EXCEPT !.state = "trashed"])
            /\ shown' = [shown EXCEPT ![d] = NoStamp]
            /\ astray' = [astray EXCEPT ![d] = @ \/ Status(Reduce(reduced[d], e)) = "live"]

\* restoreElement: a new incarnation, seeded with what the row holds here, its
\* aliases added anew and its whole text carried along.
RestoreElement(d) ==
    \E now \in Wall[d] :
        LET s == NextStamp(d, now)
            next == Current(reduced[d]) + 1
            e == [Draft(d, "restore", s) EXCEPT
                    !.inc = next, !.name = row[d].name, !.adds = row[d].aliases,
                    !.text = prose[d] \union {s}]
        IN  /\ row[d].state = "trashed" /\ Status(reduced[d]) = "trashed"
            /\ next \in Incarnation
            /\ Author(d, e, [row[d] EXCEPT !.state = "live"])
            /\ shown' = [shown EXCEPT ![d] = row[d].name]
            /\ astray' = [astray EXCEPT ![d] = reduced[d].names[next] # NoStamp]

\* purgeElement, from the trash.  An element whose row alone is trashed is
\* purged too, and its live aliases removed with it: that removal would not
\* materialize, so the purge is refused where there are any.
PurgeElement(d) ==
    \E now \in Wall[d] :
        LET r == reduced[d]
            e == [Draft(d, "purge", NextStamp(d, now)) EXCEPT
                    !.gone = {t \in VisibleAdds(r) : LiveAt(r, t.inc)}]
        IN  /\ row[d].state = "trashed" /\ Status(r) \in {"trashed", "live"}
            /\ Author(d, e, NoRow)
            /\ UNCHANGED <<shown, astray>>
-----------------------------------------------------------------------------
(* The others' change sets, and the interface *)

\* Stage, reduce, materialize and receipt the next change set of lane w.  The
\* row is rebuilt when the change set made the element dirty, or else when the
\* application was restarted and the last projection is not in memory.
ApplyRemote(d, w) ==
    /\ w # d
    /\ applied[d][w] < Len(journal[w])
    /\ LET e == journal[w][applied[d][w] + 1]
           r == Reduce(reduced[d], e)
           dirty == Effects(r) # Effects(reduced[d])
       IN  \E now \in Wall[d], rebuilds \in {dirty, TRUE} :
            /\ applied' = [applied EXCEPT ![d][w] = @ + 1]
            /\ clock' = [clock EXCEPT ![d] = ObserveRemoteHlc(@, <<e.stamp[1], e.stamp[2]>>, now)]
            /\ reduced' = [reduced EXCEPT ![d] = r]
            /\ row' = IF rebuilds THEN [row EXCEPT ![d] = Rebuilt(@, r)] ELSE row
            /\ prose' = [prose EXCEPT ![d] = @ \union TextTaken(r, e)]
            /\ astray' = [astray EXCEPT ![d] = @ /\ ~(rebuilds /\ Status(r) = "live")]
            /\ ahead' = [ahead EXCEPT ![d] = @ \/ \E v \in Device : applied[d][v] < e.seen[v]]
            /\ UNCHANGED <<journal, shown>>

\* The interface loads the live rows after a remote change set was committed.
Refresh(d) ==
    /\ shown' = [shown EXCEPT ![d] = IF row[d].state = "live" THEN row[d].name ELSE NoStamp]
    /\ UNCHANGED <<journal, applied, clock, reduced, row, prose, astray, ahead>>
-----------------------------------------------------------------------------
Next ==
    \E d \in Device :
        \/ CreateElement(d)
        \/ RenameElement(d)
        \/ ReplaceAliases(d)
        \/ WriteProse(d)
        \/ TrashElement(d)
        \/ RestoreElement(d)
        \/ PurgeElement(d)
        \/ \E w \in Device : ApplyRemote(d, w)
        \/ Refresh(d)

Spec == Init /\ [][Next]_vars
-----------------------------------------------------------------------------
(* Properties *)

\* Every variable has its type, and a device has applied no more of a lane
\* than was written, and all of its own.
TypeOK ==
    /\ journal \in [Device -> Seq(ChangeSet)]
    /\ applied \in [Device -> [Device -> Nat]]
    /\ \A d \in Device : applied[d][d] = Len(journal[d])
    /\ \A d, w \in Device : applied[d][w] <= Len(journal[w])
    /\ clock \in [Device -> Hlc]
    /\ reduced \in [Device -> State]
    /\ row \in [Device -> Row]
    /\ prose \in [Device -> SUBSET Stamp]
    /\ shown \in [Device -> Stamp]
    /\ astray \in [Device -> BOOLEAN]
    /\ ahead \in [Device -> BOOLEAN]

\* A change set comes, in the total order, after every change set its author
\* had applied, whatever the devices' clocks show: observing the clock of each
\* applied change set is what makes the last writer the one who knew the rest.
CausalOrder ==
    \A d, v \in Device : \A n \in 1 .. Len(journal[d]) :
        LET e == journal[d][n]
        IN  \A k \in 1 .. e.seen[v] : Before(journal[v][k].stamp, e.stamp)

\* Two devices that have applied the same change sets hold the same reduced
\* state, in whatever order the lanes of the writers reached each of them.
SameHistorySameState ==
    \A d, e \in Device : applied[d] = applied[e] => reduced[d] = reduced[e]

\* The name a live element has was not already known to the author of another
\* rename of the same incarnation that the device has applied: no device falls
\* back to a name that somebody saw and replaced.
NoNameComesBack ==
    \A d \in Device : Status(reduced[d]) = "live" =>
        \A i, j \in Applied(d) :
            /\ Get(i).op = "rename" /\ Get(i).inc = Current(reduced[d])
            /\ Get(j).stamp = NameOf(reduced[d])
            => ~Knew(Get(i), j)

\* The row is live exactly where the element is, is gone where the element was
\* purged, and does not exist before the create has arrived, in whatever order
\* create, trash, restore and purge arrived and whoever wrote the row last.
RowsFollowLifecycle ==
    \A d \in Device :
        /\ ~astray[d] => (row[d].state = "live" <=> Status(reduced[d]) = "live")
        /\ Status(reduced[d]) \in {"purged", "unresolved"} => row[d] = NoRow

\* A live row shows the winning name of the current incarnation, unless the
\* device itself wrote it from a store or a row that was out of date and no
\* change set has had it rebuilt since.
RowsFollowState ==
    \A d \in Device :
        Status(reduced[d]) = "live" /\ ~astray[d] => row[d].name = NameOf(reduced[d])

\* Before the first restore the row shows the aliases that were added and not
\* removed by someone who had seen them added.
AliasesFollowSet ==
    \A d \in Device :
        LET r == reduced[d]
        IN  LiveAt(r, 0) /\ (\A t \in r.adds : t.inc = 0)
            => row[d].aliases = AliasesAt(r, 0)

\* Two devices with the same change sets hold the same text of an element that
\* was never trashed, provided each change set reached them after its causes.
ProseConvergesInOrder ==
    \A d, e \in Device :
        /\ applied[d] = applied[e]
        /\ ~ahead[d] /\ ~ahead[e]
        /\ reduced[d].trashes = {}
        => prose[d] = prose[e]
=============================================================================
