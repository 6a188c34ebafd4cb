---------------------------- MODULE SyncScheduler ----------------------------
(***************************************************************************)
(* When a sync cycle runs: the scheduler of the mounted coordinator        *)
(* (src/renderer/sync/engine/{scheduler,coordinator}.ts), the holds that   *)
(* stop it while the local replica changes owner                           *)
(* (product-runtime-control.ts) and the reloads that replace it            *)
(* (production-runtime.ts).                                                *)
(*                                                                         *)
(* JavaScript runs one callback at a time, so every action is a whole      *)
(* callback: a method edits the scheduler's record and ends in             *)
(* scheduleWake.  Every instant is kept as the time that is left until it, *)
(* which Tick counts down.  The triggers manual, start, resume, online,    *)
(* lifecycle-flush and self-publish ask for the same thing: "now".         *)
(***************************************************************************)
EXTENDS Integers, FiniteSets

CONSTANTS
  Generation,       \* what is scheduled: the projects, and their agent chats
  Position,         \* Position[g]: where g stands in generationOrder, from 0
  None,             \* no instant, no generation
  Debounce,         \* LOCAL_COMMIT_DEBOUNCE_MS
  ActivePoll, WarmPoll, IdlePoll,   \* the FOREGROUND_POLL_INTERVAL_MS
  ActiveWindow, WarmWindow,         \* how long activity shortens them
  Delay,            \* the retry delays an error may ask for
  Holder,           \* who holds the engine: a disconnect, a project delete
  MaxReloads        \* bound: how often the coordinator is replaced

ASSUME PositionAssumption ==
  /\ IsFiniteSet(Generation)
  /\ Position \in [Generation -> 0 .. Cardinality(Generation) - 1]
  /\ \A g, h \in Generation : Position[g] = Position[h] => g = h
ASSUME NoneAssumption == None \notin Generation /\ None \notin Int
ASSUME TimesAssumption ==
  /\ Debounce \in Nat \ {0} /\ ActivePoll \in Nat \ {0}
  /\ WarmPoll \in Nat \ {0} /\ IdlePoll \in Nat \ {0}
  /\ ActiveWindow \in Nat /\ WarmWindow \in Nat /\ ActiveWindow <= WarmWindow
  /\ Delay \subseteq Nat /\ Delay # {}
ASSUME ReloadsAssumption == MaxReloads \in Nat

VARIABLES
  sched,        \* the scheduler of the mounted coordinator
  mounted,      \* a coordinator is exposed
  held,         \* its providerChangeHeld
  epoch,        \* how many coordinators there have been
  orphans,      \* the coordinators shut down with a cycle still running
  holder,       \* what each holder has: "out", "draining", "holding"
  drains,       \* the coordinator whose cycle a draining holder waits for
  away,         \* the operating system suspended the application
  notBefore     \* how long each generation has to wait since its last failure

vars == <<sched, mounted, held, epoch, orphans, holder, drains, away, notBefore>>

-----------------------------------------------------------------------------
(* The scheduler's record *)

Trigger == {"local", "poll", "retry", "now"}

\* A pending cycle has a trigger; one without is no job at all.
NoJob == [due |-> 0, triggers |-> {}, floor |-> None]

Pending(s, g) == s.job[g].triggers # {}

Earlier(a, b) == IF a < b THEN a ELSE b
Later(a, b) == IF a > b THEN a ELSE b

\* What is due is due: how long ago no longer matters.
CountDown(t) == IF t = None THEN None ELSE Later(t - 1, 0)

CanRun(s) == s.online /\ ~s.suspended

\* foregroundPollIntervalMs, wait from now.  Activity older than WarmWindow is
\* the same as none.
Interval(s, g, wait) ==
  IF s.age[g] + wait < ActiveWindow THEN ActivePoll
  ELSE IF s.age[g] + wait < WarmWindow THEN WarmPoll
  ELSE IdlePoll

\* Mutant: a queued trigger forgets the not-before time of the job it joins.
QueuedOverFloor(j, t, due) ==
  [due      |-> IF j.triggers = {} THEN due ELSE Earlier(j.due, due),
   triggers |-> j.triggers \cup {t},
   floor    |-> j.floor]

Queued(j, t, due) ==
  LET wanted == IF j.triggers = {} THEN due ELSE Earlier(j.due, due)
  IN  [due      |-> IF j.floor = None THEN wanted ELSE Later(wanted, j.floor),
       triggers |-> j.triggers \cup {t},
       floor    |-> j.floor]

Queue(s, g, t, due) == [s EXCEPT !.job[g] = Queued(@, t, due)]

(* scheduleWake *)

PollIsDue(s, g) == s.foreground /\ s.poll[g] = 0

\* Mutant: a poll that was queued never sets the next one.
EnqueuesOnce(s) ==
  [s EXCEPT
     !.job  = [g \in Generation |-> IF PollIsDue(s, g) /\ ~Pending(s, g)
                                    THEN Queued(s.job[g], "poll", 0) ELSE s.job[g]],
     !.poll = [g \in Generation |-> IF PollIsDue(s, g) THEN None ELSE s.poll[g]]]

\* A poll that is due joins the pending job, or becomes one; the next poll is
\* counted from when that job is due.
EnqueuePolls(s) ==
  [s EXCEPT
     !.job  = [g \in Generation |-> IF PollIsDue(s, g) /\ ~Pending(s, g)
                                    THEN Queued(s.job[g], "poll", 0) ELSE s.job[g]],
     !.poll = [g \in Generation |-> IF PollIsDue(s, g)
                                    THEN s.job[g].due + Interval(s, g, s.job[g].due)
                                    ELSE s.poll[g]]]

Due(s) == { g \in Generation : Pending(s, g) /\ s.job[g].due = 0 }

\* How far g is behind the generation that ran last, round the order.
Turn(s, g) ==
  LET last == IF s.last = None THEN -1 ELSE Position[s.last]
  IN  (Position[g] - last - 1) % Cardinality(Generation)

\* Mutant: the search always starts at the first generation.
FirstDue(s) == CHOOSE g \in Due(s) : \A h \in Due(s) : Position[g] <= Position[h]

SelectDue(s) == CHOOSE g \in Due(s) : \A h \in Due(s) : Turn(s, g) <= Turn(s, h)

Deadlines(s) ==
  { s.job[g].due : g \in { h \in Generation : Pending(s, h) } }
    \cup (IF s.foreground THEN { s.poll[g] : g \in Generation } \ {None} ELSE {})

\* Mutant: the started job leaves its not-before time behind.
StartsKeepingFloor(s, g) ==
  [s EXCEPT !.active = g, !.aborted = FALSE, !.timer = None,
            !.job[g] = [NoJob EXCEPT !.floor = s.job[g].floor]]

Start(s, g) ==
  [s EXCEPT !.active = g, !.aborted = FALSE, !.job[g] = NoJob, !.timer = None]

SetTimer(s) ==
  [s EXCEPT !.timer = IF Deadlines(s) = {} THEN None
                      ELSE CHOOSE t \in Deadlines(s) : \A u \in Deadlines(s) : t <= u]

Wake(s) ==
  LET polled == EnqueuePolls(s)
  IN  IF ~CanRun(s) \/ s.active # None THEN [s EXCEPT !.timer = None]
      ELSE IF Due(polled) # {} THEN Start(polled, SelectDue(polled))
      ELSE SetTimer(polled)

(* Its methods *)

QueueAll(s) ==
  Wake([s EXCEPT !.job = [g \in Generation |-> Queued(s.job[g], "now", 0)]])

\* noteAuthoredActivity: the next poll comes no later than ActivePoll from now,
\* or ActivePoll after the time a retry has to wait for.
NoteActivity(s, g) ==
  LET floor == s.job[g].floor
      next  == IF floor # None THEN Later(floor + ActivePoll, 0)
               ELSE IF s.poll[g] = None THEN ActivePoll
               ELSE Earlier(s.poll[g], ActivePoll)
  IN  [s EXCEPT !.age[g] = 0, !.poll[g] = IF s.foreground THEN next ELSE @]

\* A job of nothing but local commits is put off again.
TriggerLocalCommit(s, g) ==
  LET noted == NoteActivity(s, g)
  IN  Wake(IF s.job[g].triggers = {"local"}
           THEN [noted EXCEPT !.job[g].due = Debounce]
           ELSE Queue(noted, g, "local", Debounce))

\* scheduleRetry, while the failed cycle is still active.
ScheduleRetry(s, g, delay) ==
  LET j     == s.job[g]
      floor == IF j.floor = None THEN delay ELSE Later(j.floor, delay)
  IN  [s EXCEPT !.job[g]  = [due      |-> Later(j.due, floor),
                             triggers |-> j.triggers \cup {"retry"},
                             floor    |-> floor],
                !.poll[g] = IF s.foreground THEN delay + Interval(s, g, delay) ELSE @]

Abort(s) == [s EXCEPT !.aborted = s.active # None, !.timer = None]

SetOnline(s, b) ==
  IF s.online = b THEN s
  ELSE IF b THEN QueueAll([s EXCEPT !.online = TRUE])
  ELSE Abort([s EXCEPT !.online = FALSE])

SetSuspended(s, b) ==
  IF s.suspended = b THEN s
  ELSE IF b THEN Abort([s EXCEPT !.suspended = TRUE])
  ELSE QueueAll([s EXCEPT !.suspended = FALSE])

\* Mutant: a poll that was already queued survives the loss of focus.
KeepsQueuedPoll(s) ==
  Wake([s EXCEPT !.foreground = FALSE, !.poll = [g \in Generation |-> None]])

Blur(s) ==
  Wake([s EXCEPT !.foreground = FALSE,
                 !.poll = [g \in Generation |-> None],
                 !.job  = [g \in Generation |-> IF s.job[g].triggers = {"poll"}
                                                THEN NoJob ELSE s.job[g]]])

\* Mutant: the new deadlines are set and no timer for them.
FocusWithoutWake(s) ==
  [s EXCEPT !.foreground = TRUE,
            !.poll = [g \in Generation |-> Interval(s, g, 0)]]

Focus(s) ==
  LET wait(g) == IF s.job[g].floor = None THEN 0 ELSE Later(s.job[g].floor, 0)
  IN  Wake([s EXCEPT !.foreground = TRUE,
                     !.poll = [g \in Generation |-> wait(g) + Interval(s, g, wait(g))]])

SetForeground(s, b) ==
  IF s.foreground = b THEN s ELSE IF b THEN Focus(s) ELSE Blur(s)

\* The active cycle has settled.
Finished(s) ==
  Wake([s EXCEPT !.active = None, !.aborted = FALSE, !.last = s.active])

\* A coordinator with every generation registered, before its first trigger.
Fresh ==
  [job   |-> [g \in Generation |-> NoJob],
   poll  |-> [g \in Generation |-> None],
   age   |-> [g \in Generation |-> WarmWindow],
   timer |-> None, active |-> None, aborted |-> FALSE, last |-> None,
   online |-> TRUE, suspended |-> FALSE, foreground |-> FALSE]

-----------------------------------------------------------------------------
Holding == { h \in Holder : holder[h] # "out" }

\* installSyncEngineCoordinatorRuntime: set the foreground, then trigger a start.
\* With a hold in force the coordinator is exposed and suspended again.
Installed(isVisible) ==
  LET s == QueueAll(SetForeground(Fresh, isVisible))
  IN  IF Holding = {} THEN s ELSE SetSuspended(s, TRUE)

Init ==
  /\ sched = Fresh /\ mounted = FALSE /\ held = FALSE /\ epoch = 0 /\ orphans = {}
  /\ holder = [h \in Holder |-> "out"] /\ drains = [h \in Holder |-> 0]
  /\ away = FALSE /\ notBefore = [g \in Generation |-> 0]

\* An action of a callback of the mounted coordinator.
Call(s) ==
  /\ mounted
  /\ sched' = s
  /\ UNCHANGED <<mounted, held, epoch, orphans, holder, drains, away, notBefore>>

(* Time *)

Tick ==
  /\ sched' = [sched EXCEPT
       !.job   = [g \in Generation |->
                    [sched.job[g] EXCEPT
                       !.due   = CountDown(@),
                       !.floor = IF @ = None THEN None ELSE Later(@ - 1, -ActivePoll)]],
       !.poll  = [g \in Generation |-> CountDown(sched.poll[g])],
       !.age   = [g \in Generation |-> Earlier(sched.age[g] + 1, WarmWindow)],
       !.timer = CountDown(@)]
  /\ notBefore' = [g \in Generation |-> CountDown(notBefore[g])]
  /\ UNCHANGED <<mounted, held, epoch, orphans, holder, drains, away>>

TimerFires == sched.timer = 0 /\ Call(Wake([sched EXCEPT !.timer = None]))

(* What wakes the scheduler *)

LocalCommit(g) == Call(TriggerLocalCommit(sched, g))

TriggerManual(g) == Call(Wake(Queue(sched, g, "now", 0)))

LifecycleFlush == Call(QueueAll(sched))

WindowOnline(b) == sched.online # b /\ Call(SetOnline(sched, b))

WindowFocus(b) == sched.foreground # b /\ Call(SetForeground(sched, b))

(* How a cycle ends.  What an aborted cycle returns or throws is ignored. *)

CycleSucceeds(requiresRepull) ==
  /\ sched.active # None
  /\ Call(Finished(IF requiresRepull /\ ~sched.aborted
                   THEN Queue(sched, sched.active, "now", 0) ELSE sched))

CycleGivesUp ==
  /\ sched.active # None
  /\ Call(Finished(sched))

CycleFails(delay) ==
  /\ mounted
  /\ sched.active # None
  /\ ~sched.aborted
  /\ sched' = Finished(ScheduleRetry(sched, sched.active, delay))
  /\ notBefore' = [notBefore EXCEPT ![sched.active] = delay]
  /\ UNCHANGED <<mounted, held, epoch, orphans, holder, drains, away>>

OrphanEnds(k) ==
  /\ k \in orphans
  /\ orphans' = orphans \ {k}
  /\ UNCHANGED <<sched, mounted, held, epoch, holder, drains, away, notBefore>>

(* The application is suspended and resumed by the operating system *)

NativeSuspend ==
  /\ ~away
  /\ away' = TRUE
  /\ sched' = IF mounted THEN SetSuspended(sched, TRUE) ELSE sched
  /\ UNCHANGED <<mounted, held, epoch, orphans, holder, drains, notBefore>>

\* Mutant: a hold does not keep a resumed application from waking the scheduler.
ResumesOverHold ==
  /\ away
  /\ away' = FALSE
  /\ sched' = IF mounted THEN QueueAll(SetSuspended(sched, FALSE)) ELSE sched
  /\ UNCHANGED <<mounted, held, epoch, orphans, holder, drains, notBefore>>

NativeResume ==
  /\ away
  /\ away' = FALSE
  /\ sched' = IF mounted /\ ~held THEN QueueAll(SetSuspended(sched, FALSE)) ELSE sched
  /\ UNCHANGED <<mounted, held, epoch, orphans, holder, drains, notBefore>>

(* Holds *)

\* Mutant: the running cycle is aborted, the next one is not prevented.
HoldsUnsuspended(h) ==
  /\ holder[h] = "out"
  /\ holder' = [holder EXCEPT ![h] = IF mounted THEN "draining" ELSE "holding"]
  /\ drains' = [drains EXCEPT ![h] = epoch]
  /\ held' = mounted
  /\ sched' = IF mounted THEN Abort(sched) ELSE sched
  /\ UNCHANGED <<mounted, epoch, orphans, away, notBefore>>

\* With no coordinator there is nothing to wait for.
Hold(h) ==
  /\ holder[h] = "out"
  /\ holder' = [holder EXCEPT ![h] = IF mounted THEN "draining" ELSE "holding"]
  /\ drains' = [drains EXCEPT ![h] = epoch]
  /\ held' = mounted
  /\ sched' = IF mounted THEN SetSuspended(sched, TRUE) ELSE sched
  /\ UNCHANGED <<mounted, epoch, orphans, away, notBefore>>

\* The active cycle of the coordinator that was mounted at hold() has settled.
Drained(h) ==
  IF mounted /\ drains[h] = epoch THEN sched.active = None ELSE drains[h] \notin orphans

GrantHold(h) ==
  /\ holder[h] = "draining"
  /\ Drained(h)
  /\ holder' = [holder EXCEPT ![h] = "holding"]
  /\ UNCHANGED <<sched, mounted, held, epoch, orphans, drains, away, notBefore>>

\* Mutant: the last release leaves providerChangeHeld set.
StaysHeld(h) ==
  /\ holder[h] = "holding"
  /\ holder' = [holder EXCEPT ![h] = "out"]
  /\ sched' = IF Holding = {h} /\ mounted THEN SetSuspended(sched, FALSE) ELSE sched
  /\ UNCHANGED <<mounted, held, epoch, orphans, drains, away, notBefore>>

\* The last release resumes the coordinator that is mounted by then.
Release(h) ==
  /\ holder[h] = "holding"
  /\ holder' = [holder EXCEPT ![h] = "out"]
  /\ IF Holding = {h} /\ mounted
     THEN /\ held' = FALSE
          /\ sched' = SetSuspended(sched, FALSE)
     ELSE UNCHANGED <<held, sched>>
  /\ UNCHANGED <<mounted, epoch, orphans, drains, away, notBefore>>

(* The coordinator is replaced: when the database or the authority changes. *)

\* Nothing waits for the cycle that was running, and nothing remembers which
\* generation was told to wait.
Deactivate ==
  /\ mounted
  /\ epoch <= MaxReloads
  /\ mounted' = FALSE
  /\ held' = FALSE
  /\ orphans' = IF sched.active = None THEN orphans ELSE orphans \cup {epoch}
  /\ sched' = Fresh
  /\ notBefore' = [g \in Generation |-> 0]
  /\ UNCHANGED <<epoch, holder, drains, away>>

Activate(isVisible) ==
  /\ ~mounted
  /\ mounted' = TRUE
  /\ epoch' = epoch + 1
  /\ held' = (Holding # {})
  /\ sched' = Installed(isVisible)
  /\ UNCHANGED <<orphans, holder, drains, away, notBefore>>

-----------------------------------------------------------------------------
CycleEnds ==
  \/ \E b \in BOOLEAN : CycleSucceeds(b)
  \/ CycleGivesUp
  \/ \E d \in Delay : CycleFails(d)

Next ==
  \/ Tick \/ TimerFires \/ CycleEnds \/ LifecycleFlush
  \/ \E g \in Generation : LocalCommit(g) \/ TriggerManual(g)
  \/ \E b \in BOOLEAN : WindowOnline(b) \/ WindowFocus(b) \/ Activate(b)
  \/ \E k \in orphans : OrphanEnds(k)
  \/ NativeSuspend \/ NativeResume
  \/ \E h \in Holder : Hold(h) \/ GrantHold(h) \/ Release(h)
  \/ Deactivate

Spec == Init /\ [][Next]_vars

\* Time passes, timers fire, and every cycle settles in the end: its provider
\* calls have timeouts and its signal aborts them.  Nobody has to write, to
\* touch the window or to release a hold.
Fairness ==
  /\ WF_vars(Tick) /\ WF_vars(TimerFires) /\ WF_vars(CycleEnds)
  /\ \A k \in 1 .. MaxReloads + 1 : WF_vars(OrphanEnds(k))
  /\ \A h \in Holder : WF_vars(GrantHold(h))

LiveSpec == Spec /\ Fairness

-----------------------------------------------------------------------------
(* Properties *)

Instant == Nat \cup {None}

Job == [due : Nat, triggers : SUBSET Trigger, floor : Int \cup {None}]

Scheduler ==
  [job : [Generation -> Job], poll : [Generation -> Instant],
   age : [Generation -> Nat], timer : Instant,
   active : Generation \cup {None}, aborted : BOOLEAN, last : Generation \cup {None},
   online : BOOLEAN, suspended : BOOLEAN, foreground : BOOLEAN]

\* A job without a trigger is no job; only a retry gives one a time to wait for,
\* and it is not due before.
JobOK(j) ==
  /\ j.triggers = {} => j = NoJob
  /\ j.floor # None => "retry" \in j.triggers /\ j.floor <= j.due

SchedulerOK(s) == s \in Scheduler /\ \A g \in Generation : JobOK(s.job[g])

\* Every variable has its type, and every job is well formed.
TypeOK ==
  /\ SchedulerOK(sched)
  /\ mounted \in BOOLEAN /\ held \in BOOLEAN /\ away \in BOOLEAN
  /\ epoch \in Nat /\ orphans \subseteq 1 .. epoch /\ (mounted => epoch > 0)
  /\ holder \in [Holder -> {"out", "draining", "holding"}]
  /\ drains \in [Holder -> 0 .. epoch]
  /\ notBefore \in [Generation -> Nat]

\* The timer is at the earliest deadline.
Armed(s) ==
  IF Deadlines(s) = {} THEN s.timer = None
  ELSE s.timer \in Deadlines(s) /\ \A t \in Deadlines(s) : s.timer <= t

\* No lost wake-up: whatever the callbacks did and in whatever order, a scheduler
\* that may run and is idle has its timer at the earliest thing it waits for.
WakeArmed == mounted /\ CanRun(sched) /\ sched.active = None => Armed(sched)

\* phase3-durable-runtime.md:89, "an existing provider Retry-After remains a hard
\* not-before boundary": whichever trigger joins the job, no cycle of a generation
\* starts before the time its last failure under the same coordinator asked for.
RetryAfterIsAFloor == \A g \in Generation : sched.active = g => notBefore[g] = 0

\* Without focus no poll is set, and none is queued on its own.
Quiet(s) ==
  ~s.foreground => \A g \in Generation : s.poll[g] = None /\ s.job[g].triggers # {"poll"}

\* phase3-durable-runtime.md:95, "blur/unfocused state removes pending poll-only
\* work": without focus nothing is waiting for which a poll is the only reason.
QuietInBackground == Quiet(sched)

\* A hold that was granted excludes every cycle until the last of the overlapping
\* holds is released: no suspend, resume, trigger or timer gets past it.  Only a
\* coordinator mounted meanwhile starts one, which exposing it aborts at once.
HoldExcludesCycles ==
  (\E h \in Holder : holder[h] = "holding") => sched.active = None \/ sched.aborted

\* "Stop provider callbacks before the local replica changes ownership"
\* (product-runtime-control.ts:104): when a hold is granted, no cycle of any
\* coordinator is still running.
HoldDrains ==
  [][\A h \in Holder : holder[h] # "holding" /\ holder'[h] = "holding"
                        => sched.active = None /\ orphans = {}]_vars

\* Suspension has an owner: overlapping suspends, resumes and holds never leave the
\* scheduler suspended with nobody left to resume it.
SuspensionIsOwned ==
  mounted /\ sched.suspended => away \/ Holding # {}

\* A request for a cycle now is served or stays impossible: no other generation and
\* no burst of other triggers can starve it.
RequestsAreServed ==
  \A g \in Generation :
    "now" \in sched.job[g].triggers ~>
      (sched.active = g \/ ~mounted \/ ~CanRun(sched))

\* phase3-durable-runtime.md:91, "per-SyncGeneration adaptive foreground pull
\* polling": a generation in the foreground of a running scheduler is pulled again
\* and again.  Only commits that never rest for as long as Debounce, which put off
\* their own job, can keep it waiting.
PollsGoOn ==
  <>[][\A g \in Generation : ~LocalCommit(g)]_vars =>
    \A g \in Generation :
      (mounted /\ sched.foreground /\ CanRun(sched)) ~>
        (sched.active = g \/ ~mounted \/ ~sched.foreground \/ ~CanRun(sched))

\* Every hold is granted: draining waits for a cycle that ends.
HoldsAreGranted ==
  \A h \in Holder : holder[h] = "draining" ~> holder[h] = "holding"
=============================================================================
