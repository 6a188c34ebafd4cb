------------------------ MODULE SyncSchedulerProofs ------------------------
(***************************************************************************)
(* The safety of the scheduler, for every set of generations and of        *)
(* holders, every interval and every number of reloads.                    *)
(***************************************************************************)
EXTENDS SyncScheduler, FiniteSetTheorems, WellFoundedInduction, TLAPS

\* A set of natural numbers has a least one: minimal among the intervals 0 .. n.
LEMMA LeastLemma ==
  ASSUME NEW S, S \subseteq Nat, S # {}
  PROVE  \E m \in S : \A n \in S : m <= n
<1> DEFINE R == StrictSubsetOrdering(Nat)
           T == { 0 .. n : n \in S }
<1>1. T \subseteq FiniteSubsetsOf(Nat)
  <2>1. ASSUME NEW n \in S PROVE 0 .. n \in FiniteSubsetsOf(Nat)
    <3>1. IsFiniteSet(0 .. n)
      BY FS_Interval
    <3> QED BY <3>1 DEF FiniteSubsetsOf
  <2> QED BY <2>1
<1>2. PICK x \in T : \A y \in T : <<y, x>> \notin R
  <2>1. IsWellFoundedOn(R, FiniteSubsetsOf(Nat))
    BY FS_StrictSubsetOrderingWellFounded
  <2>2. T # {}
    OBVIOUS
  <2> HIDE DEF R, T
  <2> QED BY <1>1, <2>1, <2>2, WFMin
<1>3. PICK m \in S : x = 0 .. m
  OBVIOUS
<1>4. ASSUME NEW n \in S, n < m PROVE FALSE
  <2>1. 0 .. n \subseteq 0 .. m /\ 0 .. n # 0 .. m
    <3>1. m \in 0 .. m /\ m \notin 0 .. n
      BY <1>4
    <3> QED BY <1>4, <3>1
  <2>2. 0 .. n \in SUBSET Nat /\ 0 .. m \in SUBSET Nat
    OBVIOUS
  <2>3. <<0 .. n, 0 .. m>> \in R
    BY <2>1, <2>2 DEF StrictSubsetOrdering
  <2> QED BY <1>2, <1>3, <2>3
<1> QED BY <1>4

\* A cycle is pending once a trigger is queued, and waits as long as before.
LEMMA QueuedLemma ==
  ASSUME NEW j \in Job, JobOK(j), NEW t \in Trigger, NEW due \in Nat
  PROVE  /\ Queued(j, t, due) \in Job
         /\ JobOK(Queued(j, t, due))
         /\ Queued(j, t, due).triggers = j.triggers \cup {t}
         /\ Queued(j, t, due).floor = j.floor
<1>1. j.due \in Nat /\ j.triggers \in SUBSET Trigger /\ j.floor \in Int \cup {None}
  BY DEF Job
<1> DEFINE wanted == IF j.triggers = {} THEN due ELSE Earlier(j.due, due)
           when == IF j.floor = None THEN wanted ELSE Later(wanted, j.floor)
<1>2. wanted \in Nat
  BY <1>1 DEF Earlier
<1>3. when \in Nat /\ (j.floor # None => j.floor <= when)
  BY <1>1, <1>2 DEF Later
<1>4. Queued(j, t, due) = [due |-> when, triggers |-> j.triggers \cup {t}, floor |-> j.floor]
  BY DEF Queued
<1> HIDE DEF wanted, when
<1> QED BY <1>1, <1>3, <1>4 DEF Job, JobOK

\* The empty job is a job without a floor.
LEMMA NoJobLemma == NoJob \in Job /\ JobOK(NoJob) /\ NoJob.floor = None
BY DEF NoJob, Job, JobOK

\* Every polling interval is positive.
LEMMA IntervalLemma ==
  ASSUME NEW s, NEW g, NEW wait
  PROVE  Interval(s, g, wait) \in Nat \ {0}
BY TimesAssumption DEF Interval

\* What enqueuing the polls leaves as it was, and what it does to a job.
LEMMA EnqueueLemma ==
  ASSUME NEW s, SchedulerOK(s), Quiet(s)
  PROVE  /\ SchedulerOK(EnqueuePolls(s)) /\ Quiet(EnqueuePolls(s))
         /\ \A g \in Generation : EnqueuePolls(s).job[g].floor = s.job[g].floor
         /\ EnqueuePolls(s).active = s.active
         /\ EnqueuePolls(s).aborted = s.aborted
         /\ EnqueuePolls(s).last = s.last
         /\ EnqueuePolls(s).online = s.online
         /\ EnqueuePolls(s).suspended = s.suspended
         /\ EnqueuePolls(s).foreground = s.foreground
<1> DEFINE p == EnqueuePolls(s)
<1>1. s \in Scheduler /\ \A g \in Generation : s.job[g] \in Job /\ JobOK(s.job[g])
  BY DEF SchedulerOK, Scheduler
<1>2. ASSUME NEW g \in Generation
      PROVE  /\ Queued(s.job[g], "poll", 0) \in Job
             /\ JobOK(Queued(s.job[g], "poll", 0))
             /\ Queued(s.job[g], "poll", 0).floor = s.job[g].floor
  BY <1>1, QueuedLemma DEF Trigger
<1>3. ASSUME NEW g \in Generation
      PROVE  s.job[g].due + Interval(s, g, s.job[g].due) \in Instant
  <2>1. s.job[g].due \in Nat
    BY <1>1 DEF Job
  <2> QED BY <2>1, IntervalLemma DEF Instant
<1>4. p \in Scheduler
  BY <1>1, <1>2, <1>3 DEF EnqueuePolls, Scheduler
<1>5. \A g \in Generation : JobOK(p.job[g]) /\ p.job[g].floor = s.job[g].floor
  BY <1>1, <1>2 DEF EnqueuePolls, Scheduler
<1>6. /\ p.active = s.active /\ p.aborted = s.aborted /\ p.last = s.last
      /\ p.online = s.online /\ p.suspended = s.suspended /\ p.foreground = s.foreground
  BY <1>1 DEF EnqueuePolls, Scheduler
<1>7. Quiet(p)
  <2> SUFFICES ASSUME ~s.foreground, NEW g \in Generation
               PROVE  p.poll[g] = None /\ p.job[g].triggers # {"poll"}
    BY <1>6 DEF Quiet
  <2> QED BY <1>1 DEF EnqueuePolls, PollIsDue, Quiet, Scheduler
<1> QED BY <1>4, <1>5, <1>6, <1>7 DEF SchedulerOK

\* The search finds a generation that is due.
LEMMA SelectLemma ==
  ASSUME NEW s, SchedulerOK(s), Due(s) # {}
  PROVE  SelectDue(s) \in Due(s)
<1> DEFINE C == Cardinality(Generation)
<1>1. C \in Nat
  BY PositionAssumption, FS_CardinalityType
<1>2. ASSUME NEW g \in Due(s) PROVE Turn(s, g) \in Nat
  <2>1. g \in Generation /\ s.last \in Generation \cup {None}
    BY <1>2 DEF Due, SchedulerOK, Scheduler
  <2>2. Position[g] \in Int /\ C > 0
    BY <1>1, <2>1, PositionAssumption
  <2>3. (IF s.last = None THEN -1 ELSE Position[s.last]) \in Int
    BY <1>1, <2>1, PositionAssumption
  <2> HIDE DEF C
  <2>4. \A a \in Int : a % C \in Nat
    BY <1>1, <2>2
  <2> QED BY <2>2, <2>3, <2>4 DEF Turn, C
<1>3. PICK m \in { Turn(s, g) : g \in Due(s) } :
        \A n \in { Turn(s, g) : g \in Due(s) } : m <= n
  <2> DEFINE T == { Turn(s, g) : g \in Due(s) }
  <2>1. T \subseteq Nat /\ T # {}
    BY <1>2
  <2> HIDE DEF T
  <2>2. \E m \in T : \A n \in T : m <= n
    BY <2>1, LeastLemma
  <2> QED BY <2>2 DEF T
<1>4. \E g \in Due(s) : \A h \in Due(s) : Turn(s, g) <= Turn(s, h)
  BY <1>3
<1> QED BY <1>4 DEF SelectDue

\* Every deadline is an instant to come, so one of them is the earliest.
LEMMA DeadlinesLemma ==
  ASSUME NEW s, SchedulerOK(s)
  PROVE  /\ Deadlines(s) \subseteq Nat
         /\ Deadlines(s) # {} => \E t \in Deadlines(s) : \A u \in Deadlines(s) : t <= u
<1>1. Deadlines(s) \subseteq Nat
  <2>1. \A g \in Generation : s.job[g].due \in Nat /\ s.poll[g] \in Nat \cup {None}
    BY DEF SchedulerOK, Scheduler, Job, Instant
  <2> QED BY <2>1 DEF Deadlines
<1> QED BY <1>1, LeastLemma

\* Setting the timer changes nothing else and arms it for the earliest deadline.
LEMMA SetTimerLemma ==
  ASSUME NEW s, SchedulerOK(s)
  PROVE  \E t \in Instant : SetTimer(s) = [s EXCEPT !.timer = t] /\ Armed([s EXCEPT !.timer = t])
<1> DEFINE t == IF Deadlines(s) = {} THEN None
                ELSE CHOOSE t \in Deadlines(s) : \A u \in Deadlines(s) : t <= u
<1>1. /\ Deadlines(s) = {} => t = None
      /\ Deadlines(s) # {} => t \in Deadlines(s) /\ \A u \in Deadlines(s) : t <= u
  BY DeadlinesLemma
<1>2. SetTimer(s) = [s EXCEPT !.timer = t]
  BY DEF SetTimer
<1> HIDE DEF t
<1>3. t \in Instant
  BY <1>1, DeadlinesLemma DEF Instant
<1>4. Deadlines([s EXCEPT !.timer = t]) = Deadlines(s) /\ [s EXCEPT !.timer = t].timer = t
  BY DEF Deadlines, Pending, SchedulerOK, Scheduler
<1> QED BY <1>1, <1>2, <1>3, <1>4 DEF Armed

(***************************************************************************)
(* What every method of the scheduler keeps: each job is well formed, there *)
(* are no polls in the background, a cycle that may not run is aborted, and *)
(* a generation that was told to wait (nb) does wait.                       *)
(***************************************************************************)
Blocked(s) == ~CanRun(s) => s.active = None \/ s.aborted

\* A generation told to wait is not active, and its job keeps the floor it was given.
Waits(s, nb) ==
  \A g \in Generation : nb[g] # 0 =>
    s.active # g /\ s.job[g].floor # None /\ nb[g] <= s.job[g].floor

\* What every method of the scheduler keeps, also between two calls of one callback.
Kept(s, nb) == SchedulerOK(s) /\ Quiet(s) /\ Blocked(s) /\ Waits(s, nb)

\* What the trailing wake of a callback restores.
ArmedIfIdle(s) == CanRun(s) /\ s.active = None => Armed(s)

\* Who may run it, and who watches.
SameMode(s, r) ==
  r.online = s.online /\ r.suspended = s.suspended /\ r.foreground = s.foreground

\* A started cycle had been told to wait no longer than until now.
LEMMA StartLemma ==
  ASSUME NEW s, NEW nb \in [Generation -> Nat], Kept(s, nb), CanRun(s), NEW g \in Due(s)
  PROVE  Kept(Start(s, g), nb) /\ SameMode(s, Start(s, g)) /\ Start(s, g).active = g
<1> DEFINE r == Start(s, g)
<1>1. /\ s \in Scheduler /\ g \in Generation /\ g # None
      /\ s.job[g] \in Job /\ JobOK(s.job[g]) /\ s.job[g].due = 0
  BY NoneAssumption DEF Kept, SchedulerOK, Scheduler, Due
<1>2. nb[g] = 0
  BY <1>1 DEF Kept, Waits, JobOK, Job
<1>3. r \in Scheduler
  BY <1>1, NoJobLemma DEF Start, Scheduler, Instant
<1>4. /\ r.active = g /\ r.job = [s.job EXCEPT ![g] = NoJob] /\ r.poll = s.poll
      /\ r.online = s.online /\ r.suspended = s.suspended /\ r.foreground = s.foreground
  BY <1>1 DEF Start, Scheduler
<1>5. \A h \in Generation : r.job[h] = IF h = g THEN NoJob ELSE s.job[h]
  BY <1>1, <1>4 DEF Scheduler
<1>6. SchedulerOK(r)
  BY <1>3, <1>5, NoJobLemma DEF SchedulerOK, Kept
<1>7. Quiet(r)
  BY <1>4, <1>5 DEF Quiet, Kept, NoJob
<1>8. Blocked(r)
  BY <1>4 DEF Blocked, CanRun
<1>9. Waits(r, nb)
  BY <1>2, <1>4, <1>5 DEF Waits, Kept
<1> QED BY <1>4, <1>6, <1>7, <1>8, <1>9 DEF Kept, SameMode

\* A timer is of no importance to what is kept.
LEMMA TimerLemma ==
  ASSUME NEW s, NEW nb, Kept(s, nb), NEW t \in Instant
  PROVE  /\ Kept([s EXCEPT !.timer = t], nb)
         /\ SameMode(s, [s EXCEPT !.timer = t])
         /\ [s EXCEPT !.timer = t].active = s.active
<1> DEFINE r == [s EXCEPT !.timer = t]
<1>1. s \in Scheduler
  BY DEF Kept, SchedulerOK
<1>2. /\ r \in Scheduler /\ r.job = s.job /\ r.poll = s.poll /\ r.active = s.active
      /\ r.aborted = s.aborted /\ r.online = s.online /\ r.suspended = s.suspended
      /\ r.foreground = s.foreground
  BY <1>1 DEF Scheduler
<1> HIDE DEF r
<1>3. SchedulerOK(r)
  BY <1>2 DEF SchedulerOK, Kept
<1>4. Quiet(r)
  BY <1>2 DEF Quiet, Kept
<1>5. Blocked(r)
  BY <1>2 DEF Blocked, CanRun, Kept
<1>6. Waits(r, nb)
  BY <1>2 DEF Waits, Kept
<1> QED BY <1>2, <1>3, <1>4, <1>5, <1>6 DEF Kept, SameMode, r

\* scheduleWake keeps it all, and an idle scheduler leaves it with its timer set.
LEMMA WakeLemma ==
  ASSUME NEW s, NEW nb \in [Generation -> Nat], Kept(s, nb)
  PROVE  Kept(Wake(s), nb) /\ SameMode(s, Wake(s)) /\ ArmedIfIdle(Wake(s))
<1> DEFINE p == EnqueuePolls(s)
<1>1. SchedulerOK(s) /\ Quiet(s) /\ Blocked(s) /\ Waits(s, nb)
  BY DEF Kept
<1>2. CASE ~CanRun(s) \/ s.active # None
  <2>1. Wake(s) = [s EXCEPT !.timer = None]
    BY <1>2 DEF Wake
  <2>2. /\ Kept(Wake(s), nb) /\ SameMode(s, Wake(s)) /\ Wake(s).active = s.active
    BY <2>1, TimerLemma DEF Instant
  <2> QED BY <1>2, <2>2 DEF ArmedIfIdle, SameMode, CanRun
<1>3. CASE CanRun(s) /\ s.active = None
  <2>1. /\ SchedulerOK(p) /\ Quiet(p) /\ SameMode(s, p) /\ p.active = None /\ CanRun(p)
        /\ \A g \in Generation : p.job[g].floor = s.job[g].floor
    BY <1>1, <1>3, EnqueueLemma DEF SameMode, CanRun
  <2>2. Kept(p, nb)
    <3>1. Blocked(p)
      BY <2>1 DEF Blocked
    <3>2. Waits(p, nb)
      BY <1>1, <1>3, <2>1 DEF Waits
    <3> QED BY <2>1, <3>1, <3>2 DEF Kept
  <2>3. CASE Due(p) # {}
    <3>1. Wake(s) = Start(p, SelectDue(p))
      BY <1>3, <2>3 DEF Wake
    <3>2. SelectDue(p) \in Due(p)
      BY <2>1, <2>3, SelectLemma
    <3>3. SelectDue(p) # None
      BY <3>2, NoneAssumption DEF Due
    <3> HIDE DEF p
    <3>4. Kept(Wake(s), nb) /\ SameMode(p, Wake(s)) /\ Wake(s).active = SelectDue(p)
      BY <2>1, <2>2, <3>1, <3>2, StartLemma
    <3> QED BY <2>1, <3>3, <3>4 DEF ArmedIfIdle, SameMode
  <2>4. CASE Due(p) = {}
    <3>1. Wake(s) = SetTimer(p)
      BY <1>3, <2>4 DEF Wake
    <3> HIDE DEF p
    <3>2. PICK t \in Instant : SetTimer(p) = [p EXCEPT !.timer = t] /\ Armed([p EXCEPT !.timer = t])
      BY <2>1, SetTimerLemma
    <3>3. Kept(Wake(s), nb) /\ SameMode(p, Wake(s)) /\ Armed(Wake(s))
      BY <2>2, <3>1, <3>2, TimerLemma
    <3> QED BY <2>1, <3>3 DEF ArmedIfIdle, SameMode
  <2> QED BY <2>3, <2>4
<1> QED BY <1>2, <1>3

-----------------------------------------------------------------------------
(* The methods *)

\* A change of jobs and polls that takes no waiting time away.
LEMMA ChangeLemma ==
  ASSUME NEW s, NEW nb, Kept(s, nb), NEW r \in Scheduler,
         r.active = s.active, r.aborted = s.aborted,
         r.online = s.online, r.suspended = s.suspended,
         \A g \in Generation : JobOK(r.job[g]) /\ r.job[g].floor = s.job[g].floor,
         Quiet(r)
  PROVE  Kept(r, nb)
<1>1. SchedulerOK(r)
  BY DEF SchedulerOK
<1>2. Blocked(r)
  BY DEF Kept, Blocked, CanRun
<1>3. Waits(r, nb)
  BY DEF Kept, Waits
<1> QED BY <1>1, <1>2, <1>3 DEF Kept

\* Queueing a trigger keeps what is kept, floors included.
LEMMA QueueLemma ==
  ASSUME NEW s, NEW nb, Kept(s, nb), NEW g \in Generation,
         NEW t \in Trigger \ {"poll"}, NEW due \in Nat
  PROVE  Kept(Queue(s, g, t, due), nb) /\ SameMode(s, Queue(s, g, t, due))
<1> DEFINE r == Queue(s, g, t, due)
<1>1. s \in Scheduler /\ \A h \in Generation : s.job[h] \in Job /\ JobOK(s.job[h])
  BY DEF Kept, SchedulerOK, Scheduler
<1>2. /\ Queued(s.job[g], t, due) \in Job /\ JobOK(Queued(s.job[g], t, due))
      /\ Queued(s.job[g], t, due).floor = s.job[g].floor
      /\ Queued(s.job[g], t, due).triggers # {"poll"}
  <2>1. s.job[g] \in Job /\ JobOK(s.job[g]) /\ t \in Trigger /\ t # "poll"
    BY <1>1
  <2>2. Queued(s.job[g], t, due).triggers = s.job[g].triggers \cup {t}
    BY <2>1, QueuedLemma
  <2> QED BY <2>1, <2>2, QueuedLemma
<1>3. r \in Scheduler
  BY <1>1, <1>2 DEF Queue, Scheduler
<1>4. /\ r.active = s.active /\ r.aborted = s.aborted /\ r.online = s.online
      /\ r.suspended = s.suspended /\ r.foreground = s.foreground /\ r.poll = s.poll
      /\ \A h \in Generation :
           r.job[h] = IF h = g THEN Queued(s.job[g], t, due) ELSE s.job[h]
  BY <1>1 DEF Queue, Scheduler
<1> HIDE DEF r
<1>5. Quiet(r)
  BY <1>2, <1>4 DEF Quiet, Kept
<1>6. \A h \in Generation : JobOK(r.job[h]) /\ r.job[h].floor = s.job[h].floor
  BY <1>1, <1>2, <1>4
<1>7. Kept(r, nb)
  BY <1>3, <1>4, <1>5, <1>6, ChangeLemma
<1> QED BY <1>4, <1>7 DEF SameMode, r

\* So does queueing one for every generation, and it ends with a wake.
LEMMA QueueAllLemma ==
  ASSUME NEW s, NEW nb \in [Generation -> Nat], Kept(s, nb)
  PROVE  Kept(QueueAll(s), nb) /\ SameMode(s, QueueAll(s)) /\ ArmedIfIdle(QueueAll(s))
<1> DEFINE r == [s EXCEPT !.job = [g \in Generation |-> Queued(s.job[g], "now", 0)]]
<1>1. s \in Scheduler /\ \A h \in Generation : s.job[h] \in Job /\ JobOK(s.job[h])
  BY DEF Kept, SchedulerOK, Scheduler
<1>2. \A g \in Generation :
        /\ Queued(s.job[g], "now", 0) \in Job /\ JobOK(Queued(s.job[g], "now", 0))
        /\ Queued(s.job[g], "now", 0).floor = s.job[g].floor
        /\ Queued(s.job[g], "now", 0).triggers # {"poll"}
  <2> SUFFICES ASSUME NEW g \in Generation
               PROVE  /\ Queued(s.job[g], "now", 0) \in Job /\ JobOK(Queued(s.job[g], "now", 0))
                      /\ Queued(s.job[g], "now", 0).floor = s.job[g].floor
                      /\ Queued(s.job[g], "now", 0).triggers # {"poll"}
    OBVIOUS
  <2>1. s.job[g] \in Job /\ JobOK(s.job[g]) /\ "now" \in Trigger /\ 0 \in Nat
    BY <1>1 DEF Trigger
  <2>2. /\ Queued(s.job[g], "now", 0) \in Job /\ JobOK(Queued(s.job[g], "now", 0))
        /\ Queued(s.job[g], "now", 0).floor = s.job[g].floor
        /\ Queued(s.job[g], "now", 0).triggers = s.job[g].triggers \cup {"now"}
    BY <2>1, QueuedLemma
  <2> QED BY <2>2
<1>3. r \in Scheduler
  BY <1>1, <1>2 DEF Scheduler
<1>4. /\ r.active = s.active /\ r.aborted = s.aborted /\ r.online = s.online
      /\ r.suspended = s.suspended /\ r.foreground = s.foreground /\ r.poll = s.poll
      /\ \A h \in Generation : r.job[h] = Queued(s.job[h], "now", 0)
  BY <1>1 DEF Scheduler
<1>5. QueueAll(s) = Wake(r)
  BY DEF QueueAll
<1> HIDE DEF r
<1>6. Quiet(r)
  BY <1>2, <1>4 DEF Quiet, Kept
<1>7. \A h \in Generation : JobOK(r.job[h]) /\ r.job[h].floor = s.job[h].floor
  BY <1>2, <1>4
<1>8. Kept(r, nb)
  BY <1>3, <1>4, <1>6, <1>7, ChangeLemma
<1> QED BY <1>4, <1>5, <1>8, WakeLemma DEF SameMode

\* Noting activity moves polls and no job.
LEMMA NoteLemma ==
  ASSUME NEW s, NEW nb, Kept(s, nb), NEW g \in Generation
  PROVE  /\ Kept(NoteActivity(s, g), nb) /\ SameMode(s, NoteActivity(s, g))
         /\ NoteActivity(s, g).job = s.job
<1> DEFINE floor == s.job[g].floor
           next  == IF floor # None THEN Later(floor + ActivePoll, 0)
                    ELSE IF s.poll[g] = None THEN ActivePoll
                    ELSE Earlier(s.poll[g], ActivePoll)
           r     == NoteActivity(s, g)
<1>1. s \in Scheduler /\ \A h \in Generation : s.job[h] \in Job /\ JobOK(s.job[h])
  BY DEF Kept, SchedulerOK, Scheduler
<1>2. next \in Nat
  <2>1. floor \in Int \cup {None} /\ s.poll[g] \in Nat \cup {None} /\ ActivePoll \in Nat
    BY <1>1, TimesAssumption DEF Job, Scheduler, Instant
  <2> HIDE DEF floor
  <2> QED BY <2>1 DEF Later, Earlier
<1>3. r = [s EXCEPT !.age[g] = 0, !.poll[g] = IF s.foreground THEN next ELSE @]
  BY DEF NoteActivity
<1> HIDE DEF next, r
<1>4. r \in Scheduler
  BY <1>1, <1>2, <1>3 DEF Scheduler, Instant
<1>5. /\ r.active = s.active /\ r.aborted = s.aborted /\ r.online = s.online
      /\ r.suspended = s.suspended /\ r.foreground = s.foreground /\ r.job = s.job
      /\ ~s.foreground => \A h \in Generation : r.poll[h] = s.poll[h]
  BY <1>1, <1>3 DEF Scheduler
<1>6. Quiet(r)
  BY <1>5 DEF Quiet, Kept
<1>7. Kept(r, nb)
  BY <1>1, <1>4, <1>5, <1>6, ChangeLemma
<1> QED BY <1>5, <1>7 DEF SameMode, r

\* A local commit keeps what is kept and ends with a wake.
LEMMA LocalCommitLemma ==
  ASSUME NEW s, NEW nb \in [Generation -> Nat], Kept(s, nb), NEW g \in Generation
  PROVE  /\ Kept(TriggerLocalCommit(s, g), nb)
         /\ SameMode(s, TriggerLocalCommit(s, g))
         /\ ArmedIfIdle(TriggerLocalCommit(s, g))
<1> DEFINE n == NoteActivity(s, g)
           r == [n EXCEPT !.job[g].due = Debounce]
<1>1. Kept(n, nb) /\ SameMode(s, n) /\ n.job = s.job
  BY NoteLemma
<1>2. Debounce \in Nat
  BY TimesAssumption
<1>3. CASE s.job[g].triggers # {"local"}
  <2>1. TriggerLocalCommit(s, g) = Wake(Queue(n, g, "local", Debounce))
    BY <1>3 DEF TriggerLocalCommit
  <2> HIDE DEF n
  <2>2. Kept(Queue(n, g, "local", Debounce), nb) /\ SameMode(n, Queue(n, g, "local", Debounce))
    BY <1>1, <1>2, QueueLemma DEF Trigger
  <2> QED BY <1>1, <2>1, <2>2, WakeLemma DEF SameMode
<1>4. CASE s.job[g].triggers = {"local"}
  <2>1. TriggerLocalCommit(s, g) = Wake(r)
    BY <1>4 DEF TriggerLocalCommit
  <2> HIDE DEF n
  <2>2. n \in Scheduler /\ \A h \in Generation : n.job[h] \in Job /\ JobOK(n.job[h])
    BY <1>1 DEF Kept, SchedulerOK, Scheduler
  <2>3. n.job[g].triggers = {"local"} /\ n.job[g].floor = None
    BY <1>1, <1>4, <2>2 DEF JobOK
  <2>4. r \in Scheduler
    BY <1>2, <2>2 DEF Scheduler, Job
  <2>5. /\ r.active = n.active /\ r.aborted = n.aborted /\ r.online = n.online
        /\ r.suspended = n.suspended /\ r.foreground = n.foreground /\ r.poll = n.poll
        /\ \A h \in Generation : h # g => r.job[h] = n.job[h]
        /\ r.job[g].triggers = n.job[g].triggers /\ r.job[g].floor = n.job[g].floor
    BY <2>2 DEF Scheduler, Job
  <2> HIDE DEF r
  <2>6. \A h \in Generation : JobOK(r.job[h]) /\ r.job[h].floor = n.job[h].floor
    BY <2>2, <2>3, <2>5 DEF JobOK
  <2>7. Quiet(r)
    BY <1>1, <2>3, <2>5 DEF Quiet, Kept
  <2>8. Kept(r, nb)
    BY <1>1, <2>4, <2>5, <2>6, <2>7, ChangeLemma
  <2> QED BY <1>1, <2>1, <2>5, <2>8, WakeLemma DEF SameMode
<1> QED BY <1>3, <1>4

\* The running cycle has settled; nothing of the record but who runs is different.
LEMMA FinishedLemma ==
  ASSUME NEW s, NEW nb \in [Generation -> Nat], SchedulerOK(s), Quiet(s),
         \A g \in Generation : nb[g] # 0 => s.job[g].floor # None /\ nb[g] <= s.job[g].floor
  PROVE  Kept(Finished(s), nb) /\ SameMode(s, Finished(s)) /\ ArmedIfIdle(Finished(s))
<1> DEFINE r == [s EXCEPT !.active = None, !.aborted = FALSE, !.last = s.active]
<1>1. s \in Scheduler
  BY DEF SchedulerOK
<1>2. /\ r \in Scheduler /\ r.job = s.job /\ r.poll = s.poll /\ r.active = None
      /\ r.online = s.online /\ r.suspended = s.suspended /\ r.foreground = s.foreground
  BY <1>1 DEF Scheduler
<1>3. Finished(s) = Wake(r)
  BY DEF Finished
<1> HIDE DEF r
<1>4. SchedulerOK(r)
  BY <1>2 DEF SchedulerOK
<1>5. Quiet(r)
  BY <1>2 DEF Quiet
<1>6. Blocked(r)
  BY <1>2 DEF Blocked
<1>7. Waits(r, nb)
  BY <1>2, NoneAssumption DEF Waits
<1>8. Kept(r, nb)
  BY <1>4, <1>5, <1>6, <1>7 DEF Kept
<1> QED BY <1>2, <1>3, <1>8, WakeLemma DEF SameMode

\* A failed cycle's generation waits at least as long as its error asked for.
LEMMA RetryLemma ==
  ASSUME NEW s, NEW nb \in [Generation -> Nat], Kept(s, nb), s.active # None,
         NEW delay \in Nat
  PROVE  LET r == Finished(ScheduleRetry(s, s.active, delay))
         IN  /\ Kept(r, [nb EXCEPT ![s.active] = delay])
             /\ SameMode(s, r) /\ ArmedIfIdle(r)
<1> DEFINE g     == s.active
           j     == s.job[g]
           floor == IF j.floor = None THEN delay ELSE Later(j.floor, delay)
           job   == [due |-> Later(j.due, floor), triggers |-> j.triggers \cup {"retry"},
                     floor |-> floor]
           r     == ScheduleRetry(s, g, delay)
           nb2   == [nb EXCEPT ![g] = delay]
<1>1. s \in Scheduler /\ \A h \in Generation : s.job[h] \in Job /\ JobOK(s.job[h])
  BY DEF Kept, SchedulerOK, Scheduler
<1>2. g \in Generation
  BY <1>1 DEF Scheduler
<1>3. floor \in Int /\ delay <= floor
  <2>1. j.floor \in Int \cup {None}
    BY <1>1, <1>2 DEF Job
  <2> HIDE DEF j
  <2> QED BY <2>1 DEF Later
<1>4. job \in Job /\ JobOK(job) /\ job.floor = floor /\ job.triggers # {"poll"}
  <2>1. j.due \in Nat /\ j.triggers \in SUBSET Trigger
    BY <1>1, <1>2 DEF Job
  <2> HIDE DEF j, floor
  <2>2. Later(j.due, floor) \in Nat /\ floor <= Later(j.due, floor)
    BY <1>3, <2>1 DEF Later
  <2>3. "retry" \in job.triggers /\ job.triggers \in SUBSET Trigger
    BY <2>1 DEF Trigger
  <2>4. job.triggers # {"poll"}
    <3>1. "retry" \notin {"poll"}
      OBVIOUS
    <3> QED BY <2>3, <3>1
  <2> QED BY <1>3, <2>2, <2>3, <2>4 DEF Job, JobOK
<1>5. r = [s EXCEPT !.job[g] = job,
                    !.poll[g] = IF s.foreground THEN delay + Interval(s, g, delay) ELSE @]
  BY DEF ScheduleRetry
<1>6. delay + Interval(s, g, delay) \in Instant
  BY IntervalLemma DEF Instant
<1> HIDE DEF g, job, floor, r, nb2
<1>7. r \in Scheduler
  BY <1>1, <1>2, <1>4, <1>5, <1>6 DEF Scheduler
<1>8. /\ r.online = s.online /\ r.suspended = s.suspended /\ r.foreground = s.foreground
      /\ \A h \in Generation : r.job[h] = IF h = g THEN job ELSE s.job[h]
      /\ ~s.foreground => \A h \in Generation : r.poll[h] = s.poll[h]
  BY <1>1, <1>2, <1>5 DEF Scheduler
<1>9. SchedulerOK(r)
  BY <1>1, <1>4, <1>7, <1>8 DEF SchedulerOK
<1>10. Quiet(r)
  BY <1>4, <1>8 DEF Quiet, Kept
<1>11. /\ nb2 \in [Generation -> Nat]
       /\ \A h \in Generation : nb2[h] # 0 => r.job[h].floor # None /\ nb2[h] <= r.job[h].floor
  <2>1. \A h \in Generation : nb2[h] = IF h = g THEN delay ELSE nb[h]
    BY <1>2 DEF nb2
  <2>2. floor # None
    BY <1>3, NoneAssumption
  <2> QED BY <1>2, <1>3, <1>4, <1>8, <2>1, <2>2 DEF nb2, Kept, Waits
<1>12. Kept(Finished(r), nb2) /\ SameMode(r, Finished(r)) /\ ArmedIfIdle(Finished(r))
  BY <1>9, <1>10, <1>11, FinishedLemma
<1> QED BY <1>8, <1>12 DEF SameMode, r, nb2, g

\* An abort: the cycle may go on, but not as one that is allowed to.
LEMMA AbortLemma ==
  ASSUME NEW s, NEW nb, SchedulerOK(s), Quiet(s), Waits(s, nb)
  PROVE  Kept(Abort(s), nb) /\ SameMode(s, Abort(s)) /\ Abort(s).active = s.active
<1> DEFINE r == Abort(s)
<1>1. s \in Scheduler
  BY DEF SchedulerOK
<1>2. /\ r \in Scheduler /\ r.job = s.job /\ r.poll = s.poll /\ r.active = s.active
      /\ r.aborted = (s.active # None) /\ r.online = s.online
      /\ r.suspended = s.suspended /\ r.foreground = s.foreground
  BY <1>1 DEF Abort, Scheduler, Instant
<1> HIDE DEF r
<1>3. SchedulerOK(r) /\ Quiet(r)
  BY <1>2 DEF SchedulerOK, Quiet
<1>4. Blocked(r) /\ Waits(r, nb)
  BY <1>2 DEF Blocked, Waits
<1> QED BY <1>2, <1>3, <1>4 DEF Kept, SameMode, r

\* Of what is kept, only Blocked depends on who may run.
LEMMA ModeLemma ==
  ASSUME NEW s, NEW nb, Kept(s, nb), NEW r \in Scheduler,
         r.job = s.job, r.poll = s.poll, r.active = s.active, r.aborted = s.aborted,
         r.foreground = s.foreground
  PROVE  /\ SchedulerOK(r) /\ Quiet(r) /\ Waits(r, nb)
         /\ ~CanRun(s) => Kept(r, nb)
<1>1. SchedulerOK(r) /\ Quiet(r) /\ Waits(r, nb)
  BY DEF SchedulerOK, Quiet, Waits, Kept
<1> QED BY <1>1 DEF Kept, Blocked

\* Going offline aborts the cycle; the way back queues every generation.
LEMMA OnlineLemma ==
  ASSUME NEW s, NEW nb \in [Generation -> Nat], Kept(s, nb), NEW b \in BOOLEAN, s.online # b
  PROVE  /\ Kept(SetOnline(s, b), nb) /\ ArmedIfIdle(SetOnline(s, b))
         /\ SetOnline(s, b).suspended = s.suspended
<1> DEFINE r == [s EXCEPT !.online = b]
<1>1. s \in Scheduler
  BY DEF Kept, SchedulerOK
<1>2. /\ r \in Scheduler /\ r.job = s.job /\ r.poll = s.poll /\ r.active = s.active
      /\ r.aborted = s.aborted /\ r.foreground = s.foreground
      /\ r.suspended = s.suspended /\ r.online = b
  BY <1>1 DEF Scheduler
<1>3. CASE b = TRUE
  <2>1. SetOnline(s, b) = QueueAll(r)
    BY <1>3 DEF SetOnline
  <2>2. ~CanRun(s)
    BY <1>1, <1>3 DEF CanRun, Scheduler
  <2> HIDE DEF r
  <2>3. Kept(r, nb)
    BY <1>2, <2>2, ModeLemma
  <2> QED BY <1>2, <2>1, <2>3, QueueAllLemma DEF SameMode
<1>4. CASE b = FALSE
  <2>1. SetOnline(s, b) = Abort(r)
    BY <1>4 DEF SetOnline
  <2> HIDE DEF r
  <2>2. Kept(Abort(r), nb) /\ SameMode(r, Abort(r))
    BY <1>2, ModeLemma, AbortLemma
  <2> QED BY <1>2, <1>4, <2>1, <2>2 DEF SameMode, ArmedIfIdle, CanRun
<1> QED BY <1>3, <1>4

\* Suspending and resuming keep what is kept and leave an idle scheduler armed.
LEMMA SuspendedLemma ==
  ASSUME NEW s, NEW nb \in [Generation -> Nat], Kept(s, nb), NEW b \in BOOLEAN, ArmedIfIdle(s)
  PROVE  /\ Kept(SetSuspended(s, b), nb) /\ ArmedIfIdle(SetSuspended(s, b))
         /\ SetSuspended(s, b).suspended = b
<1> DEFINE r == [s EXCEPT !.suspended = b]
<1>1. s \in Scheduler
  BY DEF Kept, SchedulerOK
<1>2. /\ r \in Scheduler /\ r.job = s.job /\ r.poll = s.poll /\ r.active = s.active
      /\ r.aborted = s.aborted /\ r.foreground = s.foreground
      /\ r.suspended = b
  BY <1>1 DEF Scheduler
<1>3. CASE s.suspended = b
  BY <1>3 DEF SetSuspended
<1>4. CASE s.suspended # b /\ b = FALSE
  <2>1. SetSuspended(s, b) = QueueAll(r)
    BY <1>4 DEF SetSuspended
  <2>2. ~CanRun(s)
    BY <1>1, <1>4 DEF CanRun, Scheduler
  <2> HIDE DEF r
  <2>3. Kept(r, nb)
    BY <1>2, <2>2, ModeLemma
  <2> QED BY <1>2, <2>1, <2>3, QueueAllLemma DEF SameMode
<1>5. CASE s.suspended # b /\ b = TRUE
  <2>1. SetSuspended(s, b) = Abort(r)
    BY <1>5 DEF SetSuspended
  <2> HIDE DEF r
  <2>2. Kept(Abort(r), nb) /\ SameMode(r, Abort(r))
    BY <1>2, ModeLemma, AbortLemma
  <2> QED BY <1>2, <1>5, <2>1, <2>2 DEF SameMode, ArmedIfIdle, CanRun
<1> QED BY <1>3, <1>4, <1>5

\* Without focus the polls go, and the jobs that were nothing else.
LEMMA BlurLemma ==
  ASSUME NEW s, NEW nb \in [Generation -> Nat], Kept(s, nb)
  PROVE  /\ Kept(Blur(s), nb) /\ ArmedIfIdle(Blur(s)) /\ Blur(s).suspended = s.suspended
<1> DEFINE r == [s EXCEPT !.foreground = FALSE,
                 !.poll = [g \in Generation |-> None],
                 !.job  = [g \in Generation |-> IF s.job[g].triggers = {"poll"}
                                                THEN NoJob ELSE s.job[g]]]
<1>1. s \in Scheduler /\ \A h \in Generation : s.job[h] \in Job /\ JobOK(s.job[h])
  BY DEF Kept, SchedulerOK, Scheduler
<1>2. r \in Scheduler
  BY <1>1, NoJobLemma DEF Scheduler, Instant
<1>3. /\ r.active = s.active /\ r.aborted = s.aborted /\ r.online = s.online
      /\ r.suspended = s.suspended /\ r.foreground = FALSE
      /\ \A h \in Generation :
           /\ r.poll[h] = None
           /\ r.job[h] = IF s.job[h].triggers = {"poll"} THEN NoJob ELSE s.job[h]
  BY <1>1 DEF Scheduler
<1>4. Blur(s) = Wake(r)
  BY DEF Blur
<1> HIDE DEF r
<1>5. \A h \in Generation : JobOK(r.job[h]) /\ r.job[h].floor = s.job[h].floor
  <2> SUFFICES ASSUME NEW h \in Generation
               PROVE  JobOK(r.job[h]) /\ r.job[h].floor = s.job[h].floor
    OBVIOUS
  <2>1. CASE s.job[h].triggers = {"poll"}
    <3>1. "retry" \notin s.job[h].triggers
      BY <2>1
    <3>2. s.job[h].floor = None
      BY <1>1, <3>1 DEF JobOK
    <3> QED BY <1>3, <2>1, <3>2, NoJobLemma
  <2>2. CASE s.job[h].triggers # {"poll"}
    BY <1>1, <1>3, <2>2
  <2> QED BY <2>1, <2>2
<1>6. Quiet(r)
  BY <1>3 DEF Quiet, NoJob
<1>7. Kept(r, nb)
  BY <1>2, <1>3, <1>5, <1>6, ChangeLemma
<1> QED BY <1>3, <1>4, <1>7, WakeLemma DEF SameMode

\* Focus queues for every generation and leaves suspension alone.
LEMMA FocusLemma ==
  ASSUME NEW s, NEW nb \in [Generation -> Nat], Kept(s, nb)
  PROVE  /\ Kept(Focus(s), nb) /\ ArmedIfIdle(Focus(s)) /\ Focus(s).suspended = s.suspended
<1> DEFINE wait(g) == IF s.job[g].floor = None THEN 0 ELSE Later(s.job[g].floor, 0)
           r == [s EXCEPT !.foreground = TRUE,
                     !.poll = [g \in Generation |-> wait(g) + Interval(s, g, wait(g))]]
<1>1. s \in Scheduler /\ \A h \in Generation : s.job[h] \in Job /\ JobOK(s.job[h])
  BY DEF Kept, SchedulerOK, Scheduler
<1>2. ASSUME NEW g \in Generation PROVE wait(g) + Interval(s, g, wait(g)) \in Instant
  <2>1. s.job[g].floor \in Int \cup {None}
    BY <1>1 DEF Job
  <2>2. wait(g) \in Nat
    BY <2>1 DEF Later
  <2> HIDE DEF wait
  <2> QED BY <2>2, IntervalLemma DEF Instant
<1>3. Focus(s) = Wake(r)
  BY DEF Focus
<1> HIDE DEF wait
<1>4. r \in Scheduler
  BY <1>1, <1>2 DEF Scheduler
<1>5. /\ r.active = s.active /\ r.aborted = s.aborted /\ r.online = s.online
      /\ r.suspended = s.suspended /\ r.foreground = TRUE /\ r.job = s.job
  BY <1>1 DEF Scheduler
<1> HIDE DEF r
<1>6. Quiet(r)
  BY <1>5 DEF Quiet
<1>7. Kept(r, nb)
  BY <1>1, <1>4, <1>5, <1>6, ChangeLemma
<1> QED BY <1>3, <1>5, <1>7, WakeLemma DEF SameMode

\* So do both directions of setForeground.
LEMMA ForegroundLemma ==
  ASSUME NEW s, NEW nb \in [Generation -> Nat], Kept(s, nb), NEW b \in BOOLEAN, ArmedIfIdle(s)
  PROVE  /\ Kept(SetForeground(s, b), nb) /\ ArmedIfIdle(SetForeground(s, b))
         /\ SetForeground(s, b).suspended = s.suspended
BY BlurLemma, FocusLemma DEF SetForeground

-----------------------------------------------------------------------------
(* A coordinator mounted anew, and the passing of time *)

Untold == [g \in Generation |-> 0]

\* A new scheduler has nothing to keep.
LEMMA FreshLemma == Kept(Fresh, Untold) /\ ArmedIfIdle(Fresh) /\ ~Fresh.suspended
<1>1. Fresh \in Scheduler
  BY NoJobLemma, TimesAssumption DEF Fresh, Scheduler, Instant
<1>2. /\ \A g \in Generation : Fresh.job[g] = NoJob /\ Fresh.poll[g] = None
      /\ Fresh.active = None /\ ~Fresh.foreground /\ Fresh.timer = None /\ ~Fresh.suspended
  BY DEF Fresh
<1> HIDE DEF Fresh
<1>3. SchedulerOK(Fresh) /\ Quiet(Fresh) /\ Blocked(Fresh) /\ Waits(Fresh, Untold)
  <2>1. NoJob.triggers = {}
    BY DEF NoJob
  <2> QED BY <1>1, <1>2, <2>1, NoJobLemma DEF SchedulerOK, Quiet, Blocked, Waits, Untold
<1>4. Deadlines(Fresh) = {}
  <2>1. \A g \in Generation : ~Pending(Fresh, g)
    BY <1>2 DEF Pending, NoJob
  <2> QED BY <1>2, <2>1 DEF Deadlines
<1> QED BY <1>2, <1>3, <1>4 DEF Kept, ArmedIfIdle, Armed

\* A coordinator mounted under a hold starts suspended.
LEMMA InstalledLemma ==
  ASSUME NEW b \in BOOLEAN
  PROVE  /\ Kept(Installed(b), Untold) /\ ArmedIfIdle(Installed(b))
         /\ Installed(b).suspended = (Holding # {})
<1> DEFINE s == QueueAll(SetForeground(Fresh, b))
<1>1. Untold \in [Generation -> Nat]
  BY DEF Untold
<1>2. Kept(SetForeground(Fresh, b), Untold) /\ ~SetForeground(Fresh, b).suspended
  BY <1>1, FreshLemma, ForegroundLemma
<1>3. Kept(s, Untold) /\ ArmedIfIdle(s) /\ ~s.suspended
  BY <1>1, <1>2, QueueAllLemma DEF SameMode
<1>4. s.suspended \in BOOLEAN
  BY <1>3 DEF Kept, SchedulerOK, Scheduler
<1>5. Installed(b) = IF Holding = {} THEN s ELSE SetSuspended(s, TRUE)
  BY DEF Installed
<1> HIDE DEF s
<1>6. CASE Holding = {}
  BY <1>3, <1>4, <1>5, <1>6
<1>7. CASE Holding # {}
  <2>1. /\ Kept(SetSuspended(s, TRUE), Untold) /\ ArmedIfIdle(SetSuspended(s, TRUE))
        /\ SetSuspended(s, TRUE).suspended = TRUE
    BY <1>1, <1>3, SuspendedLemma
  <2> QED BY <1>5, <1>7, <2>1
<1> QED BY <1>6, <1>7

\* The scheduler one unit of time later.
Passed(s) ==
  [s EXCEPT
     !.job   = [g \in Generation |->
                  [s.job[g] EXCEPT
                     !.due   = CountDown(@),
                     !.floor = IF @ = None THEN None ELSE Later(@ - 1, -ActivePoll)]],
     !.poll  = [g \in Generation |-> CountDown(s.poll[g])],
     !.age   = [g \in Generation |-> Earlier(s.age[g] + 1, WarmWindow)],
     !.timer = CountDown(@)]

\* Counting down keeps the order of instants and leaves None alone.
LEMMA CountDownLemma ==
  /\ CountDown(None) = None
  /\ \A t \in Nat : t # None /\ CountDown(t) \in Nat /\ CountDown(t) # None
  /\ \A t, u \in Nat : t <= u => CountDown(t) <= CountDown(u)
  /\ CountDown(0) = 0
BY NoneAssumption DEF CountDown, Later

\* Time keeps what is kept: floors and the waits they stand for count down together.
LEMMA PassedLemma ==
  ASSUME NEW s, NEW nb \in [Generation -> Nat], Kept(s, nb), ArmedIfIdle(s)
  PROVE  /\ Kept(Passed(s), [g \in Generation |-> CountDown(nb[g])])
         /\ ArmedIfIdle(Passed(s)) /\ SameMode(s, Passed(s))
         /\ Passed(s).active = s.active
<1> DEFINE r == Passed(s)
           nb2 == [g \in Generation |-> CountDown(nb[g])]
           later(j) == [j EXCEPT !.due   = CountDown(@),
                                 !.floor = IF @ = None THEN None ELSE Later(@ - 1, -ActivePoll)]
<1>1. s \in Scheduler /\ \A h \in Generation : s.job[h] \in Job /\ JobOK(s.job[h])
  BY DEF Kept, SchedulerOK, Scheduler
<1>2. ASSUME NEW j \in Job, JobOK(j)
      PROVE  /\ later(j) \in Job /\ JobOK(later(j))
             /\ later(j).triggers = j.triggers /\ later(j).due = CountDown(j.due)
             /\ later(j).floor = IF j.floor = None THEN None ELSE Later(j.floor - 1, -ActivePoll)
  <2>1. j.due \in Nat /\ j.floor \in Int \cup {None} /\ j.triggers \in SUBSET Trigger
    BY DEF Job
  <2>2. ActivePoll \in Nat
    BY TimesAssumption
  <2>3. /\ later(j).triggers = j.triggers /\ later(j).due = CountDown(j.due)
        /\ later(j).floor = IF j.floor = None THEN None ELSE Later(j.floor - 1, -ActivePoll)
    BY DEF Job
  <2>4. later(j) \in Job
    <3> DEFINE floor == IF j.floor = None THEN None ELSE Later(j.floor - 1, -ActivePoll)
    <3>1. CountDown(j.due) \in Nat
      BY <2>1, CountDownLemma
    <3>2. floor \in Int \cup {None}
      BY <2>1, <2>2 DEF Later
    <3>3. \A d \in Nat, f \in Int \cup {None} : [j EXCEPT !.due = d, !.floor = f] \in Job
      BY DEF Job
    <3>4. later(j) = [j EXCEPT !.due = CountDown(j.due), !.floor = floor]
      OBVIOUS
    <3> HIDE DEF floor, later
    <3> QED BY <3>1, <3>2, <3>3, <3>4
  <2>5. ASSUME j.triggers = {} PROVE later(j) = NoJob
    <3>1. j = [due |-> 0, triggers |-> {}, floor |-> None]
      BY <1>2, <2>5 DEF JobOK, NoJob
    <3>2. later(j).due = 0 /\ later(j).triggers = {} /\ later(j).floor = None
      BY <2>3, <3>1, CountDownLemma
    <3> HIDE DEF later
    <3> QED BY <2>4, <3>2 DEF Job, NoJob
  <2>6. later(j).floor # None => "retry" \in later(j).triggers /\ later(j).floor <= later(j).due
    <3> HIDE DEF later
    <3>1. j.floor # None => later(j).floor <= later(j).due
      BY <1>2, <2>1, <2>2, <2>3, NoneAssumption DEF JobOK, CountDown, Later
    <3> QED BY <1>2, <2>3, <3>1 DEF JobOK
  <2> HIDE DEF later
  <2> QED BY <2>3, <2>4, <2>5, <2>6 DEF JobOK
<1>3. r = [s EXCEPT !.job   = [g \in Generation |-> later(s.job[g])],
                    !.poll  = [g \in Generation |-> CountDown(s.poll[g])],
                    !.age   = [g \in Generation |-> Earlier(s.age[g] + 1, WarmWindow)],
                    !.timer = CountDown(@)]
  BY DEF Passed
<1> HIDE DEF later, r
<1>4. r \in Scheduler
  <2>1. \A g \in Generation : later(s.job[g]) \in Job
    BY <1>1, <1>2
  <2>2. \A t \in Instant : CountDown(t) \in Instant
    BY CountDownLemma DEF Instant
  <2>3. \A a \in Nat : Earlier(a + 1, WarmWindow) \in Nat
    BY TimesAssumption DEF Earlier
  <2> QED BY <1>1, <1>3, <2>1, <2>2, <2>3 DEF Scheduler
<1>5. /\ r.active = s.active /\ r.aborted = s.aborted /\ r.online = s.online
      /\ r.suspended = s.suspended /\ r.foreground = s.foreground
      /\ r.timer = CountDown(s.timer)
      /\ \A h \in Generation : r.job[h] = later(s.job[h]) /\ r.poll[h] = CountDown(s.poll[h])
  BY <1>1, <1>3 DEF Scheduler
<1>6. SchedulerOK(r)
  BY <1>1, <1>2, <1>4, <1>5 DEF SchedulerOK
<1>7. Quiet(r)
  BY <1>1, <1>2, <1>5, CountDownLemma DEF Quiet, Kept
<1>8. Blocked(r)
  BY <1>5 DEF Blocked, CanRun, Kept
<1>9. Waits(r, nb2)
  <2> SUFFICES ASSUME NEW g \in Generation, nb2[g] # 0
               PROVE  r.active # g /\ r.job[g].floor # None /\ nb2[g] <= r.job[g].floor
    BY DEF Waits
  <2>1. nb[g] \in Nat /\ nb2[g] = CountDown(nb[g])
    OBVIOUS
  <2>2. nb[g] # 0 /\ nb2[g] = nb[g] - 1
    BY <2>1, NoneAssumption DEF CountDown, Later
  <2>3. s.active # g /\ s.job[g].floor # None /\ nb[g] <= s.job[g].floor
    BY <2>2 DEF Waits, Kept
  <2>4. s.job[g].floor \in Int /\ r.job[g].floor = Later(s.job[g].floor - 1, -ActivePoll)
    BY <1>1, <1>2, <1>5, <2>3 DEF Job
  <2>5. ActivePoll \in Nat
    BY TimesAssumption
  <2>6. r.job[g].floor \in Int /\ nb2[g] <= r.job[g].floor
    BY <2>1, <2>2, <2>3, <2>4, <2>5 DEF Later
  <2> QED BY <1>5, <2>3, <2>6, NoneAssumption
<1>10. ArmedIfIdle(r)
  <2> SUFFICES ASSUME CanRun(r), r.active = None PROVE Armed(r)
    BY DEF ArmedIfIdle
  <2>1. Armed(s)
    BY <1>5 DEF ArmedIfIdle, CanRun
  <2>2. \A g \in Generation : /\ Pending(r, g) = Pending(s, g)
                              /\ r.job[g].due = CountDown(s.job[g].due)
    BY <1>1, <1>2, <1>5 DEF Pending
  <2>3. \A g \in Generation : s.poll[g] \in Nat \cup {None} /\ s.job[g].due \in Nat
    BY <1>1 DEF Scheduler, Instant, Job
  <2>4. \A t \in Deadlines(s) : CountDown(t) \in Deadlines(r)
    BY <1>5, <2>2, <2>3, CountDownLemma DEF Deadlines
  <2>5. \A u \in Deadlines(r) : \E t \in Deadlines(s) : u = CountDown(t)
    BY <1>5, <2>2, <2>3, CountDownLemma DEF Deadlines
  <2>6. Deadlines(s) \subseteq Nat
    BY DeadlinesLemma DEF Kept
  <2> QED BY <1>5, <2>1, <2>4, <2>5, <2>6, CountDownLemma DEF Armed
<1> QED BY <1>5, <1>6, <1>7, <1>8, <1>9, <1>10 DEF Kept, SameMode, r

-----------------------------------------------------------------------------
(* The invariant *)

\* Under a hold the mounted coordinator is suspended and knows why; a suspended one
\* has somebody who will resume it.  With none mounted nothing runs or waits.
HoldsOwn ==
  IF mounted THEN /\ held = (Holding # {})
                  /\ Holding # {} => sched.suspended
                  /\ sched.suspended => away \/ Holding # {}
  ELSE sched.active = None /\ \A g \in Generation : notBefore[g] = 0

\* The inductive invariant.
IInv == TypeOK /\ Kept(sched, notBefore) /\ ArmedIfIdle(sched) /\ HoldsOwn

\* A callback of the mounted coordinator leaves everything else as it is.
LEMMA CallLemma ==
  ASSUME IInv, NEW s, Call(s), Kept(s, notBefore), ArmedIfIdle(s),
         s.suspended = sched.suspended
  PROVE  IInv'
<1>1. sched' = s /\ mounted
  BY DEF Call
<1>2. UNCHANGED <<mounted, held, epoch, orphans, holder, drains, away, notBefore>>
  BY DEF Call
<1>3. TypeOK'
  BY <1>1, <1>2 DEF IInv, TypeOK, Kept
<1>4. Kept(sched', notBefore') /\ ArmedIfIdle(sched')
  BY <1>1, <1>2
<1>5. HoldsOwn'
  BY <1>1, <1>2 DEF IInv, HoldsOwn, Holding
<1> QED BY <1>3, <1>4, <1>5 DEF IInv

\* It holds at first.
LEMMA InitLemma == Init => IInv
<1> SUFFICES ASSUME Init PROVE IInv
  OBVIOUS
<1>1. sched = Fresh /\ notBefore = Untold
  BY DEF Init, Untold
<1>2. Kept(sched, notBefore) /\ ArmedIfIdle(sched)
  BY <1>1, FreshLemma
<1>3. TypeOK
  <2>1. SchedulerOK(sched)
    BY <1>2 DEF Kept
  <2>2. mounted = FALSE /\ held = FALSE /\ away = FALSE /\ epoch = 0 /\ orphans = {}
    BY DEF Init
  <2>3. /\ holder \in [Holder -> {"out", "draining", "holding"}]
        /\ drains \in [Holder -> 0 .. epoch] /\ notBefore \in [Generation -> Nat]
    BY DEF Init
  <2> QED BY <2>1, <2>2, <2>3 DEF TypeOK
<1>4. HoldsOwn
  BY DEF Init, HoldsOwn, Fresh
<1> QED BY <1>2, <1>3, <1>4 DEF IInv

\* Every action preserves it, one step each.
LEMMA StepLemma == IInv /\ [Next]_vars => IInv'
<1> SUFFICES ASSUME IInv, [Next]_vars PROVE IInv'
  OBVIOUS
<1> USE DEF IInv
<1>a. notBefore \in [Generation -> Nat] /\ SchedulerOK(sched) /\ sched \in Scheduler
  BY DEF TypeOK, SchedulerOK
<1>1. CASE Tick
  <2>1. sched' = Passed(sched) /\ notBefore' = [g \in Generation |-> CountDown(notBefore[g])]
    BY <1>1 DEF Tick, Passed
  <2>2. UNCHANGED <<mounted, held, epoch, orphans, holder, drains, away>>
    BY <1>1 DEF Tick
  <2>3. /\ Kept(sched', notBefore') /\ ArmedIfIdle(sched') /\ SameMode(sched, sched')
        /\ sched'.active = sched.active
    BY <1>a, <2>1, PassedLemma
  <2>4. notBefore' \in [Generation -> Nat]
    BY <1>a, <2>1, CountDownLemma
  <2>5. TypeOK'
    BY <2>2, <2>3, <2>4 DEF TypeOK, Kept
  <2>6. HoldsOwn'
    <3>1. CASE mounted
      BY <2>2, <2>3, <3>1 DEF HoldsOwn, Holding, SameMode
    <3>2. CASE ~mounted
      <4>1. \A g \in Generation : notBefore'[g] = 0
        BY <2>1, <3>2, CountDownLemma DEF HoldsOwn
      <4> QED BY <2>2, <2>3, <3>2, <4>1 DEF HoldsOwn
    <3> QED BY <3>1, <3>2
  <2> QED BY <2>3, <2>5, <2>6
<1>2. CASE TimerFires
  <2> DEFINE s == [sched EXCEPT !.timer = None]
  <2>1. Kept(s, notBefore) /\ SameMode(sched, s)
    BY TimerLemma DEF Instant
  <2>2. Kept(Wake(s), notBefore) /\ SameMode(s, Wake(s)) /\ ArmedIfIdle(Wake(s))
    BY <1>a, <2>1, WakeLemma
  <2>3. Call(Wake(s))
    BY <1>2 DEF TimerFires
  <2> QED BY <2>1, <2>2, <2>3, CallLemma DEF SameMode
<1>3. CASE \E b \in BOOLEAN : CycleSucceeds(b)
  <2>1. PICK b \in BOOLEAN : CycleSucceeds(b)
    BY <1>3
  <2> DEFINE s == IF b /\ ~sched.aborted THEN Queue(sched, sched.active, "now", 0) ELSE sched
  <2>2. sched.active \in Generation /\ Call(Finished(s))
    BY <1>a, <2>1 DEF CycleSucceeds, Scheduler
  <2>3. Kept(s, notBefore) /\ SameMode(sched, s)
    <3>1. /\ Kept(Queue(sched, sched.active, "now", 0), notBefore)
          /\ SameMode(sched, Queue(sched, sched.active, "now", 0))
      BY <2>2, QueueLemma DEF Trigger
    <3> QED BY <3>1 DEF SameMode
  <2> HIDE DEF s
  <2>4. Kept(Finished(s), notBefore) /\ SameMode(s, Finished(s)) /\ ArmedIfIdle(Finished(s))
    <3>1. SchedulerOK(s) /\ Quiet(s)
      BY <2>3 DEF Kept
    <3>2. \A g \in Generation : notBefore[g] # 0 =>
             s.job[g].floor # None /\ notBefore[g] <= s.job[g].floor
      BY <2>3 DEF Kept, Waits
    <3> QED BY <1>a, <3>1, <3>2, FinishedLemma
  <2> QED BY <2>2, <2>3, <2>4, CallLemma DEF SameMode
<1>4. CASE CycleGivesUp
  <2>1. Kept(Finished(sched), notBefore) /\ SameMode(sched, Finished(sched)) /\ ArmedIfIdle(Finished(sched))
    <3>1. SchedulerOK(sched) /\ Quiet(sched)
      BY DEF Kept
    <3>2. \A g \in Generation : notBefore[g] # 0 =>
             sched.job[g].floor # None /\ notBefore[g] <= sched.job[g].floor
      BY DEF Kept, Waits
    <3> QED BY <1>a, <3>1, <3>2, FinishedLemma
  <2> QED BY <1>4, <2>1, CallLemma DEF SameMode, CycleGivesUp
<1>5. CASE \E d \in Delay : CycleFails(d)
  <2>1. PICK d \in Delay : CycleFails(d)
    BY <1>5
  <2>2. d \in Nat /\ mounted /\ sched.active # None /\ sched.active \in Generation
    BY <1>a, <2>1, TimesAssumption DEF CycleFails, Scheduler
  <2>3. /\ sched' = Finished(ScheduleRetry(sched, sched.active, d))
        /\ notBefore' = [notBefore EXCEPT ![sched.active] = d]
        /\ UNCHANGED <<mounted, held, epoch, orphans, holder, drains, away>>
    BY <2>1 DEF CycleFails
  <2>4. Kept(sched', notBefore') /\ ArmedIfIdle(sched') /\ SameMode(sched, sched')
    BY <1>a, <2>2, <2>3, RetryLemma
  <2>5. TypeOK'
    <3>1. notBefore' \in [Generation -> Nat]
      BY <1>a, <2>2, <2>3
    <3> QED BY <2>3, <2>4, <3>1 DEF TypeOK, Kept
  <2>6. HoldsOwn'
    BY <2>2, <2>3, <2>4 DEF HoldsOwn, Holding, SameMode
  <2> QED BY <2>4, <2>5, <2>6
<1>6. CASE LifecycleFlush
  BY <1>a, <1>6, QueueAllLemma, CallLemma DEF LifecycleFlush, SameMode
<1>7. CASE \E g \in Generation : LocalCommit(g)
  BY <1>a, <1>7, LocalCommitLemma, CallLemma DEF LocalCommit, SameMode
<1>8. CASE \E g \in Generation : TriggerManual(g)
  <2>1. PICK g \in Generation : Call(Wake(Queue(sched, g, "now", 0)))
    BY <1>8 DEF TriggerManual
  <2> DEFINE s == Queue(sched, g, "now", 0)
  <2>2. Kept(s, notBefore) /\ SameMode(sched, s)
    BY QueueLemma DEF Trigger
  <2> HIDE DEF s
  <2>3. Kept(Wake(s), notBefore) /\ SameMode(s, Wake(s)) /\ ArmedIfIdle(Wake(s))
    BY <1>a, <2>2, WakeLemma
  <2> QED BY <2>1, <2>2, <2>3, CallLemma DEF SameMode, s
<1>9. CASE \E b \in BOOLEAN : WindowOnline(b)
  BY <1>a, <1>9, OnlineLemma, CallLemma DEF WindowOnline
<1>10. CASE \E b \in BOOLEAN : WindowFocus(b)
  BY <1>a, <1>10, ForegroundLemma, CallLemma DEF WindowFocus
<1>11. CASE \E b \in BOOLEAN : Activate(b)
  <2>1. PICK b \in BOOLEAN : Activate(b)
    BY <1>11
  <2>2. /\ ~mounted /\ mounted' = TRUE /\ epoch' = epoch + 1 /\ held' = (Holding # {})
        /\ sched' = Installed(b) /\ UNCHANGED <<orphans, holder, drains, away, notBefore>>
    BY <2>1 DEF Activate
  <2>3. /\ Kept(sched', Untold) /\ ArmedIfIdle(sched') /\ sched'.suspended = (Holding # {})
    BY <2>2, InstalledLemma
  <2>4. Kept(sched', notBefore')
    <3>1. Waits(sched', notBefore')
      BY <2>2 DEF HoldsOwn, Waits
    <3> QED BY <2>3, <3>1 DEF Kept
  <2>5. TypeOK'
    BY <2>2, <2>4 DEF TypeOK, Kept
  <2>6. HoldsOwn'
    BY <2>2, <2>3 DEF HoldsOwn, Holding
  <2> QED BY <2>3, <2>4, <2>5, <2>6
<1>12. CASE \E k \in orphans : OrphanEnds(k)
  <2>1. orphans' \subseteq orphans
    BY <1>12 DEF OrphanEnds
  <2>2. UNCHANGED <<sched, mounted, held, epoch, holder, drains, away, notBefore>>
    BY <1>12 DEF OrphanEnds
  <2> QED BY <2>1, <2>2 DEF TypeOK, HoldsOwn, Holding
<1>13. CASE NativeSuspend
  <2>1. /\ ~away /\ away' = TRUE
        /\ sched' = IF mounted THEN SetSuspended(sched, TRUE) ELSE sched
        /\ UNCHANGED <<mounted, held, epoch, orphans, holder, drains, notBefore>>
    BY <1>13 DEF NativeSuspend
  <2>2. /\ Kept(sched', notBefore') /\ ArmedIfIdle(sched')
        /\ mounted => sched'.suspended = TRUE
        /\ ~mounted => sched' = sched
    BY <1>a, <2>1, SuspendedLemma
  <2>3. TypeOK'
    BY <2>1, <2>2 DEF TypeOK, Kept
  <2>4. HoldsOwn'
    BY <2>1, <2>2 DEF HoldsOwn, Holding
  <2> QED BY <2>2, <2>3, <2>4
<1>14. CASE NativeResume
  <2> DEFINE s == SetSuspended(sched, FALSE)
  <2>1. /\ away' = FALSE
        /\ sched' = IF mounted /\ ~held THEN QueueAll(s) ELSE sched
        /\ UNCHANGED <<mounted, held, epoch, orphans, holder, drains, notBefore>>
    BY <1>14 DEF NativeResume
  <2>2. Kept(s, notBefore) /\ ArmedIfIdle(s) /\ s.suspended = FALSE
    BY <1>a, SuspendedLemma
  <2> HIDE DEF s
  <2>3. Kept(QueueAll(s), notBefore) /\ ArmedIfIdle(QueueAll(s)) /\ QueueAll(s).suspended = FALSE
    BY <1>a, <2>2, QueueAllLemma DEF SameMode
  <2>4. Kept(sched', notBefore') /\ ArmedIfIdle(sched')
    BY <2>1, <2>3
  <2>5. TypeOK'
    BY <2>1, <2>4 DEF TypeOK, Kept
  <2>6. HoldsOwn'
    BY <2>1, <2>3 DEF HoldsOwn, Holding
  <2> QED BY <2>4, <2>5, <2>6
<1>15. CASE \E h \in Holder : Hold(h)
  <2>1. PICK h \in Holder : Hold(h)
    BY <1>15
  <2>2. /\ holder' = [holder EXCEPT ![h] = IF mounted THEN "draining" ELSE "holding"]
        /\ drains' = [drains EXCEPT ![h] = epoch] /\ held' = mounted
        /\ sched' = IF mounted THEN SetSuspended(sched, TRUE) ELSE sched
        /\ UNCHANGED <<mounted, epoch, orphans, away, notBefore>>
    BY <2>1 DEF Hold
  <2>3. /\ Kept(sched', notBefore') /\ ArmedIfIdle(sched')
        /\ mounted => sched'.suspended = TRUE
        /\ ~mounted => sched' = sched
    BY <1>a, <2>2, SuspendedLemma
  <2>4. TypeOK'
    <3>1. /\ holder' \in [Holder -> {"out", "draining", "holding"}]
          /\ drains' \in [Holder -> 0 .. epoch]
      BY <2>2 DEF TypeOK
    <3> QED BY <2>2, <2>3, <3>1 DEF TypeOK, Kept
  <2>5. h \in Holding'
    BY <2>2 DEF TypeOK, Holding
  <2>6. HoldsOwn'
    BY <2>2, <2>3, <2>5 DEF HoldsOwn
  <2> QED BY <2>3, <2>4, <2>6
<1>16. CASE \E h \in Holder : GrantHold(h)
  <2>1. PICK h \in Holder : GrantHold(h)
    BY <1>16
  <2>2. /\ holder[h] = "draining" /\ holder' = [holder EXCEPT ![h] = "holding"]
        /\ UNCHANGED <<sched, mounted, held, epoch, orphans, drains, away, notBefore>>
    BY <2>1 DEF GrantHold
  <2>3. TypeOK' /\ Holding' = Holding
    BY <2>2 DEF TypeOK, Holding
  <2> QED BY <2>2, <2>3 DEF HoldsOwn
<1>17. CASE \E h \in Holder : Release(h)
  <2>1. PICK h \in Holder : Release(h)
    BY <1>17
  <2>2. /\ holder[h] = "holding" /\ holder' = [holder EXCEPT ![h] = "out"]
        /\ UNCHANGED <<mounted, epoch, orphans, drains, away, notBefore>>
    BY <2>1 DEF Release
  <2>3. Holding' = Holding \ {h} /\ holder' \in [Holder -> {"out", "draining", "holding"}]
    BY <2>2 DEF TypeOK, Holding
  <2>4. CASE Holding = {h} /\ mounted
    <3>1. held' = FALSE /\ sched' = SetSuspended(sched, FALSE)
      BY <2>1, <2>4 DEF Release
    <3>2. Kept(sched', notBefore') /\ ArmedIfIdle(sched') /\ sched'.suspended = FALSE
      BY <1>a, <2>2, <3>1, SuspendedLemma
    <3>3. TypeOK'
      BY <2>2, <2>3, <3>1, <3>2 DEF TypeOK, Kept
    <3>4. HoldsOwn'
      BY <2>2, <2>3, <2>4, <3>1, <3>2 DEF HoldsOwn
    <3> QED BY <3>2, <3>3, <3>4
  <2>5. CASE ~(Holding = {h} /\ mounted)
    <3>1. held' = held /\ sched' = sched
      BY <2>1, <2>5 DEF Release
    <3>2. TypeOK'
      BY <2>2, <2>3, <3>1 DEF TypeOK
    <3>3. mounted => Holding # {} /\ Holding' # {}
      BY <2>2, <2>3, <2>5 DEF Holding
    <3>4. HoldsOwn'
      BY <2>2, <3>1, <3>3 DEF HoldsOwn
    <3> QED BY <2>2, <3>1, <3>2, <3>4
  <2> QED BY <2>4, <2>5
<1>18. CASE Deactivate
  <2>1. /\ mounted /\ mounted' = FALSE /\ held' = FALSE /\ sched' = Fresh
        /\ orphans' = IF sched.active = None THEN orphans ELSE orphans \cup {epoch}
        /\ notBefore' = Untold /\ UNCHANGED <<epoch, holder, drains, away>>
    BY <1>18 DEF Deactivate, Untold
  <2>2. Kept(sched', notBefore') /\ ArmedIfIdle(sched') /\ sched'.active = None
    BY <2>1, FreshLemma DEF Fresh
  <2>3. TypeOK'
    <3>1. notBefore' \in [Generation -> Nat] /\ \A g \in Generation : notBefore'[g] = 0
      BY <2>1 DEF Untold
    <3>2. orphans' \subseteq 1 .. epoch
      BY <2>1 DEF TypeOK
    <3> QED BY <2>1, <2>2, <3>1, <3>2 DEF TypeOK, Kept
  <2>4. HoldsOwn'
    BY <2>1, <2>2 DEF HoldsOwn, Untold
  <2> QED BY <2>2, <2>3, <2>4
<1>19. CASE UNCHANGED vars
  BY <1>19 DEF vars, TypeOK, HoldsOwn, Holding
<1> QED
  BY <1>1, <1>2, <1>3, <1>4, <1>5, <1>6, <1>7, <1>8, <1>9, <1>10, <1>11, <1>12, <1>13,
     <1>14, <1>15, <1>16, <1>17, <1>18, <1>19 DEF Next, CycleEnds

\* So it always holds.
LEMMA IInvCorrect == Spec => []IInv
BY InitLemma, StepLemma, PTL DEF Spec

(***************************************************************************)
(* The scheduler's record stays well formed, whatever calls it and in      *)
(* whatever order: src/renderer/sync/engine/scheduler.ts.                  *)
(***************************************************************************)
THEOREM TypeCorrect == Spec => []TypeOK
<1>1. IInv => TypeOK
  BY DEF IInv
<1> QED BY <1>1, IInvCorrect, PTL

(***************************************************************************)
(* No wake-up is lost: the timer of an idle scheduler that may run is at   *)
(* its earliest deadline (scheduleWake).                                   *)
(***************************************************************************)
THEOREM WakeCorrect == Spec => []WakeArmed
<1>1. IInv => WakeArmed
  BY DEF IInv, ArmedIfIdle, WakeArmed
<1> QED BY <1>1, IInvCorrect, PTL

(***************************************************************************)
(* No trigger pulls a cycle in front of the time its generation's last     *)
(* failure asked for (queue, scheduleRetry).                               *)
(***************************************************************************)
THEOREM RetryAfterCorrect == Spec => []RetryAfterIsAFloor
<1>1. IInv => RetryAfterIsAFloor
  BY DEF IInv, Kept, Waits, RetryAfterIsAFloor
<1> QED BY <1>1, IInvCorrect, PTL

\* Without focus no poll is set or waits on its own (setForeground).
THEOREM BackgroundCorrect == Spec => []QuietInBackground
<1>1. IInv => QuietInBackground
  BY DEF IInv, Kept, QuietInBackground
<1> QED BY <1>1, IInvCorrect, PTL

(***************************************************************************)
(* A hold excludes cycles, for any number of overlapping holders and       *)
(* reloads: while one is held the active cycle, if there is one, is        *)
(* aborted (product-runtime-control.ts).                                   *)
(***************************************************************************)
THEOREM HoldsCorrect == Spec => []HoldExcludesCycles
<1>1. IInv => HoldExcludesCycles
  <2> SUFFICES ASSUME IInv, NEW h \in Holder, holder[h] = "holding"
               PROVE  sched.active = None \/ sched.aborted
    BY DEF HoldExcludesCycles
  <2>1. Holding # {}
    BY DEF Holding
  <2>2. CASE mounted
    BY <2>1, <2>2 DEF IInv, HoldsOwn, Kept, Blocked, CanRun
  <2>3. CASE ~mounted
    BY <2>3 DEF IInv, HoldsOwn
  <2> QED BY <2>2, <2>3
<1> QED BY <1>1, IInvCorrect, PTL

(***************************************************************************)
(* Nobody stays suspended without an owner: a mounted scheduler is         *)
(* suspended only while a hold is held or the application is away, however *)
(* holds, reloads and visibility changes overlap.                          *)
(***************************************************************************)
THEOREM SuspensionCorrect == Spec => []SuspensionIsOwned
<1>1. IInv => SuspensionIsOwned
  BY DEF IInv, HoldsOwn, SuspensionIsOwned
<1> QED BY <1>1, IInvCorrect, PTL

=============================================================================
