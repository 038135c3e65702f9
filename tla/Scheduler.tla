------------------------------ MODULE Scheduler -----------------------------
(***************************************************************************)
(* The scheduler turns due schedules into queued runs                      *)
(* (scheduler/scheduler.py tick and _fire), while people edit and delete   *)
(* their schedules (api/runs.py), the same definitions are run by hand and *)
(* old runs are purged.                                                    *)
(*                                                                         *)
(* A tick locks the due rows (FOR UPDATE SKIP LOCKED), reads them once and  *)
(* handles them one by one from that reading.  create_run commits, which   *)
(* releases the locks of the whole tick before the occurrence is recorded. *)
(* A request that saves a schedule reads its row without a lock and writes,*)
(* at its commit, the columns it found different.  Time is counted in      *)
(* units of a scheduler poll.                                              *)
(***************************************************************************)
EXTENDS Naturals, FiniteSets

CONSTANTS Schedules,
          Runs, Fingerprints,  \* scan_runs, and what a definition expands to
          NoSchedule,          \* the schedule_id of a run started by hand
          Plans,               \* kind and params of a schedule
          Requests,            \* PUT requests that may be under way at once
          LATE_GRACE,          \* 15 minutes
          Touched,             \* the schedules people do something with
          MaxTime, MaxFaults,  \* bounds of the clock and of crashes
          MaxLoad              \* bound of what people do and of what there is to tick

Times == 0..MaxTime
Never == MaxTime + 100         \* next_run_at of an exhausted one-shot: NULL

ASSUME SchedulerAssumption ==
  /\ NoSchedule \notin Schedules /\ Fingerprints # {}
  /\ Plans \subseteq [kind : {"once"}, at : Times] \cup [kind : {"every"}, step : Times \ {0}]
  /\ Runs \subseteq Nat /\ Requests \subseteq Nat /\ LATE_GRACE \in Nat /\ MaxTime \in Nat
  /\ Touched \subseteq Schedules /\ MaxLoad \in Nat /\ MaxFaults \in Nat

VARIABLES
  clock,
  schedule,     \* rows of scan_schedules
  locked,       \* those on which the tick holds FOR UPDATE
  triggers,     \* rows of schedule_triggers, unique by schedule and due_at
  run,          \* rows of scan_runs
  expansion,    \* the fingerprint each schedule's definition has now
  tick,         \* what the scheduler is doing, with what it has read
  update,       \* what each PUT request is doing, with what it has read
  crossed,      \* schedules saved over what somebody else wrote meanwhile
  edits, faults \* how often people and crashes struck

tables == <<schedule, triggers, run, expansion>>
saves  == <<update, crossed>>
vars   == <<clock, tables, locked, tick, saves, edits, faults>>

NoRow   == [exists |-> FALSE]
Row(plan, active, next) ==
  [exists |-> TRUE, plan |-> plan, active |-> active, next_run_at |-> next]
Absent  == [state |-> "absent"]
Asleep  == [pc |-> "sleep"]
Idle    == [on |-> {}]

\* next_after: the first occurrence strictly after a time, none for a one-shot
\* in the past (wall-clock arithmetic and time zones are left out).
next_after(plan, after) ==
  IF plan.kind = "once"
  THEN IF plan.at > after THEN plan.at ELSE Never
  ELSE ((after \div plan.step) + 1) * plan.step

Due(x) == schedule[x].exists /\ schedule[x].active /\ schedule[x].next_run_at <= clock

\* The schedules the tick has read and not done with.
Handling == IF tick = Asleep THEN {} ELSE tick.todo

ActiveRuns(x) == {r \in Runs : run[r].state = "active" /\ run[r].schedule = x}
Equivalent(f) == {r \in Runs : run[r].state = "active" /\ run[r].fingerprint = f}

Init == /\ clock = 0
        /\ schedule \in [Schedules -> {NoRow} \cup 
             {Row(plan, TRUE, next_after(plan, 0)) : plan \in {p \in Plans : next_after(p, 0) # Never}}]
        /\ locked = {}
        /\ triggers = {}
        /\ run = [r \in Runs |-> Absent]
        /\ expansion = [x \in Schedules |-> CHOOSE f \in Fingerprints : TRUE]
        /\ tick = Asleep
        /\ update = [q \in Requests |-> Idle]
        /\ crossed = {}
        /\ edits = 0 /\ faults = 0
-----------------------------------------------------------------------------
(* People. *)

\* The requests that have read the row of x; somebody else writes it.
Saving(x) == {q \in Requests : x \in update[q].on}
Overtaken(x) == [q \in Requests |->
  IF q \in Saving(x) THEN [update[q] EXCEPT !.overtaken = TRUE] ELSE update[q]]

\* create_schedule: a new schedule has an identifier nothing refers to.
create_schedule(x, plan, active) ==
  /\ ~schedule[x].exists /\ x \notin Handling /\ Saving(x) = {}
  /\ LET next == next_after(plan, clock) IN
     schedule' = [schedule EXCEPT ![x] = Row(plan, active /\ next # Never, next)]
  /\ UNCHANGED <<clock, locked, triggers, run, expansion, tick, saves>>

\* update_schedule begins: get_or_404 reads the row, without a lock.
ReadSchedule(x) ==
  /\ schedule[x].exists
  /\ \E q \in Requests :
       /\ update[q] = Idle /\ \A p \in Requests : update[p] = Idle => q <= p
       /\ update' = [update EXCEPT ![q] =
            [on |-> {x}, seen |-> schedule[x], since |-> clock, overtaken |-> FALSE]]
  /\ UNCHANGED <<clock, tables, locked, tick, crossed>>

\* A column is written when its new value is not the one that was read.
Column(seen, current, new) == IF new = seen THEN current ELSE new

\* update_schedule ends: the next run was computed at some moment since the
\* reading; the UPDATE waits for a row lock and raises for a row that is gone.
update_schedule(q, plan, active) ==
  /\ \E x \in update[q].on : \E now \in update[q].since..clock :
       /\ x \notin locked
       /\ LET seen == update[q].seen
              row  == schedule[x]
              next == next_after(plan, now)
          IN IF ~row.exists THEN UNCHANGED schedule ELSE
             schedule' = [schedule EXCEPT ![x] =
               Row(Column(seen.plan, row.plan, plan),
                   Column(seen.active, row.active, active /\ next # Never),
                   Column(seen.next_run_at, row.next_run_at, next))]
       /\ update' = [Overtaken(x) EXCEPT ![q] = Idle]
       /\ crossed' = IF update[q].overtaken THEN crossed \cup {x} ELSE crossed
  /\ UNCHANGED <<clock, locked, triggers, run, expansion, tick, edits, faults>>

\* The triggers of a deleted schedule go with it, its runs lose their link.
delete_schedule(x) ==
  /\ schedule[x].exists /\ x \notin locked
  /\ schedule' = [schedule EXCEPT ![x] = NoRow]
  /\ triggers' = {t \in triggers : t.schedule # x}
  /\ run' = [r \in Runs |-> IF run[r].state # "absent" /\ run[r].schedule = x
                            THEN [run[r] EXCEPT !.schedule = NoSchedule] ELSE run[r]]
  /\ update' = Overtaken(x)
  /\ UNCHANGED <<clock, locked, expansion, tick, crossed>>

\* The identifiers of rows, taken in turn.
Fresh == {r \in Runs : run[r] = Absent /\ \A q \in Runs : run[q] = Absent => r <= q}

NewRun(x, due, f) == [state |-> "active", schedule |-> x, due |-> due, fingerprint |-> f]

\* Somebody runs the definition of x by hand; attaching to an active run
\* changes nothing here.
run_definition(x) ==
  /\ Equivalent(expansion[x]) = {}
  /\ \E r \in Fresh : run' = [run EXCEPT ![r] = NewRun(NoSchedule, 0, expansion[x])]
  /\ UNCHANGED <<clock, schedule, locked, triggers, expansion, tick, saves>>

\* A definition, or a policy or target it refers to, is edited.
edit_definition(x, f) ==
  /\ f # expansion[x]
  /\ expansion' = [expansion EXCEPT ![x] = f]
  /\ UNCHANGED <<clock, schedule, locked, triggers, run, tick, saves>>

\* A run ends (module RunQueue).
EndRun(r) ==
  /\ run[r].state = "active"
  /\ run' = [run EXCEPT ![r].state = "ended"]
  /\ UNCHANGED <<clock, schedule, locked, triggers, expansion, tick, saves, edits, faults>>

\* delete_run and purge: a trigger of the run forgets it (SET NULL); one that
\* is about to be inserted would refer to a row that is gone.
DeleteRun(r) ==
  /\ run[r].state = "ended"
  /\ run' = [run EXCEPT ![r] = Absent]
  /\ triggers' = {[t EXCEPT !.run = @ \ {r}] : t \in triggers}
  /\ tick' = IF tick.pc = "record" /\ r \in tick.run
             THEN [tick EXCEPT !.run = {}, !.dangling = TRUE] ELSE tick
  /\ UNCHANGED <<clock, schedule, locked, expansion, saves, edits, faults>>
-----------------------------------------------------------------------------
(* The tick. *)

\* The handling of one schedule ends; the rest of the list is next.
Rest(t, x) ==
  IF t.todo = {x} THEN Asleep
  ELSE [pc |-> "fire", now |-> t.now, todo |-> t.todo \ {x},
        read |-> [y \in t.todo \ {x} |-> t.read[y]]]

\* An exception leaves tick: rollback, and main sleeps until the next one.
Abort == tick' = Asleep /\ locked' = {}

\* tick begins; most of the time nothing is due.
SelectDue ==
  /\ tick = Asleep
  /\ LET due == {x \in Schedules : Due(x)} IN
     /\ tick' = IF due = {} THEN Asleep ELSE
          [pc |-> "fire", now |-> clock, todo |-> due, read |-> [x \in due |-> schedule[x]]]
     /\ locked' = due
  /\ UNCHANGED <<clock, tables, saves, edits, faults>>

\* How the occurrence of x ends: pc "record" with an outcome and its run.
Decided(t, x, outcome, r) ==
  [pc |-> "record", now |-> t.now, todo |-> t.todo, read |-> t.read,
   at |-> x, outcome |-> outcome, run |-> r, dangling |-> FALSE]
\* The snapshot of the definition is built, its fingerprint known.
Expanded(t, x) ==
  [pc |-> "create", now |-> t.now, todo |-> t.todo, read |-> t.read,
   at |-> x, expands |-> expansion[x]]

Late(t, x) == t.now - t.read[x].next_run_at > LATE_GRACE

\* Mutated form: the runs of the schedule are not looked at.
_fire_overlaps(x) ==
  /\ tick.pc = "fire" /\ x \in tick.todo
  /\ tick' = IF Late(tick, x) THEN Decided(tick, x, "skipped_late", {})
             ELSE Expanded(tick, x)
  /\ UNCHANGED <<clock, tables, locked, saves, edits, faults>>

\* _fire: too late, still active, no plan, or a run to create from a snapshot.
_fire(x) ==
  /\ tick.pc = "fire" /\ x \in tick.todo
  /\ \/ /\ Late(tick, x)
        /\ tick' = Decided(tick, x, "skipped_late", {})
     \/ /\ ~Late(tick, x) /\ ActiveRuns(x) # {}
        /\ tick' = Decided(tick, x, "skipped_overlap", {})
     \/ /\ ~Late(tick, x) /\ ActiveRuns(x) = {}
        /\ \/ tick' = Decided(tick, x, "error", {})  \* PlanError
           \/ tick' = Expanded(tick, x)
  /\ UNCHANGED <<clock, tables, locked, saves, edits, faults>>

\* Mutated form: an attached occurrence is reported as a run of its own.
CreateRun_attached_triggers ==
  /\ tick.pc = "create"
  /\ \E r \in Equivalent(tick.expands) : tick' = Decided(tick, tick.at, "triggered", {r})
  /\ locked' = {}
  /\ UNCHANGED <<clock, tables, saves, edits, faults>>

\* create_run and its commit, which ends the transaction of the tick.  The
\* foreign key refuses a schedule that is gone.
CreateRun ==
  /\ tick.pc = "create"
  /\ LET x == tick.at
         f == tick.expands
     IN \/ /\ \E r \in Equivalent(f) : tick' = Decided(tick, x, "skipped_overlap", {r})
           /\ locked' = {}
           /\ UNCHANGED run
        \/ /\ Equivalent(f) = {} /\ schedule[x].exists
           /\ \E r \in Fresh :
                /\ run' = [run EXCEPT ![r] = NewRun(x, tick.read[x].next_run_at, f)]
                /\ tick' = Decided(tick, x, "triggered", {r})
           /\ locked' = {}
        \/ /\ Equivalent(f) = {} /\ ~schedule[x].exists
           /\ Abort
           /\ UNCHANGED run
  /\ UNCHANGED <<clock, schedule, triggers, expansion, saves, edits, faults>>

Recorded(x, due) == \E t \in triggers : t.schedule = x /\ t.due_at = due

\* INSERT of the trigger in a savepoint: a second one of the occurrence, or one
\* whose run is gone, is dropped.
InsertTrigger(x, due) ==
  triggers' = IF Recorded(x, due) \/ tick.dangling THEN triggers
    ELSE triggers \cup {[schedule |-> x, due_at |-> due,
                         outcome |-> tick.outcome, run |-> tick.run]}

\* Mutated forms: a one-shot keeps the occurrence it had; it stays active; an
\* occurrence that is skipped leaves its schedule as it is.
Advance_keeps_due(x) ==
  LET next == next_after(tick.read[x].plan, tick.now) IN
  schedule' = IF next = Never THEN schedule ELSE
    [schedule EXCEPT ![x].next_run_at = next]
Advance_stays_active(x) ==
  schedule' = [schedule EXCEPT ![x] = Row(@.plan, @.active, next_after(tick.read[x].plan, tick.now))]
Advance_if_triggered(x) ==
  LET next == next_after(tick.read[x].plan, tick.now) IN
  schedule' = IF tick.outcome # "triggered" THEN schedule ELSE
    [schedule EXCEPT ![x] = Row(@.plan, @.active /\ next # Never, next)]

\* The next occurrence is taken by the plan that was read, after the start of
\* the tick; a one-shot is switched off.
Advance(x) ==
  LET next == next_after(tick.read[x].plan, tick.now) IN
  schedule' = [schedule EXCEPT ![x] = Row(@.plan, @.active /\ next # Never, next)]

\* The trigger, the schedule and the commit; the UPDATE of a schedule that is
\* gone raises.
Record ==
  /\ tick.pc = "record"
  /\ LET x == tick.at IN
     \/ /\ schedule[x].exists
        /\ InsertTrigger(x, tick.read[x].next_run_at)
        /\ Advance(x)
        /\ update' = Overtaken(x)
        /\ tick' = Rest(tick, x)
        /\ locked' = {}
     \/ /\ ~schedule[x].exists
        /\ Abort
        /\ UNCHANGED <<schedule, triggers, update>>
  /\ UNCHANGED <<clock, run, expansion, crossed, edits, faults>>
-----------------------------------------------------------------------------
\* The container dies in its tick and is restarted, or the tick raises (the
\* INSERT of a run refused by one that ends meanwhile, a lost connection).
Crash ==
  /\ faults < MaxFaults
  /\ tick # Asleep
  /\ faults' = faults + 1
  /\ Abort
  /\ UNCHANGED <<clock, tables, saves, edits>>

TimePasses ==
  /\ clock < MaxTime
  /\ clock' = clock + 1
  /\ UNCHANGED <<tables, locked, tick, saves, edits, faults>>

People(x) ==
  /\ edits + Cardinality({y \in Schedules : schedule[y].exists}) < MaxLoad
  /\ edits' = edits + 1
  /\ \/ \E plan \in Plans, active \in BOOLEAN : create_schedule(x, plan, active)
     \/ ReadSchedule(x)
     \/ delete_schedule(x)
     \/ run_definition(x)
     \/ \E f \in Fingerprints : edit_definition(x, f)
  /\ UNCHANGED faults

TickStep == SelectDue \/ (\E x \in Schedules : _fire(x)) \/ CreateRun \/ Record

Update(q) == \E plan \in Plans, active \in BOOLEAN : update_schedule(q, plan, active)

Next == \/ \E x \in Touched : People(x)
        \/ \E q \in Requests : Update(q)
        \/ TickStep
        \/ Crash
        \/ \E r \in Runs : EndRun(r) \/ DeleteRun(r)
        \/ TimePasses

Spec == Init /\ [][Next]_vars

\* The container is restarted (restart: unless-stopped) and main ticks for
\* ever; runs that ended are purged in the end (services/retention.py).
Fairness == WF_vars(TickStep) /\ \A r \in Runs : WF_vars(DeleteRun(r))
FairSpec == Spec /\ Fairness
-----------------------------------------------------------------------------
\* "no overlap": a schedule never has two runs under way, whatever its
\* definition becomes between two of its occurrences (_fire).
NoOverlap == \A x \in Schedules : Cardinality(ActiveRuns(x)) <= 1

\* An active schedule knows when it runs next, although the tick and the
\* people write its row from readings of different times, unless a save went
\* over what somebody else had written since it read the row (update_schedule).
ActiveHasNext == \A x \in Schedules \ crossed :
  schedule[x].exists /\ schedule[x].active => schedule[x].next_run_at # Never

RunsOf(x, due) == {r \in Runs : /\ run[r].state # "absent"
                                /\ run[r].schedule = x /\ run[r].due = due}

\* "exactly once per occurrence" (tick), whatever happens.
OncePerOccurrence ==
  \A x \in Schedules, due \in Times : Cardinality(RunsOf(x, due)) <= 1

\* The same while no scheduler dies and no save of the schedule goes over a
\* later write: a slow tick, edits in the middle of it and saves that began
\* before it do not fire an occurrence again.
OnceWithoutCrash == faults = 0 =>
  \A x \in Schedules \ crossed, due \in Times : Cardinality(RunsOf(x, due)) <= 1

\* The history tells the truth under the same conditions: the run of an
\* occurrence that has been handled is the run its trigger names, and only a
\* run of its own counts as triggered (tick).
HistoryTellsRuns ==
  faults = 0 => \A t \in triggers : t.schedule \notin crossed =>
    /\ \A r \in RunsOf(t.schedule, t.due_at) : t.outcome = "triggered" /\ t.run = {r}
    /\ t.outcome = "triggered" => t.run \subseteq RunsOf(t.schedule, t.due_at)

\* A due schedule is handled, however late: it moves on to an occurrence to
\* come or is switched off, and never blocks behind another one (tick).
ScheduleMovesOn == \A x \in Schedules : Due(x) ~> ~Due(x)
=============================================================================
