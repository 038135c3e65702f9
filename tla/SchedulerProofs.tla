--------------------------- MODULE SchedulerProofs ---------------------------
(***************************************************************************)
(* Proofs about Scheduler, for any numbers of schedules, runs, edits and   *)
(* crashes and any horizon.                                                *)
(***************************************************************************)
EXTENDS Scheduler, FiniteSetTheorems, TLAPS

LiveRows == [exists : {TRUE}, plan : Plans, active : BOOLEAN, next_run_at : Nat]
RunRows  == [state : {"active", "ended"}, schedule : Schedules \cup {NoSchedule},
             due : Nat, fingerprint : Fingerprints]
Outcomes == {"triggered", "skipped_late", "skipped_overlap", "error"}
Triggers == [schedule : Schedules, due_at : Nat, outcome : Outcomes, run : SUBSET Runs]

\* The rows a tick read, of the schedules it found due.
Readings == UNION {[S -> LiveRows] : S \in SUBSET Schedules}
Firing   == [pc : {"fire"}, now : Times, todo : SUBSET Schedules, read : Readings]
Creating == [pc : {"create"}, now : Times, todo : SUBSET Schedules, read : Readings,
             at : Schedules, expands : Fingerprints]
Recording == [pc : {"record"}, now : Times, todo : SUBSET Schedules, read : Readings,
              at : Schedules, outcome : Outcomes, run : SUBSET Runs, dangling : BOOLEAN]
\* A request that has read the row of a schedule.
Updates  == [on : {{x} : x \in Schedules}, seen : LiveRows, since : Times, overtaken : BOOLEAN]

TypeOK == /\ clock \in Times
          /\ schedule \in [Schedules -> LiveRows \cup {NoRow}]
          /\ locked \subseteq Schedules
          /\ triggers \subseteq Triggers
          /\ run \in [Runs -> RunRows \cup {Absent}]
          /\ expansion \in [Schedules -> Fingerprints]
          /\ tick \in {Asleep} \cup Firing \cup Creating \cup Recording
          /\ update \in [Requests -> {Idle} \cup Updates]
          /\ crossed \subseteq Schedules
          /\ edits \in Nat /\ faults \in Nat

\* What a tick works from: due rows, the one in hand among those to do.
ReadInv == tick # Asleep =>
  /\ tick.now <= clock
  /\ \A x \in tick.todo : tick.read[x] \in LiveRows /\ tick.read[x].next_run_at <= tick.now
  /\ tick.pc # "fire" => tick.at \in tick.todo
-----------------------------------------------------------------------------
\* The next occurrence is always ahead (schedule_calc.py next_after).
LEMMA NextAfterIsLater == ASSUME NEW plan \in Plans, NEW t \in Times
  PROVE next_after(plan, t) \in Nat /\ next_after(plan, t) > t
<1>1. /\ plan \in [kind : {"once"}, at : Times] \cup [kind : {"every"}, step : Times \ {0}]
      /\ MaxTime \in Nat
  BY SchedulerAssumption
<1>2. CASE plan \in [kind : {"once"}, at : Times]
  BY <1>1, <1>2 DEF next_after, Never, Times
<1>3. CASE plan \in [kind : {"every"}, step : Times \ {0}]
  <2>1. plan.kind = "every" /\ plan.step \in Nat \ {0} /\ t \in Nat
    BY <1>1, <1>3 DEF Times
  <2>2. ASSUME NEW s \in Nat \ {0} PROVE /\ ((t \div s) + 1) * s \in Nat
                                         /\ ((t \div s) + 1) * s > t
    <3>1. t \div s \in Nat /\ t = s * (t \div s) + (t % s) /\ t % s \in 0..(s - 1)
      BY <2>1, SMTT(30)
    <3> DEFINE q == t \div s
    <3>2. q \in Nat /\ (q + 1) * s = s * q + s
      BY <3>1, SMTT(30)
    <3>3. s * q \in Nat
      BY <3>2, SMTT(30)
    <3> HIDE DEF q
    <3>4. (q + 1) * s \in Nat /\ (q + 1) * s > t
      BY <2>1, <3>1, <3>2, <3>3, SMTT(30) DEF q
    <3> QED BY <3>4 DEF q
  <2> QED BY <2>1, <2>2 DEF next_after
<1> QED BY <1>1, <1>2, <1>3

LEMMA RowValues ==
  /\ NoRow \notin LiveRows
  /\ \A row \in LiveRows \cup {NoRow} : row.exists <=> row \in LiveRows
  /\ \A plan \in Plans, active \in BOOLEAN, next \in Nat : Row(plan, active, next) \in LiveRows
<1>1. /\ NoRow.exists = FALSE
      /\ \A row \in LiveRows : row.exists = TRUE
  BY DEF NoRow, LiveRows
<1>2. \A plan \in Plans, active \in BOOLEAN, next \in Nat : Row(plan, active, next) \in LiveRows
  BY DEF LiveRows, Row
<1> QED BY <1>1, <1>2

\* A row is saved active only with an occurrence to come.
LEMMA SavedValues == ASSUME NEW plan \in Plans, NEW active \in BOOLEAN, NEW next \in Nat, NEW row,
                            row = Row(plan, active /\ next # Never, next)
  PROVE row.exists /\ row.next_run_at = next /\ (row.active => next # Never)
<1>1. row.exists /\ row.next_run_at = next
  BY DEF Row
<1>2. CASE next = Never
  <2>1. (active /\ next # Never) = FALSE
    BY <1>2
  <2>2. row = Row(plan, FALSE, next)
    BY <2>1
  <2>3. row.active = FALSE
    BY <2>2 DEF Row
  <2> QED BY <1>1, <2>3
<1> QED BY <1>1, <1>2

LEMMA RunValues ==
  /\ \A r \in RunRows \cup {Absent} : r.state # "absent" <=> r \in RunRows
  /\ \A r \in RunRows : [r EXCEPT !.state = "ended"] \in RunRows
  /\ \A r \in RunRows : [r EXCEPT !.schedule = NoSchedule] \in RunRows
  /\ \A x \in Schedules \cup {NoSchedule}, due \in Nat, f \in Fingerprints :
       NewRun(x, due, f) \in RunRows
BY DEF RunRows, Absent, NewRun

\* What the steps of a tick make of it.
LEMMA TickValues == ASSUME NEW t \in Firing \cup Creating \cup Recording, NEW x \in Schedules
  PROVE /\ (\A y \in t.todo : t.read[y] \in LiveRows) => Rest(t, x) \in {Asleep} \cup Firing
        /\ \A o \in Outcomes, S \in SUBSET Runs : Decided(t, x, o, S) \in Recording
        /\ expansion \in [Schedules -> Fingerprints] => Expanded(t, x) \in Creating
<1>1. t.now \in Times /\ t.todo \in SUBSET Schedules /\ t.read \in Readings
  BY DEF Firing, Creating, Recording
<1>2. ASSUME \A y \in t.todo : t.read[y] \in LiveRows PROVE Rest(t, x) \in {Asleep} \cup Firing
  <2>1. [y \in t.todo \ {x} |-> t.read[y]] \in [t.todo \ {x} -> LiveRows]
    BY <1>2
  <2>2. [y \in t.todo \ {x} |-> t.read[y]] \in Readings
    BY <1>1, <2>1 DEF Readings
  <2> QED BY <1>1, <2>2 DEF Rest, Firing
<1> QED BY <1>1, <1>2 DEF Firing, Creating, Recording, Decided, Expanded

LEMMA TickStates ==
  /\ Asleep.pc = "sleep"
  /\ \A t \in Firing : t.pc = "fire"
  /\ \A t \in Creating : t.pc = "create"
  /\ \A t \in Recording : t.pc = "record"
BY DEF Asleep, Firing, Creating, Recording

\* A new run takes an identifier nothing has.
LEMMA FreshRuns == Fresh \subseteq Runs /\ \A r \in Fresh : run[r] = Absent
BY DEF Fresh

LEMMA TypeInit == Init => TypeOK /\ ReadInv
<1> SUFFICES ASSUME Init PROVE TypeOK /\ ReadInv
  OBVIOUS
<1>1. 0 \in Times
  BY SchedulerAssumption DEF Times
<1>2. schedule \in [Schedules -> LiveRows \cup {NoRow}]
  <2> DEFINE Rows == {Row(plan, TRUE, next_after(plan, 0)) : plan \in {p \in Plans : next_after(p, 0) # Never}}
  <2>1. Rows \subseteq LiveRows
    BY <1>1, NextAfterIsLater, RowValues
  <2>2. schedule \in [Schedules -> {NoRow} \cup Rows]
    BY DEF Init
  <2> HIDE DEF Rows
  <2> QED BY <2>1, <2>2
<1>3. expansion \in [Schedules -> Fingerprints]
  BY SchedulerAssumption DEF Init
<1> QED BY <1>1, <1>2, <1>3 DEF Init, TypeOK, ReadInv

LEMMA CreateTypes == ASSUME TypeOK, NEW x \in Schedules, NEW plan \in Plans, NEW active \in BOOLEAN,
                            create_schedule(x, plan, active)
  PROVE schedule' \in [Schedules -> LiveRows \cup {NoRow}]
<1>1. next_after(plan, clock) \in Nat
  BY NextAfterIsLater DEF TypeOK
<1>2. Row(plan, active /\ next_after(plan, clock) # Never, next_after(plan, clock)) \in LiveRows
  BY <1>1, RowValues
<1> QED BY <1>2 DEF create_schedule, TypeOK

LEMMA UpdateValues ==
  /\ Idle.on = {}
  /\ \A u \in Updates : \A x \in u.on : u.on = {x} /\ x \in Schedules
  /\ \A u \in Updates : [u EXCEPT !.overtaken = TRUE] \in Updates
  /\ \A x \in Schedules, row \in LiveRows, t \in Times, b \in BOOLEAN :
       [on |-> {x}, seen |-> row, since |-> t, overtaken |-> b] \in Updates
BY DEF Idle, Updates

\* A request has a reading exactly when it is on a schedule.
LEMMA UpdateCases == ASSUME TypeOK, NEW q \in Requests, NEW x \in update[q].on
  PROVE /\ update[q] \in Updates /\ update[q].on = {x} /\ x \in Schedules
        /\ update[q].seen \in LiveRows /\ update[q].since \in Times
        /\ update[q].overtaken \in BOOLEAN
<1>1. update[q] \in {Idle} \cup Updates
  BY DEF TypeOK
<1>2. update[q] \in Updates
  BY <1>1, UpdateValues
<1> QED BY <1>2, UpdateValues DEF Updates

LEMMA OvertakenTypes == ASSUME TypeOK, NEW x
  PROVE Overtaken(x) \in [Requests -> {Idle} \cup Updates]
<1>1. \A q \in Saving(x) : q \in Requests /\ update[q] \in Updates
  BY UpdateCases DEF Saving
<1> QED BY <1>1, UpdateValues DEF Overtaken, TypeOK

\* A save leaves a row of the columns it read, of those it finds, and of its own.
LEMMA SaveTypes == ASSUME TypeOK, NEW q \in Requests, NEW plan \in Plans, NEW active \in BOOLEAN,
                          update_schedule(q, plan, active)
  PROVE /\ schedule' \in [Schedules -> LiveRows \cup {NoRow}]
        /\ update' \in [Requests -> {Idle} \cup Updates]
        /\ crossed' \subseteq Schedules
<1>1. PICK x \in update[q].on : \E now \in update[q].since..clock :
       /\ LET seen == update[q].seen
              row  == schedule[x]
              next == next_after(plan, now)
          IN IF ~row.exists THEN UNCHANGED schedule ELSE
             schedule' = [schedule EXCEPT ![x] =
               Row(Column(seen.plan, row.plan, plan),
                   Column(seen.active, row.active, active /\ next # Never),
                   Column(seen.next_run_at, row.next_run_at, next))]
       /\ update' = [Overtaken(x) EXCEPT ![q] = Idle]
       /\ crossed' = IF update[q].overtaken THEN crossed \cup {x} ELSE crossed
  BY DEF update_schedule
<1>2. PICK now \in update[q].since..clock :
        LET seen == update[q].seen
            row  == schedule[x]
            next == next_after(plan, now)
        IN IF ~row.exists THEN UNCHANGED schedule ELSE
             schedule' = [schedule EXCEPT ![x] =
               Row(Column(seen.plan, row.plan, plan),
                   Column(seen.active, row.active, active /\ next # Never),
                   Column(seen.next_run_at, row.next_run_at, next))]
  BY <1>1
<1>3. x \in Schedules /\ update[q].since \in Times
  BY <1>1, UpdateCases
<1>4. now \in Times
  BY <1>2, <1>3, SchedulerAssumption DEF TypeOK, Times
<1> DEFINE next == next_after(plan, now)
           b    == active /\ next # Never
           row  == schedule[x]
           seen == update[q].seen
<1>5. next \in Nat
  BY <1>4, NextAfterIsLater
<1>6. CASE row.exists
  <2>1. row \in LiveRows
    BY <1>3, <1>6, RowValues DEF TypeOK
  <2>2. row.plan \in Plans /\ row.active \in BOOLEAN /\ row.next_run_at \in Nat
    BY <2>1 DEF LiveRows
  <2> DEFINE p == Column(seen.plan, row.plan, plan)
             a == Column(seen.active, row.active, b)
             n == Column(seen.next_run_at, row.next_run_at, next)
  <2>3. p \in Plans /\ n \in Nat
    BY <1>5, <2>2 DEF Column
  <2>4. a \in BOOLEAN
    BY <2>2 DEF Column
  <2>5. Row(p, a, n) \in LiveRows
    BY <2>3, <2>4, RowValues
  <2>6. schedule' = [schedule EXCEPT ![x] = Row(p, a, n)]
    BY <1>2, <1>6
  <2> HIDE DEF p, a, n
  <2>7. schedule' \in [Schedules -> LiveRows \cup {NoRow}]
    BY <2>5, <2>6 DEF TypeOK
  <2> QED BY <1>1, <1>3, <2>7, OvertakenTypes DEF TypeOK
<1>7. CASE ~row.exists
  BY <1>1, <1>2, <1>3, <1>7, OvertakenTypes DEF TypeOK
<1> QED BY <1>6, <1>7

LEMMA AdvanceTypes == ASSUME TypeOK, ReadInv, tick \in Recording, schedule[tick.at].exists, Advance(tick.at)
  PROVE schedule' \in [Schedules -> LiveRows \cup {NoRow}]
<1> DEFINE x == tick.at
           next == next_after(tick.read[x].plan, tick.now)
<1>1. x \in Schedules /\ tick.now \in Times /\ tick # Asleep /\ tick.pc # "fire"
  BY TickStates DEF Recording
<1>2. tick.read[x].plan \in Plans
  BY <1>1 DEF ReadInv, LiveRows
<1>3. next \in Nat
  BY <1>1, <1>2, NextAfterIsLater
<1>4. schedule[x] \in LiveRows
  BY <1>1, RowValues DEF TypeOK
<1>5. schedule[x].plan \in Plans /\ (schedule[x].active /\ next # Never) \in BOOLEAN
  BY <1>4 DEF LiveRows
<1>6. Row(schedule[x].plan, schedule[x].active /\ next # Never, next) \in LiveRows
  BY <1>3, <1>5, RowValues
<1> QED BY <1>1, <1>6 DEF Advance, TypeOK

\* The insert adds what is known of the occurrence or nothing.
LEMMA InsertTypes == ASSUME TypeOK, ReadInv, tick \in Recording,
                            InsertTrigger(tick.at, tick.read[tick.at].next_run_at)
  PROVE triggers' \subseteq Triggers
<1>1. tick.at \in Schedules /\ tick # Asleep /\ tick.pc # "fire"
      /\ tick.outcome \in Outcomes /\ tick.run \in SUBSET Runs
  BY TickStates DEF Recording
<1>2. tick.read[tick.at].next_run_at \in Nat
  BY <1>1 DEF ReadInv, LiveRows
<1>3. [schedule |-> tick.at, due_at |-> tick.read[tick.at].next_run_at,
       outcome |-> tick.outcome, run |-> tick.run] \in Triggers
  BY <1>1, <1>2 DEF Triggers
<1> QED BY <1>3 DEF InsertTrigger, TypeOK

\* Where a tick stands says which fields it has.
LEMMA TickCases == ASSUME TypeOK
  PROVE /\ tick.pc = "fire" => tick \in Firing
        /\ tick.pc = "create" => tick \in Creating
        /\ tick.pc = "record" => tick \in Recording
        /\ tick.pc = "sleep" <=> tick = Asleep
BY TickStates DEF TypeOK

LEMMA TypeStep == TypeOK /\ ReadInv /\ [Next]_vars => TypeOK'
<1> SUFFICES ASSUME TypeOK, ReadInv, [Next]_vars PROVE TypeOK'
  OBVIOUS
<1>1. ASSUME NEW x \in Schedules, People(x) PROVE TypeOK'
  <2>1. edits' \in Nat /\ faults' = faults
    BY <1>1, SchedulerAssumption DEF People, TypeOK
  <2>2. ASSUME NEW plan \in Plans, NEW active \in BOOLEAN, create_schedule(x, plan, active) PROVE TypeOK'
    BY <2>1, <2>2, CreateTypes DEF create_schedule, TypeOK, saves
  <2>3. CASE delete_schedule(x)
    <3>1. /\ schedule' \in [Schedules -> LiveRows \cup {NoRow}] /\ triggers' \subseteq Triggers
          /\ update' \in [Requests -> {Idle} \cup Updates]
      BY <2>3, OvertakenTypes DEF delete_schedule, TypeOK
    <3>2. run' \in [Runs -> RunRows \cup {Absent}]
      BY <2>3, RunValues DEF delete_schedule, TypeOK
    <3> QED BY <2>1, <2>3, <3>1, <3>2 DEF delete_schedule, TypeOK
  <2>4. CASE run_definition(x)
    <3>1. NewRun(NoSchedule, 0, expansion[x]) \in RunRows
      BY RunValues DEF TypeOK
    <3>2. run' \in [Runs -> RunRows \cup {Absent}]
      BY <2>4, <3>1, FreshRuns DEF run_definition, TypeOK
    <3> QED BY <2>1, <2>4, <3>2 DEF run_definition, TypeOK, saves
  <2>5. ASSUME NEW f \in Fingerprints, edit_definition(x, f) PROVE TypeOK'
    BY <2>1, <2>5 DEF edit_definition, TypeOK, saves
  <2>6. CASE ReadSchedule(x)
    <3>1. schedule[x] \in LiveRows /\ clock \in Times
      BY <2>6, RowValues DEF ReadSchedule, TypeOK
    <3>2. [on |-> {x}, seen |-> schedule[x], since |-> clock, overtaken |-> FALSE] \in Updates
      BY <3>1, UpdateValues
    <3>3. update' \in [Requests -> {Idle} \cup Updates]
      BY <2>6, <3>2 DEF ReadSchedule, TypeOK
    <3> QED BY <2>1, <2>6, <3>3 DEF ReadSchedule, TypeOK, tables
  <2> QED BY <1>1, <2>2, <2>3, <2>4, <2>5, <2>6 DEF People
<1>11. ASSUME NEW q \in Requests, NEW plan \in Plans, NEW active \in BOOLEAN,
              update_schedule(q, plan, active)
       PROVE TypeOK'
  BY <1>11, SaveTypes DEF update_schedule, TypeOK
<1>2. CASE SelectDue
  <2> DEFINE due == {x \in Schedules : Due(x)}
             read == [x \in due |-> schedule[x]]
  <2>1. \A x \in due : schedule[x] \in LiveRows
    BY RowValues DEF Due, TypeOK
  <2>2. due \in SUBSET Schedules /\ read \in [due -> LiveRows]
    BY <2>1
  <2>3. read \in Readings
    BY <2>2 DEF Readings
  <2>4. [pc |-> "fire", now |-> clock, todo |-> due, read |-> read] \in Firing
    BY <2>2, <2>3 DEF Firing, TypeOK
  <2>5. tick' \in {Asleep} \cup Firing /\ locked' \subseteq Schedules
    BY <1>2, <2>2, <2>4 DEF SelectDue
  <2> QED BY <1>2, <2>5 DEF SelectDue, TypeOK, tables, saves
<1>3. ASSUME NEW x \in Schedules, _fire(x) PROVE TypeOK'
  <2>1. tick \in Firing
    BY <1>3, TickCases DEF _fire
  <2>2. \A o \in Outcomes : Decided(tick, x, o, {}) \in Recording
    BY <2>1, TickValues
  <2>3. Expanded(tick, x) \in Creating
    BY <2>1, TickValues DEF TypeOK
  <2>4. tick' \in Recording \cup Creating
    BY <1>3, <2>2, <2>3 DEF _fire, Outcomes
  <2> QED BY <1>3, <2>4 DEF _fire, TypeOK, tables, saves
<1>4. CASE CreateRun
  <2> DEFINE x == tick.at
  <2>1. tick \in Creating /\ tick # Asleep /\ tick.pc # "fire"
    BY <1>4, TickCases, TickStates DEF CreateRun
  <2>2. x \in Schedules /\ tick.expands \in Fingerprints
    BY <2>1 DEF Creating
  <2>3. tick.read[x].next_run_at \in Nat
    BY <2>1 DEF ReadInv, LiveRows
  <2>4. ASSUME NEW r \in Runs PROVE /\ Decided(tick, x, "skipped_overlap", {r}) \in Recording
                                    /\ Decided(tick, x, "triggered", {r}) \in Recording
    BY <2>1, <2>2, TickValues DEF Outcomes
  <2>5. NewRun(x, tick.read[x].next_run_at, tick.expands) \in RunRows
    BY <2>2, <2>3, RunValues
  <2>6. tick' \in {Asleep} \cup Recording /\ locked' = {}
    BY <1>4, <2>4, FreshRuns DEF CreateRun, Equivalent, Abort
  <2>7. run' \in [Runs -> RunRows \cup {Absent}]
    BY <1>4, <2>5, FreshRuns DEF CreateRun, TypeOK
  <2> QED BY <1>4, <2>6, <2>7 DEF CreateRun, TypeOK, saves
<1>5. CASE Record
  <2>1. tick \in Recording
    BY <1>5, TickCases DEF Record
  <2>2. tick.at \in Schedules
    BY <2>1 DEF Recording
  <2>3. Rest(tick, tick.at) \in {Asleep} \cup Firing
    BY <2>1, <2>2, TickValues, TickStates DEF ReadInv
  <2>4. /\ schedule' \in [Schedules -> LiveRows \cup {NoRow}] /\ triggers' \subseteq Triggers
        /\ tick' \in {Asleep} \cup Firing /\ locked' = {}
        /\ update' \in [Requests -> {Idle} \cup Updates]
    BY <1>5, <2>1, <2>3, AdvanceTypes, InsertTypes, OvertakenTypes DEF Record, Abort, TypeOK
  <2> QED BY <1>5, <2>4 DEF Record, TypeOK
<1>6. CASE Crash
  BY <1>6 DEF Crash, Abort, TypeOK, tables, saves
<1>7. ASSUME NEW r \in Runs, EndRun(r) PROVE TypeOK'
  <2>1. run[r] \in RunRows
    BY <1>7, RunValues DEF EndRun, TypeOK
  <2> QED BY <1>7, <2>1, RunValues DEF EndRun, TypeOK, saves
<1>8. ASSUME NEW r \in Runs, DeleteRun(r) PROVE TypeOK'
  <2>1. run' \in [Runs -> RunRows \cup {Absent}]
    BY <1>8 DEF DeleteRun, TypeOK
  <2>2. triggers' \subseteq Triggers
    <3>1. \A t \in Triggers : [t EXCEPT !.run = @ \ {r}] \in Triggers
      BY DEF Triggers
    <3> QED BY <1>8, <3>1 DEF DeleteRun, TypeOK
  <2>3. tick' \in {Asleep} \cup Firing \cup Creating \cup Recording
    <3>1. tick \in Recording => [tick EXCEPT !.run = {}, !.dangling = TRUE] \in Recording
      BY DEF Recording
    <3> QED BY <1>8, <3>1, TickCases DEF DeleteRun, TypeOK
  <2> QED BY <1>8, <2>1, <2>2, <2>3 DEF DeleteRun, TypeOK, saves
<1>9. CASE TimePasses
  BY <1>9, SchedulerAssumption DEF TimePasses, TypeOK, tables, Times, saves
<1>10. CASE UNCHANGED vars
  BY <1>10 DEF vars, tables, TypeOK, saves
<1> QED BY <1>1, <1>2, <1>3, <1>4, <1>5, <1>6, <1>7, <1>8, <1>9, <1>10, <1>11, SchedulerAssumption
        DEF Next, TickStep, Update

LEMMA ReadStep == TypeOK /\ ReadInv /\ [Next]_vars => ReadInv'
<1> SUFFICES ASSUME TypeOK, ReadInv, [Next]_vars PROVE ReadInv'
  OBVIOUS
<1>1. CASE UNCHANGED <<tick, clock>>
  BY <1>1 DEF ReadInv
<1>2. ASSUME NEW x \in Schedules, People(x) PROVE ReadInv'
  BY <1>1, <1>2 DEF People, create_schedule, ReadSchedule, delete_schedule, run_definition, edit_definition
<1>12. ASSUME NEW q \in Requests, Update(q) PROVE ReadInv'
  BY <1>1, <1>12 DEF Update, update_schedule
<1>3. CASE SelectDue
  <2> DEFINE due == {x \in Schedules : Due(x)}
  <2>1. \A x \in due : schedule[x] \in LiveRows /\ schedule[x].next_run_at <= clock
    BY RowValues DEF Due, TypeOK
  <2>2. clock \in Nat
    BY SchedulerAssumption DEF TypeOK, Times
  <2>3. CASE due = {}
    BY <1>3, <2>3 DEF SelectDue, ReadInv
  <2>4. CASE due # {}
    <3>1. tick' = [pc |-> "fire", now |-> clock, todo |-> due, read |-> [x \in due |-> schedule[x]]]
      BY <1>3, <2>4 DEF SelectDue
    <3>2. /\ tick'.now = clock /\ tick'.pc = "fire" /\ tick'.todo = due
          /\ \A x \in due : tick'.read[x] = schedule[x]
      BY <3>1
    <3>3. clock' = clock
      BY <1>3 DEF SelectDue
    <3> HIDE DEF due
    <3> QED BY <2>1, <2>2, <3>2, <3>3 DEF ReadInv
  <2> QED BY <2>3, <2>4
<1>4. ASSUME NEW x \in Schedules, _fire(x) PROVE ReadInv'
  <2>1. tick # Asleep /\ x \in tick.todo
    BY <1>4, TickStates DEF _fire
  <2>2. /\ tick'.now = tick.now /\ tick'.todo = tick.todo /\ tick'.read = tick.read /\ tick'.at = x
        /\ clock' = clock
    BY <1>4 DEF _fire, Decided, Expanded
  <2> QED BY <2>1, <2>2 DEF ReadInv
<1>5. CASE CreateRun
  <2>1. tick # Asleep /\ tick.pc # "fire"
    BY <1>5, TickStates DEF CreateRun
  <2>2. \/ tick' = Asleep
        \/ /\ tick'.now = tick.now /\ tick'.todo = tick.todo /\ tick'.read = tick.read
           /\ tick'.at = tick.at
    BY <1>5 DEF CreateRun, Decided, Abort
  <2>3. clock' = clock
    BY <1>5 DEF CreateRun
  <2> QED BY <2>1, <2>2, <2>3 DEF ReadInv
<1>6. CASE Record
  <2>1. tick # Asleep /\ tick.pc # "fire"
    BY <1>6, TickStates DEF Record
  <2>2. \/ tick' = Asleep
        \/ /\ tick'.now = tick.now /\ tick'.todo \subseteq tick.todo /\ tick'.pc = "fire"
           /\ \A y \in tick'.todo : tick'.read[y] = tick.read[y]
    BY <1>6 DEF Record, Rest, Abort
  <2>3. clock' = clock
    BY <1>6 DEF Record
  <2> QED BY <2>1, <2>2, <2>3 DEF ReadInv
<1>7. CASE Crash
  BY <1>7 DEF Crash, Abort, ReadInv
<1>8. ASSUME NEW r \in Runs, EndRun(r) PROVE ReadInv'
  BY <1>1, <1>8 DEF EndRun
<1>9. ASSUME NEW r \in Runs, DeleteRun(r) PROVE ReadInv'
  <2>1. CASE tick.pc = "record" /\ r \in tick.run
    <3>1. tick \in Recording /\ tick # Asleep
      BY <2>1, TickCases, TickStates
    <3>2. tick' = [tick EXCEPT !.run = {}, !.dangling = TRUE] /\ clock' = clock
      BY <1>9, <2>1 DEF DeleteRun
    <3>3. /\ tick'.now = tick.now /\ tick'.todo = tick.todo /\ tick'.read = tick.read
          /\ tick'.at = tick.at
      BY <3>1, <3>2 DEF Recording
    <3> QED BY <2>1, <3>1, <3>2, <3>3 DEF ReadInv
  <2> QED BY <1>1, <1>9, <2>1 DEF DeleteRun
<1>10. CASE TimePasses
  <2>1. tick' = tick /\ clock' = clock + 1 /\ clock \in Nat
    BY <1>10, SchedulerAssumption DEF TimePasses, TypeOK, Times
  <2>2. tick # Asleep => tick.now \in Nat
    BY SchedulerAssumption DEF TypeOK, Firing, Creating, Recording, Times
  <2> QED BY <2>1, <2>2 DEF ReadInv
<1>11. CASE UNCHANGED vars
  BY <1>1, <1>11 DEF vars
<1> QED BY <1>2, <1>3, <1>4, <1>5, <1>6, <1>7, <1>8, <1>9, <1>10, <1>11, <1>12, SchedulerAssumption
        DEF Next, TickStep

\* The state of the scheduler is well formed (scheduler.py, models/scan.py).
THEOREM SchedulerTypes == Spec => [](TypeOK /\ ReadInv)
<1>1. TypeOK /\ ReadInv /\ [Next]_vars => TypeOK' /\ ReadInv'
  BY TypeStep, ReadStep
<1> QED BY TypeInit, <1>1, PTL DEF Spec
-----------------------------------------------------------------------------
\* The runs that still name x as their schedule.
Linked(x) == {r \in Runs : run[r].state # "absent" /\ run[r].schedule = x}

\* The occurrence a tick has in hand.
InHand == tick.read[tick.at].next_run_at

\* The tick creates the run r of the occurrence it has in hand.
Creates(r) ==
  /\ tick.pc = "create" /\ schedule[tick.at].exists
  /\ r \in Fresh
  /\ run' = [run EXCEPT ![r] = NewRun(tick.at, InHand, tick.expands)]
  /\ tick' = Decided(tick, tick.at, "triggered", {r})
  /\ UNCHANGED <<clock, schedule, triggers, faults>>

\* Nothing but the tick links a run to a schedule, and no run comes back.
RunsOnlyGo == \A x \in Schedules :
  /\ Linked(x)' \subseteq Linked(x)
  /\ ActiveRuns(x)' \subseteq ActiveRuns(x)
  /\ \A r \in Linked(x)' : run'[r].due = run[r].due

LEMMA RunsChange == TypeOK /\ [Next]_vars => RunsOnlyGo \/ \E r \in Runs : Creates(r)
<1> SUFFICES ASSUME TypeOK, [Next]_vars PROVE RunsOnlyGo \/ \E r \in Runs : Creates(r)
  OBVIOUS
<1> USE DEF RunsOnlyGo, Linked, ActiveRuns
<1>1. CASE UNCHANGED run
  BY <1>1
<1>2. ASSUME NEW x \in Schedules, People(x) PROVE RunsOnlyGo
  <2>1. CASE delete_schedule(x)
    <3>1. \A r \in Runs : /\ run'[r].state = run[r].state
                          /\ \/ run'[r] = run[r]
                             \/ /\ run'[r].schedule = NoSchedule /\ run'[r].due = run[r].due
      BY <2>1, RunValues DEF delete_schedule, TypeOK, RunRows
    <3>2. \A y \in Schedules : y # NoSchedule
      BY SchedulerAssumption
    <3> QED BY <3>1, <3>2
  <2>2. CASE run_definition(x)
    <3>1. PICK r \in Runs : run' = [run EXCEPT ![r] = NewRun(NoSchedule, 0, expansion[x])]
      BY <2>2, FreshRuns DEF run_definition
    <3>2. run'[r].schedule = NoSchedule /\ \A q \in Runs : q # r => run'[q] = run[q]
      BY <3>1 DEF NewRun, TypeOK
    <3>3. \A y \in Schedules : y # NoSchedule
      BY SchedulerAssumption
    <3> QED BY <3>2, <3>3
  <2> QED BY <1>1, <1>2, <2>1, <2>2 DEF People, create_schedule, ReadSchedule, edit_definition, tables
<1>3. ASSUME NEW r \in Runs, EndRun(r) PROVE RunsOnlyGo
  <2>1. run[r] \in RunRows
    BY <1>3, RunValues DEF EndRun, TypeOK
  <2>2. /\ run'[r].state = "ended" /\ run'[r].schedule = run[r].schedule /\ run'[r].due = run[r].due
        /\ run[r].state # "absent"
        /\ \A q \in Runs : q # r => run'[q] = run[q]
    BY <1>3, <2>1 DEF EndRun, TypeOK, RunRows
  <2> QED BY <2>2
<1>4. ASSUME NEW r \in Runs, DeleteRun(r) PROVE RunsOnlyGo
  <2>1. run'[r].state = "absent" /\ \A q \in Runs : q # r => run'[q] = run[q]
    BY <1>4 DEF DeleteRun, TypeOK, Absent
  <2> QED BY <2>1
<1>5. CASE CreateRun
  <2>1. UNCHANGED run \/ \E r \in Runs : Creates(r)
    BY <1>5, FreshRuns DEF CreateRun, Creates, InHand
  <2> QED BY <1>1, <2>1
<1> QED BY <1>1, <1>2, <1>3, <1>4, <1>5, SchedulerAssumption
        DEF Next, TickStep, SelectDue, _fire, Record, Crash, TimePasses, Update, update_schedule, vars, tables
-----------------------------------------------------------------------------
LEMMA AtMostOne == ASSUME NEW S, \A r, q \in S : r = q PROVE Cardinality(S) <= 1
<1>1. CASE S = {}
  BY <1>1, FS_EmptySet
<1>2. ASSUME NEW r \in S PROVE Cardinality(S) <= 1
  <2>1. S = {r}
    BY <1>2
  <2> QED BY <2>1, FS_Singleton
<1> QED BY <1>1, <1>2

\* A schedule whose run the tick is about to create has none under way.
OverlapInv ==
  /\ \A x \in Schedules : \A r, q \in ActiveRuns(x) : r = q
  /\ tick.pc = "create" => ActiveRuns(tick.at) = {}

\* The tick is only about to create a run for what it just saw idle.
LEMMA CreateChange == TypeOK /\ [Next]_vars /\ tick'.pc = "create" =>
    \/ tick' = tick
    \/ ActiveRuns(tick'.at) = {} /\ run' = run
<1> SUFFICES ASSUME TypeOK, [Next]_vars, tick'.pc = "create"
             PROVE tick' = tick \/ (ActiveRuns(tick'.at) = {} /\ run' = run)
  OBVIOUS
<1>1. ASSUME NEW x \in Schedules, _fire(x) PROVE ActiveRuns(tick'.at) = {} /\ run' = run
  <2>1. ActiveRuns(x) = {} /\ tick' = Expanded(tick, x)
    BY <1>1 DEF _fire, Decided
  <2>2. tick'.at = x
    BY <2>1 DEF Expanded
  <2> QED BY <1>1, <2>1, <2>2 DEF _fire, tables
<1>2. ASSUME NEW r \in Runs, DeleteRun(r) PROVE tick' = tick
  <2>1. tick.pc = "record" /\ r \in tick.run => tick'.pc = "record"
    BY <1>2, TickCases DEF DeleteRun, Recording
  <2> QED BY <1>2, <2>1 DEF DeleteRun
<1>3. SelectDue => tick'.pc # "create"
  BY TickStates DEF SelectDue
<1>4. CreateRun => tick'.pc # "create"
  BY TickStates DEF CreateRun, Decided, Abort
<1>5. Record => tick'.pc # "create"
  BY TickStates DEF Record, Rest, Abort
<1>6. Crash => tick'.pc # "create"
  BY TickStates DEF Crash, Abort
<1>7. ASSUME NEW x \in Schedules, People(x) PROVE tick' = tick
  BY <1>7 DEF People, create_schedule, ReadSchedule, delete_schedule, run_definition, edit_definition
<1>8. UNCHANGED vars \/ TimePasses \/ (\E r \in Runs : EndRun(r)) \/ (\E q \in Requests : Update(q)) =>
        tick' = tick
  BY DEF vars, TimePasses, EndRun, Update, update_schedule
<1> QED BY <1>1, <1>2, <1>3, <1>4, <1>5, <1>6, <1>7, <1>8, SchedulerAssumption DEF Next, TickStep

LEMMA OverlapStep == TypeOK /\ ReadInv /\ OverlapInv /\ [Next]_vars => OverlapInv'
<1> SUFFICES ASSUME TypeOK, ReadInv, OverlapInv, [Next]_vars PROVE OverlapInv'
  OBVIOUS
<1>1. CASE RunsOnlyGo
  <2>1. ASSUME tick'.pc = "create" PROVE ActiveRuns(tick.at)' = {}
    <3>1. CASE tick' = tick
      <4>1. tick.at \in Schedules
        BY <2>1, <3>1, TickCases DEF Creating
      <4> QED BY <1>1, <2>1, <3>1, <4>1 DEF RunsOnlyGo, OverlapInv, ActiveRuns
    <3>2. CASE ActiveRuns(tick'.at) = {} /\ run' = run
      BY <3>2 DEF ActiveRuns
    <3> QED BY <2>1, <3>1, <3>2, CreateChange
  <2>2. \A x \in Schedules : \A r, q \in ActiveRuns(x)' : r = q
    BY <1>1 DEF RunsOnlyGo, OverlapInv
  <2> QED BY <2>1, <2>2 DEF OverlapInv
<1>2. ASSUME NEW r \in Runs, Creates(r) PROVE OverlapInv'
  <2>1. tick'.pc = "record"
    BY <1>2 DEF Creates, Decided
  <2>2. ActiveRuns(tick.at) = {}
    BY <1>2 DEF Creates, OverlapInv
  <2>3. \A q \in Runs : q # r => run'[q] = run[q]
    BY <1>2 DEF Creates, TypeOK
  <2>4. run'[r].schedule = tick.at
    BY <1>2 DEF Creates, NewRun, TypeOK
  <2>5. \A x \in Schedules : \A p, q \in ActiveRuns(x)' : p = q
    BY <2>2, <2>3, <2>4 DEF ActiveRuns, OverlapInv
  <2> QED BY <2>1, <2>5 DEF OverlapInv
<1> QED BY <1>1, <1>2, RunsChange

\* "no overlap": the runs of a schedule are looked at long before its next run
\* is created, and nothing in between can start one (_fire).
THEOREM NeverOverlaps == Spec => []NoOverlap
<1>1. Init => OverlapInv
  BY TickStates DEF Init, OverlapInv, ActiveRuns, Absent, Asleep
<1>2. Spec => []OverlapInv
  BY <1>1, OverlapStep, SchedulerTypes, PTL DEF Spec
<1>3. OverlapInv => NoOverlap
  <2> SUFFICES ASSUME OverlapInv, NEW x \in Schedules PROVE Cardinality(ActiveRuns(x)) <= 1
    BY DEF NoOverlap
  <2>1. \A r, q \in ActiveRuns(x) : r = q
    BY DEF OverlapInv
  <2> QED BY <2>1, AtMostOne
<1> QED BY <1>2, <1>3, PTL
-----------------------------------------------------------------------------
LEMMA ClockAdvances == TypeOK /\ [Next]_vars => clock \in Nat /\ clock' \in Nat /\ clock' >= clock
<1> SUFFICES ASSUME TypeOK, [Next]_vars PROVE clock \in Nat /\ clock' \in Nat /\ clock' >= clock
  OBVIOUS
<1>1. clock \in Nat
  BY SchedulerAssumption DEF TypeOK, Times
<1>2. clock' = clock \/ clock' = clock + 1
  BY DEF Next, TickStep, People, create_schedule, ReadSchedule, delete_schedule, run_definition, edit_definition,
         Update, update_schedule, SelectDue, _fire, CreateRun, Record, Crash, TimePasses,
         EndRun, DeleteRun, vars
<1> QED BY <1>1, <1>2

\* To record an occurrence ends the handling of its schedule.
LEMMA RecordMoves == Record => tick.pc = "record" /\ tick'.pc # "record"
BY TickStates DEF Record, Rest, Abort

\* Every request under way that was not overtaken knows the row as it is.
UpdateInv == \A q \in Requests : \A x \in update[q].on :
  /\ update[q].since <= clock
  /\ ~update[q].overtaken => schedule[x] = update[q].seen

\* What a request has read is read at its beginning, and marked by every write
\* of somebody else.
Begun(q, x) ==
  /\ update'[q].since = clock /\ update'[q].seen = schedule[x] /\ schedule[x].exists
  /\ UNCHANGED <<clock, schedule, triggers, run, tick, faults>>
StillOn(q, x) ==
  /\ x \in update[q].on /\ update'[q].since = update[q].since /\ update'[q].seen = update[q].seen
  /\ ~update'[q].overtaken =>
       /\ ~update[q].overtaken /\ schedule'[x] = schedule[x]
       /\ Record /\ tick.at = x => ~schedule[x].exists

LEMMA MarkedOvertaken == ASSUME TypeOK, NEW x, NEW q \in Requests, NEW y \in Overtaken(x)[q].on
  PROVE /\ y \in update[q].on /\ Overtaken(x)[q].since = update[q].since
        /\ Overtaken(x)[q].seen = update[q].seen
        /\ ~Overtaken(x)[q].overtaken => ~update[q].overtaken /\ y # x
<1>1. CASE q \in Saving(x)
  <2>1. update[q] \in Updates /\ update[q].on = {x}
    BY <1>1, UpdateCases DEF Saving
  <2>2. Overtaken(x)[q] = [update[q] EXCEPT !.overtaken = TRUE]
    BY <1>1 DEF Overtaken
  <2> QED BY <2>1, <2>2 DEF Updates
<1>2. CASE q \notin Saving(x)
  <2>1. Overtaken(x)[q] = update[q]
    BY <1>2 DEF Overtaken
  <2> QED BY <1>2, <2>1 DEF Saving
<1> QED BY <1>1, <1>2

LEMMA UpdatesChange == ASSUME TypeOK, ReadInv, [Next]_vars, NEW q \in Requests, NEW x \in update'[q].on
  PROVE Begun(q, x) \/ StillOn(q, x)
<1>1. ASSUME UNCHANGED <<update, schedule>>, ~Record PROVE StillOn(q, x)
  BY <1>1 DEF StillOn
<1>2. ASSUME NEW y \in Schedules, ReadSchedule(y), faults' = faults PROVE Begun(q, x) \/ StillOn(q, x)
  <2>1. PICK p \in Requests :
          update' = [update EXCEPT ![p] =
            [on |-> {y}, seen |-> schedule[y], since |-> clock, overtaken |-> FALSE]]
    BY <1>2 DEF ReadSchedule
  <2>2. CASE p = q
    <3>1. update'[q] = [on |-> {y}, seen |-> schedule[y], since |-> clock, overtaken |-> FALSE]
      BY <2>1, <2>2 DEF TypeOK
    <3>2. x = y
      BY <3>1
    <3> QED BY <1>2, <3>1, <3>2 DEF ReadSchedule, Begun, tables
  <2>3. CASE p # q
    <3>1. update'[q] = update[q] /\ schedule' = schedule /\ tick' = tick
      BY <1>2, <2>1, <2>3 DEF TypeOK, ReadSchedule, tables
    <3>2. ~Record
      BY <1>2, <3>1, RecordMoves
    <3> QED BY <3>1, <3>2 DEF StillOn
  <2> QED BY <2>2, <2>3
<1>3. ASSUME NEW y \in Schedules, delete_schedule(y) PROVE StillOn(q, x)
  <2>1. update' = Overtaken(y) /\ schedule' = [schedule EXCEPT ![y] = NoRow] /\ tick' = tick
    BY <1>3 DEF delete_schedule
  <2>2. ~Record
    BY <2>1, RecordMoves
  <2>3. x \in Schedules /\ (x # y => schedule'[x] = schedule[x])
    BY <2>1, MarkedOvertaken, UpdateCases DEF TypeOK
  <2> QED BY <2>1, <2>2, <2>3, MarkedOvertaken DEF StillOn
<1>4. ASSUME NEW y \in Schedules, NEW plan \in Plans, NEW active \in BOOLEAN,
             create_schedule(y, plan, active)
      PROVE StillOn(q, x)
  <2>1. update' = update /\ tick' = tick /\ Saving(y) = {}
    BY <1>4 DEF create_schedule, saves
  <2>2. x # y /\ x \in Schedules
    BY <2>1, UpdateCases DEF Saving
  <2>3. schedule'[x] = schedule[x]
    BY <1>4, <2>2 DEF create_schedule, TypeOK
  <2>4. ~Record
    BY <2>1, RecordMoves
  <2> QED BY <2>1, <2>3, <2>4 DEF StillOn
<1>5. ASSUME NEW p \in Requests, NEW plan \in Plans, NEW active \in BOOLEAN,
             update_schedule(p, plan, active)
      PROVE StillOn(q, x)
  <2>1. PICK y \in update[p].on : \E row :
          /\ schedule' = schedule \/ schedule' = [schedule EXCEPT ![y] = row]
          /\ update' = [Overtaken(y) EXCEPT ![p] = Idle]
    BY <1>5 DEF update_schedule
  <2>2. p # q
    <3>1. p = q => update'[q] = Idle
      BY <2>1, OvertakenTypes
    <3> QED BY <3>1, UpdateValues
  <2>3. update'[q] = Overtaken(y)[q]
    BY <2>1, <2>2, OvertakenTypes
  <2>4. x \in Schedules /\ (x # y => schedule'[x] = schedule[x])
    BY <2>1, <2>3, MarkedOvertaken, UpdateCases DEF TypeOK
  <2>5. ~Record
    BY <1>5, RecordMoves DEF update_schedule
  <2> QED BY <2>3, <2>4, <2>5, MarkedOvertaken DEF StillOn
<1>6. CASE Record
  <2>1. CASE ~schedule[tick.at].exists
    BY <1>6, <2>1 DEF Record, StillOn
  <2>2. CASE schedule[tick.at].exists
    <3>1. update' = Overtaken(tick.at) /\ Advance(tick.at)
      BY <1>6, <2>2 DEF Record
    <3>2. x \in Schedules /\ (x # tick.at => schedule'[x] = schedule[x])
      BY <3>1, MarkedOvertaken, UpdateCases DEF Advance, TypeOK
    <3> QED BY <3>1, <3>2, MarkedOvertaken DEF StillOn
  <2> QED BY <2>1, <2>2
<1>7. ASSUME NEW y \in Schedules, People(y) PROVE Begun(q, x) \/ StillOn(q, x)
  <2>1. CASE run_definition(y) \/ \E f \in Fingerprints : edit_definition(y, f)
    <3>1. UNCHANGED <<update, schedule, tick>>
      BY <2>1 DEF run_definition, edit_definition, saves
    <3> QED BY <1>1, <3>1, RecordMoves
  <2> QED BY <1>2, <1>3, <1>4, <1>7, <2>1 DEF People
<1>8. CASE SelectDue \/ CreateRun \/ Crash \/ \E y \in Schedules : _fire(y)
  <2>1. Record => tick.pc = "record" /\ faults' = faults
    BY RecordMoves DEF Record
  <2>2. Crash => faults' # faults
    BY DEF Crash, TypeOK
  <2>3. ~Record
    BY <1>8, <2>1, <2>2, TickStates DEF SelectDue, CreateRun, _fire
  <2> QED BY <1>1, <1>8, <2>3 DEF SelectDue, CreateRun, Crash, _fire, saves, tables
<1>9. CASE TimePasses \/ UNCHANGED vars \/ \E r \in Runs : EndRun(r) \/ DeleteRun(r)
  <2>1. UNCHANGED <<update, schedule>> /\ (tick' = tick \/ (tick.pc = "record" => tick'.pc = "record"))
    BY <1>9, TickCases DEF TimePasses, vars, EndRun, DeleteRun, saves, tables, Recording
  <2> QED BY <1>1, <2>1, RecordMoves
<1> QED BY <1>5, <1>6, <1>7, <1>8, <1>9, SchedulerAssumption DEF Next, TickStep, Update

LEMMA UpdateStep == TypeOK /\ ReadInv /\ UpdateInv /\ [Next]_vars => UpdateInv'
<1> SUFFICES ASSUME TypeOK, ReadInv, UpdateInv, [Next]_vars, NEW q \in Requests, NEW x \in update'[q].on
             PROVE  /\ update'[q].since <= clock'
                    /\ ~update'[q].overtaken => schedule'[x] = update'[q].seen
  BY DEF UpdateInv
<1>1. CASE Begun(q, x)
  BY <1>1, ClockAdvances DEF Begun
<1>2. CASE StillOn(q, x)
  <2>1. update[q].since \in Nat
    BY <1>2, UpdateCases, SchedulerAssumption DEF StillOn, Times
  <2> QED BY <1>2, <2>1, ClockAdvances DEF StillOn, UpdateInv
<1> QED BY <1>1, <1>2, UpdatesChange

\* Every request under way that nobody overtook knows the row as it is, so that
\* it writes what was asked for (update_schedule).
THEOREM UpdatesInvariant == Spec => []UpdateInv
<1>1. Init => UpdateInv
  BY UpdateValues DEF Init, UpdateInv
<1> QED BY <1>1, UpdateStep, SchedulerTypes, PTL DEF Spec
-----------------------------------------------------------------------------
\* A row is deleted, saved by somebody, or moved on by the tick.
SavedRow(x, next) ==
  /\ schedule'[x].next_run_at = next
  /\ schedule'[x].active => next # Never

\* The save of x computed its next run when nobody had written x since the
\* request began.
SavedAt(x, now) ==
  \/ now = clock
  \/ \E q \in Requests : /\ x \in update[q].on /\ ~update[q].overtaken
                         /\ now \in update[q].since..clock

\* A save writes the row of x, and is over what it read or is marked.
LEMMA SavesChange == ASSUME TypeOK, UpdateInv, NEW q \in Requests, NEW plan \in Plans, NEW active \in BOOLEAN,
                            update_schedule(q, plan, active), NEW x \in Schedules
  PROVE \/ schedule'[x] = schedule[x]
        \/ /\ schedule[x].exists /\ schedule'[x].exists
           /\ \/ x \in crossed'
              \/ \E now \in Times : SavedAt(x, now) /\ SavedRow(x, next_after(plan, now))
<1>1. PICK y \in update[q].on : \E now \in update[q].since..clock :
       /\ LET seen == update[q].seen
              row  == schedule[y]
              next == next_after(plan, now)
          IN IF ~row.exists THEN UNCHANGED schedule ELSE
             schedule' = [schedule EXCEPT ![y] =
               Row(Column(seen.plan, row.plan, plan),
                   Column(seen.active, row.active, active /\ next # Never),
                   Column(seen.next_run_at, row.next_run_at, next))]
       /\ crossed' = IF update[q].overtaken THEN crossed \cup {y} ELSE crossed
  BY DEF update_schedule
<1>2. PICK now \in update[q].since..clock :
        LET seen == update[q].seen
            row  == schedule[y]
            next == next_after(plan, now)
        IN IF ~row.exists THEN UNCHANGED schedule ELSE
             schedule' = [schedule EXCEPT ![y] =
               Row(Column(seen.plan, row.plan, plan),
                   Column(seen.active, row.active, active /\ next # Never),
                   Column(seen.next_run_at, row.next_run_at, next))]
  BY <1>1
<1> DEFINE next == next_after(plan, now)
           row  == schedule[y]
           seen == update[q].seen
<1>3. /\ y \in Schedules /\ update[q].on = {y} /\ now \in Times /\ now \in update[q].since..clock
  <2>1. y \in Schedules /\ update[q].since \in Times /\ update[q].on = {y}
    BY <1>1, UpdateCases
  <2> QED BY <1>2, <2>1, SchedulerAssumption DEF TypeOK, Times
<1>4. CASE ~row.exists \/ x # y
  BY <1>2, <1>3, <1>4 DEF TypeOK
<1>5. CASE row.exists /\ x = y
  <2>1. schedule'[y] = Row(Column(seen.plan, row.plan, plan),
                           Column(seen.active, row.active, active /\ next # Never),
                           Column(seen.next_run_at, row.next_run_at, next))
    BY <1>2, <1>3, <1>5 DEF TypeOK
  <2>2. schedule'[y].exists
    BY <2>1 DEF Row
  <2>3. CASE update[q].overtaken
    BY <1>1, <1>5, <2>2, <2>3
  <2>4. CASE ~update[q].overtaken
    <3>1. row = seen
      BY <1>1, <2>4 DEF UpdateInv
    <3>2. \A new : Column(seen.plan, row.plan, new) = new /\ Column(seen.active, row.active, new) = new
                    /\ Column(seen.next_run_at, row.next_run_at, new) = new
      BY <3>1 DEF Column
    <3>3. schedule'[y] = Row(plan, active /\ next # Never, next)
      BY <2>1, <3>2
    <3>4. next \in Nat
      BY <1>3, NextAfterIsLater
    <3>5. SavedRow(y, next)
      BY <3>3, <3>4, SavedValues DEF SavedRow
    <3>6. SavedAt(y, now)
      BY <1>3, <2>4 DEF SavedAt
    <3> QED BY <1>3, <1>5, <2>2, <3>5, <3>6
  <2> QED BY <2>3, <2>4
<1> QED BY <1>4, <1>5

\* How the row of x may change in a step.
LEMMA RowsChange == ASSUME TypeOK, ReadInv, UpdateInv, [Next]_vars, NEW x \in Schedules
  PROVE \/ schedule'[x] = schedule[x]
        \/ schedule'[x] = NoRow
        \/ /\ \/ x \in crossed'
              \/ \E plan \in Plans, now \in Times : SavedAt(x, now) /\ SavedRow(x, next_after(plan, now))
           /\ x \in Handling => schedule[x].exists
           /\ UNCHANGED <<clock, triggers, run, tick, faults>>
        \/ /\ tick.pc = "record" /\ tick.at = x /\ schedule[x].exists
           /\ SavedRow(x, next_after(tick.read[x].plan, tick.now))
<1>1. ASSUME NEW y \in Schedules, NEW plan \in Plans, NEW active \in BOOLEAN,
             create_schedule(y, plan, active)
      PROVE /\ y # x => schedule'[x] = schedule[x]
            /\ y = x => clock \in Times /\ SavedAt(x, clock) /\ SavedRow(x, next_after(plan, clock))
            /\ y \notin Handling
            /\ UNCHANGED <<clock, triggers, run, tick>>
  <2> DEFINE next == next_after(plan, clock)
  <2>1. next \in Nat
    BY NextAfterIsLater DEF TypeOK
  <2>2. schedule'[y] = Row(plan, active /\ next # Never, next)
    BY <1>1 DEF create_schedule, TypeOK
  <2>3. SavedRow(y, next)
    BY <2>1, <2>2, SavedValues DEF SavedRow
  <2> QED BY <1>1, <2>3 DEF create_schedule, TypeOK, SavedAt
<1>2. ASSUME NEW y \in Schedules, delete_schedule(y)
      PROVE schedule'[x] \in {schedule[x], NoRow}
  BY <1>2 DEF delete_schedule, TypeOK
<1>3. CASE Record
  <2> DEFINE y == tick.at
             next == next_after(tick.read[y].plan, tick.now)
  <2>1. CASE UNCHANGED schedule
    BY <2>1
  <2>2. CASE schedule[y].exists /\ Advance(y)
    <3>1. tick \in Recording
      BY <1>3, TickCases DEF Record
    <3>2. y \in Schedules
      BY <3>1 DEF Recording
    <3>3. schedule[y] \in LiveRows
      BY <2>2, <3>2, RowValues DEF TypeOK
    <3>4. schedule[y].plan \in Plans /\ schedule[y].active \in BOOLEAN
      BY <3>3 DEF LiveRows
    <3>5. y # x => schedule'[x] = schedule[x]
      BY <2>2 DEF Advance, TypeOK
    <3>6. next \in Nat
      <4>1. tick # Asleep /\ tick.pc # "fire" /\ tick.now \in Times
        BY <3>1, TickStates DEF Recording
      <4>2. tick.read[y].plan \in Plans
        BY <4>1 DEF ReadInv, LiveRows
      <4> QED BY <4>1, <4>2, NextAfterIsLater
    <3>7. schedule'[y] = Row(schedule[y].plan, schedule[y].active /\ next # Never, next)
      BY <2>2, <3>2 DEF Advance, TypeOK
    <3>8. SavedRow(y, next)
      BY <3>4, <3>6, <3>7, SavedValues DEF SavedRow
    <3> QED BY <1>3, <2>2, <3>5, <3>8 DEF Record
  <2> QED BY <1>3, <2>1, <2>2 DEF Record
<1>4. CASE UNCHANGED schedule
  BY <1>4
<1>5. ASSUME NEW y \in Schedules, People(y)
      PROVE \/ schedule'[x] = schedule[x]
            \/ schedule'[x] = NoRow
            \/ /\ \E plan \in Plans, now \in Times :
                    SavedAt(x, now) /\ SavedRow(x, next_after(plan, now))
               /\ x \in Handling => schedule[x].exists
               /\ UNCHANGED <<clock, triggers, run, tick, faults>>
  BY <1>1, <1>2, <1>4, <1>5 DEF People, run_definition, edit_definition, ReadSchedule, tables
<1>6. ASSUME NEW q \in Requests, NEW plan \in Plans, NEW active \in BOOLEAN,
             update_schedule(q, plan, active)
      PROVE \/ schedule'[x] = schedule[x]
            \/ /\ \/ x \in crossed'
                  \/ \E now \in Times : SavedAt(x, now) /\ SavedRow(x, next_after(plan, now))
               /\ x \in Handling => schedule[x].exists
               /\ UNCHANGED <<clock, triggers, run, tick, faults>>
  BY <1>6, SavesChange DEF update_schedule
<1> QED BY <1>3, <1>4, <1>5, <1>6, SchedulerAssumption
        DEF Next, TickStep, SelectDue, _fire, CreateRun, Crash, TimePasses, EndRun, DeleteRun,
            Update, vars, tables

LEMMA CrossedStay == TypeOK /\ [Next]_vars => crossed \subseteq crossed'
<1> SUFFICES ASSUME TypeOK, [Next]_vars PROVE crossed \subseteq crossed'
  OBVIOUS
<1>1. ASSUME NEW q \in Requests, Update(q) PROVE crossed \subseteq crossed'
  BY <1>1 DEF Update, update_schedule
<1>2. ASSUME NEW x \in Schedules, People(x) PROVE crossed' = crossed
  BY <1>2 DEF People, create_schedule, ReadSchedule, delete_schedule, run_definition,
              edit_definition, saves
<1> QED BY <1>1, <1>2, SchedulerAssumption
        DEF Next, TickStep, SelectDue, _fire, CreateRun, Record, Crash, TimePasses, EndRun, DeleteRun,
            vars, saves

\* An active schedule knows when it runs next: the tick and the people who
\* write its row take its activity and its next run together, unless a save
\* goes over what it did not read (tick, update_schedule).
THEOREM ActiveKnowsNext == Spec => []ActiveHasNext
<1>1. Init => ActiveHasNext
  <2> SUFFICES ASSUME Init, NEW x \in Schedules, schedule[x].exists PROVE schedule[x].next_run_at # Never
    BY DEF ActiveHasNext
  <2> DEFINE Rows == {Row(plan, TRUE, next_after(plan, 0)) : plan \in {p \in Plans : next_after(p, 0) # Never}}
  <2>1. schedule \in [Schedules -> {NoRow} \cup Rows]
    BY DEF Init
  <2>2. schedule[x] \in Rows
    <3>1. schedule[x] # NoRow
      BY DEF NoRow
    <3> HIDE DEF Rows
    <3> QED BY <2>1, <3>1
  <2>3. PICK plan \in Plans : /\ next_after(plan, 0) # Never
                              /\ schedule[x] = Row(plan, TRUE, next_after(plan, 0))
    BY <2>2
  <2> QED BY <2>3 DEF Row
<1>2. TypeOK /\ ReadInv /\ UpdateInv /\ ActiveHasNext /\ [Next]_vars => ActiveHasNext'
  <2> SUFFICES ASSUME TypeOK, ReadInv, UpdateInv, ActiveHasNext, [Next]_vars, NEW x \in Schedules,
                      x \notin crossed', schedule'[x].exists, schedule'[x].active
               PROVE  schedule'[x].next_run_at # Never
    BY DEF ActiveHasNext
  <2>1. ASSUME NEW next, SavedRow(x, next) PROVE schedule'[x].next_run_at # Never BY <2>1 DEF SavedRow
  <2>2. schedule'[x] # NoRow
    BY DEF NoRow
  <2>3. x \notin crossed
    BY CrossedStay
  <2> QED BY <2>1, <2>2, <2>3, RowsChange DEF ActiveHasNext
<1> QED BY <1>1, <1>2, SchedulerTypes, UpdatesInvariant, PTL DEF Spec
-----------------------------------------------------------------------------
\* The run q is deleted, by somebody or by the purge.
Gone(q) == run[q].state # "absent" /\ run'[q].state = "absent"

\* A trigger that stays only forgets the runs that go.
Kept(t, u) ==
  /\ t.schedule = u.schedule /\ t.due_at = u.due_at /\ t.outcome = u.outcome
  /\ t.run = {q \in u.run : ~Gone(q)}

\* The tick inserts the trigger of the occurrence it has in hand.
Inserts(t) ==
  /\ Record /\ schedule[tick.at].exists /\ ~Recorded(tick.at, InHand)
  /\ tick.at \in Schedules
  /\ t = [schedule |-> tick.at, due_at |-> InHand, outcome |-> tick.outcome, run |-> tick.run]

LEMMA NothingGone == ASSUME NEW u \in Triggers, \A q \in Runs : ~Gone(q) PROVE Kept(u, u)
<1>1. u.run = {q \in u.run : ~Gone(q)}
  BY DEF Triggers
<1> QED BY <1>1 DEF Kept

LEMMA TriggersChange == ASSUME TypeOK, [Next]_vars, NEW t \in triggers'
  PROVE Inserts(t) \/ \E u \in triggers : Kept(t, u)
<1>1. ASSUME UNCHANGED <<triggers, run>> PROVE \E u \in triggers : Kept(t, u)
  <2>1. \A q \in Runs : ~Gone(q)
    BY <1>1 DEF Gone
  <2> QED BY <1>1, <2>1, NothingGone DEF TypeOK
<1>2. ASSUME NEW x \in Schedules, delete_schedule(x) PROVE \E u \in triggers : Kept(t, u)
  <2>1. \A r \in Runs : run'[r].state = run[r].state
    BY <1>2, RunValues DEF delete_schedule, TypeOK, RunRows
  <2>2. t \in triggers /\ t \in Triggers
    BY <1>2 DEF delete_schedule, TypeOK
  <2>3. \A q \in Runs : ~Gone(q)
    BY <2>1 DEF Gone
  <2> QED BY <2>2, <2>3, NothingGone
<1>3. ASSUME NEW x \in Schedules, run_definition(x) PROVE \E u \in triggers : Kept(t, u)
  <2>1. PICK r \in Fresh : run' = [run EXCEPT ![r] = NewRun(NoSchedule, 0, expansion[x])]
    BY <1>3 DEF run_definition
  <2>2. r \in Runs /\ run'[r].state = "active"
    BY <2>1, FreshRuns DEF TypeOK, NewRun
  <2>3. \A q \in Runs : ~Gone(q)
    BY <2>1, <2>2 DEF Gone, TypeOK
  <2>4. t \in triggers /\ t \in Triggers
    BY <1>3 DEF run_definition, TypeOK
  <2> QED BY <2>3, <2>4, NothingGone
<1>4. ASSUME NEW r \in Runs, EndRun(r) PROVE \E u \in triggers : Kept(t, u)
  <2>1. run[r] \in RunRows
    BY <1>4, RunValues DEF EndRun, TypeOK
  <2>2. run'[r].state = "ended" /\ \A q \in Runs : q # r => run'[q] = run[q]
    BY <1>4, <2>1 DEF EndRun, TypeOK, RunRows
  <2>3. \A q \in Runs : ~Gone(q)
    BY <2>2 DEF Gone
  <2>4. t \in triggers /\ t \in Triggers
    BY <1>4 DEF EndRun, TypeOK
  <2> QED BY <2>3, <2>4, NothingGone
<1>5. ASSUME NEW r \in Runs, DeleteRun(r) PROVE \E u \in triggers : Kept(t, u)
  <2>1. PICK u \in triggers : t = [u EXCEPT !.run = @ \ {r}]
    BY <1>5 DEF DeleteRun
  <2>2. u \in Triggers
    BY DEF TypeOK
  <2>3. /\ t.schedule = u.schedule /\ t.due_at = u.due_at /\ t.outcome = u.outcome
        /\ t.run = u.run \ {r} /\ u.run \subseteq Runs
    BY <2>1, <2>2 DEF Triggers
  <2>4. Gone(r) /\ \A q \in Runs : q # r => ~Gone(q)
    BY <1>5 DEF DeleteRun, Gone, TypeOK, Absent
  <2> QED BY <2>3, <2>4 DEF Kept
<1>6. CASE CreateRun
  <2>1. CASE UNCHANGED run
    BY <1>1, <1>6, <2>1 DEF CreateRun
  <2>2. ASSUME NEW r \in Fresh,
               run' = [run EXCEPT ![r] = NewRun(tick.at, tick.read[tick.at].next_run_at, tick.expands)]
        PROVE \E u \in triggers : Kept(t, u)
    <3>1. r \in Runs /\ run'[r].state = "active"
      BY <2>2, FreshRuns DEF TypeOK, NewRun
    <3>2. \A q \in Runs : ~Gone(q)
      BY <2>2, <3>1 DEF Gone, TypeOK
    <3>3. t \in triggers /\ t \in Triggers
      BY <1>6 DEF CreateRun, TypeOK
    <3> QED BY <3>2, <3>3, NothingGone
  <2> QED BY <1>6, <2>1, <2>2 DEF CreateRun
<1>7. CASE Record
  <2>1. tick.at \in Schedules
    BY <1>7, TickCases DEF Record, Recording
  <2>2. Inserts(t) \/ t \in triggers
    BY <1>7, <2>1 DEF Record, InsertTrigger, Inserts, InHand
  <2>3. \A q \in Runs : ~Gone(q)
    BY <1>7 DEF Record, Gone
  <2>4. t \in triggers => Kept(t, t)
    BY <2>3, NothingGone DEF TypeOK
  <2> QED BY <2>2, <2>4
<1>8. ASSUME NEW x \in Schedules, People(x) PROVE \E u \in triggers : Kept(t, u)
  <2>1. \/ \E plan \in Plans, active \in BOOLEAN : create_schedule(x, plan, active)
        \/ ReadSchedule(x)
        \/ delete_schedule(x)
        \/ run_definition(x)
        \/ \E f \in Fingerprints : edit_definition(x, f)
    BY <1>8 DEF People
  <2>2. ReadSchedule(x) \/ (\E plan \in Plans, active \in BOOLEAN : create_schedule(x, plan, active)) =>
           UNCHANGED <<triggers, run>>
    BY DEF create_schedule, ReadSchedule, tables
  <2>3. (\E f \in Fingerprints : edit_definition(x, f)) => UNCHANGED <<triggers, run>>
    BY DEF edit_definition
  <2> QED BY <1>1, <1>2, <1>3, <2>1, <2>2, <2>3
<1>9. ASSUME NEW q \in Requests, Update(q) PROVE \E u \in triggers : Kept(t, u)
  BY <1>1, <1>9 DEF Update, update_schedule
<1> QED BY <1>1, <1>4, <1>5, <1>6, <1>7, <1>8, <1>9, SchedulerAssumption
        DEF Next, TickStep, SelectDue, _fire, Crash, TimePasses, vars, tables

\* A run keeps its schedule as long as both are there.
LEMMA LinksStay == ASSUME TypeOK, [Next]_vars, NEW x \in Schedules, schedule'[x].exists,
                          NEW r \in Linked(x), ~Gone(r)
  PROVE r \in Linked(x)' /\ run'[r].due = run[r].due
<1> USE DEF Linked
<1>0. r \in Runs /\ run[r] \in RunRows /\ run[r].state # "absent" /\ run[r].schedule = x
  BY RunValues DEF TypeOK
<1>1. ASSUME run'[r] = run[r] PROVE r \in Linked(x)' /\ run'[r].due = run[r].due
  BY <1>0, <1>1
<1>2. ASSUME NEW y \in Schedules, delete_schedule(y) PROVE run'[r] = run[r]
  <2>1. y # x
    BY <1>2 DEF delete_schedule, TypeOK, NoRow
  <2> QED BY <1>0, <1>2, <2>1 DEF delete_schedule
<1>3. ASSUME NEW y \in Schedules, run_definition(y) PROVE run'[r] = run[r]
  <2>1. \A q \in Fresh : q # r
    BY <1>0, FreshRuns DEF Absent
  <2> QED BY <1>0, <1>3, <2>1, FreshRuns DEF run_definition, TypeOK
<1>4. ASSUME NEW q \in Runs, EndRun(q) PROVE r \in Linked(x)' /\ run'[r].due = run[r].due
  BY <1>0, <1>4 DEF EndRun, TypeOK, RunRows
<1>5. ASSUME NEW q \in Runs, DeleteRun(q) PROVE run'[r] = run[r]
  <2>1. q # r
    BY <1>0, <1>5 DEF DeleteRun, Gone, TypeOK, Absent
  <2> QED BY <1>0, <1>5, <2>1 DEF DeleteRun, TypeOK
<1>6. CreateRun => run'[r] = run[r]
  <2>1. \A q \in Fresh : q # r
    BY <1>0, FreshRuns DEF Absent
  <2> QED BY <1>0, <2>1, FreshRuns DEF CreateRun, TypeOK
<1>7. UNCHANGED run => run'[r] = run[r]
  OBVIOUS
<1>8. ASSUME NEW y \in Schedules, People(y) PROVE run'[r] = run[r]
  BY <1>2, <1>3, <1>7, <1>8 DEF People, create_schedule, ReadSchedule, edit_definition, tables
<1>9. ASSUME NEW q \in Requests, Update(q) PROVE run'[r] = run[r]
  BY <1>7, <1>9 DEF Update, update_schedule
<1> QED BY <1>1, <1>4, <1>5, <1>6, <1>7, <1>8, <1>9, SchedulerAssumption
        DEF Next, TickStep, SelectDue, _fire, Record, Crash, TimePasses, vars, tables

\* Where a tick comes from: it goes on with what it read, or it begins.
GoesOn ==
  /\ tick # Asleep
  /\ tick'.now = tick.now /\ tick'.todo \subseteq tick.todo
  /\ \A x \in tick'.todo : tick'.read[x] = tick.read[x]
Begins ==
  /\ tick = Asleep
  /\ tick'.pc = "fire" /\ tick'.now = clock
  /\ \A x \in tick'.todo : x \in Schedules /\ schedule[x].exists /\ tick'.read[x] = schedule[x]
  /\ UNCHANGED <<clock, schedule, triggers, run>>

LEMMA TickMoves == TypeOK /\ [Next]_vars => tick' = Asleep \/ GoesOn \/ Begins
<1> SUFFICES ASSUME TypeOK, [Next]_vars, tick' # Asleep PROVE GoesOn \/ Begins
  OBVIOUS
<1>1. ASSUME tick' = tick PROVE GoesOn
  BY <1>1 DEF GoesOn
<1>2. CASE SelectDue
  <2> DEFINE due == {x \in Schedules : Due(x)}
  <2>1. tick' = [pc |-> "fire", now |-> clock, todo |-> due, read |-> [x \in due |-> schedule[x]]]
    BY <1>2 DEF SelectDue
  <2>2. /\ tick'.pc = "fire" /\ tick'.now = clock /\ tick'.todo = due
        /\ \A x \in due : tick'.read[x] = schedule[x]
    BY <2>1
  <2>3. \A x \in due : x \in Schedules /\ schedule[x].exists
    BY DEF Due
  <2> HIDE DEF due
  <2>4. Begins
    BY <1>2, <2>2, <2>3 DEF SelectDue, Begins, tables
  <2> QED BY <2>4
<1>3. ASSUME NEW x \in Schedules, _fire(x) PROVE GoesOn
  BY <1>3, TickStates DEF _fire, Decided, Expanded, GoesOn
<1>4. CreateRun => GoesOn
  BY TickStates DEF CreateRun, Decided, Abort, GoesOn
<1>5. Record => GoesOn
  BY TickStates DEF Record, Rest, Abort, GoesOn
<1>6. ~Crash
  BY DEF Crash, Abort
<1>7. ASSUME NEW r \in Runs, DeleteRun(r) PROVE GoesOn
  <2>1. CASE tick.pc = "record" /\ r \in tick.run
    <3>1. tick \in Recording /\ tick # Asleep
      BY <2>1, TickCases, TickStates
    <3>2. tick' = [tick EXCEPT !.run = {}, !.dangling = TRUE]
      BY <1>7, <2>1 DEF DeleteRun
    <3> QED BY <3>1, <3>2 DEF Recording, GoesOn
  <2> QED BY <1>1, <1>7, <2>1 DEF DeleteRun
<1>8. ASSUME NEW x \in Schedules, People(x) PROVE tick' = tick
  BY <1>8 DEF People, create_schedule, ReadSchedule, delete_schedule, run_definition, edit_definition
<1>9. ASSUME NEW q \in Requests, Update(q) PROVE tick' = tick
  BY <1>9 DEF Update, update_schedule
<1> QED BY <1>1, <1>2, <1>3, <1>4, <1>5, <1>6, <1>7, <1>8, <1>9, SchedulerAssumption
        DEF Next, TickStep, TimePasses, EndRun, vars
-----------------------------------------------------------------------------
\* The occurrences of x that a run or a trigger tells of.
Dues(x) == {run[r].due : r \in Linked(x)} \cup {t.due_at : t \in {u \in triggers : u.schedule = x}}

\* All of them were due when the tick began.
DueInv == \A x \in Schedules : \A d \in Dues(x) : d <= clock /\ (tick # Asleep => d <= tick.now)

\* Only the tick tells of a new one, the one it has in hand.
LEMMA DuesChange == ASSUME TypeOK, [Next]_vars, NEW x \in Schedules, NEW d \in Dues(x)'
  PROVE \/ d \in Dues(x)
        \/ /\ tick.at = x /\ d = InHand
           /\ (\E r \in Runs : Creates(r)) \/ (Record /\ schedule[x].exists)
<1>1. ASSUME NEW t \in triggers', t.schedule = x, d = t.due_at
      PROVE d \in Dues(x) \/ (tick.at = x /\ d = InHand /\ Record /\ schedule[x].exists)
  <2>1. CASE Inserts(t)
    BY <1>1, <2>1 DEF Inserts
  <2>2. ASSUME NEW u \in triggers, Kept(t, u) PROVE d \in Dues(x)
    BY <1>1, <2>2 DEF Kept, Dues
  <2> QED BY <2>1, <2>2, TriggersChange
<1>2. ASSUME NEW r \in Linked(x)', d = run'[r].due
      PROVE d \in Dues(x) \/ (tick.at = x /\ d = InHand /\ \E q \in Runs : Creates(q))
  <2>1. CASE RunsOnlyGo
    BY <1>2, <2>1 DEF RunsOnlyGo, Dues
  <2>2. ASSUME NEW q \in Runs, Creates(q) PROVE d \in Dues(x) \/ (tick.at = x /\ d = InHand)
    <3>1. CASE q = r
      <4>1. run'[r] = NewRun(tick.at, InHand, tick.expands)
        BY <2>2, <3>1 DEF Creates, TypeOK
      <4>2. run'[r].schedule = tick.at /\ run'[r].due = InHand
        BY <4>1 DEF NewRun
      <4> QED BY <1>2, <4>2 DEF Linked
    <3>2. CASE q # r
      <4>1. run'[r] = run[r]
        BY <1>2, <2>2, <3>2 DEF Creates, TypeOK, Linked
      <4> QED BY <1>2, <4>1 DEF Linked, Dues
    <3> QED BY <3>1, <3>2
  <2> QED BY <2>1, <2>2, RunsChange
<1>3. \/ \E r \in Linked(x)' : d = run'[r].due
      \/ \E t \in triggers' : t.schedule = x /\ d = t.due_at
  BY DEF Dues
<1> QED BY <1>1, <1>2, <1>3

LEMMA DuesAreTimes == ASSUME TypeOK, NEW x \in Schedules PROVE Dues(x) \subseteq Nat
<1>1. \A r \in Linked(x) : run[r].due \in Nat
  BY RunValues DEF Linked, TypeOK, RunRows
<1>2. \A t \in triggers : t.due_at \in Nat
  BY DEF TypeOK, Triggers
<1> QED BY <1>1, <1>2 DEF Dues

\* Where the occurrence in hand lies.
LEMMA HandIsDue == ASSUME TypeOK, ReadInv, tick.pc \in {"create", "record"}
  PROVE /\ tick # Asleep /\ tick.at \in Schedules /\ tick.at \in tick.todo
        /\ InHand \in Nat /\ InHand <= tick.now /\ tick.now \in Nat /\ tick.now <= clock
        /\ tick.read[tick.at].plan \in Plans /\ tick.now \in Times
<1>1. tick \in Creating \cup Recording /\ tick # Asleep /\ tick.pc # "fire"
  BY TickCases, TickStates
<1>2. tick.at \in Schedules /\ tick.now \in Times
  BY <1>1 DEF Creating, Recording
<1>3. tick.now \in Nat
  BY <1>2, SchedulerAssumption DEF Times
<1> QED BY <1>1, <1>2, <1>3 DEF ReadInv, InHand, LiveRows

LEMMA DueStep == TypeOK /\ ReadInv /\ DueInv /\ [Next]_vars => DueInv'
<1> SUFFICES ASSUME TypeOK, ReadInv, DueInv, [Next]_vars, NEW x \in Schedules, NEW d \in Dues(x)'
             PROVE  d <= clock' /\ (tick' # Asleep => d <= tick'.now)
  BY DEF DueInv
<1>1. CASE d \in Dues(x)
  <2>1. d \in Nat /\ d <= clock /\ (tick # Asleep => d <= tick.now)
    BY <1>1, DuesAreTimes DEF DueInv
  <2>2. d <= clock'
    BY <2>1, ClockAdvances
  <2>3. tick' # Asleep => d <= tick'.now
    BY <2>1, TickMoves DEF GoesOn, Begins
  <2> QED BY <2>2, <2>3
<1>2. CASE tick.pc \in {"create", "record"} /\ d = InHand
  <2>1. tick # Asleep /\ d \in Nat /\ tick.now \in Nat /\ d <= tick.now /\ tick.now <= clock
    BY <1>2, HandIsDue
  <2>2. d <= clock'
    BY <2>1, ClockAdvances
  <2>3. tick' # Asleep => d <= tick'.now
    BY <2>1, TickMoves DEF GoesOn, Begins
  <2> QED BY <2>2, <2>3
<1> QED BY <1>1, <1>2, DuesChange DEF Creates, Record
-----------------------------------------------------------------------------
\* The tick has decided on the occurrence of x and not yet recorded it.
HasInHand(x) == tick.pc = "record" /\ tick.at = x

\* Unless its row was about to be written, whatever is told of a schedule is
\* before its next run, and before the one the tick has read, for the schedules
\* no save went over blindly.
PastInv == \A x \in Schedules \ crossed : ~HasInHand(x) =>
  /\ schedule[x].exists => \A d \in Dues(x) : d < schedule[x].next_run_at
  /\ x \in Handling => \A d \in Dues(x) : d < tick.read[x].next_run_at

LEMMA RecordEnds == ASSUME TypeOK, ReadInv, Record
  PROVE /\ ~(\E x \in Schedules : HasInHand(x)') /\ tick.at \notin Handling'
        /\ schedule[tick.at].exists => schedule'[tick.at].next_run_at > tick.now
        /\ ~schedule[tick.at].exists => ~schedule'[tick.at].exists
<1> DEFINE x == tick.at
           next == next_after(tick.read[x].plan, tick.now)
<1>1. tick.pc = "record" /\ x \in Schedules /\ tick.now \in Times /\ tick.read[x].plan \in Plans
  BY HandIsDue DEF Record
<1>2. tick' = Rest(tick, x) \/ tick' = Asleep
  BY DEF Record, Abort
<1>3. tick' = Asleep \/ (tick'.pc = "fire" /\ tick'.todo = tick.todo \ {x})
  BY <1>2 DEF Rest
<1>4. ASSUME schedule[x].exists PROVE schedule'[x].next_run_at > tick.now
  <2>1. next > tick.now
    BY <1>1, NextAfterIsLater
  <2>2. schedule' = [schedule EXCEPT ![x] = Row(@.plan, @.active /\ next # Never, next)]
    BY <1>4 DEF Record, Advance
  <2>3. schedule'[x].next_run_at = next
    BY <1>1, <2>2 DEF TypeOK, Row
  <2> QED BY <2>1, <2>3
<1>5. ASSUME ~schedule[x].exists PROVE ~schedule'[x].exists
  BY <1>5 DEF Record
<1> QED BY <1>3, <1>4, <1>5, TickStates DEF HasInHand, Handling

\* What the tick has decided stays in hand until it records it, or dies.
LEMMA StaysInHand == ASSUME TypeOK, [Next]_vars, ~Crash, ~Record, NEW x, HasInHand(x)
  PROVE HasInHand(x)'
<1> USE DEF HasInHand
<1>1. ASSUME NEW r \in Runs, DeleteRun(r) PROVE HasInHand(x)'
  <2>1. tick \in Recording
    BY TickCases
  <2> QED BY <1>1, <2>1 DEF DeleteRun, Recording
<1>2. ~SelectDue /\ ~CreateRun /\ ~\E y \in Schedules : _fire(y)
  BY TickStates DEF SelectDue, CreateRun, _fire
<1>3. ASSUME NEW y \in Schedules, People(y) PROVE tick' = tick
  BY <1>3 DEF People, create_schedule, ReadSchedule, delete_schedule, run_definition, edit_definition
<1>4. UNCHANGED vars \/ TimePasses \/ (\E r \in Runs : EndRun(r)) \/ (\E q \in Requests : Update(q)) =>
        tick' = tick
  BY DEF vars, TimePasses, EndRun, Update, update_schedule
<1> QED BY <1>1, <1>2, <1>3, <1>4, SchedulerAssumption DEF Next, TickStep

\* A request nobody overtook began after whatever is told of its schedule,
\* unless the tick is telling more.
SinceInv == \A q \in Requests : \A x \in update[q].on :
  ~update[q].overtaken /\ ~HasInHand(x) => \A d \in Dues(x) : d <= update[q].since

LEMMA SinceStep == TypeOK /\ ReadInv /\ DueInv /\ UpdateInv /\ SinceInv /\ [Next]_vars /\ ~Crash => SinceInv'
<1> SUFFICES ASSUME TypeOK, ReadInv, DueInv, UpdateInv, SinceInv, [Next]_vars, ~Crash,
                    NEW q \in Requests, NEW x \in update'[q].on, ~update'[q].overtaken, ~HasInHand(x)',
                    NEW d \in Dues(x)'
             PROVE  d <= update'[q].since
  BY DEF SinceInv
<1>1. x \in Schedules
  BY TypeStep, UpdateCases, UpdateValues DEF TypeOK
<1>2. CASE Begun(q, x)
  <2>1. Dues(x)' = Dues(x)
    BY <1>2 DEF Begun, Dues, Linked
  <2> QED BY <1>1, <1>2, <2>1 DEF Begun, DueInv
<1>3. CASE StillOn(q, x)
  <2>1. ~(Record /\ tick.at = x)
    <3>1. schedule[x] \in LiveRows
      BY <1>3, UpdateCases DEF StillOn, UpdateInv
    <3> QED BY <1>1, <1>3, <3>1, RowValues DEF StillOn, TypeOK
  <2>2. ~HasInHand(x)
    <3>1. Record /\ tick.at # x => ~HasInHand(x)
      BY DEF HasInHand
    <3> QED BY <2>1, <3>1, StaysInHand
  <2>3. d \in Dues(x)
    <3>1. ASSUME NEW r \in Runs, Creates(r), tick.at = x PROVE HasInHand(x)'
      BY <3>1 DEF Creates, Decided, HasInHand
    <3> QED BY <1>1, <2>1, <3>1, DuesChange
  <2> QED BY <1>3, <2>2, <2>3 DEF StillOn, SinceInv
<1> QED BY <1>2, <1>3, UpdatesChange

LEMMA PastStep == TypeOK /\ ReadInv /\ UpdateInv /\ DueInv /\ PastInv /\ SinceInv /\ [Next]_vars /\ ~Crash => PastInv'
<1> SUFFICES ASSUME TypeOK, ReadInv, UpdateInv, DueInv, PastInv, SinceInv, [Next]_vars, ~Crash,
                    NEW x \in Schedules, x \notin crossed', ~HasInHand(x)', NEW d \in Dues(x)'
             PROVE  /\ schedule'[x].exists => d < schedule'[x].next_run_at
                    /\ x \in Handling' => d < tick'.read[x].next_run_at
  BY DEF PastInv
<1>0. x \notin crossed
  BY CrossedStay
<1>1. CASE Record /\ tick.at = x
  <2>1. tick.pc \in {"create", "record"}
    BY <1>1 DEF Record
  <2>2. d \in Nat /\ d <= tick.now /\ tick.now \in Nat /\ tick # Asleep
    BY <1>1, <2>1, HandIsDue, DuesChange, DuesAreTimes DEF DueInv
  <2>3. schedule'[x].exists => schedule'[x].next_run_at \in Nat
    BY TypeStep, RowValues DEF TypeOK, LiveRows
  <2> QED BY <1>1, <2>2, <2>3, RecordEnds
<1>2. CASE ~(Record /\ tick.at = x)
  <2>1. ~HasInHand(x)
    <3>1. Record /\ tick.at # x => ~HasInHand(x)
      BY DEF HasInHand
    <3> QED BY <1>2, <3>1, StaysInHand
  <2>2. d \in Dues(x)
    <3>1. ASSUME NEW r \in Runs, Creates(r), tick.at = x PROVE HasInHand(x)'
      BY <3>1 DEF Creates, Decided, HasInHand
    <3> QED BY <1>2, <3>1, DuesChange
  <2>3. d \in Nat /\ d <= clock
    BY <2>2, DuesAreTimes DEF DueInv
  <2>4. schedule[x].exists => d < schedule[x].next_run_at
    BY <1>0, <2>1, <2>2 DEF PastInv
  <2>5. x \in Handling => d < tick.read[x].next_run_at
    BY <1>0, <2>1, <2>2 DEF PastInv
  <2>6. schedule'[x].exists => d < schedule'[x].next_run_at
    <3>1. ASSUME NEW plan \in Plans, NEW now \in Times, SavedAt(x, now), SavedRow(x, next_after(plan, now)),
                 schedule'[x].exists
          PROVE d < schedule'[x].next_run_at
      <4>1. next_after(plan, now) \in Nat /\ next_after(plan, now) > now /\ now \in Nat
        BY <3>1, NextAfterIsLater, SchedulerAssumption DEF Times
      <4>2. d <= now
        <5>1. CASE now = clock
          BY <2>3, <5>1
        <5>2. ASSUME NEW q \in Requests, x \in update[q].on, ~update[q].overtaken,
                     now \in update[q].since..clock
              PROVE d <= now
          <6>1. d <= update[q].since
            BY <2>1, <2>2, <5>2 DEF SinceInv
          <6>2. update[q].since \in Nat
            BY <5>2, UpdateCases, SchedulerAssumption DEF Times
          <6> QED BY <2>3, <4>1, <5>2, <6>1, <6>2
        <5> QED BY <3>1, <5>1, <5>2 DEF SavedAt
      <4> QED BY <2>3, <3>1, <4>1, <4>2 DEF SavedRow
    <3>2. ~(tick.pc = "record" /\ tick.at = x)
      BY <2>1 DEF HasInHand
    <3>3. schedule'[x] # NoRow \/ ~schedule'[x].exists
      BY DEF NoRow
    <3> QED BY <2>4, <3>1, <3>2, <3>3, RowsChange
  <2>7. x \in Handling' => d < tick'.read[x].next_run_at
    BY <2>4, <2>5, TickMoves DEF Handling, GoesOn, Begins
  <2> QED BY <2>6, <2>7
<1> QED BY <1>1, <1>2
-----------------------------------------------------------------------------
\* No two runs of a schedule are of one occurrence.
OneRunInv == \A x \in Schedules \ crossed : \A r, q \in Linked(x) : run[r].due = run[q].due => r = q

LEMMA OneRunStep == TypeOK /\ ReadInv /\ PastInv /\ OneRunInv /\ [Next]_vars => OneRunInv'
<1> SUFFICES ASSUME TypeOK, ReadInv, PastInv, OneRunInv, [Next]_vars,
                    NEW x \in Schedules, x \notin crossed', NEW p \in Linked(x)', NEW q \in Linked(x)',
                    run'[p].due = run'[q].due
             PROVE  p = q
  BY DEF OneRunInv
<1>0. x \notin crossed
  BY CrossedStay
<1>1. CASE RunsOnlyGo
  BY <1>0, <1>1 DEF RunsOnlyGo, OneRunInv
<1>2. ASSUME NEW r \in Runs, Creates(r) PROVE p = q
  <2>1. tick.pc = "create"
    BY <1>2 DEF Creates
  <2>2. tick # Asleep /\ tick.at \in Schedules /\ tick.at \in tick.todo /\ InHand \in Nat
    BY <2>1, HandIsDue
  <2>3. x = tick.at => \A d \in Dues(x) : d \in Nat /\ d < InHand
    BY <1>0, <2>1, <2>2, DuesAreTimes DEF PastInv, HasInHand, Handling, InHand
  <2>4. x = tick.at => \A s \in Linked(x) : run[s].due # InHand
    BY <2>2, <2>3 DEF Dues
  <2>5. run'[r] = NewRun(tick.at, InHand, tick.expands) /\ \A s \in Runs : s # r => run'[s] = run[s]
    BY <1>2 DEF Creates, TypeOK
  <2>6. run'[r].schedule = tick.at /\ run'[r].due = InHand
    BY <2>5 DEF NewRun
  <2>7. ASSUME NEW s \in Linked(x)', s # r
        PROVE s \in Linked(x) /\ run'[s].due = run[s].due
    BY <2>5, <2>7 DEF Linked
  <2>8. r \in Linked(x)' => x = tick.at
    BY <2>5, <2>6 DEF Linked, NewRun
  <2>10. CASE p # r /\ q # r
    BY <1>0, <2>7, <2>10 DEF OneRunInv
  <2>11. CASE p = r /\ q # r
    BY <2>4, <2>6, <2>7, <2>8, <2>11
  <2>12. CASE p # r /\ q = r
    BY <2>4, <2>6, <2>7, <2>8, <2>12
  <2> QED BY <2>10, <2>11, <2>12
<1> QED BY <1>1, <1>2, RunsChange

\* What is in hand is told nowhere else; if it triggered, its run is the run of
\* the occurrence, while the schedule is there and no save went over it blindly.
RecordInv == tick.pc = "record" /\ tick.at \notin crossed =>
  /\ \A t \in triggers : t.schedule = tick.at => t.due_at < InHand
  /\ \A r \in Linked(tick.at) : run[r].due = InHand => tick.outcome = "triggered" /\ tick.run = {r}
  /\ tick.outcome = "triggered" /\ schedule[tick.at].exists =>
       \A r \in tick.run : r \in Linked(tick.at) /\ run[r].due = InHand

\* How an occurrence comes to be decided.
Decides ==
  /\ tick.pc \in {"fire", "create"} /\ tick # Asleep
  /\ tick'.at \in tick.todo /\ tick'.read = tick.read /\ tick'.outcome # "triggered"
  /\ UNCHANGED <<schedule, triggers, run>>
Forgets ==
  /\ tick.pc = "record" /\ tick'.run = {}
  /\ \E r \in tick.run : Gone(r)
  /\ tick'.at = tick.at /\ tick'.read = tick.read /\ tick'.outcome = tick.outcome

LEMMA RecordingFrom == TypeOK /\ ReadInv /\ [Next]_vars /\ tick'.pc = "record" =>
  \/ tick' = tick
  \/ Forgets
  \/ Decides
  \/ \E r \in Runs : Creates(r)
<1> SUFFICES ASSUME TypeOK, ReadInv, [Next]_vars, tick'.pc = "record"
             PROVE tick' = tick \/ Forgets \/ Decides \/ \E r \in Runs : Creates(r)
  OBVIOUS
<1>1. ASSUME NEW r \in Runs, DeleteRun(r) PROVE tick' = tick \/ Forgets
  <2>1. CASE tick.pc = "record" /\ r \in tick.run
    <3>1. tick \in Recording
      BY <2>1, TickCases
    <3>2. tick' = [tick EXCEPT !.run = {}, !.dangling = TRUE]
      BY <1>1, <2>1 DEF DeleteRun
    <3>3. Gone(r)
      BY <1>1 DEF DeleteRun, Gone, TypeOK, Absent
    <3> QED BY <2>1, <3>1, <3>2, <3>3 DEF Recording, Forgets
  <2> QED BY <1>1, <2>1 DEF DeleteRun
<1>2. ASSUME NEW x \in Schedules, _fire(x) PROVE Decides
  <2>1. tick # Asleep /\ tick.pc = "fire" /\ x \in tick.todo /\ UNCHANGED <<schedule, triggers, run>>
    BY <1>2, TickStates DEF _fire, tables
  <2>2. \/ \E o \in {"skipped_late", "skipped_overlap", "error"} : tick' = Decided(tick, x, o, {})
        \/ tick' = Expanded(tick, x)
    BY <1>2 DEF _fire
  <2>3. tick' # Expanded(tick, x)
    BY DEF Expanded
  <2> QED BY <2>1, <2>2, <2>3 DEF Decided, Decides
<1>3. CASE CreateRun
  <2>1. tick # Asleep /\ tick.pc = "create" /\ tick.at \in tick.todo
    BY <1>3, HandIsDue DEF CreateRun
  <2>2. tick' # Asleep
    BY TickStates
  <2> QED BY <1>3, <2>1, <2>2, FreshRuns
          DEF CreateRun, Equivalent, Decided, Decides, Creates, InHand, Abort
<1>4. ~SelectDue /\ ~Record /\ ~Crash
  BY TickStates DEF SelectDue, Record, Rest, Abort, Crash
<1>5. ASSUME NEW x \in Schedules, People(x) PROVE tick' = tick
  BY <1>5 DEF People, create_schedule, ReadSchedule, delete_schedule, run_definition, edit_definition
<1>6. UNCHANGED vars \/ TimePasses \/ (\E r \in Runs : EndRun(r)) \/ (\E q \in Requests : Update(q)) =>
        tick' = tick
  BY DEF vars, TimePasses, EndRun, Update, update_schedule
<1> QED BY <1>1, <1>2, <1>3, <1>4, <1>5, <1>6, SchedulerAssumption DEF Next, TickStep

LEMMA OnlyDeletedGo == ASSUME TypeOK, [Next]_vars, NEW r \in Runs, Gone(r) PROVE DeleteRun(r)
<1>1. ASSUME NEW x \in Schedules, delete_schedule(x) PROVE run'[r].state = run[r].state
  BY <1>1, RunValues DEF delete_schedule, TypeOK, RunRows
<1>2. ASSUME NEW q \in Runs, EndRun(q) PROVE ~Gone(r)
  <2>1. run[q] \in RunRows
    BY <1>2, RunValues DEF EndRun, TypeOK
  <2> QED BY <1>2, <2>1 DEF EndRun, TypeOK, RunRows, Gone
<1>3. ASSUME NEW q \in Runs, DeleteRun(q) PROVE DeleteRun(r)
  BY <1>3 DEF DeleteRun, Gone, TypeOK
<1>4. ASSUME NEW x \in Schedules, run_definition(x) PROVE ~Gone(r)
  BY <1>4, FreshRuns DEF run_definition, NewRun, Gone, TypeOK
<1>5. CASE CreateRun
  <2>1. ~Gone(r)
    <3>1. CASE UNCHANGED run
      BY <3>1 DEF Gone
    <3>2. ASSUME NEW q \in Fresh,
                 run' = [run EXCEPT ![q] = NewRun(tick.at, tick.read[tick.at].next_run_at, tick.expands)]
          PROVE ~Gone(r)
      BY <3>2, FreshRuns DEF NewRun, Gone, TypeOK
    <3> QED BY <1>5, <3>1, <3>2 DEF CreateRun
  <2> QED BY <2>1
<1>6. UNCHANGED run => ~Gone(r)
  BY DEF Gone
<1>7. ASSUME NEW x \in Schedules, People(x) PROVE ~Gone(r)
  BY <1>1, <1>4, <1>6, <1>7 DEF People, create_schedule, ReadSchedule, edit_definition, Gone, tables
<1>8. ASSUME NEW q \in Requests, Update(q) PROVE ~Gone(r)
  BY <1>6, <1>8 DEF Update, update_schedule
<1> QED BY <1>2, <1>3, <1>5, <1>6, <1>7, <1>8, SchedulerAssumption
        DEF Next, TickStep, SelectDue, _fire, Record, Crash, TimePasses, vars, tables

LEMMA RecordStep == TypeOK /\ ReadInv /\ UpdateInv /\ PastInv /\ RecordInv /\ [Next]_vars => RecordInv'
<1> SUFFICES ASSUME TypeOK, ReadInv, UpdateInv, PastInv, RecordInv, [Next]_vars, tick'.pc = "record",
                    tick'.at \notin crossed'
             PROVE  RecordInv'
  BY DEF RecordInv
<1>0. tick'.at \in Schedules /\ tick'.read[tick'.at].next_run_at \in Nat
  <2>1. TypeOK' /\ ReadInv'
    BY TypeStep, ReadStep
  <2>2. tick' \in Recording /\ tick' # Asleep
    BY <2>1, TickStates DEF TypeOK
  <2>3. tick'.at \in Schedules /\ tick'.at \in tick'.todo
    BY <2>1, <2>2 DEF Recording, ReadInv
  <2> QED BY <2>1, <2>2, <2>3 DEF ReadInv, LiveRows
<1>1. PICK x \in Schedules, due \in Nat : x = tick'.at /\ due = tick'.read[x].next_run_at
  BY <1>0
<1>9. x \notin crossed
  BY <1>1, CrossedStay
<1>2. SUFFICES
        /\ \A t \in triggers' : t.schedule = x => t.due_at < due
        /\ \A r \in Linked(x)' : run'[r].due = due => tick'.outcome = "triggered" /\ tick'.run = {r}
        /\ tick'.outcome = "triggered" /\ schedule'[x].exists =>
             \A r \in tick'.run : r \in Linked(x)' /\ run'[r].due = due
  BY <1>1 DEF RecordInv, InHand, Linked
<1>3. ASSUME tick.pc = "record", x = tick.at, due = InHand, NEW t \in triggers', t.schedule = x
      PROVE t.due_at < due
  <2>1. ~Record
    BY <1>1, RecordEnds DEF HasInHand
  <2> QED BY <1>3, <1>9, <2>1, TriggersChange DEF Inserts, Kept, RecordInv
<1>4. ASSUME tick.pc = "record", x = tick.at, due = InHand, NEW r \in Linked(x)', run'[r].due = due
      PROVE tick.outcome = "triggered" /\ tick.run = {r}
  <2>1. RunsOnlyGo
    BY <1>3, <1>4, RunsChange DEF Creates
  <2>2. r \in Linked(x) /\ run[r].due = due
    BY <1>1, <1>4, <2>1 DEF RunsOnlyGo
  <2> QED BY <1>4, <1>9, <2>2 DEF RecordInv
<1>5. CASE tick' = tick
  <2>1. tick.pc = "record" /\ x = tick.at /\ due = InHand /\ x \in Handling
    BY <1>1, <1>5, HandIsDue DEF InHand, Handling
  <2>2. ASSUME tick.outcome = "triggered", schedule'[x].exists, NEW r \in tick.run
        PROVE r \in Linked(x)' /\ run'[r].due = due
    <3>1. schedule[x].exists
      <4>1. schedule'[x] # NoRow
        BY <2>2 DEF NoRow
      <4> QED BY <1>1, <2>1, <2>2, <4>1, RowsChange
    <3>2. r \in Linked(x) /\ run[r].due = due
      BY <1>9, <2>1, <2>2, <3>1 DEF RecordInv
    <3>3. ~Gone(r)
      <4>1. DeleteRun(r) => tick'.run = {}
        <5>1. tick \in Recording
          BY <2>1, TickCases
        <5> QED BY <2>1, <2>2, <5>1 DEF DeleteRun, Recording
      <4> QED BY <1>5, <2>2, <3>2, <4>1, OnlyDeletedGo DEF Linked
    <3> QED BY <1>1, <2>2, <3>2, <3>3, LinksStay
  <2> QED BY <1>2, <1>3, <1>4, <1>5, <2>1, <2>2
<1>6. CASE Forgets
  <2>1. tick.pc = "record" /\ x = tick.at /\ due = InHand /\ tick'.run = {}
    BY <1>1, <1>6 DEF Forgets, InHand
  <2>2. PICK r \in tick.run : Gone(r)
    BY <1>6 DEF Forgets
  <2>3. ~\E q \in Linked(x)' : run'[q].due = due
    BY <1>4, <2>1, <2>2 DEF Gone, Linked
  <2> QED BY <1>2, <1>3, <2>1, <2>3
<1>7. CASE Decides
  <2>1. ~HasInHand(x) /\ x \in Handling /\ due = tick.read[x].next_run_at
    BY <1>1, <1>7 DEF Decides, HasInHand, Handling
  <2>2. \A d \in Dues(x) : d \in Nat /\ d < due
    BY <1>1, <1>9, <2>1, DuesAreTimes DEF PastInv
  <2>3. \A t \in triggers : t.schedule = x => t.due_at < due
    BY <2>2 DEF Dues
  <2>4. \A r \in Linked(x) : run[r].due # due
    BY <1>1, <2>2 DEF Dues
  <2> QED BY <1>2, <1>7, <2>3, <2>4 DEF Decides, Linked
<1>8. CASE \E r \in Runs : Creates(r)
  <2>0. PICK r \in Runs : Creates(r)
    BY <1>8
  <2>1. /\ tick.pc = "create" /\ x = tick.at /\ due = InHand /\ tick'.outcome = "triggered"
        /\ tick'.run = {r} /\ triggers' = triggers
    BY <1>1, <2>0 DEF Creates, Decided, InHand
  <2>2. ~HasInHand(x) /\ x \in Handling /\ due = tick.read[x].next_run_at
    BY <2>1, HandIsDue DEF HasInHand, Handling, InHand
  <2>3. \A d \in Dues(x) : d \in Nat /\ d < due
    BY <1>1, <1>9, <2>2, DuesAreTimes DEF PastInv
  <2>4. \A t \in triggers : t.schedule = x => t.due_at < due
    BY <2>3 DEF Dues
  <2>5. \A q \in Linked(x) : run[q].due # due
    BY <1>1, <2>3 DEF Dues
  <2>6. run'[r] = NewRun(x, due, tick.expands) /\ \A q \in Runs : q # r => run'[q] = run[q]
    BY <2>0, <2>1 DEF Creates, TypeOK
  <2>7. run'[r].schedule = x /\ run'[r].due = due /\ run'[r].state = "active"
    BY <2>6 DEF NewRun
  <2>8. \A q \in Linked(x)' : run'[q].due = due => q = r
    BY <2>5, <2>6 DEF Linked
  <2>9. r \in {q \in Runs : run'[q].state # "absent" /\ run'[q].schedule = x}
    BY <2>7
  <2> QED BY <1>2, <2>1, <2>4, <2>7, <2>8, <2>9 DEF Linked
<1> QED BY <1>5, <1>6, <1>7, <1>8, RecordingFrom
-----------------------------------------------------------------------------
\* A trigger is of a schedule that is there and tells of its run.
TruthInv == \A t \in triggers :
  /\ schedule[t.schedule].exists
  /\ t.schedule \notin crossed =>
       /\ \A r \in Linked(t.schedule) : run[r].due = t.due_at => t.outcome = "triggered" /\ t.run = {r}
       /\ t.outcome = "triggered" => \A r \in t.run : r \in Linked(t.schedule) /\ run[r].due = t.due_at

\* Only its deletion takes a schedule away, and its triggers with it.
LEMMA RowsStay == ASSUME TypeOK, [Next]_vars, NEW t \in triggers', t.schedule \in Schedules,
                         schedule[t.schedule].exists
  PROVE schedule'[t.schedule].exists
<1> DEFINE x == t.schedule
<1>1. ASSUME NEW y \in Schedules, NEW plan \in Plans, NEW active \in BOOLEAN,
             create_schedule(y, plan, active)
      PROVE schedule'[x].exists
  BY <1>1 DEF create_schedule, Row, TypeOK
<1>2. ASSUME NEW y \in Schedules, delete_schedule(y) PROVE schedule'[x].exists
  BY <1>2 DEF delete_schedule, TypeOK
<1>3. CASE Record
  BY <1>3, TickCases DEF Record, Advance, Row, TypeOK, Recording
<1>4. ASSUME UNCHANGED schedule PROVE schedule'[x].exists
  BY <1>4
<1>5. ASSUME NEW y \in Schedules, People(y) PROVE schedule'[x].exists
  BY <1>1, <1>2, <1>4, <1>5 DEF People, ReadSchedule, run_definition, edit_definition, tables
<1>6. ASSUME NEW q \in Requests, Update(q) PROVE schedule'[x].exists
  <2>1. schedule' = schedule \/ \E y, p, a, n : schedule' = [schedule EXCEPT ![y] = Row(p, a, n)]
    BY <1>6 DEF Update, update_schedule
  <2> QED BY <2>1 DEF Row, TypeOK
<1> QED BY <1>3, <1>4, <1>5, <1>6, SchedulerAssumption DEF Next, TickStep, SelectDue, _fire, CreateRun, Crash, TimePasses,
                                EndRun, DeleteRun, vars, tables

LEMMA TruthStep == TypeOK /\ ReadInv /\ PastInv /\ RecordInv /\ TruthInv /\ [Next]_vars => TruthInv'
<1> SUFFICES ASSUME TypeOK, ReadInv, PastInv, RecordInv, TruthInv, [Next]_vars, NEW t \in triggers'
             PROVE /\ schedule'[t.schedule].exists
                   /\ t.schedule \notin crossed' =>
                        /\ \A r \in Linked(t.schedule)' : run'[r].due = t.due_at =>
                             t.outcome = "triggered" /\ t.run = {r}
                        /\ t.outcome = "triggered" =>
                             \A r \in t.run : r \in Linked(t.schedule)' /\ run'[r].due = t.due_at
  BY DEF TruthInv
<1>0. crossed \subseteq crossed'
  BY CrossedStay
<1>1. CASE Inserts(t)
  <2>1. /\ tick.pc = "record" /\ t.schedule = tick.at /\ t.due_at = InHand
        /\ t.outcome = tick.outcome /\ t.run = tick.run
        /\ schedule[t.schedule].exists /\ t.schedule \in Schedules
    BY <1>1 DEF Inserts, Record
  <2>2. run' = run
    BY <1>1 DEF Inserts, Record
  <2>3. Linked(t.schedule)' = Linked(t.schedule)
    BY <2>2 DEF Linked
  <2>4. schedule'[t.schedule].exists
    BY <2>1, RowsStay
  <2>5. t.schedule \notin crossed =>
          /\ \A r \in Linked(t.schedule) : run[r].due = t.due_at => t.outcome = "triggered" /\ t.run = {r}
          /\ t.outcome = "triggered" =>
               \A r \in t.run : r \in Linked(t.schedule) /\ run[r].due = t.due_at
    BY <2>1 DEF RecordInv
  <2> QED BY <1>0, <2>2, <2>3, <2>4, <2>5
<1>2. ASSUME NEW u \in triggers, Kept(t, u)
      PROVE /\ schedule'[t.schedule].exists
            /\ t.schedule \notin crossed' =>
                 /\ \A r \in Linked(t.schedule)' : run'[r].due = t.due_at =>
                      t.outcome = "triggered" /\ t.run = {r}
                 /\ t.outcome = "triggered" =>
                      \A r \in t.run : r \in Linked(t.schedule)' /\ run'[r].due = t.due_at
  <2>1. /\ t.schedule = u.schedule /\ t.due_at = u.due_at /\ t.outcome = u.outcome
        /\ t.run = {q \in u.run : ~Gone(q)}
    BY <1>2 DEF Kept
  <2>2. t.schedule \in Schedules /\ t.due_at \in Nat
    BY <2>1 DEF TypeOK, Triggers
  <2>3. schedule[t.schedule].exists
    BY <2>1 DEF TruthInv
  <2>4. schedule'[t.schedule].exists
    BY <2>2, <2>3, RowsStay
  <2>5. ASSUME t.schedule \notin crossed', NEW r \in Linked(t.schedule)', run'[r].due = t.due_at
        PROVE t.outcome = "triggered" /\ t.run = {r}
    <3>0. u.schedule \notin crossed
      BY <1>0, <2>1, <2>5
    <3>1. ~Gone(r)
      BY <2>5 DEF Gone, Linked
    <3>2. CASE RunsOnlyGo
      <4>1. r \in Linked(u.schedule) /\ run[r].due = u.due_at
        BY <2>1, <2>2, <2>5, <3>2 DEF RunsOnlyGo
      <4>2. u.outcome = "triggered" /\ u.run = {r}
        BY <3>0, <4>1 DEF TruthInv
      <4> QED BY <2>1, <3>1, <4>2
    <3>3. ASSUME NEW q \in Runs, Creates(q) PROVE r \in Linked(u.schedule) /\ run[r].due = u.due_at
      <4>1. tick.pc = "create"
        BY <3>3 DEF Creates
      <4>2. tick.at \in Schedules /\ tick.at \in Handling /\ InHand \in Nat
        BY <4>1, HandIsDue DEF Handling
      <4>3. u.schedule = tick.at => \A d \in Dues(tick.at) : d \in Nat /\ d < InHand
        BY <3>0, <4>1, <4>2, DuesAreTimes DEF PastInv, HasInHand, InHand
      <4>4. ~(u.schedule = tick.at /\ u.due_at = InHand)
        BY <4>2, <4>3 DEF Dues
      <4>5. run'[q] = NewRun(tick.at, InHand, tick.expands) /\ (r # q => run'[r] = run[r])
        BY <2>5, <3>3 DEF Creates, TypeOK, Linked
      <4>6. run'[q].schedule = tick.at /\ run'[q].due = InHand
        BY <4>5 DEF NewRun
      <4>7. r # q
        BY <2>1, <2>5, <4>4, <4>6 DEF Linked
      <4> QED BY <2>1, <2>5, <4>5, <4>7 DEF Linked
    <3>4. CASE \E q \in Runs : Creates(q)
      <4>1. u.outcome = "triggered" /\ u.run = {r}
        BY <3>0, <3>3, <3>4 DEF TruthInv
      <4> QED BY <2>1, <3>1, <4>1
    <3> QED BY <3>2, <3>4, RunsChange
  <2>6. ASSUME t.schedule \notin crossed', t.outcome = "triggered", NEW r \in t.run
        PROVE r \in Linked(t.schedule)' /\ run'[r].due = t.due_at
    <3>1. r \in Linked(t.schedule) /\ run[r].due = t.due_at /\ ~Gone(r)
      BY <1>0, <2>1, <2>6 DEF TruthInv
    <3> QED BY <2>2, <2>4, <3>1, LinksStay
  <2> QED BY <2>4, <2>5, <2>6
<1> QED BY <1>1, <1>2, TriggersChange
-----------------------------------------------------------------------------
\* While no scheduler has died, the tick and the rows agree on what was done.
HistoryInv == faults = 0 => PastInv /\ SinceInv /\ OneRunInv /\ RecordInv /\ TruthInv

\* The inductive invariant of the occurrences.
OccurrenceInv == DueInv /\ HistoryInv

LEMMA OccurrenceInit == Init => OccurrenceInv
<1> SUFFICES ASSUME Init PROVE OccurrenceInv
  OBVIOUS
<1>1. triggers = {} /\ tick = Asleep /\ \A x : Linked(x) = {} /\ Dues(x) = {}
  BY DEF Init, Linked, Absent, Dues
<1> QED BY <1>1, TickStates
        DEF OccurrenceInv, DueInv, HistoryInv, PastInv, SinceInv, OneRunInv, RecordInv, TruthInv, Handling

LEMMA OccurrenceStep == TypeOK /\ ReadInv /\ UpdateInv /\ OccurrenceInv /\ [Next]_vars => OccurrenceInv'
<1> SUFFICES ASSUME TypeOK, ReadInv, UpdateInv, OccurrenceInv, [Next]_vars PROVE OccurrenceInv'
  OBVIOUS
<1>1. ~Crash => faults' = faults
  BY DEF Next, TickStep, People, SelectDue, _fire, CreateRun, Record, TimePasses,
         EndRun, DeleteRun, Update, update_schedule, vars
<1>2. Crash => faults' # 0
  BY DEF Crash, TypeOK
<1>3. DueInv'
  BY DueStep DEF OccurrenceInv
<1>4. ASSUME faults' = 0 PROVE PastInv' /\ SinceInv' /\ OneRunInv' /\ RecordInv' /\ TruthInv'
  <2>1. faults = 0 /\ ~Crash
    BY <1>1, <1>2, <1>4
  <2>2. DueInv /\ PastInv /\ SinceInv /\ OneRunInv /\ RecordInv /\ TruthInv
    BY <2>1 DEF OccurrenceInv, HistoryInv
  <2> QED BY <2>1, <2>2, PastStep, SinceStep, OneRunStep, RecordStep, TruthStep
<1> QED BY <1>3, <1>4 DEF OccurrenceInv, HistoryInv

\* What the runs and the triggers tell lies before every next run (tick).
THEOREM OccurrencesInvariant == Spec => []OccurrenceInv
BY OccurrenceInit, OccurrenceStep, SchedulerTypes, UpdatesInvariant, PTL DEF Spec

\* "exactly once per occurrence" while no scheduler dies, however slow the tick
\* and whatever is edited in the middle of it, for the schedules no save went
\* over blindly (tick, _fire, update_schedule).
THEOREM FiresOnce == Spec => []OnceWithoutCrash
<1>1. OccurrenceInv => OnceWithoutCrash
  <2> SUFFICES ASSUME OccurrenceInv, faults = 0, NEW x \in Schedules \ crossed, NEW due \in Times
               PROVE Cardinality(RunsOf(x, due)) <= 1
    BY DEF OnceWithoutCrash
  <2>1. \A r, q \in RunsOf(x, due) : r = q
    BY DEF RunsOf, OccurrenceInv, HistoryInv, OneRunInv, Linked
  <2> QED BY <2>1, AtMostOne
<1> QED BY <1>1, OccurrencesInvariant, PTL

\* The history of a schedule tells the truth while no scheduler dies and no save
\* goes over it blindly: its runs are those its triggers name, and only a run of
\* its own counts as triggered.
THEOREM HistoryIsTrue == Spec => []HistoryTellsRuns
<1>1. TypeOK /\ OccurrenceInv => HistoryTellsRuns
  BY DEF OccurrenceInv, HistoryInv, TruthInv, Linked, HistoryTellsRuns, RunsOf
<1> QED BY <1>1, OccurrencesInvariant, SchedulerTypes, PTL
=============================================================================
