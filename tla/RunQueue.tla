------------------------------ MODULE RunQueue ------------------------------
(***************************************************************************)
(* The queue of scan runs: the rows of scan_runs and the processes that   *)
(* share them through PostgreSQL (READ COMMITTED, so a step below is one  *)
(* statement or one commit, and what a process read may be stale by the   *)
(* time it writes).                                                        *)
(*                                                                         *)
(*   - HTTP requests (api/definitions.py run, api/runs.py cancel, delete) *)
(*     queue a run, attach to an equivalent active one, cancel, delete;   *)
(*   - the main loop of each worker (workers/worker.py main) fails the    *)
(*     runs whose heartbeat is stale and claims the oldest queued run;    *)
(*   - one supervisor thread per claimed run (run_subprocess, _guarded)   *)
(*     starts the engine, beats, stops it, and writes the verdict;        *)
(*   - faults: a worker container dies and restarts, a supervisor's       *)
(*     database call raises, a heartbeat comes too late.                  *)
(***************************************************************************)
EXTENDS Naturals, FiniteSets

CONSTANTS Runs,           \* row identifiers: numbers, in the order of queued_at
          Fingerprints, NoFingerprint, MaxConcurrent,
          Users,          \* people, each with one HTTP request in flight at most
          Workers,        \* worker processes (a restarted one keeps its name)
          NoWorker,
          TimelyWorkers,  \* those whose supervisors never beat 120 s late
          MaxFaults       \* bound: crashes and failed database calls, in all

ASSUME QueueAssumption ==
  /\ Runs \subseteq Nat /\ IsFiniteSet(Runs)
  /\ NoFingerprint \notin Fingerprints
  /\ MaxConcurrent \in Nat \ {0}
  /\ NoWorker \notin Workers
  /\ TimelyWorkers \subseteq Workers
  /\ MaxFaults \in Nat

VARIABLES
  status, fingerprint, cancel_requested,  \* columns of scan_runs
  silent,       \* running rows whose heartbeat_at is STALE_HEARTBEAT_SECONDS old
  request,      \* the HTTP request of each user
  worker,       \* the main loop of each worker
  claimLock,    \* holder of the advisory lock CLAIM_LOCK_KEY
  supervisor,   \* the thread and the engine of each claimed run
  faults

rows == <<status, fingerprint, cancel_requested, silent>>
vars == <<rows, request, worker, claimLock, supervisor, faults>>

ACTIVE_STATUSES == {"queued", "running"}
FINAL_STATUSES  == {"completed", "partial", "failed", "cancelled", "expired"}
RowStatuses     == {"absent", "deleted"} \cup ACTIVE_STATUSES \cup FINAL_STATUSES

Exists(r)  == status[r] \in ACTIVE_STATUSES \cup FINAL_STATUSES
Running    == {r \in Runs : status[r] = "running"}

\* _active_run: the rows the partial unique index of scan_runs covers
_active_run(f) == {r \in Runs : status[r] \in ACTIVE_STATUSES /\ fingerprint[r] = f}

Idle == [pc |-> "idle"]
Requests == {Idle}
            \cup [pc : {"insert", "reread"}, fingerprint : Fingerprints]
            \cup [pc : {"attach"}, run : Runs]
            \cup [pc : {"cancel"}, run : Runs, seen : ACTIVE_STATUSES]

Loop(pc, stale) == [pc |-> pc, stale |-> stale]
Loops == [pc : {"recover", "fail", "claim", "select"}, stale : SUBSET Runs]

\* engine: not started, alive, or gone, with an outcome.json or without
Supervisors == [pc : {"idle", "spawn", "watch", "notify", "guard"},
                engine : {"none", "alive", "outcome", "empty"},
                stop : {"no", "cancelled", "timed_out"}]
Sup(pc, engine, stop) == [pc |-> pc, engine |-> engine, stop |-> stop]
NoSupervisor == Sup("idle", "none", "no")

\* The thread has ended; an engine it did not stop lives on as an orphan.
Ended(s) == IF s.engine = "alive" THEN Sup("idle", "alive", "no") ELSE NoSupervisor

Init == /\ status = [r \in Runs |-> "absent"]
        /\ fingerprint = [r \in Runs |-> NoFingerprint]
        /\ cancel_requested = [r \in Runs |-> FALSE]
        /\ silent = {}
        /\ request = [u \in Users |-> Idle]
        /\ worker = [w \in Workers |-> Loop("recover", {})]
        /\ claimLock = NoWorker
        /\ supervisor = [w \in Workers |-> [r \in Runs |-> NoSupervisor]]
        /\ faults = 0
-----------------------------------------------------------------------------
(* HTTP requests. *)

\* create_run, first statement: is an equivalent run active?
create_run(u, f) ==
  /\ request[u].pc = "idle"
  /\ \/ /\ _active_run(f) = {}
        /\ request' = [request EXCEPT ![u] = [pc |-> "insert", fingerprint |-> f]]
     \/ \E r \in _active_run(f) :
          request' = [request EXCEPT ![u] = [pc |-> "attach", run |-> r]]
  /\ UNCHANGED <<rows, worker, claimLock, supervisor, faults>>

\* Mutated form: no partial unique index on the active fingerprints.
InsertRun_no_index(u) ==
  /\ request[u].pc = "insert"
  /\ \E r \in Runs :
       /\ status[r] = "absent"
       /\ status' = [status EXCEPT ![r] = "queued"]
       /\ fingerprint' = [fingerprint EXCEPT ![r] = request[u].fingerprint]
  /\ request' = [request EXCEPT ![u] = Idle]
  /\ UNCHANGED <<cancel_requested, silent, worker, claimLock, supervisor, faults>>

\* INSERT, requester and commit; the index refuses a second active row.
InsertRun(u) ==
  /\ request[u].pc = "insert"
  /\ LET f == request[u].fingerprint IN
     \/ /\ _active_run(f) = {}
        /\ \E r \in Runs :
             /\ status[r] = "absent"
             /\ status' = [status EXCEPT ![r] = "queued"]
             /\ fingerprint' = [fingerprint EXCEPT ![r] = f]
        /\ request' = [request EXCEPT ![u] = Idle]
        /\ UNCHANGED <<cancel_requested, silent>>
     \/ /\ _active_run(f) # {}  \* IntegrityError
        /\ request' = [request EXCEPT ![u] = [pc |-> "reread", fingerprint |-> f]]
        /\ UNCHANGED rows
  /\ UNCHANGED <<worker, claimLock, supervisor, faults>>

\* After the refused INSERT: attach to the winner, or raise if it is gone.
RereadRun(u) ==
  /\ request[u].pc = "reread"
  /\ LET winners == _active_run(request[u].fingerprint) IN
     \/ /\ winners = {}
        /\ request' = [request EXCEPT ![u] = Idle]
     \/ \E r \in winners :
          request' = [request EXCEPT ![u] = [pc |-> "attach", run |-> r]]
  /\ UNCHANGED <<rows, worker, claimLock, supervisor, faults>>

\* ON CONFLICT DO NOTHING, commit.  Who is attached is module RunNotices.
add_requester(u) ==
  /\ request[u].pc = "attach"
  /\ request' = [request EXCEPT ![u] = Idle]
  /\ UNCHANGED <<rows, worker, claimLock, supervisor, faults>>

\* cancel_run: the row is read and must be active ...
cancel_run(u, r) ==
  /\ request[u].pc = "idle"
  /\ status[r] \in ACTIVE_STATUSES
  /\ request' = [request EXCEPT ![u] =
                   [pc |-> "cancel", run |-> r, seen |-> status[r]]]
  /\ UNCHANGED <<rows, worker, claimLock, supervisor, faults>>

\* ... and written by what was read, whatever it has become since.
request_cancel(u) ==
  /\ request[u].pc = "cancel"
  /\ LET r == request[u].run IN
     IF Exists(r)
     THEN /\ cancel_requested' = [cancel_requested EXCEPT ![r] = TRUE]
          /\ status' = IF request[u].seen = "queued"
                       THEN [status EXCEPT ![r] = "cancelled"] ELSE status
          /\ silent' = IF request[u].seen = "queued" THEN silent \ {r} ELSE silent
     ELSE UNCHANGED <<cancel_requested, status, silent>>
  /\ request' = [request EXCEPT ![u] = Idle]
  /\ UNCHANGED <<fingerprint, worker, claimLock, supervisor, faults>>

\* delete_run, and retention.purge of old runs: the row goes.
delete_run(r) ==
  /\ status[r] \in FINAL_STATUSES
  /\ status' = [status EXCEPT ![r] = "deleted"]
  /\ fingerprint' = [fingerprint EXCEPT ![r] = NoFingerprint]
  /\ cancel_requested' = [cancel_requested EXCEPT ![r] = FALSE]
  /\ UNCHANGED <<silent, request, worker, claimLock, supervisor, faults>>
-----------------------------------------------------------------------------
(* The main loop of a worker. *)

Threads(w) == {r \in Runs : supervisor[w][r].pc # "idle"}

\* The death of a worker container takes its threads, their engines and its
\* transaction; compose restarts it (restart: unless-stopped).
Restart(w) ==
  /\ worker' = [worker EXCEPT ![w] = Loop("recover", {})]
  /\ claimLock' = IF claimLock = w THEN NoWorker ELSE claimLock
  /\ supervisor' = [supervisor EXCEPT ![w] = [r \in Runs |-> NoSupervisor]]

\* Mutated forms: stale runs are not looked for; a running row is stale
\* whatever its heartbeat says.
recover_stale_never(w) ==
  /\ worker[w].pc = "recover"
  /\ worker' = [worker EXCEPT ![w] = Loop("fail", {})]
  /\ UNCHANGED <<rows, request, claimLock, supervisor, faults>>
recover_stale_all(w) ==
  /\ worker[w].pc = "recover"
  /\ worker' = [worker EXCEPT ![w] = Loop("fail", Running)]
  /\ UNCHANGED <<rows, request, claimLock, supervisor, faults>>

\* The rows read as running with a heartbeat before the cutoff.
recover_stale(w) ==
  /\ worker[w].pc = "recover"
  /\ worker' = [worker EXCEPT ![w] = Loop("fail", silent)]
  /\ UNCHANGED <<rows, request, claimLock, supervisor, faults>>

\* The commit of recover_stale; a row deleted meanwhile makes the UPDATE
\* raise, which ends the process (main has no handler).
FailStale(w) ==
  /\ worker[w].pc = "fail"
  /\ IF \A r \in worker[w].stale : Exists(r)
     THEN /\ status' = [r \in Runs |->
                CASE r \in worker[w].stale -> "failed"
                  [] status[r] = "queued" /\ cancel_requested[r] -> "cancelled"
                  [] OTHER -> status[r]]
          /\ silent' = silent \ worker[w].stale
          /\ worker' = [worker EXCEPT ![w] = Loop("claim", {})]
          /\ UNCHANGED <<claimLock, supervisor>>
     ELSE Restart(w) /\ UNCHANGED <<status, silent>>
  /\ UNCHANGED <<fingerprint, cancel_requested, request, faults>>

\* Mutated form: without pg_advisory_xact_lock.
claim_next_no_lock(w) ==
  /\ worker[w].pc = "claim"
  /\ worker' = [worker EXCEPT ![w] =
       IF /\ Cardinality(Threads(w)) < MaxConcurrent
          /\ Cardinality(Running) < MaxConcurrent
       THEN Loop("select", {}) ELSE Loop("recover", {})]
  /\ UNCHANGED <<rows, request, claimLock, supervisor, faults>>

\* claim_next: the lock, then the count; skipped with all threads taken.
claim_next(w) ==
  /\ worker[w].pc = "claim"
  /\ \/ /\ Cardinality(Threads(w)) < MaxConcurrent
        /\ claimLock = NoWorker
        /\ IF Cardinality(Running) < MaxConcurrent
           THEN /\ claimLock' = w
                /\ worker' = [worker EXCEPT ![w] = Loop("select", {})]
           ELSE /\ worker' = [worker EXCEPT ![w] = Loop("recover", {})]
                /\ UNCHANGED claimLock
     \/ /\ Cardinality(Threads(w)) >= MaxConcurrent
        /\ worker' = [worker EXCEPT ![w] = Loop("recover", {})]
        /\ UNCHANGED claimLock
  /\ UNCHANGED <<rows, request, supervisor, faults>>

\* Mutated form: a failed run is tried again.
Claimable_retries(skipped) ==
  {r \in Runs \ skipped : status[r] \in {"queued", "failed"} /\ ~cancel_requested[r]}

Claimable(skipped) ==
  {r \in Runs \ skipped : status[r] = "queued" /\ ~cancel_requested[r]}

\* Rows that a request in its commit holds locked, for SKIP LOCKED.
Locked == {request[u].run : u \in {v \in Users : request[v].pc \in {"attach", "cancel"}}}

\* SELECT ... FOR UPDATE SKIP LOCKED of the oldest, UPDATE, commit.
ClaimOldest(w, skipped) ==
  /\ worker[w].pc = "select"
  /\ \/ /\ Claimable(skipped) = {}
        /\ UNCHANGED <<rows, supervisor>>
     \/ \E r \in Claimable(skipped) :
          /\ \A q \in Claimable(skipped) : r <= q
          /\ status' = [status EXCEPT ![r] = "running"]
          /\ supervisor' = [supervisor EXCEPT ![w][r] = Sup("spawn", "none", "no")]
          /\ UNCHANGED <<fingerprint, cancel_requested, silent>>
  /\ worker' = [worker EXCEPT ![w] = Loop("recover", {})]
  /\ claimLock' = IF claimLock = w THEN NoWorker ELSE claimLock
  /\ UNCHANGED <<request, faults>>
-----------------------------------------------------------------------------
(* The supervisor thread of run r in worker w. *)

\* An exception leaves run_subprocess: the handler of _guarded is next.
Raised(s) == Sup("guard", s.engine, s.stop)

\* db.get returned None: the AttributeError leaves run_subprocess.
RowGone(w, r) ==
  /\ ~Exists(r)
  /\ supervisor' = [supervisor EXCEPT ![w][r] = Raised(@)]
  /\ UNCHANGED rows

Spawn(w, r) ==
  /\ supervisor[w][r].pc = "spawn"
  /\ \/ RowGone(w, r)
     \/ /\ Exists(r)
        /\ supervisor' = [supervisor EXCEPT ![w][r] = Sup("watch", "alive", "no")]
        /\ UNCHANGED rows
  /\ UNCHANGED <<request, worker, claimLock, faults>>

\* One turn of the loop: heartbeat, cancel flag; SIGTERM is sent once.
Heartbeat(w, r) ==
  /\ supervisor[w][r].pc = "watch" /\ supervisor[w][r].engine = "alive"
  /\ \/ RowGone(w, r)
     \/ /\ Exists(r)
        /\ silent' = silent \ {r}
        /\ supervisor' =
             IF cancel_requested[r] /\ supervisor[w][r].stop = "no"
             THEN [supervisor EXCEPT ![w][r] = Sup("watch", "alive", "cancelled")]
             ELSE supervisor
        /\ UNCHANGED <<status, fingerprint, cancel_requested>>
  /\ UNCHANGED <<request, worker, claimLock, faults>>

\* max_scan_duration_seconds passed, and no cancellation was asked for.
OverTime(w, r) ==
  /\ supervisor[w][r].pc = "watch" /\ supervisor[w][r].engine = "alive"
  /\ supervisor[w][r].stop = "no"
  /\ Exists(r) /\ ~cancel_requested[r]
  /\ silent' = silent \ {r}
  /\ supervisor' = [supervisor EXCEPT ![w][r] = Sup("watch", "alive", "timed_out")]
  /\ UNCHANGED <<status, fingerprint, cancel_requested,
                 request, worker, claimLock, faults>>

\* The engine ends by itself or after SIGTERM.
EngineExit(w, r, outcome) ==
  /\ supervisor[w][r].pc # "idle" /\ supervisor[w][r].engine = "alive"
  /\ supervisor' = [supervisor EXCEPT ![w][r] = Sup(@.pc, outcome, @.stop)]
  /\ UNCHANGED <<rows, request, worker, claimLock, faults>>

\* An engine whose supervisor gave up ends by itself, and nobody reads it.
OrphanExit(w, r) ==
  /\ supervisor[w][r].pc = "idle" /\ supervisor[w][r].engine = "alive"
  /\ supervisor' = [supervisor EXCEPT ![w][r] = NoSupervisor]
  /\ UNCHANGED <<rows, request, worker, claimLock, faults>>

\* CANCEL_GRACE_SECONDS after SIGTERM: SIGKILL of the process group.
Kill(w, r) ==
  /\ supervisor[w][r].pc = "watch" /\ supervisor[w][r].stop # "no"
  /\ EngineExit(w, r, "empty")

\* Mutated form: whatever sent SIGTERM, the run was cancelled.
final_status_any_stop(s) ==
  CASE s.stop # "no" -> {"cancelled"}
    [] s.stop = "no" /\ s.engine = "outcome" -> {"completed", "partial"}
    [] s.stop = "no" /\ s.engine = "empty"   -> {"failed"}

\* What the stopped supervisor writes: partial when hosts were skipped or
\* endpoints had errors, failed when there is no outcome to read.
final_status(s) ==
  CASE s.stop = "timed_out" -> {"expired"}
    [] s.stop = "cancelled" -> {"cancelled"}
    [] s.stop = "no" /\ s.engine = "outcome" -> {"completed", "partial"}
    [] s.stop = "no" /\ s.engine = "empty"   -> {"failed"}

\* Mutated form: the row keeps counting as running without a heartbeat.
Persist_stays_silent(w, r) ==
  /\ supervisor[w][r].pc = "watch"
  /\ supervisor[w][r].engine \in {"outcome", "empty"}
  /\ Exists(r)
  /\ \E verdict \in final_status(supervisor[w][r]) :
       status' = [status EXCEPT ![r] = verdict]
  /\ supervisor' = [supervisor EXCEPT ![w][r] = Sup("notify", @.engine, @.stop)]
  /\ UNCHANGED <<fingerprint, cancel_requested, silent, request, worker, claimLock, faults>>

\* persist_results or the error branch, and its commit.
Persist(w, r) ==
  /\ supervisor[w][r].pc = "watch"
  /\ supervisor[w][r].engine \in {"outcome", "empty"}
  /\ \/ RowGone(w, r)
     \/ /\ Exists(r)
        /\ \E verdict \in final_status(supervisor[w][r]) :
             status' = [status EXCEPT ![r] = verdict]
        /\ silent' = silent \ {r}
        /\ supervisor' = [supervisor EXCEPT ![w][r] = Sup("notify", @.engine, @.stop)]
        /\ UNCHANGED <<fingerprint, cancel_requested>>
  /\ UNCHANGED <<request, worker, claimLock, faults>>

\* Notifications are queued and committed (module RunNotices).
notify_run_finished(w, r) ==
  /\ supervisor[w][r].pc = "notify"
  /\ supervisor' = [supervisor EXCEPT ![w][r] = Ended(@)]
  /\ UNCHANGED <<rows, request, worker, claimLock, faults>>

\* _guarded: a run still running is failed; the engine is left alone.
_guarded(w, r) ==
  /\ supervisor[w][r].pc = "guard"
  /\ status' = IF status[r] = "running" THEN [status EXCEPT ![r] = "failed"]
                                        ELSE status
  /\ silent' = silent \ {r}
  /\ supervisor' = [supervisor EXCEPT ![w][r] = Ended(@)]
  /\ UNCHANGED <<fingerprint, cancel_requested,
                 request, worker, claimLock, faults>>
-----------------------------------------------------------------------------
(* Faults and time. *)

Crash(w) == /\ faults < MaxFaults
            /\ faults' = faults + 1
            /\ Restart(w)
            /\ UNCHANGED <<rows, request>>

\* A database call of the supervisor raises, or that of its handler.
SupervisorFails(w, r) ==
  /\ faults < MaxFaults
  /\ faults' = faults + 1
  /\ supervisor[w][r].pc # "idle"
  /\ supervisor' = [supervisor EXCEPT ![w][r] =
                      IF @.pc = "guard" THEN Ended(@) ELSE Raised(@)]
  /\ UNCHANGED <<rows, request, worker, claimLock>>

\* 120 s pass without a heartbeat; a timely supervisor does not let them.
HeartbeatAges(r) ==
  /\ status[r] = "running" /\ r \notin silent
  /\ \A w \in TimelyWorkers : r \notin Threads(w)
  /\ silent' = silent \cup {r}
  /\ UNCHANGED <<status, fingerprint, cancel_requested,
                 request, worker, claimLock, supervisor, faults>>

Supervise(w, r) ==
  \/ Spawn(w, r) \/ Heartbeat(w, r) \/ OverTime(w, r) \/ Kill(w, r)
  \/ \E outcome \in {"outcome", "empty"} : EngineExit(w, r, outcome)
  \/ Persist(w, r) \/ notify_run_finished(w, r) \/ _guarded(w, r)
  \/ OrphanExit(w, r) \/ SupervisorFails(w, r)

MainLoop(w) ==
  \/ recover_stale(w) \/ FailStale(w) \/ claim_next(w)
  \/ \E skipped \in SUBSET Locked : ClaimOldest(w, skipped)
  \/ Crash(w)

Http(u) ==
  \/ \E f \in Fingerprints : create_run(u, f)
  \/ InsertRun(u) \/ RereadRun(u) \/ add_requester(u)
  \/ \E r \in Runs : cancel_run(u, r)
  \/ request_cancel(u)

Next ==
  \/ \E u \in Users : Http(u)
  \/ \E w \in Workers : MainLoop(w)
  \/ \E w \in Workers, r \in Runs : Supervise(w, r)
  \/ \E r \in Runs : delete_run(r) \/ HeartbeatAges(r)

Spec == Init /\ [][Next]_vars

(* The processes run, and time passes: a worker is restarted and polls, the
   database grants its lock in turn, a request in flight ends, the loop of a
   supervisor turns and enforces the maximum duration, a heartbeat nobody
   renews gets old.  People owe nothing, an engine need not end by itself. *)
Fairness ==
  /\ \A u \in Users : WF_vars(InsertRun(u) \/ RereadRun(u) \/ add_requester(u)
                                \/ request_cancel(u))
  /\ \A w \in Workers : /\ WF_vars(recover_stale(w)) /\ WF_vars(FailStale(w))
                         /\ SF_vars(claim_next(w)) /\ SF_vars(ClaimOldest(w, {}))
  /\ \A w \in Workers, r \in Runs :
       /\ WF_vars(Spawn(w, r)) /\ WF_vars(OverTime(w, r)) /\ WF_vars(Kill(w, r))
       /\ WF_vars(Persist(w, r)) /\ WF_vars(notify_run_finished(w, r))
       /\ WF_vars(_guarded(w, r)) /\ WF_vars(Heartbeat(w, r))
  /\ \A r \in Runs :
       WF_vars(HeartbeatAges(r) /\ \A w \in Workers : r \notin Threads(w))

FairSpec == Spec /\ Fairness
-----------------------------------------------------------------------------
TypeOK ==
  /\ status \in [Runs -> RowStatuses]
  /\ fingerprint \in [Runs -> Fingerprints \cup {NoFingerprint}]
  /\ cancel_requested \in [Runs -> BOOLEAN]
  /\ silent \subseteq Running
  /\ request \in [Users -> Requests]
  /\ worker \in [Workers -> Loops]
  /\ claimLock \in Workers \cup {NoWorker}
  /\ supervisor \in [Workers -> [Runs -> Supervisors]]
  /\ faults \in 0..MaxFaults

\* De-duplication: two active rows never share a fingerprint, however the
\* requests, the claims and the late writers interleave (create_run).
OneActivePerFingerprint ==
  \A r, q \in Runs :
    /\ status[r] \in ACTIVE_STATUSES /\ status[q] \in ACTIVE_STATUSES
    /\ fingerprint[r] = fingerprint[q]
    => r = q

\* The global concurrency cap holds over all workers, although the count and
\* the claim are two statements (claim_next).
RunningWithinCap == Cardinality(Running) <= MaxConcurrent

\* A run is executed once: one worker at most has a thread or an engine for
\* it, and none has one for a row that still waits (claim_next).
SupervisedOnce ==
  \A r \in Runs, v, w \in Workers :
    supervisor[v][r] # NoSupervisor =>
      /\ status[r] # "queued"
      /\ supervisor[w][r] # NoSupervisor => v = w

\* A run only ends cancelled because somebody asked for it, never by a
\* timeout, a crash or another run's cancellation (final_status, recover_stale).
CancelledOnRequest ==
  \A r \in Runs : status[r] = "cancelled" => cancel_requested[r]

\* While a worker that beats in time has an engine at work, its row says so:
\* nobody else ends the run, except a cancellation that read the row before it
\* was claimed (recover_stale, request_cancel, _guarded).
EngineHasItsRow ==
  \A w \in TimelyWorkers, r \in Runs :
    /\ supervisor[w][r].pc = "watch" /\ supervisor[w][r].engine = "alive"
    => status[r] \in {"running", "cancelled", "deleted"}

\* The queue implements the life of a run that people are told of.
Lifecycle == INSTANCE RunLifecycle WITH
  Runs <- Runs, Fingerprints <- Fingerprints, NoFingerprint <- NoFingerprint,
  MaxConcurrent <- MaxConcurrent, status <- status, fingerprint <- fingerprint
ImplementsLifecycle == Lifecycle!Spec

\* No run stays running or waits for ever: its worker may die, its engine
\* hang, the database fail, other runs come first (recover_stale, claim_next).
EveryRunSettles == \A r \in Runs : (status[r] \in ACTIVE_STATUSES)
                                     ~> (status[r] \notin ACTIVE_STATUSES)
=============================================================================
