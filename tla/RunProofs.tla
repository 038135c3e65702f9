----------------------------- MODULE RunProofs ------------------------------
(***************************************************************************)
(* Proofs about RunQueue and RunNotices, for any number of rows, people    *)
(* and workers.                                                            *)
(***************************************************************************)
EXTENDS RunNotices, FiniteSetTheorems, FunctionTheorems, SequenceTheorems, TLAPS
-----------------------------------------------------------------------------
(* The queue. *)

\* What the steps put into the request of a user.
LEMMA RequestValues ==
  /\ Idle \in Requests
  /\ \A f \in Fingerprints : /\ [pc |-> "insert", fingerprint |-> f] \in Requests
                             /\ [pc |-> "reread", fingerprint |-> f] \in Requests
  /\ \A r \in Runs : [pc |-> "attach", run |-> r] \in Requests
  /\ \A r \in Runs, s \in ACTIVE_STATUSES :
       [pc |-> "cancel", run |-> r, seen |-> s] \in Requests
BY DEF Idle, Requests, ACTIVE_STATUSES

\* What the steps read from it.
LEMMA RequestFields == ASSUME NEW q \in Requests
  PROVE /\ q.pc = "insert" => q.fingerprint \in Fingerprints
        /\ q.pc \in {"attach", "cancel"} => q.run \in Runs
BY DEF Requests, Idle, ACTIVE_STATUSES

\* What the steps make of a main loop and of a supervisor.
LEMMA LoopValues ==
  \A p \in {"recover", "fail", "claim", "select"} :
    Loop(p, {}) \in Loops /\ \A S \in SUBSET Runs : Loop(p, S) \in Loops
BY DEF Loop, Loops

LEMMA SupervisorValues ==
  /\ NoSupervisor \in Supervisors
  /\ Sup("spawn", "none", "no") \in Supervisors
  /\ \A e \in {"no", "cancelled", "timed_out"} : Sup("watch", "alive", e) \in Supervisors
  /\ \A s \in Supervisors :
       /\ Ended(s) \in Supervisors
       /\ Raised(s) \in Supervisors
       /\ Sup("notify", s.engine, s.stop) \in Supervisors
       /\ \A e \in {"outcome", "empty"} : Sup(s.pc, e, s.stop) \in Supervisors
BY DEF NoSupervisor, Sup, Supervisors, Ended, Raised

\* A row that is gone leaves everything but the thread as it is.
LEMMA RowGoneTypes ==
  ASSUME TypeOK, NEW w \in Workers, NEW r \in Runs, RowGone(w, r),
         UNCHANGED <<request, worker, claimLock, faults>>
  PROVE  TypeOK'
<1>1. supervisor' \in [Workers -> [Runs -> Supervisors]]
  <2>1. Raised(supervisor[w][r]) \in Supervisors
    BY SupervisorValues DEF TypeOK
  <2> QED BY <2>1 DEF TypeOK, RowGone
<1>2. UNCHANGED <<status, fingerprint, cancel_requested, silent>>
  BY DEF RowGone, rows
<1> QED BY <1>1, <1>2 DEF TypeOK, Running

LEMMA FinalVerdicts == ASSUME NEW s \in Supervisors, s.engine \in {"outcome", "empty"}
  PROVE /\ final_status(s) \subseteq FINAL_STATUSES
        /\ "cancelled" \in final_status(s) => s.stop = "cancelled"
BY DEF Supervisors, final_status, FINAL_STATUSES

LEMMA TypeInit == Init => TypeOK
BY RequestValues, SupervisorValues, LoopValues, QueueAssumption
   DEF Init, TypeOK, Running, RowStatuses

\* No step of a handler, a loop, a supervisor or a fault leaves the types.
LEMMA TypeStep == TypeOK /\ [Next]_vars => TypeOK'
<1> SUFFICES ASSUME TypeOK, [Next]_vars PROVE TypeOK'
  OBVIOUS
<1> USE TypeOK DEF TypeOK
<1>1. ASSUME NEW u \in Users, NEW f \in Fingerprints, create_run(u, f) PROVE TypeOK'
  BY <1>1, RequestValues DEF create_run, _active_run, rows, Running
<1>2. ASSUME NEW u \in Users, InsertRun(u) PROVE TypeOK'
  <2> DEFINE f == request[u].fingerprint
  <2>1. f \in Fingerprints
    BY <1>2, RequestFields DEF InsertRun
  <2>2. CASE /\ request' = [request EXCEPT ![u] = [pc |-> "reread", fingerprint |-> f]]
             /\ UNCHANGED rows
    BY <1>2, <2>1, <2>2, RequestValues DEF InsertRun, rows, Running
  <2>3. CASE /\ request' = [request EXCEPT ![u] = Idle]
             /\ UNCHANGED <<cancel_requested, silent>>
             /\ \E r \in Runs : /\ status[r] = "absent"
                                /\ status' = [status EXCEPT ![r] = "queued"]
                                /\ fingerprint' = [fingerprint EXCEPT ![r] = f]
    <3>1. silent' \subseteq Running'
      BY <2>3 DEF Running
    <3> QED BY <1>2, <2>1, <2>3, <3>1, RequestValues DEF InsertRun, RowStatuses, ACTIVE_STATUSES
  <2> QED BY <1>2, <2>2, <2>3 DEF InsertRun
<1>3. ASSUME NEW u \in Users, RereadRun(u) PROVE TypeOK'
  BY <1>3, RequestValues DEF RereadRun, _active_run, rows, Running
<1>4. ASSUME NEW u \in Users, add_requester(u) PROVE TypeOK'
  BY <1>4, RequestValues DEF add_requester, rows, Running
<1>5. ASSUME NEW u \in Users, NEW r \in Runs, cancel_run(u, r) PROVE TypeOK'
  BY <1>5, RequestValues DEF cancel_run, rows, Running
<1>6. ASSUME NEW u \in Users, request_cancel(u) PROVE TypeOK'
  <2>1. request[u].run \in Runs
    BY <1>6, RequestFields DEF request_cancel
  <2>2. status' \in [Runs -> RowStatuses] /\ cancel_requested' \in [Runs -> BOOLEAN]
    BY <1>6, <2>1 DEF request_cancel, RowStatuses, FINAL_STATUSES
  <2>3. silent' \subseteq Running'
    BY <1>6, <2>1 DEF request_cancel, Running
  <2> QED BY <1>6, <2>2, <2>3, RequestValues DEF request_cancel
<1>7. ASSUME NEW w \in Workers, recover_stale(w) PROVE TypeOK'
  BY <1>7, LoopValues DEF recover_stale, rows, Running
<1>8. ASSUME NEW w \in Workers, FailStale(w) PROVE TypeOK'
  <2>1. CASE \A r \in worker[w].stale : Exists(r)
    <3>1. status' \in [Runs -> RowStatuses]
      BY <1>8, <2>1 DEF FailStale, RowStatuses, FINAL_STATUSES
    <3>2. silent' \subseteq Running'
      BY <1>8, <2>1 DEF FailStale, Running
    <3> QED BY <1>8, <2>1, <3>1, <3>2, LoopValues DEF FailStale
  <2>2. CASE ~\A r \in worker[w].stale : Exists(r)
    <3>1. Restart(w) /\ UNCHANGED <<status, silent>>
      BY <1>8, <2>2 DEF FailStale
    <3> QED BY <1>8, <3>1, SupervisorValues, LoopValues DEF FailStale, Restart, Running
  <2> QED BY <2>1, <2>2
<1>9. ASSUME NEW w \in Workers, claim_next(w) PROVE TypeOK'
  BY <1>9, LoopValues DEF claim_next, rows, Running
<1>10. ASSUME NEW w \in Workers, NEW S, ClaimOldest(w, S) PROVE TypeOK'
  <2>1. CASE UNCHANGED <<rows, supervisor>>
    BY <1>10, <2>1, LoopValues DEF ClaimOldest, rows, Running
  <2>2. CASE \E r \in Claimable(S) :
               /\ status' = [status EXCEPT ![r] = "running"]
               /\ supervisor' = [supervisor EXCEPT ![w][r] = Sup("spawn", "none", "no")]
               /\ UNCHANGED <<fingerprint, cancel_requested, silent>>
    <3>1. silent' \subseteq Running'
      BY <2>2 DEF Claimable, Running
    <3> QED BY <1>10, <2>2, <3>1, SupervisorValues, LoopValues
            DEF ClaimOldest, Claimable, RowStatuses, ACTIVE_STATUSES
  <2> QED BY <1>10, <2>1, <2>2 DEF ClaimOldest
<1>11. ASSUME NEW w \in Workers, Crash(w) PROVE TypeOK'
  BY <1>11, SupervisorValues, LoopValues, QueueAssumption DEF Crash, Restart, rows, Running
<1>12. ASSUME NEW w \in Workers, NEW r \in Runs, Supervise(w, r) PROVE TypeOK'
  <2> USE SupervisorValues, supervisor[w][r] \in Supervisors
  <2>1. CASE Spawn(w, r)
    <3>1. CASE Exists(r)
      BY <2>1, <3>1 DEF Spawn, RowGone, rows, Running
    <3>2. CASE ~Exists(r)
      BY <2>1, <3>2, RowGoneTypes DEF Spawn
    <3> QED BY <3>1, <3>2
  <2>2. CASE Heartbeat(w, r)
    <3>1. CASE Exists(r)
      <4>1. supervisor' \in [Workers -> [Runs -> Supervisors]]
        <5>1. \/ supervisor' = [supervisor EXCEPT ![w][r] = Sup("watch", "alive", "cancelled")]
              \/ supervisor' = supervisor
          BY <2>2, <3>1 DEF Heartbeat, RowGone
        <5>2. Sup("watch", "alive", "cancelled") \in Supervisors
          BY SupervisorValues
        <5>3. CASE supervisor' = [supervisor EXCEPT ![w][r] = Sup("watch", "alive", "cancelled")]
          BY <5>2, <5>3
        <5>4. CASE supervisor' = supervisor
          BY <5>4
        <5> QED BY <5>1, <5>3, <5>4
      <4>2. status' = status /\ silent' = silent \ {r}
        BY <2>2, <3>1 DEF Heartbeat, RowGone
      <4> QED BY <2>2, <3>1, <4>1, <4>2 DEF Heartbeat, RowGone, Running
    <3>2. CASE ~Exists(r)
      BY <2>2, <3>2, RowGoneTypes DEF Heartbeat
    <3> QED BY <3>1, <3>2
  <2>3. CASE OverTime(w, r)
    BY <2>3 DEF OverTime, Running
  <2>4. CASE Kill(w, r)
    BY <2>4 DEF Kill, EngineExit, rows, Running
  <2>5. CASE \E o \in {"outcome", "empty"} : EngineExit(w, r, o)
    BY <2>5 DEF EngineExit, rows, Running
  <2>6. CASE Persist(w, r)
    <3>1. CASE ~Exists(r)
      BY <2>6, <3>1, RowGoneTypes DEF Persist
    <3>2. CASE Exists(r)
      <4>1. PICK v \in final_status(supervisor[w][r]) : status' = [status EXCEPT ![r] = v]
        BY <2>6, <3>2 DEF Persist, RowGone
      <4>2. v \in RowStatuses
        BY <2>6, <4>1, FinalVerdicts DEF Persist, RowStatuses
      <4>3. silent' = silent \ {r}
        BY <2>6, <3>2 DEF Persist, RowGone
      <4>4. silent' \subseteq Running'
        BY <4>1, <4>3 DEF Running
      <4>5. status' \in [Runs -> RowStatuses]
        BY <4>1, <4>2
      <4>6. supervisor' \in [Workers -> [Runs -> Supervisors]]
        <5>1. supervisor' = [supervisor EXCEPT ![w][r] =
                               Sup("notify", supervisor[w][r].engine, supervisor[w][r].stop)]
          BY <2>6, <3>2 DEF Persist, RowGone
        <5> QED BY <5>1
      <4> QED BY <2>6, <3>2, <4>4, <4>5, <4>6 DEF Persist, RowGone
    <3> QED BY <3>1, <3>2
  <2>7. CASE notify_run_finished(w, r)
    BY <2>7 DEF notify_run_finished, rows, Running
  <2>8. CASE _guarded(w, r)
    BY <2>8 DEF _guarded, RowStatuses, ACTIVE_STATUSES, FINAL_STATUSES, Running
  <2>9. CASE OrphanExit(w, r)
    BY <2>9 DEF OrphanExit, rows, Running
  <2>10. CASE SupervisorFails(w, r)
    BY <2>10, QueueAssumption DEF SupervisorFails, rows, Running
  <2> QED BY <1>12, <2>1, <2>2, <2>3, <2>4, <2>5, <2>6, <2>7, <2>8, <2>9, <2>10 DEF Supervise
<1>13. ASSUME NEW r \in Runs, delete_run(r) PROVE TypeOK'
  BY <1>13, QueueAssumption DEF delete_run, RowStatuses, ACTIVE_STATUSES, FINAL_STATUSES, Running
<1>14. ASSUME NEW r \in Runs, HeartbeatAges(r) PROVE TypeOK'
  BY <1>14 DEF HeartbeatAges, Running
<1>15. CASE UNCHANGED vars
  BY <1>15 DEF vars, rows, Running
<1> QED BY <1>1, <1>2, <1>3, <1>4, <1>5, <1>6, <1>7, <1>8, <1>9, <1>10, <1>11, <1>12,
           <1>13, <1>14, <1>15 DEF Next, Http, MainLoop

\* Every variable stays in its type: the rows, the requests, the loops and the
\* supervisors of every worker, and only running rows count as silent (all
\* handlers of RunQueue).
THEOREM TypeCorrect == Spec => []TypeOK
BY TypeInit, TypeStep, PTL DEF Spec
-----------------------------------------------------------------------------
(* The strengthening of the safety invariants.  A row is out of the queue  *)
(* once a worker claimed it, and it never comes back: that is what keeps   *)
(* the threads, the stale sets and the late writers away from a row that   *)
(* waits.  The count of running rows read under the advisory lock stays    *)
(* an upper bound until the lock is released.                              *)

Started(r) == status[r] \notin {"absent", "queued"}

ClaimInv == \A w \in Workers : worker[w].pc = "select" =>
              claimLock = w /\ Cardinality(Running) < MaxConcurrent

StaleInv == \A w \in Workers : \A r \in worker[w].stale : Started(r)

ThreadInv == \A w \in Workers, r \in Runs :
               supervisor[w][r] # NoSupervisor => Started(r)

QueueInv == TypeOK /\ ClaimInv /\ StaleInv /\ ThreadInv

LEMMA SupFields == \A p, e, s : /\ Sup(p, e, s).pc = p
                                /\ Sup(p, e, s).engine = e
                                /\ Sup(p, e, s).stop = s
BY DEF Sup

LEMMA LoopFields == \A p, S : Loop(p, S).pc = p /\ Loop(p, S).stale = S
BY DEF Loop

\* Steps other than a claim: the rows step as in RunLifecycle, no row starts
\* running, and a thread or an engine appears for no row that had none.
Quiet == /\ [Lifecycle!Next]_(Lifecycle!lvars)
         /\ Running' \subseteq Running
         /\ \A w \in Workers, r \in Runs :
              supervisor'[w][r] # NoSupervisor => supervisor[w][r] # NoSupervisor

LEMMA HttpQuiet ==
  ASSUME QueueInv, NEW u \in Users, Http(u) PROVE Quiet /\ UNCHANGED <<worker, claimLock>>
<1> USE DEF QueueInv
<1>1. ASSUME UNCHANGED <<rows, worker, claimLock, supervisor>> PROVE Quiet
  BY <1>1 DEF Quiet, rows, Lifecycle!lvars, Running
<1>2. ASSUME NEW f \in Fingerprints, create_run(u, f) PROVE Quiet /\ UNCHANGED <<worker, claimLock>>
  BY <1>1, <1>2 DEF create_run
<1>3. CASE InsertRun(u)
  <2> DEFINE f == request[u].fingerprint
  <2>1. CASE UNCHANGED rows
    BY <1>1, <1>3, <2>1 DEF InsertRun
  <2>2. CASE ~UNCHANGED rows
    <3>1. f \in Fingerprints /\ _active_run(f) = {}
      BY <1>3, <2>2, RequestFields DEF InsertRun, TypeOK
    <3>2. PICK r \in Runs : /\ status[r] = "absent"
                            /\ status' = [status EXCEPT ![r] = "queued"]
                            /\ fingerprint' = [fingerprint EXCEPT ![r] = f]
      BY <1>3, <2>2 DEF InsertRun
    <3>3. Lifecycle!Queue(r, f)
      BY <3>1, <3>2 DEF Lifecycle!Queue, Lifecycle!Active, Lifecycle!ACTIVE_STATUSES,
                        _active_run, ACTIVE_STATUSES
    <3>4. Running' \subseteq Running
      BY <3>2 DEF Running, TypeOK
    <3>5. UNCHANGED <<worker, claimLock, supervisor>>
      BY <1>3 DEF InsertRun
    <3> QED BY <3>1, <3>3, <3>4, <3>5 DEF Quiet, Lifecycle!Next
  <2> QED BY <1>3, <2>1, <2>2 DEF InsertRun
<1>4. CASE RereadRun(u)
  BY <1>1, <1>4 DEF RereadRun
<1>5. CASE add_requester(u)
  BY <1>1, <1>5 DEF add_requester
<1>6. ASSUME NEW r \in Runs, cancel_run(u, r) PROVE Quiet /\ UNCHANGED <<worker, claimLock>>
  BY <1>1, <1>6 DEF cancel_run
<1>7. CASE request_cancel(u)
  <2> DEFINE r == request[u].run
  <2>1. r \in Runs
    BY <1>7, RequestFields DEF request_cancel, TypeOK
  <2>2. \/ status' = status
        \/ Exists(r) /\ status' = [status EXCEPT ![r] = "cancelled"]
    BY <1>7 DEF request_cancel
  <2>3. UNCHANGED fingerprint /\ UNCHANGED <<worker, claimLock, supervisor>>
    BY <1>7 DEF request_cancel
  <2>4. Lifecycle!Decide
    BY <2>1, <2>2, <2>3 DEF Lifecycle!Decide, Lifecycle!Statuses, Lifecycle!ACTIVE_STATUSES,
       Lifecycle!FINAL_STATUSES, TypeOK, RowStatuses, ACTIVE_STATUSES, FINAL_STATUSES, Exists
  <2>5. Running' \subseteq Running
    BY <2>1, <2>2 DEF Running, TypeOK
  <2> QED BY <2>3, <2>4, <2>5 DEF Quiet, Lifecycle!Next
<1> QED BY <1>2, <1>3, <1>4, <1>5, <1>6, <1>7 DEF Http
\* One row that has started gets a final status.
LEMMA DecideOne ==
  ASSUME TypeOK, NEW r \in Runs, Exists(r), Started(r), NEW v \in FINAL_STATUSES,
         status' = [status EXCEPT ![r] = v], UNCHANGED fingerprint
  PROVE  Lifecycle!Decide /\ Running' \subseteq Running
<1>1. Lifecycle!Decide
  BY DEF Lifecycle!Decide, Lifecycle!Statuses, Lifecycle!ACTIVE_STATUSES, Started,
     Lifecycle!FINAL_STATUSES, TypeOK, RowStatuses, ACTIVE_STATUSES, FINAL_STATUSES, Exists
<1>2. Running' \subseteq Running
  BY DEF Running, TypeOK, FINAL_STATUSES
<1> QED BY <1>1, <1>2

\* A supervisor acts on its own pair, which was not NoSupervisor.
LEMMA OwnSupervisor ==
  ASSUME TypeOK, NEW w \in Workers, NEW r \in Runs, NEW s,
         supervisor[w][r] # NoSupervisor, supervisor' = [supervisor EXCEPT ![w][r] = s]
  PROVE  \A v \in Workers, q \in Runs :
           supervisor'[v][q] # NoSupervisor => supervisor[v][q] # NoSupervisor
BY DEF TypeOK

LEMMA SuperviseQuiet ==
  ASSUME QueueInv, NEW w \in Workers, NEW r \in Runs, Supervise(w, r)
  PROVE  Quiet /\ UNCHANGED <<worker, claimLock, request>>
<1> USE DEF QueueInv
<1> DEFINE s == supervisor[w][r]
<1>1. s # NoSupervisor
  <2>1. s.pc # "idle" \/ s.engine = "alive"
    BY DEF Supervise, Spawn, Heartbeat, OverTime, Kill, EngineExit, Persist,
           notify_run_finished, _guarded, OrphanExit, SupervisorFails
  <2> QED BY <2>1, SupFields DEF NoSupervisor
<1>2. UNCHANGED <<worker, claimLock, request>>
  BY DEF Supervise, Spawn, Heartbeat, OverTime, Kill, EngineExit, Persist,
         notify_run_finished, _guarded, OrphanExit, SupervisorFails
<1>3. \/ supervisor' = supervisor
      \/ \E t : supervisor' = [supervisor EXCEPT ![w][r] = t]
  BY DEF Supervise, Spawn, Heartbeat, OverTime, Kill, EngineExit, Persist, RowGone,
         notify_run_finished, _guarded, OrphanExit, SupervisorFails
<1>4. \A v \in Workers, q \in Runs :
        supervisor'[v][q] # NoSupervisor => supervisor[v][q] # NoSupervisor
  BY <1>1, <1>3, OwnSupervisor
<1>5. s \in Supervisors /\ Started(r)
  BY <1>1 DEF TypeOK, ThreadInv
<1>6. [Lifecycle!Next]_(Lifecycle!lvars) /\ Running' \subseteq Running
  <2>1. CASE UNCHANGED <<status, fingerprint>>
    BY <2>1 DEF Lifecycle!lvars, Running
  <2>2. CASE Persist(w, r) /\ Exists(r)
    <3>1. PICK v \in final_status(s) : status' = [status EXCEPT ![r] = v]
      BY <2>2 DEF Persist, RowGone
    <3>2. v \in FINAL_STATUSES
      BY <2>2, <1>5, FinalVerdicts DEF Persist
    <3>3. UNCHANGED fingerprint
      BY <2>2 DEF Persist, RowGone
    <3> QED BY <1>5, <2>2, <3>1, <3>2, <3>3, DecideOne DEF Lifecycle!Next
  <2>3. CASE _guarded(w, r) /\ status[r] = "running"
    <3>1. status' = [status EXCEPT ![r] = "failed"] /\ UNCHANGED fingerprint
      BY <2>3 DEF _guarded
    <3>2. Exists(r) /\ "failed" \in FINAL_STATUSES
      BY <2>3 DEF Exists, ACTIVE_STATUSES, FINAL_STATUSES
    <3> QED BY <1>5, <3>1, <3>2, DecideOne DEF Lifecycle!Next
  <2>4. CASE Persist(w, r) /\ ~Exists(r)
    BY <2>1, <2>4 DEF Persist, RowGone, rows
  <2>5. CASE _guarded(w, r) /\ status[r] # "running"
    BY <2>1, <2>5 DEF _guarded
  <2>6. CASE ~Persist(w, r) /\ ~_guarded(w, r)
    BY <2>1, <2>6 DEF Supervise, Spawn, Heartbeat, OverTime, Kill, EngineExit, RowGone,
           notify_run_finished, OrphanExit, SupervisorFails, rows
  <2> QED BY <2>2, <2>3, <2>4, <2>5, <2>6
<1> QED BY <1>2, <1>4, <1>6 DEF Quiet

\* The steps of a main loop other than a claim.
LEMMA LoopQuiet ==
  ASSUME QueueInv, NEW w \in Workers,
         recover_stale(w) \/ FailStale(w) \/ claim_next(w) \/ Crash(w)
  PROVE  Quiet
<1> USE DEF QueueInv
<1>1. ASSUME UNCHANGED <<status, fingerprint>> PROVE [Lifecycle!Next]_(Lifecycle!lvars) /\ Running' \subseteq Running
  BY <1>1 DEF Lifecycle!lvars, Running
<1>2. ASSUME Restart(w) PROVE \A v \in Workers, q \in Runs :
        supervisor'[v][q] # NoSupervisor => supervisor[v][q] # NoSupervisor
  BY <1>2 DEF Restart, TypeOK
<1>3. CASE recover_stale(w) \/ claim_next(w)
  BY <1>1, <1>3 DEF recover_stale, claim_next, rows, Quiet
<1>4. CASE Crash(w)
  BY <1>1, <1>2, <1>4 DEF Crash, rows, Quiet
<1>5. CASE FailStale(w)
  <2>1. CASE ~\A r \in worker[w].stale : Exists(r)
    BY <1>1, <1>2, <1>5, <2>1 DEF FailStale, Quiet
  <2>2. CASE \A r \in worker[w].stale : Exists(r)
    <3>1. /\ UNCHANGED <<supervisor, fingerprint>>
          /\ \A r \in Runs : \/ status'[r] = status[r]
                             \/ Exists(r) /\ Started(r) /\ status'[r] = "failed"
                             \/ status[r] = "queued" /\ status'[r] = "cancelled"
          /\ status' \in [Runs -> RowStatuses]
      <4>1. /\ UNCHANGED <<supervisor, fingerprint>>
            /\ status' = [r \in Runs |->
                  CASE r \in worker[w].stale -> "failed"
                    [] status[r] = "queued" /\ cancel_requested[r] -> "cancelled"
                    [] OTHER -> status[r]]
        BY <1>5, <2>2 DEF FailStale
      <4>2. \A r \in worker[w].stale : Exists(r) /\ Started(r)
        BY <2>2 DEF StaleInv
      <4>3. \A r \in Runs : \/ status'[r] = status[r]
                            \/ r \in worker[w].stale /\ status'[r] = "failed"
                            \/ status[r] = "queued" /\ status'[r] = "cancelled"
        BY <4>1
      <4>4. status' \in [Runs -> RowStatuses]
        BY <4>1, <4>3 DEF TypeOK, RowStatuses, FINAL_STATUSES
      <4>5. \A r \in Runs : \/ status'[r] = status[r]
                            \/ Exists(r) /\ Started(r) /\ status'[r] = "failed"
                            \/ status[r] = "queued" /\ status'[r] = "cancelled"
        BY <4>2, <4>3
      <4> QED BY <4>1, <4>4, <4>5
    <3>2. Lifecycle!Decide
      BY <3>1 DEF Lifecycle!Decide, Lifecycle!Statuses, Lifecycle!ACTIVE_STATUSES, Started,
         Lifecycle!FINAL_STATUSES, TypeOK, RowStatuses, ACTIVE_STATUSES, FINAL_STATUSES, Exists
    <3>3. Running' \subseteq Running
      BY <3>1 DEF Running
    <3> QED BY <3>1, <3>2, <3>3 DEF Quiet, Lifecycle!Next
  <2> QED BY <2>1, <2>2
<1> QED BY <1>3, <1>4, <1>5

LEMMA RowQuiet ==
  ASSUME QueueInv, NEW r \in Runs, delete_run(r) \/ HeartbeatAges(r)
  PROVE  Quiet /\ UNCHANGED <<worker, claimLock, request>>
<1>1. CASE delete_run(r)
  <2>1. Lifecycle!Delete(r)
    BY <1>1 DEF delete_run, Lifecycle!Delete, Lifecycle!FINAL_STATUSES, FINAL_STATUSES
  <2>2. Running' \subseteq Running
    BY <1>1 DEF delete_run, Running, QueueInv, TypeOK
  <2> QED BY <1>1, <2>1, <2>2 DEF delete_run, Quiet, Lifecycle!Next
<1>2. CASE HeartbeatAges(r)
  BY <1>2 DEF HeartbeatAges, Quiet, Running, Lifecycle!lvars
<1> QED BY <1>1, <1>2
-----------------------------------------------------------------------------
\* A step of the life cycle never puts a row back in the queue.
LEMMA StartedForEver ==
  ASSUME QueueInv, Quiet \/ (\E w \in Workers : \E S : ClaimOldest(w, S)), NEW r \in Runs, Started(r)
  PROVE  Started(r)'
<1> USE DEF QueueInv, Started
<1>1. CASE Quiet
  <2>1. CASE \E q \in Runs, f \in Fingerprints : Lifecycle!Queue(q, f)
    BY <2>1 DEF Lifecycle!Queue, TypeOK
  <2>2. CASE \E q \in Runs : Lifecycle!Start(q) \/ Lifecycle!Delete(q)
    BY <2>2 DEF Lifecycle!Start, Lifecycle!Delete, Lifecycle!FINAL_STATUSES, TypeOK
  <2>3. CASE Lifecycle!Decide
    BY <2>3 DEF Lifecycle!Decide, Lifecycle!FINAL_STATUSES
  <2>4. CASE UNCHANGED Lifecycle!lvars
    BY <2>4 DEF Lifecycle!lvars
  <2> QED BY <1>1, <2>1, <2>2, <2>3, <2>4 DEF Quiet, Lifecycle!Next
<1>2. ASSUME NEW w \in Workers, NEW S, ClaimOldest(w, S) PROVE Started(r)'
  BY <1>2 DEF ClaimOldest, Claimable, rows, TypeOK
<1> QED BY <1>1, <1>2

\* A claim starts one row, within the cap, and gives it its only thread.
LEMMA ClaimStarts ==
  ASSUME QueueInv, NEW w \in Workers, NEW S, ClaimOldest(w, S)
  PROVE  /\ [Lifecycle!Next]_(Lifecycle!lvars)
         /\ \A v \in Workers, q \in Runs : supervisor'[v][q] # NoSupervisor =>
              \/ supervisor[v][q] # NoSupervisor
              \/ v = w /\ status[q] = "queued" /\ status'[q] = "running"
         /\ worker' = [worker EXCEPT ![w] = Loop("recover", {})]
         /\ claimLock = w
<1> USE DEF QueueInv
<1>1. claimLock = w /\ Cardinality(Running) < MaxConcurrent
  BY DEF ClaimOldest, ClaimInv
<1>2. worker' = [worker EXCEPT ![w] = Loop("recover", {})]
  BY DEF ClaimOldest
<1>3. CASE UNCHANGED <<rows, supervisor>>
  BY <1>1, <1>2, <1>3 DEF rows, Lifecycle!lvars
<1>4. ASSUME NEW r \in Claimable(S), status' = [status EXCEPT ![r] = "running"],
             supervisor' = [supervisor EXCEPT ![w][r] = Sup("spawn", "none", "no")],
             UNCHANGED <<fingerprint, cancel_requested, silent>>
      PROVE  /\ Lifecycle!Start(r)
             /\ \A v \in Workers, q \in Runs : supervisor'[v][q] # NoSupervisor =>
                  \/ supervisor[v][q] # NoSupervisor
                  \/ v = w /\ status[q] = "queued" /\ status'[q] = "running"
  <2>1. r \in Runs /\ status[r] = "queued"
    BY DEF Claimable
  <2>2. Lifecycle!Start(r)
    <3>1. Lifecycle!Running = Running
      BY DEF Lifecycle!Running, Running
    <3>2. Lifecycle!Cardinality(Running) = Cardinality(Running)
      BY Zenon DEF Lifecycle!Cardinality, Cardinality
    <3> QED BY <1>1, <1>4, <2>1, <3>1, <3>2 DEF Lifecycle!Start
  <2> QED BY <1>4, <2>1, <2>2 DEF TypeOK
<1>5. \A r \in Claimable(S) : r \in Runs
  BY DEF Claimable
<1> QED BY <1>1, <1>2, <1>3, <1>4, <1>5 DEF ClaimOldest, Lifecycle!Next
LEMMA RunningFinite == IsFiniteSet(Running) /\ Cardinality(Running) \in Nat
  BY QueueAssumption, FS_Subset, FS_CardinalityType DEF Running

LEMMA RunningShrinks ==
  ASSUME Running' \subseteq Running
  PROVE  /\ Cardinality(Running') \in Nat
         /\ Cardinality(Running') <= Cardinality(Running)
  BY RunningFinite, FS_Subset, FS_CardinalityType

\* The strengthening is inductive.
LEMMA QueueInvInit == Init => QueueInv
BY TypeInit DEF Init, QueueInv, ClaimInv, StaleInv, ThreadInv, Loop

LEMMA QueueInvStep == QueueInv /\ [Next]_vars => QueueInv'
<1> SUFFICES ASSUME QueueInv, [Next]_vars PROVE QueueInv'
  OBVIOUS
<1>1. TypeOK'
  BY TypeStep DEF QueueInv
<1>2. ASSUME Quiet, UNCHANGED <<worker, claimLock>> PROVE QueueInv'
  <2>1. ClaimInv'
    BY <1>2, RunningShrinks, RunningFinite, QueueAssumption DEF QueueInv, ClaimInv, Quiet
  <2>2. StaleInv'
    BY <1>2, StartedForEver DEF QueueInv, StaleInv, TypeOK, Loops
  <2>3. ThreadInv'
    BY <1>2, StartedForEver DEF QueueInv, ThreadInv, Quiet
  <2> QED BY <1>1, <2>1, <2>2, <2>3 DEF QueueInv
<1>3. ASSUME NEW u \in Users, Http(u) PROVE QueueInv'
  BY <1>2, <1>3, HttpQuiet
<1>4. ASSUME NEW w \in Workers, NEW r \in Runs, Supervise(w, r) PROVE QueueInv'
  BY <1>2, <1>4, SuperviseQuiet
<1>5. ASSUME NEW r \in Runs, delete_run(r) \/ HeartbeatAges(r) PROVE QueueInv'
  BY <1>2, <1>5, RowQuiet
<1>6. ASSUME NEW w \in Workers,
             recover_stale(w) \/ FailStale(w) \/ claim_next(w) \/ Crash(w)
      PROVE  QueueInv'
  <2>1. Quiet
    BY <1>6, LoopQuiet
  <2>2. \A v \in Workers \ {w} : worker'[v] = worker[v]
    BY <1>6 DEF recover_stale, FailStale, claim_next, Crash, Restart, QueueInv, TypeOK
  <2>3. ClaimInv'
    <3>1. ASSUME NEW v \in Workers \ {w}, worker'[v].pc = "select"
          PROVE  claimLock' = v /\ Cardinality(Running') < MaxConcurrent
      <4>1. claimLock = v /\ Cardinality(Running) < MaxConcurrent
        BY <2>2, <3>1 DEF QueueInv, ClaimInv
      <4>2. claimLock' = claimLock
        BY <1>6, <4>1, QueueAssumption DEF recover_stale, FailStale, claim_next, Crash, Restart
      <4> QED BY <2>1, <4>1, <4>2, RunningShrinks, RunningFinite, QueueAssumption DEF Quiet
    <3>2. ASSUME worker'[w].pc = "select"
          PROVE  claimLock' = w /\ Cardinality(Running') < MaxConcurrent
      <4>1. CASE claim_next(w)
        <5>1. claimLock' = w /\ Cardinality(Running) < MaxConcurrent /\ Running' = Running
          BY <3>2, <4>1, LoopFields DEF claim_next, QueueInv, TypeOK, rows, Running
        <5> QED BY <5>1
      <4>2. CASE recover_stale(w) \/ FailStale(w) \/ Crash(w)
        BY <3>2, <4>2, LoopFields DEF recover_stale, FailStale, Crash, Restart, QueueInv, TypeOK
      <4> QED BY <1>6, <4>1, <4>2
    <3> QED BY <3>1, <3>2 DEF ClaimInv
  <2>4. StaleInv'
    <3>1. \A r \in worker'[w].stale : r \in Runs /\ Started(r)
      <4>1. CASE recover_stale(w)
        <5>1. worker'[w].stale = silent
          BY <4>1, LoopFields DEF recover_stale, QueueInv, TypeOK
        <5> QED BY <5>1 DEF QueueInv, TypeOK, Running, Started
      <4>2. CASE FailStale(w) \/ claim_next(w) \/ Crash(w)
        <5>1. worker'[w].stale = {}
          BY <4>2, LoopFields DEF FailStale, claim_next, Crash, Restart, QueueInv, TypeOK
        <5> QED BY <5>1
      <4> QED BY <1>6, <4>1, <4>2
    <3>2. \A v \in Workers \ {w} : \A r \in worker'[v].stale : r \in Runs /\ Started(r)
      BY <2>2 DEF QueueInv, StaleInv, TypeOK, Loops
    <3> QED BY <2>1, <3>1, <3>2, StartedForEver DEF StaleInv
  <2>5. ThreadInv'
    BY <2>1, StartedForEver DEF QueueInv, ThreadInv, Quiet
  <2> QED BY <1>1, <2>3, <2>4, <2>5 DEF QueueInv
<1>7. ASSUME NEW w \in Workers, NEW S, ClaimOldest(w, S) PROVE QueueInv'
  <2>1. ClaimInv'
    BY <1>7, ClaimStarts, LoopFields DEF QueueInv, ClaimInv, TypeOK
  <2>2. StaleInv'
    BY <1>7, ClaimStarts, StartedForEver, LoopFields DEF QueueInv, StaleInv, TypeOK, Loops
  <2>3. ThreadInv'
    <3>1. ASSUME NEW v \in Workers, NEW q \in Runs, supervisor'[v][q] # NoSupervisor
          PROVE  Started(q)'
      BY <1>7, <3>1, ClaimStarts, StartedForEver DEF QueueInv, ThreadInv, Started
    <3> QED BY <3>1 DEF ThreadInv
  <2> QED BY <1>1, <2>1, <2>2, <2>3 DEF QueueInv
<1>8. CASE UNCHANGED vars
  BY <1>8, <1>1 DEF vars, rows, QueueInv, ClaimInv, StaleInv, ThreadInv, Started, Running
<1> QED BY <1>3, <1>4, <1>5, <1>6, <1>7, <1>8 DEF Next, MainLoop

\* The inductive invariant of the queue: the claim lock and the cap, the rows no
\* longer in the queue, the supervisors and the requests (all of RunQueue).
THEOREM QueueInvariant == Spec => []QueueInv
BY QueueInvInit, QueueInvStep, PTL DEF Spec
-----------------------------------------------------------------------------
(* What follows from the invariant.                                         *)

\* A step is a claim or a quiet step.
LEMMA StepKinds ==
  ASSUME QueueInv, [Next]_vars
  PROVE  Quiet \/ \E w \in Workers, S \in SUBSET Locked : ClaimOldest(w, S)
<1>1. CASE UNCHANGED vars
  BY <1>1 DEF vars, rows, Quiet, Running, Lifecycle!lvars
<1>2. CASE Next
  BY <1>2, HttpQuiet, SuperviseQuiet, LoopQuiet, RowQuiet DEF Next, MainLoop
<1> QED BY <1>1, <1>2

\* Every step of the queue is a step of the life of one row or of none.
LEMMA LifecycleStep == QueueInv /\ [Next]_vars => [Lifecycle!Next]_(Lifecycle!lvars)
BY StepKinds, ClaimStarts DEF Quiet

LEMMA LifecycleInit == Init => Lifecycle!Init
BY DEF Init, Lifecycle!Init

\* The queue of several workers, people and stale readings implements the life
\* of a run that people are told of (docs/architecture/overview.md).
THEOREM Refinement == Spec => ImplementsLifecycle
BY QueueInvariant, LifecycleInit, LifecycleStep, PTL DEF Spec, ImplementsLifecycle, Lifecycle!Spec

\* The cap on concurrent scans holds over all workers (claim_next).
THEOREM Cap == Spec => []RunningWithinCap
<1>1. Init => RunningWithinCap
  <2>1. Init => Running = {}
    BY DEF Init, Running
  <2> QED BY <2>1, FS_EmptySet, QueueAssumption DEF RunningWithinCap
<1>2. QueueInv /\ RunningWithinCap /\ [Next]_vars => RunningWithinCap'
  <2> SUFFICES ASSUME QueueInv, RunningWithinCap, [Next]_vars PROVE RunningWithinCap'
    OBVIOUS
  <2>1. CASE Quiet
    BY <2>1, RunningShrinks, RunningFinite, QueueAssumption DEF Quiet, RunningWithinCap
  <2>2. ASSUME NEW w \in Workers, NEW S, ClaimOldest(w, S) PROVE RunningWithinCap'
    <3>1. Cardinality(Running) < MaxConcurrent
      BY <2>2 DEF ClaimOldest, QueueInv, ClaimInv
    <3>2. CASE UNCHANGED status
      BY <3>2 DEF RunningWithinCap, Running
    <3>3. CASE ~UNCHANGED status
      <4>1. PICK r \in Runs : status' = [status EXCEPT ![r] = "running"]
        BY <2>2, <3>3 DEF ClaimOldest, Claimable, rows
      <4>2. Running' = Running \cup {r}
        BY <4>1 DEF Running, QueueInv, TypeOK
      <4>3. Cardinality(Running') <= Cardinality(Running) + 1 /\ Cardinality(Running') \in Nat
        <5>1. Cardinality(Running \cup {r}) = IF r \in Running THEN Cardinality(Running)
                                                              ELSE Cardinality(Running) + 1
          BY RunningFinite, FS_AddElement
        <5>2. Cardinality(Running) \in Nat
          BY RunningFinite
        <5> DEFINE c == Cardinality(Running) d == Cardinality(Running \cup {r})
        <5>3. c \in Nat /\ d \in {c, c + 1}
          BY <5>1, <5>2
        <5> HIDE DEF c, d
        <5>4. d <= c + 1 /\ d \in Nat
          BY <5>3
        <5> QED BY <5>4, <4>2 DEF c, d
      <4> QED BY <3>1, <4>3, RunningFinite, QueueAssumption DEF RunningWithinCap
    <3> QED BY <3>2, <3>3
  <2> QED BY <2>1, <2>2, StepKinds
<1> QED BY <1>1, <1>2, QueueInvariant, PTL DEF Spec

\* Two active rows never share a fingerprint, although a request looks for the
\* first before it inserts the second (create_run, the partial unique index).
THEOREM DeDuplication == Spec => []OneActivePerFingerprint
<1>1. Init => OneActivePerFingerprint
  BY DEF Init, OneActivePerFingerprint, ACTIVE_STATUSES
<1>2. QueueInv /\ OneActivePerFingerprint /\ [Next]_vars => OneActivePerFingerprint'
  <2> SUFFICES ASSUME QueueInv, OneActivePerFingerprint, [Lifecycle!Next]_(Lifecycle!lvars)
               PROVE  OneActivePerFingerprint'
    BY LifecycleStep
  <2> USE DEF OneActivePerFingerprint, QueueInv, TypeOK, ACTIVE_STATUSES
  <2>1. ASSUME NEW r \in Runs, NEW f \in Fingerprints, Lifecycle!Queue(r, f)
        PROVE  OneActivePerFingerprint'
    BY <2>1 DEF Lifecycle!Queue, Lifecycle!Active, Lifecycle!ACTIVE_STATUSES
  <2>2. ASSUME NEW r \in Runs, Lifecycle!Start(r) PROVE OneActivePerFingerprint'
    BY <2>2 DEF Lifecycle!Start
  <2>3. ASSUME NEW r \in Runs, Lifecycle!Delete(r) PROVE OneActivePerFingerprint'
    BY <2>3 DEF Lifecycle!Delete
  <2>4. CASE Lifecycle!Decide
    BY <2>4 DEF Lifecycle!Decide, Lifecycle!FINAL_STATUSES
  <2>5. CASE UNCHANGED Lifecycle!lvars
    BY <2>5 DEF Lifecycle!lvars
  <2> QED BY <2>1, <2>2, <2>3, <2>4, <2>5 DEF Lifecycle!Next
<1> QED BY <1>1, <1>2, QueueInvariant, PTL DEF Spec

LEMMA OnceStep == QueueInv /\ SupervisedOnce /\ [Next]_vars => SupervisedOnce'
<1> SUFFICES ASSUME QueueInv, SupervisedOnce, [Next]_vars,
                    NEW r \in Runs, NEW v \in Workers, NEW w \in Workers,
                    supervisor'[v][r] # NoSupervisor
             PROVE  /\ status'[r] # "queued"
                    /\ supervisor'[w][r] # NoSupervisor => v = w
  BY DEF SupervisedOnce
<1>1. status'[r] # "queued"
  BY QueueInvStep DEF QueueInv, ThreadInv, Started
<1>2. CASE Quiet
  BY <1>1, <1>2 DEF Quiet, SupervisedOnce
<1>3. ASSUME NEW x \in Workers, NEW S, ClaimOldest(x, S)
      PROVE  supervisor'[w][r] # NoSupervisor => v = w
  BY <1>3, ClaimStarts DEF SupervisedOnce
<1> QED BY <1>1, <1>2, <1>3, StepKinds

\* A run has one thread and one engine, in one worker, and none while it waits
\* in the queue: a row is claimed at most once (claim_next, run_subprocess).
THEOREM ExecutedOnce == Spec => []SupervisedOnce
<1>1. Init => SupervisedOnce
  BY DEF Init, SupervisedOnce
<1> QED BY <1>1, OnceStep, QueueInvariant, PTL DEF Spec
-----------------------------------------------------------------------------
(* A SIGTERM for cancellation is only sent for a row that asks for it, and  *)
(* the flag of a row that exists is never taken back.                       *)

StopInv == \A w \in Workers, r \in Runs :
             supervisor[w][r].stop = "cancelled" /\ Exists(r) => cancel_requested[r]

CancelInv == CancelledOnRequest /\ StopInv

\* A supervisor that stays as it is, ends, fails or starts sends no SIGTERM.
LEMMA StopValues ==
  /\ NoSupervisor.stop = "no"
  /\ \A s \in Supervisors : /\ Raised(s).stop = s.stop
                            /\ Ended(s).stop = "no"
BY DEF NoSupervisor, Sup, Raised, Ended

\* One supervisor steps and the rows stay, except perhaps this supervisor's.
LEMMA CancelSupervise ==
  ASSUME QueueInv, CancelInv, NEW w \in Workers, NEW r \in Runs, NEW s,
         supervisor' = [supervisor EXCEPT ![w][r] = s],
         UNCHANGED cancel_requested,
         s.stop = "cancelled" => supervisor[w][r].stop = "cancelled" \/ cancel_requested[r],
         \A q \in Runs : \/ status'[q] = status[q]
                         \/ /\ q = r /\ Exists(r) /\ status'[r] \in FINAL_STATUSES
                            /\ status'[r] = "cancelled" => supervisor[w][r].stop = "cancelled"
  PROVE  CancelInv'
<1> USE DEF QueueInv, CancelInv, TypeOK
<1>1. \A q \in Runs : Exists(q)' => Exists(q)
  BY DEF Exists
<1>2. StopInv'
  BY <1>1 DEF StopInv
<1>3. CancelledOnRequest'
  BY DEF CancelledOnRequest, StopInv
<1> QED BY <1>2, <1>3

LEMMA CancelInvStep == QueueInv /\ CancelInv /\ [Next]_vars => CancelInv'
<1> SUFFICES ASSUME QueueInv, CancelInv, [Next]_vars PROVE CancelInv'
  OBVIOUS
<1> USE DEF QueueInv, TypeOK
<1>1. ASSUME UNCHANGED <<rows, supervisor>> PROVE CancelInv'
  BY <1>1 DEF rows, CancelInv, CancelledOnRequest, StopInv, Exists
<1>2. ASSUME NEW u \in Users, Http(u) PROVE CancelInv'
  <2>1. CASE InsertRun(u) /\ ~UNCHANGED rows
    <3>1. PICK r \in Runs : status[r] = "absent" /\ status' = [status EXCEPT ![r] = "queued"]
      BY <2>1 DEF InsertRun
    <3>2. UNCHANGED <<cancel_requested, supervisor>>
      BY <2>1 DEF InsertRun
    <3>3. \A w \in Workers : supervisor[w][r].stop = "no"
      BY <3>1, StopValues DEF ThreadInv, Started
    <3> QED BY <3>1, <3>2, <3>3 DEF CancelInv, CancelledOnRequest, StopInv, Exists
  <2>2. CASE request_cancel(u)
    <3> DEFINE r == request[u].run
    <3>1. r \in Runs
      BY <2>2, RequestFields DEF request_cancel
    <3>2. CASE Exists(r)
      <4>1. /\ cancel_requested' = [cancel_requested EXCEPT ![r] = TRUE]
            /\ status' = status \/ status' = [status EXCEPT ![r] = "cancelled"]
            /\ supervisor' = supervisor
        BY <2>2, <3>2 DEF request_cancel
      <4> QED BY <3>1, <3>2, <4>1 DEF CancelInv, CancelledOnRequest, StopInv, Exists
    <3>3. CASE ~Exists(r)
      BY <1>1, <2>2, <3>3 DEF request_cancel, rows
    <3> QED BY <3>2, <3>3
  <2>3. CASE UNCHANGED <<rows, supervisor>>
    BY <1>1, <2>3
  <2> QED BY <1>2, <2>1, <2>2, <2>3
          DEF Http, create_run, InsertRun, RereadRun, add_requester, cancel_run
<1>3. ASSUME NEW w \in Workers, NEW r \in Runs, Supervise(w, r) PROVE CancelInv'
  <2> DEFINE s == supervisor[w][r]
  <2>1. s \in Supervisors
    OBVIOUS
  <2> HIDE DEF QueueInv, TypeOK
  <2>0. ASSUME NEW x, supervisor' = [supervisor EXCEPT ![w][r] = x],
               UNCHANGED <<status, cancel_requested>>,
               x.stop = "cancelled" => s.stop = "cancelled" \/ cancel_requested[r]
        PROVE  CancelInv'
    BY <2>0, CancelSupervise
  <2>2. CASE Spawn(w, r)
    <3>1. /\ supervisor' = [supervisor EXCEPT ![w][r] = Raised(s)]
             \/ supervisor' = [supervisor EXCEPT ![w][r] = Sup("watch", "alive", "no")]
          /\ UNCHANGED <<status, cancel_requested>>
      BY <2>2 DEF Spawn, RowGone, rows
    <3> QED BY <2>0, <2>1, <3>1, StopValues, SupFields
  <2>3. CASE Heartbeat(w, r)
    <3>1. /\ \/ supervisor' = [supervisor EXCEPT ![w][r] = Raised(s)]
             \/ /\ supervisor' = [supervisor EXCEPT ![w][r] = Sup("watch", "alive", "cancelled")]
                /\ cancel_requested[r]
             \/ supervisor' = supervisor
          /\ UNCHANGED <<status, cancel_requested>>
      BY <2>3 DEF Heartbeat, RowGone, rows
    <3>2. supervisor = [supervisor EXCEPT ![w][r] = s]
      BY DEF QueueInv, TypeOK
    <3>3. Sup("watch", "alive", "cancelled").stop = "cancelled"
      BY SupFields
    <3> QED BY <3>2, <3>3, <2>0, <2>1, <3>1, StopValues, SupFields
  <2>4. CASE OverTime(w, r)
    <3>1. /\ supervisor' = [supervisor EXCEPT ![w][r] = Sup("watch", "alive", "timed_out")]
          /\ UNCHANGED <<status, cancel_requested>>
      BY <2>4 DEF OverTime
    <3>2. Sup("watch", "alive", "timed_out").stop = "timed_out"
      BY SupFields
    <3> QED BY <2>0, <3>1, <3>2
  <2>5. CASE \E o \in {"outcome", "empty"} : EngineExit(w, r, o)
    <3>1. PICK o \in {"outcome", "empty"} :
            /\ supervisor' = [supervisor EXCEPT ![w][r] = Sup(s.pc, o, s.stop)]
            /\ UNCHANGED <<status, cancel_requested>>
      BY <2>5 DEF EngineExit, rows
    <3>2. Sup(s.pc, o, s.stop).stop = s.stop
      BY SupFields
    <3> QED BY <2>0, <3>1, <3>2
  <2>6. CASE Persist(w, r) /\ Exists(r)
    <3>1. PICK v \in final_status(s) : status' = [status EXCEPT ![r] = v]
      BY <2>6 DEF Persist, RowGone
    <3>2. v \in FINAL_STATUSES /\ (v = "cancelled" => s.stop = "cancelled")
      BY <2>1, <2>6, FinalVerdicts DEF Persist
    <3>3. /\ supervisor' = [supervisor EXCEPT ![w][r] = Sup("notify", s.engine, s.stop)]
          /\ UNCHANGED cancel_requested
      BY <2>6 DEF Persist, RowGone
    <3> DEFINE x == Sup("notify", s.engine, s.stop)
    <3>4. x.stop = s.stop
      BY SupFields
    <3>5. \A q \in Runs : status'[q] = status[q] \/ (q = r /\ status'[r] = v)
      BY <3>1 DEF QueueInv, TypeOK
    <3> QED BY <2>6, <3>2, <3>3, <3>4, <3>5, CancelSupervise
  <2>7. CASE Persist(w, r) /\ ~Exists(r)
    <3>1. /\ supervisor' = [supervisor EXCEPT ![w][r] = Raised(s)]
          /\ UNCHANGED <<status, cancel_requested>>
      BY <2>7 DEF Persist, RowGone, rows
    <3> QED BY <2>0, <2>1, <3>1, StopValues
  <2>8. CASE notify_run_finished(w, r)
    <3>1. /\ supervisor' = [supervisor EXCEPT ![w][r] = Ended(s)]
          /\ UNCHANGED <<status, cancel_requested>>
      BY <2>8 DEF notify_run_finished, rows
    <3> QED BY <2>0, <2>1, <3>1, StopValues
  <2>9. CASE _guarded(w, r)
    <3>1. /\ supervisor' = [supervisor EXCEPT ![w][r] = Ended(s)]
          /\ UNCHANGED cancel_requested
          /\ \/ status' = status
             \/ status[r] = "running" /\ status' = [status EXCEPT ![r] = "failed"]
      BY <2>9 DEF _guarded
    <3>2. Ended(s).stop = "no"
      BY <2>1, StopValues
    <3>3. CASE status' = status
      BY <2>0, <3>1, <3>2, <3>3
    <3>4. CASE status[r] = "running" /\ status' = [status EXCEPT ![r] = "failed"]
      <4>1. Exists(r) /\ "failed" \in FINAL_STATUSES
        BY <3>4 DEF Exists, ACTIVE_STATUSES, FINAL_STATUSES
      <4>2. \A q \in Runs : status'[q] = status[q] \/ (q = r /\ status'[r] = "failed")
        BY <3>4 DEF QueueInv, TypeOK
      <4> QED BY <3>1, <3>2, <4>1, <4>2, CancelSupervise
    <3> QED BY <3>1, <3>3, <3>4
  <2>10. CASE OrphanExit(w, r)
    BY <2>0, <2>10, StopValues DEF OrphanExit, rows
  <2>11. CASE SupervisorFails(w, r)
    <3>1. /\ \/ supervisor' = [supervisor EXCEPT ![w][r] = Ended(s)]
             \/ supervisor' = [supervisor EXCEPT ![w][r] = Raised(s)]
          /\ UNCHANGED <<status, cancel_requested>>
      BY <2>11 DEF SupervisorFails, rows
    <3> QED BY <2>0, <2>1, <3>1, StopValues
  <2> QED BY <1>3, <2>2, <2>3, <2>4, <2>5, <2>6, <2>7, <2>8, <2>9, <2>10, <2>11
          DEF Supervise, Kill
<1>4. ASSUME NEW r \in Runs, delete_run(r) \/ HeartbeatAges(r) PROVE CancelInv'
  BY <1>4 DEF delete_run, HeartbeatAges, CancelInv, CancelledOnRequest, StopInv, Exists,
              ACTIVE_STATUSES, FINAL_STATUSES
<1>5. ASSUME NEW w \in Workers, recover_stale(w) \/ claim_next(w) PROVE CancelInv'
  BY <1>1, <1>5 DEF recover_stale, claim_next
<1>6. ASSUME NEW w \in Workers, Restart(w), UNCHANGED <<status, cancel_requested>>
      PROVE  CancelInv'
  BY <1>6, StopValues DEF Restart, CancelInv, CancelledOnRequest, StopInv, Exists
<1>7. ASSUME NEW w \in Workers, FailStale(w) PROVE CancelInv'
  <2>1. CASE ~\A r \in worker[w].stale : Exists(r)
    BY <1>6, <1>7, <2>1 DEF FailStale
  <2>2. CASE \A r \in worker[w].stale : Exists(r)
    <3>1. /\ UNCHANGED <<supervisor, cancel_requested>>
          /\ status' = [r \in Runs |->
                CASE r \in worker[w].stale -> "failed"
                  [] status[r] = "queued" /\ cancel_requested[r] -> "cancelled"
                  [] OTHER -> status[r]]
      BY <1>7, <2>2 DEF FailStale
    <3>2. \A r \in Runs : \/ status'[r] = status[r]
                          \/ Exists(r) /\ status'[r] = "failed"
                          \/ Exists(r) /\ status'[r] = "cancelled" /\ cancel_requested[r]
      BY <2>2, <3>1 DEF Exists, ACTIVE_STATUSES
    <3>3. \A r \in Runs : Exists(r)' => Exists(r)
      BY <3>2 DEF Exists
    <3>4. CancelledOnRequest'
      BY <3>1, <3>2 DEF CancelInv, CancelledOnRequest
    <3>5. StopInv'
      BY <3>1, <3>3 DEF CancelInv, StopInv
    <3> QED BY <3>4, <3>5 DEF CancelInv
  <2> QED BY <2>1, <2>2
<1>8. ASSUME NEW w \in Workers, Crash(w) PROVE CancelInv'
  BY <1>6, <1>8 DEF Crash, rows
<1>9. ASSUME NEW w \in Workers, NEW S, ClaimOldest(w, S) PROVE CancelInv'
  <2>1. CASE UNCHANGED <<rows, supervisor>>
    BY <1>1, <2>1
  <2>2. ASSUME NEW r \in Claimable(S),
               status' = [status EXCEPT ![r] = "running"],
               supervisor' = [supervisor EXCEPT ![w][r] = Sup("spawn", "none", "no")],
               UNCHANGED cancel_requested
        PROVE  CancelInv'
    <3>1. r \in Runs /\ Exists(r)
      BY <2>2 DEF Claimable, Exists, ACTIVE_STATUSES
    <3>2. \A q \in Runs : Exists(q)' => Exists(q)
      BY <2>2, <3>1 DEF Exists
    <3> QED BY <2>2, <3>1, <3>2, SupFields DEF CancelInv, CancelledOnRequest, StopInv
  <2> QED BY <1>9, <2>1, <2>2 DEF ClaimOldest
<1>10. CASE UNCHANGED vars
  BY <1>1, <1>10 DEF vars
<1> QED BY <1>2, <1>3, <1>4, <1>5, <1>7, <1>8, <1>9, <1>10 DEF Next, MainLoop

\* A run ends cancelled only when its cancellation was asked for, whatever a
\* timeout, a stale heartbeat or a crash does to it (final_status).
THEOREM CancelledOnlyOnRequest == Spec => []CancelledOnRequest
<1>1. Init => CancelInv
  BY StopValues DEF Init, CancelInv, CancelledOnRequest, StopInv
<1>2. CancelInv => CancelledOnRequest
  BY DEF CancelInv
<1> QED BY <1>1, <1>2, CancelInvStep, QueueInvariant, PTL DEF Spec
-----------------------------------------------------------------------------
(* The engine of a worker that beats in time keeps its row: the row is not  *)
(* silent, so that nobody reads it as stale, and nobody holds an old reading *)
(* of it, as it was waiting when they read.                                  *)

AtWork(w, r) ==
  /\ w \in TimelyWorkers
  /\ \/ supervisor[w][r].pc = "spawn"
     \/ supervisor[w][r].pc = "watch" /\ supervisor[w][r].engine = "alive"

OwnInv == \A w \in Workers, r \in Runs : AtWork(w, r) =>
  /\ status[r] \in {"running", "cancelled", "deleted"}
  /\ r \notin silent
  /\ \A v \in Workers : r \notin worker[v].stale

\* Where a supervisor works on after its step, it did before, on a row it left.
LEMMA SuperviseOwn ==
  ASSUME QueueInv, SupervisedOnce, NEW w \in Workers, NEW r \in Runs, Supervise(w, r)
  PROVE  /\ silent' \subseteq silent
         /\ \A v \in Workers, q \in Runs : AtWork(v, q)' => AtWork(v, q) /\ status'[q] = status[q]
<1> USE DEF QueueInv
<1> DEFINE s == supervisor[w][r]
<1>1. silent' \subseteq silent
  BY DEF Supervise, Spawn, Heartbeat, OverTime, Kill, EngineExit, Persist, RowGone, rows,
         notify_run_finished, _guarded, OrphanExit, SupervisorFails
<1>2. s # NoSupervisor
  <2>1. s.pc # "idle" \/ s.engine = "alive"
    BY DEF Supervise, Spawn, Heartbeat, OverTime, Kill, EngineExit, Persist,
           notify_run_finished, _guarded, OrphanExit, SupervisorFails
  <2> QED BY <2>1, SupFields DEF NoSupervisor
<1>3. \A v \in Workers, q \in Runs : <<v, q>> # <<w, r>> => supervisor'[v][q] = supervisor[v][q]
  BY DEF Supervise, Spawn, Heartbeat, OverTime, Kill, EngineExit, Persist, RowGone, TypeOK,
         notify_run_finished, _guarded, OrphanExit, SupervisorFails
<1>4. \A q \in Runs : q # r => status'[q] = status[q]
  BY DEF Supervise, Spawn, Heartbeat, OverTime, Kill, EngineExit, Persist, RowGone, rows, TypeOK,
         notify_run_finished, _guarded, OrphanExit, SupervisorFails
<1>5. AtWork(w, r)' => AtWork(w, r) /\ status'[r] = status[r]
  <2> USE SupFields DEF AtWork
  <2>1. CASE Spawn(w, r) \/ Heartbeat(w, r) \/ OverTime(w, r)
    BY <2>1 DEF Spawn, Heartbeat, OverTime, RowGone, rows, TypeOK, Raised
  <2>2. CASE Kill(w, r) \/ \E outcome \in {"outcome", "empty"} : EngineExit(w, r, outcome)
    BY <2>2 DEF Kill, EngineExit, TypeOK, rows
  <2>3. CASE Persist(w, r)
    BY <2>3 DEF Persist, RowGone, TypeOK, Raised
  <2>4. CASE notify_run_finished(w, r) \/ _guarded(w, r)
    BY <2>4 DEF notify_run_finished, _guarded, Ended, NoSupervisor, TypeOK
  <2>5. CASE OrphanExit(w, r) \/ SupervisorFails(w, r)
    BY <2>5 DEF OrphanExit, SupervisorFails, Raised, Ended, NoSupervisor, TypeOK
  <2> QED BY <2>1, <2>2, <2>3, <2>4, <2>5 DEF Supervise
<1>6. ASSUME NEW v \in Workers, NEW q \in Runs, AtWork(v, q)', <<v, q>> # <<w, r>>
      PROVE  AtWork(v, q) /\ status'[q] = status[q]
  <2>1. AtWork(v, q)
    BY <1>3, <1>6 DEF AtWork
  <2>2. supervisor[v][q] # NoSupervisor
    BY <2>1, SupFields DEF AtWork, NoSupervisor
  <2>3. q # r
    BY <1>2, <1>6, <2>2 DEF SupervisedOnce
  <2> QED BY <1>4, <2>1, <2>3
<1> QED BY <1>1, <1>5, <1>6

LEMMA OwnStep == QueueInv /\ SupervisedOnce /\ OwnInv /\ [Next]_vars => OwnInv'
<1> SUFFICES ASSUME QueueInv, SupervisedOnce, OwnInv, [Next]_vars PROVE OwnInv'
  OBVIOUS
<1> USE DEF QueueInv
<1>1. ASSUME UNCHANGED <<worker, supervisor>>, silent' \subseteq silent,
             \A r \in Runs : status[r] \in {"running", "cancelled", "deleted"} =>
                               status'[r] \in {status[r], "cancelled", "deleted"}
      PROVE  OwnInv'
  BY <1>1 DEF OwnInv, AtWork
<1>2. ASSUME NEW u \in Users, Http(u) PROVE OwnInv'
  <2>1. UNCHANGED <<worker, supervisor>> /\ silent' \subseteq silent
    BY <1>2 DEF Http, create_run, InsertRun, RereadRun, add_requester, cancel_run, request_cancel, rows
  <2>2. \A r \in Runs : status'[r] \in {status[r], "cancelled"} \/ status[r] = "absent"
    BY <1>2 DEF Http, create_run, InsertRun, RereadRun, add_requester, cancel_run, request_cancel,
                rows, TypeOK
  <2> QED BY <1>1, <2>1, <2>2
<1>3. ASSUME NEW w \in Workers, NEW r \in Runs, Supervise(w, r) PROVE OwnInv'
  <2>1. worker' = worker
    BY <1>3, SuperviseQuiet
  <2> QED BY <1>3, <2>1, SuperviseOwn DEF OwnInv
<1>4. ASSUME NEW r \in Runs, delete_run(r) PROVE OwnInv'
  <2>1. UNCHANGED <<worker, supervisor, silent>>
    BY <1>4 DEF delete_run
  <2>2. \A q \in Runs : status'[q] \in {status[q], "deleted"}
    BY <1>4 DEF delete_run, TypeOK
  <2> QED BY <1>1, <2>1, <2>2
<1>5. ASSUME NEW r \in Runs, HeartbeatAges(r) PROVE OwnInv'
  <2>1. \A w \in Workers : ~AtWork(w, r)
    BY <1>5 DEF HeartbeatAges, AtWork, Threads
  <2> QED BY <1>5, <2>1 DEF HeartbeatAges, OwnInv, AtWork
<1>6. ASSUME NEW w \in Workers, Restart(w), UNCHANGED <<status, silent>> PROVE OwnInv'
  <2>1. \A v \in Workers, q \in Runs : AtWork(v, q)' => AtWork(v, q)
    BY <1>6, SupFields DEF Restart, AtWork, NoSupervisor, TypeOK
  <2>2. \A v \in Workers : worker'[v].stale \subseteq worker[v].stale
    BY <1>6, LoopFields DEF Restart, TypeOK
  <2> QED BY <1>6, <2>1, <2>2 DEF OwnInv
<1>7. ASSUME NEW w \in Workers, recover_stale(w) PROVE OwnInv'
  <2>1. \A v \in Workers : worker'[v].stale \subseteq worker[v].stale \cup silent
    BY <1>7, LoopFields DEF recover_stale, TypeOK
  <2> QED BY <1>7, <2>1 DEF recover_stale, rows, OwnInv, AtWork
<1>8. ASSUME NEW w \in Workers, FailStale(w) PROVE OwnInv'
  <2>1. CASE ~\A r \in worker[w].stale : Exists(r)
    BY <1>6, <1>8, <2>1 DEF FailStale
  <2>2. CASE \A r \in worker[w].stale : Exists(r)
    <3>1. /\ supervisor' = supervisor /\ silent' \subseteq silent
          /\ status' = [r \in Runs |->
                CASE r \in worker[w].stale -> "failed"
                  [] status[r] = "queued" /\ cancel_requested[r] -> "cancelled"
                  [] OTHER -> status[r]]
      BY <1>8, <2>2 DEF FailStale
    <3>2. \A r \in Runs : r \notin worker[w].stale => status'[r] \in {status[r], "cancelled"}
      BY <3>1
    <3>3. \A v \in Workers : worker'[v].stale \subseteq worker[v].stale
      BY <1>8, <2>2, LoopFields DEF FailStale, TypeOK
    <3> QED BY <3>1, <3>2, <3>3 DEF OwnInv, AtWork
  <2> QED BY <2>1, <2>2
<1>9. ASSUME NEW w \in Workers, claim_next(w) PROVE OwnInv'
  <2>1. \A v \in Workers : worker'[v].stale \subseteq worker[v].stale
    BY <1>9, LoopFields DEF claim_next, TypeOK
  <2> QED BY <1>9, <2>1 DEF claim_next, rows, OwnInv, AtWork
<1>10. ASSUME NEW w \in Workers, Crash(w) PROVE OwnInv'
  BY <1>6, <1>10 DEF Crash, rows
<1>11. ASSUME NEW w \in Workers, NEW S, ClaimOldest(w, S) PROVE OwnInv'
  <2>1. \A v \in Workers : worker'[v].stale \subseteq worker[v].stale
    BY <1>11, LoopFields DEF ClaimOldest, TypeOK
  <2>2. CASE UNCHANGED <<rows, supervisor>>
    BY <2>1, <2>2 DEF rows, OwnInv, AtWork
  <2>3. ASSUME NEW r \in Claimable(S),
               status' = [status EXCEPT ![r] = "running"],
               supervisor' = [supervisor EXCEPT ![w][r] = Sup("spawn", "none", "no")],
               UNCHANGED silent
        PROVE  OwnInv'
    <3>1. r \in Runs /\ status[r] = "queued"
      BY DEF Claimable
    <3>2. r \notin silent
      BY <3>1 DEF TypeOK, Running
    <3>3. \A v \in Workers : r \notin worker[v].stale
      BY <3>1 DEF StaleInv, Started
    <3>4. status'[r] = "running" /\ \A q \in Runs : q # r => status'[q] = status[q]
      BY <2>3, <3>1 DEF TypeOK
    <3>5. \A v \in Workers, q \in Runs : AtWork(v, q)' /\ q # r => AtWork(v, q)
      BY <2>3 DEF AtWork, TypeOK
    <3>6. ASSUME NEW v \in Workers, NEW q \in Runs, AtWork(v, q)'
          PROVE  /\ status'[q] \in {"running", "cancelled", "deleted"}
                 /\ q \notin silent'
                 /\ \A z \in Workers : q \notin worker'[z].stale
      <4>1. CASE q = r
        BY <2>1, <2>3, <3>2, <3>3, <3>4, <4>1
      <4>2. CASE q # r
        BY <2>1, <2>3, <3>4, <3>5, <3>6, <4>2 DEF OwnInv
      <4> QED BY <4>1, <4>2
    <3> QED BY <3>6 DEF OwnInv
  <2> QED BY <1>11, <2>2, <2>3 DEF ClaimOldest
<1>12. CASE UNCHANGED vars
  BY <1>1, <1>12 DEF vars, rows
<1> QED BY <1>2, <1>3, <1>4, <1>5, <1>7, <1>8, <1>9, <1>10, <1>11, <1>12 DEF Next, MainLoop

\* While a worker that beats in time has an engine at work, nobody else ends
\* its run, but for a cancellation (recover_stale, request_cancel, _guarded).
THEOREM EngineKeepsItsRow == Spec => []EngineHasItsRow
<1>1. Init => OwnInv
  BY SupFields DEF Init, OwnInv, AtWork, NoSupervisor
<1>2. OwnInv => EngineHasItsRow
  BY QueueAssumption DEF OwnInv, AtWork, EngineHasItsRow
<1> QED BY <1>1, <1>2, OwnStep, ExecutedOnce, QueueInvariant, PTL DEF Spec
-----------------------------------------------------------------------------
(* The notices and the mail. *)

Outcomes == {"sent", "skipped", "failed"}
Notice   == [run : Runs, user : Users, event : Events,
             status : {"pending", "gone"} \cup Outcomes]
Verdicts == UNION {[D -> Outcomes] : D \in SUBSET Nat}
Mailers  == [pc : {"idle", "due", "send"}, batch : SUBSET Nat,
             connected : BOOLEAN, verdict : Verdicts]

NoticesTypeOK ==
  /\ initiated_by \in [Runs -> Users \cup {NoUser}]
  /\ requesters \in [Runs -> SUBSET Users]
  /\ notices \in Seq(Notice)
  /\ mailer \in [Workers -> Mailers]
  /\ mailed \in Seq(Nat) /\ Len(mailed) = Len(notices)
  /\ deaths \in Nat

\* A worker only mails between two looks at the queue.
BetweenLooks == \A w \in Workers : mailer[w].pc # "idle" => worker[w].pc = "claim"

\* It has a batch while it sends, and a verdict only of what is in its batch.
BatchInv == \A w \in Workers :
  /\ mailer[w].batch \subseteq DOMAIN notices
  /\ DOMAIN mailer[w].verdict \subseteq mailer[w].batch
  /\ mailer[w].pc # "send" => mailer[w].batch = {}

MailInv == NoticesTypeOK /\ BetweenLooks /\ BatchInv

LEMMA QuiescentFacts ==
  \A p \in {"idle", "due"} : /\ Quiescent(p) \in Mailers
                             /\ Quiescent(p).pc = p
                             /\ Quiescent(p).batch = {}
                             /\ DOMAIN Quiescent(p).verdict = {}
<1>1. << >> \in [{} -> Outcomes] /\ DOMAIN << >> = {}
  OBVIOUS
<1>2. << >> \in Verdicts
  BY <1>1 DEF Verdicts
<1> QED BY <1>1, <1>2 DEF Quiescent, Mailers

LEMMA MailerFields ==
  ASSUME NEW m \in Mailers
  PROVE  /\ m.pc \in {"idle", "due", "send"}
         /\ m.batch \in SUBSET Nat
         /\ m.verdict \in [DOMAIN m.verdict -> Outcomes]
         /\ DOMAIN m.verdict \in SUBSET Nat
<1>1. m.verdict \in Verdicts
  BY DEF Mailers
<1>2. PICK D \in SUBSET Nat : m.verdict \in [D -> Outcomes]
  BY <1>1 DEF Verdicts
<1> QED BY <1>2 DEF Mailers

\* A function on an initial segment is a sequence.
LEMMA FunctionIsSeq ==
  ASSUME NEW T, NEW n \in Nat, NEW t \in [1..n -> T]
  PROVE  t \in Seq(T) /\ Len(t) = n /\ DOMAIN t = 1..n
<1>1. t \in Seq(T)
  BY SeqDef
<1>2. DOMAIN t = 1..n /\ DOMAIN t = 1..Len(t) /\ Len(t) \in Nat
  BY <1>1, LenProperties
<1> QED BY <1>1, <1>2
-----------------------------------------------------------------------------
(* The notices of one announcement: finitely many, each once.               *)

NewNotice(r, u, e) == [run |-> r, user |-> u, event |-> e, status |-> "pending"]

LEMMA NewIsFinite ==
  ASSUME NEW r \in Runs, NEW events \in SUBSET Events, requesters \in [Runs -> SUBSET Users],
         NEW New, \A x \in New : \E e \in events : \E u \in _recipients(r, e) : x = NewNotice(r, u, e)
  PROVE  IsFiniteSet(New)
<1> DEFINE D == requesters[r] \X events
           F == [p \in D |-> NewNotice(r, p[1], p[2])]
           T == {F[p] : p \in D}
<1>1. IsFiniteSet(Events)
  <2>1. IsFiniteSet({"scan_completed"} \cup {"scan_failed"} \cup {"scan_cancelled"})
    <3>1. IsFiniteSet({"scan_completed"})
      BY FS_Singleton
    <3>2. IsFiniteSet({"scan_completed"} \cup {"scan_failed"})
      BY <3>1, FS_AddElement
    <3> QED BY <3>2, FS_AddElement
  <2>2. {"scan_completed", "scan_failed", "scan_cancelled"}
          = {"scan_completed"} \cup {"scan_failed"} \cup {"scan_cancelled"}
    OBVIOUS
  <2> QED BY <2>1, <2>2, NoticesAssumption, FS_Union DEF Events
<1>2. IsFiniteSet(D)
  BY <1>1, NoticesAssumption, FS_Subset, FS_Product
<1>3. F \in Surjection(D, T)
  BY DEF Surjection
<1>4. IsFiniteSet(T)
  BY <1>2, <1>3, FS_Surjection
<1>5. New \subseteq T
  <2> SUFFICES ASSUME NEW x \in New PROVE x \in T
    OBVIOUS
  <2>1. PICK e \in events : \E u \in _recipients(r, e) : x = NewNotice(r, u, e)
    OBVIOUS
  <2>2. PICK u \in _recipients(r, e) : x = NewNotice(r, u, e)
    BY <2>1
  <2>3. <<u, e>> \in D /\ F[<<u, e>>] = x
    BY <2>2 DEF _recipients
  <2> QED BY <2>3
<1> QED BY <1>4, <1>5, FS_Subset

LEMMA NoticesOfFacts ==
  ASSUME NEW r \in Runs, NEW events \in SUBSET Events, requesters \in [Runs -> SUBSET Users]
  PROVE  /\ NoticesOf(r, events) \in Seq(Notice)
         /\ \A i \in DOMAIN NoticesOf(r, events) :
              \E e \in events : \E u \in _recipients(r, e) : NoticesOf(r, events)[i] = NewNotice(r, u, e)
         /\ \A i, j \in DOMAIN NoticesOf(r, events) :
              NoticesOf(r, events)[i] = NoticesOf(r, events)[j] => i = j
         /\ \A e \in events : \A u \in _recipients(r, e) :
              \E i \in DOMAIN NoticesOf(r, events) : NoticesOf(r, events)[i] = NewNotice(r, u, e)
<1> DEFINE New == UNION {[run : {r}, user : _recipients(r, e), event : {e}, status : {"pending"}]
                            : e \in events}
           n == Cardinality(New)
           Good(f) == \A i, j \in DOMAIN f : f[i] = f[j] => i = j
           Order == CHOOSE f \in [1..n -> New] : Good(f)
<1>1. NoticesOf(r, events) = Order
  BY DEF NoticesOf
<1>2. \A x : x \in New <=> \E e \in events : \E u \in _recipients(r, e) : x = NewNotice(r, u, e)
  BY DEF NewNotice
<1> HIDE DEF New
<1>3. IsFiniteSet(New)
  BY <1>2, NewIsFinite
<1>4. n \in Nat /\ ExistsBijection(1..n, New)
  BY <1>3, FS_CardinalityType
<1>5. \E f \in [1..n -> New] : Good(f)
  BY <1>4 DEF ExistsBijection, Bijection, Injection, IsInjective
<1>6. Order \in [1..n -> New] /\ Good(Order)
  BY <1>5
<1> HIDE DEF Order
<1>7. IsFiniteSet(1..n) /\ Cardinality(1..n) = n
  BY <1>4, FS_Interval
<1>8. Order \in Injection(1..n, New)
  BY <1>6 DEF Injection, IsInjective
<1>9. Order \in Surjection(1..n, New)
  BY <1>3, <1>7, <1>8, FS_Injection
<1>10. New \subseteq Notice
  <2> SUFFICES ASSUME NEW x \in New PROVE x \in Notice
    OBVIOUS
  <2>1. PICK e \in events : \E u \in _recipients(r, e) : x = NewNotice(r, u, e)
    BY <1>2
  <2>2. PICK u \in _recipients(r, e) : x = NewNotice(r, u, e)
    BY <2>1
  <2> QED BY <2>2 DEF Notice, NewNotice, _recipients
<1>11. Order \in [1..n -> Notice] /\ DOMAIN Order = 1..n
  BY <1>6, <1>10
<1>12. Order \in Seq(Notice)
  BY <1>4, <1>11, FunctionIsSeq
<1>13. \A x \in New : \E i \in 1..n : Order[i] = x
  BY <1>9 DEF Surjection
<1> QED BY <1>1, <1>2, <1>6, <1>11, <1>12, <1>13
-----------------------------------------------------------------------------
(* What the steps do to the mail.                                            *)

\* Rows for some recipients of events of r, one each, behind the others.
Appended(r, events) ==
  /\ notices' \in Seq(Notice) /\ mailed' \in Seq(Nat)
  /\ Len(mailed') = Len(notices') /\ Len(notices) <= Len(notices')
  /\ \A k \in DOMAIN notices : notices'[k] = notices[k] /\ mailed'[k] = mailed[k]
  /\ \A k \in DOMAIN notices' \ DOMAIN notices :
       /\ mailed'[k] = 0
       /\ \E e \in events : \E u \in _recipients(r, e) : notices'[k] = NewNotice(r, u, e)
  /\ \A j, k \in DOMAIN notices' \ DOMAIN notices : notices'[j] = notices'[k] => j = k
  /\ \A e \in events : \A u \in _recipients(r, e) :
       \E k \in DOMAIN notices' : notices'[k] = NewNotice(r, u, e)

LEMMA AddNoticesAppends ==
  ASSUME NoticesTypeOK, NEW r \in Runs, NEW events \in SUBSET Events, AddNotices(r, events)
  PROVE  Appended(r, events)
<1> USE DEF NoticesTypeOK
<1> DEFINE New == NoticesOf(r, events)
           Zeros == [k \in DOMAIN New |-> 0]
<1>1. notices' = notices \o New /\ mailed' = mailed \o Zeros
  BY DEF AddNotices
<1>2. /\ New \in Seq(Notice)
      /\ \A i \in DOMAIN New :
           \E e \in events : \E u \in _recipients(r, e) : New[i] = NewNotice(r, u, e)
      /\ \A i, j \in DOMAIN New : New[i] = New[j] => i = j
      /\ \A e \in events : \A u \in _recipients(r, e) :
           \E i \in DOMAIN New : New[i] = NewNotice(r, u, e)
  BY NoticesOfFacts
<1> HIDE DEF New
<1> DEFINE n == Len(notices) m == Len(New)
<1>3. /\ n \in Nat /\ DOMAIN notices = 1..n /\ DOMAIN mailed = 1..n
      /\ m \in Nat /\ DOMAIN New = 1..m
  BY <1>2, LenProperties
<1>4. Zeros \in Seq(Nat) /\ Len(Zeros) = m /\ \A k \in 1..m : Zeros[k] = 0
  <2>1. Zeros \in [1..m -> Nat] /\ \A k \in 1..m : Zeros[k] = 0
    BY <1>3
  <2> HIDE DEF Zeros
  <2> QED BY <1>3, <2>1, FunctionIsSeq
<1> HIDE DEF Zeros
<1>5. /\ notices' \in Seq(Notice) /\ Len(notices') = n + m
      /\ \A k \in 1..n : notices'[k] = notices[k]
      /\ \A k \in (n+1)..(n+m) : notices'[k] = New[k - n]
  BY <1>1, <1>2, <1>3, ConcatProperties
<1>6. /\ mailed' \in Seq(Nat) /\ Len(mailed') = n + m
      /\ \A k \in 1..n : mailed'[k] = mailed[k]
      /\ \A k \in (n+1)..(n+m) : mailed'[k] = 0
  <2> DEFINE l == Len(mailed)
  <2>1. mailed \in Seq(Nat) /\ l = n /\ Len(mailed) = l
    OBVIOUS
  <2>2. /\ mailed \o Zeros \in Seq(Nat) /\ Len(mailed \o Zeros) = l + m
        /\ \A k \in 1..(l + m) : (mailed \o Zeros)[k] = IF k <= l THEN mailed[k] ELSE Zeros[k - l]
    <3> HIDE DEF l, n, m, NoticesTypeOK
    <3>1. /\ mailed \o Zeros \in Seq(Nat)
          /\ Len(mailed \o Zeros) = Len(mailed) + Len(Zeros)
          /\ \A k \in 1..(Len(mailed) + Len(Zeros)) :
               (mailed \o Zeros)[k] = IF k <= Len(mailed) THEN mailed[k] ELSE Zeros[k - Len(mailed)]
      BY <1>4, <2>1, ConcatProperties
    <3> QED BY <1>4, <2>1, <3>1
  <2> HIDE DEF l, n, m
  <2>3. \A k \in (n+1)..(n+m) : k - n \in 1..m /\ ~(k <= n) /\ k \in 1..(n + m)
    BY <1>3
  <2>4. \A k \in 1..n : k <= n /\ k \in 1..(n + m)
    BY <1>3
  <2> QED BY <1>1, <1>4, <2>1, <2>2, <2>3, <2>4
<1> HIDE DEF n, m
<1>7. DOMAIN notices' = 1..(n+m)
  BY <1>5, LenProperties
<1>8. DOMAIN notices' \ DOMAIN notices = (n+1)..(n+m)
  BY <1>3, <1>7
<1>9. \A k \in (n+1)..(n+m) : k - n \in 1..m
  BY <1>3
<1>10. \A k \in DOMAIN notices' \ DOMAIN notices :
         /\ mailed'[k] = 0
         /\ \E e \in events : \E u \in _recipients(r, e) : notices'[k] = NewNotice(r, u, e)
  <2> SUFFICES ASSUME NEW k \in (n+1)..(n+m)
               PROVE  /\ mailed'[k] = 0
                      /\ \E e \in events : \E u \in _recipients(r, e) : notices'[k] = NewNotice(r, u, e)
    BY <1>8
  <2>1. k - n \in DOMAIN New /\ notices'[k] = New[k - n]
    BY <1>3, <1>5, <1>9
  <2>2. \E e \in events : \E u \in _recipients(r, e) : New[k - n] = NewNotice(r, u, e)
    BY <1>2, <2>1
  <2> QED BY <1>6, <2>1, <2>2
<1>11. \A j, k \in DOMAIN notices' \ DOMAIN notices : notices'[j] = notices'[k] => j = k
  <2> SUFFICES ASSUME NEW j \in (n+1)..(n+m), NEW k \in (n+1)..(n+m), notices'[j] = notices'[k]
               PROVE  j = k
    BY <1>8
  <2>1. j - n \in DOMAIN New /\ k - n \in DOMAIN New /\ New[j - n] = New[k - n]
    BY <1>3, <1>5, <1>9
  <2>2. j - n = k - n
    BY <1>2, <2>1
  <2>3. j \in Int /\ k \in Int /\ n \in Int
    BY <1>3
  <2> QED BY <2>2, <2>3
<1>12. \A i \in 1..m : i + n \in 1..(n+m) /\ notices'[i + n] = New[i]
  BY <1>3, <1>5
<1>13. \A e \in events : \A u \in _recipients(r, e) :
         \E k \in DOMAIN notices' : notices'[k] = NewNotice(r, u, e)
  <2> SUFFICES ASSUME NEW e \in events, NEW u \in _recipients(r, e)
               PROVE  \E k \in DOMAIN notices' : notices'[k] = NewNotice(r, u, e)
    OBVIOUS
  <2>1. PICK i \in 1..m : New[i] = NewNotice(r, u, e)
    BY <1>2, <1>3
  <2> QED BY <1>7, <1>12, <2>1
<1>14. Len(mailed') = Len(notices') /\ Len(notices) <= Len(notices')
  BY <1>3, <1>5, <1>6 DEF n
<1>15. \A k \in DOMAIN notices : notices'[k] = notices[k] /\ mailed'[k] = mailed[k]
  BY <1>3, <1>5, <1>6
<1> QED BY <1>5, <1>6, <1>10, <1>11, <1>13, <1>14, <1>15 DEF Appended

\* The mailer of w has nothing in hand any more.
Emptied(w, p) == mailer' = [mailer EXCEPT ![w] = Quiescent(p)]

\* A death, or w puts down a batch that is empty.
PutDown == \E w \in Workers, p \in {"idle", "due"} :
  /\ Emptied(w, p) /\ UNCHANGED <<notices, mailed>>
  /\ \/ deaths' = deaths + 1
     \/ deaths' = deaths /\ mailer[w].batch = {}

PickUp == \E w \in Workers, m \in Mailers :
  /\ mailer[w].pc = "due"
  /\ mailer' = [mailer EXCEPT ![w] = m]
  /\ m.pc = "send" /\ DOMAIN m.verdict = {} /\ m.batch \subseteq Pending
  /\ UNCHANGED <<notices, mailed, deaths>>

\* What the attempt may have done to the mailbox: a failed one, anything.
Mailing(v, k) ==
  (IF v = "sent" THEN {} ELSE {mailed})
    \cup (IF v = "skipped" THEN {} ELSE {[mailed EXCEPT ![k] = @ + 1]})

\* One notice more is dealt with.
Dealt(w, m, v, k) ==
  /\ k \in mailer[w].batch \ DOMAIN mailer[w].verdict
  /\ mailer[w].pc = "send"
  /\ mailer' = [mailer EXCEPT ![w] = m]
  /\ m.pc = "send" /\ m.batch = mailer[w].batch
  /\ DOMAIN m.verdict = DOMAIN mailer[w].verdict \cup {k}
  /\ m.verdict[k] = v
  /\ \A j \in DOMAIN mailer[w].verdict : m.verdict[j] = mailer[w].verdict[j]
  /\ mailed' \in Mailing(v, k)
  /\ UNCHANGED <<notices, deaths>>

Deliver == \E w \in Workers, m \in Mailers, v \in Outcomes : \E k : Dealt(w, m, v, k)

Recorded == \E w \in Workers :
  /\ mailer[w].pc = "send" /\ DOMAIN mailer[w].verdict = mailer[w].batch
  /\ \A k \in mailer[w].batch : notices[k].status # "gone"
  /\ notices' = [k \in DOMAIN notices |->
       IF k \in mailer[w].batch
       THEN [notices[k] EXCEPT !.status = mailer[w].verdict[k]] ELSE notices[k]]
  /\ Emptied(w, "idle")
  /\ UNCHANGED <<mailed, deaths>>

Unposted == \E r \in Runs :
  /\ notices' = [k \in DOMAIN notices |->
       IF notices[k].run = r THEN [notices[k] EXCEPT !.status = "gone"] ELSE notices[k]]
  /\ UNCHANGED <<post, deaths>>

Posted == \E w \in Workers, r \in Runs :
  /\ Announce(w, r)
  /\ \E events \in SUBSET Events : Appended(r, events)
  /\ UNCHANGED <<mailer, deaths>>

Apart == UNCHANGED <<notices, post>> /\ deaths' \in {deaths, deaths + 1}

LEMMA SendNoticeDelivers ==
  ASSUME MailInv, NEW w \in Workers, SendNotice(w)
  PROVE  Deliver
<1> USE DEF MailInv
<1> DEFINE a == mailer[w] D == DOMAIN a.verdict
           After(k, v) == [j \in D \cup {k} |-> IF j = k THEN v ELSE a.verdict[j]]
           With(k, v) == [a EXCEPT !.verdict = After(k, v)]
<1>1. a \in Mailers /\ a.batch \in SUBSET Nat /\ a.verdict \in [D -> Outcomes] /\ D \in SUBSET Nat
  BY MailerFields DEF NoticesTypeOK
<1>2. PICK k \in a.batch \ D :
        \E v \in Outcomes :
          /\ mailer' = [mailer EXCEPT ![w].verdict =
               [j \in DOMAIN @ \cup {k} |-> IF j = k THEN v ELSE @[j]]]
          /\ mailed' \in Mailing(v, k)
  BY DEF SendNotice, Outcomes, Mailing
<1>3. PICK v \in Outcomes :
          /\ mailer' = [mailer EXCEPT ![w].verdict =
               [j \in DOMAIN @ \cup {k} |-> IF j = k THEN v ELSE @[j]]]
          /\ mailed' \in Mailing(v, k)
  BY <1>2
<1>4. mailer' = [mailer EXCEPT ![w] = With(k, v)]
  BY <1>3 DEF NoticesTypeOK
<1> DEFINE f == After(k, v)
<1>5. /\ DOMAIN f = D \cup {k} /\ f[k] = v
      /\ \A j \in D : f[j] = a.verdict[j]
      /\ f \in [D \cup {k} -> Outcomes]
  BY <1>1, <1>2
<1>6. f \in Verdicts
  BY <1>1, <1>2, <1>5 DEF Verdicts
<1> HIDE DEF f
<1> DEFINE m == [a EXCEPT !.verdict = f]
<1>7. m \in Mailers /\ m.pc = a.pc /\ m.batch = a.batch /\ m.verdict = f
  BY <1>1, <1>6 DEF Mailers
<1>8. mailer' = [mailer EXCEPT ![w] = m]
  BY <1>4 DEF f
<1> HIDE DEF m
<1>9. a.pc = "send" /\ UNCHANGED <<notices, deaths>>
  BY DEF SendNotice, tables
<1>10. m.pc = "send" /\ m.batch = a.batch /\ DOMAIN m.verdict = D \cup {k}
  BY <1>5, <1>7, <1>9
<1>11. m.verdict[k] = v /\ \A j \in D : m.verdict[j] = a.verdict[j]
  BY <1>5, <1>7
<1>12. Dealt(w, m, v, k)
  BY <1>2, <1>3, <1>8, <1>9, <1>10, <1>11 DEF Dealt
<1> QED BY <1>7, <1>12 DEF Deliver

\* What any step does to the mail.
LEMMA MailSteps ==
  ASSUME MailInv, [NoticesNext]_allVars
  PROVE  Apart \/ PutDown \/ PickUp \/ Deliver \/ Recorded \/ Unposted \/ Posted
<1> USE DEF MailInv
<1>1. ASSUME NEW u \in Users, RequestStep(u) PROVE Apart
  BY <1>1 DEF RequestStep, QueueWithRequester, Attach, Untold, Apart, tables
<1>2. ASSUME NEW w \in Workers, LoopStep(w)
      PROVE  Apart \/ PutDown \/ PickUp \/ Deliver \/ Recorded
  <2>1. CASE StaleFailed(w)
    <3>1. worker[w].pc = "fail"
      BY <2>1 DEF StaleFailed, FailStale
    <3>2. mailer[w].batch = {}
      BY <3>1, MailerFields DEF BetweenLooks, BatchInv
    <3> QED BY <2>1, <3>2 DEF StaleFailed, PutDown, Emptied, Apart, tables, post
  <2>2. CASE ReadPending(w)
    <3>1. mailer[w].pc = "due" /\ mailer[w].batch = {} /\ UNCHANGED <<notices, mailed, deaths>>
      BY <2>2 DEF ReadPending, BatchInv, tables
    <3>2. CASE mailer' = [mailer EXCEPT ![w] = Quiescent("idle")]
      BY <3>1, <3>2 DEF PutDown, Emptied
    <3>3. CASE mailer' # [mailer EXCEPT ![w] = Quiescent("idle")]
      <4> DEFINE b == {k \in Pending : Cardinality({j \in Pending : j < k}) < BatchLimit}
                 M(c) == [pc |-> "send", batch |-> b, connected |-> c, verdict |-> << >>]
      <4>1. PICK c \in BOOLEAN : mailer' = [mailer EXCEPT ![w] = M(c)]
        BY <2>2, <3>3 DEF ReadPending
      <4>2. b \subseteq Pending /\ b \in SUBSET Nat
        BY LenProperties DEF Pending, NoticesTypeOK
      <4> HIDE DEF b
      <4>3. M(c) \in Mailers
        BY <4>2, QuiescentFacts, MailerFields DEF Mailers, Quiescent
      <4>4. M(c).pc = "send" /\ M(c).batch = b /\ DOMAIN M(c).verdict = {}
        BY QuiescentFacts DEF Quiescent
      <4> QED BY <3>1, <4>1, <4>2, <4>3, <4>4 DEF PickUp
    <3> QED BY <3>2, <3>3
  <2>3. CASE SendNotice(w)
    BY <2>3, SendNoticeDelivers
  <2>4. CASE CommitDelivery(w)
    BY <2>4 DEF CommitDelivery, Recorded, PutDown, Emptied
  <2>5. CASE LookForWork(w) \/ (recover_stale(w) /\ Untold)
    BY <2>5 DEF LookForWork, Untold, Apart, tables
  <2>6. CASE \E skipped \in SUBSET Locked : ClaimOldest(w, skipped) /\ Untold
    BY <2>6 DEF Untold, Apart, tables
  <2> QED BY <1>2, <2>1, <2>2, <2>3, <2>4, <2>5, <2>6 DEF LoopStep
<1>3. ASSUME NEW w \in Workers, Die(w) PROVE PutDown
  BY <1>3 DEF Die, PutDown, Emptied, tables
<1>4. ASSUME NEW w \in Workers, NEW r \in Runs, SupervisorStep(w, r) PROVE Apart \/ Posted
  <2>1. CASE Announce(w, r)
    <3>1. CASE UNCHANGED <<notices, mailed>>
      BY <2>1, <3>1 DEF Announce, Apart, post
    <3>2. CASE ~UNCHANGED <<notices, mailed>>
      <4>1. PICK verdict \in final_status(supervisor[w][r]), extra \in SUBSET ExtraEvents :
              /\ verdict \in DOMAIN EVENT_BY_STATUS
              /\ AddNotices(r, {EVENT_BY_STATUS[verdict]} \cup extra)
        BY <2>1, <3>2 DEF Announce
      <4>2. {EVENT_BY_STATUS[verdict]} \cup extra \in SUBSET Events
        BY <4>1 DEF EVENT_BY_STATUS, Events, FINAL_STATUSES
      <4>3. Appended(r, {EVENT_BY_STATUS[verdict]} \cup extra)
        BY <4>1, <4>2, AddNoticesAppends
      <4> QED BY <2>1, <4>2, <4>3 DEF Announce, Posted
    <3> QED BY <3>1, <3>2
  <2>2. CASE Untold
    BY <2>2 DEF Untold, Apart, tables
  <2> QED BY <1>4, <2>1, <2>2 DEF SupervisorStep
<1>5. ASSUME NEW r \in Runs, DeleteWithNotices(r) \/ (HeartbeatAges(r) /\ Untold)
      PROVE  Apart \/ Unposted
  BY <1>5 DEF DeleteWithNotices, Untold, Apart, Unposted, tables
<1>6. CASE UNCHANGED allVars
  BY <1>6 DEF allVars, tables, Apart
<1> QED BY <1>1, <1>2, <1>3, <1>4, <1>5, <1>6 DEF NoticesNext
-----------------------------------------------------------------------------
(* Types.                                                                    *)

Settles == Recorded \/ Unposted

\* A row of notifications keeps its run, its user and its event.
LEMMA SettlesKeeps ==
  ASSUME MailInv, Settles
  PROVE  /\ notices' \in Seq(Notice) /\ Len(notices') = Len(notices)
         /\ DOMAIN notices' = DOMAIN notices
         /\ \A k \in DOMAIN notices : /\ notices'[k].run = notices[k].run
                                      /\ notices'[k].user = notices[k].user
                                      /\ notices'[k].event = notices[k].event
<1> USE DEF MailInv, NoticesTypeOK
<1> DEFINE n == Len(notices)
<1>1. n \in Nat /\ DOMAIN notices = 1..n /\ \A k \in 1..n : notices[k] \in Notice
  BY LenProperties
<1>2. /\ DOMAIN notices' = 1..n
      /\ \A k \in 1..n : /\ notices'[k] \in Notice
                         /\ notices'[k].run = notices[k].run
                         /\ notices'[k].user = notices[k].user
                         /\ notices'[k].event = notices[k].event
      /\ notices' = [k \in 1..n |-> notices'[k]]
  <2>1. CASE Recorded
    <3>1. PICK w \in Workers :
            /\ DOMAIN mailer[w].verdict = mailer[w].batch
            /\ notices' = [k \in DOMAIN notices |->
                 IF k \in mailer[w].batch
                 THEN [notices[k] EXCEPT !.status = mailer[w].verdict[k]] ELSE notices[k]]
      BY <2>1 DEF Recorded
    <3>2. \A k \in mailer[w].batch : mailer[w].verdict[k] \in Outcomes
      BY <3>1, MailerFields
    <3> QED BY <1>1, <3>1, <3>2 DEF Notice
  <2>2. CASE Unposted
    <3>1. PICK r \in Runs :
            notices' = [k \in DOMAIN notices |->
              IF notices[k].run = r THEN [notices[k] EXCEPT !.status = "gone"] ELSE notices[k]]
      BY <2>2 DEF Unposted
    <3> QED BY <1>1, <3>1 DEF Notice
  <2> QED BY <2>1, <2>2 DEF Settles
<1> HIDE DEF n
<1>3. notices' \in [1..n -> Notice]
  BY <1>2
<1>4. notices' \in Seq(Notice) /\ Len(notices') = n
  BY <1>1, <1>3, FunctionIsSeq
<1> QED BY <1>1, <1>2, <1>4 DEF n

\* The rows stay where they are and what they are about.
LEMMA NoticesStay ==
  ASSUME MailInv, [NoticesNext]_allVars
  PROVE  /\ DOMAIN notices \subseteq DOMAIN notices'
         /\ \A k \in DOMAIN notices : /\ notices'[k].run = notices[k].run
                                      /\ notices'[k].user = notices[k].user
                                      /\ notices'[k].event = notices[k].event
<1>1. CASE Settles
  BY <1>1, SettlesKeeps
<1>2. CASE Posted
  <2>1. PICK r \in Runs, events \in SUBSET Events : Appended(r, events)
    BY <1>2 DEF Posted
  <2>2. DOMAIN notices = 1..Len(notices) /\ DOMAIN notices' = 1..Len(notices')
        /\ Len(notices) \in Nat /\ Len(notices') \in Nat
    BY <2>1, LenProperties DEF MailInv, NoticesTypeOK, Appended
  <2> QED BY <2>1, <2>2 DEF Appended
<1>3. CASE Apart \/ PutDown \/ PickUp \/ Deliver
  BY <1>3 DEF Apart, PutDown, PickUp, Deliver, Dealt, post
<1> QED BY <1>1, <1>2, <1>3, MailSteps DEF Settles

LEMMA TypesStep ==
  ASSUME MailInv, [NoticesNext]_allVars
  PROVE  NoticesTypeOK'
<1> USE DEF MailInv, NoticesTypeOK
<1>1. /\ initiated_by' \in [Runs -> Users \cup {NoUser}]
      /\ requesters' \in [Runs -> SUBSET Users]
  <2> DEFINE Typed == /\ initiated_by' \in [Runs -> Users \cup {NoUser}]
                      /\ requesters' \in [Runs -> SUBSET Users]
  <2>1. ASSUME NEW u \in Users, QueueWithRequester(u) \/ Attach(u) PROVE Typed
    BY <2>1 DEF QueueWithRequester, Attach
  <2>2. ASSUME NEW r \in Runs, DeleteWithNotices(r) PROVE Typed
    BY <2>2 DEF DeleteWithNotices
  <2>3. CASE UNCHANGED <<initiated_by, requesters>>
    BY <2>3
  <2>4. ASSUME NEW w \in Workers, LoopStep(w) \/ Die(w) PROVE UNCHANGED <<initiated_by, requesters>>
    BY <2>4 DEF LoopStep, Die, Untold, StaleFailed, ReadPending, SendNotice, CommitDelivery,
                LookForWork, tables
  <2>5. ASSUME NEW w \in Workers, NEW r \in Runs, SupervisorStep(w, r)
        PROVE  UNCHANGED <<initiated_by, requesters>>
    BY <2>5 DEF SupervisorStep, Announce, Untold, tables
  <2>6. ASSUME UNCHANGED allVars PROVE UNCHANGED <<initiated_by, requesters>>
    BY <2>6 DEF allVars, tables
  <2> QED BY <2>1, <2>2, <2>3, <2>4, <2>5, <2>6 DEF NoticesNext, RequestStep, Untold, tables
<1>2. notices' \in Seq(Notice) /\ mailed' \in Seq(Nat) /\ Len(mailed') = Len(notices')
  <2>1. CASE Settles
    BY <2>1, SettlesKeeps DEF Settles, Recorded, Unposted, post
  <2>2. CASE Posted
    BY <2>2 DEF Posted, Appended
  <2>3. CASE Deliver
    <3>1. PICK w \in Workers, m \in Mailers, v \in Outcomes : \E k : Dealt(w, m, v, k)
      BY <2>3 DEF Deliver
    <3>2. PICK k : Dealt(w, m, v, k)
      BY <3>1
    <3>3. k \in 1..Len(mailed) /\ mailed[k] + 1 \in Nat
      BY <3>2, LenProperties DEF Dealt, BatchInv
    <3>4. [mailed EXCEPT ![k] = mailed[k] + 1] \in Seq(Nat)
          /\ Len([mailed EXCEPT ![k] = mailed[k] + 1]) = Len(mailed)
      BY <3>3, ExceptSeq
    <3> QED BY <3>2, <3>4 DEF Dealt, Mailing
  <2>4. CASE Apart \/ PutDown \/ PickUp
    BY <2>4 DEF Apart, PutDown, PickUp, post
  <2> QED BY <2>1, <2>2, <2>3, <2>4, MailSteps DEF Settles
<1>3. mailer' \in [Workers -> Mailers] /\ deaths' \in Nat
  <2>1. CASE PutDown
    BY <2>1, QuiescentFacts DEF PutDown, Emptied
  <2>2. CASE PickUp
    BY <2>2 DEF PickUp
  <2>3. CASE Deliver
    BY <2>3 DEF Deliver, Dealt
  <2>4. CASE Recorded
    BY <2>4, QuiescentFacts DEF Recorded, Emptied
  <2>5. CASE Apart \/ Unposted \/ Posted
    BY <2>5 DEF Apart, Unposted, Posted, post
  <2> QED BY <2>1, <2>2, <2>3, <2>4, <2>5, MailSteps
<1> QED BY <1>1, <1>2, <1>3

LEMMA BatchStep ==
  ASSUME MailInv, [NoticesNext]_allVars
  PROVE  BatchInv'
<1> USE DEF MailInv
<1>1. DOMAIN notices \subseteq DOMAIN notices'
  BY NoticesStay
<1>2. CASE PutDown
  BY <1>1, <1>2, QuiescentFacts DEF PutDown, Emptied, BatchInv, NoticesTypeOK
<1>3. CASE PickUp
  BY <1>1, <1>3 DEF PickUp, BatchInv, NoticesTypeOK, Pending
<1>4. CASE Deliver
  <2>1. PICK w \in Workers, m \in Mailers, v \in Outcomes : \E k : Dealt(w, m, v, k)
    BY <1>4 DEF Deliver
  <2>2. PICK k : Dealt(w, m, v, k)
    BY <2>1
  <2>3. DOMAIN m.verdict \subseteq m.batch /\ m.batch \subseteq DOMAIN notices /\ m.pc = "send"
    BY <2>2 DEF Dealt, BatchInv
  <2> QED BY <1>1, <2>2, <2>3 DEF Dealt, BatchInv, NoticesTypeOK
<1>5. CASE Recorded
  BY <1>1, <1>5, QuiescentFacts DEF Recorded, Emptied, BatchInv, NoticesTypeOK
<1>6. CASE Apart \/ Unposted \/ Posted
  BY <1>1, <1>6 DEF Apart, Unposted, Posted, post, BatchInv
<1> QED BY <1>2, <1>3, <1>4, <1>5, <1>6, MailSteps

LEMMA BetweenLooksStep ==
  ASSUME TypeOK, MailInv, [NoticesNext]_allVars
  PROVE  BetweenLooks'
<1> USE DEF MailInv, NoticesTypeOK, TypeOK
<1>1. ASSUME UNCHANGED <<worker, mailer>> PROVE BetweenLooks'
  BY <1>1 DEF BetweenLooks
<1>2. ASSUME NEW u \in Users, RequestStep(u) PROVE BetweenLooks'
  BY <1>1, <1>2 DEF RequestStep, QueueWithRequester, Attach, InsertRun, add_requester, create_run,
     RereadRun, cancel_run, request_cancel, Untold, post
<1>3. ASSUME NEW w \in Workers,
             mailer'[w].pc # "idle" => worker'[w].pc = "claim",
             \A v \in Workers \ {w} : worker'[v] = worker[v] /\ mailer'[v] = mailer[v]
      PROVE  BetweenLooks'
  BY <1>3 DEF BetweenLooks
<1>4. ASSUME NEW w \in Workers, StaleFailed(w) PROVE BetweenLooks'
  <2>1. mailer[w].pc = "idle" /\ \A v \in Workers \ {w} : worker'[v] = worker[v]
    BY <1>4 DEF StaleFailed, FailStale, Restart, BetweenLooks
  <2> QED BY <1>3, <1>4, <2>1 DEF StaleFailed
<1>5. ASSUME NEW w \in Workers, ReadPending(w) \/ SendNotice(w) PROVE BetweenLooks'
  <2>1. worker' = worker /\ worker[w].pc = "claim"
    BY <1>5 DEF ReadPending, SendNotice, vars, BetweenLooks
  <2>2. \A v \in Workers \ {w} : mailer'[v] = mailer[v]
    BY <1>5 DEF ReadPending, SendNotice
  <2> QED BY <1>3, <2>1, <2>2
<1>6. ASSUME NEW w \in Workers, CommitDelivery(w) \/ Die(w) PROVE BetweenLooks'
  <2>1. mailer' = [mailer EXCEPT ![w] = Quiescent("idle")]
    BY <1>6 DEF CommitDelivery, Die
  <2>2. \A v \in Workers \ {w} : worker'[v] = worker[v]
    BY <1>6 DEF CommitDelivery, Die, Crash, Restart, vars
  <2> QED BY <1>3, <2>1, <2>2, QuiescentFacts
<1>7. ASSUME NEW w \in Workers, LookForWork(w) PROVE BetweenLooks'
  BY <1>3, <1>7 DEF LookForWork, claim_next, Untold, post
<1>8. ASSUME NEW w \in Workers, recover_stale(w), Untold PROVE BetweenLooks'
  BY <1>3, <1>8 DEF recover_stale, Untold, post, BetweenLooks
<1>9. ASSUME NEW w \in Workers, NEW S, ClaimOldest(w, S), Untold PROVE BetweenLooks'
  <2>1. mailer[w].pc = "idle" /\ UNCHANGED mailer
    BY <1>9 DEF ClaimOldest, Untold, post, BetweenLooks
  <2>2. \A v \in Workers \ {w} : worker'[v] = worker[v]
    BY <1>9 DEF ClaimOldest
  <2> QED BY <1>3, <2>1, <2>2
<1>10. ASSUME NEW w \in Workers, NEW r \in Runs, SupervisorStep(w, r) PROVE BetweenLooks'
  BY <1>1, <1>10 DEF SupervisorStep, Announce, notify_run_finished, Spawn, Heartbeat, OverTime, Kill,
     EngineExit, Persist, _guarded, OrphanExit, SupervisorFails, Untold, post
<1>11. ASSUME NEW r \in Runs, DeleteWithNotices(r) \/ (HeartbeatAges(r) /\ Untold) PROVE BetweenLooks'
  BY <1>1, <1>11 DEF DeleteWithNotices, delete_run, HeartbeatAges, Untold, post
<1>12. CASE UNCHANGED allVars
  BY <1>1, <1>12 DEF allVars, vars, post
<1> QED BY <1>2, <1>4, <1>5, <1>6, <1>7, <1>8, <1>9, <1>10, <1>11, <1>12 DEF NoticesNext, LoopStep
-----------------------------------------------------------------------------
(* The queue.  A step of RunNotices is a step of RunQueue, or the death of a *)
(* worker whose commit found a notice deleted.                               *)

Dies(w) == Restart(w) /\ UNCHANGED <<rows, request, faults>>

LEMMA QueueSteps ==
  ASSUME [NoticesNext]_allVars
  PROVE  [Next]_vars \/ \E w \in Workers : Dies(w)
<1>1. ASSUME NEW u \in Users, RequestStep(u) PROVE Next
  <2>1. Http(u)
    BY <1>1 DEF RequestStep, QueueWithRequester, Attach, Http
  <2> QED BY <2>1 DEF Next
<1>2. ASSUME NEW w \in Workers, Die(w) PROVE Next
  BY <1>2 DEF Die, Next, MainLoop
<1>3. ASSUME NEW w \in Workers, LoopStep(w) PROVE [Next]_vars \/ Dies(w)
  <2>1. CASE StaleFailed(w) \/ LookForWork(w) \/ (recover_stale(w) /\ Untold)
    BY <2>1 DEF StaleFailed, LookForWork, Next, MainLoop
  <2>2. CASE ReadPending(w) \/ SendNotice(w)
    BY <2>2 DEF ReadPending, SendNotice
  <2>3. CASE CommitDelivery(w)
    BY <2>3 DEF CommitDelivery, Dies
  <2>4. CASE \E skipped \in SUBSET Locked : ClaimOldest(w, skipped) /\ Untold
    BY <2>4 DEF Next, MainLoop
  <2> QED BY <1>3, <2>1, <2>2, <2>3, <2>4 DEF LoopStep
<1>4. ASSUME NEW w \in Workers, NEW r \in Runs, SupervisorStep(w, r) PROVE Next
  <2>1. Supervise(w, r)
    BY <1>4 DEF SupervisorStep, Announce, Supervise
  <2> QED BY <2>1 DEF Next
<1>5. ASSUME NEW r \in Runs, DeleteWithNotices(r) \/ (HeartbeatAges(r) /\ Untold) PROVE Next
  BY <1>5 DEF DeleteWithNotices, Next
<1>6. CASE UNCHANGED allVars
  BY <1>6 DEF allVars
<1> QED BY <1>1, <1>2, <1>3, <1>4, <1>5, <1>6 DEF NoticesNext

LEMMA DiesKeeps ==
  ASSUME QueueInv, SupervisedOnce, NEW w \in Workers, Dies(w)
  PROVE  /\ QueueInv' /\ SupervisedOnce'
         /\ \A v \in Workers, r \in Runs : \/ supervisor'[v][r] = supervisor[v][r]
                                           \/ supervisor'[v][r] = NoSupervisor
<1> USE DEF QueueInv, TypeOK
<1>1. \A v \in Workers, r \in Runs : \/ supervisor'[v][r] = supervisor[v][r]
                                     \/ supervisor'[v][r] = NoSupervisor
  BY DEF Dies, Restart
<1>2. UNCHANGED <<status, fingerprint, cancel_requested, silent, request, faults>>
  BY DEF Dies, rows
<1>3. TypeOK'
  BY <1>2, SupervisorValues, LoopValues DEF Dies, Restart, Running
<1>4. \A v \in Workers : \/ v # w /\ worker'[v] = worker[v]
                         \/ worker'[v].pc = "recover" /\ worker'[v].stale = {}
  BY LoopFields DEF Dies, Restart
<1>5. ClaimInv'
  <2> SUFFICES ASSUME NEW v \in Workers, worker'[v].pc = "select"
               PROVE  claimLock' = v /\ Cardinality(Running') < MaxConcurrent
    BY DEF ClaimInv
  <2>1. v # w /\ claimLock = v /\ Cardinality(Running) < MaxConcurrent
    BY <1>4 DEF ClaimInv
  <2> QED BY <1>2, <2>1 DEF Dies, Restart, Running
<1>6. StaleInv' /\ ThreadInv'
  BY <1>1, <1>2, <1>4 DEF StaleInv, ThreadInv, Started
<1>7. SupervisedOnce'
  BY <1>1, <1>2 DEF SupervisedOnce
<1> QED BY <1>1, <1>3, <1>5, <1>6, <1>7

NoticesInv == QueueInv /\ SupervisedOnce /\ MailInv

LEMMA NoticesInvInit == NoticesInit => NoticesInv
<1> SUFFICES ASSUME NoticesInit PROVE NoticesInv
  OBVIOUS
<1>1. QueueInv /\ SupervisedOnce
  BY QueueInvInit DEF NoticesInit, Init, SupervisedOnce
<1>2. notices = << >> /\ mailed = << >> /\ mailer = [w \in Workers |-> Quiescent("idle")]
  BY DEF NoticesInit
<1>3. NoticesTypeOK
  BY <1>2, QuiescentFacts, EmptySeq DEF NoticesInit, NoticesTypeOK
<1>4. BetweenLooks /\ BatchInv
  BY <1>2, QuiescentFacts DEF BetweenLooks, BatchInv
<1> QED BY <1>1, <1>3, <1>4 DEF NoticesInv, MailInv

LEMMA NoticesInvStep == NoticesInv /\ [NoticesNext]_allVars => NoticesInv'
<1> SUFFICES ASSUME NoticesInv, [NoticesNext]_allVars PROVE NoticesInv'
  OBVIOUS
<1>1. QueueInv' /\ SupervisedOnce'
  BY QueueSteps, DiesKeeps, QueueInvStep, OnceStep DEF NoticesInv
<1>2. MailInv'
  BY TypesStep, BatchStep, BetweenLooksStep DEF NoticesInv, MailInv, QueueInv
<1> QED BY <1>1, <1>2 DEF NoticesInv

\* The tables and the mailers stay in their types, a worker mails only between
\* two looks at the queue, and a run is executed once although a worker may now
\* also die of a notice deleted while it was mailed (worker.main, deliver_pending).
THEOREM NoticesInvariant == NoticesSpec => []NoticesInv
BY NoticesInvInit, NoticesInvStep, PTL DEF NoticesSpec

\* With its notices and its mail, and although a worker may now die of a notice
\* that was deleted, the queue still implements the life of a run that people
\* are told of: what the mail does is no step of any row (worker.main).
THEOREM NoticesImplementLifecycle == NoticesSpec => ImplementsLifecycle
<1>1. NoticesInit => Lifecycle!Init
  BY LifecycleInit DEF NoticesInit
<1>2. NoticesInv /\ [NoticesNext]_allVars => [Lifecycle!Next]_(Lifecycle!lvars)
  <2> SUFFICES ASSUME NoticesInv, [NoticesNext]_allVars
               PROVE  [Lifecycle!Next]_(Lifecycle!lvars)
    OBVIOUS
  <2>1. CASE [Next]_vars
    BY <2>1, LifecycleStep DEF NoticesInv
  <2>2. CASE \E w \in Workers : Dies(w)
    BY <2>2 DEF Dies, rows, Lifecycle!lvars
  <2> QED BY <2>1, <2>2, QueueSteps
<1> QED BY <1>1, <1>2, NoticesInvariant, PTL DEF NoticesSpec, ImplementsLifecycle, Lifecycle!Spec
-----------------------------------------------------------------------------
(* How often a notice is mailed.  While it is pending, every e-mail of it is *)
(* one of a worker that still holds the batch, or of one that died; once it  *)
(* is recorded nobody reads it any more, and only those who read it before   *)
(* may still mail it, once each.                                             *)

Tried(k) == {w \in Workers : k \in DOMAIN mailer[w].verdict}
Owing(k) == {w \in Workers : k \in mailer[w].batch \ DOMAIN mailer[w].verdict}

TriedInv == \A k \in DOMAIN notices :
  notices[k].status = "pending" => mailed[k] <= Cardinality(Tried(k)) + deaths

OwingInv == \A k \in DOMAIN notices :
  mailed[k] + Cardinality(Owing(k)) <= Cardinality(Workers) + deaths

TryInv == TriedInv /\ OwingInv

LEMMA Counting ==
  ASSUME NEW S \in SUBSET Workers, NEW T \in SUBSET Workers
  PROVE  /\ Cardinality(S) \in Nat /\ Cardinality(T) \in Nat /\ Cardinality(Workers) \in Nat
         /\ S \subseteq T => Cardinality(S) <= Cardinality(T)
         /\ S \cap T = {} => Cardinality(S) + Cardinality(T) <= Cardinality(Workers)
         /\ \A w : S \subseteq T \cup {w} => Cardinality(S) <= Cardinality(T) + 1
         /\ \A w : w \notin S /\ T = S \cup {w} => Cardinality(T) = Cardinality(S) + 1
<1>1. IsFiniteSet(Workers) /\ IsFiniteSet(S) /\ IsFiniteSet(T)
  BY NoticesAssumption, FS_Subset
<1>2. Cardinality(S) \in Nat /\ Cardinality(T) \in Nat /\ Cardinality(Workers) \in Nat
  BY <1>1, FS_CardinalityType
<1>3. S \subseteq T => Cardinality(S) <= Cardinality(T)
  BY <1>1, FS_Subset
<1>4. ASSUME S \cap T = {} PROVE Cardinality(S) + Cardinality(T) <= Cardinality(Workers)
  <2>1. Cardinality(S \cup T) = Cardinality(S) + Cardinality(T) - Cardinality({})
    BY <1>1, <1>4, FS_Union
  <2>2. Cardinality(S \cup T) <= Cardinality(Workers)
    BY <1>1, FS_Subset
  <2>3. Cardinality({}) = 0
    BY FS_EmptySet
  <2> QED BY <1>2, <2>1, <2>2, <2>3
<1>5. ASSUME NEW w
      PROVE  Cardinality(T \cup {w}) = (IF w \in T THEN Cardinality(T) ELSE Cardinality(T) + 1)
             /\ IsFiniteSet(T \cup {w})
  BY <1>1, FS_AddElement
<1>6. ASSUME NEW w, S \subseteq T \cup {w} PROVE Cardinality(S) <= Cardinality(T) + 1
  <2>1. Cardinality(S) <= Cardinality(T \cup {w})
    BY <1>5, <1>6, FS_Subset
  <2>2. Cardinality(T \cup {w}) \in {Cardinality(T), Cardinality(T) + 1}
    BY <1>5
  <2> QED BY <1>2, <2>1, <2>2
<1>7. ASSUME NEW w, w \notin S, T = S \cup {w} PROVE Cardinality(T) = Cardinality(S) + 1
  BY <1>1, <1>7, FS_AddElement
<1> QED BY <1>2, <1>3, <1>4, <1>6, <1>7

\* What is known of a pending notice is enough for what is known of any other.
LEMMA PendingOwes ==
  ASSUME NEW S \in SUBSET Workers, NEW T \in SUBSET Workers, S \cap T = {},
         NEW a \in Nat, NEW d \in Nat, a <= Cardinality(S) + d
  PROVE  a + Cardinality(T) <= Cardinality(Workers) + d
<1> DEFINE s == Cardinality(S) t == Cardinality(T) n == Cardinality(Workers)
<1>1. s \in Nat /\ t \in Nat /\ n \in Nat /\ s + t <= n /\ a <= s + d
  BY Counting
<1> HIDE DEF s, t, n
<1>2. a + t <= n + d
  BY <1>1
<1> QED BY <1>2 DEF s, t, n

\* The workers that hold a notice shrink by those who die, at most one a step.
LEMMA TryStep == NoticesInv /\ TryInv /\ [NoticesNext]_allVars => TryInv'
<1> SUFFICES ASSUME NoticesInv, TryInv, [NoticesNext]_allVars PROVE TryInv'
  OBVIOUS
<1> USE DEF NoticesInv, MailInv
<1>1. NoticesInv'
  BY NoticesInvStep
<1>2. /\ DOMAIN notices = DOMAIN mailed /\ DOMAIN notices' = DOMAIN mailed'
      /\ \A k \in DOMAIN notices : mailed[k] \in Nat
      /\ \A k \in DOMAIN notices' : mailed'[k] \in Nat
      /\ deaths \in Nat /\ deaths' \in Nat
  BY <1>1, LenProperties DEF NoticesTypeOK
<1>3. \A k : /\ Tried(k) \in SUBSET Workers /\ Owing(k) \in SUBSET Workers
             /\ Tried(k)' \in SUBSET Workers /\ Owing(k)' \in SUBSET Workers
  BY DEF Tried, Owing
\* A notice in hand: enough to bound its e-mails by the tries while it is
\* pending, and by what is owed of it when it is not.
<1>4. ASSUME \A k \in DOMAIN notices' :
               /\ notices'[k].status = "pending" => mailed'[k] <= Cardinality(Tried(k)') + deaths'
               /\ notices'[k].status # "pending" =>
                    mailed'[k] + Cardinality(Owing(k)') <= Cardinality(Workers) + deaths'
      PROVE  TryInv'
  <2>1. TriedInv'
    BY <1>4 DEF TriedInv
  <2>2. \A k : Tried(k)' \cap Owing(k)' = {}
    BY DEF Tried, Owing
  <2>3. OwingInv'
    BY <1>2, <1>3, <1>4, <2>2, PendingOwes DEF OwingInv
  <2> QED BY <2>1, <2>3 DEF TryInv
\* Steps that mail nothing and give nobody anything to mail.
<1>5. ASSUME NEW k \in DOMAIN notices, mailed'[k] = mailed[k],
             notices'[k].status = "pending" => notices[k].status = "pending",
             deaths' \in {deaths, deaths + 1}, Owing(k)' \subseteq Owing(k),
             \/ notices'[k].status # "pending"
             \/ Tried(k)' = Tried(k)
             \/ deaths' = deaths + 1 /\ \E w : Tried(k) \subseteq Tried(k)' \cup {w}
      PROVE  /\ notices'[k].status = "pending" => mailed'[k] <= Cardinality(Tried(k)') + deaths'
             /\ notices'[k].status # "pending" =>
                  mailed'[k] + Cardinality(Owing(k)') <= Cardinality(Workers) + deaths'
  <2> DEFINE t == Cardinality(Tried(k)) tt == Cardinality(Tried(k)')
             o == Cardinality(Owing(k)) oo == Cardinality(Owing(k)')
  <2>1. t \in Nat /\ tt \in Nat /\ o \in Nat /\ oo \in Nat /\ Cardinality(Workers) \in Nat
    BY <1>3, Counting
  <2>2. oo <= o
    BY <1>3, <1>5, Counting
  <2>3. notices'[k].status = "pending" => t = tt \/ (deaths' = deaths + 1 /\ t <= tt + 1)
    BY <1>3, <1>5, Counting
  <2>4. /\ notices[k].status = "pending" => mailed[k] <= t + deaths
        /\ mailed[k] + o <= Cardinality(Workers) + deaths
    BY DEF TryInv, TriedInv, OwingInv
  <2> HIDE DEF t, tt, o, oo
  <2>5. notices'[k].status = "pending" => mailed'[k] <= tt + deaths'
    BY <1>2, <1>5, <2>1, <2>3, <2>4
  <2>6. mailed'[k] + oo <= Cardinality(Workers) + deaths'
    BY <1>2, <1>5, <2>1, <2>2, <2>4
  <2> QED BY <2>5, <2>6 DEF tt, oo
<1>6. CASE Apart
  BY <1>4, <1>5, <1>6 DEF Apart, post, Tried, Owing
<1>7. CASE PutDown
  <2>1. PICK w \in Workers, p \in {"idle", "due"} :
          /\ Emptied(w, p) /\ UNCHANGED <<notices, mailed>>
          /\ \/ deaths' = deaths + 1
             \/ deaths' = deaths /\ mailer[w].batch = {}
    BY <1>7 DEF PutDown
  <2>2. \A v \in Workers : \/ v # w /\ mailer'[v] = mailer[v]
                           \/ v = w /\ mailer'[v].batch = {} /\ DOMAIN mailer'[v].verdict = {}
    BY <2>1, QuiescentFacts DEF Emptied, NoticesTypeOK
  <2>3. ASSUME NEW k \in DOMAIN notices
        PROVE  /\ Owing(k)' \subseteq Owing(k)
               /\ Tried(k)' = Tried(k) \/ (deaths' = deaths + 1 /\ Tried(k) \subseteq Tried(k)' \cup {w})
    <3>1. Owing(k)' \subseteq Owing(k) /\ Tried(k)' \subseteq Tried(k)
          /\ Tried(k) \subseteq Tried(k)' \cup {w}
      BY <2>2 DEF Tried, Owing
    <3>2. mailer[w].batch = {} => w \notin Tried(k)
      BY DEF Tried, BatchInv
    <3> QED BY <2>1, <3>1, <3>2
  <2>4. DOMAIN notices' = DOMAIN notices /\ deaths' \in {deaths, deaths + 1}
    BY <2>1
  <2> QED BY <1>4, <1>5, <2>1, <2>3, <2>4
<1>8. CASE PickUp
  <2>1. PICK w \in Workers, m \in Mailers :
          /\ mailer[w].pc = "due"
          /\ mailer' = [mailer EXCEPT ![w] = m]
          /\ DOMAIN m.verdict = {} /\ m.batch \subseteq Pending
          /\ UNCHANGED <<notices, mailed, deaths>>
    BY <1>8 DEF PickUp
  <2>2. mailer[w].batch = {} /\ DOMAIN mailer[w].verdict = {}
    BY <2>1 DEF BatchInv
  <2>3. \A k : Tried(k)' = Tried(k)
    BY <2>1, <2>2 DEF Tried, NoticesTypeOK
  <2>4. ASSUME NEW k \in DOMAIN notices, notices[k].status # "pending" PROVE Owing(k)' \subseteq Owing(k)
    BY <2>1, <2>4 DEF Owing, NoticesTypeOK, Pending
  <2>5. ASSUME NEW k \in DOMAIN notices, notices[k].status # "pending"
        PROVE  mailed'[k] + Cardinality(Owing(k)') <= Cardinality(Workers) + deaths'
    BY <1>5, <2>1, <2>3, <2>4, <2>5
  <2>6. \A k \in DOMAIN notices : notices[k].status = "pending" =>
          mailed'[k] <= Cardinality(Tried(k)') + deaths'
    BY <2>1, <2>3 DEF TryInv, TriedInv
  <2> QED BY <1>4, <2>1, <2>5, <2>6
<1>9. CASE Deliver
  <2>1. PICK w \in Workers, m \in Mailers, v \in Outcomes : \E x : Dealt(w, m, v, x)
    BY <1>9 DEF Deliver
  <2>2. PICK x : Dealt(w, m, v, x)
    BY <2>1
  <2>3. /\ x \in mailer[w].batch \ DOMAIN mailer[w].verdict
        /\ mailer' = [mailer EXCEPT ![w] = m] /\ m.batch = mailer[w].batch
        /\ DOMAIN m.verdict = DOMAIN mailer[w].verdict \cup {x}
        /\ mailed' \in {mailed, [mailed EXCEPT ![x] = @ + 1]}
        /\ UNCHANGED <<notices, deaths>>
    BY <2>2 DEF Dealt, Mailing
  <2>4. x \in DOMAIN notices
    BY <2>3 DEF BatchInv
  <2>5. ASSUME NEW k \in DOMAIN notices, k # x
        PROVE  mailed'[k] = mailed[k] /\ Tried(k)' = Tried(k) /\ Owing(k)' = Owing(k)
    BY <2>3, <2>5 DEF Tried, Owing, NoticesTypeOK
  <2>6. ASSUME NEW k \in DOMAIN notices, k # x
        PROVE  /\ notices'[k].status = "pending" => mailed'[k] <= Cardinality(Tried(k)') + deaths'
               /\ notices'[k].status # "pending" =>
                    mailed'[k] + Cardinality(Owing(k)') <= Cardinality(Workers) + deaths'
    BY <1>5, <2>3, <2>5, <2>6
  <2>7. /\ w \notin Tried(x) /\ Tried(x)' = Tried(x) \cup {w}
        /\ w \notin Owing(x)' /\ Owing(x) = Owing(x)' \cup {w}
    BY <2>3 DEF Tried, Owing, NoticesTypeOK
  <2>8. mailed'[x] <= mailed[x] + 1
    BY <1>2, <2>3, <2>4
  <2> DEFINE t == Cardinality(Tried(x)) tt == Cardinality(Tried(x)')
             o == Cardinality(Owing(x)) oo == Cardinality(Owing(x)')
  <2>9. t \in Nat /\ o \in Nat /\ oo \in Nat /\ tt = t + 1 /\ o = oo + 1 /\ Cardinality(Workers) \in Nat
    <3>1. tt = t + 1
      BY <1>3, <2>7, Counting
    <3>2. o = oo + 1
      BY <1>3, <2>7, Counting
    <3> QED BY <1>3, <3>1, <3>2, Counting
  <2>10. /\ notices[x].status = "pending" => mailed[x] <= t + deaths
         /\ mailed[x] + o <= Cardinality(Workers) + deaths
    BY <2>4 DEF TryInv, TriedInv, OwingInv
  <2> HIDE DEF t, tt, o, oo
  <2>11. /\ notices'[x].status = "pending" => mailed'[x] <= tt + deaths'
         /\ mailed'[x] + oo <= Cardinality(Workers) + deaths'
    <3>1. mailed[x] \in Nat /\ mailed'[x] \in Nat
      BY <1>2, <2>3, <2>4
    <3> QED BY <1>2, <2>3, <2>8, <2>9, <2>10, <3>1
  <2> QED BY <1>4, <2>3, <2>6, <2>11 DEF tt, oo
<1>10. CASE Recorded
  <2>1. PICK w \in Workers :
          /\ DOMAIN mailer[w].verdict = mailer[w].batch
          /\ notices' = [k \in DOMAIN notices |->
               IF k \in mailer[w].batch
               THEN [notices[k] EXCEPT !.status = mailer[w].verdict[k]] ELSE notices[k]]
          /\ Emptied(w, "idle")
          /\ UNCHANGED <<mailed, deaths>>
    BY <1>10 DEF Recorded
  <2>2. \A k \in mailer[w].batch : mailer[w].verdict[k] \in Outcomes
    BY <2>1, MailerFields DEF NoticesTypeOK
  <2>3. \A k \in DOMAIN notices : notices[k] \in Notice
    BY LenProperties DEF NoticesTypeOK
  <2>4. \A k \in DOMAIN notices :
          notices'[k].status = "pending" => k \notin mailer[w].batch /\ notices[k].status = "pending"
    BY <2>1, <2>2, <2>3 DEF Notice, Outcomes
  <2>5. \A v \in Workers : \/ v # w /\ mailer'[v] = mailer[v]
                           \/ v = w /\ mailer'[v].batch = {} /\ DOMAIN mailer'[v].verdict = {}
    BY <2>1, QuiescentFacts DEF Emptied, NoticesTypeOK
  <2>6. \A k : /\ Owing(k)' \subseteq Owing(k)
               /\ k \notin mailer[w].batch => Tried(k)' = Tried(k)
    BY <2>1, <2>5 DEF Tried, Owing
  <2>7. DOMAIN notices' = DOMAIN notices
    BY <2>1
  <2> QED BY <1>4, <1>5, <2>1, <2>4, <2>6, <2>7
<1>11. CASE Unposted
  <2>1. /\ DOMAIN notices' = DOMAIN notices /\ UNCHANGED <<mailer, mailed, deaths>>
        /\ \A k \in DOMAIN notices : notices'[k].status = "pending" => notices[k].status = "pending"
    <3>1. \A k \in DOMAIN notices : notices[k] \in Notice
      BY LenProperties DEF NoticesTypeOK
    <3> QED BY <1>11, <3>1 DEF Unposted, post, Notice
  <2> QED BY <1>4, <1>5, <2>1 DEF Tried, Owing
<1>12. CASE Posted
  <2>1. PICK r \in Runs, events \in SUBSET Events : Appended(r, events)
    BY <1>12 DEF Posted
  <2>2. UNCHANGED <<mailer, deaths>>
    BY <1>12 DEF Posted
  <2>3. ASSUME NEW k \in DOMAIN notices
        PROVE  /\ notices'[k].status = "pending" => mailed'[k] <= Cardinality(Tried(k)') + deaths'
               /\ notices'[k].status # "pending" =>
                    mailed'[k] + Cardinality(Owing(k)') <= Cardinality(Workers) + deaths'
    BY <1>5, <2>1, <2>2, <2>3 DEF Appended, Tried, Owing
  <2>4. ASSUME NEW k \in DOMAIN notices' \ DOMAIN notices
        PROVE  mailed'[k] <= Cardinality(Tried(k)') + deaths' /\ notices'[k].status = "pending"
    <3>1. mailed'[k] = 0 /\ notices'[k].status = "pending"
      BY <2>1, <2>4 DEF Appended, NewNotice
    <3>2. Cardinality(Tried(k)') \in Nat
      BY <1>3, Counting
    <3> QED BY <1>2, <3>1, <3>2
  <2> QED BY <1>4, <2>3, <2>4
<1> QED BY <1>6, <1>7, <1>8, <1>9, <1>10, <1>11, <1>12, MailSteps

\* A notice is mailed once by each worker that read it and once more for each
\* death before the commit, however the mailers interleave (deliver_pending).
THEOREM MailedOnceEach == NoticesSpec => []MailedOncePerTry
<1>1. NoticesInit => TryInv
  BY EmptySeq DEF NoticesInit, TryInv, TriedInv, OwingInv
<1>2. NoticesInv /\ TryInv => MailedOncePerTry
  <2> SUFFICES ASSUME NoticesInv, TryInv, NEW k \in DOMAIN notices
               PROVE  mailed[k] <= Cardinality(Workers) + deaths
    BY DEF MailedOncePerTry
  <2>1. mailed[k] \in Nat /\ deaths \in Nat
    BY LenProperties DEF NoticesInv, MailInv, NoticesTypeOK
  <2>2. Cardinality(Owing(k)) \in Nat /\ Cardinality(Workers) \in Nat
    BY Counting DEF Owing
  <2>3. mailed[k] + Cardinality(Owing(k)) <= Cardinality(Workers) + deaths
    BY DEF TryInv, OwingInv
  <2> QED BY <2>1, <2>2, <2>3
<1> QED BY <1>1, <1>2, TryStep, NoticesInvariant, PTL DEF NoticesSpec
-----------------------------------------------------------------------------
(* What the record says.  A verdict "sent" is only held, and later recorded, *)
(* after the e-mail; with one worker that never died, an e-mail is recorded, *)
(* or still held by that worker, as sent or as failed.                       *)

SentInv ==
  /\ \A k \in DOMAIN notices : notices[k].status = "sent" => mailed[k] > 0
  /\ \A w \in Workers : \A k \in DOMAIN mailer[w].verdict :
       mailer[w].verdict[k] = "sent" => mailed[k] > 0

Sure == Cardinality(Workers) = 1 /\ deaths = 0

Held(k) == \E w \in Workers :
  k \in DOMAIN mailer[w].verdict /\ mailer[w].verdict[k] \in {"sent", "failed"}

SureInv == Sure => \A k \in DOMAIN notices :
  /\ \A w \in Workers : k \in mailer[w].batch => notices[k].status \in {"pending", "gone"}
  /\ mailed[k] > 0 => notices[k].status \in {"sent", "failed", "gone"} \/ Held(k)

DeliveryInv == SentInv /\ SureInv

LEMMA SentStep == NoticesInv /\ SentInv /\ [NoticesNext]_allVars => SentInv'
<1> SUFFICES ASSUME NoticesInv, SentInv, [NoticesNext]_allVars PROVE SentInv'
  OBVIOUS
<1> USE DEF NoticesInv, MailInv
<1>1. /\ DOMAIN notices = DOMAIN mailed
      /\ \A k \in DOMAIN notices : mailed[k] \in Nat /\ notices[k] \in Notice
      /\ \A w \in Workers : DOMAIN mailer[w].verdict \subseteq DOMAIN notices
  BY LenProperties DEF NoticesTypeOK, BatchInv
<1>2. CASE Apart
  BY <1>2 DEF Apart, post, SentInv
<1>3. CASE PutDown
  BY <1>3, QuiescentFacts DEF PutDown, Emptied, SentInv, NoticesTypeOK
<1>4. CASE PickUp
  BY <1>4 DEF PickUp, SentInv, NoticesTypeOK
<1>5. CASE Deliver
  <2>1. PICK w \in Workers, m \in Mailers, v \in Outcomes : \E x : Dealt(w, m, v, x)
    BY <1>5 DEF Deliver
  <2>2. PICK x : Dealt(w, m, v, x)
    BY <2>1
  <2>3. x \in DOMAIN notices /\ mailed[x] \in Nat
    BY <1>1, <2>2 DEF Dealt, BatchInv
  <2>4. \A k \in DOMAIN notices : mailed[k] > 0 => mailed'[k] > 0
    BY <1>1, <2>2, <2>3 DEF Dealt, Mailing
  <2>5. v = "sent" => mailed'[x] > 0
    BY <1>1, <2>2, <2>3 DEF Dealt, Mailing
  <2>6. \A k \in DOMAIN notices' : notices'[k].status = "sent" => mailed'[k] > 0
    BY <2>2, <2>4 DEF Dealt, SentInv
  <2>7. \A k \in DOMAIN m.verdict : m.verdict[k] = "sent" => mailed'[k] > 0
    BY <1>1, <2>2, <2>4, <2>5 DEF Dealt, SentInv
  <2>8. mailer' = [mailer EXCEPT ![w] = m]
    BY <2>2 DEF Dealt
  <2>9. \A u \in Workers : mailer'[u] = IF u = w THEN m ELSE mailer[u]
    BY <2>8 DEF NoticesTypeOK
  <2>10. ASSUME NEW u \in Workers, NEW k \in DOMAIN mailer'[u].verdict, mailer'[u].verdict[k] = "sent"
         PROVE  mailed'[k] > 0
    BY <1>1, <2>4, <2>7, <2>9, <2>10 DEF SentInv
  <2> QED BY <2>6, <2>10 DEF SentInv
<1>6. CASE Recorded
  <2>1. PICK w \in Workers :
          /\ DOMAIN mailer[w].verdict = mailer[w].batch
          /\ notices' = [k \in DOMAIN notices |->
               IF k \in mailer[w].batch
               THEN [notices[k] EXCEPT !.status = mailer[w].verdict[k]] ELSE notices[k]]
          /\ Emptied(w, "idle")
          /\ UNCHANGED <<mailed, deaths>>
    BY <1>6 DEF Recorded
  <2>2. \A k \in DOMAIN notices' : notices'[k].status = "sent" => mailed'[k] > 0
    BY <1>1, <2>1 DEF SentInv, Notice
  <2> QED BY <2>1, <2>2, QuiescentFacts DEF SentInv, Emptied, NoticesTypeOK
<1>7. CASE Unposted
  <2>1. \A k \in DOMAIN notices' : notices'[k].status = "sent" => mailed'[k] > 0
    BY <1>1, <1>7 DEF Unposted, post, Notice, SentInv
  <2> QED BY <1>7, <2>1 DEF Unposted, post, SentInv
<1>8. CASE Posted
  <2>1. PICK r \in Runs, events \in SUBSET Events : Appended(r, events)
    BY <1>8 DEF Posted
  <2>2. \A k \in DOMAIN notices' : notices'[k].status = "sent" => mailed'[k] > 0
    BY <2>1 DEF Appended, SentInv, NewNotice
  <2> QED BY <1>1, <1>8, <2>1, <2>2 DEF Posted, Appended, SentInv
<1> QED BY <1>2, <1>3, <1>4, <1>5, <1>6, <1>7, <1>8, MailSteps

LEMMA SureStep == NoticesInv /\ SureInv /\ [NoticesNext]_allVars => SureInv'
<1> SUFFICES ASSUME NoticesInv, SureInv, [NoticesNext]_allVars, Sure' PROVE SureInv'
  BY DEF SureInv
<1> USE DEF NoticesInv, MailInv
<1>1. /\ DOMAIN notices = DOMAIN mailed
      /\ \A k \in DOMAIN notices : mailed[k] \in Nat /\ notices[k] \in Notice
      /\ \A w \in Workers : DOMAIN mailer[w].verdict \subseteq mailer[w].batch
      /\ \A w \in Workers : mailer[w].batch \subseteq DOMAIN notices
  BY LenProperties DEF NoticesTypeOK, BatchInv
<1>2. deaths' = 0 /\ \A v, w \in Workers : v = w
  <2>1. \E x : Workers = {x}
    BY NoticesAssumption, FS_Singleton DEF Sure
  <2> QED BY <2>1 DEF Sure
<1>3. deaths \in Nat /\ deaths' \in {deaths, deaths + 1}
  <2>1. deaths \in Nat
    BY DEF NoticesTypeOK
  <2>2. deaths' \in {deaths, deaths + 1}
    BY MailSteps DEF Apart, PutDown, PickUp, Deliver, Dealt, Recorded, Unposted, Posted, post
  <2> QED BY <2>1, <2>2
<1>4. Sure /\ deaths' = deaths
  BY <1>2, <1>3 DEF Sure
<1>5. \A k \in DOMAIN notices :
        /\ \A w \in Workers : k \in mailer[w].batch => notices[k].status \in {"pending", "gone"}
        /\ mailed[k] > 0 => notices[k].status \in {"sent", "failed", "gone"} \/ Held(k)
  BY <1>4 DEF SureInv
<1>6. CASE Apart
  BY <1>5, <1>6 DEF Apart, post, SureInv, Held
<1>7. CASE PutDown
  <2>1. PICK w \in Workers, p \in {"idle", "due"} :
          Emptied(w, p) /\ UNCHANGED <<notices, mailed>> /\ mailer[w].batch = {}
    BY <1>3, <1>4, <1>7 DEF PutDown
  <2>2. \A v \in Workers : mailer'[v].batch = {} /\ DOMAIN mailer[v].verdict = {}
    BY <1>1, <1>2, <2>1, QuiescentFacts DEF Emptied, NoticesTypeOK
  <2> QED BY <1>5, <2>1, <2>2 DEF SureInv, Held
<1>8. CASE PickUp
  <2>1. PICK w \in Workers, m \in Mailers :
          /\ mailer[w].pc = "due"
          /\ mailer' = [mailer EXCEPT ![w] = m] /\ m.batch \subseteq Pending
          /\ UNCHANGED <<notices, mailed, deaths>>
    BY <1>8 DEF PickUp
  <2>2. \A v \in Workers : mailer'[v] = m /\ DOMAIN mailer[v].verdict = {}
    BY <1>2, <2>1 DEF NoticesTypeOK, BatchInv
  <2> QED BY <1>5, <2>1, <2>2 DEF SureInv, Held, Pending
<1>9. CASE Deliver
  <2>1. PICK w \in Workers, m \in Mailers, v \in Outcomes : \E x : Dealt(w, m, v, x)
    BY <1>9 DEF Deliver
  <2>2. PICK x : Dealt(w, m, v, x)
    BY <2>1
  <2>3. /\ x \in mailer[w].batch \ DOMAIN mailer[w].verdict /\ m.batch = mailer[w].batch
        /\ DOMAIN m.verdict = DOMAIN mailer[w].verdict \cup {x} /\ m.verdict[x] = v
        /\ \A j \in DOMAIN mailer[w].verdict : m.verdict[j] = mailer[w].verdict[j]
        /\ mailed' \in Mailing(v, x)
        /\ notices' = notices
    BY <2>2 DEF Dealt
  <2>4. \A u \in Workers : u = w /\ mailer'[u] = m
    BY <1>2, <2>2 DEF Dealt, NoticesTypeOK
  <2>5. \A k \in DOMAIN notices' : \A u \in Workers :
          k \in mailer'[u].batch => notices'[k].status \in {"pending", "gone"}
    BY <1>5, <2>3, <2>4
  <2>6. ASSUME NEW k \in DOMAIN notices, mailed'[k] > 0
        PROVE  notices[k].status \in {"sent", "failed", "gone"}
               \/ (k \in DOMAIN m.verdict /\ m.verdict[k] \in {"sent", "failed"})
    <3>1. CASE k = x
      <4>1. CASE v \in {"sent", "failed"}
        BY <2>3, <3>1, <4>1
      <4>2. CASE v = "skipped"
        <5>1. mailed[k] > 0 /\ ~Held(k)
          BY <1>2, <2>3, <2>6, <3>1, <4>2 DEF Held, Mailing
        <5> QED BY <1>5, <5>1
      <4> QED BY <4>1, <4>2 DEF Outcomes
    <3>2. CASE k # x
      <4>1. mailed[k] > 0
        BY <1>1, <2>3, <2>6, <3>2 DEF Mailing
      <4>2. CASE Held(k)
        BY <1>2, <2>3, <4>2 DEF Held
      <4> QED BY <1>5, <4>1, <4>2
    <3> QED BY <3>1, <3>2
  <2>7. \A k \in DOMAIN notices' :
          mailed'[k] > 0 => notices'[k].status \in {"sent", "failed", "gone"} \/ Held(k)'
    BY <2>3, <2>4, <2>6 DEF Held
  <2> QED BY <2>5, <2>7 DEF SureInv
<1>10. CASE Recorded
  <2>1. PICK w \in Workers :
          /\ DOMAIN mailer[w].verdict = mailer[w].batch
          /\ notices' = [k \in DOMAIN notices |->
               IF k \in mailer[w].batch
               THEN [notices[k] EXCEPT !.status = mailer[w].verdict[k]] ELSE notices[k]]
          /\ Emptied(w, "idle")
          /\ UNCHANGED <<mailed, deaths>>
    BY <1>10 DEF Recorded
  <2>2. \A v \in Workers : v = w /\ mailer'[v].batch = {}
    BY <1>2, <2>1, QuiescentFacts DEF Emptied, NoticesTypeOK
  <2>3. ASSUME NEW k \in DOMAIN notices, mailed[k] > 0
        PROVE  notices'[k].status \in {"sent", "failed", "gone"}
    <3>1. CASE k \in mailer[w].batch
      <4>1. notices'[k].status = mailer[w].verdict[k]
        BY <1>1, <2>1, <3>1 DEF Notice
      <4>2. CASE Held(k)
        BY <2>2, <4>1, <4>2 DEF Held
      <4>3. CASE ~Held(k)
        <5>1. notices[k].status \in {"sent", "failed", "gone"} /\ notices[k].status \in {"pending", "gone"}
          BY <1>5, <2>3, <3>1, <4>3
        <5>2. notices[k].status # "gone"
          BY <1>10, <2>2, <3>1 DEF Recorded
        <5> QED BY <5>1, <5>2
      <4> QED BY <4>2, <4>3
    <3>2. CASE k \notin mailer[w].batch
      <4>1. ~Held(k)
        BY <2>1, <2>2, <3>2 DEF Held
      <4> QED BY <1>5, <2>1, <2>3, <3>2, <4>1
    <3> QED BY <3>1, <3>2
  <2> QED BY <2>1, <2>2, <2>3 DEF SureInv
<1>11. CASE Unposted
  <2>1. \A k \in DOMAIN notices : notices'[k].status \in {notices[k].status, "gone"}
    BY <1>1, <1>11 DEF Unposted, Notice
  <2>2. DOMAIN notices' = DOMAIN notices /\ UNCHANGED <<mailer, mailed>>
    BY <1>11 DEF Unposted, post
  <2> QED BY <1>5, <2>1, <2>2 DEF SureInv, Held
<1>12. CASE Posted
  <2>1. PICK r \in Runs, events \in SUBSET Events : Appended(r, events)
    BY <1>12 DEF Posted
  <2>2. mailer' = mailer
    BY <1>12 DEF Posted
  <2>3. \A k \in DOMAIN notices' \ DOMAIN notices :
          mailed'[k] = 0 /\ \A w \in Workers : k \notin mailer[w].batch
    BY <1>1, <2>1 DEF Appended
  <2>4. \A k \in DOMAIN notices : notices'[k] = notices[k] /\ mailed'[k] = mailed[k]
    BY <2>1 DEF Appended
  <2> QED BY <1>5, <2>2, <2>3, <2>4 DEF SureInv, Held
<1> QED BY <1>6, <1>7, <1>8, <1>9, <1>10, <1>11, <1>12, MailSteps

\* What is recorded as sent was mailed; but for a second worker or a death,
\* what is recorded as skipped was not, nor was what is still to be mailed
\* (deliver_pending).
THEOREM RecordIsTrue == NoticesSpec => []RecordTellsDelivery
<1>1. NoticesInit => DeliveryInv
  BY QuiescentFacts DEF NoticesInit, DeliveryInv, SentInv, SureInv
<1>2. NoticesInv /\ DeliveryInv /\ [NoticesNext]_allVars => DeliveryInv'
  BY SentStep, SureStep DEF DeliveryInv
<1>3. NoticesInv /\ DeliveryInv => RecordTellsDelivery
  <2> SUFFICES ASSUME NoticesInv, DeliveryInv, NEW k \in DOMAIN notices
               PROVE  /\ notices[k].status = "sent" => mailed[k] > 0
                      /\ Sure /\ notices[k].status = "skipped" => mailed[k] = 0
                      /\ Sure /\ notices[k].status = "pending"
                           /\ (\A w \in Workers : k \notin mailer[w].batch) => mailed[k] = 0
    BY DEF RecordTellsDelivery, Sure
  <2>1. notices[k].status = "sent" => mailed[k] > 0
    BY DEF DeliveryInv, SentInv
  <2>2. ASSUME Sure, notices[k].status \in {"skipped", "pending"},
               \A w \in Workers : k \notin mailer[w].batch
        PROVE  mailed[k] = 0
    <3>1. ~Held(k)
      BY <2>2 DEF Held, NoticesInv, MailInv, BatchInv
    <3>2. ~(mailed[k] > 0)
      BY <2>2, <3>1 DEF DeliveryInv, SureInv
    <3>3. mailed[k] \in Nat
      BY LenProperties DEF NoticesInv, MailInv, NoticesTypeOK
    <3> QED BY <3>2, <3>3
  <2>3. ASSUME Sure, notices[k].status = "skipped"
        PROVE  \A w \in Workers : k \notin mailer[w].batch
    BY <2>3 DEF DeliveryInv, SureInv
  <2> QED BY <2>1, <2>2, <2>3
<1> QED BY <1>1, <1>2, <1>3, NoticesInvariant, PTL DEF NoticesSpec
-----------------------------------------------------------------------------
(* Who is told.  A run that was announced has no thread left, and a run that *)
(* was started gets none: that is why it is not announced a second time.     *)

AfterInv == \A k \in DOMAIN notices :
  /\ Started(notices[k].run)
  /\ \A w \in Workers : supervisor[w][notices[k].run].pc = "idle"

LEMMA IdleStays ==
  ASSUME QueueInv, SupervisedOnce, [Next]_vars \/ (\E x \in Workers : Dies(x)),
         NEW w \in Workers, NEW r \in Runs, supervisor[w][r].pc = "idle", Started(r)
  PROVE  supervisor'[w][r].pc = "idle" /\ Started(r)'
<1> USE DEF QueueInv, TypeOK
<1>1. NoSupervisor.pc = "idle"
  BY SupFields DEF NoSupervisor
<1>2. Started(r)'
  <2>1. CASE [Next]_vars
    BY <2>1, StepKinds, StartedForEver
  <2>2. CASE \E x \in Workers : Dies(x)
    BY <2>2 DEF Dies, rows, Started
  <2> QED BY <2>1, <2>2
<1>3. CASE UNCHANGED supervisor
  BY <1>2, <1>3
<1>4. ASSUME NEW x \in Workers, Restart(x) PROVE supervisor'[w][r].pc = "idle"
  BY <1>1, <1>4 DEF Restart
<1>5. ASSUME NEW u \in Users, Http(u) PROVE UNCHANGED supervisor
  BY <1>5 DEF Http, create_run, InsertRun, RereadRun, add_requester, cancel_run, request_cancel
<1>6. ASSUME NEW x \in Workers, NEW q \in Runs, Supervise(x, q) PROVE supervisor'[w][r].pc = "idle"
  <2>1. CASE x = w /\ q = r
    <3>1. OrphanExit(w, r)
      BY <1>6, <2>1 DEF Supervise, Spawn, Heartbeat, OverTime, Kill, EngineExit, Persist,
             notify_run_finished, _guarded, SupervisorFails
    <3> QED BY <1>1, <3>1 DEF OrphanExit
  <2>2. CASE ~(x = w /\ q = r)
    <3>1. supervisor'[w][r] = supervisor[w][r]
      BY <1>6, <2>2 DEF Supervise, Spawn, Heartbeat, OverTime, Kill, EngineExit, Persist, RowGone,
             notify_run_finished, _guarded, OrphanExit, SupervisorFails
    <3> QED BY <3>1
  <2> QED BY <2>1, <2>2
<1>7. ASSUME NEW q \in Runs, delete_run(q) \/ HeartbeatAges(q) PROVE UNCHANGED supervisor
  BY <1>7 DEF delete_run, HeartbeatAges
<1>8. ASSUME NEW x \in Workers, recover_stale(x) \/ claim_next(x) PROVE UNCHANGED supervisor
  BY <1>8 DEF recover_stale, claim_next
<1>9. ASSUME NEW x \in Workers, FailStale(x) \/ Crash(x) PROVE UNCHANGED supervisor \/ Restart(x)
  BY <1>9 DEF FailStale, Crash
<1>10. ASSUME NEW x \in Workers, NEW S, ClaimOldest(x, S) PROVE supervisor'[w][r].pc = "idle"
  BY <1>10 DEF ClaimOldest, Claimable, Started
<1>11. CASE \E x \in Workers : Dies(x)
  BY <1>2, <1>4, <1>11 DEF Dies
<1>12. CASE UNCHANGED vars
  BY <1>2, <1>12 DEF vars
<1>13. CASE Next
  BY <1>2, <1>3, <1>4, <1>5, <1>6, <1>7, <1>8, <1>9, <1>10, <1>13 DEF Next, MainLoop
<1> QED BY <1>11, <1>12, <1>13

\* The thread that announces a run was its only one, and it ends.
LEMMA AnnounceEnds ==
  ASSUME QueueInv, SupervisedOnce, NEW w \in Workers, NEW r \in Runs, Announce(w, r)
  PROVE  /\ supervisor[w][r].pc = "notify"
         /\ Started(r)'
         /\ \A v \in Workers : supervisor'[v][r].pc = "idle"
<1> USE DEF QueueInv, TypeOK
<1>1. /\ supervisor[w][r].pc = "notify" /\ UNCHANGED status
      /\ supervisor' = [supervisor EXCEPT ![w][r] = Ended(@)]
  BY DEF Announce, notify_run_finished, rows
<1>2. supervisor[w][r] # NoSupervisor
  BY <1>1, SupFields DEF NoSupervisor
<1>3. Started(r)'
  BY <1>1, <1>2 DEF ThreadInv, Started
<1>4. \A v \in Workers : v # w => supervisor[v][r] = NoSupervisor
  BY <1>2 DEF SupervisedOnce
<1>5. supervisor'[w][r].pc = "idle"
  BY <1>1, SupFields DEF Ended, NoSupervisor
<1> QED BY <1>1, <1>3, <1>4, <1>5, SupFields DEF NoSupervisor

ToldInv == NoticeOnce /\ AfterInv

LEMMA ToldStep == NoticesInv /\ ToldInv /\ [NoticesNext]_allVars => ToldInv'
<1> SUFFICES ASSUME NoticesInv, ToldInv, [NoticesNext]_allVars PROVE ToldInv'
  OBVIOUS
<1> USE DEF NoticesInv
<1>1. \A k \in DOMAIN notices : /\ notices[k].run \in Runs
                                /\ notices'[k].run = notices[k].run
                                /\ notices'[k].user = notices[k].user
                                /\ notices'[k].event = notices[k].event
  <2>1. \A k \in DOMAIN notices : notices[k].run \in Runs
    <3>1. \A k \in DOMAIN notices : notices[k] \in Notice
      BY LenProperties DEF MailInv, NoticesTypeOK
    <3> QED BY <3>1 DEF Notice
  <2> QED BY <2>1, NoticesStay
<1>2. ASSUME NEW k \in DOMAIN notices
      PROVE  /\ status'[notices'[k].run] \notin {"absent", "queued"}
             /\ \A w \in Workers : supervisor'[w][notices'[k].run].pc = "idle"
  <2>1. PICK r \in Runs : r = notices[k].run /\ r = notices'[k].run
    BY <1>1, <1>2
  <2>2. Started(r) /\ \A w \in Workers : supervisor[w][r].pc = "idle"
    BY <1>2, <2>1 DEF ToldInv, AfterInv
  <2>3. [Next]_vars \/ \E x \in Workers : Dies(x)
    BY QueueSteps
  <2>4. \A w \in Workers : supervisor'[w][r].pc = "idle"
    BY <2>2, <2>3, IdleStays
  <2>5. status'[r] \notin {"absent", "queued"}
    <3>1. CASE [Next]_vars
      BY <2>2, <3>1, StepKinds, StartedForEver DEF Started
    <3>2. CASE \E x \in Workers : Dies(x)
      BY <2>2, <3>2 DEF Dies, rows, Started
    <3> QED BY <2>3, <3>1, <3>2
  <2> QED BY <2>1, <2>4, <2>5 DEF Started
<1>3. CASE ~Posted
  <2>1. DOMAIN notices' = DOMAIN notices
    <3>1. CASE Settles
      BY <3>1, SettlesKeeps DEF MailInv
    <3>2. CASE Apart \/ PutDown \/ PickUp \/ Deliver
      BY <3>2 DEF Apart, PutDown, PickUp, Deliver, Dealt, post
    <3> QED BY <1>3, <3>1, <3>2, MailSteps DEF Settles
  <2>2. NoticeOnce'
    BY <1>1, <2>1 DEF ToldInv, NoticeOnce
  <2>3. AfterInv'
    BY <1>2, <2>1 DEF AfterInv, Started
  <2> QED BY <2>2, <2>3 DEF ToldInv
<1>4. CASE Posted
  <2>1. PICK w \in Workers, r \in Runs :
          Announce(w, r) /\ \E events \in SUBSET Events : Appended(r, events)
    BY <1>4 DEF Posted
  <2>2. PICK events \in SUBSET Events : Appended(r, events)
    BY <2>1
  <2>3. /\ supervisor[w][r].pc = "notify" /\ Started(r)'
        /\ \A v \in Workers : supervisor'[v][r].pc = "idle"
    BY <2>1, AnnounceEnds
  <2> DEFINE New == DOMAIN notices' \ DOMAIN notices
  <2>4. \A k \in New : \E e \in events : \E u \in _recipients(r, e) : notices'[k] = NewNotice(r, u, e)
    BY <2>2 DEF Appended
  <2>5. \A k \in New : /\ notices'[k].run = r
                       /\ notices'[k] = NewNotice(r, notices'[k].user, notices'[k].event)
    BY <2>4 DEF NewNotice
  <2>6. \A j, k \in New : notices'[j] = notices'[k] => j = k
    BY <2>2 DEF Appended
  <2>7. \A k \in DOMAIN notices : notices'[k].run # r
    BY <1>1, <2>3 DEF ToldInv, AfterInv
  <2>8. NoticeOnce'
    <3> SUFFICES ASSUME NEW j \in DOMAIN notices', NEW k \in DOMAIN notices',
                        notices'[j].run = notices'[k].run,
                        notices'[j].user = notices'[k].user,
                        notices'[j].event = notices'[k].event
                 PROVE  j = k
      BY DEF NoticeOnce
    <3>1. CASE j \in New /\ k \in New
      BY <2>5, <2>6, <3>1
    <3>2. CASE j \notin New /\ k \notin New
      BY <1>1, <3>2 DEF ToldInv, NoticeOnce
    <3> QED BY <2>5, <2>7, <3>1, <3>2
  <2>9. AfterInv'
    <3> SUFFICES ASSUME NEW k \in DOMAIN notices'
                 PROVE  /\ status'[notices'[k].run] \notin {"absent", "queued"}
                        /\ \A v \in Workers : supervisor'[v][notices'[k].run].pc = "idle"
      BY DEF AfterInv, Started
    <3>1. CASE k \in New
      BY <2>3, <2>5, <3>1 DEF Started
    <3> QED BY <1>2, <3>1
  <2> QED BY <2>8, <2>9 DEF ToldInv
<1> QED BY <1>3, <1>4

\* Nobody gets two notices of one event of a run, although a run may be decided
\* more than once (notify_run_finished, recover_stale, request_cancel).
THEOREM ToldOnce == NoticesSpec => []NoticeOnce
<1>1. NoticesInit => ToldInv
  BY DEF NoticesInit, ToldInv, NoticeOnce, AfterInv
<1>2. ToldInv => NoticeOnce
  BY DEF ToldInv
<1> QED BY <1>1, <1>2, ToldStep, NoticesInvariant, PTL DEF NoticesSpec
-----------------------------------------------------------------------------
(* The result reaches who asked for it.  Without a fault, a verdict that a    *)
(* supervisor wrote is either still to be announced by its thread, which      *)
(* holds what the verdict came from, or the notice is there.                  *)

Results == {"completed", "partial", "expired"}

OwnerInv == \A r \in Runs : Exists(r) => initiated_by[r] \in requesters[r]

Decider(s, verdict) == IF verdict = "expired" THEN s.stop = "timed_out"
                       ELSE s.stop = "no" /\ s.engine = "outcome"

About(w, r) == supervisor[w][r].pc = "notify" /\ Decider(supervisor[w][r], status[r])

Wanted(r) == EVENT_BY_STATUS[status[r]] \in Wants[initiated_by[r]]

Reached(r) == \E k \in DOMAIN notices : /\ notices[k].run = r
                                        /\ notices[k].user = initiated_by[r]
                                        /\ notices[k].event = EVENT_BY_STATUS[status[r]]

ResultInv == faults = 0 /\ deaths = 0 =>
  \A r \in Runs : status[r] \in Results /\ Wanted(r) =>
    Reached(r) \/ \E w \in Workers : About(w, r)

\* No step but an INSERT makes a row exist.
LEMMA ExistedBefore ==
  ASSUME TypeOK, NoticesNext, NEW r \in Runs, Exists(r)'
  PROVE  Exists(r) \/ \E u \in Users : QueueWithRequester(u) /\ status'[r] # status[r]
<1> USE DEF TypeOK
<1> DEFINE E == ACTIVE_STATUSES \cup FINAL_STATUSES
<1>1. CASE status'[r] = status[r]
  BY <1>1 DEF Exists
<1>2. CASE status'[r] # status[r]
  <2>1. ASSUME NEW u \in Users, RequestStep(u) PROVE Exists(r) \/ QueueWithRequester(u)
    BY <1>2, <2>1 DEF RequestStep, Attach, add_requester, create_run, RereadRun, cancel_run,
       request_cancel, rows, Exists
  <2>2. ASSUME NEW w \in Workers, Die(w) PROVE FALSE
    BY <1>2, <2>2 DEF Die, Crash, rows
  <2>3. ASSUME NEW w \in Workers, LoopStep(w) PROVE Exists(r)
    <3>1. CASE StaleFailed(w)
      <4>1. \A q \in worker[w].stale : Exists(q)
        BY <1>2, <3>1 DEF StaleFailed, FailStale
      <4>2. r \in worker[w].stale \/ status[r] = "queued"
        BY <1>2, <3>1, <4>1 DEF StaleFailed, FailStale
      <4> QED BY <4>1, <4>2 DEF Exists, ACTIVE_STATUSES
    <3>2. CASE \E skipped \in SUBSET Locked : ClaimOldest(w, skipped) /\ Untold
      <4>1. status[r] = "queued"
        BY <1>2, <3>2 DEF ClaimOldest, Claimable, rows
      <4> QED BY <4>1 DEF Exists, ACTIVE_STATUSES
    <3>3. CASE ReadPending(w) \/ SendNotice(w) \/ CommitDelivery(w)
      BY <1>2, <3>3 DEF ReadPending, SendNotice, CommitDelivery, vars, rows
    <3>4. CASE LookForWork(w) \/ (recover_stale(w) /\ Untold)
      BY <1>2, <3>4 DEF LookForWork, claim_next, recover_stale, rows
    <3> QED BY <2>3, <3>1, <3>2, <3>3, <3>4 DEF LoopStep
  <2>4. ASSUME NEW w \in Workers, NEW q \in Runs, SupervisorStep(w, q) PROVE Exists(r)
    BY <1>2, <2>4 DEF SupervisorStep, Announce, notify_run_finished, Spawn, Heartbeat, OverTime, Kill,
       EngineExit, Persist, RowGone, _guarded, OrphanExit, SupervisorFails, rows, Exists, ACTIVE_STATUSES
  <2>5. ASSUME NEW q \in Runs, DeleteWithNotices(q) PROVE Exists(r)
    BY <1>2, <2>5 DEF DeleteWithNotices, delete_run, Exists
  <2>6. ASSUME NEW q \in Runs, HeartbeatAges(q) PROVE FALSE
    BY <1>2, <2>6 DEF HeartbeatAges
  <2> QED BY <1>2, <2>1, <2>2, <2>3, <2>4, <2>5, <2>6 DEF NoticesNext
<1> QED BY <1>1, <1>2

\* The initiator of a run changes when the run is queued and when it goes, and
\* nobody else stops being one of its requesters.
LEMMA OwnersStay ==
  ASSUME TypeOK, NoticesTypeOK, [NoticesNext]_allVars, NEW r \in Runs
  PROVE  \/ \E u \in Users : /\ QueueWithRequester(u) /\ status'[r] # status[r]
                             /\ initiated_by'[r] = u /\ requesters'[r] = {u}
         \/ status'[r] = "deleted"
         \/ initiated_by'[r] = initiated_by[r] /\ requesters[r] \subseteq requesters'[r]
<1> USE DEF TypeOK, NoticesTypeOK
<1>1. CASE UNCHANGED <<initiated_by, requesters>>
  BY <1>1
<1>2. ASSUME NEW u \in Users, QueueWithRequester(u)
      PROVE  \/ /\ status'[r] # status[r]
                /\ initiated_by'[r] = u /\ requesters'[r] = {u}
             \/ initiated_by'[r] = initiated_by[r] /\ requesters[r] \subseteq requesters'[r]
  BY <1>2 DEF QueueWithRequester
<1>3. ASSUME NEW u \in Users, Attach(u)
      PROVE  initiated_by'[r] = initiated_by[r] /\ requesters[r] \subseteq requesters'[r]
  BY <1>3 DEF Attach
<1>4. ASSUME NEW q \in Runs, DeleteWithNotices(q)
      PROVE  \/ status'[r] = "deleted"
             \/ initiated_by'[r] = initiated_by[r] /\ requesters[r] \subseteq requesters'[r]
  BY <1>4 DEF DeleteWithNotices, delete_run
<1>5. ASSUME NEW w \in Workers, LoopStep(w) \/ Die(w) PROVE UNCHANGED <<initiated_by, requesters>>
  BY <1>5 DEF LoopStep, Die, Untold, StaleFailed, ReadPending, SendNotice, CommitDelivery,
              LookForWork, tables
<1>6. ASSUME NEW w \in Workers, NEW q \in Runs, SupervisorStep(w, q)
      PROVE  UNCHANGED <<initiated_by, requesters>>
  BY <1>6 DEF SupervisorStep, Announce, Untold, tables
<1>7. ASSUME Untold PROVE UNCHANGED <<initiated_by, requesters>>
  BY <1>7 DEF Untold, tables
<1>8. ASSUME UNCHANGED allVars PROVE UNCHANGED <<initiated_by, requesters>>
  BY <1>8 DEF allVars, tables
<1> QED BY <1>1, <1>2, <1>3, <1>4, <1>5, <1>6, <1>7, <1>8 DEF NoticesNext, RequestStep

LEMMA OwnerStep == NoticesInv /\ OwnerInv /\ [NoticesNext]_allVars => OwnerInv'
<1> SUFFICES ASSUME NoticesInv, OwnerInv, [NoticesNext]_allVars, NEW r \in Runs, Exists(r)'
             PROVE  initiated_by'[r] \in requesters'[r]
  BY DEF OwnerInv, Exists
<1> USE DEF NoticesInv, QueueInv, MailInv
<1>1. status'[r] # "deleted"
  BY DEF Exists, ACTIVE_STATUSES, FINAL_STATUSES
<1>2. CASE initiated_by'[r] = initiated_by[r] /\ requesters[r] \subseteq requesters'[r]
  <2>1. CASE Exists(r)
    BY <1>2, <2>1 DEF OwnerInv
  <2>2. CASE ~Exists(r)
    <3>1. NoticesNext
      BY <2>2 DEF allVars, vars, rows, Exists
    <3>2. PICK u \in Users : QueueWithRequester(u) /\ status'[r] # status[r]
      BY <2>2, <3>1, ExistedBefore
    <3> QED BY <3>2 DEF QueueWithRequester
  <2> QED BY <2>1, <2>2
<1> QED BY <1>1, <1>2, OwnersStay

\* Only the supervisor that persists a result makes a row a result.
LEMMA ResultFrom ==
  ASSUME TypeOK, [NoticesNext]_allVars, NEW r \in Runs, status'[r] \in Results, status'[r] # status[r]
  PROVE  \E w \in Workers : Persist(w, r) /\ Exists(r)
<1> USE DEF TypeOK, Results
<1>1. NoticesNext
  BY DEF allVars, vars, rows
<1>2. ASSUME NEW u \in Users, RequestStep(u) PROVE FALSE
  BY <1>2 DEF RequestStep, QueueWithRequester, InsertRun, Attach, add_requester, create_run,
     RereadRun, cancel_run, request_cancel, rows
<1>3. ASSUME NEW w \in Workers, Die(w) PROVE FALSE
  BY <1>3 DEF Die, Crash, rows
<1>4. ASSUME NEW w \in Workers, LoopStep(w) PROVE FALSE
  <2>1. CASE StaleFailed(w)
    BY <2>1 DEF StaleFailed, FailStale
  <2>2. CASE \E skipped \in SUBSET Locked : ClaimOldest(w, skipped) /\ Untold
    BY <2>2 DEF ClaimOldest, Claimable, rows
  <2>3. CASE ReadPending(w) \/ SendNotice(w) \/ CommitDelivery(w)
    BY <2>3 DEF ReadPending, SendNotice, CommitDelivery, vars, rows
  <2>4. CASE LookForWork(w) \/ (recover_stale(w) /\ Untold)
    BY <2>4 DEF LookForWork, claim_next, recover_stale, rows
  <2> QED BY <1>4, <2>1, <2>2, <2>3, <2>4 DEF LoopStep
<1>5. ASSUME NEW w \in Workers, NEW q \in Runs, SupervisorStep(w, q)
      PROVE  Persist(w, r) /\ Exists(r)
  <2>1. Persist(w, q)
    BY <1>5 DEF SupervisorStep, Announce, notify_run_finished, Spawn, Heartbeat, OverTime, Kill,
       EngineExit, RowGone, _guarded, OrphanExit, SupervisorFails, rows
  <2>2. q = r /\ Exists(r)
    BY <2>1 DEF Persist, RowGone, rows
  <2> QED BY <2>1, <2>2
<1>6. ASSUME NEW q \in Runs, DeleteWithNotices(q) \/ HeartbeatAges(q) PROVE FALSE
  BY <1>6 DEF DeleteWithNotices, delete_run, HeartbeatAges
<1> QED BY <1>1, <1>2, <1>3, <1>4, <1>5, <1>6 DEF NoticesNext

\* Without a fault or a death, a thread with a result of its own to announce
\* waits for it.
LEMMA AboutStays ==
  ASSUME QueueInv, NoticesTypeOK, [NoticesNext]_allVars, faults' = faults, deaths' = deaths,
         NEW w \in Workers, NEW r \in Runs,
         status[r] \in Results, status'[r] = status[r], About(w, r), ~Announce(w, r)
  PROVE  About(w, r)'
<1> USE DEF QueueInv, TypeOK, NoticesTypeOK
<1>1. ASSUME supervisor'[w][r] = supervisor[w][r] PROVE About(w, r)'
  BY <1>1 DEF About
<1>2. faults \in Nat /\ faults + 1 # faults /\ deaths + 1 # deaths
  BY QueueAssumption
<1>3. ASSUME NEW u \in Users, RequestStep(u) PROVE UNCHANGED supervisor
  BY <1>3 DEF RequestStep, QueueWithRequester, InsertRun, Attach, add_requester, create_run,
     RereadRun, cancel_run, request_cancel
<1>4. ASSUME NEW x \in Workers, Die(x) PROVE FALSE
  BY <1>2, <1>4 DEF Die
<1>5. ASSUME NEW x \in Workers, LoopStep(x) PROVE supervisor'[w][r] = supervisor[w][r]
  <2>1. CASE StaleFailed(x)
    <3>1. worker'[x].pc = "claim"
      BY <1>2, <2>1 DEF StaleFailed
    <3>2. ~Restart(x)
      BY <3>1, LoopFields DEF Restart
    <3> QED BY <2>1, <3>2 DEF StaleFailed, FailStale
  <2>2. CASE \E skipped \in SUBSET Locked : ClaimOldest(x, skipped) /\ Untold
    <3>1. PICK skipped \in SUBSET Locked : ClaimOldest(x, skipped)
      BY <2>2
    <3>2. r \notin Claimable(skipped)
      BY DEF Claimable, Results
    <3>3. supervisor \in [Workers -> [Runs -> Supervisors]]
      BY DEF TypeOK
    <3>4. CASE supervisor' = supervisor
      BY <3>4
    <3>5. CASE \E q \in Claimable(skipped) : supervisor' = [supervisor EXCEPT ![x][q] = Sup("spawn", "none", "no")]
      BY <3>2, <3>3, <3>5
    <3> QED BY <3>1, <3>4, <3>5 DEF ClaimOldest
  <2>3. CASE ReadPending(x) \/ SendNotice(x) \/ CommitDelivery(x)
    BY <1>2, <2>3 DEF ReadPending, SendNotice, CommitDelivery, vars
  <2>4. CASE LookForWork(x) \/ (recover_stale(x) /\ Untold)
    BY <2>4 DEF LookForWork, claim_next, recover_stale
  <2> QED BY <1>5, <2>1, <2>2, <2>3, <2>4 DEF LoopStep
<1>6. ASSUME NEW x \in Workers, NEW q \in Runs, SupervisorStep(x, q) PROVE About(w, r)'
  <2>1. CASE ~(x = w /\ q = r)
    <3>1. supervisor'[w][r] = supervisor[w][r]
      BY <1>6, <2>1 DEF SupervisorStep, Announce, notify_run_finished, Spawn, Heartbeat, OverTime, Kill,
         EngineExit, Persist, RowGone, _guarded, OrphanExit, SupervisorFails
    <3> QED BY <1>1, <3>1
  <2>2. CASE x = w /\ q = r
    <3>1. PICK o \in {"outcome", "empty"} : EngineExit(w, r, o)
      BY <1>2, <1>6, <2>2 DEF SupervisorStep, Spawn, Heartbeat, OverTime, Kill, Persist,
         _guarded, OrphanExit, SupervisorFails, About
    <3>2. /\ supervisor[w][r].engine = "alive" /\ supervisor[w][r].pc = "notify"
          /\ supervisor'[w][r] = Sup(supervisor[w][r].pc, o, supervisor[w][r].stop)
      BY <3>1 DEF EngineExit, About
    <3> QED BY <3>2, SupFields DEF About, Decider
  <2> QED BY <2>1, <2>2
<1>7. ASSUME NEW q \in Runs, DeleteWithNotices(q) \/ HeartbeatAges(q) PROVE UNCHANGED supervisor
  BY <1>7 DEF DeleteWithNotices, delete_run, HeartbeatAges
<1>8. ASSUME UNCHANGED allVars PROVE UNCHANGED supervisor
  BY <1>8 DEF allVars, vars
<1> QED BY <1>1, <1>3, <1>4, <1>5, <1>6, <1>7, <1>8 DEF NoticesNext

\* What it announces reaches the initiator of the run.
LEMMA AnnounceReaches ==
  ASSUME NoticesInv, OwnerInv, NEW w \in Workers, NEW r \in Runs, Announce(w, r),
         status[r] \in Results, About(w, r), Wanted(r)
  PROVE  Reached(r)'
<1> DEFINE s == supervisor[w][r] e == EVENT_BY_STATUS[status[r]] u == initiated_by[r]
<1>1. PICK verdict \in final_status(s), extra \in SUBSET ExtraEvents :
        IF verdict \in DOMAIN EVENT_BY_STATUS
        THEN AddNotices(r, {EVENT_BY_STATUS[verdict]} \cup extra)
        ELSE UNCHANGED <<notices, mailed>>
  BY DEF Announce
<1>2. /\ verdict \in {"completed", "partial", "expired"}
      /\ verdict = "expired" <=> status[r] = "expired"
  BY DEF About, Decider, final_status, Results
<1>3. verdict \in FINAL_STATUSES /\ status[r] \in FINAL_STATUSES /\ EVENT_BY_STATUS[verdict] = e
  BY <1>2 DEF EVENT_BY_STATUS, FINAL_STATUSES, Results
<1>4. AddNotices(r, {e} \cup extra)
  BY <1>1, <1>3 DEF EVENT_BY_STATUS
<1>5. {e} \cup extra \in SUBSET Events
  BY <1>2, <1>3 DEF EVENT_BY_STATUS, FINAL_STATUSES, Events
<1>6. Appended(r, {e} \cup extra)
  BY <1>4, <1>5, AddNoticesAppends DEF NoticesInv, MailInv
<1>7. u \in _recipients(r, e)
  BY <1>3 DEF OwnerInv, Exists, _recipients, Wanted
<1>8. \E k \in DOMAIN notices' : notices'[k] = NewNotice(r, u, e)
  BY <1>6, <1>7 DEF Appended
<1>9. UNCHANGED <<status, initiated_by>>
  BY DEF Announce, notify_run_finished, rows
<1> QED BY <1>8, <1>9 DEF Reached, NewNotice

LEMMA ResultStep == NoticesInv /\ OwnerInv /\ ResultInv /\ [NoticesNext]_allVars => ResultInv'
<1> SUFFICES ASSUME NoticesInv, OwnerInv, ResultInv, [NoticesNext]_allVars,
                    faults' = 0, deaths' = 0,
                    NEW r \in Runs, status'[r] \in Results, Wanted(r)'
             PROVE  Reached(r)' \/ \E w \in Workers : About(w, r)'
  BY DEF ResultInv, Reached, About, Wanted
<1>1. QueueInv /\ SupervisedOnce /\ MailInv /\ NoticesTypeOK /\ TypeOK
  BY DEF NoticesInv, QueueInv, MailInv
<1>2. faults = 0 /\ deaths = 0
  <2>1. deaths' \in {deaths, deaths + 1}
    BY <1>1, MailSteps DEF Apart, PutDown, PickUp, Deliver, Dealt, Recorded, Unposted, Posted, post
  <2>2. faults' \in {faults, faults + 1}
    <3>1. CASE [Next]_vars
      <4>1. ASSUME NEW u \in Users, Http(u) PROVE faults' = faults
        BY <4>1 DEF Http, create_run, InsertRun, RereadRun, add_requester, cancel_run, request_cancel
      <4>2. ASSUME NEW x \in Workers, MainLoop(x) PROVE faults' \in {faults, faults + 1}
        BY <4>2 DEF MainLoop, recover_stale, FailStale, claim_next, ClaimOldest, Crash
      <4>3. ASSUME NEW x \in Workers, NEW q \in Runs, Supervise(x, q) PROVE faults' \in {faults, faults + 1}
        BY <4>3 DEF Supervise, Spawn, Heartbeat, OverTime, Kill, EngineExit, Persist, notify_run_finished,
           _guarded, OrphanExit, SupervisorFails
      <4>4. ASSUME NEW q \in Runs, delete_run(q) \/ HeartbeatAges(q) PROVE faults' = faults
        BY <4>4 DEF delete_run, HeartbeatAges
      <4> QED BY <3>1, <4>1, <4>2, <4>3, <4>4 DEF Next, vars
    <3>2. CASE \E x \in Workers : Dies(x)
      BY <3>2 DEF Dies
    <3> QED BY <3>1, <3>2, QueueSteps
  <2> QED BY <1>1, <2>1, <2>2, QueueAssumption DEF TypeOK, NoticesTypeOK
<1>3. CASE status'[r] # status[r]
  <2>1. PICK w \in Workers : Persist(w, r) /\ Exists(r)
    BY <1>1, <1>3, ResultFrom
  <2>2. PICK v \in final_status(supervisor[w][r]) : status' = [status EXCEPT ![r] = v]
    BY <2>1 DEF Persist, RowGone
  <2>3. /\ supervisor[w][r].engine \in {"outcome", "empty"}
        /\ supervisor' = [supervisor EXCEPT ![w][r] = Sup("notify", @.engine, @.stop)]
    BY <2>1 DEF Persist, RowGone
  <2>4. /\ supervisor'[w][r].pc = "notify" /\ supervisor'[w][r].engine = supervisor[w][r].engine
        /\ supervisor'[w][r].stop = supervisor[w][r].stop
    BY <1>1, <2>3, SupFields DEF TypeOK
  <2>5. status'[r] = v
    BY <1>1, <2>2 DEF TypeOK
  <2>6. supervisor[w][r].stop \in {"no", "cancelled", "timed_out"}
    BY <1>1 DEF TypeOK, Supervisors
  <2>7. Decider(supervisor[w][r], v)
    BY <2>2, <2>3, <2>5, <2>6 DEF final_status, Decider, Results
  <2> QED BY <2>4, <2>5, <2>7 DEF About, Decider
<1>4. CASE status'[r] = status[r]
  <2>1. status[r] \in Results
    BY <1>4
  <2>2. initiated_by'[r] = initiated_by[r]
    BY <1>1, <1>4, <2>1, OwnersStay DEF Results
  <2>3. Wanted(r)
    BY <1>4, <2>2 DEF Wanted
  <2>4. CASE Reached(r)
    BY <1>1, <1>4, <2>2, <2>4, NoticesStay DEF Reached
  <2>5. ASSUME NEW w \in Workers, About(w, r) PROVE Reached(r)' \/ About(w, r)'
    <3>1. CASE Announce(w, r)
      BY <2>1, <2>3, <2>5, <3>1, AnnounceReaches
    <3>2. CASE ~Announce(w, r)
      BY <1>1, <1>2, <1>4, <2>1, <2>5, <3>2, AboutStays
    <3> QED BY <3>1, <3>2
  <2> QED BY <1>2, <2>1, <2>3, <2>4, <2>5 DEF ResultInv
<1> QED BY <1>3, <1>4

\* The verdict of a supervisor reaches the person who queued the run, if they
\* want to hear of it and nothing failed (run_subprocess, notify_run_finished).
THEOREM ResultReachesOwner == NoticesSpec => []ResultIsAnnounced
<1>1. NoticesInit => OwnerInv /\ ResultInv
  BY DEF NoticesInit, Init, OwnerInv, ResultInv, Exists, ACTIVE_STATUSES, FINAL_STATUSES, Results
<1>2. NoticesInv /\ ResultInv => ResultIsAnnounced
  <2> SUFFICES ASSUME NoticesInv, ResultInv, NEW r \in Runs,
                      status[r] \in Results,
                      \A w \in Workers : supervisor[w][r].pc = "idle",
                      faults = 0 /\ deaths = 0,
                      \/ status[r] \in {"completed", "partial"} /\ "scan_completed" \in Wants[initiated_by[r]]
                      \/ status[r] = "expired" /\ "scan_failed" \in Wants[initiated_by[r]]
               PROVE  \E k \in DOMAIN notices : /\ notices[k].run = r
                                                /\ notices[k].user = initiated_by[r]
                                                /\ notices[k].event \notin ExtraEvents
    BY DEF ResultIsAnnounced, Results
  <2>1. /\ EVENT_BY_STATUS[status[r]] = IF status[r] = "expired" THEN "scan_failed" ELSE "scan_completed"
        /\ EVENT_BY_STATUS[status[r]] \notin ExtraEvents
    BY NoticesAssumption DEF EVENT_BY_STATUS, FINAL_STATUSES, Results
  <2>2. Wanted(r)
    BY <2>1 DEF Wanted
  <2>3. \A w \in Workers : ~About(w, r)
    BY DEF About
  <2>4. Reached(r)
    BY <2>2, <2>3 DEF ResultInv
  <2> QED BY <2>1, <2>4 DEF Reached
<1> QED BY <1>1, <1>2, OwnerStep, ResultStep, NoticesInvariant, PTL DEF NoticesSpec
=============================================================================
