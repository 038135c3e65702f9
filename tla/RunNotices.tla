----------------------------- MODULE RunNotices -----------------------------
(***************************************************************************)
(* Who is told how a run ended: the queue of RunQueue together with the   *)
(* tables scan_run_requesters and notifications.                           *)
(*                                                                         *)
(* People become requesters of a run when they queue it or attach to it;  *)
(* the supervisor that writes the verdict of a run queues a notice for    *)
(* each of them (services/notifications.py); the main loop of a worker    *)
(* mails the pending notices between two looks at the queue, a batch at a  *)
(* time, and records what became of them in one commit (services/mail.py). *)
(* Every step of RunQueue is a step here, with what it does to the notices. *)
(***************************************************************************)
EXTENDS RunQueue, Sequences

CONSTANTS Wants,        \* for each user, users.notify_events
          ExtraEvents,  \* events of the results of a run, besides its end
          Unreachable,  \* users without a usable e-mail address
          BatchLimit,   \* deliver_pending(limit)
          NoUser

Events == {"scan_completed", "scan_failed", "scan_cancelled"} \cup ExtraEvents

ASSUME NoticesAssumption ==
  /\ Wants \in [Users -> SUBSET Events]
  /\ Unreachable \subseteq Users
  /\ BatchLimit \in Nat \ {0}
  /\ NoUser \notin Users
  /\ IsFiniteSet(Users) /\ IsFiniteSet(Workers) /\ IsFiniteSet(ExtraEvents)
  /\ ExtraEvents \cap {"scan_completed", "scan_failed", "scan_cancelled"} = {}

VARIABLES
  initiated_by,  \* column of scan_runs
  requesters,    \* rows of scan_run_requesters, by run
  notices,       \* rows of notifications, in the order of created_at
  mailer,        \* deliver_pending in the main loop of each worker
  mailed,        \* e-mails sent, by notice
  deaths         \* deaths of worker processes so far

tables   == <<initiated_by, requesters, notices>>
post     == <<mailer, mailed>>
allVars  == <<vars, tables, post, deaths>>

\* verdict: what the session of the worker holds of its batch, uncommitted.
Quiescent(pc) == [pc |-> pc, batch |-> {}, connected |-> FALSE, verdict |-> << >>]

NoticesInit ==
  /\ Init
  /\ initiated_by = [r \in Runs |-> NoUser]
  /\ requesters = [r \in Runs |-> {}]
  /\ notices = << >>
  /\ mailer = [w \in Workers |-> Quiescent("idle")]
  /\ mailed = << >>
  /\ deaths = 0
-----------------------------------------------------------------------------
(* Requesters. *)

\* create_run queues the run with its initiator as first requester ...
QueueWithRequester(u) ==
  /\ InsertRun(u)
  /\ LET Queued == {r \in Runs : status'[r] # status[r]} IN
     /\ requesters' = [r \in Runs |-> IF r \in Queued THEN {u} ELSE requesters[r]]
     /\ initiated_by' = [r \in Runs |-> IF r \in Queued THEN u ELSE initiated_by[r]]
  /\ UNCHANGED <<notices, post, deaths>>

\* ... or attaches one more; the foreign key refuses a run that is deleted.
Attach(u) ==
  /\ add_requester(u)
  /\ LET r == request[u].run IN
     requesters' = IF Exists(r) THEN [requesters EXCEPT ![r] = @ \cup {u}] ELSE requesters
  /\ UNCHANGED <<initiated_by, notices, post, deaths>>

\* ON DELETE CASCADE takes the requesters of a run and its notices.
DeleteWithNotices(r) ==
  /\ delete_run(r)
  /\ requesters' = [requesters EXCEPT ![r] = {}]
  /\ initiated_by' = [initiated_by EXCEPT ![r] = NoUser]
  /\ notices' = [k \in DOMAIN notices |->
       IF notices[k].run = r THEN [notices[k] EXCEPT !.status = "gone"] ELSE notices[k]]
  /\ UNCHANGED <<post, deaths>>
-----------------------------------------------------------------------------
(* Notices. *)

\* Mutated form: the runs that took too long are forgotten.
EVENT_BY_STATUS_no_expired ==
  [s \in FINAL_STATUSES \ {"expired"} |->
     CASE s \in {"completed", "partial"} -> "scan_completed"
       [] s = "failed"    -> "scan_failed"
       [] s = "cancelled" -> "scan_cancelled"]

EVENT_BY_STATUS ==
  [s \in FINAL_STATUSES |->
     CASE s \in {"completed", "partial"} -> "scan_completed"
       [] s \in {"failed", "expired"}    -> "scan_failed"
       [] s = "cancelled"                -> "scan_cancelled"]

_recipients(r, event) == {u \in requesters[r] : event \in Wants[u]}

\* A row in some order for every recipient of every event.
NoticesOf(r, events) ==
  LET New == UNION {[run : {r}, user : _recipients(r, e), event : {e}, status : {"pending"}]
                      : e \in events}
      Order == CHOOSE f \in [1..Cardinality(New) -> New] :
                 \A i, j \in DOMAIN f : f[i] = f[j] => i = j
  IN  Order

AddNotices(r, events) ==
  LET New == NoticesOf(r, events) IN
  /\ notices' = notices \o New
  /\ mailed' = mailed \o [k \in DOMAIN New |-> 0]

\* notify_run_finished and its commit, by the verdict the supervisor wrote,
\* whatever the row says by now; expiring certificates and new findings of a
\* run with results have events of their own.
Announce(w, r) ==
  /\ notify_run_finished(w, r)
  /\ \E verdict \in final_status(supervisor[w][r]),
        extra \in SUBSET ExtraEvents :
       /\ verdict \in {"completed", "partial"} \/ extra = {}
       /\ IF verdict \in DOMAIN EVENT_BY_STATUS
          THEN AddNotices(r, {EVENT_BY_STATUS[verdict]} \cup extra)
          ELSE UNCHANGED <<notices, mailed>>
  /\ UNCHANGED <<initiated_by, requesters, mailer, deaths>>

\* Mutated form: recover_stale tells the requesters of the runs it fails.
StaleFailed_announces(w) ==
  /\ FailStale(w)
  /\ worker'[w].pc = "claim"
  /\ mailer' = [mailer EXCEPT ![w] = Quiescent("due")]
  /\ IF worker[w].stale = {} THEN UNCHANGED <<notices, mailed>>
     ELSE \E r \in worker[w].stale : AddNotices(r, {"scan_failed"})
  /\ UNCHANGED <<initiated_by, requesters, deaths>>

\* The runs recover_stale fails are announced to nobody.  The mail is next,
\* unless the process died of a row deleted meanwhile.
StaleFailed(w) ==
  /\ FailStale(w)
  /\ \/ /\ worker'[w].pc = "claim"
        /\ mailer' = [mailer EXCEPT ![w] = Quiescent("due")]
        /\ UNCHANGED deaths
     \/ /\ worker'[w].pc = "recover"
        /\ deaths' = deaths + 1
        /\ UNCHANGED mailer
  /\ UNCHANGED <<tables, mailed>>
-----------------------------------------------------------------------------
(* deliver_pending. *)

Pending == {k \in DOMAIN notices : notices[k].status = "pending"}

\* Mutated form: nothing is done about notices while no connector is set up.
ReadPending_waits(w) ==
  /\ mailer[w].pc = "due"
  /\ LET batch == {k \in Pending : Cardinality({j \in Pending : j < k}) < BatchLimit} IN
     \E connected \in BOOLEAN :
       mailer' = [mailer EXCEPT ![w] =
         IF batch = {} \/ ~connected THEN Quiescent("idle")
         ELSE [pc |-> "send", batch |-> batch, connected |-> connected, verdict |-> << >>]]
  /\ UNCHANGED <<vars, tables, mailed, deaths>>

\* SELECT of the oldest pending notices, without a lock; then the connector.
ReadPending(w) ==
  /\ mailer[w].pc = "due"
  /\ LET batch == {k \in Pending : Cardinality({j \in Pending : j < k}) < BatchLimit} IN
     \/ /\ batch = {}
        /\ mailer' = [mailer EXCEPT ![w] = Quiescent("idle")]
     \/ /\ batch # {}
        /\ \E connected \in BOOLEAN :
             mailer' = [mailer EXCEPT ![w] =
               [pc |-> "send", batch |-> batch, connected |-> connected, verdict |-> << >>]]
  /\ UNCHANGED <<vars, tables, mailed, deaths>>

\* The next notice of the batch: skipped, mailed or failed.  An exception of
\* any kind is a failure, also one raised after the server took the message.
SendNotice(w) ==
  /\ mailer[w].pc = "send"
  /\ \E k \in mailer[w].batch \ DOMAIN mailer[w].verdict :
       /\ \A j \in mailer[w].batch \ DOMAIN mailer[w].verdict : k <= j
       /\ LET Verdict(v) == [mailer EXCEPT ![w].verdict =
                [j \in DOMAIN @ \cup {k} |-> IF j = k THEN v ELSE @[j]]]
              skip == ~mailer[w].connected \/ notices[k].user \in Unreachable
          IN \/ /\ skip
                /\ mailer' = Verdict("skipped")
                /\ UNCHANGED mailed
             \/ /\ ~skip
                /\ mailer' = Verdict("sent")
                /\ mailed' = [mailed EXCEPT ![k] = @ + 1]
             \/ /\ ~skip
                /\ mailer' = Verdict("failed")
                /\ mailed' \in {mailed, [mailed EXCEPT ![k] = @ + 1]}
  /\ UNCHANGED <<vars, tables, deaths>>

\* Mutated forms: the commit is forgotten; a notice the server refused stays.
CommitDelivery_forgotten(w) ==
  /\ mailer[w].pc = "send" /\ DOMAIN mailer[w].verdict = mailer[w].batch
  /\ mailer' = [mailer EXCEPT ![w] = Quiescent("idle")]
  /\ UNCHANGED <<vars, tables, mailed, deaths>>
CommitDelivery_all_sent(w) ==
  /\ mailer[w].pc = "send" /\ DOMAIN mailer[w].verdict = mailer[w].batch
  /\ notices' = [k \in DOMAIN notices |->
       IF k \in mailer[w].batch THEN [notices[k] EXCEPT !.status = "sent"] ELSE notices[k]]
  /\ mailer' = [mailer EXCEPT ![w] = Quiescent("idle")]
  /\ UNCHANGED <<vars, initiated_by, requesters, mailed, deaths>>

\* One commit for the batch.  A notice deleted with its run makes the UPDATE
\* raise and ends the process: the batch stays pending.
CommitDelivery(w) ==
  /\ mailer[w].pc = "send" /\ DOMAIN mailer[w].verdict = mailer[w].batch
  /\ \/ /\ \A k \in mailer[w].batch : notices[k].status # "gone"
        /\ notices' = [k \in DOMAIN notices |->
             IF k \in mailer[w].batch
             THEN [notices[k] EXCEPT !.status = mailer[w].verdict[k]] ELSE notices[k]]
        /\ UNCHANGED <<vars, deaths>>
     \/ /\ \E k \in mailer[w].batch : notices[k].status = "gone"
        /\ Restart(w)
        /\ deaths' = deaths + 1
        /\ UNCHANGED <<rows, request, faults, notices>>
  /\ mailer' = [mailer EXCEPT ![w] = Quiescent("idle")]
  /\ UNCHANGED <<initiated_by, requesters, mailed>>
-----------------------------------------------------------------------------
(* The other steps of RunQueue: nobody is told of anything. *)

Untold == UNCHANGED <<tables, post, deaths>>

Die(w) == /\ Crash(w)
          /\ mailer' = [mailer EXCEPT ![w] = Quiescent("idle")]
          /\ deaths' = deaths + 1
          /\ UNCHANGED <<tables, mailed>>

LookForWork(w) == /\ mailer[w].pc = "idle"
                  /\ claim_next(w)
                  /\ Untold

LoopStep(w) == \/ recover_stale(w) /\ Untold
               \/ StaleFailed(w)
               \/ ReadPending(w) \/ SendNotice(w) \/ CommitDelivery(w)
               \/ LookForWork(w)
               \/ \E skipped \in SUBSET Locked : ClaimOldest(w, skipped) /\ Untold

SupervisorStep(w, r) ==
  \/ Announce(w, r)
  \/ /\ \/ Spawn(w, r) \/ Heartbeat(w, r) \/ OverTime(w, r) \/ Kill(w, r)
        \/ \E outcome \in {"outcome", "empty"} : EngineExit(w, r, outcome)
        \/ Persist(w, r) \/ _guarded(w, r) \/ OrphanExit(w, r) \/ SupervisorFails(w, r)
     /\ Untold

RequestStep(u) ==
  \/ QueueWithRequester(u) \/ Attach(u)
  \/ /\ \/ \E f \in Fingerprints : create_run(u, f)
        \/ RereadRun(u)
        \/ \E r \in Runs : cancel_run(u, r)
        \/ request_cancel(u)
     /\ Untold

NoticesNext ==
  \/ \E u \in Users : RequestStep(u)
  \/ \E w \in Workers : LoopStep(w) \/ Die(w)
  \/ \E w \in Workers, r \in Runs : SupervisorStep(w, r)
  \/ \E r \in Runs : DeleteWithNotices(r) \/ (HeartbeatAges(r) /\ Untold)

NoticesSpec == NoticesInit /\ [][NoticesNext]_allVars

\* The main loops and the supervisors turn, as in RunQueue.
NoticesFairness ==
  /\ \A w \in Workers : SF_allVars(LoopStep(w))
  /\ \A w \in Workers, r \in Runs :
       /\ WF_allVars(Persist(w, r) /\ Untold) /\ WF_allVars(Announce(w, r))
       /\ WF_allVars(_guarded(w, r) /\ Untold)

NoticesFairSpec == NoticesSpec /\ NoticesFairness
-----------------------------------------------------------------------------
\* Nobody gets two notices of the same event of a run, although a run may be
\* decided more than once, by recover_stale and by a supervisor that was only
\* slow, or cancelled after it was finished (notify_run_finished).
NoticeOnce ==
  \A j, k \in DOMAIN notices :
    /\ notices[j].run = notices[k].run
    /\ notices[j].user = notices[k].user
    /\ notices[j].event = notices[k].event
    => j = k

\* The verdict of a supervisor reaches the person who queued the run, if they
\* want to hear of it and no process or database call failed (run_subprocess,
\* notify_run_finished, EVENT_BY_STATUS).
ResultIsAnnounced ==
  \A r \in Runs :
    /\ status[r] \in {"completed", "partial", "expired"}
    /\ \A w \in Workers : supervisor[w][r].pc = "idle"
    /\ faults = 0 /\ deaths = 0
    /\ \/ status[r] \in {"completed", "partial"} /\ "scan_completed" \in Wants[initiated_by[r]]
       \/ status[r] = "expired" /\ "scan_failed" \in Wants[initiated_by[r]]
    => \E k \in DOMAIN notices : /\ notices[k].run = r
                                  /\ notices[k].user = initiated_by[r]
                                  /\ notices[k].event \notin ExtraEvents

\* A notice is mailed once, and once more for each worker that reads the same
\* batch and for each process that dies before its commit (deliver_pending).
MailedOncePerTry ==
  \A k \in DOMAIN notices : mailed[k] <= Cardinality(Workers) + deaths

\* What the record says of a notice is what was mailed: it is sent only when it
\* was mailed; and with one worker that did not die, a notice that was skipped,
\* or that is pending and in no batch, so that it will be mailed, was not mailed
\* before.  A failed one may have been (deliver_pending).
RecordTellsDelivery ==
  \A k \in DOMAIN notices :
    /\ notices[k].status = "sent" => mailed[k] > 0
    /\ Cardinality(Workers) = 1 /\ deaths = 0 =>
         /\ notices[k].status = "skipped" => mailed[k] = 0
         /\ notices[k].status = "pending" /\ (\A w \in Workers : k \notin mailer[w].batch)
              => mailed[k] = 0

\* The mail queue drains: every pending notice is mailed, recorded as failed or
\* skipped, or gone with its run; full batches, an absent connector, a refused
\* message or a dying worker only delay it (deliver_pending).
EveryNoticeSettles == (Pending # {}) ~> (Pending = {})

\* docs/integrations/notifications.md: everyone who requested a run is told of
\* the end of every run.
EveryEndIsNotified ==
  \A r \in Runs, u \in Users :
    (status[r] \in FINAL_STATUSES /\ u \in requesters[r])
      ~> (status[r] = "deleted" \/ \E k \in DOMAIN notices : /\ notices[k].run = r
                                                             /\ notices[k].user = u)
=============================================================================
