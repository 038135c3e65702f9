--------------------------- MODULE GreenbonePage ----------------------------
(***************************************************************************)
(* Imports from OpenVAS / Greenbone: GreenboneImports of pages/Admin.tsx   *)
(* over the routes of api/greenbone.py and the worker of                   *)
(* services/greenbone.py (process_next, process_apply_next).               *)
(*                                                                         *)
(* The page follows a job in two ways: an interval reloads the list while  *)
(* it shows a job that is queued or running, another asks for the job last *)
(* chosen.  An answer says what was true when it was asked for, and        *)
(* arrives in any order, or never.                                         *)
(***************************************************************************)
EXTENDS Integers, Sequences, FiniteSets, TLC

CONSTANTS MaxJobs,   \* bound: retrievals and uploads
          MaxClicks, \* bound: clicks of the administrator
          MaxLost,   \* bound: answers that are lost
          MaxCalls   \* bound: handlers that wait at a time

VARIABLES
  imports,  \* the status of every row of greenbone_imports
  jobs,     \* the history of the page: the status it shows of the jobs it has
  jobId,    \* the job last chosen (0 none)
  polling,  \* whether its interval runs
  preview,  \* the job whose preview is on the page (0 none)
  calls,    \* the handlers that wait for an answer: what they do then with it
  clicks, lost  \* bounds

importVars == <<imports, jobs, jobId, polling, preview, calls, clicks, lost>>
page == <<jobs, jobId, polling, preview>>

Pending == {"queued", "running"}
Ended == {"done", "failed"}

ImportsInit ==
  /\ imports = << >> /\ jobs = << >> /\ jobId = 0 /\ polling = FALSE /\ preview = 0
  /\ calls = {} /\ clicks = 0 /\ lost = 0
-----------------------------------------------------------------------------
(* The worker: a retrieval, or the import of a confirmed selection, which is *)
(* one transaction.  GMP, the worker or the transaction may fail.           *)

Sets(j, status) == imports' = [imports EXCEPT ![j] = status]
process_next == /\ \E j \in DOMAIN imports :
                     \/ imports[j] = "queued" /\ Sets(j, "running")
                     \/ imports[j] = "running" /\ \E s \in Ended : Sets(j, s)
                /\ UNCHANGED <<page, calls, clicks, lost>>
process_apply_next == /\ \E j \in DOMAIN imports :
                           imports[j] = "apply_queued" /\ \E s \in Ended : Sets(j, s)
                      /\ UNCHANGED <<page, calls, clicks, lost>>
-----------------------------------------------------------------------------
(* The page. *)

MayCall == Cardinality(calls) < MaxCalls
Click == clicks < MaxClicks /\ clicks' = clicks + 1 /\ MayCall
Call(then, j) == [then |-> then, job |-> j, told |-> << >>]
Ask(then, j) == [Call(then, j) EXCEPT !.told = <<imports[j]>>]
AskList(then, j) == [Call(then, j) EXCEPT !.told = imports]

\* setJobId: another job starts its interval again; the same one does not.
ChooseJob(j) == jobId' = j /\ polling' = (polling \/ j # jobId)

\* Retrieve, or the analysis of a file, which is done at once.
retrieve(mode) ==
  /\ Click /\ Len(imports) < MaxJobs
  /\ imports' = Append(imports, IF mode = "gmp" THEN "queued" ELSE "done")
  /\ calls' = calls \cup {Call(mode, Len(imports) + 1)}
  /\ UNCHANGED <<page, lost>>

\* The preview of a job the history shows as done.
loadPreview ==
  /\ Click
  /\ \E j \in DOMAIN jobs : jobs[j] = "done" /\ calls' = calls \cup {Ask("preview", j)}
  /\ UNCHANGED <<imports, page, lost>>

\* Apply, once confirmed: the boxes of the preview, for the job that is chosen;
\* 409 unless that one is done.
apply ==
  /\ Click /\ preview # 0 /\ imports[jobId] = "done"
  /\ Sets(jobId, "apply_queued") /\ calls' = calls \cup {Call("applied", jobId)}
  /\ UNCHANGED <<page, lost>>

Busy(then) == \E c \in calls : c.then = then
\* Mutated form: a job that has begun to run no longer keeps the list alive.
ListIsPending_queued == \E j \in DOMAIN jobs : jobs[j] = "queued"
ListIsPending == \E j \in DOMAIN jobs : jobs[j] \in Pending

\* The interval of the list, and that of the chosen job until it ends.
ListTick == /\ ListIsPending /\ ~Busy("list") /\ MayCall /\ calls' = calls \cup {AskList("list", 0)}
            /\ UNCHANGED <<imports, page, clicks, lost>>
JobTick == /\ polling /\ ~Busy("job") /\ MayCall /\ calls' = calls \cup {Ask("job", jobId)}
           /\ UNCHANGED <<imports, page, clicks, lost>>

\* What a handler does with its answer, and the request it makes next.
Then(c, next) == calls' = (calls \ {c}) \cup next
TakesList(c) == \/ /\ c.then = "list" /\ jobs' = c.told /\ Then(c, {})
                   /\ UNCHANGED <<jobId, polling, preview>>
                \/ /\ c.then = "xml_listed" /\ jobs' = c.told /\ Then(c, {Ask("preview", c.job)})
                   /\ UNCHANGED <<jobId, polling, preview>>
                \/ /\ c.then = "apply_listed" /\ jobs' = c.told /\ Then(c, {})
                   /\ ChooseJob(c.job) /\ UNCHANGED preview
TakesJob(c) == /\ c.then = "job" /\ Then(c, {}) /\ UNCHANGED <<jobId, preview>>
               /\ IF c.told[1] \in Ended
                  THEN jobs' = (c.job :> c.told[1]) @@ jobs /\ polling' = (polling /\ c.job # jobId)
                  ELSE UNCHANGED <<jobs, polling>>
TakesPreview(c) == /\ c.then = "preview" /\ Then(c, {}) /\ UNCHANGED jobs
                   /\ IF c.told[1] = "done" THEN ChooseJob(c.job) /\ preview' = c.job
                      ELSE UNCHANGED <<jobId, polling, preview>>
TakesNew(c) == \/ /\ c.then \in {"gmp", "xml"} /\ ChooseJob(c.job) /\ UNCHANGED <<jobs, preview>>
                  /\ Then(c, {AskList(IF c.then = "gmp" THEN "list" ELSE "xml_listed", c.job)})
               \/ /\ c.then = "applied" /\ Then(c, {AskList("apply_listed", c.job)}) /\ UNCHANGED page

Answer(then) ==
  /\ \E c \in calls : c.then = then /\ (TakesList(c) \/ TakesJob(c) \/ TakesPreview(c) \/ TakesNew(c))
  /\ UNCHANGED <<imports, clicks, lost>>
Lose == /\ lost < MaxLost /\ lost' = lost + 1
        /\ \E c \in calls : calls' = calls \ {c}
        /\ UNCHANGED <<imports, page, clicks>>

Answers == {"list", "job", "preview", "gmp", "xml", "xml_listed", "applied", "apply_listed"}
ImportsNext ==
  \/ process_next \/ process_apply_next \/ retrieve("gmp") \/ retrieve("xml") \/ loadPreview \/ apply
  \/ ListTick \/ JobTick \/ (\E h \in Answers : Answer(h)) \/ Lose

\* The timers of a browser fire, and an answer that is not lost arrives.
ImportsFairness == WF_importVars(ListTick) /\ \A h \in Answers : WF_importVars(Answer(h))
ImportsSpec == ImportsInit /\ [][ImportsNext]_importVars /\ ImportsFairness
-----------------------------------------------------------------------------
\* A retrieval the page shows as pending is.
PendingIsPending == \A j \in DOMAIN jobs : jobs[j] \in Pending => imports[j] \in Pending

\* Admin.tsx:278: the history of the page comes to show the end of every
\* retrieval it lists that has ended, and goes on showing it, however many were
\* started, previewed, applied and lost and in whatever order answers came.
RetrievalEndShows == <>[]PendingIsPending
=============================================================================
