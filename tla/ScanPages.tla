----------------------------- MODULE ScanPages ------------------------------
(***************************************************************************)
(* The pages that list, follow and launch scans, over useLoad of           *)
(* common.tsx: Scans.tsx (list, definitions, DefinitionDialog),            *)
(* RunDetail.tsx, Dashboard.tsx, MyTasks.tsx, Schedules.tsx, Reports.tsx.  *)
(*                                                                         *)
(* A request occupies a slot of the browser from the moment it leaves to   *)
(* the moment its answer arrives or is lost; answers arrive in any order.  *)
(* An answer for a component that left the screen changes nothing on it,   *)
(* but a launch or a deletion still navigates; to the route of the page on *)
(* the screen, its component stays, with what it shows and what it reads.  *)
(***************************************************************************)
EXTENDS RunViews

CONSTANTS Defs,         \* scan definitions
          Slots,        \* bound: requests of the browser under way
          MaxRuns,      \* bound: runs ever queued
          MaxPageActs,  \* bound: clicks, steps of the server, lost requests
          Nothing,      \* no data
          operator      \* whether the person has the role OPERATOR

VARIABLES
  runs,      \* the server's runs, by number
  defs,      \* the definitions that exist
  schedules, \* the definitions with a schedule
  view,      \* the page on the screen and its state
  calls,     \* the requests under way
  acts       \* bound

pageVars == <<runs, defs, schedules, view, calls, acts>>

Pages == {"scans", "detail", "dashboard", "tasks", "schedules", "reports"}
\* The pages with an interval; the reports and the definitions have none.
Polled == Pages \ {"reports"}
Idle == [kind |-> "idle"]

Mounted(page, arg) ==
  [page |-> page, arg |-> arg, data |-> Nothing, loadError |-> FALSE, error |-> FALSE,
   defs |-> {}, grouped |-> TRUE, open |-> {}, sort |-> "date desc", ticked |-> {},
   tab |-> "runs", dialog |-> FALSE, owed |-> {arg}, owesDefs |-> page \in {"scans", "schedules"}]

\* What a page opens with: an operator sees every run, a user his own.
FirstArg(page) == CASE page = "scans" -> [mine |-> ~operator, status |-> ""]
                    [] page = "dashboard" -> [mine |-> TRUE, status |-> ""]
                    [] page = "tasks" -> [mine |-> TRUE, status |-> ""]
                    [] OTHER -> [mine |-> FALSE, status |-> ""]
-----------------------------------------------------------------------------
(* The server's answers. *)

Exists(id) == id \in DOMAIN runs /\ runs[id].status # "deleted"
Asked(arg) == {i \in DOMAIN runs : /\ runs[i].status # "deleted"
                                   /\ arg.mine => runs[i].asked
                                   /\ arg.status # "" => runs[i].status = arg.status}
RunsFor(arg) == NewestOf(runs, Asked(arg))
\* The schedules an operator is listed, each with the last run it queued.
SchedulesNow ==
  [d \in schedules |-> LET of == {i \in DOMAIN runs : runs[i].sched = d /\ runs[i].status # "deleted"}
                       IN IF of = {} THEN Nothing
                          ELSE LET last == NewestOf(runs, of)[1] IN [id |-> last.id, status |-> last.status]]
AnswerTo(page, arg) ==
  CASE page = "detail" -> IF Exists(arg) THEN runs[arg] ELSE Nothing
    [] page = "schedules" -> SchedulesNow
    [] OTHER -> RunsFor(arg)

NewRun(id, d) == [id |-> id, def |-> d, sched |-> NoDef, name |-> d, mine |-> TRUE, asked |-> TRUE,
              status |-> "queued", phase |-> "starting", stop |-> FALSE, nc |-> Unknown]
ActiveOf(d) == {i \in DOMAIN runs : runs[i].def = d /\ Active(runs[i])}

\* What a write does on the server, and whether it is accepted.
Served(c) ==
  LET keep == UNCHANGED <<runs, defs, schedules>>
      Refused == keep /\ calls' = [calls EXCEPT ![c.slot].answer = "refused"]
      Accepted(to) == calls' = [calls EXCEPT ![c.slot].answer = "ok", ![c.slot].to = to]
  IN CASE c.kind = "cancel" ->
            IF Exists(c.arg) /\ Active(runs[c.arg])
            THEN /\ runs' = [runs EXCEPT ![c.arg].status = IF @ = "queued" THEN "cancelled" ELSE @,
                                         ![c.arg].stop = runs[c.arg].status = "running"]
                 /\ Accepted(c.arg) /\ UNCHANGED <<defs, schedules>>
            ELSE Refused
       [] c.kind = "delete" ->
            IF Exists(c.arg) /\ ~Active(runs[c.arg])
            THEN runs' = [runs EXCEPT ![c.arg].status = "deleted"] /\ Accepted(c.arg) /\ UNCHANGED <<defs, schedules>>
            ELSE Refused
       [] c.kind = "launch" ->   \* joins the active run of the same plan, if any
            IF c.arg \notin defs THEN Refused
            ELSE IF ActiveOf(c.arg) # {}
            THEN LET i == CHOOSE i \in ActiveOf(c.arg) : TRUE
                 IN runs' = [runs EXCEPT ![i].asked = TRUE] /\ Accepted(i) /\ UNCHANGED <<defs, schedules>>
            ELSE IF Len(runs) < MaxRuns
            THEN runs' = Append(runs, NewRun(Len(runs) + 1, c.arg)) /\ Accepted(Len(runs) + 1) /\ UNCHANGED <<defs, schedules>>
            ELSE Refused
       [] c.kind = "saveDef" -> (defs' = defs \cup {c.arg} /\ Accepted(0) /\ UNCHANGED <<runs, schedules>>) \/ Refused
       [] c.kind = "deleteDef" ->
            IF c.arg \in defs \ schedules
            THEN /\ defs' = defs \ {c.arg} /\ Accepted(0) /\ UNCHANGED schedules
                 /\ runs' = [i \in DOMAIN runs |-> IF runs[i].def = c.arg THEN [runs[i] EXCEPT !.def = NoDef] ELSE runs[i]]
            ELSE Refused
       [] c.kind = "saveSched" ->
            IF c.arg \in defs THEN schedules' = schedules \cup {c.arg} /\ Accepted(0) /\ UNCHANGED <<runs, defs>> ELSE Refused
       [] c.kind = "deleteSched" ->
            IF c.arg \in schedules   \* its runs stay, and are of no schedule
            THEN /\ schedules' = schedules \ {c.arg} /\ Accepted(0) /\ UNCHANGED defs
                 /\ runs' = [i \in DOMAIN runs |-> IF runs[i].sched = c.arg THEN [runs[i] EXCEPT !.sched = NoDef] ELSE runs[i]]
            ELSE Refused
       [] c.kind = "load" -> keep /\ calls' = [calls EXCEPT ![c.slot].answer = "ok", ![c.slot].to = AnswerTo(view.page, c.arg)]
       [] c.kind = "loadDefs" -> keep /\ calls' = [calls EXCEPT ![c.slot].answer = "ok", ![c.slot].to = defs]
-----------------------------------------------------------------------------
(* Requests leave. *)

Free == {s \in Slots : calls[s].kind = "idle"}
Reads == {"load", "loadDefs"}
\* `about' is what the page showed at the click of a write: its handler reloads
\* that, whatever the page shows by then.
CallOf(s, kind, arg) ==
  [kind |-> kind, arg |-> arg, slot |-> s, from |-> view.page, live |-> TRUE, answer |-> "none", to |-> Nothing,
   about |-> IF kind \in Reads THEN Nothing ELSE view.arg]
SendCall(kind, arg) == \E s \in Free : calls' = [calls EXCEPT ![s] = CallOf(s, kind, arg)]

PageInit ==
  /\ runs = <<[NewRun(1, "d1") EXCEPT !.status = "completed", !.nc = 1],
              [NewRun(2, "d2") EXCEPT !.sched = "d2", !.mine = FALSE, !.asked = FALSE, !.status = "running"]>>
  /\ defs = Defs
  /\ schedules = {"d2"}
  /\ view = Mounted("scans", FirstArg("scans"))
  /\ calls = [s \in Slots |-> Idle]
  /\ acts = 0

Act == acts < MaxPageActs /\ acts' = acts + 1

\* useLoad: at once when mounted, when its parameters change and on reload();
\* then at every interval of a page that polls.  Mutated form: a page that
\* shows an error polls no more.
Loading(polls) ==
  /\ \E arg \in view.owed \cup (IF polls THEN {view.arg} ELSE {}) :
       SendCall("load", arg) /\ view' = [view EXCEPT !.owed = @ \ {arg}]
  /\ UNCHANGED <<runs, defs, schedules, acts>>
ReloadPage_not_after_error == Loading(view.page \in Polled /\ ~view.loadError)
ReloadPage == Loading(view.page \in Polled)
ReloadDefs ==
  /\ view.owesDefs
  /\ SendCall("loadDefs", Nothing)
  /\ view' = [view EXCEPT !.owesDefs = FALSE]
  /\ UNCHANGED <<runs, defs, schedules, acts>>

\* The runs and definitions on the screen, and what may be asked of them.
RunsShown == IF view.page = "scans" /\ view.data # Nothing THEN {view.data[i] : i \in DOMAIN view.data} ELSE {}
OnScreen == IF view.page = "detail" THEN (IF view.data # Nothing /\ ~view.loadError THEN {view.data} ELSE {})
            ELSE IF view.tab = "runs" THEN RunsShown ELSE {}
Offered(r) ==
  LET unfolded == GroupKey(r) \in view.open
      rescan == IF r.def = NoDef \/ view.page = "detail" \/ (~view.grouped /\ Active(r)) THEN {} ELSE {"rescan"}
      ticked == view.ticked = {} \/ r.status \in view.ticked
  IN CASE view.page = "detail" -> Offers(r, operator)
       [] view.grouped -> rescan \cup (IF unfolded THEN Offers(r, operator) ELSE {})
       [] OTHER -> IF ticked THEN rescan \cup Offers(r, operator) ELSE {}

WriteCall(kind, arg) == Act /\ SendCall(kind, arg) /\ UNCHANGED <<runs, defs, schedules, view>>
\* The page of a run acts on the run of its address.
Target(r) == IF view.page = "detail" THEN view.arg ELSE r.id
CancelRun == \E r \in OnScreen : "cancel" \in Offered(r) /\ WriteCall("cancel", Target(r))
Delete == \E r \in OnScreen : "delete" \in Offered(r) /\ WriteCall("delete", Target(r))
Rescan == \E r \in OnScreen : "rescan" \in Offered(r) /\ WriteCall("launch", r.def)
OnDefs == view.page = "scans" /\ view.tab = "defs"
Launch == OnDefs /\ \E d \in view.defs : WriteCall("launch", d)
DeleteDef == OnDefs /\ \E d \in view.defs : WriteCall("deleteDef", d)
DeleteSched == view.page = "schedules" /\ view.data # Nothing /\ \E d \in DOMAIN view.data : WriteCall("deleteSched", d)
\* The dialogs; nothing holds back a second click while the first is answered.
SaveDialog == /\ view.dialog
              /\ \/ view.page = "scans" /\ \E d \in Defs : WriteCall("saveDef", d)
                 \/ view.page = "schedules" /\ \E d \in view.defs : WriteCall("saveSched", d)

\* What stays in the browser.
Shown(new) == Act /\ view' = new /\ new # view /\ UNCHANGED <<runs, defs, schedules, calls>>
Dialog == \/ view.page = "scans" /\ Shown([view EXCEPT !.dialog = ~@])
          \/ view.page = "schedules" /\ (view.defs # {} \/ view.dialog) /\ Shown([view EXCEPT !.dialog = ~@])
SetTab == view.page = "scans" /\ \E tab \in {"runs", "defs"} : Shown([view EXCEPT !.tab = tab])
Unfold == view.page = "scans" /\ view.grouped
          /\ \E r \in RunsShown : Shown([view EXCEPT !.open = IF GroupKey(r) \in @ THEN @ \ {GroupKey(r)} ELSE @ \cup {GroupKey(r)}])
\* The other presentation mounts its table anew.
SetGrouped == view.page = "scans"
              /\ Shown([view EXCEPT !.grouped = ~@, !.open = {}, !.sort = "date desc", !.ticked = {}])
SortTable == view.page = "scans" /\ ~view.grouped /\ Shown([view EXCEPT !.sort = Cycle(@)])
TickFilter == view.page = "scans" /\ ~view.grouped /\ view.data # Nothing
              /\ \E s \in Options(view.data) :
                   Shown([view EXCEPT !.ticked = IF s \in @ THEN @ \ {s} ELSE @ \cup {s}])
ResetTable == view.page = "scans" /\ ~view.grouped /\ view.data # Nothing /\ SaysHidden(view.data, view.ticked)
              /\ Shown([view EXCEPT !.ticked = {}, !.sort = "date desc"])
\* Only mine, or a status, or the scope of the dashboard: the loader changes.
SetArg == /\ view.page \in {"scans", "dashboard"}
          /\ \E mine \in (IF operator THEN BOOLEAN ELSE {view.arg.mine}),
                status \in (IF view.page = "scans" THEN {"", "running"} ELSE {""}) :
               LET new == [mine |-> mine, status |-> status]
               IN /\ new.mine = view.arg.mine \/ new.status = view.arg.status
                  /\ new # view.arg /\ Shown([view EXCEPT !.arg = new, !.owed = @ \cup {new}])

\* Leaving a page: what it was reading is for nobody, what it wrote goes on.
Left == [s \in Slots |-> CASE calls[s].kind \in Reads -> Idle
                           [] calls[s].kind = "idle" -> Idle
                           [] OTHER -> [calls[s] EXCEPT !.live = FALSE]]
Links == {<<p, FirstArg(p)>> : p \in Pages \ {"detail"}}
         \cup (IF view.data # Nothing /\ view.page \in {"scans", "dashboard", "tasks", "reports"}
               THEN {<<"detail", view.data[i].id>> : i \in DOMAIN view.data}
               ELSE IF view.data # Nothing /\ view.page = "schedules"
               THEN {<<"detail", view.data[d].id>> : d \in {d \in DOMAIN view.data : view.data[d] # Nothing}} ELSE {})
FollowLink == /\ Act
              /\ \E l \in Links : l[1] # view.page /\ view' = Mounted(l[1], l[2])
              /\ calls' = Left
              /\ UNCHANGED <<runs, defs, schedules>>
-----------------------------------------------------------------------------
(* The server works, answers arrive. *)

ServeCall(s) == calls[s].kind # "idle" /\ calls[s].answer = "none" /\ Served(calls[s]) /\ UNCHANGED <<view, acts>>

Stays(s, new) == view' = new /\ calls' = [calls EXCEPT ![s] = Idle]
\* navigate: to another page, or to the same one about something else.
Goes(s, page, arg) ==
  IF page # view.page THEN view' = Mounted(page, arg) /\ calls' = [Left EXCEPT ![s] = Idle]
  ELSE Stays(s, IF page # "detail" \/ arg = view.arg THEN view
                ELSE [view EXCEPT !.arg = arg, !.owed = @ \cup {arg}])
Owes(arg) == [view EXCEPT !.owed = @ \cup {arg}]
OwesDefs == [view EXCEPT !.owesDefs = TRUE]

Arrive(s) ==
  LET c == calls[s]  ok == c.answer = "ok"  left == c.kind = "delete" /\ c.from = "detail" IN
  /\ c.kind # "idle" /\ c.answer # "none"
  /\ CASE ok /\ c.kind = "load" ->
            IF view.page = "detail" /\ c.to = Nothing THEN Stays(s, [view EXCEPT !.loadError = TRUE])
            ELSE Stays(s, [view EXCEPT !.data = c.to, !.loadError = FALSE])
       [] ok /\ c.kind = "loadDefs" -> Stays(s, [view EXCEPT !.defs = c.to])
       [] ok /\ c.kind = "launch" -> Goes(s, "detail", c.to)
       [] ok /\ left -> Goes(s, "scans", FirstArg("scans"))
       [] ok /\ ~left /\ c.live /\ c.kind \in {"cancel", "delete", "deleteSched"} -> Stays(s, Owes(c.about))
       [] ok /\ c.live /\ c.kind = "deleteDef" -> Stays(s, OwesDefs)
       [] ok /\ c.live /\ c.kind = "saveDef" -> Stays(s, [OwesDefs EXCEPT !.tab = "defs", !.dialog = FALSE])
       [] ok /\ c.live /\ c.kind = "saveSched" -> Stays(s, [Owes(c.about) EXCEPT !.dialog = FALSE])
       [] ~ok /\ c.live -> Stays(s, [view EXCEPT !.error = TRUE])
       [] ~c.live /\ ~(ok /\ (c.kind = "launch" \/ left)) -> Stays(s, view)
  /\ UNCHANGED <<runs, defs, schedules, acts>>

\* fetch rejects: the request or its answer is lost.
LoseCall(s) ==
  /\ Act
  /\ calls[s].kind # "idle"
  /\ Stays(s, CASE calls[s].kind = "load" -> [view EXCEPT !.loadError = TRUE]
                [] calls[s].kind # "loadDefs" /\ calls[s].live -> [view EXCEPT !.error = TRUE]
                [] OTHER -> view)
  /\ UNCHANGED <<runs, defs, schedules>>

\* The scheduler queues a run of a schedule, of this person or of another.
Trigger(d) ==
  /\ Act
  /\ d \in schedules /\ ActiveOf(d) = {} /\ Len(runs) < MaxRuns
  /\ \E own \in BOOLEAN :
       runs' = Append(runs, [NewRun(Len(runs) + 1, d) EXCEPT !.sched = d, !.mine = own, !.asked = own])
  /\ UNCHANGED <<defs, schedules, view, calls>>

\* The worker and the other people.
Work(i) ==
  /\ Act
  /\ LET r == runs[i] IN \E new \in
       CASE r.status = "queued" -> {[r EXCEPT !.status = "running"]}
         [] r.status = "running" /\ r.stop -> {[r EXCEPT !.status = "cancelled"]}
         [] r.status = "running" /\ r.phase = "starting" -> {[r EXCEPT !.phase = "tls_scan"]}
         [] r.status = "running" -> {[r EXCEPT !.status = "completed", !.nc = 0], [r EXCEPT !.status = "failed"]}
         [] r.status = "deleted" -> {}
         [] OTHER -> {[r EXCEPT !.status = "deleted"]} :
       runs' = [runs EXCEPT ![i] = new]
  /\ UNCHANGED <<defs, schedules, view, calls>>

PageNext ==
  \/ ReloadPage \/ ReloadDefs
  \/ CancelRun \/ Delete \/ Rescan \/ Launch \/ DeleteDef \/ DeleteSched \/ SaveDialog
  \/ Dialog \/ SetTab \/ Unfold \/ SetGrouped \/ SortTable \/ TickFilter \/ ResetTable \/ SetArg \/ FollowLink
  \/ \E s \in Slots : ServeCall(s) \/ Arrive(s) \/ LoseCall(s)
  \/ \E i \in DOMAIN runs : Work(i)
  \/ \E d \in Defs : Trigger(d)

\* The browser's interval, the network and the server make progress.
PageFairness ==
  /\ WF_pageVars(ReloadPage)
  /\ \A s \in Slots : WF_pageVars(ServeCall(s)) /\ WF_pageVars(Arrive(s))

PageSpec == PageInit /\ [][PageNext]_pageVars /\ PageFairness
-----------------------------------------------------------------------------
(* Properties. *)

\* What each page draws of an answer.
ScansPage(data) == IF view.grouped THEN GroupedRuns(data, view.open, "", operator)
                   ELSE FlatTable(data, view.ticked, view.sort)
DashboardPage(data) == <<Figures(data), RecentRuns(data, view.open)>>
RunPage(run) == [status |-> run.status, steps |-> IF Active(run) THEN StepStates(run, FALSE) ELSE << >>,
                 nc |-> run.nc, offers |-> Offers(run, operator)]
ReportsPage(data) == SelectSeq(data, HasReport)
SchedulesPage(data) == [d \in DOMAIN data |-> <<d \in view.defs, data[d]>>]
Drawn(data) ==
  CASE data = Nothing -> Nothing
    [] view.page = "scans" -> ScansPage(data)
    [] view.page = "dashboard" -> DashboardPage(data)
    [] view.page = "tasks" -> Tasks(data)
    [] view.page = "detail" -> RunPage(data)
    [] view.page = "reports" -> ReportsPage(data)
    [] view.page = "schedules" -> SchedulesPage(data)

\* common.tsx, RunDetail.tsx: whatever answers were lost, late or overtaken,
\* a page that polls ends up drawing the runs as they are, with no error of an
\* earlier answer; a run that is gone shows as an error.
CaughtUp ==
  LET now == AnswerTo(view.page, view.arg)
  IN IF view.page = "detail" /\ now = Nothing THEN view.loadError
     ELSE ~view.loadError /\ Drawn(view.data) = Drawn(now)
PolledCatchesUp == view.page \in Polled => CaughtUp

\* GroupedRuns.tsx: a list shows each of its runs once, under the scan it is a
\* run of, the newest first, and the scans by their newest run: no run is drawn
\* or counted twice, whatever order and answer the list comes from.
EveryRowListedOnce ==
  view.page = "scans" /\ view.data # Nothing =>
    LET groups == Groups(view.data)
        rows == RunsShown
        Of(g) == {g.runs[i] : i \in DOMAIN g.runs}
    IN /\ {Of(groups[i]) : i \in DOMAIN groups} = {{r \in rows : GroupKey(r) = GroupKey(x)} : x \in rows}
       /\ \A i \in DOMAIN groups : \A k, l \in DOMAIN groups[i].runs :
            k < l => groups[i].runs[k].id > groups[i].runs[l].id
       /\ \A i, j \in DOMAIN groups : i < j => groups[i].runs[1].id > groups[j].runs[1].id
=============================================================================
