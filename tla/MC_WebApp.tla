----------------------------- MODULE MC_WebApp ------------------------------
(***************************************************************************)
(* The pages of the single-page application that follow the server.  The   *)
(* router mounts one page at a time and unmounts the one that is left,     *)
(* whose state and timers go with it, so the pages share nothing in the    *)
(* browser but the session.  A behaviour follows one part of the           *)
(* application; the variables of the others keep their initial values, and *)
(* the state spaces add up instead of multiplying.                         *)
(***************************************************************************)
EXTENDS AccessPages, WebSession, ScanPages, ResultViews, Integers, TLC

VARIABLES
  screen,                                              \* the part followed
  imports, jobs, jobId, polling, preview, waiting, clicksImport, lost  \* GreenbonePage
  \* and those of the modules that this one extends

Imports == INSTANCE GreenbonePage WITH
  MaxJobs <- 2, MaxClicks <- 3, MaxLost <- 1, MaxCalls <- 2, calls <- waiting, clicks <- clicksImport

\* What a scan of each of two definitions can find: several ports of a host,
\* two addresses of a name, an address without its name, nothing at all.
Observed(status, grade, cert, trust, san, found) ==
  [status |-> status, grade |-> grade, errors |-> status = "error", cert |-> cert, trust |-> trust,
   suites |-> IF status = "error" THEN {} ELSE IF found = {} THEN {"gcm"} ELSE {"gcm", "cbc"},
   tls |-> CASE status = "non_compliant" -> {"1.0", "1.2"} [] status = "error" -> {} [] OTHER -> {"1.2"},
   checks |-> IF san = "" THEN << >> ELSE <<san>>, found |-> found]
Good == Observed("compliant", "A", 1, "PUBLIC_TRUSTED", "PASS", {})
Noted == Observed("compliant", "B", 2, "", "INCONCLUSIVE", {3})
Weak == Observed("non_compliant", "F", 1, "UNTRUSTED", "FAIL", {1, 2})
Broken == Observed("error", "", 0, "", "", {4})
Endpoint(host, ip, port, o) == [host |-> host, ip |-> ip, port |-> port] @@ o
Outcome(endpoints, skipped, ended) == [endpoints |-> endpoints, skipped |-> skipped, ended |-> ended]
Reports ==
  [d1 |-> {Outcome({Endpoint("h1", "i1", 443, Good), Endpoint("h1", "i1", 8443, Noted)}, {}, ""),
           Outcome({Endpoint("h1", "i1", 443, Weak), Endpoint("h1", "i1", 8443, Good), Endpoint("h1", "i2", 443, Weak)}, {}, ""),
           Outcome({Endpoint("h1", "i1", 8443, Weak)}, {"i2"}, ""),
           Outcome({Endpoint("h1", "i1", 443, Broken), Endpoint("h1", "i2", 443, Noted)}, {}, ""),
           Outcome({}, {}, "")},
   d2 |-> {Outcome({Endpoint("h1", "i1", 443, Good)}, {}, ""),
           Outcome({Endpoint("i1", "i1", 443, Weak), Endpoint("h1", "i2", 443, Noted)}, {}, ""),
           Outcome({Endpoint("h1", "i1", 443, Weak)}, {}, "expired")}]
Plans ==
  [d1 |-> << [passes |-> "p", profile |-> 1, policies |-> 1], [passes |-> "p", profile |-> 1, policies |-> 2] >>,
   d2 |-> << [passes |-> "q", profile |-> 1, policies |-> 1], [passes |-> "q", profile |-> 2, policies |-> 1] >>]
Graveness == <<"critical", "high", "informational", "low">>
Expiries == <<1, 3>>
Stores == << {"mozilla"}, {} >>

Screens == {"session", "access", "scans", "imports", "results"}
importVars == <<imports, jobs, jobId, polling, preview, waiting, clicksImport, lost>>
vars == <<screen, sessionVars, accessVars, pageVars, importVars, resultVars>>

Init ==
  /\ screen \in Screens
  /\ SessionInit /\ PageInit /\ Imports!ImportsInit /\ ResultsInit
  /\ AccessInit /\ (screen # "access" => switches.enabled = {})

On(s) == screen = s /\ UNCHANGED screen
OthersOf(s) ==
  /\ s # "session" => UNCHANGED sessionVars
  /\ s # "access" => UNCHANGED accessVars
  /\ s # "scans" => UNCHANGED pageVars
  /\ s # "imports" => UNCHANGED importVars
  /\ s # "results" => UNCHANGED resultVars

Next ==
  \/ On("session") /\ SessionNext /\ OthersOf("session")
  \/ On("access") /\ AccessNext /\ OthersOf("access")
  \/ On("scans") /\ PageNext /\ OthersOf("scans")
  \/ On("imports") /\ Imports!ImportsNext /\ OthersOf("imports")
  \/ On("results") /\ ResultsNext /\ OthersOf("results")

\* The fairness of the part that is followed, action by action: timers fire,
\* requests are served and answered.
TabIsServed(t) == \E r \in net : r.tab = t /\ (Serve(r) \/ Receive(r))
OtherAnswers == Imports!Answers \ {"list", "job"}
Fairness ==
  /\ \A t \in Tabs : /\ WF_sessionVars(screen = "session" /\ Poll(t))
                     /\ WF_sessionVars(screen = "session" /\ TabIsServed(t))
  /\ WF_pageVars(screen = "scans" /\ ReloadPage)
  /\ \A s \in Slots : WF_pageVars(screen = "scans" /\ (ServeCall(s) \/ Arrive(s)))
  /\ WF_importVars(screen = "imports" /\ Imports!ListTick)
  /\ WF_importVars(screen = "imports" /\ Imports!Answer("list"))
  /\ WF_importVars(screen = "imports" /\ \E h \in OtherAnswers : Imports!Answer(h))

Spec == Init /\ [][Next]_vars /\ Fairness
-----------------------------------------------------------------------------
\* common.tsx, useLoad: what a polling page draws catches up with the runs.
ShownCatchesUp == <>[](screen = "scans" => PolledCatchesUp)
\* Admin.tsx, GreenboneImports: the end of a retrieval comes to be shown.
RetrievalEndShows == <>[](screen = "imports" => Imports!PendingIsPending)
\* The others are those of the modules extended, over their own variables: what is
\* not followed stays as it was at first.
=============================================================================
