----------------------------- MODULE WebSession -----------------------------
(***************************************************************************)
(* Who is signed in, as the tabs of one browser believe and as the server *)
(* knows: api/client.ts, auth/AuthContext.tsx, App.tsx, pages/Login.tsx,  *)
(* components/Shell.tsx and the sign-out of UserMenu.tsx, against deps.py *)
(* and api/auth.py.                                                        *)
(*                                                                         *)
(* The tabs share the session cookie.  Each keeps the CSRF token and the  *)
(* user of the last answer that carried them.  A request leaves with the  *)
(* cookie and the token of that moment, is served once, and is answered   *)
(* late, in any order, or not at all.                                      *)
(***************************************************************************)
EXTENDS Integers, Sequences, FiniteSets

CONSTANTS Tabs, People,
          FirstPeople,    \* whose session the browser may have kept, NoName's for none
          Providers,      \* external ways to sign in: a subset of {"sso", "ldap"}
          MaxSessions,    \* bound: sessions opened
          MaxInFlight,    \* bound: requests on their way
          MaxSteps,       \* bound: what people do, sessions that end, accounts
                          \* that change and requests that get lost
          NoName          \* is none of the people

ASSUME SessionAssumption == FirstPeople \subseteq People \cup {NoName} /\ NoName \notin People

VARIABLES
  sessions,   \* rows of sessions: their user, and whether they live; the
              \* token of CSRF of a session stands as its number
  accounts,   \* role, active and must_change_password of each user
  cookie,     \* the session the browser's cookie names, 0 without one
  tab,        \* state of each tab
  net,        \* requests on their way, or answered
  writes,     \* accepted writes: shown to whom, done as whom
  steps       \* bound

sessionVars == <<sessions, accounts, cookie, tab, net, writes, steps>>

RANK == [r \in {"NONE", "AUDITOR", "USER", "ADMIN"} |->
           CASE r = "NONE" -> 0 [] r = "AUDITOR" -> 1 [] r = "USER" -> 2 [] r = "ADMIN" -> 4]

NoUser == [name |-> NoName, role |-> "NONE", mustChange |-> FALSE]
Payload(u) == [name |-> u, role |-> accounts[u].role, mustChange |-> accounts[u].mustChange]
Tokens == 0..Len(sessions)

\* The routes: the dashboard polls, the targets do not, administration is
\* for administrators.
MinimumRole == [p \in {"dashboard", "targets", "admin"} |->
                  CASE p = "dashboard" -> "AUDITOR" [] p = "targets" -> "USER" [] p = "admin" -> "ADMIN"]

atLeast(t, role) == tab[t].shown # NoUser /\ RANK[tab[t].shown.role] >= RANK[role]

MustChange(t) == tab[t].shown.mustChange
OnLogin(t) == ~tab[t].loading /\ (tab[t].shown = NoUser \/ MustChange(t))
OnShell(t) == ~tab[t].loading /\ ~OnLogin(t)

Polling(t) == OnShell(t) /\ tab[t].page = "dashboard"

\* The forms of Login, once the providers are known.
Known(t) == tab[t].form # "unknown"
External(t) == Providers # {} /\ ~MustChange(t) /\ tab[t].form # "failed"
LocalVisible(t) == Known(t) /\ (~External(t) \/ tab[t].form = "local")
LdapVisible(t) == Known(t) /\ External(t) /\ "ldap" \in Providers /\ tab[t].form # "local"

Request(t, kind, as) ==
  [tab |-> t, kind |-> kind, as |-> as, sid |-> cookie, csrf |-> tab[t].csrf,
   by |-> tab[t].shown.name, status |-> "sent", user |-> NoUser, token |-> 0]

Fresh == [shown |-> NoUser, csrf |-> 0, loading |-> TRUE, page |-> "dashboard", form |-> "unknown"]

\* The browser is opened without a session, or with one of an earlier day.
SessionInit ==
  /\ \E u \in FirstPeople :
       sessions = IF u = NoName THEN << >> ELSE <<[user |-> u, alive |-> TRUE]>>
  /\ cookie = Len(sessions)
  /\ accounts = [u \in People |-> [role |-> "USER", active |-> TRUE, mustChange |-> FALSE]]
  /\ tab = [t \in Tabs |-> Fresh]
  /\ net = {[tab |-> t, kind |-> "me", as |-> NoName, sid |-> cookie, csrf |-> 0, by |-> NoName,
             status |-> "sent", user |-> NoUser, token |-> 0] : t \in Tabs}
  /\ writes = {}
  /\ steps = 0

Step == steps < MaxSteps /\ steps' = steps + 1
-----------------------------------------------------------------------------
(* Requests leave. *)

Busy(t, kind) == \E r \in net : r.tab = t /\ r.kind = kind
CanSend(t, kind) == ~Busy(t, kind) /\ Cardinality(net) < MaxInFlight

Send(t, kind, as) ==
  /\ CanSend(t, kind)
  /\ net' = net \cup {Request(t, kind, as)}
  /\ UNCHANGED <<sessions, accounts, cookie, tab, writes>>

\* useLoad's interval on a page that polls.
Poll(t) == Polling(t) /\ Send(t, "poll", NoName) /\ UNCHANGED steps

\* A button of a page: api(), or upload() which has its own fetch.
Write(t) == Step /\ OnShell(t) /\ tab[t].page # "dashboard"
            /\ \E kind \in {"write", "upload"} : Send(t, kind, NoName)

\* A preference is saved, then the user refreshed.
SavePreference(t) == Step /\ OnShell(t) /\ Send(t, "preferences", NoName)

SignOut(t) == Step /\ OnShell(t) /\ Send(t, "logout", NoName)

\* submit: the form in sight decides of the call.
Submit(t) ==
  /\ Step
  /\ OnLogin(t)
  /\ \/ MustChange(t) /\ LocalVisible(t) /\ Send(t, "password", NoName)
     \/ ~MustChange(t) /\ \E u \in People :
          \/ LdapVisible(t) /\ Send(t, "ldap", u)
          \/ LocalVisible(t) /\ Send(t, "login", u)

UpdateTab(t, new) ==
  /\ tab' = [tab EXCEPT ![t] = new]
  /\ UNCHANGED <<sessions, accounts, cookie, net, writes>>

\* The providers answer, or not: then as if there were none.
LoadProviders(t) ==
  /\ OnLogin(t) /\ ~Known(t)
  /\ \E form \in {"external", "failed"} : UpdateTab(t, [tab[t] EXCEPT !.form = form])
  /\ UNCHANGED steps

ToggleLocal(t) ==
  /\ Step
  /\ OnLogin(t) /\ Known(t) /\ External(t)
  /\ UpdateTab(t, [tab[t] EXCEPT !.form = IF @ = "local" THEN "external" ELSE "local"])

\* A link of the side bar, which has those the shown role allows.
Navigate(t) ==
  /\ Step
  /\ OnShell(t)
  /\ \E p \in DOMAIN MinimumRole :
       /\ p # tab[t].page /\ atLeast(t, MinimumRole[p])
       /\ UpdateTab(t, [tab[t] EXCEPT !.page = p])
-----------------------------------------------------------------------------
(* The server. *)

Lives(sid) == sid # 0 /\ sessions[sid].alive
\* get_current_session, get_current_user, require_role, in their order.
Verdict(r, changing, role) ==
  IF ~Lives(r.sid) THEN "401"
  ELSE IF changing /\ r.csrf # r.sid THEN "403"
  ELSE LET a == accounts[sessions[r.sid].user] IN
       IF ~a.active THEN "401"
       ELSE IF role # "NONE" /\ (a.mustChange \/ RANK[a.role] < RANK[role]) THEN "403"
       ELSE "ok"

Answers(r, status, user, token) ==
  net' = (net \ {r}) \cup {[r EXCEPT !.status = status, !.user = user, !.token = token]}

ServeRead(r) ==
  /\ r.kind \in {"me", "poll"}
  /\ LET v == Verdict(r, FALSE, IF r.kind = "me" THEN "NONE" ELSE "AUDITOR")
     IN IF v = "ok" /\ r.kind = "me" THEN Answers(r, v, Payload(sessions[r.sid].user), r.sid)
        ELSE Answers(r, v, NoUser, 0)
  /\ UNCHANGED <<sessions, accounts, writes>>

\* Mutated form: any session's token will do.
ServeWrite_any_token(r) ==
  /\ r.kind \in {"write", "upload", "preferences"}
  /\ LET v == Verdict(r, FALSE, IF r.kind = "preferences" THEN "NONE" ELSE "USER")
     IN /\ Answers(r, v, NoUser, 0)
        /\ writes' = IF v = "ok" THEN writes \cup {[by |-> r.by, as |-> sessions[r.sid].user]} ELSE writes
  /\ UNCHANGED <<sessions, accounts>>
ServeWrite(r) ==
  /\ r.kind \in {"write", "upload", "preferences"}
  /\ LET v == Verdict(r, TRUE, IF r.kind = "preferences" THEN "NONE" ELSE "USER")
     IN /\ Answers(r, v, NoUser, 0)
        /\ writes' = IF v = "ok" THEN writes \cup {[by |-> r.by, as |-> sessions[r.sid].user]} ELSE writes
  /\ UNCHANGED <<sessions, accounts>>

ServePassword(r) ==
  /\ r.kind = "password"
  /\ LET v == Verdict(r, TRUE, "NONE")
     IN /\ Answers(r, v, NoUser, 0)
        /\ writes' = IF v = "ok" THEN writes \cup {[by |-> r.by, as |-> sessions[r.sid].user]} ELSE writes
        /\ accounts' = IF v = "ok" THEN [accounts EXCEPT ![sessions[r.sid].user].mustChange = FALSE]
                       ELSE accounts
  /\ UNCHANGED sessions

ServeLogout(r) ==
  /\ r.kind = "logout"
  /\ LET v == Verdict(r, TRUE, "NONE")
     IN /\ Answers(r, v, NoUser, 0)
        /\ sessions' = IF v = "ok" THEN [sessions EXCEPT ![r.sid].alive = FALSE] ELSE sessions
  /\ UNCHANGED <<accounts, writes>>

\* login, ldap_login: a new session whatever the cookie says, or a refusal.
ServeLogin(r) ==
  /\ r.kind \in {"login", "ldap"}
  /\ \/ /\ accounts[r.as].active /\ Len(sessions) < MaxSessions
        /\ sessions' = Append(sessions, [user |-> r.as, alive |-> TRUE])
        /\ Answers(r, "ok", Payload(r.as), Len(sessions) + 1)
     \/ /\ UNCHANGED sessions
        /\ Answers(r, "401", NoUser, 0)
  /\ UNCHANGED <<accounts, writes>>

Serve(r) == /\ r.status = "sent"
            /\ ServeRead(r) \/ ServeWrite(r) \/ ServePassword(r) \/ ServeLogout(r) \/ ServeLogin(r)
            /\ UNCHANGED <<cookie, tab, steps>>

\* Idle or absolute timeout, or a sign-out from another browser.
EndSession(sid) ==
  /\ Step
  /\ Lives(sid)
  /\ sessions' = [sessions EXCEPT ![sid].alive = FALSE]
  /\ UNCHANGED <<accounts, cookie, tab, net, writes>>

\* An administrator demotes, deactivates, or resets the password of, someone.
AccountChange(u) ==
  /\ Step
  /\ \E new \in {[accounts[u] EXCEPT !.role = "AUDITOR"], [accounts[u] EXCEPT !.active = FALSE],
                 [accounts[u] EXCEPT !.mustChange = TRUE]} :
       new # accounts[u] /\ accounts' = [accounts EXCEPT ![u] = new]
  /\ UNCHANGED <<sessions, cookie, tab, net, writes>>
-----------------------------------------------------------------------------
(* Answers arrive. *)

\* The address of a page above the role of the user is replaced.
Guard(user, page) == IF RANK[user.role] >= RANK[MinimumRole[page]] THEN page ELSE "dashboard"

\* setUser(null), or another user: Login, once it has left the screen, asks its
\* providers anew when it comes back.
Shows(t, user) ==
  LET old == tab[t]
      login == user = NoUser \/ user.mustChange
  IN [old EXCEPT !.shown = user, !.loading = FALSE,
                 !.form = IF OnLogin(t) /\ login THEN @ ELSE "unknown",
                 !.page = IF login THEN @ ELSE Guard(user, @)]
SignedOut(t) == Shows(t, NoUser)

\* apply: the token and the user together.
Applied(t, r) == [Shows(t, r.user) EXCEPT !.csrf = r.token]

\* api() tells the application of a 401, upload() does not.  Mutated form: only
\* a write does.
Unauthorized_write(r) == r.status = "401" /\ r.kind = "write"
Unauthorized(r) == r.status = "401" /\ r.kind # "upload"

AfterRefresh(t, rest) == rest \cup {[Request(t, "me", NoName) EXCEPT !.sid = cookie']}

Receive(r) ==
  /\ r.status \notin {"sent"}
  /\ LET t == r.tab  rest == net \ {r}  ok == r.status = "ok"
         Back(new) == tab' = [tab EXCEPT ![t] = new] /\ net' = rest
     IN \* the browser stores the cookie before any script sees the answer
        /\ cookie' = CASE ok /\ r.kind \in {"login", "ldap"} -> r.token
                       [] ok /\ r.kind = "logout" -> 0
                       [] OTHER -> cookie
        /\ CASE r.kind \in {"me", "login"} /\ ok -> Back(Applied(t, r))
             [] r.kind = "me" /\ ~ok -> Back(SignedOut(t))
             [] r.kind = "logout" /\ ok -> Back(SignedOut(t))
             [] r.kind \in {"ldap", "password", "preferences"} /\ ok ->
                  /\ net' = IF Busy(t, "me") THEN rest ELSE AfterRefresh(t, rest)
                  /\ tab' = tab
             [] r.kind # "me" /\ Unauthorized(r) -> Back(SignedOut(t))
             [] OTHER -> Back(tab[t])
  /\ UNCHANGED <<sessions, accounts, writes, steps>>

\* The network loses the request or its answer: fetch rejects.  refresh()
\* takes it for a sign-out, everything else leaves the user as he is.
Lose(r) ==
  /\ Step
  /\ net' = net \ {r}
  /\ tab' = IF r.kind = "me" THEN [tab EXCEPT ![r.tab] = SignedOut(r.tab)] ELSE tab
  /\ UNCHANGED <<sessions, accounts, cookie, writes>>

\* A reload, or the way back from the single sign-on with a new session: the
\* page starts again and nothing in flight reaches it.
Reload(t) ==
  /\ Step
  /\ tab[t] # Fresh
  /\ \/ UNCHANGED <<sessions, cookie>>
     \/ /\ "sso" \in Providers /\ OnLogin(t) /\ ~MustChange(t) /\ Known(t) /\ External(t)
        /\ tab[t].form # "local" /\ Len(sessions) < MaxSessions
        /\ \E u \in People : /\ accounts[u].active
                            /\ sessions' = Append(sessions, [user |-> u, alive |-> TRUE])
        /\ cookie' = Len(sessions) + 1
  /\ tab' = [tab EXCEPT ![t] = Fresh]
  /\ net' = {r \in net : r.tab # t}
            \cup {[Request(t, "me", NoName) EXCEPT !.sid = cookie', !.csrf = 0, !.by = NoName]}
  /\ UNCHANGED <<accounts, writes>>

SessionNext ==
  \/ \E t \in Tabs : \/ Poll(t) \/ Write(t) \/ SavePreference(t) \/ SignOut(t) \/ Submit(t)
                     \/ LoadProviders(t) \/ ToggleLocal(t) \/ Navigate(t) \/ Reload(t)
  \/ \E r \in net : Serve(r) \/ Receive(r) \/ Lose(r)
  \/ \E sid \in DOMAIN sessions : EndSession(sid)
  \/ \E u \in People : AccountChange(u)

\* The browser's timers and network, and the server, make progress.
SessionFairness == \A t \in Tabs :
  /\ WF_sessionVars(Poll(t))
  /\ WF_sessionVars(\E r \in net : r.tab = t /\ Serve(r))
  /\ WF_sessionVars(\E r \in net : r.tab = t /\ Receive(r))

SessionSpec == SessionInit /\ [][SessionNext]_sessionVars /\ SessionFairness
-----------------------------------------------------------------------------
(* Properties. *)

\* deps.py, AuthContext.tsx: however the tabs sign in and out over the one
\* cookie, no write is accepted for another user than the one its tab showed
\* when it left.
WriteAsShown == \A w \in writes : w.by = w.as

\* client.ts: once people are still and the network works, no tab goes on showing
\* a signed-in user on a page that polls while the cookie names no living
\* session, whichever tab signed out or session ended, and whatever answers
\* were lost or late.
PollingIsAlive == \A t \in Tabs : Polling(t) => Lives(cookie)
DeadSessionLeaves == <>[]PollingIsAlive
=============================================================================
