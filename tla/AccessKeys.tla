----------------------------- MODULE AccessKeys -----------------------------
(***************************************************************************)
(* External access (REST API and MCP): the two switches, the authorisation *)
(* of every user and the access keys (services/external_access.py), with   *)
(* the routes of api/access.py and api/admin.py that change them.          *)
(*                                                                         *)
(* A route runs in a thread of its own and is split where another one can  *)
(* come between: what it loads first and trusts until its commit (Load),   *)
(* the UPDATE that revokes the keys in force when it starts (Sweep), and   *)
(* the commit, which shows all its writes at once (Commit).  The session   *)
(* neither flushes nor reloads in between (make_session_factory).          *)
(* authenticate reads in three statements, each what is committed then.    *)
(***************************************************************************)
CONSTANTS Users, Services,
          KeyIds,   \* identifiers of keys, each used for one key at most
          OldKeys,  \* those of keys generated before
          Callers,  \* external programs, one request at a time each
          Handlers, \* threads that serve the routes of the web interface
          Nobody

VARIABLES
  switches, \* the row of system_settings: whether it exists, what it switches on
  account,  \* the columns of users that decide
  keys,     \* access_tokens: of whom, for what, and what became of it
  caller,   \* the external request of every program and how far it is checked
  barred,   \* programs whose request began when it had to be refused, and has
            \* had to be since: known to nobody in the code
  handler   \* the threads: what they were asked and what they read

keyVars == <<switches, account, keys, caller, barred, handler>>

NoKey == [state |-> "none", user |-> Nobody, service |-> Nobody]
Quiet == [pc |-> "idle", key |-> Nobody, service |-> Nobody]
Unused == [pc |-> "idle", kind |-> Nobody, user |-> Nobody, service |-> Nobody, value |-> FALSE,
           was |-> FALSE, seen |-> [row |-> FALSE, enabled |-> {}], rows |-> {}, key |-> Nobody]

\* Any services on, any given to everybody, and at most one key for each user
\* and service given.
KeysInit ==
  /\ \E S \in SUBSET Services : switches = [row |-> S # {}, enabled |-> S]
  /\ \E S \in SUBSET Services, of \in [OldKeys -> Users \X Services] :
       /\ \A k \in OldKeys : of[k][2] \in S /\ \A j \in OldKeys : of[j] = of[k] => j = k
       /\ account = [u \in Users |-> [active |-> TRUE, mustChange |-> FALSE, allowed |-> S]]
       /\ keys = [k \in KeyIds |-> IF k \in OldKeys
                                   THEN [state |-> "live", user |-> of[k][1], service |-> of[k][2]]
                                   ELSE NoKey]
  /\ caller = [c \in Callers |-> Quiet]
  /\ barred = {}
  /\ handler = [h \in Handlers |-> Unused]

\* Keys that were not revoked, expired or not: one for a user and a service
\* (uq_access_tokens_active).
InForceNow(k) == keys[k].state \in {"live", "expired"}
InForce(u, S) == {k \in KeyIds : keys[k].user = u /\ keys[k].service \in S /\ InForceNow(k)}
Admits(u, s) == account[u].active /\ s \in account[u].allowed /\ ~account[u].mustChange
\* Whether a request with this key is to be served now.
Entitled(k, s) == /\ keys[k].state = "live" /\ keys[k].service = s
                  /\ s \in switches.enabled /\ Admits(keys[k].user, s)

\* Something was given back to the requests of a user, or to those of services.
GivenBackTo(u) == barred' = {c \in barred : keys[caller[c].key].user # u}
GivenBackFor(S) == barred' = {c \in barred : caller[c].service \notin S}
-----------------------------------------------------------------------------
(* The routes of the web interface. *)

To(h, pc) == handler' = [handler EXCEPT ![h].pc = pc]
Unwritten == UNCHANGED <<switches, account, keys, caller, barred>>

\* Of the owner: generate and revoke.  Of an administrator: revoke, the
\* authorisation for one service, the account, the switch of a service.
Ask(h, kind, u, s, value) ==
  /\ handler[h].pc = "idle"
  /\ handler' = [handler EXCEPT ![h] =
       [Unused EXCEPT !.pc = "load", !.kind = kind, !.user = u, !.service = s, !.value = value]]
  /\ Unwritten

\* create_token: the account as the request loaded it, and the switch.
MayCreate(u, s) == s \in switches.enabled /\ Admits(u, s)

\* What a route reads first, and whether it goes on.
Load(h) ==
  /\ handler[h].pc = "load"
  /\ LET r == handler[h]  a == account[r.user]
     IN \/ /\ r.kind = "generate" /\ To(h, IF MayCreate(r.user, r.service) THEN "sweep" ELSE "refused")
        \/ r.kind = "revoke" /\ To(h, "sweep")
        \/ /\ r.kind = "access"
           /\ To(h, CASE (r.service \in a.allowed) = r.value -> "ok"
                      [] r.value -> "commit"
                      [] OTHER -> "sweep")
        \/ /\ r.kind = "account"
           /\ handler' = [handler EXCEPT ![h].pc = IF r.value THEN "commit" ELSE "sweep",
                                         ![h].was = a.active]
        \/ /\ r.kind = "switch"
           /\ handler' = [handler EXCEPT ![h].pc = "commit", ![h].seen = switches]
  /\ Unwritten

\* revoke_tokens, and the first statement of create_token.
Sweep(h) ==
  /\ handler[h].pc = "sweep"
  /\ LET r == handler[h]
     IN handler' = [handler EXCEPT ![h].pc = "commit",
                      ![h].rows = InForce(r.user, IF r.kind = "account" THEN Services ELSE {r.service})]
  /\ Unwritten

\* Rows that another transaction has revoked meanwhile are passed over.
Revoked(rows) ==
  [k \in KeyIds |-> IF k \in rows /\ InForceNow(k) THEN [keys[k] EXCEPT !.state = "revoked"] ELSE keys[k]]

\* The key is inserted, unless one came to be in force since the sweep: then
\* the index refuses it and the transaction is undone.
CommitKey(h) ==
  LET r == handler[h]
  IN /\ r.kind = "generate"
     /\ \/ InForce(r.user, {r.service}) \ r.rows # {} /\ UNCHANGED keys /\ To(h, "error")
        \/ /\ InForce(r.user, {r.service}) \ r.rows = {}
           /\ \E k \in KeyIds :
                /\ keys[k].state = "none"
                /\ keys' = [Revoked(r.rows) EXCEPT
                              ![k] = [state |-> "live", user |-> r.user, service |-> r.service]]
                /\ handler' = [handler EXCEPT ![h].pc = "ok", ![h].key = k]
     /\ UNCHANGED <<switches, account, caller, barred>>

CommitRevocation(h) ==
  /\ handler[h].kind = "revoke" /\ keys' = Revoked(handler[h].rows) /\ To(h, "ok")
  /\ UNCHANGED <<switches, account, caller, barred>>

\* set_user_access and update_user: a column is written if it was to change.
CommitAccount(h) ==
  LET r == handler[h]
  IN /\ \/ /\ r.kind = "access"
           /\ account' = [account EXCEPT ![r.user].allowed =
                            IF r.value THEN @ \cup {r.service} ELSE @ \ {r.service}]
        \/ /\ r.kind = "account"
           /\ account' = [account EXCEPT ![r.user].active = IF r.was = r.value THEN @ ELSE r.value]
     /\ keys' = Revoked(r.rows)
     /\ IF r.value /\ account' # account THEN GivenBackTo(r.user) ELSE UNCHANGED barred
     /\ To(h, "ok") /\ UNCHANGED <<switches, caller>>

\* set_service_enabled writes both switches, one of them as it was loaded; two
\* first writes collide on the key of the row.
Switched(r) == IF r.value THEN r.seen.enabled \cup {r.service} ELSE r.seen.enabled \ {r.service}
CommitSwitch(h) ==
  LET r == handler[h]  on == Switched(r)
  IN /\ r.kind = "switch"
     /\ \/ /\ ~r.seen.row /\ switches.row
           /\ To(h, "error") /\ UNCHANGED <<switches, barred>>
        \/ /\ r.seen.row \/ ~switches.row
           /\ switches' = IF r.seen.row /\ on = r.seen.enabled THEN switches ELSE [row |-> TRUE, enabled |-> on]
           /\ GivenBackFor(switches'.enabled \ switches.enabled)
           /\ To(h, "ok")
     /\ UNCHANGED <<account, keys, caller>>

Commit(h) == /\ handler[h].pc = "commit"
             /\ CommitKey(h) \/ CommitRevocation(h) \/ CommitAccount(h) \/ CommitSwitch(h)

Answered(h) == /\ handler[h].pc \in {"ok", "refused", "error"}
               /\ handler' = [handler EXCEPT ![h] = Unused] /\ Unwritten

\* reset_password by an administrator, change_password by the user.
SetPassword(u, mustChange) ==
  /\ account[u].mustChange # mustChange
  /\ account' = [account EXCEPT ![u].mustChange = mustChange]
  /\ IF mustChange THEN UNCHANGED barred ELSE GivenBackTo(u)
  /\ UNCHANGED <<switches, keys, caller, handler>>

\* 90 days.
Expire(k) == /\ keys[k].state = "live"
             /\ keys' = [keys EXCEPT ![k].state = "expired"]
             /\ UNCHANGED <<switches, account, caller, barred, handler>>
-----------------------------------------------------------------------------
(* authenticate. *)

CallerTo(c, pc) == caller' = [caller EXCEPT ![c].pc = pc]
Reading == UNCHANGED <<switches, account, keys, barred, handler>>

\* A program presents a key it was given to a service.
Call(c, k, s) ==
  /\ caller[c].pc = "idle" /\ keys[k].state # "none"
  /\ caller' = [caller EXCEPT ![c] = [pc |-> "switch", key |-> k, service |-> s]]
  /\ barred' = IF Entitled(k, s) THEN barred ELSE barred \cup {c}
  /\ UNCHANGED <<switches, account, keys, handler>>

Checked(c, step, passes, next) ==
  /\ caller[c].pc = step /\ CallerTo(c, IF passes THEN next ELSE "refused") /\ Reading

\* The prefix of the key and the switch; the row of the key; the user.
CheckSwitch(c) == Checked(c, "switch", /\ keys[caller[c].key].service = caller[c].service
                                       /\ caller[c].service \in switches.enabled, "key")
CheckKey(c) == Checked(c, "key", keys[caller[c].key].state = "live", "user")
\* Mutated form: a withdrawal is taken to have revoked the keys.
CheckUser_trusts_withdrawal(c) ==
  LET u == keys[caller[c].key].user
  IN Checked(c, "user", account[u].active /\ ~account[u].mustChange, "served")
CheckUser(c) == Checked(c, "user", Admits(keys[caller[c].key].user, caller[c].service), "served")

Return(c) == /\ caller[c].pc \in {"served", "refused"}
             /\ caller' = [caller EXCEPT ![c] = Quiet] /\ barred' = barred \ {c}
             /\ UNCHANGED <<switches, account, keys, handler>>
-----------------------------------------------------------------------------
Requests == {"generate", "revoke", "access", "account", "switch"}
ServerStep == \E h \in Handlers : Load(h) \/ Sweep(h) \/ Commit(h)
CallerStep == \E c \in Callers :
  \/ \E k \in KeyIds, s \in Services : Call(c, k, s)
  \/ CheckSwitch(c) \/ CheckKey(c) \/ CheckUser(c) \/ Return(c)

KeysNext ==
  \/ \E h \in Handlers :
       \/ \E kind \in Requests, u \in Users, s \in Services, v \in BOOLEAN : Ask(h, kind, u, s, v)
       \/ Answered(h)
  \/ ServerStep \/ CallerStep
  \/ \E u \in Users, v \in BOOLEAN : SetPassword(u, v)
  \/ \E k \in KeyIds : Expire(k)

KeysSpec == KeysInit /\ [][KeysNext]_keyVars
-----------------------------------------------------------------------------
\* external_access.py: no request is served if, since before it began, its
\* service was off, its key revoked, replaced or expired, or its owner
\* deactivated, without the authorisation or due to change the password,
\* whatever keys were created while one of these was being decided.
OnlyTheEntitledAreServed == \A c \in barred : caller[c].pc # "served"
=============================================================================
