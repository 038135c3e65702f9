----------------------------- MODULE PageProofs -----------------------------
(***************************************************************************)
(* Proofs about AccessKeys and AccessPages, WebSession, TargetPages,       *)
(* ProfileEditor and DiscoveryWizard, for any users, services, keys, tabs, *)
(* values and names, any sizes of pages and any bounds: only the entitled  *)
(* are served, what a tab believes of the user it shows is what the server *)
(* knows of the session whose token it holds, the groups that a save makes *)
(* are whole, a section of checks says to the engine what its form shows,  *)
(* and what a selection of the wizard holds is what its rows allow.        *)
(***************************************************************************)
EXTENDS AccessPages, WebSession, TargetPages, ProfileEditor, DiscoveryWizard,
        FiniteSetTheorems, SequenceTheorems, TLAPS

-----------------------------------------------------------------------------
(* AccessKeys, AccessPages: who is served, and what the pages show of it. *)

KeyStates == {"none", "live", "expired", "revoked"}
Switch == [row : BOOLEAN, enabled : SUBSET Services]
Account == [active : BOOLEAN, mustChange : BOOLEAN, allowed : SUBSET Services]
Key == [state : KeyStates, user : Users \cup {Nobody}, service : Services \cup {Nobody}]
CallerPcs == {"idle", "switch", "key", "user", "served", "refused"}
CallerRecord == [pc : CallerPcs, key : KeyIds \cup {Nobody}, service : Services \cup {Nobody}]
HandlerPcs == {"idle", "load", "sweep", "commit", "ok", "refused", "error"}
HandlerRecord ==
  [pc : HandlerPcs, kind : Requests \cup {Nobody}, user : Users \cup {Nobody},
   service : Services \cup {Nobody}, value : BOOLEAN, was : BOOLEAN, seen : Switch,
   rows : SUBSET KeyIds, key : KeyIds \cup {Nobody}]

\* The rows have the columns of their tables, a key its owner; a program holds a
\* key that was made, a thread that is at work was asked about a user and a service.
TypeOK ==
  /\ switches \in Switch
  /\ account \in [Users -> Account]
  /\ keys \in [KeyIds -> Key]
  /\ \A k \in KeyIds : keys[k].state # "none" => keys[k].user \in Users
  /\ caller \in [Callers -> CallerRecord]
  /\ \A c \in Callers : caller[c].pc # "idle" =>
       /\ caller[c].key \in KeyIds /\ caller[c].service \in Services
       /\ keys[caller[c].key].state # "none"
  /\ barred \subseteq Callers
  /\ handler \in [Handlers -> HandlerRecord]
  /\ \A h \in Handlers : handler[h].pc # "idle" =>
       handler[h].user \in Users /\ handler[h].service \in Services

\* A barred request is refused by one of the checks it has not passed yet.
BarredAt(c) ==
  LET k == caller[c].key  s == caller[c].service
  IN /\ caller[c].pc \in {"switch", "key", "user", "refused"}
     /\ caller[c].pc = "switch" => ~Entitled(k, s)
     /\ caller[c].pc = "key" => keys[k].state # "live" \/ ~Admits(keys[k].user, s)
     /\ caller[c].pc = "user" => ~Admits(keys[k].user, s)
Inv == TypeOK /\ \A c \in barred : BarredAt(c)

\* An account lets its user's requests to a service in: Admits of the account.
LetIn(a, s) == a.active /\ s \in a.allowed /\ ~a.mustChange

\* What a step has given to nobody who is barred after it.
GivesNothing(c) ==
  LET k == caller[c].key  s == caller[c].service
  IN /\ caller'[c] = caller[c]
     /\ keys'[k].user = keys[k].user /\ keys'[k].service = keys[k].service
     /\ keys'[k].state = "live" => keys[k].state = "live"
     /\ s \in switches'.enabled => s \in switches.enabled
     /\ LetIn(account'[keys[k].user], s) => LetIn(account[keys[k].user], s)

LEMMA StillBarred ==
  ASSUME NEW c \in barred, BarredAt(c), GivesNothing(c)
  PROVE  BarredAt(c)'
BY DEF BarredAt, GivesNothing, Entitled, Admits, LetIn
-----------------------------------------------------------------------------
LEMMA InvInit == KeysInit => Inv
<1> SUFFICES ASSUME KeysInit PROVE Inv
  OBVIOUS
<1>1. switches \in Switch /\ account \in [Users -> Account]
  BY DEF KeysInit, Switch, Account
<1>2. keys \in [KeyIds -> Key] /\ \A k \in KeyIds : keys[k].state # "none" => keys[k].user \in Users
  <2>1. PICK S \in SUBSET Services, of \in [OldKeys -> Users \X Services] :
          keys = [k \in KeyIds |-> IF k \in OldKeys
                                   THEN [state |-> "live", user |-> of[k][1], service |-> of[k][2]]
                                   ELSE NoKey]
    BY DEF KeysInit
  <2> QED BY <2>1 DEF Key, KeyStates, NoKey
<1>3. caller \in [Callers -> CallerRecord] /\ \A c \in Callers : caller[c].pc = "idle"
  BY DEF KeysInit, Quiet, CallerRecord, CallerPcs
<1>4. handler \in [Handlers -> HandlerRecord] /\ \A h \in Handlers : handler[h].pc = "idle"
  BY DEF KeysInit, Unused, HandlerRecord, HandlerPcs, Switch
<1> QED BY <1>1, <1>2, <1>3, <1>4 DEF Inv, TypeOK, KeysInit

\* A step of the threads that writes no row.
LEMMA HandlerSteps ==
  ASSUME Inv, Unwritten, handler' \in [Handlers -> HandlerRecord],
         \A h \in Handlers : handler'[h].pc # "idle" =>
           handler'[h].user \in Users /\ handler'[h].service \in Services
  PROVE  Inv'
BY DEF Inv, TypeOK, Unwritten, BarredAt, Entitled, Admits

LEMMA AskInv ==
  ASSUME Inv, NEW h \in Handlers, NEW kind \in Requests, NEW u \in Users, NEW s \in Services,
         NEW v \in BOOLEAN, Ask(h, kind, u, s, v)
  PROVE  Inv'
<1>1. [Unused EXCEPT !.pc = "load", !.kind = kind, !.user = u, !.service = s, !.value = v] \in HandlerRecord
  BY DEF Unused, HandlerRecord, HandlerPcs, Switch
<1> DEFINE new == [Unused EXCEPT !.pc = "load", !.kind = kind, !.user = u, !.service = s, !.value = v]
<1>2. new.user = u /\ new.service = s
  BY DEF Unused
<1>3. handler' = [handler EXCEPT ![h] = new] /\ Unwritten
  BY DEF Ask
<1> HIDE DEF new
<1>4. handler' \in [Handlers -> HandlerRecord]
  BY <1>1, <1>3 DEF Inv, TypeOK, new
<1>5. \A g \in Handlers : handler'[g].pc # "idle" => handler'[g].user \in Users /\ handler'[g].service \in Services
  BY <1>2, <1>3 DEF Inv, TypeOK
<1> QED BY <1>3, <1>4, <1>5, HandlerSteps

LEMMA AnsweredInv == ASSUME Inv, NEW h \in Handlers, Answered(h) PROVE Inv'
<1>1. Unused \in HandlerRecord /\ Unused.pc = "idle"
  BY DEF Unused, HandlerRecord, HandlerPcs, Switch
<1>2. handler' \in [Handlers -> HandlerRecord]
  BY <1>1 DEF Answered, Inv, TypeOK
<1>3. \A g \in Handlers : handler'[g].pc # "idle" => handler'[g].user \in Users /\ handler'[g].service \in Services
  BY <1>1 DEF Answered, Inv, TypeOK
<1> QED BY <1>2, <1>3, HandlerSteps DEF Answered

\* A thread goes on, with what it read.
LEMMA ToInv ==
  ASSUME TypeOK, NEW h \in Handlers, NEW new \in HandlerRecord, handler[h].pc # "idle",
         new.user = handler[h].user, new.service = handler[h].service,
         handler' = [handler EXCEPT ![h] = new]
  PROVE  /\ handler' \in [Handlers -> HandlerRecord]
         /\ \A g \in Handlers : handler'[g].pc # "idle" =>
              handler'[g].user \in Users /\ handler'[g].service \in Services
BY DEF TypeOK

LEMMA PcOnly ==
  ASSUME NEW r \in HandlerRecord, NEW pc \in HandlerPcs
  PROVE  /\ [r EXCEPT !.pc = pc] \in HandlerRecord
         /\ [r EXCEPT !.pc = pc].user = r.user /\ [r EXCEPT !.pc = pc].service = r.service
BY DEF HandlerRecord

LEMMA ToKeeps ==
  ASSUME TypeOK, NEW h \in Handlers, NEW pc \in HandlerPcs, handler[h].pc # "idle", To(h, pc)
  PROVE  /\ handler' \in [Handlers -> HandlerRecord]
         /\ \A g \in Handlers : handler'[g].pc # "idle" =>
              handler'[g].user \in Users /\ handler'[g].service \in Services
<1>1. handler[h] \in HandlerRecord
  BY DEF TypeOK
<1>2. handler' = [handler EXCEPT ![h] = [handler[h] EXCEPT !.pc = pc]]
  BY DEF To
<1> QED BY <1>1, <1>2, PcOnly, ToInv

LEMMA LoadInv == ASSUME Inv, NEW h \in Handlers, Load(h) PROVE Inv'
<1> USE DEF HandlerPcs
<1> DEFINE r == handler[h]
<1>0. TypeOK /\ r \in HandlerRecord /\ r.pc = "load" /\ Unwritten
  BY DEF Inv, TypeOK, Load
<1>1. CASE \E pc \in HandlerPcs : To(h, pc)
  BY <1>0, <1>1, ToKeeps, HandlerSteps
<1>2. CASE r.kind = "account" /\ handler' = [handler EXCEPT ![h].pc = IF r.value THEN "commit" ELSE "sweep",
                                                ![h].was = account[r.user].active]
  <2> DEFINE new == [r EXCEPT !.pc = IF r.value THEN "commit" ELSE "sweep", !.was = account[r.user].active]
  <2>1. account[r.user].active \in BOOLEAN
    BY <1>0 DEF TypeOK, Account
  <2>2. new \in HandlerRecord /\ new.user = r.user /\ new.service = r.service
    BY <1>0, <2>1 DEF HandlerRecord
  <2>3. handler' = [handler EXCEPT ![h] = new]
    BY <1>2, <1>0 DEF TypeOK
  <2> HIDE DEF new
  <2> QED BY <1>0, <2>2, <2>3, ToInv, HandlerSteps
<1>3. CASE r.kind = "switch" /\ handler' = [handler EXCEPT ![h].pc = "commit", ![h].seen = switches]
  <2> DEFINE new == [r EXCEPT !.pc = "commit", !.seen = switches]
  <2>2. new \in HandlerRecord /\ new.user = r.user /\ new.service = r.service
    BY <1>0 DEF HandlerRecord, TypeOK
  <2>3. handler' = [handler EXCEPT ![h] = new]
    BY <1>3, <1>0 DEF TypeOK
  <2> HIDE DEF new
  <2> QED BY <1>0, <2>2, <2>3, ToInv, HandlerSteps
<1> QED BY <1>1, <1>2, <1>3 DEF Load

LEMMA SweepInv == ASSUME Inv, NEW h \in Handlers, Sweep(h) PROVE Inv'
<1> DEFINE r == handler[h]
           rows == InForce(r.user, IF r.kind = "account" THEN Services ELSE {r.service})
           new == [r EXCEPT !.pc = "commit", !.rows = rows]
<1>0. TypeOK /\ r \in HandlerRecord /\ r.pc = "sweep" /\ Unwritten
  BY DEF Inv, TypeOK, Sweep
<1>1. rows \subseteq KeyIds
  BY DEF InForce
<1>2. handler' = [handler EXCEPT ![h] = new]
  BY <1>0 DEF Sweep, TypeOK
<1> HIDE DEF rows
<1>3. new \in HandlerRecord /\ new.user = r.user /\ new.service = r.service
  BY <1>0, <1>1 DEF HandlerRecord, HandlerPcs
<1> HIDE DEF new
<1> QED BY <1>0, <1>2, <1>3, ToInv, HandlerSteps
-----------------------------------------------------------------------------
(* The commits. *)

LEMMA RevokedRows ==
  ASSUME TypeOK, NEW rows
  PROVE  /\ Revoked(rows) \in [KeyIds -> Key]
         /\ \A k \in KeyIds : /\ Revoked(rows)[k].user = keys[k].user
                              /\ Revoked(rows)[k].service = keys[k].service
                              /\ Revoked(rows)[k].state \in {keys[k].state, "revoked"}
                              /\ Revoked(rows)[k].state # "none" => keys[k].state # "none"
BY DEF Revoked, InForceNow, TypeOK, Key, KeyStates

LEMMA CommitKeyInv == ASSUME Inv, NEW h \in Handlers, handler[h].pc = "commit", CommitKey(h) PROVE Inv'
<1> DEFINE r == handler[h]
<1>0. TypeOK /\ r \in HandlerRecord /\ r.user \in Users /\ r.service \in Services
  BY DEF Inv, TypeOK
<1>1. CASE UNCHANGED keys /\ To(h, "error")
  <2>1. Unwritten
    BY <1>1 DEF CommitKey, Unwritten
  <2> QED BY <1>0, <1>1, <2>1, ToKeeps, HandlerSteps DEF HandlerPcs
<1>2. CASE \E k \in KeyIds :
             /\ keys[k].state = "none"
             /\ keys' = [Revoked(r.rows) EXCEPT
                           ![k] = [state |-> "live", user |-> r.user, service |-> r.service]]
             /\ handler' = [handler EXCEPT ![h].pc = "ok", ![h].key = k]
  <2>1. PICK k \in KeyIds :
             /\ keys[k].state = "none"
             /\ keys' = [Revoked(r.rows) EXCEPT
                           ![k] = [state |-> "live", user |-> r.user, service |-> r.service]]
             /\ handler' = [handler EXCEPT ![h].pc = "ok", ![h].key = k]
    BY <1>2
  <2> DEFINE new == [r EXCEPT !.pc = "ok", !.key = k]
  <2>2. new \in HandlerRecord /\ new.user = r.user /\ new.service = r.service
    BY <1>0 DEF HandlerRecord, HandlerPcs
  <2>3. handler' = [handler EXCEPT ![h] = new]
    BY <2>1, <1>0 DEF TypeOK
  <2> HIDE DEF new
  <2>4. /\ handler' \in [Handlers -> HandlerRecord]
        /\ \A g \in Handlers : handler'[g].pc # "idle" =>
              handler'[g].user \in Users /\ handler'[g].service \in Services
    BY <1>0, <2>2, <2>3, ToInv
  <2>5. [state |-> "live", user |-> r.user, service |-> r.service] \in Key
    BY <1>0 DEF Key, KeyStates
  <2>6. /\ keys' \in [KeyIds -> Key]
        /\ keys'[k].user \in Users
        /\ \A j \in KeyIds \ {k} : keys'[j] = Revoked(r.rows)[j]
    BY <1>0, <2>1, <2>5, RevokedRows
  <2>7. UNCHANGED <<switches, account, caller, barred>>
    BY DEF CommitKey
  <2>8. \A c \in Callers : caller[c].pc # "idle" =>
          /\ caller[c].key # k
          /\ keys'[caller[c].key].user = keys[caller[c].key].user
          /\ keys'[caller[c].key].service = keys[caller[c].key].service
          /\ keys'[caller[c].key].state \in {keys[caller[c].key].state, "revoked"}
    BY <1>0, <2>1, <2>6, RevokedRows DEF TypeOK
  <2>9. TypeOK'
    <3>1. \A j \in KeyIds : keys'[j].state # "none" => keys'[j].user \in Users
      BY <1>0, <2>6, RevokedRows DEF TypeOK
    <3> QED BY <1>0, <2>4, <2>6, <2>7, <2>8, <3>1 DEF TypeOK
  <2>10. \A c \in barred' : BarredAt(c)'
    <3> SUFFICES ASSUME NEW c \in barred PROVE BarredAt(c)'
      BY <2>7
    <3>1. BarredAt(c) /\ c \in Callers /\ caller[c].pc # "idle"
      BY DEF Inv, TypeOK, BarredAt
    <3>2. GivesNothing(c)
      BY <3>1, <2>7, <2>8 DEF GivesNothing
    <3> QED BY <3>1, <3>2, StillBarred
  <2> QED BY <2>9, <2>10 DEF Inv
<1> QED BY <1>1, <1>2 DEF CommitKey

\* Keys revoked, and accounts that let nobody in who is barred after it.
LEMMA RevokingInv ==
  ASSUME Inv, NEW h \in Handlers, handler[h].pc = "commit", NEW rows, keys' = Revoked(rows),
         account' \in [Users -> Account], To(h, "ok"), UNCHANGED <<switches, caller>>,
         barred' \subseteq barred,
         \A c \in barred' : LetIn(account'[keys[caller[c].key].user], caller[c].service)
                            => LetIn(account[keys[caller[c].key].user], caller[c].service)
  PROVE  Inv'
<1>0. TypeOK
  BY DEF Inv
<1>1. /\ handler' \in [Handlers -> HandlerRecord]
      /\ \A g \in Handlers : handler'[g].pc # "idle" =>
           handler'[g].user \in Users /\ handler'[g].service \in Services
  BY <1>0, ToKeeps DEF HandlerPcs
<1>2. TypeOK'
  BY <1>0, <1>1, RevokedRows DEF TypeOK
<1>3. ASSUME NEW c \in barred' PROVE BarredAt(c)'
  <2>1. c \in barred /\ BarredAt(c) /\ c \in Callers /\ caller[c].key \in KeyIds
    BY <1>3 DEF Inv, TypeOK, BarredAt
  <2>2. GivesNothing(c)
    BY <1>0, <1>3, <2>1, RevokedRows DEF GivesNothing
  <2> QED BY <2>1, <2>2, StillBarred
<1> QED BY <1>2, <1>3 DEF Inv

LEMMA CommitRevocationInv ==
  ASSUME Inv, NEW h \in Handlers, handler[h].pc = "commit", CommitRevocation(h) PROVE Inv'
<1>1. /\ keys' = Revoked(handler[h].rows) /\ To(h, "ok")
      /\ UNCHANGED <<switches, account, caller, barred>>
  BY DEF CommitRevocation
<1>2. account' \in [Users -> Account] /\ account' = account
  BY <1>1 DEF Inv, TypeOK
<1> QED BY <1>1, <1>2, RevokingInv

LEMMA CommitAccountInv ==
  ASSUME Inv, NEW h \in Handlers, handler[h].pc = "commit", CommitAccount(h) PROVE Inv'
<1> DEFINE r == handler[h]
<1>0. TypeOK /\ r \in HandlerRecord /\ r.user \in Users /\ r.service \in Services
  BY DEF Inv, TypeOK
<1>1. PICK a : a = account[r.user] /\ a \in Account
  BY <1>0 DEF TypeOK
<1>2. r.value \in BOOLEAN
  BY <1>0 DEF HandlerRecord
\* The row as it is written.
<1>3. PICK b \in Account :
        /\ account' = [account EXCEPT ![r.user] = b]
        /\ ~r.value => \A s : LetIn(b, s) => LetIn(a, s)
  <2>1. CASE account' = [account EXCEPT ![r.user].allowed =
                           IF r.value THEN @ \cup {r.service} ELSE @ \ {r.service}]
    <3>1. PICK b : b = [a EXCEPT !.allowed = IF r.value THEN a.allowed \cup {r.service}
                                             ELSE a.allowed \ {r.service}]
      OBVIOUS
    <3>2. b \in Account
      BY <1>0, <1>1, <1>2, <3>1 DEF Account
    <3>3. account' = [account EXCEPT ![r.user] = b]
      BY <1>0, <1>1, <2>1, <3>1 DEF TypeOK
    <3>4. ASSUME ~r.value, NEW s, LetIn(b, s) PROVE LetIn(a, s)
      BY <1>1, <3>1, <3>4 DEF Account, LetIn
    <3> QED BY <3>2, <3>3, <3>4
  <2>2. CASE account' = [account EXCEPT ![r.user].active = IF r.was = r.value THEN @ ELSE r.value]
    <3>1. PICK b : b = [a EXCEPT !.active = IF r.was = r.value THEN a.active ELSE r.value]
      OBVIOUS
    <3>2. b \in Account
      BY <1>1, <1>2, <3>1 DEF Account
    <3>3. account' = [account EXCEPT ![r.user] = b]
      BY <1>0, <1>1, <2>2, <3>1 DEF TypeOK
    <3>4. ASSUME ~r.value, NEW s, LetIn(b, s) PROVE LetIn(a, s)
      BY <1>1, <3>1, <3>4 DEF Account, LetIn
    <3> QED BY <3>2, <3>3, <3>4
  <2> QED BY <2>1, <2>2 DEF CommitAccount
<1>4. account' \in [Users -> Account]
  BY <1>0, <1>3 DEF TypeOK
<1>5. barred' \subseteq barred
  BY DEF CommitAccount, GivenBackTo
<1>6. ASSUME NEW c \in barred'
      PROVE  LetIn(account'[keys[caller[c].key].user], caller[c].service)
             => LetIn(account[keys[caller[c].key].user], caller[c].service)
  <2>1. c \in Callers /\ caller[c].key \in KeyIds /\ keys[caller[c].key].state # "none"
    BY <1>5, <1>6 DEF Inv, TypeOK, BarredAt
  <2>2. PICK u \in Users : u = keys[caller[c].key].user
    BY <1>0, <2>1 DEF TypeOK
  <2>3. CASE u # r.user
    BY <1>0, <1>3, <2>2, <2>3 DEF TypeOK
  <2>4. CASE u = r.user /\ ~r.value
    BY <1>0, <1>1, <1>3, <2>2, <2>4 DEF TypeOK
  <2>5. CASE u = r.user /\ r.value /\ account' = account
    BY <2>5
  <2>6. CASE u = r.user /\ r.value /\ account' # account
    <3>1. GivenBackTo(r.user)
      BY <2>6 DEF CommitAccount
    <3> QED BY <1>6, <2>2, <2>6, <3>1 DEF GivenBackTo
  <2> QED BY <1>2, <2>3, <2>4, <2>5, <2>6
<1>7. keys' = Revoked(r.rows) /\ To(h, "ok") /\ UNCHANGED <<switches, caller>>
  BY DEF CommitAccount
<1> QED BY <1>4, <1>5, <1>6, <1>7, RevokingInv

LEMMA CommitSwitchInv ==
  ASSUME Inv, NEW h \in Handlers, handler[h].pc = "commit", CommitSwitch(h) PROVE Inv'
<1> DEFINE r == handler[h]
<1>0. TypeOK /\ r.service \in Services /\ r.seen \in Switch
  BY DEF Inv, TypeOK, HandlerRecord
<1>1. CASE To(h, "error") /\ UNCHANGED <<switches, barred>>
  <2>1. Unwritten
    BY <1>1 DEF CommitSwitch, Unwritten
  <2> QED BY <1>0, <1>1, <2>1, ToKeeps, HandlerSteps DEF HandlerPcs
<1>2. CASE /\ switches' = IF r.seen.row /\ Switched(r) = r.seen.enabled THEN switches
                          ELSE [row |-> TRUE, enabled |-> Switched(r)]
           /\ GivenBackFor(switches'.enabled \ switches.enabled)
           /\ To(h, "ok")
  <2>1. switches' \in Switch
    BY <1>0, <1>2 DEF Switch, Switched, TypeOK
  <2>2. /\ handler' \in [Handlers -> HandlerRecord]
        /\ \A g \in Handlers : handler'[g].pc # "idle" =>
             handler'[g].user \in Users /\ handler'[g].service \in Services
    BY <1>0, <1>2, ToKeeps DEF HandlerPcs
  <2>3. UNCHANGED <<account, keys, caller>> /\ barred' \subseteq barred
    BY <1>2 DEF CommitSwitch, GivenBackFor
  <2>4. TypeOK'
    BY <1>0, <2>1, <2>2, <2>3 DEF TypeOK
  <2>5. ASSUME NEW c \in barred' PROVE BarredAt(c)'
    <3>1. c \in barred /\ BarredAt(c)
      BY <2>3, <2>5 DEF Inv
    <3>2. caller[c].service \notin switches'.enabled \ switches.enabled
      BY <1>2, <2>5 DEF GivenBackFor
    <3>3. GivesNothing(c)
      BY <2>3, <3>2 DEF GivesNothing
    <3> QED BY <3>1, <3>3, StillBarred
  <2> QED BY <2>4, <2>5 DEF Inv
<1> QED BY <1>1, <1>2 DEF CommitSwitch

LEMMA SetPasswordInv ==
  ASSUME Inv, NEW u \in Users, NEW v \in BOOLEAN, SetPassword(u, v) PROVE Inv'
<1>0. TypeOK
  BY DEF Inv
<1>1. TypeOK'
  BY <1>0 DEF SetPassword, GivenBackTo, TypeOK, Account
<1>2. ASSUME NEW c \in barred' PROVE BarredAt(c)'
  <2>1. c \in barred /\ BarredAt(c)
    BY <1>2 DEF SetPassword, GivenBackTo, Inv
  <2> DEFINE holder == keys[caller[c].key].user
  <2>2. holder # u \/ v
    BY <1>2 DEF SetPassword, GivenBackTo
  <2>3. c \in Callers /\ caller[c].key \in KeyIds /\ keys[caller[c].key].state # "none"
    BY <1>0, <2>1 DEF TypeOK, BarredAt
  <2>4. LetIn(account'[holder], caller[c].service) => LetIn(account[holder], caller[c].service)
    <3>1. account[u] \in Account /\ holder \in Users
      BY <1>0, <2>3 DEF TypeOK
    <3>2. account'[holder] = IF holder = u THEN [account[u] EXCEPT !.mustChange = v] ELSE account[holder]
      BY <1>0, <3>1 DEF SetPassword, TypeOK
    <3> QED BY <2>2, <3>1, <3>2 DEF LetIn, Account
  <2>5. GivesNothing(c)
    BY <2>4 DEF GivesNothing, SetPassword
  <2> QED BY <2>1, <2>5, StillBarred
<1> QED BY <1>1, <1>2 DEF Inv

LEMMA ExpireInv == ASSUME Inv, NEW k \in KeyIds, Expire(k) PROVE Inv'
<1>0. TypeOK
  BY DEF Inv
<1>1. /\ keys' \in [KeyIds -> Key]
      /\ \A j \in KeyIds : /\ keys'[j].user = keys[j].user /\ keys'[j].service = keys[j].service
                           /\ \/ keys'[j].state = keys[j].state
                              \/ keys[j].state = "live" /\ keys'[j].state = "expired"
  <2>1. keys[k] \in Key /\ keys[k].state = "live" /\ keys' = [keys EXCEPT ![k] = [keys[k] EXCEPT !.state = "expired"]]
    BY <1>0 DEF Expire, TypeOK
  <2>2. /\ [keys[k] EXCEPT !.state = "expired"] \in Key
        /\ [keys[k] EXCEPT !.state = "expired"].user = keys[k].user
        /\ [keys[k] EXCEPT !.state = "expired"].service = keys[k].service
        /\ [keys[k] EXCEPT !.state = "expired"].state = "expired"
    BY <2>1 DEF Key, KeyStates
  <2>3. PICK e \in Key : /\ e.user = keys[k].user /\ e.service = keys[k].service /\ e.state = "expired"
                         /\ keys' = [keys EXCEPT ![k] = e]
    BY <2>1, <2>2
  <2> QED BY <1>0, <2>1, <2>3 DEF TypeOK
<1>2. TypeOK'
  BY <1>0, <1>1 DEF Expire, TypeOK
<1>3. ASSUME NEW c \in barred' PROVE BarredAt(c)'
  <2>1. c \in barred /\ BarredAt(c) /\ c \in Callers /\ caller[c].key \in KeyIds
    BY <1>0, <1>3 DEF Expire, Inv, TypeOK, BarredAt
  <2>2. GivesNothing(c)
    BY <1>1, <2>1 DEF GivesNothing, Expire
  <2> QED BY <2>1, <2>2, StillBarred
<1> QED BY <1>2, <1>3 DEF Inv
-----------------------------------------------------------------------------
(* The external programs. *)

\* A check: a request that is barred passes none that would refuse it.
LEMMA CheckedInv ==
  ASSUME Inv, NEW c \in Callers, NEW step \in {"switch", "key", "user"}, NEW passes \in BOOLEAN,
         NEW next \in CallerPcs, next # "idle", Checked(c, step, passes, next),
         c \in barred /\ passes => BarredAt(c)'
  PROVE  Inv'
<1>0. TypeOK /\ caller[c].pc = step
  BY DEF Inv, Checked
<1>1. caller' = [caller EXCEPT ![c].pc = IF passes THEN next ELSE "refused"]
      /\ UNCHANGED <<switches, account, keys, barred, handler>>
  BY DEF Checked, CallerTo, Reading
<1>2. caller' \in [Callers -> CallerRecord]
  BY <1>0, <1>1 DEF TypeOK, CallerRecord, CallerPcs
<1>3. \A d \in Callers : /\ caller'[d].key = caller[d].key /\ caller'[d].service = caller[d].service
                         /\ d # c => caller'[d] = caller[d]
  BY <1>0, <1>1 DEF TypeOK, CallerRecord
<1>4. TypeOK'
  BY <1>0, <1>1, <1>2, <1>3 DEF TypeOK
<1>5. ASSUME NEW d \in barred' PROVE BarredAt(d)'
  <2>1. d \in barred /\ d \in Callers /\ BarredAt(d)
    BY <1>0, <1>1, <1>5 DEF Inv, TypeOK
  <2>2. CASE d # c
    BY <1>1, <1>3, <2>1, <2>2 DEF BarredAt, Entitled, Admits
  <2>3. CASE d = c /\ passes
    BY <2>1, <2>3
  <2>4. CASE d = c /\ ~passes
    <3>1. caller'[c].pc = "refused"
      BY <1>0, <1>1, <2>4 DEF TypeOK, CallerRecord
    <3> QED BY <2>4, <3>1 DEF BarredAt
  <2> QED BY <2>2, <2>3, <2>4
<1> QED BY <1>4, <1>5 DEF Inv

LEMMA CheckInv ==
  ASSUME Inv, NEW c \in Callers, CheckSwitch(c) \/ CheckKey(c) \/ CheckUser(c) PROVE Inv'
<1> DEFINE k == caller[c].key  s == caller[c].service
<1>0. TypeOK /\ caller[c] \in CallerRecord
  BY DEF Inv, TypeOK
<1>1. CASE CheckSwitch(c)
  <2>1. ASSUME c \in barred, keys[k].service = s /\ s \in switches.enabled PROVE BarredAt(c)'
    <3>1. BarredAt(c) /\ caller[c].pc = "switch"
      BY <1>1, <2>1 DEF Inv, CheckSwitch, Checked
    <3>2. caller'[c] = [caller[c] EXCEPT !.pc = "key"] /\ UNCHANGED <<switches, account, keys>>
      BY <1>0, <1>1, <2>1 DEF CheckSwitch, Checked, CallerTo, Reading, TypeOK
    <3>3. caller'[c].pc = "key" /\ caller'[c].key = k /\ caller'[c].service = s
      BY <1>0, <3>2 DEF CallerRecord
    <3>4. keys[k].state # "live" \/ ~Admits(keys[k].user, s)
      BY <2>1, <3>1 DEF BarredAt, Entitled
    <3> QED BY <3>2, <3>3, <3>4 DEF BarredAt, Admits
  <2> QED BY <1>1, <2>1, CheckedInv DEF CheckSwitch, CallerPcs
<1>2. CASE CheckKey(c)
  <2>1. ASSUME c \in barred, keys[k].state = "live" PROVE BarredAt(c)'
    <3>1. BarredAt(c) /\ caller[c].pc = "key"
      BY <1>2, <2>1 DEF Inv, CheckKey, Checked
    <3>2. caller'[c] = [caller[c] EXCEPT !.pc = "user"] /\ UNCHANGED <<switches, account, keys>>
      BY <1>0, <1>2, <2>1 DEF CheckKey, Checked, CallerTo, Reading, TypeOK
    <3>3. caller'[c].pc = "user" /\ caller'[c].key = k /\ caller'[c].service = s
      BY <1>0, <3>2 DEF CallerRecord
    <3>4. ~Admits(keys[k].user, s)
      BY <2>1, <3>1 DEF BarredAt
    <3> QED BY <3>2, <3>3, <3>4 DEF BarredAt, Admits
  <2> QED BY <1>2, <2>1, CheckedInv DEF CheckKey, CallerPcs
<1>3. CASE CheckUser(c)
  <2>1. c \in barred => ~Admits(keys[k].user, s)
    BY <1>3 DEF Inv, CheckUser, Checked, BarredAt
  <2>2. Admits(keys[k].user, s) \in BOOLEAN
    BY DEF Admits
  <2> QED BY <1>3, <2>1, <2>2, CheckedInv DEF CheckUser, CallerPcs
<1> QED BY <1>1, <1>2, <1>3

LEMMA CallInv ==
  ASSUME Inv, NEW c \in Callers, NEW k \in KeyIds, NEW s \in Services, Call(c, k, s) PROVE Inv'
<1> DEFINE new == [pc |-> "switch", key |-> k, service |-> s]
<1>0. TypeOK /\ caller[c].pc = "idle" /\ keys[k].state # "none"
  BY DEF Inv, Call
<1>1. caller' = [caller EXCEPT ![c] = new] /\ UNCHANGED <<switches, account, keys, handler>>
  BY DEF Call
<1>2. new \in CallerRecord
  BY DEF CallerRecord, CallerPcs
<1>3. barred' \subseteq Callers
  BY <1>0 DEF Call, TypeOK
<1>4. TypeOK'
  BY <1>0, <1>1, <1>2, <1>3 DEF TypeOK
<1>5. ASSUME NEW d \in barred' PROVE BarredAt(d)'
  <2>1. CASE d # c
    <3>1. d \in barred /\ BarredAt(d) /\ caller'[d] = caller[d]
      BY <1>0, <1>1, <1>5, <2>1 DEF Call, Inv, TypeOK
    <3> QED BY <1>1, <3>1 DEF BarredAt, Entitled, Admits
  <2>2. CASE d = c
    <3>1. ~Entitled(k, s)
      BY <1>0, <1>5, <2>2 DEF Call, Inv, BarredAt
    <3>2. caller'[c] = new
      BY <1>0, <1>1 DEF TypeOK
    <3> QED BY <1>1, <2>2, <3>1, <3>2 DEF BarredAt, Entitled, Admits
  <2> QED BY <2>1, <2>2
<1> QED BY <1>4, <1>5 DEF Inv

LEMMA ReturnInv == ASSUME Inv, NEW c \in Callers, Return(c) PROVE Inv'
<1>0. TypeOK /\ Quiet \in CallerRecord /\ Quiet.pc = "idle"
  BY DEF Inv, Quiet, CallerRecord, CallerPcs
<1>1. TypeOK'
  BY <1>0 DEF Return, TypeOK
<1>2. ASSUME NEW d \in barred' PROVE BarredAt(d)'
  <2>1. d \in barred /\ BarredAt(d) /\ caller'[d] = caller[d]
    BY <1>0, <1>2 DEF Return, Inv, TypeOK
  <2> QED BY <2>1 DEF Return, BarredAt, Entitled, Admits
<1> QED BY <1>1, <1>2 DEF Inv
-----------------------------------------------------------------------------
LEMMA InvNext == Inv /\ [KeysNext]_keyVars => Inv'
<1> SUFFICES ASSUME Inv, [KeysNext]_keyVars PROVE Inv'
  OBVIOUS
<1>1. ASSUME NEW h \in Handlers, NEW kind \in Requests, NEW u \in Users, NEW s \in Services,
             NEW v \in BOOLEAN, Ask(h, kind, u, s, v)
      PROVE  Inv'
  BY <1>1, AskInv
<1>2. ASSUME NEW h \in Handlers, Answered(h) PROVE Inv'
  BY <1>2, AnsweredInv
<1>3. CASE ServerStep
  <2>1. ASSUME NEW h \in Handlers, Commit(h) PROVE Inv'
    BY <2>1, CommitKeyInv, CommitRevocationInv, CommitAccountInv, CommitSwitchInv DEF Commit
  <2> QED BY <1>3, <2>1, LoadInv, SweepInv DEF ServerStep
<1>4. CASE CallerStep
  BY <1>4, CallInv, CheckInv, ReturnInv DEF CallerStep
<1>5. ASSUME NEW u \in Users, NEW v \in BOOLEAN, SetPassword(u, v) PROVE Inv'
  BY <1>5, SetPasswordInv
<1>6. ASSUME NEW k \in KeyIds, Expire(k) PROVE Inv'
  BY <1>6, ExpireInv
<1>7. CASE UNCHANGED keyVars
  BY <1>7 DEF keyVars, Inv, TypeOK, BarredAt, Entitled, Admits
<1> QED BY <1>1, <1>2, <1>3, <1>4, <1>5, <1>6, <1>7 DEF KeysNext

LEMMA InvServes == Inv => OnlyTheEntitledAreServed
BY DEF Inv, BarredAt, OnlyTheEntitledAreServed

\* The rows are well formed and every barred request still has in front of it
\* the check that refuses it: external_access.py, authenticate.
THEOREM KeysInvariant == KeysSpec => []Inv
<1> QED BY InvInit, InvNext, PTL DEF KeysSpec

\* No key opens a service to a request that was to be refused since before it
\* began: external_access.py, authenticate against create_token,
\* set_user_access, set_service_enabled, revoke_tokens and update_user.
THEOREM KeysServeTheEntitled == KeysSpec => []OnlyTheEntitledAreServed
<1> QED BY KeysInvariant, InvServes, PTL
-----------------------------------------------------------------------------
(* The pages and the administrators' controls ask for nothing but what      *)
(* KeysNext has anybody ask for.                                            *)

\* The page is that of a user, its requests run in threads of the service.
Placed == /\ Owner \in Users /\ Services # {}
          /\ OwnerSlots \cup UsersSlots \cup SettingsSlots \subseteq Handlers

LEMMA OwnerSteps == ASSUME Placed, OwnerStep PROVE [KeysNext]_keyVars
<1> USE DEF Placed
<1>1. CASE ServeLoad \/ Loaded \/ CloseDialog
  BY <1>1 DEF ServeLoad, Loaded, CloseDialog
<1>2. ASSUME NEW s \in Services, generate(s) \/ revoke(s) PROVE KeysNext
  <2>1. "generate" \in Requests /\ "revoke" \in Requests /\ TRUE \in BOOLEAN
    BY DEF Requests
  <2> QED BY <1>2, <2>1 DEF generate, revoke, KeysNext
<1>3. ASSUME NEW h \in OwnerSlots, Told(h) PROVE KeysNext
  BY <1>3 DEF Told, KeysNext
<1> QED BY <1>1, <1>2, <1>3 DEF OwnerStep

LEMMA AdminAsks ==
  ASSUME Placed, NEW slots \in {UsersSlots, SettingsSlots}, NEW kind \in Requests,
         NEW s \in Services, NEW v \in BOOLEAN, By(slots, kind, s, v)
  PROVE  KeysNext
<1>1. PICK h \in Handlers : Ask(h, kind, Owner, s, v)
  BY DEF By, Change, Placed
<1> QED BY <1>1 DEF KeysNext, Placed

LEMMA AdminSteps == ASSUME Placed, AdminStep PROVE [KeysNext]_keyVars
<1>0. {"switch", "access", "account", "revoke"} \subseteq Requests /\ TRUE \in BOOLEAN
  BY DEF Requests
<1>1. CASE toggleExternal
  BY <1>0, <1>1, AdminAsks DEF toggleExternal
<1>2. CASE AllowService
  BY <1>0, <1>2, AdminAsks DEF AllowService
<1>3. CASE SetActive
  <2>1. AnyService \in Services
    BY DEF AnyService, Placed
  <2> QED BY <1>0, <1>3, <2>1, AdminAsks DEF SetActive
<1>4. CASE RevokeKey
  BY <1>0, <1>4, AdminAsks DEF RevokeKey
<1>5. CASE ResetPassword
  BY <1>0, <1>5 DEF ResetPassword, Change, KeysNext, Placed
<1>6. ASSUME NEW h \in UsersSlots \cup SettingsSlots, Elsewhere(Answered(h)) PROVE KeysNext
  BY <1>6 DEF Elsewhere, KeysNext, Placed
<1> QED BY <1>1, <1>2, <1>3, <1>4, <1>5, <1>6 DEF AdminStep

LEMMA PageSteps == ASSUME Placed, AccessNext PROVE [KeysNext]_keyVars
<1>1. CASE ProgramStep
  BY <1>1 DEF ProgramStep, CallerStep, KeysNext, Elsewhere
<1>2. CASE Elsewhere(ServerStep)
  BY <1>2 DEF Elsewhere, KeysNext
<1>3. CASE Elsewhere(SetPassword(Owner, FALSE))
  BY <1>3 DEF Elsewhere, KeysNext, Placed
<1>4. ASSUME NEW k \in KeyIds, Elsewhere(Expire(k)) PROVE KeysNext
  BY <1>4 DEF Elsewhere, KeysNext
<1> QED BY <1>1, <1>2, <1>3, <1>4, OwnerSteps, AdminSteps DEF AccessNext

\* AccessPages implements AccessKeys: what is true of any sequence of requests
\* is true of those the section and the controls send, whatever they drew.
THEOREM PagesImplementKeys == ASSUME Placed PROVE AccessSpec => KeysSpec
<1>1. AccessInit => KeysInit
  BY DEF AccessInit
<1>2. ASSUME [AccessNext]_accessVars PROVE [KeysNext]_keyVars
  BY <1>2, PageSteps DEF accessVars
<1> QED BY <1>1, <1>2, PTL DEF AccessSpec, KeysSpec

-----------------------------------------------------------------------------
(* WebSession: what a tab believes. *)

SessionRow == [user : People, alive : BOOLEAN]
TabFields == {"shown", "csrf", "loading", "page", "form"}
RequestFields == {"tab", "kind", "as", "sid", "csrf", "by", "status", "user", "token"}

\* Requests whose acceptance is a write in somebody's name.
Signed == {"write", "upload", "preferences", "password"}

\* Sessions are opened and ended; they never change hands.
Grown(old, new) == /\ Len(old) <= Len(new)
                   /\ \A n \in 1..Len(old) : new[n].user = old[n].user

\* A user is told together with the token of a session of his.
ToldWith(rows, user, token) ==
  /\ token \in 0..Len(rows)
  /\ user # NoUser => token # 0 /\ user.name = rows[token].user

TabOK(rows, x) == DOMAIN x = TabFields /\ ToldWith(rows, x.shown, x.csrf)

\* A write that left carries the token of a session of the user it was shown to.
RequestOK(rows, r) ==
  /\ DOMAIN r = RequestFields
  /\ r.tab \in Tabs
  /\ r.sid \in 0..Len(rows)
  /\ ToldWith(rows, r.user, r.token)
  /\ r.kind \in Signed => r.csrf \in 1..Len(rows) /\ rows[r.csrf].user = r.by
  /\ r.kind \in {"login", "ldap"} => r.as \in People

SessionInv ==
  /\ sessions \in Seq(SessionRow)
  /\ cookie \in 0..Len(sessions)
  /\ DOMAIN tab = Tabs
  /\ \A t \in Tabs : TabOK(sessions, tab[t])
  /\ \A r \in net : RequestOK(sessions, r)
  /\ WriteAsShown
-----------------------------------------------------------------------------
(* Sessions. *)

LEMMA Row == \A u \in People, b \in BOOLEAN : [user |-> u, alive |-> b] \in SessionRow
BY DEF SessionRow

LEMMA GrownRefl == ASSUME NEW rows \in Seq(SessionRow) PROVE Grown(rows, rows)
BY DEF Grown

\* A session is opened at the end ...
LEMMA Opened ==
  ASSUME NEW rows \in Seq(SessionRow), NEW u \in People, NEW new,
         new = Append(rows, [user |-> u, alive |-> TRUE])
  PROVE  /\ new \in Seq(SessionRow) /\ Grown(rows, new)
         /\ Len(new) = Len(rows) + 1 /\ new[Len(rows) + 1].user = u
<1> DEFINE row == [user |-> u, alive |-> TRUE]
<1>1. row \in SessionRow /\ row.user = u
  BY Row
<1> HIDE DEF row
<1>2. new = Append(rows, row)
  BY DEF row
<1> QED BY <1>1, <1>2, AppendProperties DEF Grown

\* ... and ended in its place.
LEMMA Ended ==
  ASSUME NEW rows \in Seq(SessionRow), NEW n \in 1..Len(rows), NEW new,
         new = [rows EXCEPT ![n].alive = FALSE]
  PROVE  new \in Seq(SessionRow) /\ Grown(rows, new) /\ Len(new) = Len(rows)
<1> DEFINE row == [rows[n] EXCEPT !.alive = FALSE]
<1>1. rows[n] \in SessionRow
  BY ElementOfSeq
<1>0. row \in SessionRow /\ row.user = rows[n].user
  BY <1>1 DEF SessionRow
<1>2. PICK e \in SessionRow : e = row /\ e.user = rows[n].user
  <2> HIDE DEF row
  <2> QED BY <1>0
<1>3. new = [rows EXCEPT ![n] = e]
  BY <1>2
<1>4. /\ [rows EXCEPT ![n] = e] \in Seq(SessionRow)
      /\ Len([rows EXCEPT ![n] = e]) = Len(rows)
      /\ \A m \in 1..Len(rows) : [rows EXCEPT ![n] = e][m] = IF m = n THEN e ELSE rows[m]
  BY ExceptSeq
<1> QED BY <1>2, <1>3, <1>4, LenProperties DEF Grown

\* What is known of a user, a tab or a request stays so while sessions grow.
LEMMA ToldGrows ==
  ASSUME NEW old \in Seq(SessionRow), NEW new \in Seq(SessionRow), Grown(old, new),
         NEW user, NEW token, ToldWith(old, user, token)
  PROVE  ToldWith(new, user, token)
BY LenProperties DEF Grown, ToldWith

LEMMA RequestGrows ==
  ASSUME NEW old \in Seq(SessionRow), NEW new \in Seq(SessionRow), Grown(old, new),
         NEW r, RequestOK(old, r)
  PROVE  RequestOK(new, r)
<1>1. ToldWith(new, r.user, r.token)
  BY ToldGrows DEF RequestOK
<1> QED BY <1>1, LenProperties DEF Grown, RequestOK

LEMMA TabGrows ==
  ASSUME NEW old \in Seq(SessionRow), NEW new \in Seq(SessionRow), Grown(old, new),
         NEW x, TabOK(old, x)
  PROVE  TabOK(new, x)
BY ToldGrows DEF TabOK

LEMMA NobodyTold == \A rows \in Seq(SessionRow) : ToldWith(rows, NoUser, 0)
BY LenProperties DEF ToldWith

LEMMA FreshOK == \A rows \in Seq(SessionRow) : TabOK(rows, Fresh)
BY NobodyTold DEF TabOK, Fresh, TabFields

-----------------------------------------------------------------------------
(* Requests leave, answers arrive. *)

\* What the parts of the invariant say of the next state.
SignedIn == sessions \in Seq(SessionRow) /\ cookie \in 0..Len(sessions)
TabsOK == DOMAIN tab = Tabs /\ \A t \in Tabs : TabOK(sessions, tab[t])
NetOK == \A r \in net : RequestOK(sessions, r)

LEMMA Whole ==
  ASSUME SignedIn', TabsOK', NetOK', WriteAsShown'
  PROVE  SessionInv'
BY DEF SessionInv, SignedIn, TabsOK, NetOK

\* With the sessions as they are or more of them, a tab or a request that does
\* not change stays as it was.
LEMMA TabsStay ==
  ASSUME SessionInv, SignedIn', Grown(sessions, sessions'), UNCHANGED tab
  PROVE  TabsOK'
<1>1. \A t \in Tabs : TabOK(sessions', tab[t])
  BY TabGrows DEF SessionInv, SignedIn
<1> QED BY <1>1 DEF TabsOK, SessionInv

LEMMA OneTab ==
  ASSUME SessionInv, SignedIn', Grown(sessions, sessions'),
         NEW t \in Tabs, NEW x, TabOK(sessions', x), tab' = [tab EXCEPT ![t] = x]
  PROVE  TabsOK'
<1>1. \A u \in Tabs : TabOK(sessions', tab[u])
  BY TabGrows DEF SessionInv, SignedIn
<1>2. \A u \in Tabs : tab'[u] = IF u = t THEN x ELSE tab[u]
  BY DEF SessionInv
<1>3. DOMAIN tab' = Tabs
  BY DEF SessionInv
<1> QED BY <1>1, <1>2, <1>3 DEF TabsOK

LEMMA NetStays ==
  ASSUME SessionInv, SignedIn', Grown(sessions, sessions'),
         \A r \in net' : r \in net \/ RequestOK(sessions', r)
  PROVE  NetOK'
<1>1. \A r \in net : RequestOK(sessions', r)
  BY RequestGrows DEF SessionInv, SignedIn
<1> QED BY <1>1 DEF NetOK

\* The user of a tab is told with its token; who is signed out has none.
LEMMA ShownOK ==
  ASSUME NEW rows \in Seq(SessionRow), NEW t \in Tabs, TabOK(rows, tab[t])
  PROVE  /\ TabOK(rows, SignedOut(t))
         /\ \A r : ToldWith(rows, r.user, r.token) => TabOK(rows, Applied(t, r))
<1> DEFINE out == SignedOut(t)
<1>1. /\ DOMAIN out = TabFields /\ out.shown = NoUser /\ out.csrf = tab[t].csrf
  BY DEF SignedOut, Shows, TabOK, TabFields
<1>2. ToldWith(rows, NoUser, tab[t].csrf)
  BY DEF TabOK, ToldWith
<1>3. ASSUME NEW r, ToldWith(rows, r.user, r.token) PROVE TabOK(rows, Applied(t, r))
  <2> DEFINE new == Applied(t, r)
  <2>1. DOMAIN new = TabFields /\ new.shown = r.user /\ new.csrf = r.token
    BY DEF Applied, Shows, TabOK, TabFields
  <2> QED BY <1>3, <2>1 DEF TabOK
<1> QED BY <1>1, <1>2, <1>3 DEF TabOK

\* A request carries what its tab shows and holds.
LEMMA RequestFacts ==
  ASSUME SessionInv, NEW t \in Tabs, NEW kind, NEW as,
         kind \in Signed => tab[t].shown # NoUser,
         kind \in {"login", "ldap"} => as \in People
  PROVE  RequestOK(sessions, Request(t, kind, as))
<1> DEFINE r == Request(t, kind, as)
<1>1. /\ DOMAIN r = RequestFields /\ r.tab = t /\ r.kind = kind /\ r.as = as /\ r.sid = cookie
      /\ r.csrf = tab[t].csrf /\ r.by = tab[t].shown.name /\ r.user = NoUser /\ r.token = 0
  BY DEF Request, RequestFields
<1>2. ToldWith(sessions, tab[t].shown, tab[t].csrf)
  BY DEF SessionInv, TabOK
<1>3. ToldWith(sessions, NoUser, 0)
  BY NobodyTold DEF SessionInv
<1>4. Len(sessions) \in Nat
  BY LenProperties DEF SessionInv
<1>5. cookie \in 0..Len(sessions)
  BY DEF SessionInv
<1>6. kind \in Signed => tab[t].csrf \in 1..Len(sessions)
                         /\ sessions[tab[t].csrf].user = tab[t].shown.name
  BY <1>2, <1>4 DEF ToldWith
<1> HIDE DEF r
<1> QED BY <1>1, <1>3, <1>5, <1>6 DEF RequestOK, r

-----------------------------------------------------------------------------
(* What people and timers do. *)

\* Nothing but the tabs and the requests changes.
LEMMA ClientStep ==
  ASSUME SessionInv, UNCHANGED <<sessions, cookie, writes>>, TabsOK', NetOK'
  PROVE  SessionInv'
BY DEF SessionInv, TabsOK, NetOK, WriteAsShown

LEMMA SendKeeps ==
  ASSUME SessionInv, NEW t \in Tabs, NEW kind, NEW as, Send(t, kind, as),
         kind \in Signed => tab[t].shown # NoUser,
         kind \in {"login", "ldap"} => as \in People
  PROVE  SessionInv'
<1>1. RequestOK(sessions, Request(t, kind, as))
  BY RequestFacts
<1>2. /\ net' = net \cup {Request(t, kind, as)}
      /\ UNCHANGED <<sessions, cookie, tab, writes>>
  BY DEF Send
<1>3. NetOK'
  BY <1>1, <1>2 DEF SessionInv, NetOK
<1>4. TabsOK'
  BY <1>2 DEF SessionInv, TabsOK
<1> QED BY <1>2, <1>3, <1>4, ClientStep

\* Only the page or the form of a tab changes.
LEMMA UpdateKeeps ==
  ASSUME SessionInv, NEW t \in Tabs, NEW new, UpdateTab(t, new),
         DOMAIN new = TabFields, new.shown = tab[t].shown, new.csrf = tab[t].csrf
  PROVE  SessionInv'
<1>1. tab' = [tab EXCEPT ![t] = new] /\ UNCHANGED <<sessions, cookie, net, writes>>
  BY DEF UpdateTab
<1>2. TabOK(sessions, new)
  BY DEF SessionInv, TabOK
<1>3. TabsOK'
  BY <1>1, <1>2 DEF SessionInv, TabsOK
<1>4. NetOK'
  BY <1>1 DEF SessionInv, NetOK
<1> QED BY <1>1, <1>3, <1>4, ClientStep

PersonStep(t) == \/ Poll(t) \/ Write(t) \/ SavePreference(t) \/ SignOut(t) \/ Submit(t)
                 \/ LoadProviders(t) \/ ToggleLocal(t) \/ Navigate(t)

LEMMA PersonKeeps ==
  ASSUME SessionInv, NEW t \in Tabs, PersonStep(t)
  PROVE  SessionInv'
<1>1. CASE Poll(t)
  BY <1>1, SendKeeps DEF Poll, Signed
<1>2. CASE Write(t)
  <2>1. tab[t].shown # NoUser
    BY <1>2 DEF Write, OnShell, OnLogin
  <2> QED BY <1>2, <2>1, SendKeeps DEF Write
<1>3. CASE SavePreference(t)
  <2>1. tab[t].shown # NoUser
    BY <1>3 DEF SavePreference, OnShell, OnLogin
  <2> QED BY <1>3, <2>1, SendKeeps DEF SavePreference
<1>4. CASE SignOut(t)
  BY <1>4, SendKeeps DEF SignOut, Signed
<1>5. CASE Submit(t)
  <2>1. CASE MustChange(t) /\ Send(t, "password", NoName)
    <3>1. tab[t].shown # NoUser
      BY <2>1 DEF MustChange, NoUser
    <3> QED BY <2>1, <3>1, SendKeeps
  <2>2. CASE \E u \in People : Send(t, "ldap", u) \/ Send(t, "login", u)
    BY <2>2, SendKeeps DEF Signed
  <2> QED BY <1>5, <2>1, <2>2 DEF Submit
<1>6. CASE LoadProviders(t)
  <2>1. PICK picked : UpdateTab(t, [tab[t] EXCEPT !.form = picked])
    BY <1>6 DEF LoadProviders
  <2> DEFINE new == [tab[t] EXCEPT !.form = picked]
  <2>2. DOMAIN new = TabFields /\ new.shown = tab[t].shown /\ new.csrf = tab[t].csrf
    BY DEF SessionInv, TabOK, TabFields
  <2> QED BY <2>1, <2>2, UpdateKeeps
<1>7. CASE ToggleLocal(t)
  <2> DEFINE new == [tab[t] EXCEPT !.form = IF @ = "local" THEN "external" ELSE "local"]
  <2>1. UpdateTab(t, new)
    BY <1>7 DEF ToggleLocal
  <2>2. DOMAIN new = TabFields /\ new.shown = tab[t].shown /\ new.csrf = tab[t].csrf
    BY DEF SessionInv, TabOK, TabFields
  <2> QED BY <2>1, <2>2, UpdateKeeps
<1>8. CASE Navigate(t)
  <2>1. PICK p : UpdateTab(t, [tab[t] EXCEPT !.page = p])
    BY <1>8 DEF Navigate
  <2> DEFINE new == [tab[t] EXCEPT !.page = p]
  <2>2. DOMAIN new = TabFields /\ new.shown = tab[t].shown /\ new.csrf = tab[t].csrf
    BY DEF SessionInv, TabOK, TabFields
  <2> QED BY <2>1, <2>2, UpdateKeeps
<1> QED BY <1>1, <1>2, <1>3, <1>4, <1>5, <1>6, <1>7, <1>8 DEF PersonStep

\* A tab starts again, perhaps with the session of the single sign-on.
LEMMA ReloadKeeps ==
  ASSUME SessionInv, NEW t \in Tabs, Reload(t)
  PROVE  SessionInv'
<1>1. sessions \in Seq(SessionRow) /\ cookie \in 0..Len(sessions) /\ Len(sessions) \in Nat
  BY LenProperties DEF SessionInv
<1>2. \/ UNCHANGED <<sessions, cookie>>
      \/ /\ cookie' = Len(sessions) + 1
         /\ \E u \in People : sessions' = Append(sessions, [user |-> u, alive |-> TRUE])
  BY DEF Reload
<1>3. SignedIn' /\ Grown(sessions, sessions')
  <2>1. CASE UNCHANGED <<sessions, cookie>>
    BY <1>1, <2>1, GrownRefl DEF SignedIn
  <2>2. ASSUME NEW u \in People, sessions' = Append(sessions, [user |-> u, alive |-> TRUE]),
               cookie' = Len(sessions) + 1
        PROVE  SignedIn' /\ Grown(sessions, sessions')
    <3>1. /\ sessions' \in Seq(SessionRow) /\ Grown(sessions, sessions')
          /\ Len(sessions') = Len(sessions) + 1
      BY <1>1, <2>2, Opened
    <3> QED BY <1>1, <2>2, <3>1 DEF SignedIn
  <2> QED BY <1>2, <2>1, <2>2
<1> DEFINE r == [Request(t, "me", NoName) EXCEPT !.sid = cookie', !.csrf = 0, !.by = NoName]
<1>4. /\ DOMAIN r = RequestFields /\ r.tab = t /\ r.kind = "me" /\ r.sid = cookie'
      /\ r.user = NoUser /\ r.token = 0
  BY DEF Request, RequestFields
<1>5. RequestOK(sessions', r)
  <2> HIDE DEF r
  <2> QED BY <1>3, <1>4, NobodyTold DEF RequestOK, Signed, SignedIn
<1>6. tab' = [tab EXCEPT ![t] = Fresh] /\ net' = {x \in net : x.tab # t} \cup {r} /\ UNCHANGED writes
  BY DEF Reload
<1>7. TabsOK'
  BY <1>3, <1>6, FreshOK, OneTab DEF SignedIn
<1>8. NetOK'
  <2> HIDE DEF r
  <2> QED BY <1>3, <1>5, <1>6, NetStays
<1> QED BY <1>3, <1>6, <1>7, <1>8, Whole DEF SessionInv, WriteAsShown

-----------------------------------------------------------------------------
(* What the server does. *)

\* An answer leaves the request as it was, and tells a user with his token.
LEMMA AnswerOK ==
  ASSUME NEW rows \in Seq(SessionRow), NEW r, RequestOK(rows, r),
         NEW status, NEW user, NEW token, ToldWith(rows, user, token)
  PROVE  RequestOK(rows, [r EXCEPT !.status = status, !.user = user, !.token = token])
<1> DEFINE a == [r EXCEPT !.status = status, !.user = user, !.token = token]
<1>1. /\ DOMAIN a = RequestFields /\ a.tab = r.tab /\ a.kind = r.kind /\ a.as = r.as
      /\ a.sid = r.sid /\ a.csrf = r.csrf /\ a.by = r.by /\ a.user = user /\ a.token = token
  BY DEF RequestOK, RequestFields
<1> HIDE DEF a
<1>2. RequestOK(rows, a)
  BY <1>1 DEF RequestOK
<1> QED BY <1>2 DEF a

LEMMA AnswersKeep ==
  ASSUME SessionInv, NEW r \in net, NEW status, NEW user, NEW token,
         Answers(r, status, user, token), sessions' \in Seq(SessionRow),
         Grown(sessions, sessions'), ToldWith(sessions', user, token),
         UNCHANGED <<cookie, tab>>, WriteAsShown'
  PROVE  SessionInv'
<1>1. SignedIn'
  BY LenProperties DEF SessionInv, SignedIn, Grown
<1>2. TabsOK'
  BY <1>1, TabsStay
<1> DEFINE a == [r EXCEPT !.status = status, !.user = user, !.token = token]
<1>3. RequestOK(sessions, r)
  BY DEF SessionInv
<1>4. RequestOK(sessions', r)
  BY <1>3, RequestGrows DEF SessionInv
<1>5. RequestOK(sessions', a)
  BY <1>4, AnswerOK
<1>6. net' = (net \ {r}) \cup {a}
  BY DEF Answers
<1>7. NetOK'
  <2> HIDE DEF a
  <2> QED BY <1>1, <1>5, <1>6, NetStays
<1> QED BY <1>1, <1>2, <1>7, Whole

\* deps.py: a write is accepted with the token of the session the cookie names,
\* so it is done as the user it was shown to.
LEMMA AcceptedAsShown ==
  ASSUME SessionInv, NEW r \in net, r.kind \in Signed, NEW role, Verdict(r, TRUE, role) = "ok"
  PROVE  r.sid \in 1..Len(sessions) /\ sessions[r.sid].user = r.by
<1>1. Lives(r.sid) /\ r.csrf = r.sid
  BY DEF Verdict
<1>2. RequestOK(sessions, r)
  BY DEF SessionInv
<1> QED BY <1>1, <1>2 DEF RequestOK

LEMMA LivingRow ==
  ASSUME SessionInv, NEW r \in net, NEW changing, NEW role, Verdict(r, changing, role) = "ok"
  PROVE  r.sid \in 1..Len(sessions)
<1>1. Lives(r.sid)
  BY DEF Verdict
<1>2. RequestOK(sessions, r)
  BY DEF SessionInv
<1> QED BY <1>1, <1>2, LenProperties DEF RequestOK, Lives, SessionInv

LEMMA ServeKeeps ==
  ASSUME SessionInv, NEW r \in net, Serve(r)
  PROVE  SessionInv'
<1>1. /\ sessions \in Seq(SessionRow) /\ Grown(sessions, sessions) /\ WriteAsShown
      /\ ToldWith(sessions, NoUser, 0)
  BY GrownRefl, NobodyTold DEF SessionInv
<1>2. UNCHANGED <<cookie, tab>>
  BY DEF Serve
<1>3. ASSUME ServeRead(r) PROVE SessionInv'
  <2> DEFINE v == Verdict(r, FALSE, IF r.kind = "me" THEN "NONE" ELSE "AUDITOR")
  <2>1. UNCHANGED <<sessions, writes>>
    BY <1>3 DEF ServeRead
  <2>2. CASE v = "ok" /\ r.kind = "me"
    <3>1. Answers(r, v, Payload(sessions[r.sid].user), r.sid)
      BY <1>3, <2>2 DEF ServeRead
    <3>2. r.sid \in 1..Len(sessions)
      BY <2>2, LivingRow
    <3>3. ToldWith(sessions, Payload(sessions[r.sid].user), r.sid)
      BY <1>1, <3>2, LenProperties DEF ToldWith, Payload
    <3> HIDE DEF v
    <3> QED BY <1>1, <1>2, <2>1, <3>1, <3>3, AnswersKeep DEF WriteAsShown
  <2>3. CASE ~(v = "ok" /\ r.kind = "me")
    <3>1. Answers(r, v, NoUser, 0)
      BY <1>3, <2>3 DEF ServeRead
    <3> HIDE DEF v
    <3> QED BY <1>1, <1>2, <2>1, <3>1, AnswersKeep DEF WriteAsShown
  <2> QED BY <2>2, <2>3
<1>4. ASSUME NEW role, Answers(r, Verdict(r, TRUE, role), NoUser, 0),
             r.kind \in Signed, UNCHANGED sessions,
             writes' = IF Verdict(r, TRUE, role) = "ok"
                       THEN writes \cup {[by |-> r.by, as |-> sessions[r.sid].user]} ELSE writes
      PROVE  SessionInv'
  <2>1. Verdict(r, TRUE, role) = "ok" => sessions[r.sid].user = r.by
    BY <1>4, AcceptedAsShown
  <2> DEFINE new == [by |-> r.by, as |-> sessions[r.sid].user]
  <2>2. Verdict(r, TRUE, role) = "ok" => new.by = new.as
    BY <2>1
  <2>3. writes' = writes \/ (writes' = writes \cup {new} /\ Verdict(r, TRUE, role) = "ok")
    BY <1>4
  <2>4. WriteAsShown'
    <3> HIDE DEF new
    <3> QED BY <1>1, <2>2, <2>3 DEF WriteAsShown
  <2> QED BY <1>1, <1>2, <1>4, <2>4, AnswersKeep
<1>5. ASSUME ServeWrite(r) PROVE SessionInv'
  BY <1>4, <1>5 DEF ServeWrite, Signed
<1>6. ASSUME ServePassword(r) PROVE SessionInv'
  BY <1>4, <1>6 DEF ServePassword, Signed
<1>7. ASSUME ServeLogout(r) PROVE SessionInv'
  <2> DEFINE v == Verdict(r, TRUE, "NONE")
  <2>1. /\ Answers(r, v, NoUser, 0) /\ UNCHANGED writes
        /\ sessions' = IF v = "ok" THEN [sessions EXCEPT ![r.sid].alive = FALSE] ELSE sessions
    BY <1>7 DEF ServeLogout
  <2>2. v = "ok" => r.sid \in 1..Len(sessions)
    BY LivingRow
  <2> HIDE DEF v
  <2>3. sessions' \in Seq(SessionRow) /\ Grown(sessions, sessions')
    <3>1. CASE v = "ok"
      BY <1>1, <2>1, <2>2, <3>1, Ended
    <3>2. CASE v # "ok"
      BY <1>1, <2>1, <3>2
    <3> QED BY <3>1, <3>2
  <2>4. ToldWith(sessions', NoUser, 0)
    BY <2>3, NobodyTold
  <2> QED BY <1>1, <1>2, <2>1, <2>3, <2>4, AnswersKeep DEF WriteAsShown
<1>8. ASSUME ServeLogin(r) PROVE SessionInv'
  <2>1. r.as \in People /\ UNCHANGED writes
    BY <1>8 DEF ServeLogin, SessionInv, RequestOK
  <2>2. CASE UNCHANGED sessions /\ Answers(r, "401", NoUser, 0)
    BY <1>1, <1>2, <2>1, <2>2, AnswersKeep DEF WriteAsShown
  <2>3. CASE /\ sessions' = Append(sessions, [user |-> r.as, alive |-> TRUE])
             /\ Answers(r, "ok", Payload(r.as), Len(sessions) + 1)
    <3>1. /\ sessions' \in Seq(SessionRow) /\ Grown(sessions, sessions')
          /\ Len(sessions') = Len(sessions) + 1 /\ sessions'[Len(sessions) + 1].user = r.as
      BY <1>1, <2>1, <2>3, Opened
    <3>2. ToldWith(sessions', Payload(r.as), Len(sessions) + 1)
      BY <1>1, <3>1, LenProperties DEF ToldWith, Payload
    <3> QED BY <1>1, <1>2, <2>1, <2>3, <3>1, <3>2, AnswersKeep DEF WriteAsShown
  <2> QED BY <1>8, <2>2, <2>3 DEF ServeLogin
<1> QED BY <1>3, <1>5, <1>6, <1>7, <1>8 DEF Serve

\* An answer arrives: the browser keeps the session it names, the tab takes the
\* user and the token together, or forgets the user.
LEMMA ReceiveKeeps ==
  ASSUME SessionInv, NEW r \in net, Receive(r)
  PROVE  SessionInv'
<1>1. /\ sessions \in Seq(SessionRow) /\ Len(sessions) \in Nat /\ cookie \in 0..Len(sessions)
      /\ ToldWith(sessions, NoUser, 0) /\ Grown(sessions, sessions)
  BY GrownRefl, NobodyTold, LenProperties DEF SessionInv
<1>2. RequestOK(sessions, r)
  BY DEF SessionInv
<1>3. r.tab \in Tabs /\ ToldWith(sessions, r.user, r.token) /\ r.token \in 0..Len(sessions)
  BY <1>2 DEF RequestOK, ToldWith
<1>4. UNCHANGED <<sessions, writes>>
  BY DEF Receive
<1>5. cookie' \in 0..Len(sessions)
  BY <1>1, <1>3 DEF Receive
<1>6. SignedIn'
  BY <1>1, <1>4, <1>5 DEF SignedIn
<1> DEFINE t == r.tab
           rest == net \ {r}
           again == [Request(t, "me", NoName) EXCEPT !.sid = cookie']
           TabStep == \/ tab' = tab
                      \/ \E x \in {Applied(t, r), SignedOut(t), tab[t]} : tab' = [tab EXCEPT ![t] = x]
<1>7. TabStep /\ (net' = rest \/ net' = rest \cup {again})
  BY DEF Receive, AfterRefresh
<1>8. /\ TabOK(sessions, tab[t]) /\ TabOK(sessions, SignedOut(t)) /\ TabOK(sessions, Applied(t, r))
  <2>1. TabOK(sessions, tab[t])
    BY <1>3 DEF SessionInv
  <2> QED BY <1>1, <1>3, <2>1, ShownOK
<1>9. TabsOK'
  <2>1. CASE tab' = tab
    BY <1>1, <1>4, <1>6, <2>1, TabsStay
  <2>2. ASSUME NEW x \in {Applied(t, r), SignedOut(t), tab[t]}, tab' = [tab EXCEPT ![t] = x]
        PROVE  TabsOK'
    <3>1. TabOK(sessions', x)
      BY <1>4, <1>8, <2>2
    <3> QED BY <1>1, <1>3, <1>4, <1>6, <2>2, <3>1, OneTab
  <2> QED BY <1>7, <2>1, <2>2
<1>10. RequestOK(sessions', again)
  <2>1. /\ DOMAIN again = RequestFields /\ again.tab = t /\ again.kind = "me" /\ again.sid = cookie'
        /\ again.user = NoUser /\ again.token = 0
    BY DEF Request, RequestFields
  <2> HIDE DEF again
  <2> QED BY <1>1, <1>3, <1>4, <1>5, <2>1 DEF RequestOK, Signed
<1>11. NetOK'
  <2>1. \A q \in net' : q \in net \/ q = again
    BY <1>7
  <2> HIDE DEF again
  <2> QED BY <1>1, <1>4, <1>6, <1>10, <2>1, NetStays
<1>12. WriteAsShown'
  BY <1>4 DEF SessionInv, WriteAsShown
<1> QED BY <1>6, <1>9, <1>11, <1>12, Whole

LEMMA LoseKeeps ==
  ASSUME SessionInv, NEW r \in net, Lose(r)
  PROVE  SessionInv'
<1>1. /\ sessions \in Seq(SessionRow) /\ Grown(sessions, sessions)
      /\ UNCHANGED <<sessions, cookie, writes>> /\ SignedIn'
  BY GrownRefl DEF SessionInv, Lose, SignedIn
<1>2. r.tab \in Tabs
  BY DEF SessionInv, RequestOK
<1>3. TabsOK'
  <2>1. CASE tab' = tab
    BY <1>1, <2>1, TabsStay
  <2>2. CASE tab' = [tab EXCEPT ![r.tab] = SignedOut(r.tab)]
    <3>1. TabOK(sessions', SignedOut(r.tab))
      BY <1>1, <1>2, ShownOK DEF SessionInv
    <3> QED BY <1>1, <1>2, <2>2, <3>1, OneTab
  <2> QED BY <2>1, <2>2 DEF Lose
<1>4. NetOK'
  BY <1>1 DEF Lose, SessionInv, NetOK
<1> QED BY <1>1, <1>3, <1>4, ClientStep

LEMMA EndSessionKeeps ==
  ASSUME SessionInv, NEW sid \in DOMAIN sessions, EndSession(sid)
  PROVE  SessionInv'
<1>1. sessions \in Seq(SessionRow) /\ sid \in 1..Len(sessions)
  BY LenProperties DEF SessionInv
<1>2. sessions' = [sessions EXCEPT ![sid].alive = FALSE] /\ UNCHANGED <<cookie, tab, net, writes>>
  BY DEF EndSession
<1>3. sessions' \in Seq(SessionRow) /\ Grown(sessions, sessions') /\ Len(sessions') = Len(sessions)
  BY <1>1, <1>2, Ended
<1>4. SignedIn'
  BY <1>2, <1>3 DEF SessionInv, SignedIn
<1>5. TabsOK'
  BY <1>2, <1>3, <1>4, TabsStay
<1>6. NetOK'
  BY <1>2, <1>3, <1>4, NetStays
<1> QED BY <1>2, <1>4, <1>5, <1>6, Whole DEF SessionInv, WriteAsShown
-----------------------------------------------------------------------------
(* Theorems. *)

\* The browser is opened without a session, or with one of an earlier day.
LEMMA InitOK == SessionInit => SessionInv
<1> SUFFICES ASSUME SessionInit PROVE SessionInv
  OBVIOUS
<1>1. PICK u \in FirstPeople :
        sessions = IF u = NoName THEN << >> ELSE <<[user |-> u, alive |-> TRUE]>>
  BY DEF SessionInit
<1>2. sessions \in Seq(SessionRow)
  <2>1. u # NoName => u \in People
    BY SessionAssumption
  <2>2. [user |-> u, alive |-> TRUE] \in SessionRow \/ u = NoName
    BY <2>1, Row
  <2> DEFINE row == [user |-> u, alive |-> TRUE]
  <2>3. sessions = << >> \/ (row \in SessionRow /\ sessions = <<row>>)
    BY <1>1, <2>2
  <2> HIDE DEF row
  <2>4. << >> \in Seq(SessionRow) /\ \A e \in SessionRow : <<e>> \in Seq(SessionRow)
    OBVIOUS
  <2> QED BY <2>3, <2>4
<1>3. cookie \in 0..Len(sessions) /\ ToldWith(sessions, NoUser, 0)
  <2>1. Len(sessions) \in Nat /\ cookie = Len(sessions)
    BY <1>2, LenProperties DEF SessionInit
  <2> QED BY <1>2, <2>1, NobodyTold
<1>4. DOMAIN tab = Tabs /\ \A t \in Tabs : TabOK(sessions, tab[t])
  BY <1>2, FreshOK DEF SessionInit
<1>5. ASSUME NEW r \in net PROVE RequestOK(sessions, r)
  <2> DEFINE me(t) == [tab |-> t, kind |-> "me", as |-> NoName, sid |-> cookie, csrf |-> 0,
                       by |-> NoName, status |-> "sent", user |-> NoUser, token |-> 0]
  <2>1. PICK t \in Tabs : r = me(t)
    BY DEF SessionInit
  <2>2. /\ DOMAIN r = RequestFields /\ r.tab = t /\ r.kind = "me" /\ r.sid = cookie
        /\ r.user = NoUser /\ r.token = 0
    BY <2>1 DEF RequestFields
  <2> QED BY <1>3, <2>2 DEF RequestOK, Signed
<1>6. WriteAsShown
  BY DEF SessionInit, WriteAsShown
<1> QED BY <1>2, <1>3, <1>4, <1>5, <1>6 DEF SessionInv

LEMMA NextKeeps == SessionInv /\ [SessionNext]_sessionVars => SessionInv'
<1> SUFFICES ASSUME SessionInv, [SessionNext]_sessionVars PROVE SessionInv'
  OBVIOUS
<1>1. ASSUME NEW t \in Tabs, PersonStep(t) \/ Reload(t) PROVE SessionInv'
  BY <1>1, PersonKeeps, ReloadKeeps
<1>2. ASSUME NEW r \in net, Serve(r) \/ Receive(r) \/ Lose(r) PROVE SessionInv'
  BY <1>2, ServeKeeps, ReceiveKeeps, LoseKeeps
<1>3. ASSUME NEW sid \in DOMAIN sessions, EndSession(sid) PROVE SessionInv'
  BY <1>3, EndSessionKeeps
<1>4. ASSUME NEW u \in People, AccountChange(u) PROVE SessionInv'
  BY <1>4 DEF AccountChange, SessionInv, WriteAsShown
<1>5. CASE UNCHANGED sessionVars
  BY <1>5 DEF sessionVars, SessionInv, WriteAsShown
<1> QED BY <1>1, <1>2, <1>3, <1>4, <1>5 DEF SessionNext, PersonStep

\* AuthContext.tsx, deps.py: in every reachable state a tab that shows a user
\* holds the token of a session of that user, and every write on its way carries
\* the token of a session of the user it was shown to, however the tabs share
\* the cookie and in whatever order the answers come.
THEOREM SessionInvariant == SessionSpec => []SessionInv
BY InitOK, NextKeeps, PTL DEF SessionSpec

\* deps.py: no write is accepted for another user than the one its tab showed
\* when it left, for any number of tabs, people, sessions and requests.
THEOREM WritesAreAsShown == SessionSpec => []WriteAsShown
<1>1. SessionInv => WriteAsShown
  BY DEF SessionInv
<1> QED BY <1>1, SessionInvariant, PTL

-----------------------------------------------------------------------------
(* TargetPages, ProfileEditor, DiscoveryWizard. *)
TargetFields == {"value", "ports", "alive", "was"}
GroupFields == {"name", "members", "first", "asked"}
Ports == {"", "8443"}
TargetRow == [value : Values, ports : Ports, alive : BOOLEAN, was : SUBSET Values]
SaveRow == [values : Seq(Values), ports : Ports, named : BOOLEAN, asked : SUBSET Values,
            saved : Seq(Nat), step : {"post", "reuse", "group", "done", "ended", "failed"}]

\* Rows of targets are appended and edited, never taken away, and what a row
\* was it has been.
Edited(old, new) == /\ Len(old) <= Len(new)
                    /\ \A n \in 1..Len(old) : old[n].was \subseteq new[n].was

\* The target n is, or was, the one for value v.
Holds(rows, n, v) == n \in 1..Len(rows) /\ v \in rows[n].was

\* A group of a save has a target for each value that was asked.
GroupOK(rows, g) == /\ DOMAIN g = GroupFields
                    /\ \A v \in g.asked : \E n \in g.first : Holds(rows, n, v)

\* A save has got as far as it says, with one target for each value so far.
SaveOK(rows, s) ==
  /\ s.asked = Range(s.values) /\ s.values # << >> /\ Len(s.saved) <= Len(s.values)
  /\ \A k \in 1..Len(s.saved) : Holds(rows, s.saved[k], s.values[k])
  /\ s.step \in {"post", "reuse"} => Len(s.saved) < Len(s.values)
  /\ s.step = "group" => Len(s.saved) = Len(s.values)

TargetsInv ==
  /\ targets \in Seq(TargetRow)
  /\ \A n \in 1..Len(targets) : targets[n].value \in targets[n].was
  /\ form.open => /\ form.values \in Seq(Values) /\ form.values # << >>
                   /\ form.ports \in Ports /\ form.named \in BOOLEAN
  /\ \A g \in groups : GroupOK(targets, g)
  /\ saves \in Seq(SaveRow)
  /\ \A i \in 1..Len(saves) : SaveOK(targets, saves[i])
-----------------------------------------------------------------------------
(* Operators. *)

\* The lines of a text become a sequence of values, and are as many as they
\* are: what is typed is finite.
LEMMA Lines ==
  ASSUME NEW vs \in SUBSET Values, vs # {}
  PROVE  SetToSeq(vs) \in Seq(Values) /\ SetToSeq(vs) # << >>
<1>1. IsFiniteSet(vs)
  BY TargetsAssumption, FS_Subset
<1>2. PICK n \in Nat : ExistsBijection(1..n, vs)
  BY <1>1, FS_NatBijection
<1>3. Cardinality(vs) = n
  BY <1>2, FS_CountingElements
<1>4. PICK f : f \in Bijection(1..n, vs)
  BY <1>2 DEF ExistsBijection
<1>5. f \in [1..n -> vs] /\ IsInjective(f)
  BY <1>4 DEF Bijection, Injection, IsInjective
<1>6. SetToSeq(vs) \in [1..n -> vs]
  BY <1>3, <1>5 DEF SetToSeq
<1>7. n # 0
  <2>1. vs = Range(f)
    BY <1>4 DEF Bijection, Surjection, Range
  <2>2. CASE n = 0
    <3>1. 1..n = {}
      BY <2>2
    <3> QED BY <1>5, <2>1, <3>1 DEF Range
  <2> QED BY <2>2
<1>8. SetToSeq(vs) \in Seq(vs)
  BY <1>6
<1>9. Len(SetToSeq(vs)) = n
  BY <1>6
<1> QED BY <1>7, <1>8, <1>9, EmptySeq, SeqMonotonic

LEMMA EditedRefl == ASSUME NEW rows \in Seq(TargetRow) PROVE Edited(rows, rows)
BY LenProperties DEF Edited

\* Operators over rows that are edited keep what they said.
LEMMA HoldsStays ==
  ASSUME NEW old \in Seq(TargetRow), NEW new \in Seq(TargetRow), Edited(old, new),
         NEW n, NEW v, Holds(old, n, v)
  PROVE  Holds(new, n, v)
BY LenProperties DEF Edited, Holds

LEMMA GroupStays ==
  ASSUME NEW old \in Seq(TargetRow), NEW new \in Seq(TargetRow), Edited(old, new),
         NEW g, GroupOK(old, g)
  PROVE  GroupOK(new, g)
BY HoldsStays DEF GroupOK

LEMMA SaveStays ==
  ASSUME NEW old \in Seq(TargetRow), NEW new \in Seq(TargetRow), Edited(old, new),
         NEW s, SaveOK(old, s)
  PROVE  SaveOK(new, s)
BY HoldsStays DEF SaveOK

\* A new row is at the end, and holds its value.
LEMMA Created ==
  ASSUME NEW rows \in Seq(TargetRow), NEW v \in Values, NEW ports \in Ports, NEW new,
         \A n \in 1..Len(rows) : rows[n].value \in rows[n].was,
         new = Append(rows, NewTarget(v, ports))
  PROVE  /\ new \in Seq(TargetRow) /\ Edited(rows, new) /\ Holds(new, Len(rows) + 1, v)
         /\ \A n \in 1..Len(new) : new[n].value \in new[n].was
<1> DEFINE row == NewTarget(v, ports)
<1>1. row \in TargetRow /\ row.value = v /\ row.was = {v}
  BY DEF NewTarget, TargetRow
<1> HIDE DEF row
<1>2. new = Append(rows, row)
  BY DEF row
<1>3. /\ new \in Seq(TargetRow) /\ Len(new) = Len(rows) + 1 /\ new[Len(rows) + 1] = row
      /\ \A n \in 1..Len(rows) : new[n] = rows[n]
  BY <1>1, <1>2, AppendProperties
<1>4. Len(rows) \in Nat
  BY LenProperties
<1> QED BY <1>1, <1>3, <1>4 DEF Edited, Holds

\* A row that is edited in its place was all it had been.
LEMMA Replaced ==
  ASSUME NEW rows \in Seq(TargetRow), NEW n \in 1..Len(rows), NEW row \in TargetRow,
         rows[n].was \subseteq row.was, row.value \in row.was,
         \A m \in 1..Len(rows) : rows[m].value \in rows[m].was
  PROVE  /\ [rows EXCEPT ![n] = row] \in Seq(TargetRow) /\ Edited(rows, [rows EXCEPT ![n] = row])
         /\ \A m \in 1..Len([rows EXCEPT ![n] = row]) :
              [rows EXCEPT ![n] = row][m].value \in [rows EXCEPT ![n] = row][m].was
<1>1. /\ [rows EXCEPT ![n] = row] \in Seq(TargetRow)
      /\ Len([rows EXCEPT ![n] = row]) = Len(rows)
      /\ \A m \in 1..Len(rows) : [rows EXCEPT ![n] = row][m] = IF m = n THEN row ELSE rows[m]
  BY ExceptSeq
<1> QED BY <1>1, LenProperties DEF Edited

\* A target for the next value brings the save one value further.
LEMMA KeptOK ==
  ASSUME NEW rows \in Seq(TargetRow), NEW s \in SaveRow, SaveOK(rows, s),
         s.step \in {"post", "reuse"}, NEW n, Holds(rows, n, s.values[Len(s.saved) + 1])
  PROVE  Kept(s, n) \in SaveRow /\ SaveOK(rows, Kept(s, n))
<1>1. s.saved \in Seq(Nat) /\ n \in Nat /\ Len(s.saved) \in Nat /\ Len(s.values) \in Nat
  BY LenProperties DEF Holds, SaveRow
<1> DEFINE saved == Append(s.saved, n)
<1>2. /\ saved \in Seq(Nat) /\ Len(saved) = Len(s.saved) + 1 /\ saved[Len(s.saved) + 1] = n
      /\ \A k \in 1..Len(s.saved) : saved[k] = s.saved[k]
  BY <1>1, AppendProperties
<1> DEFINE step == IF Len(saved) < Len(s.values) THEN "post"
                   ELSE IF multiple(s) /\ s.named THEN "group" ELSE "done"
           new == [s EXCEPT !.saved = saved, !.step = step]
<1>3. new = Kept(s, n)
  BY DEF Kept
<1>4. step \in {"post", "group", "done"}
  OBVIOUS
<1>5. step = "post" <=> Len(saved) < Len(s.values)
  OBVIOUS
<1> HIDE DEF saved, step
<1>6. /\ new \in SaveRow /\ new.values = s.values /\ new.asked = s.asked /\ new.saved = saved
      /\ new.step = step
  BY <1>2, <1>4 DEF SaveRow
<1>7. Len(s.saved) < Len(s.values)
  BY DEF SaveOK
<1>8. ASSUME NEW k \in 1..Len(saved) PROVE Holds(rows, saved[k], s.values[k])
  <2>1. CASE k = Len(s.saved) + 1
    BY <1>2, <2>1
  <2>2. CASE k # Len(s.saved) + 1
    <3>1. k \in 1..Len(s.saved)
      BY <1>1, <1>2, <2>2
    <3> QED BY <1>2, <3>1 DEF SaveOK
  <2> QED BY <2>1, <2>2
<1>9. SaveOK(rows, new)
  <2> HIDE DEF new
  <2> QED BY <1>1, <1>2, <1>4, <1>5, <1>6, <1>7, <1>8 DEF SaveOK
<1> QED BY <1>3, <1>6, <1>9
-----------------------------------------------------------------------------
(* Targets: each action. *)

RowsOK == /\ targets \in Seq(TargetRow)
          /\ \A n \in 1..Len(targets) : targets[n].value \in targets[n].was
FormOK == form.open => /\ form.values \in Seq(Values) /\ form.values # << >>
                       /\ form.ports \in Ports /\ form.named \in BOOLEAN
GroupsOK == \A g \in groups : GroupOK(targets, g)
SavesOK == saves \in Seq(SaveRow) /\ \A i \in 1..Len(saves) : SaveOK(targets, saves[i])

LEMMA TargetsParts ==
  ASSUME RowsOK', FormOK', GroupsOK', SavesOK'
  PROVE  TargetsInv'
BY DEF TargetsInv, RowsOK, FormOK, GroupsOK, SavesOK

LEMMA GroupsStay ==
  ASSUME TargetsInv, RowsOK', Edited(targets, targets'), UNCHANGED groups
  PROVE  GroupsOK'
<1>1. \A g \in groups : GroupOK(targets', g)
  BY GroupStays DEF TargetsInv, RowsOK
<1> QED BY <1>1 DEF GroupsOK

LEMMA SavesStay ==
  ASSUME TargetsInv, RowsOK', Edited(targets, targets'), UNCHANGED saves
  PROVE  SavesOK'
<1>1. \A i \in 1..Len(saves) : SaveOK(targets', saves[i])
  BY SaveStays DEF TargetsInv, RowsOK
<1> QED BY <1>1 DEF SavesOK, TargetsInv

\* One save goes on.
LEMMA OneSave ==
  ASSUME TargetsInv, RowsOK', Edited(targets, targets'), NEW i \in 1..Len(saves),
         NEW new \in SaveRow, SaveOK(targets', new), Go(i, new)
  PROVE  SavesOK'
<1>1. \A j \in 1..Len(saves) : SaveOK(targets', saves[j])
  BY SaveStays DEF TargetsInv, RowsOK
<1>2. saves' = [saves EXCEPT ![i] = new] /\ saves \in Seq(SaveRow)
  BY DEF Go, TargetsInv
<1>3. /\ [saves EXCEPT ![i] = new] \in Seq(SaveRow)
      /\ Len([saves EXCEPT ![i] = new]) = Len(saves)
      /\ \A j \in 1..Len(saves) : [saves EXCEPT ![i] = new][j] = IF j = i THEN new ELSE saves[j]
  BY <1>2, ExceptSeq
<1> QED BY <1>1, <1>2, <1>3 DEF SavesOK

\* A step that says less: a save that fails or ends.
LEMMA StepOK ==
  ASSUME NEW rows, NEW s \in SaveRow, SaveOK(rows, s), NEW step \in {"reuse", "done", "ended", "failed"},
         step = "reuse" => s.step = "post"
  PROVE  [s EXCEPT !.step = step] \in SaveRow /\ SaveOK(rows, [s EXCEPT !.step = step])
<1> DEFINE new == [s EXCEPT !.step = step]
<1>1. /\ new \in SaveRow /\ new.values = s.values /\ new.asked = s.asked /\ new.saved = s.saved
      /\ new.step = step
  BY DEF SaveRow
<1> HIDE DEF new
<1>2. SaveOK(rows, new)
  BY <1>1 DEF SaveOK
<1> QED BY <1>1, <1>2 DEF new

\* The value a save asks for next is one of those that were typed.
LEMMA CurrentOK ==
  ASSUME TargetsInv, NEW i \in 1..Len(saves)
  PROVE  /\ saves[i] \in SaveRow /\ SaveOK(targets, saves[i])
         /\ saves[i].step \in {"post", "reuse"} => CurrentValue(i) \in Values
<1>1. saves[i] \in SaveRow /\ SaveOK(targets, saves[i])
  BY ElementOfSeq DEF TargetsInv
<1> DEFINE s == saves[i]
<1>2. ASSUME s.step \in {"post", "reuse"} PROVE CurrentValue(i) \in Values
  <2>1. s.values \in Seq(Values) /\ s.saved \in Seq(Nat)
    BY <1>1 DEF SaveRow
  <2>2. Len(s.saved) < Len(s.values)
    BY <1>1, <1>2 DEF SaveOK
  <2>3. Len(s.saved) + 1 \in 1..Len(s.values)
    BY <2>1, <2>2, LenProperties
  <2> HIDE DEF s
  <2>4. s.values[Len(s.saved) + 1] \in Values
    BY <2>1, <2>3, ElementOfSeq
  <2> QED BY <2>4 DEF CurrentValue, s
<1> QED BY <1>1, <1>2

LEMMA OpenKeeps ==
  ASSUME TargetsInv, OpenTarget \/ CloseTarget
  PROVE  TargetsInv'
<1>1. UNCHANGED <<targets, groups, saves>>
  BY DEF OpenTarget, CloseTarget
<1>2. FormOK'
  <2>1. CASE CloseTarget
    BY <2>1 DEF CloseTarget, Closed, FormOK
  <2>2. CASE OpenTarget
    <3>1. PICK vs \in (SUBSET Values) \ {{}}, ports \in {"", "8443"}, named \in BOOLEAN, kindOk \in BOOLEAN :
            form' = [open |-> TRUE, values |-> SetToSeq(vs), ports |-> ports, named |-> named,
                     kindOk |-> kindOk]
      BY <2>2 DEF OpenTarget
    <3>2. SetToSeq(vs) \in Seq(Values) /\ SetToSeq(vs) # << >>
      <4>1. vs \in SUBSET Values /\ vs # {}
        OBVIOUS
      <4> QED BY <4>1, Lines
    <3>3. form'.values = SetToSeq(vs) /\ form'.ports = ports /\ form'.named = named
      BY <3>1
    <3> QED BY <3>2, <3>3 DEF FormOK, Ports
  <2> QED BY <2>1, <2>2
<1> QED BY <1>1, <1>2 DEF TargetsInv, FormOK

LEMMA ClickKeeps ==
  ASSUME TargetsInv, ClickSave
  PROVE  TargetsInv'
<1> DEFINE new == [values |-> form.values, ports |-> form.ports, named |-> form.named,
                   asked |-> Range(form.values), saved |-> << >>, step |-> "post"]
<1>1. /\ saves' = Append(saves, new) /\ UNCHANGED <<targets, groups, form>> /\ form.open
      /\ saves \in Seq(SaveRow) /\ targets \in Seq(TargetRow)
  BY DEF ClickSave, TargetsInv
<1>2. /\ form.values \in Seq(Values) /\ form.values # << >> /\ form.ports \in Ports
      /\ form.named \in BOOLEAN
  BY <1>1 DEF TargetsInv
<1>3. Range(form.values) \in SUBSET Values
  BY <1>2, LenProperties, ElementOfSeq DEF Range
<1>4. new \in SaveRow
  <2>1. << >> \in Seq(Nat)
    OBVIOUS
  <2> QED BY <1>2, <1>3, <2>1 DEF SaveRow
<1>5. SaveOK(targets, new)
  <2>1. /\ new.values = form.values /\ new.asked = Range(form.values) /\ new.saved = << >>
        /\ new.step = "post" /\ Len(<< >>) = 0
    OBVIOUS
  <2>2. Len(form.values) \in Nat \ {0}
    BY <1>2, EmptySeq
  <2> HIDE DEF new
  <2> QED BY <1>2, <2>1, <2>2 DEF SaveOK
<1> HIDE DEF new
<1>6. /\ saves' \in Seq(SaveRow) /\ Len(saves') = Len(saves) + 1 /\ Len(saves) \in Nat
      /\ saves'[Len(saves) + 1] = new /\ \A i \in 1..Len(saves) : saves'[i] = saves[i]
  BY <1>1, <1>4, AppendProperties, LenProperties
<1>7. SavesOK'
  <2>1. ASSUME NEW i \in 1..Len(saves') PROVE SaveOK(targets, saves'[i])
    <3>1. i = Len(saves) + 1 \/ i \in 1..Len(saves)
      BY <1>6
    <3> QED BY <1>5, <1>6, <3>1 DEF TargetsInv
  <2> QED BY <1>1, <1>6, <2>1 DEF SavesOK
<1> QED BY <1>1, <1>7 DEF TargetsInv, SavesOK

\* A save that leaves the rows of targets alone.
LEMMA SaveOnly ==
  ASSUME TargetsInv, NEW i \in 1..Len(saves), NEW new \in SaveRow, SaveOK(targets, new), Go(i, new),
         UNCHANGED targets, FormOK', GroupsOK'
  PROVE  TargetsInv'
<1>1. RowsOK' /\ Edited(targets, targets')
  BY EditedRefl DEF TargetsInv, RowsOK
<1>2. SavesOK'
  BY <1>1, OneSave
<1> QED BY <1>1, <1>2, TargetsParts

LEMMA FailsKeeps ==
  ASSUME TargetsInv, NEW i \in 1..Len(saves), Fails(i), UNCHANGED <<targets, groups, form>>
  PROVE  TargetsInv'
<1>1. saves[i] \in SaveRow /\ SaveOK(targets, saves[i])
  BY CurrentOK
<1> DEFINE new == [saves[i] EXCEPT !.step = "failed"]
<1>2. new \in SaveRow /\ SaveOK(targets, new)
  BY <1>1, StepOK
<1>3. Go(i, new)
  BY DEF Fails
<1>4. FormOK' /\ GroupsOK'
  BY DEF TargetsInv, FormOK, GroupsOK
<1> HIDE DEF new
<1> QED BY <1>2, <1>3, <1>4, SaveOnly

\* A target is created, by whom it may be.
LEMMA CreateRows ==
  ASSUME TargetsInv, NEW v \in Values, NEW ports \in Ports, Create(v, ports)
  PROVE  RowsOK' /\ Edited(targets, targets') /\ Holds(targets', Len(targets) + 1, v)
BY Created DEF TargetsInv, RowsOK, Create

LEMMA PostKeeps ==
  ASSUME TargetsInv, NEW i \in 1..Len(saves), PostTarget(i)
  PROVE  TargetsInv'
<1> DEFINE s == saves[i]
<1>1. s \in SaveRow /\ SaveOK(targets, s) /\ s.step = "post" /\ CurrentValue(i) \in Values
  BY CurrentOK DEF PostTarget, At
<1>2. UNCHANGED <<groups, form>>
  BY DEF PostTarget
<1>3. FormOK'
  BY <1>2 DEF TargetsInv, FormOK
<1>4. CASE Create(CurrentValue(i), s.ports) /\ Go(i, Kept(s, Len(targets) + 1))
  <2>1. s.ports \in Ports
    BY <1>1 DEF SaveRow
  <2>2. RowsOK' /\ Edited(targets, targets') /\ Holds(targets', Len(targets) + 1, CurrentValue(i))
    BY <1>1, <1>4, <2>1, CreateRows
  <2>3. SaveOK(targets', s)
    BY <1>1, <2>2, SaveStays DEF RowsOK, TargetsInv
  <2>4. Kept(s, Len(targets) + 1) \in SaveRow /\ SaveOK(targets', Kept(s, Len(targets) + 1))
    BY <1>1, <2>2, <2>3, KeptOK DEF RowsOK, CurrentValue
  <2>5. SavesOK'
    BY <1>4, <2>2, <2>4, OneSave
  <2>6. GroupsOK'
    BY <1>2, <2>2, GroupsStay
  <2> QED BY <1>3, <2>2, <2>5, <2>6, TargetsParts
<1>5. CASE Go(i, [s EXCEPT !.step = "reuse"]) /\ UNCHANGED targets
  <2> DEFINE new == [s EXCEPT !.step = "reuse"]
  <2>1. new \in SaveRow /\ SaveOK(targets, new)
    BY <1>1, StepOK
  <2>2. GroupsOK'
    BY <1>2, <1>5 DEF TargetsInv, GroupsOK
  <2>3. Go(i, new)
    BY <1>5
  <2> HIDE DEF new
  <2> QED BY <1>3, <1>5, <2>1, <2>2, <2>3, SaveOnly
<1> QED BY <1>4, <1>5 DEF PostTarget

\* The record that is reused has, or had, the value.
LEMMA ReuseKeeps ==
  ASSUME TargetsInv, NEW i \in 1..Len(saves), Reuse(i)
  PROVE  TargetsInv'
<1> DEFINE s == saves[i]
<1>1. s \in SaveRow /\ SaveOK(targets, s) /\ s.step = "reuse"
  BY CurrentOK DEF Reuse, At
<1>2. UNCHANGED <<targets, groups, form>>
  BY DEF Reuse
<1>3. ASSUME NEW k \in Rows, targets[k].value = CurrentValue(i), Go(i, Kept(s, k))
      PROVE  TargetsInv'
  <2>1. k \in 1..Len(targets)
    BY LenProperties DEF TargetsInv, Rows
  <2>2. Holds(targets, k, CurrentValue(i))
    BY <1>3, <2>1 DEF TargetsInv, Holds
  <2>3. Kept(s, k) \in SaveRow /\ SaveOK(targets, Kept(s, k))
    BY <1>1, <2>2, KeptOK DEF TargetsInv, CurrentValue
  <2>4. FormOK' /\ GroupsOK'
    BY <1>2 DEF TargetsInv, FormOK, GroupsOK
  <2> QED BY <1>2, <1>3, <2>3, <2>4, SaveOnly
<1> QED BY <1>2, <1>3, FailsKeeps DEF Reuse

\* A group begins with a target for every value that was typed.
LEMMA PostGroupKeeps ==
  ASSUME TargetsInv, NEW i \in 1..Len(saves), PostGroup(i)
  PROVE  TargetsInv'
<1> DEFINE s == saves[i]
           g == [name |-> "new", members |-> Range(s.saved), first |-> Range(s.saved), asked |-> s.asked]
<1>1. s \in SaveRow /\ SaveOK(targets, s) /\ s.step = "group"
  BY CurrentOK DEF PostGroup, At
<1>2. UNCHANGED <<targets, form>>
  BY DEF PostGroup
<1>3. CASE groups' = groups \cup {g} /\ Go(i, [s EXCEPT !.step = "done"])
  <2>1. s.values \in Seq(Values) /\ s.saved \in Seq(Nat)
    BY <1>1 DEF SaveRow
  <2>2. ASSUME NEW v \in s.asked PROVE \E n \in Range(s.saved) : Holds(targets, n, v)
    <3>1. PICK k \in 1..Len(s.values) : v = s.values[k]
      BY <1>1, <2>1, <2>2, LenProperties DEF SaveOK, Range
    <3>2. k \in 1..Len(s.saved)
      BY <1>1 DEF SaveOK
    <3>3. Holds(targets, s.saved[k], v)
      BY <1>1, <3>1, <3>2 DEF SaveOK
    <3>4. s.saved[k] \in Range(s.saved)
      BY <2>1, <3>2, LenProperties DEF Range
    <3> QED BY <3>3, <3>4
  <2>3. GroupOK(targets, g)
    <3>1. DOMAIN g = GroupFields /\ g.asked = s.asked /\ g.first = Range(s.saved)
      BY DEF GroupFields
    <3> HIDE DEF g
    <3> QED BY <2>2, <3>1 DEF GroupOK
  <2>4. GroupsOK'
    <3> HIDE DEF g
    <3> QED BY <1>2, <1>3, <2>3 DEF TargetsInv, GroupsOK
  <2>5. FormOK'
    BY <1>2 DEF TargetsInv, FormOK
  <2> DEFINE new == [s EXCEPT !.step = "done"]
  <2>6. new \in SaveRow /\ SaveOK(targets, new)
    BY <1>1, StepOK
  <2>7. Go(i, new)
    BY <1>3
  <2> HIDE DEF new
  <2> QED BY <1>2, <2>4, <2>5, <2>6, <2>7, SaveOnly
<1>4. CASE Fails(i) /\ UNCHANGED groups
  BY <1>2, <1>4, FailsKeeps
<1> QED BY <1>3, <1>4 DEF PostGroup

LEMMA SaveEndsKeeps ==
  ASSUME TargetsInv, NEW i \in 1..Len(saves), SaveEnds(i)
  PROVE  TargetsInv'
<1>1. saves[i] \in SaveRow /\ SaveOK(targets, saves[i])
  BY CurrentOK
<1> DEFINE new == [saves[i] EXCEPT !.step = "ended"]
<1>2. new \in SaveRow /\ SaveOK(targets, new)
  BY <1>1, StepOK
<1>3. Go(i, new) /\ UNCHANGED <<targets, groups>>
  BY DEF SaveEnds
<1>4. FormOK' /\ GroupsOK'
  BY DEF SaveEnds, Closed, TargetsInv, FormOK, GroupsOK
<1> HIDE DEF new
<1> QED BY <1>2, <1>3, <1>4, SaveOnly

\* A request that is lost may have created its target.
LEMMA LoseRequestKeeps ==
  ASSUME TargetsInv, NEW i \in 1..Len(saves), LoseRequest(i)
  PROVE  TargetsInv'
<1>1. Fails(i) /\ UNCHANGED <<groups, form>>
  BY DEF LoseRequest
<1>2. CASE UNCHANGED targets
  BY <1>1, <1>2, FailsKeeps
<1>3. CASE At(i, "post") /\ Create(CurrentValue(i), saves[i].ports)
  <2>1. saves[i] \in SaveRow /\ SaveOK(targets, saves[i]) /\ CurrentValue(i) \in Values
    BY <1>3, CurrentOK DEF At
  <2>2. saves[i].ports \in Ports
    BY <2>1 DEF SaveRow
  <2>3. RowsOK' /\ Edited(targets, targets')
    BY <1>3, <2>1, <2>2, CreateRows
  <2> DEFINE new == [saves[i] EXCEPT !.step = "failed"]
  <2>4. SaveOK(targets', saves[i])
    BY <2>1, <2>3, SaveStays DEF RowsOK, TargetsInv
  <2>5. new \in SaveRow /\ SaveOK(targets', new)
    BY <2>1, <2>4, StepOK
  <2>6. Go(i, new)
    BY <1>1 DEF Fails
  <2>7. FormOK' /\ GroupsOK'
    BY <1>1, <2>3, GroupsStay DEF TargetsInv, FormOK
  <2>8. SavesOK'
    <3> HIDE DEF new
    <3> QED BY <2>3, <2>5, <2>6, OneSave
  <2> QED BY <2>3, <2>7, <2>8, TargetsParts
<1> QED BY <1>2, <1>3 DEF LoseRequest

\* What is done to a row by the other dialogs.
LEMMA RowsOnly ==
  ASSUME TargetsInv, RowsOK', Edited(targets, targets'), UNCHANGED <<saves, form>>,
         \A g \in groups' : GroupOK(targets', g)
  PROVE  TargetsInv'
<1>1. FormOK' /\ GroupsOK'
  BY DEF TargetsInv, FormOK, GroupsOK
<1>2. SavesOK'
  BY SavesStay
<1> QED BY <1>1, <1>2, TargetsParts

LEMMA OthersKeep ==
  ASSUME TargetsInv, EditTarget \/ DeleteTarget \/ Import \/ SaveGroup \/ DeleteGroup
  PROVE  TargetsInv'
<1>1. /\ targets \in Seq(TargetRow) /\ DOMAIN targets = 1..Len(targets) /\ Rows \subseteq 1..Len(targets)
      /\ Edited(targets, targets) /\ \A g \in groups : GroupOK(targets, g)
      /\ \A n \in 1..Len(targets) : targets[n].value \in targets[n].was
  BY LenProperties, EditedRefl DEF TargetsInv, Rows
<1>2. ASSUME NEW n \in 1..Len(targets), NEW row \in TargetRow, row.value \in row.was,
             targets[n].was \subseteq row.was, targets' = [targets EXCEPT ![n] = row]
      PROVE  RowsOK' /\ Edited(targets, targets') /\ \A g \in groups : GroupOK(targets', g)
  <2>1. RowsOK' /\ Edited(targets, targets')
    BY <1>1, <1>2, Replaced DEF RowsOK
  <2> QED BY <1>1, <2>1, GroupStays DEF RowsOK
<1>3. CASE EditTarget
  <2>1. PICK k \in listed \cap Rows, v \in Values, ports \in {"", "8443"} :
          targets' = [targets EXCEPT ![k].value = v, ![k].ports = ports, ![k].was = @ \cup {v}]
    BY <1>3 DEF EditTarget
  <2> DEFINE row == [targets[k] EXCEPT !.value = v, !.ports = ports, !.was = @ \cup {v}]
  <2>2. targets[k] \in TargetRow /\ k \in 1..Len(targets)
    BY <1>1, ElementOfSeq
  <2>3. row \in TargetRow /\ row.value = v /\ row.was = targets[k].was \cup {v}
    BY <2>2 DEF TargetRow, Ports
  <2>4. targets' = [targets EXCEPT ![k] = row]
    BY <1>1, <2>1, <2>2
  <2> HIDE DEF row
  <2>5. RowsOK' /\ Edited(targets, targets') /\ \A g \in groups : GroupOK(targets', g)
    BY <1>2, <2>2, <2>3, <2>4
  <2> QED BY <1>3, <2>5, RowsOnly DEF EditTarget
<1>4. CASE DeleteTarget
  <2>1. PICK k \in Rows : /\ targets' = [targets EXCEPT ![k].alive = FALSE]
                          /\ groups' = {[g EXCEPT !.members = @ \ {k}] : g \in groups}
    BY <1>4 DEF DeleteTarget
  <2> DEFINE row == [targets[k] EXCEPT !.alive = FALSE]
  <2>2. targets[k] \in TargetRow /\ k \in 1..Len(targets)
    BY <1>1, ElementOfSeq
  <2>3. row \in TargetRow /\ row.value = targets[k].value /\ row.was = targets[k].was
    BY <2>2 DEF TargetRow
  <2>4. targets' = [targets EXCEPT ![k] = row]
    BY <2>1
  <2> HIDE DEF row
  <2>5. RowsOK' /\ Edited(targets, targets') /\ \A g \in groups : GroupOK(targets', g)
    BY <1>1, <1>2, <2>2, <2>3, <2>4
  <2>6. ASSUME NEW g \in groups PROVE GroupOK(targets', [g EXCEPT !.members = @ \ {k}])
    <3> DEFINE h == [g EXCEPT !.members = @ \ {k}]
    <3>1. DOMAIN g = GroupFields /\ GroupOK(targets', g)
      BY <2>5 DEF GroupOK
    <3>2. DOMAIN h = GroupFields /\ h.first = g.first /\ h.asked = g.asked
      BY <3>1 DEF GroupFields
    <3> HIDE DEF h
    <3>3. GroupOK(targets', h)
      BY <3>1, <3>2 DEF GroupOK
    <3> QED BY <3>3 DEF h
  <2>7. \A g \in groups' : GroupOK(targets', g)
    BY <2>1, <2>6
  <2> QED BY <1>4, <2>5, <2>7, RowsOnly DEF DeleteTarget
<1>5. CASE Import
  <2>1. PICK v \in Values, ports \in {"", "8443"} : Create(v, ports)
    BY <1>5 DEF Import
  <2>2. RowsOK' /\ Edited(targets, targets')
    BY <2>1, CreateRows DEF Ports
  <2>3. \A g \in groups : GroupOK(targets', g)
    BY <1>1, <2>2, GroupStays DEF RowsOK
  <2> QED BY <1>5, <2>2, <2>3, RowsOnly DEF Import
<1>6. CASE SaveGroup
  <2>1. RowsOK' /\ Edited(targets, targets') /\ UNCHANGED <<targets, saves, form>>
    BY <1>1, <1>6 DEF SaveGroup, RowsOK
  <2>2. PICK ids \in SUBSET (listed \cap Rows) :
          \/ groups' = groups \cup {[name |-> "new", members |-> ids, first |-> {}, asked |-> {}]}
          \/ \E g \in groups : groups' = (groups \ {g}) \cup {[g EXCEPT !.members = ids]}
    BY <1>6 DEF SaveGroup
  <2> DEFINE empty == [name |-> "new", members |-> ids, first |-> {}, asked |-> {}]
  <2>3. GroupOK(targets, empty)
    BY DEF GroupOK, GroupFields
  <2>4. ASSUME NEW g \in groups PROVE GroupOK(targets, [g EXCEPT !.members = ids])
    <3> DEFINE h == [g EXCEPT !.members = ids]
    <3>1. DOMAIN g = GroupFields /\ GroupOK(targets, g)
      BY <1>1 DEF GroupOK
    <3>2. DOMAIN h = GroupFields /\ h.first = g.first /\ h.asked = g.asked
      BY <3>1 DEF GroupFields
    <3> HIDE DEF h
    <3>3. GroupOK(targets, h)
      BY <3>1, <3>2 DEF GroupOK
    <3> QED BY <3>3 DEF h
  <2>5. \A g \in groups' : GroupOK(targets, g)
    <3> HIDE DEF empty
    <3>1. CASE groups' = groups \cup {empty}
      BY <1>1, <2>3, <3>1
    <3>2. CASE \E g \in groups : groups' = (groups \ {g}) \cup {[g EXCEPT !.members = ids]}
      BY <1>1, <2>4, <3>2
    <3> QED BY <2>2, <3>1, <3>2 DEF empty
  <2>6. \A g \in groups' : GroupOK(targets', g)
    BY <2>1, <2>5
  <2> QED BY <2>1, <2>6, RowsOnly
<1>7. CASE DeleteGroup
  <2>1. RowsOK' /\ Edited(targets, targets') /\ UNCHANGED <<targets, saves, form>>
    BY <1>1, <1>7 DEF DeleteGroup, RowsOK
  <2>2. \A g \in groups' : GroupOK(targets', g)
    BY <1>1, <1>7, <2>1 DEF DeleteGroup
  <2> QED BY <2>1, <2>2, RowsOnly
<1> QED BY <1>3, <1>4, <1>5, <1>6, <1>7
-----------------------------------------------------------------------------
(* Targets: theorems. *)

LEMMA TargetsInitOK == TargetsInit => TargetsInv
<1> SUFFICES ASSUME TargetsInit PROVE TargetsInv
  OBVIOUS
<1>1. targets = << >> /\ saves = << >> /\ groups = {} /\ form = Closed
  BY DEF TargetsInit
<1>2. << >> \in Seq(TargetRow) /\ << >> \in Seq(SaveRow) /\ Len(<< >>) = 0
  OBVIOUS
<1>3. ~form.open
  BY <1>1 DEF Closed
<1> QED BY <1>1, <1>2, <1>3 DEF TargetsInv

LEMMA TargetsStep == TargetsInv /\ [TargetsNext]_targetVars => TargetsInv'
<1> SUFFICES ASSUME TargetsInv, [TargetsNext]_targetVars PROVE TargetsInv'
  OBVIOUS
<1>1. ASSUME NEW i \in DOMAIN saves,
             PostTarget(i) \/ Reuse(i) \/ PostGroup(i) \/ SaveEnds(i) \/ LoseRequest(i)
      PROVE  TargetsInv'
  <2>1. i \in 1..Len(saves)
    BY LenProperties DEF TargetsInv
  <2> QED BY <1>1, <2>1, PostKeeps, ReuseKeeps, PostGroupKeeps, SaveEndsKeeps, LoseRequestKeeps
<1>2. CASE UNCHANGED targetVars
  BY <1>2 DEF targetVars, TargetsInv
<1> QED BY <1>1, <1>2, OpenKeeps, ClickKeeps, OthersKeep DEF TargetsNext

\* Targets.tsx: in every reachable state a save has, for each value it has come
\* past, a target that has or had that value, and a group it made began with one
\* for each value.
THEOREM SavesInvariant == TargetsSpec => []TargetsInv
BY TargetsInitOK, TargetsStep, PTL DEF TargetsSpec

\* Targets.tsx:31: the group of a save began with a target for every value that
\* was typed, for any values and any number of saves, edits and lost requests.
THEOREM GroupsAreWhole == TargetsSpec => []GroupIsWhole
<1>1. TargetsInv => GroupIsWhole
  BY DEF TargetsInv, GroupOK, Holds, GroupIsWhole
<1> QED BY <1>1, SavesInvariant, PTL
-----------------------------------------------------------------------------
(* The editor of profiles. *)

EditFields == {"open", "section", "added", "trust"}

\* An entry has only options of its check, with values that the engine takes
\* unless the check is off: unticked checks are not looked at.
EntryOK(c, e) ==
  /\ DOMAIN e = {"shape", "on", "opts"} /\ e.on \in {"yes", "no", "missing"}
  /\ DOMAIN e.opts \subseteq OptionsOf(c)
  /\ e.on # "no" => \A n \in DOMAIN e.opts : ValidOption(n, e.opts[n])
SectionOK(sec) == DOMAIN sec \subseteq Catalog /\ \A c \in DOMAIN sec : EntryOK(c, sec[c])

\* The person left check c as on in the section.
LeftAs(sec, c, on) == (c \in Selected(sec) <=> on) /\ (isEnabled(sec, c) <=> on)

EditorInv ==
  /\ SectionOK(latest) /\ SectionOK(known) /\ DOMAIN ticked \subseteq Catalog
  /\ DOMAIN edit = EditFields
  /\ edit.open => /\ SectionOK(edit.section)
                  /\ \A c \in DOMAIN ticked : LeftAs(edit.section, c, ticked[c])

\* All but the entry of c is as it was.
SameBut(old, new, c) == \A d \in Catalog \ {c} : /\ d \in DOMAIN new <=> d \in DOMAIN old
                                                 /\ d \in DOMAIN old => new[d] = old[d]

\* An entry put over a section.
LEMMA Put ==
  ASSUME NEW sec, SectionOK(sec), NEW c \in Catalog, NEW e, EntryOK(c, e), e.on = "yes",
         NEW new, new = Over(Only(c, e), sec)
  PROVE  SectionOK(new) /\ SameBut(sec, new, c) /\ c \in Selected(new) /\ isEnabled(new, c)
<1>1. /\ DOMAIN new = DOMAIN sec \cup {c} /\ new[c] = e
      /\ \A d \in DOMAIN sec \ {c} : new[d] = sec[d]
  BY DEF Only, Over
<1> QED BY <1>1 DEF SectionOK, SameBut, Selected, isEnabled

\* tlsChecks.ts: a check that is ticked is selected, one that is unticked is not.
LEMMA SetEnabledOK ==
  ASSUME NEW sec, SectionOK(sec), NEW c \in Catalog
  PROVE  /\ SectionOK(setEnabled(sec, c, TRUE)) /\ SameBut(sec, setEnabled(sec, c, TRUE), c)
         /\ c \in Selected(setEnabled(sec, c, TRUE)) /\ isEnabled(setEnabled(sec, c, TRUE), c)
         /\ SectionOK(setEnabled(sec, c, FALSE)) /\ SameBut(sec, setEnabled(sec, c, FALSE), c)
         /\ c \notin Selected(setEnabled(sec, c, FALSE)) /\ ~isEnabled(setEnabled(sec, c, FALSE), c)
<1> DEFINE e == Mapping("yes", << >>)
<1>1. EntryOK(c, e) /\ e.on = "yes"
  <2>1. DOMAIN e = {"shape", "on", "opts"} /\ e.on = "yes" /\ e.opts = << >> /\ DOMAIN << >> = {}
    BY DEF Mapping
  <2> HIDE DEF e
  <2> QED BY <2>1 DEF EntryOK
<1>2. setEnabled(sec, c, TRUE) = Over(Only(c, e), sec)
  BY DEF setEnabled
<1> HIDE DEF e
<1> DEFINE off == setEnabled(sec, c, FALSE)
<1>3. DOMAIN off = DOMAIN sec \ {c} /\ \A d \in DOMAIN sec \ {c} : off[d] = sec[d]
  BY DEF setEnabled, Restrict
<1> HIDE DEF off
<1>4. SectionOK(off) /\ SameBut(sec, off, c) /\ c \notin Selected(off) /\ ~isEnabled(off, c)
  BY <1>3 DEF SectionOK, SameBut, Selected, isEnabled
<1>5. /\ SectionOK(setEnabled(sec, c, TRUE)) /\ SameBut(sec, setEnabled(sec, c, TRUE), c)
      /\ c \in Selected(setEnabled(sec, c, TRUE)) /\ isEnabled(setEnabled(sec, c, TRUE), c)
  BY <1>1, <1>2, Put
<1> QED BY <1>4, <1>5 DEF off

\* An option that is set, or removed, leaves the check ticked as it was.
LEMMA SetOptionOK ==
  ASSUME NEW sec, SectionOK(sec), NEW c \in Catalog, isEnabled(sec, c),
         NEW name \in OptionsOf(c), NEW opt, DOMAIN opt \subseteq {name},
         \A n \in DOMAIN opt : ValidOption(n, opt[n])
  PROVE  /\ SectionOK(setOption(sec, c, name, opt)) /\ SameBut(sec, setOption(sec, c, name, opt), c)
         /\ c \in Selected(setOption(sec, c, name, opt)) /\ isEnabled(setOption(sec, c, name, opt), c)
<1> DEFINE entry == IF c \in DOMAIN sec /\ sec[c].shape = "map" THEN sec[c]
                    ELSE Mapping(IF isEnabled(sec, c) THEN "yes" ELSE "no", << >>)
           e == With(entry, name, opt)
<1>1. EntryOK(c, entry) /\ entry.on = "yes"
  <2>1. CASE c \in DOMAIN sec /\ sec[c].shape = "map"
    BY <2>1 DEF SectionOK, isEnabled
  <2>2. CASE ~(c \in DOMAIN sec /\ sec[c].shape = "map")
    <3> DEFINE m == Mapping("yes", << >>)
    <3>1. entry = m
      BY <2>2
    <3>2. DOMAIN m = {"shape", "on", "opts"} /\ m.on = "yes" /\ m.opts = << >> /\ DOMAIN << >> = {}
      BY DEF Mapping
    <3> HIDE DEF m, entry
    <3> QED BY <3>1, <3>2 DEF EntryOK
  <2> QED BY <2>1, <2>2
<1> HIDE DEF entry
<1> DEFINE rest == Restrict(entry.opts, DOMAIN entry.opts \ {name})
<1>2. DOMAIN rest = DOMAIN entry.opts \ {name} /\ \A n \in DOMAIN rest : rest[n] = entry.opts[n]
  BY DEF Restrict
<1>3. /\ DOMAIN e = {"shape", "on", "opts"} /\ e.on = "yes" /\ e.opts = Over(opt, rest)
  BY <1>1 DEF With, EntryOK
<1> HIDE DEF e, rest
<1>4. /\ DOMAIN Over(opt, rest) = DOMAIN opt \cup DOMAIN rest
      /\ \A n \in DOMAIN opt \cup DOMAIN rest : Over(opt, rest)[n] = IF n \in DOMAIN opt THEN opt[n] ELSE rest[n]
  BY DEF Over
<1>5. EntryOK(c, e)
  BY <1>1, <1>2, <1>3, <1>4 DEF EntryOK
<1>6. setOption(sec, c, name, opt) = Over(Only(c, e), sec)
  BY DEF setOption, e, entry
<1> QED BY <1>3, <1>5, <1>6, Put

\* What is typed, of a check that was touched.
LEMMA TypedKeeps ==
  ASSUME EditorInv, edit.open, NEW c \in Catalog, NEW on \in BOOLEAN, NEW new,
         SectionOK(new), SameBut(edit.section, new, c), LeftAs(new, c, on),
         Typed(new), Touch(c, on)
  PROVE  EditorInv'
<1>1. /\ DOMAIN edit' = EditFields /\ edit'.section = new
      /\ UNCHANGED <<latest, known>>
  BY DEF Typed, EditorInv, EditFields
<1>2. /\ DOMAIN ticked' = DOMAIN ticked \cup {c} /\ ticked'[c] = on
      /\ \A d \in DOMAIN ticked \ {c} : ticked'[d] = ticked[d] /\ DOMAIN ticked \subseteq Catalog
  BY DEF EditorInv, Touch, Only, Over
<1>3. ASSUME NEW d \in DOMAIN ticked' PROVE LeftAs(new, d, ticked'[d])
  <2>1. CASE d = c
    BY <1>2, <2>1
  <2>2. CASE d # c
    <3>1. d \in DOMAIN ticked /\ d \in Catalog \ {c} /\ ticked'[d] = ticked[d]
      BY <1>2, <2>2
    <3>2. LeftAs(edit.section, d, ticked[d])
      BY <3>1 DEF EditorInv
    <3>3. LeftAs(new, d, ticked[d])
      BY <3>1, <3>2 DEF LeftAs, SameBut, Selected, isEnabled
    <3> QED BY <3>1, <3>3
  <2> QED BY <2>1, <2>2
<1>4. DOMAIN ticked' \subseteq Catalog
  BY <1>2
<1> QED BY <1>1, <1>3, <1>4 DEF EditorInv

\* What config.py takes for the ports of a check.
LEMMA PortsOK ==
  \A p : ValidOption("ports", p) <=>
           Len(p) \in 1..MaxPorts /\ IsInjective(p) /\ Range(p) \subseteq PortNumbers
BY DEF ValidOption

LEMMA Pair ==
  ASSUME NEW S, NEW p \in Seq(S), Len(p) = 2, p[1] # p[2]
  PROVE  IsInjective(p) /\ Range(p) \subseteq S
<1>1. p \in [1..2 -> S] /\ DOMAIN p = 1..2
  BY LenProperties
<1>2. \A k \in 1..2 : k = 1 \/ k = 2
  OBVIOUS
<1> QED BY <1>1, <1>2 DEF IsInjective, Range

\* The versions that the server may hold are sections the engine accepts.
LEMMA StoredOK == \A sec \in StoredSections \cup {recommendedSection} : SectionOK(sec)
<1>1. ASSUME NEW on, on \in {"yes", "no", "missing"}, NEW c, NEW k, NEW v, k \in OptionsOf(c), ValidOption(k, v)
      PROVE  EntryOK(c, Mapping(on, Only(k, v)))
  <2> DEFINE e == Mapping(on, Only(k, v))
  <2>1. DOMAIN e = {"shape", "on", "opts"} /\ e.on = on /\ e.opts = Only(k, v)
    BY DEF Mapping
  <2>2. DOMAIN Only(k, v) = {k} /\ Only(k, v)[k] = v
    BY DEF Only
  <2> HIDE DEF e
  <2>3. EntryOK(c, e)
    BY <1>1, <2>1, <2>2 DEF EntryOK
  <2> QED BY <2>3 DEF e
<1>2. ASSUME NEW c, NEW e, DOMAIN e = {"shape", "on", "opts"}, e.on \in {"yes", "no"}, e.opts = << >>
      PROVE  EntryOK(c, e)
  <2>1. DOMAIN << >> = {}
    OBVIOUS
  <2> QED BY <1>2, <2>1 DEF EntryOK
<1>3. SectionOK(<< >>)
  BY DEF SectionOK
<1>4. SectionOK(recommendedSection)
  <2>1. \A c : EntryOK(c, Mapping("yes", << >>))
    <3> DEFINE e == Mapping("yes", << >>)
    <3>1. DOMAIN e = {"shape", "on", "opts"} /\ e.on = "yes" /\ e.opts = << >>
      BY DEF Mapping
    <3> HIDE DEF e
    <3> QED BY <1>2, <3>1 DEF e
  <2>2. DOMAIN recommendedSection \subseteq Catalog
    BY DEF recommendedSection
  <2>3. \A c \in DOMAIN recommendedSection : recommendedSection[c] = Mapping("yes", << >>)
    BY DEF recommendedSection
  <2> QED BY <2>1, <2>2, <2>3 DEF SectionOK
<1>5. SectionOK([c \in Catalog |-> Flag(c # Hidden)])
  <2>1. ASSUME NEW c \in Catalog PROVE EntryOK(c, Flag(c # Hidden))
    <3> DEFINE e == Flag(c # Hidden)
    <3>1. DOMAIN e = {"shape", "on", "opts"} /\ e.on \in {"yes", "no"} /\ e.opts = << >>
      BY DEF Flag
    <3> HIDE DEF e
    <3> QED BY <1>2, <3>1 DEF e
  <2> QED BY <2>1 DEF SectionOK
<1>6. EntryOK("session_resumption", Mapping("missing", Only("attempts", 3)))
  <2>1. ValidOption("attempts", 3)
    BY DEF ValidOption, LOW, HIGH
  <2>2. "attempts" \in OptionsOf("session_resumption")
    BY EditorAssumption DEF OptionsOf
  <2> QED BY <1>1, <2>1, <2>2
<1>7. EntryOK("early_data", Mapping("no", Only("probe", TRUE)))
  <2>1. ValidOption("probe", TRUE)
    BY DEF ValidOption
  <2>2. "probe" \in OptionsOf("early_data")
    BY EditorAssumption DEF OptionsOf
  <2> QED BY <1>1, <2>1, <2>2
<1>8. EntryOK(Hidden, Mapping("yes", Only("ports", <<25, 587>>)))
  <2>1. ValidOption("ports", <<25, 587>>)
    <3> DEFINE p == <<25, 587>>
    <3>1. p \in Seq(PortNumbers) /\ Len(p) = 2 /\ p[1] # p[2]
      BY DEF PortNumbers
    <3>2. Len(p) \in 1..MaxPorts
      BY DEF MaxPorts
    <3> HIDE DEF p
    <3>3. IsInjective(p) /\ Range(p) \subseteq PortNumbers
      BY <3>1, Pair
    <3>4. ValidOption("ports", p)
      BY <3>2, <3>3, PortsOK
    <3> QED BY <3>4 DEF p
  <2>2. "ports" \in OptionsOf(Hidden)
    BY EditorAssumption DEF OptionsOf
  <2> QED BY <1>1, <2>1, <2>2
<1> DEFINE some == {"session_resumption", "early_data", Hidden}
           byHand == [c \in some |->
                        CASE c = "session_resumption" -> Mapping("missing", Only("attempts", 3))
                          [] c = "early_data" -> Mapping("no", Only("probe", TRUE))
                          [] c = Hidden -> Mapping("yes", Only("ports", <<25, 587>>))]
<1>9. SectionOK(byHand)
  <2>1. /\ byHand["session_resumption"] = Mapping("missing", Only("attempts", 3))
        /\ byHand["early_data"] = Mapping("no", Only("probe", TRUE))
        /\ byHand[Hidden] = Mapping("yes", Only("ports", <<25, 587>>))
    BY EditorAssumption
  <2>2. DOMAIN byHand = some /\ some \subseteq Catalog
    BY DEF Catalog
  <2> HIDE DEF byHand
  <2>3. /\ EntryOK("session_resumption", byHand["session_resumption"])
        /\ EntryOK("early_data", byHand["early_data"]) /\ EntryOK(Hidden, byHand[Hidden])
    BY <1>6, <1>7, <1>8, <2>1
  <2>4. \A c \in some : EntryOK(c, byHand[c])
    BY <2>3
  <2> QED BY <2>2, <2>4 DEF SectionOK
<1> QED BY <1>3, <1>4, <1>5, <1>9 DEF StoredSections

\* The checks a row is shown for are checks of the catalogue.
LEMMA Visible == visibleChecks \subseteq Catalog
BY DEF visibleChecks

LEMMA ToggleKeeps ==
  ASSUME EditorInv, ToggleCheck
  PROVE  EditorInv'
<1>1. PICK c \in visibleChecks :
        LET on == ~isEnabled(edit.section, c)
        IN  Typed(setEnabled(edit.section, c, on)) /\ Touch(c, on)
  BY DEF ToggleCheck
<1>2. c \in Catalog /\ edit.open /\ SectionOK(edit.section)
  BY Visible DEF ToggleCheck, EditorInv
<1>3. CASE isEnabled(edit.section, c)
  <2>1. Typed(setEnabled(edit.section, c, FALSE)) /\ Touch(c, FALSE)
    BY <1>1, <1>3
  <2>2. /\ SectionOK(setEnabled(edit.section, c, FALSE))
        /\ SameBut(edit.section, setEnabled(edit.section, c, FALSE), c)
        /\ LeftAs(setEnabled(edit.section, c, FALSE), c, FALSE)
    BY <1>2, SetEnabledOK DEF LeftAs
  <2> QED BY <1>2, <2>1, <2>2, TypedKeeps
<1>4. CASE ~isEnabled(edit.section, c)
  <2>1. Typed(setEnabled(edit.section, c, TRUE)) /\ Touch(c, TRUE)
    BY <1>1, <1>4
  <2>2. /\ SectionOK(setEnabled(edit.section, c, TRUE))
        /\ SameBut(edit.section, setEnabled(edit.section, c, TRUE), c)
        /\ LeftAs(setEnabled(edit.section, c, TRUE), c, TRUE)
    BY <1>2, SetEnabledOK DEF LeftAs
  <2> QED BY <1>2, <2>1, <2>2, TypedKeeps
<1> QED BY <1>3, <1>4

\* What a field may make of the section: it stays what it was, or has an
\* option more or less.
MayBecome(sec, c, new) ==
  \/ new = sec
  \/ \E name \in OptionsOf(c) :
       \/ new = setOption(sec, c, name, << >>)
       \/ \E v : ValidOption(name, v) /\ new = setOption(sec, c, name, Only(name, v))

LEMMA MayBecomeOK ==
  ASSUME NEW sec, SectionOK(sec), NEW c \in Catalog, isEnabled(sec, c), NEW new, MayBecome(sec, c, new)
  PROVE  SectionOK(new) /\ SameBut(sec, new, c) /\ LeftAs(new, c, TRUE)
<1>1. CASE new = sec
  BY <1>1 DEF SameBut, LeftAs, Selected, isEnabled
<1>2. ASSUME NEW name \in OptionsOf(c), new = setOption(sec, c, name, << >>)
      PROVE  SectionOK(new) /\ SameBut(sec, new, c) /\ LeftAs(new, c, TRUE)
  <2>1. DOMAIN << >> = {}
    OBVIOUS
  <2> QED BY <1>2, <2>1, SetOptionOK DEF LeftAs
<1>3. ASSUME NEW name \in OptionsOf(c), NEW v, ValidOption(name, v),
             new = setOption(sec, c, name, Only(name, v))
      PROVE  SectionOK(new) /\ SameBut(sec, new, c) /\ LeftAs(new, c, TRUE)
  <2>1. DOMAIN Only(name, v) = {name} /\ Only(name, v)[name] = v
    BY DEF Only
  <2>2. /\ DOMAIN Only(name, v) \subseteq {name}
        /\ \A n \in DOMAIN Only(name, v) : ValidOption(n, Only(name, v)[n])
    BY <1>3, <2>1
  <2> QED BY <1>3, <2>2, SetOptionOK DEF LeftAs
<1> QED BY <1>1, <1>2, <1>3 DEF MayBecome

LEMMA OptionKeeps ==
  ASSUME EditorInv, edit.open, NEW c \in Catalog, isEnabled(edit.section, c), Touch(c, TRUE),
         NEW new, Typed(new), MayBecome(edit.section, c, new)
  PROVE  EditorInv'
<1>1. SectionOK(edit.section)
  BY DEF EditorInv
<1>2. SectionOK(new) /\ SameBut(edit.section, new, c) /\ LeftAs(new, c, TRUE)
  BY <1>1, MayBecomeOK
<1> QED BY <1>2, TypedKeeps

\* What is typed is a sequence of numbers.
LEMMA TypedPorts == \A typed \in PortTexts : typed # << >> => Len(typed) \in Nat \ {0}
<1>1. ASSUME NEW n \in Nat PROVE [i \in 1..n |-> i] \in Seq(Int)
  OBVIOUS
<1>2. /\ [i \in 1..16 |-> i] \in Seq(Int) /\ [i \in 1..17 |-> i] \in Seq(Int)
      /\ << >> \in Seq(Int) /\ <<25>> \in Seq(Int) /\ <<0>> \in Seq(Int) /\ <<65536>> \in Seq(Int)
      /\ <<25, 25>> \in Seq(Int)
  BY <1>1
<1> QED BY <1>2, EmptySeq DEF PortTexts

\* parsePorts: typed ports are the option, none remove it, others leave it.
LEMMA PortsBecome ==
  ASSUME NEW sec, NEW c, "ports" \in OptionsOf(c), NEW typed \in PortTexts
  PROVE  MayBecome(sec, c, parsePorts(sec, c, typed))
<1> DEFINE good == /\ typed # << >> /\ Range(typed) \subseteq PortNumbers
                   /\ IsInjective(typed) /\ Len(typed) <= MaxPorts
<1>1. CASE good
  <2>1. Len(typed) \in Nat \ {0} /\ Len(typed) <= MaxPorts
    BY <1>1, TypedPorts
  <2>2. Len(typed) \in 1..MaxPorts
    <3>1. \A k \in Nat \ {0} : k <= MaxPorts => k \in 1..MaxPorts
      BY DEF MaxPorts
    <3> QED BY <2>1, <3>1
  <2>3. ValidOption("ports", typed)
    BY <1>1, <2>2, PortsOK
  <2>4. parsePorts(sec, c, typed) = setOption(sec, c, "ports", Only("ports", typed))
    BY <1>1 DEF parsePorts
  <2> QED BY <2>3, <2>4 DEF MayBecome
<1>2. CASE typed = << >>
  BY <1>2 DEF parsePorts, MayBecome
<1>3. CASE typed # << >> /\ ~good
  <2>1. parsePorts(sec, c, typed) = sec
    BY <1>3 DEF parsePorts
  <2> QED BY <2>1 DEF MayBecome
<1> HIDE DEF good
<1> QED BY <1>1, <1>2, <1>3

LEMMA SetOptionKeeps ==
  ASSUME EditorInv, SetOption
  PROVE  EditorInv'
<1>1. PICK c \in visibleChecks : /\ isEnabled(edit.section, c) /\ Touch(c, TRUE)
                                 /\ TypeNumber(c) \/ FlipFlag(c) \/ TypePorts(c)
  BY DEF SetOption
<1>2. c \in Catalog /\ edit.open
  BY Visible DEF SetOption
<1>3. \E new : Typed(new) /\ MayBecome(edit.section, c, new)
  <2>1. CASE TypeNumber(c)
    <3>1. PICK n \in (LOW - 1)..(HIGH + 1) :
            Typed(setOption(edit.section, c, "attempts",
                            IF n \in LOW..HIGH \ {DEFAULT} THEN Only("attempts", n) ELSE << >>))
      BY <2>1 DEF TypeNumber
    <3>2. n \in LOW..HIGH => ValidOption("attempts", n)
      BY DEF ValidOption
    <3>3. "attempts" \in OptionsOf(c)
      BY <2>1 DEF TypeNumber
    <3>4. CASE n \in LOW..HIGH \ {DEFAULT}
      <4>1. ValidOption("attempts", n) /\ Typed(setOption(edit.section, c, "attempts", Only("attempts", n)))
        BY <3>1, <3>2, <3>4
      <4>2. MayBecome(edit.section, c, setOption(edit.section, c, "attempts", Only("attempts", n)))
        BY <3>3, <4>1 DEF MayBecome
      <4> QED BY <4>1, <4>2
    <3>5. CASE n \notin LOW..HIGH \ {DEFAULT}
      <4>1. Typed(setOption(edit.section, c, "attempts", << >>))
        BY <3>1, <3>5
      <4>2. MayBecome(edit.section, c, setOption(edit.section, c, "attempts", << >>))
        BY <3>3 DEF MayBecome
      <4> QED BY <4>1, <4>2
    <3> QED BY <3>4, <3>5
  <2>2. CASE FlipFlag(c)
    <3>1. "probe" \in OptionsOf(c) /\ ValidOption("probe", TRUE)
      BY <2>2 DEF FlipFlag, ValidOption
    <3>2. \/ Typed(setOption(edit.section, c, "probe", << >>))
          \/ Typed(setOption(edit.section, c, "probe", Only("probe", TRUE)))
      BY <2>2 DEF FlipFlag
    <3>3. /\ MayBecome(edit.section, c, setOption(edit.section, c, "probe", << >>))
          /\ MayBecome(edit.section, c, setOption(edit.section, c, "probe", Only("probe", TRUE)))
      BY <3>1 DEF MayBecome
    <3> QED BY <3>2, <3>3
  <2>3. CASE TypePorts(c)
    BY <2>3, PortsBecome DEF TypePorts
  <2> QED BY <1>1, <2>1, <2>2, <2>3
<1>4. PICK new : Typed(new) /\ MayBecome(edit.section, c, new)
  BY <1>3
<1> QED BY <1>1, <1>2, <1>4, OptionKeeps

\* A form begins with a section that the engine takes, and nothing touched.
LEMMA OpenFormKeeps ==
  ASSUME EditorInv, Open
  PROVE  EditorInv'
<1>1. PICK sec \in {<< >>, recommendedSection, known} : edit' = Form(sec)
  BY DEF Open
<1>2. SectionOK(sec)
  BY StoredOK DEF EditorInv, StoredSections
<1>3. DOMAIN edit' = EditFields /\ edit'.section = sec
  BY <1>1 DEF Form, EditFields
<1>4. ticked' = << >> /\ UNCHANGED <<latest, known>> /\ DOMAIN << >> = {}
  BY DEF Open
<1> QED BY <1>2, <1>3, <1>4 DEF EditorInv

\* The section, the versions and what was touched are as they were.
LEMMA SameForm ==
  ASSUME EditorInv, UNCHANGED <<latest, known, ticked>>, DOMAIN edit' = EditFields,
         edit'.open = edit.open, edit'.section = edit.section
  PROVE  EditorInv'
BY DEF EditorInv

LEMMA Closes ==
  ASSUME EditorInv, edit' = NoForm, ticked' = << >>, SectionOK(latest'), SectionOK(known')
  PROVE  EditorInv'
<1>1. DOMAIN edit' = EditFields /\ ~edit'.open
  BY DEF NoForm, Form, EditFields
<1>2. DOMAIN << >> = {}
  OBVIOUS
<1> QED BY <1>1, <1>2 DEF EditorInv

LEMMA EditorRestKeeps ==
  ASSUME EditorInv, Cancel \/ AddCheck \/ SetTrust \/ Save \/ Refresh \/ OtherPeople
  PROVE  EditorInv'
<1>1. CASE Cancel
  BY <1>1, Closes DEF Cancel, EditorInv
<1>2. CASE AddCheck
  <2>1. PICK c : edit' = [edit EXCEPT !.added = @ \cup {c}]
    BY <1>2 DEF AddCheck
  <2>2. DOMAIN edit' = EditFields /\ edit'.open = edit.open /\ edit'.section = edit.section
    BY <2>1 DEF EditorInv, EditFields
  <2> QED BY <1>2, <2>2, SameForm DEF AddCheck
<1>3. CASE SetTrust
  <2>1. \E trust : edit' = [edit EXCEPT !.trust = trust]
    <3>1. CASE edit' = [edit EXCEPT !.trust.verify = ~@]
      BY <3>1
    <3>2. CASE edit' = [edit EXCEPT !.trust.public = ~@]
      BY <3>2
    <3>3. CASE edit' = [edit EXCEPT !.trust.store = ~@]
      BY <3>3
    <3> QED BY <1>3, <3>1, <3>2, <3>3 DEF SetTrust
  <2>2. DOMAIN edit' = EditFields /\ edit'.open = edit.open /\ edit'.section = edit.section
    BY <2>1 DEF EditorInv, EditFields
  <2> QED BY <1>3, <2>2, SameForm DEF SetTrust
<1>4. CASE Save
  <2>1. CASE edit' = NoForm /\ ticked' = << >> /\ latest' = edit.section /\ known' \in {known, latest'}
    <3>1. SectionOK(edit.section) /\ SectionOK(known)
      BY <1>4 DEF Save, EditorInv
    <3>2. SectionOK(latest') /\ SectionOK(known')
      BY <2>1, <3>1
    <3> QED BY <2>1, <3>2, Closes
  <2>2. CASE UNCHANGED <<latest, known, edit, ticked>>
    BY <2>2, SameForm DEF EditorInv
  <2> QED BY <1>4, <2>1, <2>2 DEF Save
<1>5. CASE Refresh
  BY <1>5 DEF Refresh, EditorInv
<1>6. CASE OtherPeople
  <2>1. SectionOK(latest')
    BY <1>6, StoredOK DEF OtherPeople, EditorInv
  <2> QED BY <1>6, <2>1 DEF OtherPeople, EditorInv
<1> QED BY <1>1, <1>2, <1>3, <1>4, <1>5, <1>6
-----------------------------------------------------------------------------
(* The editor: theorems. *)

LEMMA EditorInitOK == EditorInit => EditorInv
<1> SUFFICES ASSUME EditorInit PROVE EditorInv
  OBVIOUS
<1>1. SectionOK(latest) /\ SectionOK(known)
  BY StoredOK DEF EditorInit
<1>2. edit = NoForm /\ ticked = << >> /\ DOMAIN << >> = {}
  BY DEF EditorInit
<1>3. DOMAIN edit = EditFields /\ ~edit.open
  BY <1>2 DEF NoForm, Form, EditFields
<1> QED BY <1>1, <1>2, <1>3 DEF EditorInv

LEMMA EditorStep == EditorInv /\ [EditorNext]_editorVars => EditorInv'
<1> SUFFICES ASSUME EditorInv, [EditorNext]_editorVars PROVE EditorInv'
  OBVIOUS
<1>1. CASE UNCHANGED editorVars
  BY <1>1 DEF editorVars, EditorInv
<1> QED BY <1>1, OpenFormKeeps, ToggleKeeps, SetOptionKeeps, EditorRestKeeps DEF EditorNext

\* tlsChecks.ts, config.py: in every reachable state the versions and the open
\* form have sections of the catalogue's checks whose entries the engine takes,
\* and the form's section says of each check what the person left it as.
THEOREM EditorInvariant == EditorSpec => []EditorInv
BY EditorInitOK, EditorStep, PTL DEF EditorSpec

\* tlsChecks.ts, config.py: what the form shows as ticked the engine selects, and
\* nothing it has touched otherwise, after any clicks and keys in any order.
THEOREM TickedAreSelected == EditorSpec => []TickedIsSelected
<1>1. EditorInv => TickedIsSelected
  BY DEF EditorInv, TickedIsSelected, SectionOK, EntryOK, ValidSection, Selected, LeftAs
<1> QED BY <1>1, EditorInvariant, PTL
-----------------------------------------------------------------------------
(* The wizard of the discoveries: a selection and the bulk that fills it. *)

WizardFields ==
  {"open", "step", "ready", "job", "status", "timer", "starts", "asks", "loads", "typed", "filter", "items",
   "offset", "box", "covered", "selection", "bulk", "scan", "group", "chosen", "dry", "plan", "report", "applying", "busy"}
BulkFields == {"filter", "start", "add", "covered", "picked"}

\* A row on the screen is one of those found, whose place in the inventory may
\* have changed for that of a name with a target of its own; whether it is
\* scanned, it says of the moment it was read.
Targets(i) == Found[i].matches \cup (IF Found[i].inv = "NEW" THEN {"add", Found[i].name} ELSE {})
RowOK(r) ==
  \E i \in DOMAIN Found :
    /\ r.name = Found[i].name /\ Found[i].traits \subseteq r.traits
    /\ InScope(r) => InScope(Found[i])
    /\ r.inv = "NEW" => Found[i].inv = "NEW"
    /\ r.matches \subseteq Targets(i)

\* A choice in a selection, given what was done by hand.
ChoiceOK(n, c, g) ==
  \E i \in DOMAIN Found :
    /\ Found[i].name = n /\ InScope(Found[i]) /\ c \in Targets(i)
    /\ "doubt" \in Found[i].traits => n \in g.hand
    /\ n \in g.hand \/ g.covered \/ n \in g.free
SelectionOK(sel, g) == \A n \in DOMAIN sel : ChoiceOK(n, sel[n], g)
BulkOK(b, g) == /\ DOMAIN b = BulkFields /\ SelectionOK(b.picked, g)
                /\ b.covered => g.covered

WizardOK(wiz, g) ==
  /\ DOMAIN wiz = WizardFields
  /\ SelectionOK(wiz.selection, g)
  /\ \A b \in wiz.bulk : BulkOK(b, g)
  /\ \A r \in wiz.items : RowOK(r)
  /\ wiz.covered => g.covered
WizardInv == DOMAIN ghost = {"hand", "covered", "free"} /\ WizardOK(w, ghost)

\* What is not scanned now was not at some time since the wizard was opened.
FreeInv == /\ DOMAIN server = {"jobs", "known", "scanned"}
           /\ Names \ server.scanned \subseteq ghost.free
-----------------------------------------------------------------------------
(* Rows, choices and selections. *)

LEMMA FoundRow == \A i \in DOMAIN Found : Found[i] \in Observation
BY FoundAssumption

LEMMA ComparedOK == \A i \in DOMAIN Found : RowOK(Compared(i))
<1> TAKE i \in DOMAIN Found
<1>1. Found[i] \in Observation
  BY FoundRow
<1> DEFINE r == Compared(i)
<1>2. /\ r.name = Found[i].name /\ Found[i].traits \subseteq r.traits
      /\ r.inv = IF Found[i].inv = "NEW" /\ Found[i].name \in server.known THEN "EXISTING" ELSE Found[i].inv
      /\ r.matches = IF Found[i].inv = "NEW" /\ Found[i].name \in server.known
                     THEN {Found[i].name} ELSE Found[i].matches
  BY DEF Compared
<1>3. Found[i].inv \in Inventory /\ InScope(r) => InScope(Found[i])
  BY <1>2 DEF InScope
<1>4. r.inv = "NEW" => Found[i].inv = "NEW"
  BY <1>2
<1>5. r.matches \subseteq Targets(i)
  BY <1>2 DEF Targets
<1> HIDE DEF r
<1> QED BY <1>1, <1>2, <1>3, <1>4, <1>5 DEF RowOK, Observation, r

\* A row that says that nothing scans its name is of a name nothing scans.
LEMMA ComparedFree ==
  \A i \in DOMAIN Found :
    "scanned" \in Compared(i).traits \/ Compared(i).name \in Names \ server.scanned
BY DEF Compared, Names

\* What a page holds are rows of this moment.
LEMMA PageOK ==
  ASSUME NEW filter, NEW first, NEW size
  PROVE  \A r \in RowsOf(PlacesFor(filter), first, size) : RowOK(r)
BY ComparedOK DEF RowsOf, PlacesFor

LEMMA PageFree ==
  ASSUME FreeInv, NEW filter, NEW first, NEW size
  PROVE  \A r \in RowsOf(PlacesFor(filter), first, size) : "scanned" \in r.traits \/ r.name \in ghost.free
BY ComparedFree DEF RowsOf, PlacesFor, FreeInv

\* A choice for a row is one that its name allows.
LEMMA RowChoice ==
  ASSUME NEW r, RowOK(r), InScope(r), NEW c, NEW g, c \in choiceFor(r) \cup r.matches,
         "doubt" \in r.traits => r.name \in g.hand,
         r.name \in g.hand \/ g.covered \/ r.name \in g.free
  PROVE  ChoiceOK(r.name, c, g)
<1>1. PICK i \in DOMAIN Found :
        /\ r.name = Found[i].name /\ Found[i].traits \subseteq r.traits
        /\ InScope(r) => InScope(Found[i])
        /\ r.inv = "NEW" => Found[i].inv = "NEW"
        /\ r.matches \subseteq Targets(i)
  BY DEF RowOK
<1>2. c \in Targets(i)
  BY <1>1 DEF choiceFor, Targets
<1> QED BY <1>1, <1>2 DEF ChoiceOK

LEMMA ChoiceInScope == \A r : choiceFor(r) # {} => InScope(r)
BY DEF choiceFor, InScope

\* What was done by hand stays done.
Grows(g, h) == /\ g.hand \subseteq h.hand /\ (g.covered => h.covered)
               /\ g.free \subseteq h.free
LEMMA SelectionGrows ==
  ASSUME NEW sel, NEW g, NEW h, Grows(g, h), SelectionOK(sel, g)
  PROVE  SelectionOK(sel, h)
BY DEF Grows, SelectionOK, ChoiceOK

LEMMA WizardGrows ==
  ASSUME NEW wiz, NEW g, NEW h, Grows(g, h), WizardOK(wiz, g)
  PROVE  WizardOK(wiz, h)
<1>1. SelectionOK(wiz.selection, h)
  BY SelectionGrows DEF WizardOK
<1>2. \A b \in wiz.bulk : BulkOK(b, h)
  BY SelectionGrows DEF WizardOK, BulkOK, Grows
<1> QED BY <1>1, <1>2 DEF WizardOK, Grows

LEMMA DroppedOK ==
  ASSUME NEW sel, NEW g, NEW n, SelectionOK(sel, g)
  PROVE  SelectionOK(Dropped(sel, n), g)
BY DEF SelectionOK, Dropped

LEMMA ChosenOK ==
  ASSUME NEW sel, NEW g, NEW n, NEW choices, SelectionOK(sel, g), \A c \in choices : ChoiceOK(n, c, g)
  PROVE  SelectionOK(WithChoice(sel, n, choices), g)
<1>1. CASE choices = {}
  BY <1>1, DroppedOK DEF WithChoice
<1>2. CASE choices # {}
  <2>1. (CHOOSE c \in choices : TRUE) \in choices
    BY <1>2
  <2> QED BY <1>2, <2>1 DEF WithChoice, SelectionOK
<1> QED BY <1>1, <1>2

LEMMA AllChosenOK ==
  ASSUME NEW sel, NEW g, NEW rows, SelectionOK(sel, g),
         \A r \in rows : choiceFor(r) # {} /\ \A c \in choiceFor(r) : ChoiceOK(r.name, c, g)
  PROVE  SelectionOK(AllChosen(sel, rows), g)
<1> DEFINE choices(n) == UNION {choiceFor(r) : r \in {q \in rows : q.name = n}}
           new == AllChosen(sel, rows)
<1>1. DOMAIN new = DOMAIN sel \cup {r.name : r \in rows}
  BY DEF AllChosen
<1>2. SUFFICES ASSUME NEW n \in DOMAIN new PROVE ChoiceOK(n, new[n], g)
  BY DEF SelectionOK
<1>3. new[n] = IF choices(n) = {} THEN sel[n] ELSE CHOOSE c \in choices(n) : TRUE
  BY <1>1, <1>2 DEF AllChosen
<1>4. CASE choices(n) = {}
  <2>1. n \notin {r.name : r \in rows}
    BY <1>4
  <2> QED BY <2>1, <1>1, <1>2, <1>3, <1>4 DEF SelectionOK
<1>5. CASE choices(n) # {}
  <2>1. (CHOOSE c \in choices(n) : TRUE) \in choices(n)
    BY <1>5
  <2>2. new[n] \in choices(n)
    BY <2>1, <1>3, <1>5
  <2> QED BY <2>2
<1> QED BY <1>4, <1>5
-----------------------------------------------------------------------------
(* The steps of the wizard. *)

\* A step that leaves the selection, the rows and the bulk selections alone.
Keeps(wiz) ==
  /\ DOMAIN wiz = WizardFields /\ wiz.selection = w.selection /\ wiz.bulk = w.bulk
  /\ wiz.items = w.items /\ (wiz.covered => w.covered)
LEMMA KeepsStep ==
  ASSUME WizardInv, NEW wiz, Keeps(wiz)
  PROVE  WizardOK(wiz, ghost)
BY DEF WizardInv, WizardOK, Keeps

LEMMA NewWizardOK == \A g : WizardOK(NewWizard, g)
BY DEF WizardOK, NewWizard, WizardFields, SelectionOK

\* An answer about the job changes what is followed, not what is chosen.
LEMMA WithJobKeeps ==
  ASSUME NEW wiz, DOMAIN wiz = WizardFields, NEW j, NEW step
  PROVE  /\ DOMAIN WithJob(wiz, j, step) = WizardFields
         /\ WithJob(wiz, j, step).selection = wiz.selection
         /\ WithJob(wiz, j, step).bulk = wiz.bulk
         /\ WithJob(wiz, j, step).items = wiz.items
         /\ WithJob(wiz, j, step).covered = wiz.covered
BY DEF WithJob, WizardFields

LEMMA ReplanKeeps ==
  ASSUME NEW wiz, DOMAIN wiz = WizardFields
  PROVE  /\ DOMAIN Replan(wiz) = WizardFields
         /\ Replan(wiz).selection = wiz.selection /\ Replan(wiz).bulk = wiz.bulk
         /\ Replan(wiz).items = wiz.items /\ Replan(wiz).covered = wiz.covered
BY DEF Replan, WizardFields

LEMMA ToReviewKeeps ==
  ASSUME NEW wiz, DOMAIN wiz = WizardFields
  PROVE  /\ DOMAIN ToReview(wiz) = WizardFields
         /\ ToReview(wiz).selection = wiz.selection /\ ToReview(wiz).bulk = wiz.bulk
         /\ ToReview(wiz).items = wiz.items /\ ToReview(wiz).covered = wiz.covered
<1> DEFINE new == [wiz EXCEPT !.plan = "none", !.report = FALSE, !.step = "review"]
<1>1. /\ DOMAIN new = WizardFields /\ new.selection = wiz.selection /\ new.bulk = wiz.bulk
      /\ new.items = wiz.items /\ new.covered = wiz.covered
  BY DEF WizardFields
<1>2. ToReview(wiz) = Replan(new)
  BY DEF ToReview
<1> HIDE DEF new
<1> QED BY <1>1, <1>2, ReplanKeeps

\* Another selection, of choices that are allowed.
LEMMA SelectsOK ==
  ASSUME WizardInv, NEW sel, NEW g, Grows(ghost, g), SelectionOK(sel, g)
  PROVE  WizardOK(Selects(sel), g)
<1> DEFINE new == [w EXCEPT !.selection = sel]
<1>1. /\ DOMAIN new = WizardFields /\ new.selection = sel /\ new.bulk = w.bulk
      /\ new.items = w.items /\ new.covered = w.covered
  BY DEF WizardInv, WizardOK, WizardFields
<1>2. Selects(sel) = Replan(new)
  BY DEF Selects
<1>3. WizardOK(w, g)
  BY WizardGrows DEF WizardInv
<1> HIDE DEF new
<1> QED BY <1>1, <1>2, <1>3, ReplanKeeps DEF WizardOK

\* Everything that only moves the wizard between its steps, or sends and waits.
LEMMA QuietSteps ==
  ASSUME WizardInv,
         \/ OthersAdd \/ JobGoesOn \/ Configure \/ start \/ Started \/ PollJob \/ JobPolled \/ cancel
         \/ setFilter \/ FilterTimer \/ TurnPage \/ OpenReview \/ Back \/ editReview \/ chooseScanMode
         \/ DryTimer \/ Planned \/ applyNow \/ Imported \/ UNCHANGED wizardVars
  PROVE  WizardInv'
<1>1. DOMAIN w = WizardFields
  BY DEF WizardInv, WizardOK
<1> SUFFICES Keeps(w') /\ ghost' = ghost
  BY KeepsStep DEF WizardInv
<1>2. CASE OthersAdd \/ JobGoesOn \/ UNCHANGED wizardVars
  BY <1>1, <1>2 DEF OthersAdd, JobGoesOn, wizardVars, Keeps
<1>3. CASE Configure \/ start \/ PollJob \/ cancel \/ setFilter \/ FilterTimer \/ Back
  BY <1>1, <1>3 DEF Configure, start, PollJob, cancel, setFilter, FilterTimer, Back, Renders, Keeps, WizardFields
<1>4. CASE Started
  BY <1>1, <1>4 DEF Started, Renders, Keeps, WizardFields
<1>5. CASE JobPolled
  <2> PICK j \in w.asks : LET told == [w EXCEPT !.asks = @ \ {j}]
                          IN Renders(told) \/ Renders(WithJob(told, j, w.step))
    BY <1>5 DEF JobPolled
  <2> DEFINE told == [w EXCEPT !.asks = @ \ {j}]
  <2>1. /\ DOMAIN told = WizardFields /\ told.selection = w.selection /\ told.bulk = w.bulk
        /\ told.items = w.items /\ told.covered = w.covered
    BY <1>1 DEF WizardFields
  <2>2. w' = told \/ w' = WithJob(told, j, w.step)
    BY DEF Renders
  <2>3. ghost' = ghost
    BY <1>5 DEF JobPolled
  <2> HIDE DEF told
  <2> QED BY <2>1, <2>2, <2>3, WithJobKeeps DEF Keeps
<1>6. CASE TurnPage
  BY <1>1, <1>6 DEF TurnPage, Renders, Keeps, WizardFields
<1>7. CASE OpenReview
  BY <1>1, <1>7, ToReviewKeeps DEF OpenReview, Renders, Keeps
<1>8. CASE editReview
  <2> PICK g : w' = Replan([w EXCEPT !.group = g]) /\ ghost' = ghost
    BY <1>8 DEF editReview, Renders
  <2> DEFINE new == [w EXCEPT !.group = g]
  <2>1. /\ DOMAIN new = WizardFields /\ new.selection = w.selection /\ new.bulk = w.bulk
        /\ new.items = w.items /\ new.covered = w.covered
    BY <1>1 DEF WizardFields
  <2> HIDE DEF new
  <2> QED BY <2>1, ReplanKeeps DEF Keeps, new
<1>9. CASE chooseScanMode
  <2> PICK m, filled : /\ w' = Replan([w EXCEPT !.scan = m, !.chosen = filled,
                                   !.group = IF m # "none" /\ @ = "none" THEN "default" ELSE @])
                       /\ ghost' = ghost
    BY <1>9 DEF chooseScanMode, Renders
  <2> DEFINE new == [w EXCEPT !.scan = m, !.chosen = filled,
                              !.group = IF m # "none" /\ @ = "none" THEN "default" ELSE @]
  <2>1. /\ DOMAIN new = WizardFields /\ new.selection = w.selection /\ new.bulk = w.bulk
        /\ new.items = w.items /\ new.covered = w.covered
    BY <1>1 DEF WizardFields
  <2>2. w' = Replan(new)
    OBVIOUS
  <2> HIDE DEF new
  <2> QED BY <2>1, <2>2, ReplanKeeps DEF Keeps
<1>10. CASE DryTimer \/ Planned \/ applyNow
  BY <1>1, <1>10 DEF DryTimer, Planned, applyNow, Renders, Keeps, WizardFields
<1>11. CASE Imported
  BY <1>1, <1>11 DEF Imported, Renders, Keeps, WizardFields
<1> QED BY <1>2, <1>3, <1>4, <1>5, <1>6, <1>7, <1>8, <1>9, <1>10, <1>11

\* What others scan meanwhile, or no longer do, is no matter of the person's.
LEMMA ScanStep == ASSUME WizardInv, OthersScan PROVE WizardInv'
<1>1. DOMAIN ghost' = {"hand", "covered", "free"} /\ Grows(ghost, ghost') /\ w' = w
  BY DEF OthersScan, WizardInv, Grows
<1> QED BY <1>1, WizardGrows DEF WizardInv

\* The rows of an answer replace those on the screen.
LEMMA LoadStep == ASSUME WizardInv, loadResults PROVE WizardInv'
<1>1. DOMAIN w = WizardFields /\ ghost' = ghost
  BY DEF WizardInv, WizardOK, loadResults
<1>2. PICK l \in w.loads : LET told == [w EXCEPT !.loads = @ \ {l}] IN
        \/ Renders(told)
        \/ Renders([told EXCEPT !.items = RowsOf(PlacesFor(l.filter), l.offset, PAGE), !.offset = l.offset,
                             !.box = server.scanned # {}])
  BY DEF loadResults
<1> DEFINE rows == RowsOf(PlacesFor(l.filter), l.offset, PAGE)
<1>3. \A r \in rows : RowOK(r)
  BY PageOK
<1> HIDE DEF rows
<1>4. /\ DOMAIN w' = WizardFields /\ w'.selection = w.selection /\ w'.bulk = w.bulk
      /\ w'.items \in {w.items, rows} /\ w'.covered = w.covered
  BY <1>1, <1>2 DEF Renders, WizardFields, rows
<1>5. WizardOK(w', ghost)
  BY <1>3, <1>4 DEF WizardInv, WizardOK
<1> QED BY <1>1, <1>5 DEF WizardInv

\* What a person chooses is recorded as his.
LEMMA HandGrows ==
  ASSUME WizardInv, NEW n, ByHand({n})
  PROVE  DOMAIN ghost' = {"hand", "covered", "free"} /\ Grows(ghost, ghost') /\ n \in ghost'.hand
BY DEF WizardInv, ByHand, Grows

LEMMA ToggleStep == ASSUME WizardInv, toggle PROVE WizardInv'
<1>1. PICK item \in w.items :
        /\ InScope(item)
        /\ \/ /\ Renders(Selects(Dropped(w.selection, item.name))) /\ UNCHANGED ghost
           \/ /\ Renders(Selects(WithChoice(w.selection, item.name, choiceFor(item)))) /\ ByHand({item.name})
  BY DEF toggle
<1>2. RowOK(item) /\ SelectionOK(w.selection, ghost)
  BY DEF WizardInv, WizardOK
<1>3. CASE Renders(Selects(Dropped(w.selection, item.name))) /\ UNCHANGED ghost
  <2>1. SelectionOK(Dropped(w.selection, item.name), ghost)
    BY <1>2, DroppedOK
  <2>2. WizardOK(Selects(Dropped(w.selection, item.name)), ghost)
    BY <2>1, SelectsOK DEF Grows
  <2> QED BY <1>3, <2>2 DEF WizardInv, Renders
<1>4. CASE Renders(Selects(WithChoice(w.selection, item.name, choiceFor(item)))) /\ ByHand({item.name})
  <2>1. DOMAIN ghost' = {"hand", "covered", "free"} /\ Grows(ghost, ghost') /\ item.name \in ghost'.hand
    BY <1>4, HandGrows
  <2>2. \A c \in choiceFor(item) : ChoiceOK(item.name, c, ghost')
    BY <1>1, <1>2, <2>1, RowChoice
  <2>3. SelectionOK(WithChoice(w.selection, item.name, choiceFor(item)), ghost')
    BY <1>2, <2>1, <2>2, SelectionGrows, ChosenOK
  <2>4. WizardOK(Selects(WithChoice(w.selection, item.name, choiceFor(item))), ghost')
    BY <2>1, <2>3, SelectsOK
  <2> QED BY <1>4, <2>1, <2>4 DEF WizardInv, Renders
<1> QED BY <1>1, <1>3, <1>4

LEMMA PickTargetStep == ASSUME WizardInv, pickTarget PROVE WizardInv'
<1>1. PICK item \in w.items :
        /\ InScope(item) /\ ByHand({item.name})
        /\ \E c \in {{}} \cup {{m} : m \in item.matches} : Renders(Selects(WithChoice(w.selection, item.name, c)))
  BY DEF pickTarget
<1>2. PICK c \in {{}} \cup {{m} : m \in item.matches} : Renders(Selects(WithChoice(w.selection, item.name, c)))
  BY <1>1
<1>3. RowOK(item) /\ SelectionOK(w.selection, ghost)
  BY DEF WizardInv, WizardOK
<1>4. DOMAIN ghost' = {"hand", "covered", "free"} /\ Grows(ghost, ghost') /\ item.name \in ghost'.hand
  BY <1>1, HandGrows
<1>5. \A m \in c : ChoiceOK(item.name, m, ghost')
  BY <1>1, <1>3, <1>4, RowChoice
<1>6. SelectionOK(WithChoice(w.selection, item.name, c), ghost')
  BY <1>3, <1>4, <1>5, SelectionGrows, ChosenOK
<1>7. WizardOK(Selects(WithChoice(w.selection, item.name, c)), ghost')
  BY <1>4, <1>6, SelectsOK
<1> QED BY <1>2, <1>4, <1>7 DEF WizardInv, Renders

LEMMA SelectNoneStep == ASSUME WizardInv, SelectNone PROVE WizardInv'
<1>1. SelectionOK(<< >>, ghost) /\ Grows(ghost, ghost)
  BY DEF SelectionOK, Grows
<1>2. WizardOK(Selects(<< >>), ghost)
  BY <1>1, SelectsOK
<1> QED BY <1>2 DEF SelectNone, Renders, WizardInv

LEMMA CoveredStep == ASSUME WizardInv, IncludeCovered PROVE WizardInv'
<1>1. /\ DOMAIN ghost' = {"hand", "covered", "free"} /\ Grows(ghost, ghost') /\ ghost'.covered
  BY DEF IncludeCovered, WizardInv, Grows
<1>2. WizardOK(w, ghost')
  BY <1>1, WizardGrows DEF WizardInv
<1>3. /\ DOMAIN w' = WizardFields /\ w'.selection = w.selection /\ w'.bulk = w.bulk /\ w'.items = w.items
  BY <1>2 DEF IncludeCovered, Renders, WizardOK, WizardFields
<1> QED BY <1>1, <1>2, <1>3 DEF WizardInv, WizardOK

\* A bulk selection begins with what is selected, or with nothing.
LEMMA SelectWhereStep == ASSUME WizardInv, selectWhere PROVE WizardInv'
<1>1. PICK f \in {w.filter, "NEW", "ENRICHABLE"}, add \in BOOLEAN :
        Renders([w EXCEPT !.bulk = @ \cup {[filter |-> f, start |-> 0, add |-> add, covered |-> w.covered,
                                             picked |-> IF add THEN << >> ELSE w.selection]}])
  BY DEF selectWhere
<1> DEFINE sel == IF add THEN << >> ELSE w.selection
           b == [filter |-> f, start |-> 0, add |-> add, covered |-> w.covered, picked |-> sel]
<1>2. SelectionOK(sel, ghost)
  BY DEF SelectionOK, WizardInv, WizardOK
<1>3. DOMAIN b = BulkFields /\ b.picked = sel /\ b.covered = w.covered
  BY DEF BulkFields
<1> HIDE DEF sel
<1>4. w' = [w EXCEPT !.bulk = @ \cup {b}] /\ ghost' = ghost
  BY <1>1 DEF selectWhere, Renders, sel
<1> HIDE DEF b
<1>5. BulkOK(b, ghost)
  BY <1>2, <1>3 DEF BulkOK, WizardInv, WizardOK
<1>6. /\ DOMAIN w' = WizardFields /\ w'.selection = w.selection /\ w'.bulk = w.bulk \cup {b}
      /\ w'.items = w.items /\ w'.covered = w.covered
  BY <1>4 DEF WizardInv, WizardOK, WizardFields
<1> QED BY <1>4, <1>5, <1>6 DEF WizardInv, WizardOK

\* What a page adds to a bulk selection is not doubtful, and was not scanned
\* unless that was asked for.
LEMMA PickedOK ==
  ASSUME WizardInv, FreeInv, NEW b \in w.bulk, NEW size
  PROVE  SelectionOK(AllChosen(b.picked, {r \in RowsOf(PlacesFor(b.filter), b.start, size) : Picks(r, b.covered)}),
                     ghost)
<1> DEFINE rows == {r \in RowsOf(PlacesFor(b.filter), b.start, size) : Picks(r, b.covered)}
<1>1. BulkOK(b, ghost)
  BY DEF WizardInv, WizardOK
<1>2. ASSUME NEW r \in rows
      PROVE  choiceFor(r) # {} /\ \A c \in choiceFor(r) : ChoiceOK(r.name, c, ghost)
  <2>1. RowOK(r)
    BY PageOK
  <2>2. /\ choiceFor(r) # {} /\ "doubt" \notin r.traits
        /\ b.covered \/ "scanned" \notin r.traits
    BY DEF Picks
  <2>3. InScope(r)
    BY <2>2, ChoiceInScope
  <2>4. ghost.covered \/ r.name \in ghost.free
    BY <1>1, <2>2, PageFree DEF BulkOK
  <2> HIDE DEF rows
  <2> QED BY <2>1, <2>2, <2>3, <2>4, RowChoice
<1>3. SelectionOK(b.picked, ghost)
  BY <1>1 DEF BulkOK
<1> HIDE DEF rows
<1> QED BY <1>2, <1>3, AllChosenOK DEF rows

LEMMA BulkPageStep == ASSUME WizardInv, FreeInv, BulkPage PROVE WizardInv'
<1>1. PICK b \in w.bulk :
       LET places == PlacesFor(b.filter)
           picked == AllChosen(b.picked, {r \in RowsOf(places, b.start, BULK) : Picks(r, b.covered)})
           others == w.bulk \ {b}
           over == [Selects(picked) EXCEPT !.bulk = others]
       IN \/ Renders([w EXCEPT !.bulk = others])
          \/ Renders([w EXCEPT !.bulk = others \cup {[b EXCEPT !.start = @ + BULK, !.picked = picked]}])
          \/ Renders(over)
          \/ Renders(ToReview(over))
  BY DEF BulkPage
<1> DEFINE picked == AllChosen(b.picked, {r \in RowsOf(PlacesFor(b.filter), b.start, BULK) : Picks(r, b.covered)})
           others == w.bulk \ {b}
           next == [b EXCEPT !.start = @ + BULK, !.picked = picked]
           over == [Selects(picked) EXCEPT !.bulk = others]
<1>2. SelectionOK(picked, ghost)
  BY PickedOK
<1> HIDE DEF picked
<1>3. \/ w' = [w EXCEPT !.bulk = others]
      \/ w' = [w EXCEPT !.bulk = others \cup {next}]
      \/ w' = over
      \/ w' = ToReview(over)
  BY <1>1 DEF Renders, picked
<1>4. ghost' = ghost /\ Grows(ghost, ghost) /\ WizardOK(w, ghost)
  BY DEF BulkPage, Grows, WizardInv
<1>5. BulkOK(next, ghost)
  <2>1. BulkOK(b, ghost)
    BY <1>4 DEF WizardOK
  <2>2. DOMAIN next = BulkFields /\ next.picked = picked /\ next.covered = b.covered
    BY <2>1 DEF BulkOK, BulkFields
  <2> HIDE DEF next
  <2> QED BY <1>2, <2>1, <2>2 DEF BulkOK
<1>6. WizardOK(over, ghost)
  <2>1. WizardOK(Selects(picked), ghost) /\ Selects(picked).bulk = w.bulk
    <3>1. DOMAIN [w EXCEPT !.selection = picked] = WizardFields /\ [w EXCEPT !.selection = picked].bulk = w.bulk
      BY <1>4 DEF WizardOK, WizardFields
    <3> QED BY <1>2, <1>4, <3>1, SelectsOK, ReplanKeeps DEF Selects
  <2> DEFINE new == Selects(picked)
  <2> HIDE DEF new
  <2>2. /\ DOMAIN over = WizardFields /\ over.selection = new.selection /\ over.bulk = others
        /\ over.items = new.items /\ over.covered = new.covered
    BY <2>1 DEF WizardOK, WizardFields, new
  <2> HIDE DEF over
  <2> QED BY <1>4, <2>1, <2>2 DEF WizardOK, new
<1>7. WizardOK(ToReview(over), ghost)
  <2> HIDE DEF over
  <2> QED BY <1>6, ToReviewKeeps DEF WizardOK
<1> HIDE DEF next, over
<1>8. CASE w' = [w EXCEPT !.bulk = others] \/ w' = [w EXCEPT !.bulk = others \cup {next}]
  <2>1. /\ DOMAIN w' = WizardFields /\ w'.selection = w.selection /\ w'.bulk \subseteq others \cup {next}
        /\ w'.items = w.items /\ w'.covered = w.covered
    BY <1>4, <1>8 DEF WizardOK, WizardFields
  <2>2. WizardOK(w', ghost)
    BY <1>4, <1>5, <2>1 DEF WizardOK
  <2> QED BY <1>4, <2>2 DEF WizardInv
<1> QED BY <1>3, <1>4, <1>6, <1>7, <1>8 DEF WizardInv

\* A wizard that is closed or opened begins with nothing selected.
LEMMA MountSteps == ASSUME WizardInv, resume \/ Close PROVE WizardInv'
<1>1. CASE resume
  <2>1. DOMAIN ghost' = {"hand", "covered", "free"}
    BY <1>1 DEF resume, JustOpened
  <2>2. w' = NewWizard \/ \E j \in DOMAIN server.jobs : w' = WithJob(NewWizard, j, "run")
    BY <1>1 DEF resume, Renders
  <2>3. WizardOK(NewWizard, ghost')
    BY NewWizardOK
  <2>4. ASSUME NEW j PROVE WizardOK(WithJob(NewWizard, j, "run"), ghost')
    BY <2>3, WithJobKeeps DEF WizardOK
  <2> QED BY <2>1, <2>2, <2>3, <2>4 DEF WizardInv
<1>2. CASE Close
  <2>1. w' = [NewWizard EXCEPT !.open = FALSE] /\ ghost' = ghost
    BY <1>2 DEF Close
  <2>2. /\ DOMAIN NewWizard = WizardFields /\ NewWizard.selection = << >> /\ NewWizard.bulk = {}
        /\ NewWizard.items = {} /\ ~NewWizard.covered
    BY DEF NewWizard, WizardFields
  <2>3. /\ DOMAIN w' = WizardFields /\ w'.selection = << >> /\ w'.bulk = {}
        /\ w'.items = {} /\ ~w'.covered
    BY <2>1, <2>2 DEF WizardFields
  <2> QED BY <2>1, <2>3 DEF WizardInv, WizardOK, SelectionOK
<1> QED BY <1>1, <1>2

\* Only others make a name free, which is noted, and an import only scans more.
LEMMA FreeStep == ASSUME FreeInv, WizardInv, [WizardNext]_wizardVars PROVE FreeInv'
<1>1. CASE OthersScan
  BY <1>1 DEF OthersScan, FreeInv, WizardInv
<1>2. CASE resume
  <2>1. server' = server /\ ghost' = JustOpened
    BY <1>2 DEF resume, Renders
  <2> QED BY <2>1 DEF JustOpened, FreeInv
<1>3. ASSUME server' \in AfterImport, ghost' = ghost PROVE FreeInv'
  <2> DEFINE added(a) == {n \in DOMAIN a.names : a.names[n] = "add"}
             S(a) == IF a.scan = "none" THEN {{}} ELSE {added(a) \ server.known, DOMAIN a.names}
             After(a) == {[server EXCEPT !.known = @ \cup added(a), !.scanned = @ \cup s] : s \in S(a)}
  <2>0. PICK a \in w.applying : server' \in After(a)
    BY <1>3 DEF AfterImport
  <2>1. PICK s \in S(a) : server' = [server EXCEPT !.known = @ \cup added(a), !.scanned = @ \cup s]
    BY <2>0
  <2> HIDE DEF added, S, After
  <2> QED BY <2>1, <1>3 DEF FreeInv
<1>4. CASE Imported \/ Close
  <2>1. ghost' = ghost
    BY <1>4 DEF Imported, Close
  <2>2. \/ server' = server \/ server' \in AfterImport
        \/ server' = [server EXCEPT !.jobs = Append(@, "queued")]
    BY <1>4 DEF Imported, Close, Renders
  <2> QED BY <1>3, <2>1, <2>2 DEF FreeInv
<1>5. CASE OthersAdd \/ JobGoesOn \/ Started
  BY <1>5 DEF OthersAdd, JobGoesOn, Started, Renders, FreeInv
<1>6. CASE server' = server /\ ghost' = ghost
  BY <1>6 DEF FreeInv
<1>7. CASE \/ Configure \/ start \/ PollJob \/ JobPolled \/ cancel \/ setFilter \/ FilterTimer \/ TurnPage
           \/ loadResults \/ SelectNone \/ selectWhere \/ BulkPage \/ OpenReview \/ Back \/ editReview
           \/ chooseScanMode \/ DryTimer \/ Planned \/ applyNow \/ UNCHANGED wizardVars
  <2>1. ghost' = ghost
    BY <1>7 DEF Configure, start, PollJob, JobPolled, cancel, setFilter, FilterTimer, TurnPage, loadResults,
       SelectNone, selectWhere, BulkPage, OpenReview, Back, editReview, chooseScanMode, DryTimer, Planned,
       applyNow, wizardVars
  <2>2. server' = server
    BY <1>7 DEF Configure, start, PollJob, JobPolled, cancel, setFilter, FilterTimer, TurnPage, loadResults,
       SelectNone, selectWhere, BulkPage, OpenReview, Back, editReview, chooseScanMode, DryTimer, Planned,
       applyNow, wizardVars, Renders
  <2> QED BY <1>6, <2>1, <2>2
<1>8. CASE toggle \/ pickTarget \/ IncludeCovered
  <2>1. server' = server
    BY <1>8 DEF toggle, pickTarget, IncludeCovered, Renders
  <2>2. ghost'.free = ghost.free
    BY <1>8 DEF toggle, pickTarget, IncludeCovered, ByHand, WizardInv
  <2> QED BY <2>1, <2>2 DEF FreeInv
<1> QED BY <1>1, <1>2, <1>4, <1>5, <1>7, <1>8 DEF WizardNext

LEMMA WizardInitOK == ASSUME WizardInit PROVE FreeInv /\ WizardInv
<1>1. DOMAIN server = {"jobs", "known", "scanned"} /\ w = NewWizard /\ ghost = JustOpened
  BY DEF WizardInit
<1>2. DOMAIN ghost = {"hand", "covered", "free"} /\ ghost.free = Names \ server.scanned
  BY <1>1 DEF JustOpened
<1> QED BY <1>1, <1>2, NewWizardOK DEF FreeInv, WizardInv

LEMMA WizardStep == ASSUME FreeInv, WizardInv, [WizardNext]_wizardVars PROVE WizardInv'
BY QuietSteps, ScanStep, LoadStep, ToggleStep, PickTargetStep, SelectNoneStep, CoveredStep, SelectWhereStep,
   BulkPageStep, MountSteps DEF WizardNext

\* DnsDiscovery.tsx, coverage.py: in every reachable state what is selected, and
\* what a bulk selection has picked so far, is what the rows of its names allowed
\* when they were read, while others scan names and stop scanning them; the rows
\* on the screen, of whatever age, are those that were found.
THEOREM WizardInvariant == WizardSpec => [](FreeInv /\ WizardInv)
<1>1. FreeInv /\ WizardInv /\ [WizardNext]_wizardVars => (FreeInv /\ WizardInv)'
  BY FreeStep, WizardStep
<1> QED BY <1>1, WizardInitOK, PTL DEF WizardSpec

\* DnsDiscovery.tsx:159: no doubtful name, and none that was scanned all the time,
\* comes into a selection but by hand or by its box, for any names found, any
\* size of the pages and any scans of others.
THEOREM BulkIsCareful == WizardSpec => []BulkSkipsDoubtful
<1>1. WizardInv => BulkSkipsDoubtful
  BY DEF WizardInv, WizardOK, SelectionOK, ChoiceOK, Targets, BulkSkipsDoubtful
<1> QED BY <1>1, WizardInvariant, PTL
=============================================================================
