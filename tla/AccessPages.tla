----------------------------- MODULE AccessPages ----------------------------
(***************************************************************************)
(* Who asks AccessKeys for what: the owner's section of the preferences    *)
(* (components/ExternalAccess.tsx, ExternalAccessSection) and the controls *)
(* of the administrators (pages/Admin.tsx).  A page draws what it last     *)
(* loaded; the buttons follow what is drawn, the server what is stored.    *)
(***************************************************************************)
EXTENDS AccessKeys, Sequences, SequencesExt

CONSTANTS Owner,       \* the user whose preferences are open
          OwnerSlots, UsersSlots, SettingsSlots, \* what each page may have under way
          MaxLoads,    \* bound: loads of the section under way
          MaxClicks,   \* bound: clicks of the owner and the administrators
          MaxCalls     \* bound: external requests

VARIABLES
  section, \* what the owner's page draws: the state of every service and
           \* the secret in its dialog
  loads,   \* GETs of the section: sent, or answered with what was true then
  used     \* bounds: the clicks and calls made

accessVars == <<keyVars, section, loads, used>>

Unloaded == << >> \* no data on the page yet
Sent == << >>     \* a GET without its answer

AccessInit ==
  /\ KeysInit
  /\ section = [shown |-> Unloaded, secret |-> Nobody]
  /\ loads = <<Sent>>
  /\ used = [clicks |-> 0, calls |-> 0]

Counts(what, bound) == used[what] < bound /\ used' = [used EXCEPT ![what] = @ + 1]
PageStays == UNCHANGED <<section, loads>>
-----------------------------------------------------------------------------
(* The owner. *)

\* my_access, token_summary: a key that has expired is as good as none.
State == [s \in Services |->
  [global_enabled |-> s \in switches.enabled, allowed |-> s \in account[Owner].allowed,
   active |-> \E k \in InForce(Owner, {s}) : keys[k].state = "live"]]

ServeLoad == /\ account[Owner].active
             /\ \E i \in DOMAIN loads : loads[i] = Sent /\ loads' = [loads EXCEPT ![i] = State]
             /\ UNCHANGED <<keyVars, section, used>>
Loaded == /\ \E i \in DOMAIN loads : /\ loads[i] # Sent
                                     /\ section' = [section EXCEPT !.shown = loads[i]]
                                     /\ loads' = RemoveAt(loads, i)
          /\ UNCHANGED <<keyVars, used>>

\* The dialog of a secret is modal.
AtHand == section.shown # Unloaded /\ section.secret = Nobody
Usable(s) == section.shown[s].global_enabled /\ section.shown[s].allowed

generate(s) == /\ AtHand /\ Usable(s) /\ Counts("clicks", MaxClicks)
               /\ \E h \in OwnerSlots : Ask(h, "generate", Owner, s, TRUE)
               /\ PageStays
revoke(s) == /\ AtHand /\ section.shown[s].active /\ Counts("clicks", MaxClicks)
             /\ \E h \in OwnerSlots : Ask(h, "revoke", Owner, s, TRUE)
             /\ PageStays

\* generate, revoke: what they do with the answer.  On a refusal, or when it
\* is lost, an error is shown and nothing is loaded: the secret of a new key may
\* then be known to nobody.
Told(h) ==
  /\ \/ /\ handler[h].pc = "ok" /\ Len(loads) < MaxLoads /\ loads' = Append(loads, Sent)
        /\ section' = [section EXCEPT !.secret =
                         IF handler[h].kind = "generate" THEN handler[h].key ELSE @]
     \/ UNCHANGED <<section, loads>>
  /\ Answered(h) /\ UNCHANGED used

\* KeyDialog.
CloseDialog == /\ section.secret # Nobody /\ section' = [section EXCEPT !.secret = Nobody]
               /\ UNCHANGED <<keyVars, loads, used>>
-----------------------------------------------------------------------------
(* The administrators: a control sends the opposite of what its page drew,  *)
(* which may be of any age.                                                 *)

Change(A) == A /\ Counts("clicks", MaxClicks) /\ PageStays
By(slots, kind, s, v) == \E h \in slots : Change(Ask(h, kind, Owner, s, v))
AnyService == CHOOSE s \in Services : TRUE

toggleExternal == \E s \in Services, enabled \in BOOLEAN : By(SettingsSlots, "switch", s, enabled)
AllowService == \E s \in Services, allowed \in BOOLEAN : By(UsersSlots, "access", s, allowed)
SetActive == \E active \in BOOLEAN : By(UsersSlots, "account", AnyService, active)
RevokeKey == \E s \in Services :
  (\E k \in KeyIds : keys[k].user = Owner /\ keys[k].service = s) /\ By(UsersSlots, "revoke", s, TRUE)
ResetPassword == Change(SetPassword(Owner, TRUE))
-----------------------------------------------------------------------------
Elsewhere(A) == A /\ PageStays /\ UNCHANGED used
OwnerStep == \/ ServeLoad \/ Loaded \/ CloseDialog
             \/ \E s \in Services : generate(s) \/ revoke(s)
             \/ \E h \in OwnerSlots : Told(h)
AdminStep == \/ toggleExternal \/ AllowService \/ SetActive \/ RevokeKey \/ ResetPassword
             \/ \E h \in UsersSlots \cup SettingsSlots : Elsewhere(Answered(h))
ProgramStep == \E c \in Callers :
  \/ \E k \in KeyIds, s \in Services : Call(c, k, s) /\ Counts("calls", MaxCalls) /\ PageStays
  \/ Elsewhere(CheckSwitch(c) \/ CheckKey(c) \/ CheckUser(c) \/ Return(c))

AccessNext ==
  \/ OwnerStep \/ AdminStep \/ ProgramStep
  \/ Elsewhere(ServerStep)
  \/ Elsewhere(SetPassword(Owner, FALSE))
  \/ \E k \in KeyIds : Elsewhere(Expire(k))

AccessSpec == AccessInit /\ [][AccessNext]_accessVars
=============================================================================
