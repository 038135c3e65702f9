---------------------------- MODULE MC_Catalogue ----------------------------
(***************************************************************************)
(* What scans are planned from: policies, profiles and trust stores on the *)
(* server, and the dialogs of the application that edit targets and        *)
(* profiles and take over what a discovery found.  The router mounts one   *)
(* page at a time, whose requests are part of its module, so a behaviour   *)
(* follows one part; the variables of the others keep their initial        *)
(* values, and the state spaces add up instead of multiplying.             *)
(***************************************************************************)
EXTENDS MC_TrustStores, TargetPages, ProfileEditor, DiscoveryWizard

VARIABLES part \* the part followed

\* What a discovery finds, a name of each kind: plain, doubtful, another plain
\* one, of one known target, of two, out of scope.
Names_MC ==
  << [name |-> "www", inv |-> "NEW", matches |-> {}, traits |-> {}],
     [name |-> "*.dev", inv |-> "NEW", matches |-> {}, traits |-> {"doubt"}],
     [name |-> "old", inv |-> "NEW", matches |-> {}, traits |-> {}],
     [name |-> "mail", inv |-> "ENRICHABLE", matches |-> {"t1"}, traits |-> {}],
     [name |-> "db", inv |-> "ENRICHABLE", matches |-> {"t2", "t3"}, traits |-> {}],
     [name |-> "ext", inv |-> "OUT_OF_SCOPE", matches |-> {}, traits |-> {}] >>

PartsInit ==
  /\ part \in {"stores", "targets", "profiles", "discovery"}
  /\ Init /\ TargetsInit /\ WizardInit
  /\ server.scanned \in {{}, {"old"}} /\ (part # "discovery" => server.scanned = {})
  /\ EditorInit /\ (part # "profiles" => latest = << >>)

On(p) == part = p /\ UNCHANGED part
OthersOf(p) ==
  /\ p # "stores" => UNCHANGED catalogue
  /\ p # "targets" => UNCHANGED targetVars
  /\ p # "profiles" => UNCHANGED editorVars
  /\ p # "discovery" => UNCHANGED wizardVars

PartsNext ==
  \/ On("stores") /\ Next /\ OthersOf("stores")
  \/ On("targets") /\ TargetsNext /\ OthersOf("targets")
  \/ On("profiles") /\ EditorNext /\ OthersOf("profiles")
  \/ On("discovery") /\ WizardNext /\ OthersOf("discovery")

PartsSpec == PartsInit /\ [][PartsNext]_<<part, catalogue, targetVars, editorVars, wizardVars>>
-----------------------------------------------------------------------------
\* The properties are those of the modules extended, over their own variables:
\* what is not followed stays as it was at first.
=============================================================================
