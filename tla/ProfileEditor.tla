--------------------------- MODULE ProfileEditor ----------------------------
(***************************************************************************)
(* The editor of a scan profile: lib/tlsChecks.ts, TlsChecksPicker.tsx and *)
(* ProfileForm, TrustAuthorities and VersionedTab of Policies.tsx, with    *)
(* what the server makes of the content (parse_tls_checks_config of        *)
(* config.py, validate_profile_selection of trust_stores.py).              *)
(*                                                                         *)
(* The section checks.tls maps the ids of some checks to entries: the      *)
(* shorthand true/false, or a mapping of "enabled", which may be missing,  *)
(* and of some options.                                                    *)
(***************************************************************************)
EXTENDS Integers, Sequences, FiniteSets, SequencesExt

CONSTANTS Hidden,     \* a check that is not recommended
          MaxChanges  \* bound: clicks and keys of the person, and of others

ASSUME EditorAssumption == Hidden \notin {"hostname_san", "session_resumption", "early_data"}

\* Four checks stand for the catalogue of the engine: without options, with an
\* integer, with a boolean, and the hidden one with ports.
Catalog == {"hostname_san", "session_resumption", "early_data", Hidden}
recommended == [c \in Catalog |-> c # Hidden]
OptionsOf(c) == CASE c = "session_resumption" -> {"attempts"} [] c = "early_data" -> {"probe"}
                  [] c = Hidden -> {"ports"} [] OTHER -> {}
LOW == 1
HIGH == 3
DEFAULT == 2
MaxPorts == 16
PortNumbers == 1..65535

VARIABLES
  latest,  \* the section of the profile's last version on the server
  known,   \* that version as the list of the page has it
  edit,    \* the form: its section, the checks added, its trust; closed or not
  stores,  \* the private trust store: active or not
  ticked,  \* ghost: the checks the person touched, and how he left them
  changes  \* bound

editorVars == <<latest, known, edit, stores, ticked, changes>>
-----------------------------------------------------------------------------
(* tlsChecks.ts. *)

Flag(on) == [shape |-> "flag", on |-> IF on THEN "yes" ELSE "no", opts |-> << >>]
Mapping(on, opts) == [shape |-> "map", on |-> on, opts |-> opts]

\* A mapping of one key, and {...g, ...f} of two mappings.
Only(k, v) == [x \in {k} |-> v]
Over(f, g) == [x \in DOMAIN f \cup DOMAIN g |-> IF x \in DOMAIN f THEN f[x] ELSE g[x]]

isEnabled(sec, c) == c \in DOMAIN sec /\ sec[c].on = "yes"
setEnabled(sec, c, on) ==
  IF on THEN Over(Only(c, Mapping("yes", << >>)), sec) ELSE Restrict(sec, DOMAIN sec \ {c})
getOption(sec, c, name) ==
  IF c \in DOMAIN sec /\ name \in DOMAIN sec[c].opts THEN {sec[c].opts[name]} ELSE {}

\* opt: the option as a function of its name, or none to remove it.
With(entry, name, opt) == [entry EXCEPT !.opts = Over(opt, Restrict(@, DOMAIN @ \ {name}))]
\* Mutated form: a shorthand becomes a mapping that forgets it was ticked.
setOption_forgets(sec, c, name, opt) ==
  LET entry == IF c \in DOMAIN sec /\ sec[c].shape = "map" THEN sec[c] ELSE Mapping("no", << >>)
  IN Over(Only(c, With(entry, name, opt)), sec)
setOption(sec, c, name, opt) ==
  LET entry == IF c \in DOMAIN sec /\ sec[c].shape = "map" THEN sec[c]
               ELSE Mapping(IF isEnabled(sec, c) THEN "yes" ELSE "no", << >>)
  IN Over(Only(c, With(entry, name, opt)), sec)

\* What the typed text makes of the option: no ports remove it, and what is
\* not accepted leaves it.
parsePorts(sec, c, typed) ==
  CASE typed = << >> -> setOption(sec, c, "ports", << >>)
    [] typed # << >> /\ Range(typed) \subseteq PortNumbers /\ IsInjective(typed) /\ Len(typed) <= MaxPorts ->
         setOption(sec, c, "ports", Only("ports", typed))
    [] OTHER -> sec

recommendedSection == [c \in {d \in Catalog : recommended[d]} |-> Mapping("yes", << >>)]
visibleChecks == {c \in Catalog : recommended[c] \/ isEnabled(edit.section, c) \/ c \in edit.added}
-----------------------------------------------------------------------------
(* The server. *)

\* The engine: a mapping that does not say whether it is enabled is.
Selected(sec) == {c \in DOMAIN sec : sec[c].on # "no"}

\* Only the options of a selected check have their values looked at.
ValidOption(name, value) ==
  CASE name = "attempts" -> value \in LOW..HIGH
    [] name = "probe" -> value \in BOOLEAN
    [] name = "ports" -> Len(value) \in 1..MaxPorts /\ IsInjective(value) /\ Range(value) \subseteq PortNumbers
ValidSection(sec) ==
  \A c \in DOMAIN sec : /\ DOMAIN sec[c].opts \subseteq OptionsOf(c)
                        /\ c \in Selected(sec) => \A n \in DOMAIN sec[c].opts : ValidOption(n, sec[c].opts[n])
ValidTrust(trust) == trust.store => trust.verify /\ stores = "active"

\* Versions the server may hold: written by this form, by hand, by the API.
StoredSections ==
  {<< >>, recommendedSection, [c \in Catalog |-> Flag(c # Hidden)],
   [c \in {"session_resumption", "early_data", Hidden} |->
      CASE c = "session_resumption" -> Mapping("missing", Only("attempts", 3))
        [] c = "early_data" -> Mapping("no", Only("probe", TRUE))
        [] c = Hidden -> Mapping("yes", Only("ports", <<25, 587>>))]}
-----------------------------------------------------------------------------
(* The page. *)

Form(sec) == [open |-> TRUE, section |-> sec, added |-> {},
              trust |-> [verify |-> TRUE, public |-> TRUE, store |-> FALSE]]
NoForm == [Form(<< >>) EXCEPT !.open = FALSE]

EditorInit ==
  /\ latest \in StoredSections /\ known = latest
  /\ edit = NoForm /\ stores = "active" /\ ticked = << >> /\ changes = 0

Click == changes < MaxChanges /\ changes' = changes + 1
Touch(c, on) == ticked' = Over(Only(c, on), ticked)
Typed(sec) == edit' = [edit EXCEPT !.section = sec] /\ UNCHANGED <<latest, known, stores>>

\* New: the recommended checks, without a section until the catalogue is
\* there.  Edit: the last version of the list.  Nothing is touched yet.
Open ==
  /\ ~edit.open /\ Click
  /\ \E sec \in {<< >>, recommendedSection, known} : edit' = Form(sec)
  /\ ticked' = << >> /\ UNCHANGED <<latest, known, stores>>
Cancel ==
  /\ edit.open /\ Click
  /\ edit' = NoForm /\ ticked' = << >> /\ UNCHANGED <<latest, known, stores>>

ToggleCheck ==
  /\ edit.open /\ Click
  /\ \E c \in visibleChecks : LET on == ~isEnabled(edit.section, c) IN
       Typed(setEnabled(edit.section, c, on)) /\ Touch(c, on)

\* Add checks: a hidden one becomes visible, unticked.
AddCheck ==
  /\ edit.open /\ Click
  /\ \E c \in Catalog \ visibleChecks : edit' = [edit EXCEPT !.added = @ \cup {c}]
  /\ UNCHANGED <<latest, known, stores, ticked>>

\* OptionField, under a ticked check: a number that is no integer of the range,
\* or is the default, removes the option, as unticking a boolean does.
TypeNumber(c) ==
  /\ "attempts" \in OptionsOf(c)
  /\ \E n \in (LOW - 1)..(HIGH + 1) :
       Typed(setOption(edit.section, c, "attempts",
                       IF n \in LOW..HIGH \ {DEFAULT} THEN Only("attempts", n) ELSE << >>))
FlipFlag(c) ==
  /\ "probe" \in OptionsOf(c)
  /\ Typed(setOption(edit.section, c, "probe",
                     IF TRUE \in getOption(edit.section, c, "probe") THEN << >> ELSE Only("probe", TRUE)))
PortTexts == {<< >>, <<25>>, <<0>>, <<65536>>, <<25, 25>>, [i \in 1..16 |-> i], [i \in 1..17 |-> i]}
TypePorts(c) ==
  "ports" \in OptionsOf(c) /\ \E typed \in PortTexts : Typed(parsePorts(edit.section, c, typed))
SetOption ==
  /\ edit.open /\ Click
  /\ \E c \in visibleChecks : /\ isEnabled(edit.section, c) /\ Touch(c, TRUE)
                              /\ TypeNumber(c) \/ FlipFlag(c) \/ TypePorts(c)

\* The chain verification shows and hides the authorities, whose store stays
\* picked; an inactive store can only be unticked.
SetTrust ==
  /\ edit.open /\ Click
  /\ \/ edit' = [edit EXCEPT !.trust.verify = ~@]
     \/ edit.trust.verify /\ edit' = [edit EXCEPT !.trust.public = ~@]
     \/ /\ edit.trust.verify /\ (edit.trust.store \/ stores = "active")
        /\ edit' = [edit EXCEPT !.trust.store = ~@]
  /\ UNCHANGED <<latest, known, stores, ticked>>

\* Save: a version of the whole content over whatever is the last one by then,
\* and the form closes; or the error, with the form as it was.
Save ==
  /\ edit.open /\ Click
  /\ IF ValidSection(edit.section) /\ ValidTrust(edit.trust)
     THEN /\ latest' = edit.section /\ edit' = NoForm /\ ticked' = << >>
          /\ known' \in {known, latest'}
     ELSE UNCHANGED <<latest, known, edit, ticked>>
  /\ UNCHANGED stores

\* Publish, Duplicate, Archive and this list's reload; another operator, or
\* the API, stores a version or switches the trust store.
Refresh == Click /\ known' = latest /\ UNCHANGED <<latest, edit, stores, ticked>>
OtherPeople ==
  /\ Click
  /\ \/ \E sec \in StoredSections : latest' = sec /\ UNCHANGED stores
     \/ stores' = (IF stores = "active" THEN "inactive" ELSE "active") /\ UNCHANGED latest
  /\ UNCHANGED <<known, edit, ticked>>

EditorNext ==
  \/ Open \/ Cancel \/ ToggleCheck \/ AddCheck \/ SetOption \/ SetTrust \/ Save \/ Refresh \/ OtherPeople
EditorSpec == EditorInit /\ [][EditorNext]_editorVars
-----------------------------------------------------------------------------
\* tlsChecks.ts, config.py: whatever version the form began with and whatever
\* was clicked and typed, in any order, the section it holds is one the engine
\* accepts, and a check the person ticked, gave an option or unticked is
\* selected by the engine, or not, just as the form shows it.
TickedIsSelected ==
  edit.open => /\ ValidSection(edit.section)
               /\ \A c \in DOMAIN ticked : /\ c \in Selected(edit.section) <=> ticked[c]
                                           /\ isEnabled(edit.section, c) <=> ticked[c]
=============================================================================
