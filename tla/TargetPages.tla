---------------------------- MODULE TargetPages -----------------------------
(***************************************************************************)
(* The catalogue of targets and groups as Targets.tsx edits it: TargetDialog *)
(* (several values become targets and one group), GroupDialog,             *)
(* ImportDialog and the deletions, against the routes of api/catalog.py.   *)
(*                                                                         *)
(* A save is a chain of requests with the browser and other people between *)
(* each two; nothing disables the button while a save runs.  A request     *)
(* that is lost may have been served or not.                               *)
(***************************************************************************)
EXTENDS Integers, Sequences, FiniteSets, SequencesExt

CONSTANTS Values,     \* values of targets: host names, addresses, subnets
          MaxTargets, \* bound: targets ever created
          MaxSaves,   \* bound: clicks on Save in the dialog
          MaxEdits    \* bound: what everybody else, and the network, does

\* What is typed in a form is finite.
ASSUME TargetsAssumption == IsFiniteSet(Values)

VARIABLES
  targets,   \* rows of targets by number: [value, ports, alive, was]
  groups,    \* rows of target_groups: [name, members], the members it began
             \* with (first) and the values a save asked for
  listed,    \* the numbers of the targets the page shows
  form,      \* the dialog: its values and ports; none once closed
  saves,     \* the saves under way
  edits      \* bound

targetVars == <<targets, groups, listed, form, saves, edits>>

Rows == {i \in DOMAIN targets : targets[i].alive}
\* Unique on (value, ports), and on the name of a group.
RowOf(value, ports) == {i \in Rows : targets[i].value = value /\ targets[i].ports = ports}
NameFree(name) == \A g \in groups : g.name # name
NewTarget(value, ports) == [value |-> value, ports |-> ports, alive |-> TRUE, was |-> {value}]
Closed == [open |-> FALSE, values |-> << >>, ports |-> "", named |-> FALSE, kindOk |-> FALSE]

TargetsInit ==
  /\ targets = << >> /\ groups = {} /\ listed = {} /\ saves = << >> /\ edits = 0
  /\ form = Closed
-----------------------------------------------------------------------------
(* The dialogs of one person. *)

\* New target: the lines of the text, each value once.  The name matters when
\* there are several, the kind when there is one.
OpenTarget ==
  /\ ~form.open /\ Len(saves) < MaxSaves
  /\ \E vs \in (SUBSET Values) \ {{}}, ports \in {"", "8443"}, named, kindOk \in BOOLEAN :
       /\ IF Cardinality(vs) > 1 THEN ~kindOk ELSE ~named
       /\ form' = [open |-> TRUE, values |-> SetToSeq(vs), ports |-> ports, named |-> named, kindOk |-> kindOk]
  /\ UNCHANGED <<targets, groups, listed, saves, edits>>
CloseTarget == form.open /\ form' = Closed /\ UNCHANGED <<targets, groups, listed, saves, edits>>

\* save: values, then the group when there are several and a name; one value
\* must be of the kind that is picked.
multiple(s) == Len(s.values) > 1
ClickSave ==
  /\ form.open /\ Len(saves) < MaxSaves
  /\ multiple(form) \/ form.kindOk
  /\ saves' = Append(saves, [values |-> form.values, ports |-> form.ports, named |-> form.named,
                             asked |-> Range(form.values), saved |-> << >>, step |-> "post"])
  /\ UNCHANGED <<targets, groups, listed, form, edits>>

Go(i, new) == saves' = [saves EXCEPT ![i] = new]
Fails(i) == Go(i, [saves[i] EXCEPT !.step = "failed"])
At(i, step) == saves[i].step = step
CurrentValue(i) == saves[i].values[Len(saves[i].saved) + 1]

\* The next value, or what follows the last one.
Kept(s, id) ==
  LET saved == Append(s.saved, id)
  IN [s EXCEPT !.saved = saved,
               !.step = IF Len(saved) < Len(s.values) THEN "post"
                        ELSE IF multiple(s) /\ s.named THEN "group" ELSE "done"]
Create(value, ports) == targets' = Append(targets, NewTarget(value, ports))

\* POST /targets: created, or 409 when it is known.
PostTarget(i) ==
  /\ At(i, "post")
  /\ LET v == CurrentValue(i)  s == saves[i]  known == RowOf(v, s.ports) # {} IN
     \/ /\ ~known /\ Len(targets) < MaxTargets
        /\ Create(v, s.ports) /\ Go(i, Kept(s, Len(targets) + 1))
     \/ known /\ Go(i, [s EXCEPT !.step = "reuse"]) /\ UNCHANGED targets
  /\ UNCHANGED <<groups, listed, form, edits>>

\* GET /targets: the record with that value, whatever its ports.  Mutated form:
\* a value that is known is left out.
Reuse_skips(i) ==
  /\ At(i, "reuse")
  /\ LET s == saves[i]  same == {k \in Rows : targets[k].value = CurrentValue(i)} IN
     \/ \E k \in same : Go(i, [Kept(s, k) EXCEPT !.values = SelectSeq(@, LAMBDA v : v # CurrentValue(i)),
                                                 !.saved = s.saved,
                                                 !.step = IF Len(s.saved) + 1 < Len(s.values) THEN "post" ELSE "group"])
     \/ same = {} /\ Fails(i)
  /\ UNCHANGED <<targets, groups, listed, form, edits>>
Reuse(i) ==
  /\ At(i, "reuse")
  /\ LET s == saves[i]  same == {k \in Rows : targets[k].value = CurrentValue(i)} IN
     \/ \E k \in same : Go(i, Kept(s, k))
     \/ same = {} /\ Fails(i)
  /\ UNCHANGED <<targets, groups, listed, form, edits>>

\* POST /target-groups: refused for a name taken or a target that is gone.
PostGroup(i) ==
  /\ At(i, "group")
  /\ LET s == saves[i]  members == Range(s.saved) IN
     IF NameFree("new") /\ members \subseteq Rows
     THEN /\ groups' = groups \cup {[name |-> "new", members |-> members, first |-> members, asked |-> s.asked]}
          /\ Go(i, [s EXCEPT !.step = "done"])
     ELSE Fails(i) /\ UNCHANGED groups
  /\ UNCHANGED <<targets, listed, form, edits>>

\* onSaved reloads the list, onClose closes the dialog, that of a later save too.
SaveEnds(i) ==
  /\ At(i, "done")
  /\ Go(i, [saves[i] EXCEPT !.step = "ended"])
  /\ listed' = Rows /\ form' = Closed
  /\ UNCHANGED <<targets, groups, edits>>

\* A request of a save is lost, before or after it is served: its error shows.
LoseRequest(i) ==
  /\ edits < MaxEdits /\ edits' = edits + 1
  /\ saves[i].step \in {"post", "reuse", "group"}
  /\ Fails(i)
  /\ \/ UNCHANGED targets
     \/ /\ At(i, "post") /\ RowOf(CurrentValue(i), saves[i].ports) = {} /\ Len(targets) < MaxTargets
        /\ Create(CurrentValue(i), saves[i].ports)
  /\ UNCHANGED <<groups, listed, form>>
-----------------------------------------------------------------------------
(* The other dialogs, of this person or of another one. *)

Edit == edits < MaxEdits /\ edits' = edits + 1

\* PUT /targets: the whole form over the row, 409 for a value taken.
EditTarget ==
  /\ Edit
  /\ \E k \in listed \cap Rows, v \in Values, ports \in {"", "8443"} :
       /\ RowOf(v, ports) \subseteq {k}
       /\ targets' = [targets EXCEPT ![k].value = v, ![k].ports = ports, ![k].was = @ \cup {v}]
  /\ listed' \in {listed, Rows}
  /\ UNCHANGED <<groups, saves, form>>

\* DELETE /targets: its memberships go with it.
DeleteTarget ==
  /\ Edit
  /\ \E k \in Rows : /\ targets' = [targets EXCEPT ![k].alive = FALSE]
                     /\ groups' = {[g EXCEPT !.members = @ \ {k}] : g \in groups}
                     /\ listed' \in {listed, Rows \ {k}}
  /\ UNCHANGED <<saves, form>>

\* POST /targets/import: one transaction, what is known is counted.
Import ==
  /\ Edit
  /\ \E v \in Values, ports \in {"", "8443"} :
       /\ RowOf(v, ports) = {} /\ Len(targets) < MaxTargets
       /\ Create(v, ports) /\ listed' \in {listed, Rows \cup {Len(targets) + 1}}
  /\ UNCHANGED <<groups, saves, form>>

\* GroupDialog: boxes of the list the page has; 404 for one that is gone.
SaveGroup ==
  /\ Edit
  /\ \E ids \in SUBSET (listed \cap Rows) :
       \/ /\ NameFree("new")
          /\ groups' = groups \cup {[name |-> "new", members |-> ids, first |-> {}, asked |-> {}]}
       \/ \E g \in groups : groups' = (groups \ {g}) \cup {[g EXCEPT !.members = ids]}
  /\ UNCHANGED <<targets, listed, saves, form>>
DeleteGroup == /\ Edit
               /\ \E g \in groups : groups' = groups \ {g}
               /\ UNCHANGED <<targets, listed, saves, form>>

TargetsNext ==
  \/ OpenTarget \/ CloseTarget \/ ClickSave
  \/ \E i \in DOMAIN saves : PostTarget(i) \/ Reuse(i) \/ PostGroup(i) \/ SaveEnds(i) \/ LoseRequest(i)
  \/ EditTarget \/ DeleteTarget \/ Import \/ SaveGroup \/ DeleteGroup

TargetsSpec == TargetsInit /\ [][TargetsNext]_targetVars
-----------------------------------------------------------------------------
\* Targets.tsx:31: a group that a save made began with a target for every one
\* of the values that were typed, known before or not, whoever saved, edited or
\* deleted meanwhile and however often Save was clicked.
GroupIsWhole ==
  \A g \in groups : \A v \in g.asked : \E m \in g.first : v \in targets[m].was
=============================================================================
