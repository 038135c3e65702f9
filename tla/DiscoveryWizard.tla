-------------------------- MODULE DiscoveryWizard ---------------------------
(***************************************************************************)
(* The wizard of a DNS discovery, components/DnsDiscovery.tsx: configure   *)
(* and start a job, follow it, choose names among its results, review the  *)
(* dry run and apply; and the tab that reopens a past discovery.           *)
(*                                                                         *)
(* The wizard is one React component: w holds its state and the requests   *)
(* and timers it has running, each in the closure of the render it was     *)
(* started by.  A request answers in any order or fails; an answer carries *)
(* what the server says as it arrives.                                     *)
(***************************************************************************)
EXTENDS Integers, Sequences, FiniteSets

CONSTANTS Found,          \* the rows of its results
          PAGE,           \* rows of the table (100 in the code)
          BULK,           \* rows a selection reads at a time (500 in the code)
          MaxDiscoveries, \* bound: jobs
          MaxActs         \* bound: what the person does

\* A name found: its place in the inventory, the targets it matches, and whether
\* it is doubtful, a wildcard or only seen in old certificates.
Inventory == {"NEW", "EXISTING", "ENRICHABLE", "CHANGED", "OUT_OF_SCOPE"}
Observation == [name : STRING, inv : Inventory, matches : SUBSET STRING, traits : SUBSET {"doubt"}]
ASSUME FoundAssumption == Found \in Seq(Observation)
Names == {Found[i].name : i \in DOMAIN Found}

VARIABLES
  server, \* the status of every job, the names that became targets meanwhile,
          \* the names that a definition or a recent run scans
  w,      \* the wizard
  ghost,  \* names chosen by hand, whether scanned ones were asked for, and names
          \* that were not scanned at some time, all since the wizard was opened
  acted   \* bound

wizardVars == <<server, w, ghost, acted>>

Final(status) == status \in {"done", "failed"}
NewWizard == [open |-> TRUE, step |-> "config", ready |-> FALSE, job |-> 0, status |-> "", timer |-> FALSE,
          starts |-> 0, asks |-> {}, loads |-> {}, typed |-> FALSE, filter |-> "", items |-> {}, offset |-> 0,
          box |-> FALSE, covered |-> FALSE, selection |-> << >>, bulk |-> {}, scan |-> "none", group |-> "default",
          chosen |-> FALSE, dry |-> "off", plan |-> "none", report |-> FALSE, applying |-> {}, busy |-> FALSE]

JustOpened == [hand |-> {}, covered |-> FALSE, free |-> Names \ server.scanned]

WizardInit ==
  /\ server \in [jobs : {<< >>}, known : {{}}, scanned : SUBSET Names]
  /\ w = NewWizard /\ ghost = JustOpened /\ acted = 0
-----------------------------------------------------------------------------
(* The server's results. *)

\* /results: the inventory is compared with the targets, and the coverage read
\* from the definitions and the runs, of this moment.
Compared(i) ==
  LET name == Found[i].name
      known == Found[i].inv = "NEW" /\ name \in server.known
  IN [name |-> name,
      inv |-> IF known THEN "EXISTING" ELSE Found[i].inv,
      matches |-> IF known THEN {name} ELSE Found[i].matches,
      traits |-> Found[i].traits \cup IF name \in server.scanned THEN {"scanned"} ELSE {}]
\* The places of the rows a filter lets through, and the rows of one page.
PlacesFor(filter) == {i \in DOMAIN Found : filter \in {"", Compared(i).inv}}
RowsOf(places, start, size) ==
  {Compared(i) : i \in {p \in places : Cardinality({q \in places : q < p}) \in start..(start + size - 1)}}

\* Other people make targets of its names meanwhile.
OthersAdd ==
  /\ acted < MaxActs /\ acted' = acted + 1
  /\ \E i \in DOMAIN Found : /\ Found[i].inv = "NEW" /\ Found[i].name \notin server.known
                             /\ server' = [server EXCEPT !.known = @ \cup {Found[i].name}]
  /\ UNCHANGED <<w, ghost>>
\* They scan a name meanwhile, or no longer do: a definition or a schedule takes
\* it up, a run ends; one is deleted, or is recent no more.
OthersScan ==
  /\ acted < MaxActs /\ acted' = acted + 1
  /\ \E n \in Names : server' = [server EXCEPT !.scanned = IF n \in @ THEN @ \ {n} ELSE @ \cup {n}]
  /\ ghost' = [ghost EXCEPT !.free = @ \cup (Names \ server'.scanned)]
  /\ UNCHANGED w
\* The job goes on, until it is done or failed.
JobGoesOn ==
  /\ \E j \in DOMAIN server.jobs : \E s \in {"running", "done", "failed"} :
       /\ ~Final(server.jobs[j]) /\ server.jobs[j] # s
       /\ server' = [server EXCEPT !.jobs[j] = s]
  /\ UNCHANGED <<w, ghost, acted>>
-----------------------------------------------------------------------------
(* The wizard's own functions. *)

Acts == w.open /\ acted < MaxActs /\ acted' = acted + 1
Renders(new) == w' = new /\ UNCHANGED server
ByHand(names) == ghost' = [ghost EXCEPT !.hand = @ \cup names]

InScope(item) == item.inv # "OUT_OF_SCOPE"
\* The target of a name, "add" for a new one, none to be chosen by the person.
choiceFor(item) ==
  IF item.inv = "NEW" THEN {"add"}
  ELSE IF InScope(item) /\ Cardinality(item.matches) = 1 THEN item.matches ELSE {}
\* The selection without a name, or with one of the choices for it; and with
\* those of all the rows.
Dropped(selection, name) == [n \in DOMAIN selection \ {name} |-> selection[n]]
WithChoice(selection, name, choices) ==
  IF choices = {} THEN Dropped(selection, name)
  ELSE [n \in DOMAIN selection \cup {name} |-> IF n = name THEN CHOOSE c \in choices : TRUE ELSE selection[n]]
AllChosen(selection, rows) ==
  [n \in DOMAIN selection \cup {r.name : r \in rows} |->
     LET choices == UNION {choiceFor(r) : r \in {q \in rows : q.name = n}}
     IN IF choices = {} THEN selection[n] ELSE CHOOSE c \in choices : TRUE]

\* setJob: the effects see a job that ended, and ask for its results, or arm
\* the timer of the next poll.  They only look at it in the step "run".
WithJob(wiz, j, step) ==
  LET status == server.jobs[j]
      shown == [wiz EXCEPT !.job = j, !.status = status, !.step = step, !.timer = FALSE]
  IN IF step # "run" THEN shown
     ELSE IF Final(status)
          THEN [shown EXCEPT !.step = "results", !.loads = @ \cup {[filter |-> wiz.filter, offset |-> 0]}]
          ELSE [shown EXCEPT !.timer = TRUE]

\* The effect of the dry run: a change of what it is made of starts it again,
\* and its last answer is dropped; the plan it gave stays meanwhile.
Replan(wiz) == [wiz EXCEPT !.dry = IF wiz.step = "review" /\ ~wiz.report THEN "timer" ELSE "off"]
Selects(selection) == Replan([w EXCEPT !.selection = selection])
ToReview(wiz) == Replan([wiz EXCEPT !.plan = "none", !.report = FALSE, !.step = "review"])
-----------------------------------------------------------------------------
(* Configuration and run. *)

\* The domain, the authorisation and a method: fast mode has no reverse lookup.
Configure == /\ Acts /\ w.step = "config" /\ ~w.ready
             /\ Renders([w EXCEPT !.ready = TRUE]) /\ UNCHANGED ghost

\* Nothing disables the button while the request is on its way.
start == /\ Acts /\ w.step = "config" /\ w.ready /\ w.starts + Len(server.jobs) < MaxDiscoveries
         /\ Renders([w EXCEPT !.starts = @ + 1]) /\ UNCHANGED ghost
Started ==
  /\ w.starts > 0 /\ UNCHANGED <<ghost, acted>>
  /\ \/ /\ server' = [server EXCEPT !.jobs = Append(@, "queued")]
        /\ w' = [w EXCEPT !.starts = @ - 1, !.job = Len(server.jobs) + 1, !.status = "queued",
                          !.step = "run", !.timer = TRUE, !.dry = "off"]
     \/ Renders([w EXCEPT !.starts = @ - 1])

\* The tab of past discoveries opens one again.
resume ==
  /\ ~w.open /\ acted < MaxActs /\ acted' = acted + 1
  /\ \/ Renders(NewWizard)
     \/ \E j \in DOMAIN server.jobs : Renders(WithJob(NewWizard, j, "run"))
  /\ ghost' = JustOpened

\* One timer per job object: it asks once, and a failed answer arms no other.
PollJob == /\ w.timer /\ Renders([w EXCEPT !.timer = FALSE, !.asks = @ \cup {w.job}])
           /\ UNCHANGED <<ghost, acted>>
JobPolled == /\ \E j \in w.asks : LET told == [w EXCEPT !.asks = @ \ {j}]
                  IN Renders(told) \/ Renders(WithJob(told, j, w.step))
             /\ UNCHANGED <<ghost, acted>>
\* POST /cancel, then the job as it is now: it ends when its worker looks.
cancel == /\ Acts /\ w.step = "run" /\ Renders([w EXCEPT !.asks = @ \cup {w.job}]) /\ UNCHANGED ghost
-----------------------------------------------------------------------------
(* Results. *)

InResults == Acts /\ w.step = "results"
\* setFilter: the timer of the last change asks for the first page.
setFilter == /\ InResults /\ \E f \in {"", "NEW", "ENRICHABLE"} \ {w.filter} :
                  Renders([w EXCEPT !.filter = f, !.typed = TRUE])
             /\ UNCHANGED ghost
FilterTimer == /\ w.typed /\ UNCHANGED <<ghost, acted>>
               /\ Renders([w EXCEPT !.typed = FALSE, !.loads = @ \cup {[filter |-> w.filter, offset |-> 0]}])
TurnPage == /\ InResults
            /\ \E o \in {w.offset - PAGE, w.offset + PAGE} :
                 /\ o \in 0..(Cardinality(PlacesFor(w.filter)) - 1)
                 /\ Renders([w EXCEPT !.loads = @ \cup {[filter |-> w.filter, offset |-> o]}])
            /\ UNCHANGED ghost
\* Two answers in the wrong order leave the older one on the screen.
loadResults ==
  /\ \E l \in w.loads : LET told == [w EXCEPT !.loads = @ \ {l}] IN
       \/ Renders(told)
       \/ Renders([told EXCEPT !.items = RowsOf(PlacesFor(l.filter), l.offset, PAGE), !.offset = l.offset,
                                 !.box = server.scanned # {}])
  /\ UNCHANGED <<ghost, acted>>

toggle == /\ InResults
          /\ \E item \in w.items :
               /\ InScope(item) /\ Cardinality(item.matches) < 2
               /\ \/ /\ item.name \in DOMAIN w.selection
                     /\ Renders(Selects(Dropped(w.selection, item.name))) /\ UNCHANGED ghost
                  \/ /\ item.name \notin DOMAIN w.selection
                     /\ Renders(Selects(WithChoice(w.selection, item.name, choiceFor(item)))) /\ ByHand({item.name})
pickTarget == /\ InResults
              /\ \E item \in w.items :
                   /\ InScope(item) /\ Cardinality(item.matches) > 1
                   /\ \E c \in {{}} \cup {{m} : m \in item.matches} :
                        Renders(Selects(WithChoice(w.selection, item.name, c)))
                   /\ ByHand({item.name})

\* The box is there when the last answer said that something is scanned.
IncludeCovered == /\ InResults /\ w.box /\ Renders([w EXCEPT !.covered = ~@]) /\ ghost' = [ghost EXCEPT !.covered = TRUE]
SelectNone == InResults /\ Renders(Selects(<< >>)) /\ UNCHANGED ghost

\* Select all, new or enrichable, and Add new: from the selection of the click
\* (none for Add new), page by page, then over the selection there is by then.
selectWhere == /\ InResults
               /\ \E f \in {w.filter, "NEW", "ENRICHABLE"}, add \in BOOLEAN :
                    /\ add => f = "NEW"
                    /\ Renders([w EXCEPT !.bulk = @ \cup {[filter |-> f, start |-> 0, add |-> add, covered |-> w.covered,
                                                    picked |-> IF add THEN << >> ELSE w.selection]}])
               /\ UNCHANGED ghost

\* Mutated form: what the page says of scans is not looked at.
Picks_scanned(item, covered) == choiceFor(item) # {} /\ "doubt" \notin item.traits
Picks(item, covered) ==
  choiceFor(item) # {} /\ "doubt" \notin item.traits /\ (covered \/ "scanned" \notin item.traits)

BulkPage ==
  /\ \E b \in w.bulk :
       LET places == PlacesFor(b.filter)
           picked == AllChosen(b.picked, {r \in RowsOf(places, b.start, BULK) : Picks(r, b.covered)})
           others == w.bulk \ {b}
           over == [Selects(picked) EXCEPT !.bulk = others]
       IN \/ Renders([w EXCEPT !.bulk = others])
          \/ /\ b.start + BULK < Cardinality(places)
             /\ Renders([w EXCEPT !.bulk = others \cup {[b EXCEPT !.start = @ + BULK, !.picked = picked]}])
          \/ /\ b.start + BULK >= Cardinality(places)
             /\ Renders(IF b.add /\ picked # << >> THEN ToReview(over) ELSE over)
  /\ UNCHANGED <<ghost, acted>>

OpenReview == InResults /\ w.selection # << >> /\ Renders(ToReview(w)) /\ UNCHANGED ghost
-----------------------------------------------------------------------------
(* Review and apply. *)

InReview == Acts /\ w.step = "review" /\ ~w.report
Back == InReview /\ Renders([w EXCEPT !.step = "results", !.dry = "off"]) /\ UNCHANGED ghost

\* Tags, ports and the group; a scan scans a group, and needs its fields.
editReview == /\ InReview /\ \E g \in {"default", "none", "new"} : Renders(Replan([w EXCEPT !.group = g])) /\ UNCHANGED ghost
chooseScanMode ==
  /\ InReview
  /\ \E m \in {"none", "new"}, filled \in BOOLEAN :
       Renders(Replan([w EXCEPT !.scan = m, !.chosen = filled,
                                !.group = IF m # "none" /\ @ = "none" THEN "default" ELSE @]))
  /\ UNCHANGED ghost
scanReady == w.scan = "none" \/ w.chosen

DryTimer == w.dry = "timer" /\ Renders([w EXCEPT !.dry = "asked"]) /\ UNCHANGED <<ghost, acted>>
\* A selection of which everything is skipped makes an empty plan.
Planned == /\ w.dry = "asked" /\ \E p \in {"none", "empty", "some"} :
                Renders([w EXCEPT !.dry = "off", !.plan = p])
           /\ UNCHANGED <<ghost, acted>>

\* Apply: what is selected now, whichever selection the plan was made for.
applyNow == /\ InReview /\ ~w.busy /\ w.plan = "some" /\ scanReady
            /\ Renders([w EXCEPT !.busy = TRUE, !.applying = {[names |-> w.selection, scan |-> w.scan]}]) /\ UNCHANGED ghost
\* The import: a scan comes to scan the group with the names that are new, and
\* those that had targets too if their change was confirmed.
AfterImport ==
  UNION {LET added == {n \in DOMAIN a.names : a.names[n] = "add"} IN
         {[server EXCEPT !.known = @ \cup added, !.scanned = @ \cup s] :
            s \in IF a.scan = "none" THEN {{}} ELSE {added \ server.known, DOMAIN a.names}} :
         a \in w.applying}
\* Its report, or an error that may be that of the network.
Imported ==
  /\ w.applying # {} /\ UNCHANGED <<ghost, acted>>
  /\ LET told == [w EXCEPT !.applying = {}, !.busy = FALSE] IN
     \/ /\ server' \in AfterImport
        /\ w' \in {told, [told EXCEPT !.report = TRUE, !.dry = "off"]}
     \/ Renders(told)

\* Closing unmounts the wizard: the answers of what is on its way reach nobody.
Close ==
  /\ Acts /\ w' = [NewWizard EXCEPT !.open = FALSE] /\ UNCHANGED ghost
  /\ \/ UNCHANGED server
     \/ server' \in AfterImport
     \/ w.starts > 0 /\ server' = [server EXCEPT !.jobs = Append(@, "queued")]

WizardNext ==
  \/ OthersAdd \/ OthersScan \/ JobGoesOn \/ Configure \/ start \/ Started \/ resume \/ PollJob \/ JobPolled \/ cancel
  \/ setFilter \/ FilterTimer \/ TurnPage \/ loadResults \/ toggle \/ pickTarget
  \/ IncludeCovered \/ SelectNone \/ selectWhere \/ BulkPage \/ OpenReview
  \/ Back \/ editReview \/ chooseScanMode \/ DryTimer \/ Planned \/ applyNow \/ Imported \/ Close
WizardSpec == WizardInit /\ [][WizardNext]_wizardVars
-----------------------------------------------------------------------------
\* DnsDiscovery.tsx:159: a name the selection holds, and so one an import would
\* take, is in scope with a target it may have; a wildcard or a name only old
\* certificates have was picked by hand; and so was one that something scanned
\* all the time since the wizard was opened, unless the box was ticked: whatever
\* filters, pages, bulk selections and jobs came between, and whatever others
\* imported, scanned or deleted.  What is scanned after its row was read stays
\* selected.
BulkSkipsDoubtful ==
  \A n \in DOMAIN w.selection :
    \E i \in DOMAIN Found :
      /\ Found[i].name = n /\ InScope(Found[i])
      /\ w.selection[n] \in Found[i].matches \cup (IF Found[i].inv = "NEW" THEN {"add", n} ELSE {})
      /\ "doubt" \in Found[i].traits => n \in ghost.hand
      /\ n \in ghost.hand \/ ghost.covered \/ n \in ghost.free
=============================================================================
