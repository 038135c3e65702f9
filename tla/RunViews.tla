------------------------------ MODULE RunViews ------------------------------
(***************************************************************************)
(* What the pages draw of the scan runs an answer listed: GroupedRuns.tsx, *)
(* RecentRuns.tsx, ScanProgress.tsx, DataTable.tsx and the lists of        *)
(* Scans.tsx, MyTasks.tsx, Dashboard.tsx and Reports.tsx.  Pure operators. *)
(*                                                                         *)
(* A run is [id, def, sched, name, mine, asked, status, phase, stop, nc]:  *)
(* ids grow with queued_at, def is NoDef once the definition is gone, sched*)
(* is NoDef but for a run of a schedule, nc is the number of non-compliant *)
(* endpoints, Unknown without a summary.                                   *)
(***************************************************************************)
EXTENDS Lists

CONSTANTS NoDef

Unknown == -1
Active(r) == r.status \in {"queued", "running"}
Newer(rows) == {p \in (DOMAIN rows) \X (DOMAIN rows) : rows[p[1]].id > rows[p[2]].id}
NewestOf(rows, I) == Take(rows, Listed(I, Newer(rows)))
NewestFirst(rows) == NewestOf(rows, DOMAIN rows)

\* A definition without a run left has none; runs of a definition that is gone
\* are told by their name.
GroupKey(r) == IF r.def # NoDef THEN <<"definition", r.def>> ELSE <<"name", r.name>>
OfGroup(rows, key) == {i \in DOMAIN rows : GroupKey(rows[i]) = key}

\* The run that begins a group: no earlier one has its key.  Mutated form: only
\* the run just before is looked at.
Heads_last(rows) == {i \in DOMAIN rows : i = 1 \/ GroupKey(rows[i - 1]) # GroupKey(rows[i])}
Heads(rows) == {i \in DOMAIN rows : \A j \in OfGroup(rows, GroupKey(rows[i])) : i <= j}
Group(rows, head) ==
  [key |-> GroupKey(head), name |-> head.name, def |-> head.def,
   runs |-> Chosen(rows, OfGroup(rows, GroupKey(head)))]

\* One group per scan, the group of the most recent run first.
Groups(rows) ==
  LET newest == NewestFirst(rows)  heads == Chosen(newest, Heads(newest))
  IN [n \in DOMAIN heads |-> Group(newest, heads[n])]

\* The trend: what the last two results differ by.
Delta(g) ==
  LET done == SelectSeq(g.runs, LAMBDA r : r.nc # Unknown)
  IN IF Len(done) > 1 THEN done[1].nc - done[2].nc ELSE 0

\* What the row of a group and the rows under it offer.
Offers(r, operator) ==
  (IF ~Active(r) /\ operator THEN {"delete"} ELSE {})
  \cup (IF Active(r) /\ (r.mine \/ operator) THEN {"cancel"} ELSE {})
HeadOffers(g) == IF g.def # NoDef THEN {"rescan"} ELSE {}

\* GroupedRuns: the groups, those in `open' unfolded; a search on the name.
GroupedRuns(rows, open, search, operator) ==
  LET named == SelectSeq(Groups(rows), LAMBDA g : search = "" \/ g.name = search)
      Row(g) == [key |-> g.key, status |-> g.runs[1].status, nc |-> g.runs[1].nc,
                 count |-> Len(g.runs), delta |-> Delta(g), offers |-> HeadOffers(g),
                 under |-> IF g.key \in open
                           THEN [i \in DOMAIN g.runs |-> <<g.runs[i].id, Offers(g.runs[i], operator)>>]
                           ELSE << >>]
  IN [i \in DOMAIN named |-> Row(named[i])]

\* RecentRuns, on the dashboard: a chevron only where there is a history.
RecentRuns(rows, open) ==
  LET groups == Groups(rows) IN
  [i \in DOMAIN groups |->
     [id |-> groups[i].runs[1].id, status |-> groups[i].runs[1].status, count |-> Len(groups[i].runs),
      under |-> IF Len(groups[i].runs) > 1 /\ groups[i].key \in open
                THEN [j \in DOMAIN groups[i].runs |-> groups[i].runs[j].id] ELSE << >>]]

\* DataTable over the runs: filtered by the ticked statuses (none ticked: no
\* filter), sorted by one column or left in the order of the answer.
FlatTable(rows, ticked, sort) ==
  LET visible == {i \in DOMAIN rows : ticked = {} \/ rows[i].status \in ticked}
  IN CASE sort = "date asc"  -> Take(rows, Listed(visible, {<<p[2], p[1]>> : p \in Newer(rows)}))
       [] sort = "date desc" -> NewestOf(rows, visible)
       [] OTHER              -> Chosen(rows, visible)

\* A click on the header of the date.
Cycle(sort) == CASE sort = "date asc" -> "date desc" [] sort = "date desc" -> "none" [] OTHER -> "date asc"

\* The values the filter proposes, and whether the table says rows are hidden.
Options(rows) == {rows[i].status : i \in DOMAIN rows}
SaysHidden(rows, ticked) == ticked # {} \/ Len(FlatTable(rows, ticked, "none")) # Len(rows)

HasReport(r) == r.status = "completed"

\* MyTasks: what runs, the last failures, the last reports.
Tasks(rows) == [running |-> SelectSeq(rows, Active),
                failed  |-> First(SelectSeq(rows, LAMBDA r : r.status \in {"failed", "expired"}), 5),
                reports |-> First(SelectSeq(rows, HasReport), 5)]

\* The three numbers of the dashboard.
Figures(rows) ==
  LET N(statuses) == Cardinality({i \in DOMAIN rows : rows[i].status \in statuses})
  IN <<N({"running", "queued"}), N({"completed", "partial"}), N({"failed", "expired"})>>

\* ScanProgress: the steps of an engine run, each done, current or pending.
BASE_STEPS == <<"starting", "discovery", "tls_scan", "grading", "reporting">>
StepStates(r, pqc) ==
  LET steps == IF pqc THEN <<"starting", "pqc_preflight">> \o Tail(BASE_STEPS) ELSE BASE_STEPS
      at == {i \in DOMAIN steps : steps[i] = r.phase}
      current == IF r.status = "queued" THEN 0 ELSE IF at = {} THEN 1 ELSE CHOOSE i \in at : TRUE
  IN [i \in DOMAIN steps |->
        <<steps[i], IF i < current THEN "done" ELSE IF i = current THEN "current" ELSE "pending">>]
=============================================================================
