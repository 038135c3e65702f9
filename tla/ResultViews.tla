----------------------------- MODULE ResultViews ----------------------------
(***************************************************************************)
(* What the dashboard and the page of a run draw of the results:           *)
(* components/dashboard/*.tsx, Dashboard.tsx, RunDetail.tsx,               *)
(* GroupedEndpoints.tsx and PkiTrust.tsx.  Pure operators over the answers *)
(* of RunResults; absent data (an answer that has not come) is not drawn.  *)
(***************************************************************************)
EXTENDS RunResults, FiniteSetsExt

CONSTANTS HOSTNAME_SAN, \* the number of that check
          TrustedBy     \* per certificate: the trust stores that accept it

-----------------------------------------------------------------------------
(* The posture. *)

\* ComplianceBreakdown: a bar of the parts that are not empty over a legend of
\* all three, with their share (in tenths of a percent).
Parts(p) == <<p.compliant, p.non_compliant, p.unevaluated>>
ComplianceBreakdown(p) ==
  IF p.total = 0 THEN [says |-> "dash.noData", bar |-> {}, legend |-> << >>, mixed |-> FALSE]
  ELSE [says |-> <<p.total, p.scans>>,
        bar |-> {i \in 1 .. 3 : Parts(p)[i] # 0},
        legend |-> [i \in 1 .. 3 |-> <<Parts(p)[i], (1000 * Parts(p)[i]) \div p.total>>],
        mixed |-> Cardinality(p.policies) > 1]

\* SecurityKpis: a value, its tone and what is said under it.
SecurityKpis(p) ==
  LET evaluated == p.compliant + p.non_compliant
      watched == p.expired + p.expiring
      priority == p.critical + p.high
  IN [compliance |-> IF p.rate # NoRate
                     THEN [value |-> p.rate, hint |-> <<p.compliant, evaluated>>, apart |-> p.unevaluated]
                     ELSE [value |-> NoRate, hint |-> << >>, apart |-> p.unevaluated],
      noncompliant |-> [value |-> p.non_compliant, tone |-> IF p.non_compliant > 0 THEN "red" ELSE "green",
                        links |-> p.non_compliant > 0, none |-> p.non_compliant = 0 /\ evaluated > 0],
      findings |-> [value |-> priority, tone |-> IF priority > 0 THEN "red" ELSE "green",
                    tip |-> p.occurrences, hint |-> <<p.critical, p.high>>],
      certs |-> [value |-> watched,
                 tone |-> IF p.expired > 0 THEN "red" ELSE IF watched > 0 THEN "amber" ELSE "green",
                 hint |-> <<p.expired, p.expiring>>, list |-> FirstOf(p.items, Sooner, 3)]]

\* Vigilance: the findings, then the checks that failed, each with the run its
\* chevron opens.  The answer fixes one of the runs a check failed in.
Vigilance(p) == [findings |-> p.vigilance, checks |-> p.checks, empty |-> p.vigilance = {} /\ p.checks = {}]

\* Where a run is among some, from the first.
Place(rs, r) == Cardinality({q \in rs : q.id <= r.id})
CeilDiv(n, m) == (n + m - 1) \div m

Dot(p, at) == [id |-> p.id, at |-> at, rate |-> p.rate, changed |-> ~p.comparable]

\* ComplianceTrend: the points that have a rate, segments between two runs in
\* succession that both have one, and the detail of the point in focus, of the
\* last one when it is none of them.
ComplianceTrend(tr, focus, compact) ==
  LET points == tr.points  n == Cardinality(points)
      rated == {p \in points : p.rate # NoRate}
      focused == {p \in points : p.id = focus}
      every == CeilDiv(n, IF compact THEN 4 ELSE 8)
      place == [p \in points |-> Place(points, p)]
  IN [select |-> IF Cardinality(tr.defs) > 1 THEN tr.def ELSE NoDefinition,
      dots |-> {Dot(p, place[p]) : p \in rated},
      segments |-> {pq \in rated \X rated : place[pq[2]] = place[pq[1]] + 1},
      labels |-> {p \in points : (place[p] - 1) % every = 0 \/ place[p] = n},
      time |-> Cardinality({p.day : p \in points}) = 1,
      shown |-> IF focused # {} THEN focused ELSE Newest(points),
      legend |-> \E p \in points : ~p.comparable]
-----------------------------------------------------------------------------
(* Evolution: the reference runs, what the comparison counts, the findings  *)
(* per severity before and after, and a bar per run of the window.          *)

AllFindings(run) == run.findings[1] + run.findings[2] + run.findings[3] + run.findings[4]
Bar(runs, r) ==
  LET n == Cardinality(runs) IN
  [id |-> r.id, total |-> AllFindings(r), stacked |-> {lv \in DOMAIN LEVELS : r.findings[lv] > 0},
   dated |-> n <= 8 \/ (Place(runs, r) - 1) % CeilDiv(n, 8) = 0]
Series(runs) == [max |-> Max({1} \cup {AllFindings(r) : r \in runs}), bars |-> {Bar(runs, r) : r \in runs}]
Message(data) ==
  CASE data.status = "invalid_range" -> "evo.invalid"
    [] data.status = "no_runs" -> "evo.noRuns"
    [] data.status = "single_run" -> "evo.single"
    [] OTHER -> ""
BySeverity(before, after) == [lv \in DOMAIN LEVELS |-> <<before[lv], after[lv], after[lv] - before[lv]>>]
Evolution(data) ==
  [says |-> Message(data),
   card |-> IF data.status # "ok" THEN {}
            ELSE {[from |-> a.id, to |-> b.id, warnings |-> c.warnings,
                   tiles |-> c.counts, rows |-> BySeverity(a.findings, b.findings),
                   endpoints |-> <<c.added, c.removed>>, moves |-> <<c.improved, c.degraded>>,
                   certificates |-> c.certificates, lists |-> [new |-> c.new, fixed |-> c.fixed]] :
                    a \in data.from, b \in data.to, c \in data.cmp},
   series |-> IF data.series = {} THEN {} ELSE {Series(data.series)}]

\* Dashboard.tsx: the four zones of one answer.
Dashboard(finished, d, from, to) ==
  LET p == posture(finished)  tr == trend(finished, d) IN
  [kpis |-> SecurityKpis(p), breakdown |-> ComplianceBreakdown(p), vigilance |-> Vigilance(p),
   trend |-> ComplianceTrend(tr, 0, FALSE), evolution |-> Evolution(between(finished, tr.def, from, to))]
-----------------------------------------------------------------------------
(* The page of a run. *)

GRADES == <<"A+", "A", "B", "C", "D", "E", "F">>
NoGrade == "-"
worstGrade(list) ==
  LET at == {i \in DOMAIN GRADES : \E e \in list : e.grade = GRADES[i]}
  IN IF at = {} THEN NoGrade ELSE GRADES[Max(at)]

hostOf(e) == IF e.host # "" THEN e.host ELSE e.ip
endpointLabel(e) == <<hostOf(e), e.port>>

\* The row of an endpoint, keyed by its identifier.
endpointColumns(e) ==
  [grade |-> e.grade, status |-> <<e.status>>, tls |-> e.tls,
   cert |-> IF e.cert = NoCert THEN {} ELSE {NotAfter[e.cert]}]
Line(e) == [id |-> EndpointId(e), label |-> endpointLabel(e), cells |-> endpointColumns(e)]
Lines(rows) == {Line(e) : e \in rows}

\* The row of a host of several endpoints.
Mixed == "mixed"
Summed(list) ==
  LET bad == Cardinality({e \in list : e.status = "non_compliant"})
      statuses == {e.status : e \in list}
      expiries == {NotAfter[e.cert] : e \in {x \in list : x.cert # NoCert}}
  IN [grade |-> worstGrade(list),
      status |-> IF bad > 0 THEN <<bad, Cardinality(list)>>
                 ELSE IF Cardinality(statuses) = 1 THEN <<CHOOSE s \in statuses : TRUE>> ELSE <<Mixed>>,
      tls |-> UNION {e.tls : e \in list},
      cert |-> IF expiries = {} THEN {} ELSE {Min(expiries)}]

\* GroupedEndpoints: a plain row for a host with one endpoint; else a row for
\* the host, and its endpoints under it when it is unfolded.
\* Mutated form: one endpoint per host is kept.
GroupedEndpoints_one(rows, open) ==
  {[host |-> h, head |-> << >>, under |-> {Line(CHOOSE e \in rows : hostOf(e) = h)}] : h \in {hostOf(e) : e \in rows}}
OfHost(rows, h) == {e \in rows : hostOf(e) = h}
HostRow(rows, open, h) ==
  LET list == OfHost(rows, h) IN
  [host |-> h,
   head |-> IF Cardinality(list) = 1 THEN << >> ELSE <<Cardinality(list), Summed(list)>>,
   under |-> IF Cardinality(list) = 1 \/ h \in open THEN Lines(list) ELSE {}]
GroupedEndpoints(rows, open) == {HostRow(rows, open, h) : h \in {hostOf(e) : e \in rows}}
PlainRow(e) == [host |-> hostOf(e), head |-> << >>, under |-> {Line(e)}]

\* PkiTrust: the endpoints whose certificate has a trust class; the name is
\* judged by the complementary check alone.
nameStatus(e) ==
  IF HOSTNAME_SAN \in DOMAIN e.checks /\ e.checks[HOSTNAME_SAN] \in {"PASS", "FAIL"}
  THEN e.checks[HOSTNAME_SAN] ELSE "run.pkiNotTested"
PkiTrust(rows) ==
  {[label |-> endpointLabel(e), trust |-> e.trust, by |-> TrustedBy[e.cert],
    reason |-> e.trust \in {"UNTRUSTED", "ERROR"}, name |-> nameStatus(e)] : e \in {x \in rows : x.trust # ""}}

\* The table of the findings: the endpoints each applies to, with their labels,
\* which several addresses of one name share.
FindingRow(r, f) ==
  [finding |-> f, severity |-> Severity[f],
   affected |-> {<<EndpointId(e), endpointLabel(e)>> : e \in {x \in r.endpoints : f \in x.found}}]
findingRows(r) == {FindingRow(r, f) : f \in UNION {e.found : e \in r.endpoints}}
tlsCheckRows(r) == UNION {{<<EndpointId(e), endpointLabel(e), c, e.checks[c]>> : c \in DOMAIN e.checks} : e \in r.endpoints}

\* ComparisonView: a list per verdict, a finding once in each.
FindingList(pairs) == {[finding |-> f, affected |-> {p[2] : p \in {q \in pairs : q[1] = f}}] : f \in {p[1] : p \in pairs}}
ComparisonView(cmp) ==
  [warnings |-> cmp.warnings,
   lists |-> <<FindingList(cmp.new), FindingList(cmp.fixed), FindingList(cmp.persistent), FindingList(cmp.not_retested)>>,
   changes |-> cmp.changes # {}]

\* `with' is the run that ?compare= names, none without it: the comparison then
\* waits for a click, `cmp'.
RunDetail(r, byHost, open, cmp, with) ==
  LET s == Summary(r) IN
  [metrics |-> <<s.total, s.compliant, s.non_compliant, s.critical, s.errors>>,
   tones |-> <<"green", IF s.non_compliant > 0 THEN "red" ELSE "", IF s.critical > 0 THEN "red" ELSE "",
               IF s.errors > 0 THEN "amber" ELSE "">>,
   notes |-> {n \in {"run.noTls", "run.partial"} :
                IF n = "run.noTls" THEN r.status = "completed" /\ r.endpoints = {}
                ELSE r.status = "partial" \/ r.skipped # {}},
   compared |-> IF cmp \/ with # {} THEN {ComparisonView(c) : c \in Compare(r, with)} ELSE {},
   endpoints |-> IF byHost THEN GroupedEndpoints(r.endpoints, open)
                 ELSE {PlainRow(e) : e \in r.endpoints},
   pki |-> PkiTrust(r.endpoints), checks |-> tlsCheckRows(r), findings |-> findingRows(r)]
-----------------------------------------------------------------------------
(* What must hold of every history of runs. *)

RunOf(id) == CHOOSE r \in stored : r.id = id

\* The entries of the lists of the page of a comparison, a finding once in each.
Entries(lists) == UNION {{l.finding} \X l.affected : l \in lists}
OncePerFinding(lists) == \A l, m \in lists : l.finding = m.finding => l = m

\* What a card of a definition says of its two runs, and the comparison its link opens.
AddsUp(c, d) ==
  LET old == RunOf(c.from)  new == RunOf(c.to)
      cmp == compare_runs(old, new)
      opened == RunDetail(new, TRUE, {}, FALSE, {old}).compared
  IN /\ old.id < new.id /\ old.def = d /\ new.def = d
     /\ \A i \in DOMAIN LEVELS :
          c.rows[i][3] = Occurrences(cmp.new, LEVELS[i]) - Occurrences(cmp.fixed, LEVELS[i])
                         - Occurrences(cmp.not_retested, LEVELS[i])
     /\ c.tiles[1] + c.tiles[3] = Cardinality(Pairs(new))
     /\ c.tiles[2] + c.tiles[3] + c.tiles[4] = Cardinality(Pairs(old))
     /\ c.endpoints[2] = Cardinality(Ids(old) \ Ids(new))
     /\ \A p \in cmp.fixed : p[2] \notin Ids(old) \ Ids(new)
     /\ \A v \in opened : \A k \in 1 .. 4 :
          OncePerFinding(v.lists[k]) /\ Cardinality(Entries(v.lists[k])) = c.tiles[k]

\* Evolution.tsx over evolution.py and comparison.py: for all the dates the card
\* proposes or refuses, what it says adds up, of an endpoint it counts as gone it
\* calls nothing fixed, and the last bar is that of the second run.  An endpoint
\* that is in error in the second run is not gone, and its findings come out fixed.
EvolutionAddsUp ==
  \A d \in Definitions, from, to \in 0 .. LastDay :
    \A drawn \in {Evolution(between(Finished, d, from, to))} :
    /\ from > to => drawn.card = {} /\ drawn.series = {}
    /\ \A c \in drawn.card : /\ AddsUp(c, d)
                             /\ \A s \in drawn.series : \A bar \in Newest(s.bars) : bar.id = c.to

\* The observation that counts for a service: of the last run that saw it, among
\* the runs the dashboard reads that no later finished run of their definition replaces.
CurrentRuns == {r \in Finished : \A s \in Finished : s.def = r.def /\ r.def # NoDefinition => s.id <= r.id}
ServicesSeen == UNION {{EndpointKey(e) : e \in r.endpoints} : r \in CurrentRuns}
SeenIn(k) == Latest({r \in CurrentRuns : \E e \in r.endpoints : EndpointKey(e) = k})
Seen(k) == CHOOSE e \in SeenIn(k).endpoints : EndpointKey(e) = k

\* seen is what was observed of every service, p the posture.
Having(seen, status) == {k \in ServicesSeen : seen[k].status = status}
Grave == {f \in DOMAIN Severity : Severity[f] \in {"critical", "high"} /\ f \notin IGNORED_FINDINGS}
CountsAreSeen(p, seen) ==
  LET kpis == SecurityKpis(p)  drawn == ComplianceBreakdown(p) IN
  /\ kpis.noncompliant.value = Cardinality(Having(seen, "non_compliant"))
  /\ ServicesSeen # {} =>
       /\ drawn.legend[1][1] = Cardinality(Having(seen, "compliant"))
       /\ drawn.legend[1][1] + drawn.legend[2][1] + drawn.legend[3][1] = Cardinality(ServicesSeen)
  /\ kpis.findings.tip = Cardinality({x \in ServicesSeen \X Grave : x[2] \in seen[x[1]].found})
  /\ kpis.certs.hint[1] = Cardinality({c \in {seen[k].cert : k \in ServicesSeen} \ {NoCert} : NotAfter[c] < today})

\* The chevron opens a run that lists the finding, for a service counted here.
ChevronOpensIt(item, seen) ==
  \E k \in ServicesSeen :
    /\ SeenIn(k).id = item.run
    /\ \E row \in findingRows(RunOf(item.run)) :
         row.finding = item.finding /\ <<EndpointId(seen[k]), endpointLabel(seen[k])>> \in row.affected

\* The last point of a trend is the picture of a posture.
EndsAs(tr, p) ==
  \E point \in Newest(tr.points) :
    /\ point.rate = SecurityKpis(p).compliance.value /\ point.total = p.total
    /\ point.rate # NoRate <=> \E dot \in ComplianceTrend(tr, 0, TRUE).dots : dot.id = point.id

\* The dashboard over dashboard.py: every service counts once, as the newest run
\* in scope saw it, the anomalies are those of that picture, and with one scan in
\* scope it is the last point of its trend.
PostureIsCurrent ==
  \A p \in {posture(Finished)}, seen \in {[k \in ServicesSeen |-> Seen(k)]} :
    /\ CountsAreSeen(p, seen)
    /\ \A item \in Vigilance(p).findings : ChevronOpensIt(item, seen)
    /\ p.scans = 1 => EndsAs(trend(Finished, NoDefinition), p)

\* The lines a table shows, each under a host, and as many as its hosts say they have.
LinesShown(table) == UNION {{row.host} \X row.under : row \in table}
LinesSaid(table) == UNION {{row.host} \X (1 .. IF row.head = << >> THEN 1 ELSE row.head[1]) : row \in table}
OncePerHost(table) == \A a, b \in table : a.host = b.host => a = b

\* GroupedEndpoints.tsx: under its host or alone, every endpoint of a run has one
\* row, and the count of the host covers those that are folded.
EveryEndpointListedOnce ==
  \A r \in stored :
    LET hosts == {hostOf(e) : e \in r.endpoints}
        open == RunDetail(r, TRUE, hosts, FALSE, {}).endpoints
        closed == RunDetail(r, TRUE, {}, FALSE, {}).endpoints
        flat == RunDetail(r, FALSE, {}, FALSE, {})
    IN /\ UNION {row.under : row \in open} = Lines(r.endpoints)
       /\ OncePerHost(open) /\ OncePerHost(closed)
       /\ Cardinality(LinesShown(open)) = flat.metrics[1]
       /\ Cardinality(LinesSaid(closed)) = flat.metrics[1]
       /\ Cardinality(LinesShown(flat.endpoints)) = flat.metrics[1]
=============================================================================
