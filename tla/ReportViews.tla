---------------------------- MODULE ReportViews -----------------------------
(***************************************************************************)
(* What js/report.js draws of a report: the overview, the cards of the    *)
(* findings and of the hosts under their filters, and the tables.         *)
(***************************************************************************)
EXTENDS ReportTables

CONSTANTS HostCap,     \* hosts rendered at most (500)
          TopCap,      \* top findings drawn at most (6)
          SuiteCap,    \* suites listed in the drawer at most (300)
          ExposureCap  \* exposed endpoints drawn at most (6)
-----------------------------------------------------------------------------
(* Drawn once. *)

pct(part, total) == IF total = 0 THEN 0 ELSE (200 * part + total) \div (2 * total)

\* Mutated form: what could not be tested does not count.
postureTone_untested(s) ==
  CASE s.critical + s.high + s.non_compliant > 0 -> "high-risk"
    [] s.critical + s.high + s.non_compliant = 0 /\ s.with_errors > 0 -> "needs-attention"
    [] OTHER -> "strong"
postureTone(s) ==
  CASE s.critical + s.high + s.non_compliant > 0 -> "high-risk"
    [] s.critical + s.high + s.non_compliant = 0 /\ s.with_errors + s.not_tested > 0
         -> "needs-attention"
    [] OTHER -> "strong"

initContext(s) == [posture |-> postureTone(s), compliant |-> pct(s.compliant, s.endpoints)]

Ids(seq) == [i \in DOMAIN seq |-> seq[i].id]
priorityActions(s) == Ids(First(s.top, 3))

\* The bar has a part for each severity that has findings.
initSeveritySummary(s) ==
  LET levels == Chosen(severities, {i \in DOMAIN severities : s.by_severity[severities[i]].unique > 0})
  IN [i \in DOMAIN levels |-> [level |-> levels[i], unique |-> s.by_severity[levels[i]].unique]]

AtLevel(e, level) == Cardinality({f \in e.findings : SeverityOf(f) = level})
Exposure(e) == 100 * AtLevel(e, "critical") + 10 * AtLevel(e, "high") + 3 * AtLevel(e, "medium")
               + AtLevel(e, "low")

Exposed(d) == {i \in DOMAIN d.endpoints : Exposure(d.endpoints[i]) > 0}
LessExposed(d) == After(d.endpoints, LAMBDA a, b : Exposure(b) - Exposure(a))
initExposure(d) == Ids(First(OrderBy(d.endpoints, Exposed(d), LessExposed(d)), ExposureCap))

initKpis(s) == [hosts |-> s.hosts, endpoints |-> s.endpoints, highRisk |-> s.high + s.critical,
                occurrences |-> s.occurrences, compliant |-> pct(s.compliant, s.endpoints)]

pqcTested(s) == s.pqc["hybrid"] + s.pqc["classical"] + s.pqc["error"]

donutCompliance(s) == pct(s.compliant, s.endpoints)

horizontalBars(counts) ==
  [l \in DOMAIN counts |-> pct(counts[l], Total(counts))]

\* The charts that are bars or a ring, and the remarks beside all of them.
Legacy(s) == s.tls["SSL 2.0"] + s.tls["SSL 3.0"] + s.tls["TLS 1.0"] + s.tls["TLS 1.1"]
Within60(s) == s.timeline["Within 7 days"] + s.timeline["Within 30 days"] + s.timeline["Within 60 days"]
initCharts(s) ==
  [donut |-> donutCompliance(s),
   bars |-> [tls |-> horizontalBars(s.tls), expiration |-> horizontalBars(s.timeline),
             pqc |-> IF pqcTested(s) = 0 THEN << >> ELSE horizontalBars(s.pqc)],
   legacy |-> Legacy(s) > 0,
   compliance |-> CASE s.non_compliant = s.endpoints /\ s.endpoints > 0 -> "all fail"
                    [] s.non_compliant > 0 -> "some fail" [] OTHER -> "none fails",
   certificates |-> CASE s.certificates["Expired"] > 0 -> "expired"
                      [] s.certificates["Expiring soon"] > 0 -> "expiring" [] OTHER -> "fine",
   expiration |-> CASE s.timeline["Already expired"] > 0 -> "expired"
                    [] Within60(s) > 0 -> "expiring" [] OTHER -> "fine",
   pqc |-> pqcTested(s) > 0]

initPqc(s) == IF pqcTested(s) = 0 THEN {} ELSE DOMAIN s.pqc

initTopFindings(s) == Ids(First(s.top, TopCap))

initCompliance(s) == IF s.non_compliant > 0 THEN "Non-compliant" ELSE "Compliant"

Overview(d) ==
  LET s == d.statistics
  IN [context |-> initContext(s), priority |-> priorityActions(s), kpis |-> initKpis(s),
      severities |-> initSeveritySummary(s), exposure |-> initExposure(d),
      charts |-> initCharts(s), top |-> initTopFindings(s), compliance |-> initCompliance(s),
      pqc |-> initPqc(s)]
-----------------------------------------------------------------------------
(* Findings. *)

FindingMatches(f, v) == /\ v.severity \in {"all", f.severity}
                        /\ v.q \in {"", f.id} \cup f.affected

ByRisk(findings) ==
  After(findings, LAMBDA f, g : FirstNonZero(severityOrder[f.severity] - severityOrder[g.severity],
                                             Cardinality(g.affected) - Cardinality(f.affected),
                                             f.title - g.title))

findingCard(f) == [id |-> f.id, severity |-> f.severity, impacted |-> Cardinality(f.affected)]

renderFindings(d, q, severity) ==
  LET v == [q |-> q, severity |-> severity]
      matching == {i \in DOMAIN d.findings : FindingMatches(d.findings[i], v)}
      shown == OrderBy(d.findings, matching, ByRisk(d.findings))
  IN [q |-> q, severity |-> severity, cards |-> [i \in DOMAIN shown |-> findingCard(shown[i])],
      count |-> Len(shown)]

resetFindingFilters(d) == renderFindings(d, "", "all")
-----------------------------------------------------------------------------
(* Hosts. *)

gradeScores == [g \in DOMAIN gradeOrder |-> CASE g = "A+" -> 100 [] g = "A" -> 95 [] g = "B" -> 80
                                              [] g = "C" -> 65 [] g = "D" -> 50 [] OTHER -> 0]
endpointScore(e) ==
  LET ok == Among(e.suites, LAMBDA s : s.verdict = "OK")
  IN IF e.suites = << >> THEN gradeScores[e.grade]
     ELSE (gradeScores[e.grade] + pct(ok, Len(e.suites)) + 1) \div 2

\* The endpoints at some places, by their host, in the order hosts first appear.
FirstOfHost(endpoints, I) == {i \in I : \A j \in I : endpoints[j].host = endpoints[i].host => i <= j}
OnHost(endpoints, I, host) == {i \in I : endpoints[i].host = host}
ByPort(endpoints) == After(endpoints, LAMBDA a, b : a.port - b.port)
groupEndpointsByHost(endpoints, I) ==
  LET first == Chosen(endpoints, FirstOfHost(endpoints, I))
  IN [n \in DOMAIN first |->
        [host |-> first[n].host,
         endpoints |-> OrderBy(endpoints, OnHost(endpoints, I, first[n].host), ByPort(endpoints))]]

\* hostSummary.
Score(es) == (2 * MapThenSumSet(LAMBDA i : endpointScore(es[i]), DOMAIN es) + Len(es)) \div (2 * Len(es))
WorstGrade(es) == CHOOSE g \in {gradeOrder[e.grade] : e \in ToSet(es)} :
                    \A e \in ToSet(es) : gradeOrder[e.grade] <= g
Gravest(es) == CHOOSE s \in {severityOrder[e.severity] : e \in ToSet(es)} :
                 \A e \in ToSet(es) : s <= severityOrder[e.severity]
Raised(es) == Total([i \in DOMAIN es |-> Cardinality(es[i].findings)])
Failed(es) == {i \in DOMAIN es : es[i].status # "compliant"}

\* compactCounts.
RaisedAt(es, level) == Total([i \in DOMAIN es |-> AtLevel(es[i], level)])

\* What the card of a host says, and the endpoints its button hands to the drawer.
hostEndpointCard(group) ==
  LET es == group.endpoints
  IN [host |-> group.host, endpoints |-> Ids(es), compliant |-> Failed(es) = {}, findings |-> Raised(es),
      high |-> RaisedAt(es, "critical") + RaisedAt(es, "high"), medium |-> RaisedAt(es, "medium")]

HostOrder(sort, a, b) ==
  LET x == a.endpoints  y == b.endpoints
  IN CASE sort = "score"      -> Score(y) - Score(x)
       [] sort = "findings"   -> Raised(y) - Raised(x)
       [] sort = "ports"      -> Len(y) - Len(x)
       [] sort = "expiration" -> LocaleRank[x[1].certificate.until] - LocaleRank[y[1].certificate.until]
       [] sort = "grade"      -> WorstGrade(x) - WorstGrade(y)
       [] sort = "severity"   -> FirstNonZero(Gravest(x) - Gravest(y), Raised(y) - Raised(x), 0)
       [] OTHER               -> LocaleRank[a.host] - LocaleRank[b.host]
HostsInOrder(groups, sort) ==
  OrderBy(groups, DOMAIN groups, After(groups, LAMBDA a, b : HostOrder(sort, a, b)))

EndpointMatches(e, v) == v.compliance \in {"all", e.status} /\ v.q \in {"", e.id, e.host} \cup e.findings

Matching(d, v) == {i \in DOMAIN d.endpoints : EndpointMatches(d.endpoints[i], v)}

\* Mutated form: the cap cuts the endpoints before they are grouped.
renderHosts_early_cap(d, v) ==
  LET matching == {i \in Matching(d, v) : Cardinality({j \in Matching(d, v) : j <= i}) <= HostCap}
      groups   == HostsInOrder(groupEndpointsByHost(d.endpoints, matching), v.sort)
  IN [q |-> v.q, compliance |-> v.compliance, sort |-> v.sort,
      cards |-> [n \in DOMAIN groups |-> hostEndpointCard(groups[n])],
      hosts |-> Len(groups), endpoints |-> Cardinality(matching), capped |-> matching # Matching(d, v)]
renderHosts(d, v) ==
  LET groups  == HostsInOrder(groupEndpointsByHost(d.endpoints, Matching(d, v)), v.sort)
      visible == First(groups, HostCap)
  IN [q |-> v.q, compliance |-> v.compliance, sort |-> v.sort,
      cards |-> [n \in DOMAIN visible |-> hostEndpointCard(visible[n])],
      hosts |-> Len(visible), endpoints |-> Cardinality(Matching(d, v)), capped |-> Len(groups) > Len(visible)]
-----------------------------------------------------------------------------
(* Tables of the page: rows are sequences of texts, the endpoint first.    *)

\* By text, the end of the certificate too, or by number, 0 for none.
DaysLeft(c) == IF c.days = NoDays THEN 0 ELSE c.days
CertificateOrder(sort, a, b) ==
  LET x == a.certificate  y == b.certificate
  IN CASE sort = "remaining" -> DaysLeft(x) - DaysLeft(y)
       [] sort = "status"    -> LocaleRank[x.status] - LocaleRank[y.status]
       [] sort = "issuer"    -> LocaleRank[x.issuer] - LocaleRank[y.issuer]
       [] sort = "key_size"  -> x.key_size - y.key_size
       [] sort = "endpoint"  -> RankOf[a.id] - RankOf[b.id]
       [] OTHER              -> LocaleRank[x.until] - LocaleRank[y.until]
ByCertificate(d, sort) == After(d.endpoints, LAMBDA a, b : CertificateOrder(sort, a, b))

renderCertificates(d, v) ==
  LET matching == {i \in DOMAIN d.endpoints : v.status \in {"all", d.endpoints[i].certificate.status}}
      shown == OrderBy(d.endpoints, matching, ByCertificate(d, v.sort))
  IN table(2, [i \in DOMAIN shown |-> <<shown[i].id, shown[i].certificate.trust>>], TRUE)

TrustTable(d) ==
  table(2, [i \in DOMAIN d.endpoints |-> <<d.endpoints[i].id, d.endpoints[i].certificate.trust>>], TRUE)

\* A row for each entry of each endpoint.
StoreRows(e) == [k \in DOMAIN e.certificate.stores |-> <<e.id, e.certificate.stores[k]>>]
SuiteRows(e) == [k \in DOMAIN e.suites |-> <<e.id, e.suites[k].name>>]

StoreTable(d) == table(2, Joined([i \in DOMAIN d.endpoints |-> StoreRows(d.endpoints[i])]), TRUE)
SuiteTable(d) == table(2, Joined([i \in DOMAIN d.endpoints |-> SuiteRows(d.endpoints[i])]), TRUE)
TechnicalTable(d) == table(1, [i \in DOMAIN d.endpoints |-> << d.endpoints[i].id >>], FALSE)

Endpoint(d, id) == CHOOSE e \in ToSet(d.endpoints) : e.id = id

\* initTlsChecks: a table for each endpoint that has checks, a row for each of them.
Checked(d) == {e.id : e \in {x \in ToSet(d.endpoints) : x.checks # << >>}}
CheckTable(d, id) == table(2, Endpoint(d, id).checks, FALSE)

\* The endpoints of a host, each with a button to its own details.
HostDrawerTable(d, ids) == table(2, [i \in DOMAIN ids |-> <<ids[i], Endpoint(d, ids[i]).status>>], FALSE)

\* The cipher suites of an endpoint, the largest of its tables.
EndpointDrawerTable(d, id) ==
  table(2, First(SuiteRows(Endpoint(d, id)), SuiteCap), FALSE)
=============================================================================
