----------------------------- MODULE ReportData -----------------------------
(***************************************************************************)
(* What a scan report is made of (tls_scanner/exports/report_model.py):   *)
(* endpoints with the verdicts of their suites, findings grouped over the *)
(* endpoints, and the statistics every section of a report quotes.        *)
(*                                                                         *)
(* A scan is [results, endpoints]: its rows in the order they were        *)
(* written, a row [endpoint, tls, name, verdict, finding, rsa, cells]     *)
(* being a suite with its verdict, the finding its reason is classified   *)
(* as and whether it is a TLS_RSA suite without forward secrecy; and, by  *)
(* their identifiers, what else is known of the endpoints.                *)
(***************************************************************************)
EXTENDS Lists, SequencesExt

CONSTANTS FindingDefinitions,  \* finding id -> [severity, title, rank]: of titles and ids, their order
          TopStatistics,       \* top findings kept by the statistics (10)
          MinCells,            \* cells of a row that belongs to an endpoint (8)
          NoDays               \* of a certificate whose end is not known

severities == <<"critical", "high", "medium", "low", "informational">>
severityOrder == [s \in ToSet(severities) \cup {"none"} |->
                    IF s = "none" THEN 5 ELSE (CHOOSE i \in 1..5 : severities[i] = s) - 1]
gradeOrder == [g \in {"A+", "A", "B", "C", "D", "F", "Not Tested"} |->
                 CASE g = "A+" -> 0 [] g = "A" -> 1 [] g = "B" -> 2 [] g = "C" -> 3
                   [] g = "D" -> 4 [] g = "F" -> 5 [] OTHER -> 6]
certOrder == {"Valid", "Expiring soon", "Expired", "Revoked", "Self-signed", "Weak key",
              "Weak signature", "Validation not tested"}

tlsOrder == {"SSL 2.0", "SSL 3.0", "TLS 1.0", "TLS 1.1", "TLS 1.2", "TLS 1.3"}
expirationOrder == {"Already expired", "Within 7 days", "Within 30 days", "Within 60 days",
                    "Within 90 days", "After 90 days"}

SeverityOf(f) == FindingDefinitions[f].severity

Among(seq, P(_)) == Cardinality({i \in DOMAIN seq : P(seq[i])})

\* The worst row decides.
endpoint_status(verdicts) == CASE "ERROR" \in verdicts -> "error"
                               [] "KO" \in verdicts -> "non_compliant"
                               [] "OK" \in verdicts -> "compliant"
                               [] OTHER -> "not_tested"

\* An endpoint as observed: its suites are its rows, shorter ones are skipped.
RowsOf(results, id) ==
  Chosen(results, {i \in DOMAIN results : Len(results[i].cells) >= MinCells /\ results[i].endpoint = id})
Observation(o, results) ==
  [id |-> o.id, host |-> o.host, port |-> o.port, grade |-> o.grade, pqc |-> o.pqc,
   suites |-> RowsOf(results, o.id), certificate |-> o.certificate, checks |-> o.checks]
rows_by_endpoint(scan) == [i \in DOMAIN scan.endpoints |-> Observation(scan.endpoints[i], scan.results)]

\* The findings a row raises, each with what raises it: the verdict may raise
\* again what the suite raises.  certificate.findings are those of the
\* certificate and of the PQC probe.
RaisedBy(row) ==
  (IF row.verdict \in {"KO", "ERROR"} THEN {<<"verdict", row.finding>>} ELSE {})
  \cup (IF row.rsa THEN {<<"suite", "TLS_NO_FORWARD_SECRECY">>} ELSE {})
FindingIds(o) == o.certificate.findings \cup UNION {{p[2] : p \in RaisedBy(o.suites[i])} : i \in DOMAIN o.suites}
HighestSeverity(ids) ==
  IF ids = {} THEN "none"
  ELSE CHOOSE s \in {SeverityOf(f) : f \in ids} :
         \A f \in ids : severityOrder[s] <= severityOrder[SeverityOf(f)]

EndpointReport(o) ==
  [id |-> o.id, host |-> o.host, port |-> o.port, grade |-> o.grade, pqc |-> o.pqc,
   status |-> endpoint_status({o.suites[i].verdict : i \in DOMAIN o.suites}),
   errors |-> \E i \in DOMAIN o.suites : o.suites[i].verdict = "ERROR",
   findings |-> FindingIds(o), severity |-> HighestSeverity(FindingIds(o)),
   versions |-> {o.suites[i].tls : i \in DOMAIN o.suites},
   suites |-> o.suites, certificate |-> o.certificate, checks |-> o.checks]

\* add_finding: one group per finding, the endpoints it affects.
FoundIn(obs) == UNION {FindingIds(obs[i]) : i \in DOMAIN obs}
Finding(f, obs) == [id |-> f, severity |-> SeverityOf(f), title |-> FindingDefinitions[f].title,
                    affected |-> {obs[i].id : i \in {j \in DOMAIN obs : f \in FindingIds(obs[j])}}]

BySeverity(ids) ==
  {p \in ids \X ids :
     FirstNonZero(severityOrder[SeverityOf(p[1])] - severityOrder[SeverityOf(p[2])],
                  FindingDefinitions[p[1]].rank - FindingDefinitions[p[2]].rank, 0) < 0}
GroupedFindings(obs) ==
  LET ids == Listed(FoundIn(obs), BySeverity(FoundIn(obs)))
  IN [i \in DOMAIN ids |-> Finding(ids[i], obs)]

\* One occurrence each time that a row, or a certificate, raises the finding.
Occurrences(f, obs) ==
  Total([i \in DOMAIN obs |-> Total([k \in DOMAIN obs[i].suites |->
                                        Cardinality({p \in RaisedBy(obs[i].suites[k]) : p[2] = f})])
                              + (IF f \in obs[i].certificate.findings THEN 1 ELSE 0)])

MostAffected(findings) ==
  After(findings, LAMBDA f, g : FirstNonZero(Cardinality(g.affected) - Cardinality(f.affected),
                                             severityOrder[f.severity] - severityOrder[g.severity],
                                             f.title - g.title))
TopFindings(findings) == First(OrderBy(findings, DOMAIN findings, MostAffected(findings)), TopStatistics)

With(endpoints, field, value) == Among(endpoints, LAMBDA e : e[field] = value)
WithCertificate(endpoints, status) == Among(endpoints, LAMBDA e : e.certificate.status = status)
FindingsOf(findings, level) == {f \in ToSet(findings) : f.severity = level}
OccurrencesOf(some, obs) == Total([f \in some |-> Occurrences(f.id, obs)])

Expires(certificate) ==
  LET days == certificate.days IN
  CASE days = NoDays -> ""
    [] days # NoDays /\ days < 0 -> "Already expired"
    [] days \in 0..7 -> "Within 7 days"
    [] days \in 8..30 -> "Within 30 days"
    [] days \in 31..60 -> "Within 60 days"
    [] days \in 61..90 -> "Within 90 days"
    [] OTHER -> "After 90 days"

build_statistics(endpoints, findings, obs) ==
  [hosts |-> Cardinality({e.host : e \in ToSet(endpoints)}),
   endpoints |-> Len(endpoints),
   compliant |-> With(endpoints, "status", "compliant"),
   non_compliant |-> With(endpoints, "status", "non_compliant"),
   with_errors |-> Among(endpoints, LAMBDA e : e.status = "error" \/ e.errors),
   not_tested |-> With(endpoints, "status", "not_tested"),
   occurrences |-> OccurrencesOf(ToSet(findings), obs),
   critical |-> Cardinality(FindingsOf(findings, "critical")),
   high |-> Cardinality(FindingsOf(findings, "high")),
   by_severity |-> [l \in ToSet(severities) |->
                      [unique |-> Cardinality(FindingsOf(findings, l)),
                       occurrences |-> OccurrencesOf(FindingsOf(findings, l), obs)]],
   top |-> TopFindings(findings),
   certificates |-> [s \in certOrder |-> WithCertificate(endpoints, s)],
   tls |-> [v \in tlsOrder |-> Among(endpoints, LAMBDA e : v \in e.versions)],
   timeline |-> [l \in expirationOrder |-> Among(endpoints, LAMBDA e : Expires(e.certificate) = l)],
   pqc |-> [r \in {"hybrid", "classical", "untested", "error"} |-> With(endpoints, "pqc", r)]]

\* raw_results, what the CSV of the page holds: every row, as it was written.
RawResults(results) == [i \in DOMAIN results |-> results[i].cells]

build_report_model(scan) ==
  LET obs       == rows_by_endpoint(scan)
      endpoints == [i \in DOMAIN obs |-> EndpointReport(obs[i])]
      findings  == GroupedFindings(obs)
  IN [endpoints |-> endpoints, findings |-> findings,
      statistics |-> build_statistics(endpoints, findings, obs),
      raw_results |-> RawResults(scan.results)]
=============================================================================
