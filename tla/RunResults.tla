----------------------------- MODULE RunResults -----------------------------
(***************************************************************************)
(* What is computed from the results that finished runs leave: the         *)
(* comparison of two runs (services/comparison.py), the evolution between  *)
(* two dates (services/evolution.py), the posture and the trend of the     *)
(* dashboard (services/dashboard.py).                                      *)
(*                                                                         *)
(* Findings, checks and certificates are numbered in the order of their identifiers.  An *)
(* endpoint is [ip, port, host, grade, status, errors, tls, suites, cert,  *)
(* trust, checks, found]: what the engine's report says of it, checks a function  *)
(* from the checks that ran to their verdicts, found its findings.         *)
(***************************************************************************)
EXTENDS Integers, Sequences, FiniteSets

CONSTANTS
  Definitions, NoDefinition,
  Outcomes,        \* per definition, what a run can report: [endpoints, skipped, ended]
  Plan,            \* per definition and day: [passes, profile, policies] of a run planned then
  Severity,        \* of every finding
  IGNORED_FINDINGS,
  NotAfter,        \* the day every certificate expires
  NoCert,
  DASHBOARD_RUNS,  \* how many runs the dashboard reads
  EXPIRY_WINDOW_DAYS, TREND_POINTS, VIGILANCE_LIMIT, MAX_LISTED, MAX_SERIES,
  LastDay, MaxFinished, MaxDeleted \* bounds

VARIABLES
  stored,      \* the runs that are kept, numbered in the order they finished
  definitions, \* those that exist
  today,
  created,     \* how many runs were finished
  deleted      \* and how many were deleted

resultVars == <<stored, definitions, today, created, deleted>>

LEVELS == <<"critical", "high", "medium", "low">>
FINISHED == {"completed", "partial"}
NoRate == -1

EndpointId(e) == <<e.ip, e.port>>
EndpointKey(e) == <<e.host, e.ip, e.port>>

\* A report has finitely many endpoints, each once; it knows its findings, and
\* when its certificates expire.
ReportOK(endpoints) ==
  /\ IsFiniteSet(endpoints)
  /\ \A a, b \in endpoints : EndpointId(a) = EndpointId(b) => a = b
  /\ \A e \in endpoints : /\ IsFiniteSet(e.found) /\ e.found \subseteq DOMAIN Severity
                          /\ e.cert # NoCert => NotAfter[e.cert] \in Int
ASSUME ResultsAssumption ==
  /\ \A d \in Definitions : \A o \in Outcomes[d] : ReportOK(o.endpoints)
  /\ DASHBOARD_RUNS \in Nat \ {0} /\ TREND_POINTS \in Nat \ {0} /\ MAX_SERIES \in Nat \ {0}
  /\ EXPIRY_WINDOW_DAYS \in Nat /\ LastDay \in Nat

final_status(o) ==
  CASE o.ended # "" -> o.ended
    [] o.ended = "" /\ (o.skipped # {} \/ \E e \in o.endpoints : e.errors) -> "partial"
    [] OTHER -> "completed"

ResultsInit == stored = {} /\ definitions = Definitions /\ today = 1 /\ created = 0 /\ deleted = 0

\* persist_results, at the end of a run of the definition d.
Finish(d) ==
  /\ d \in definitions /\ created < MaxFinished
  /\ created' = created + 1
  /\ \E o \in Outcomes[d] :
       stored' = stored \cup {[id |-> created + 1, def |-> d, day |-> today, plan |-> Plan[d][today],
                               status |-> final_status(o), endpoints |-> o.endpoints, skipped |-> o.skipped]}
  /\ UNCHANGED <<definitions, today, deleted>>

\* A user or the retention deletes a run; its endpoints and findings go with it.
DeleteRun ==
  /\ deleted < MaxDeleted /\ deleted' = deleted + 1
  /\ \E r \in stored : stored' = stored \ {r}
  /\ UNCHANGED <<definitions, today, created>>

\* The runs of a definition that is deleted stay, without definition.
DeleteDefinition(d) ==
  /\ d \in definitions /\ definitions' = definitions \ {d}
  /\ stored' = {IF r.def = d THEN [r EXCEPT !.def = NoDefinition] ELSE r : r \in stored}
  /\ UNCHANGED <<today, created, deleted>>

NextDay == today < LastDay /\ today' = today + 1 /\ UNCHANGED <<stored, definitions, created, deleted>>

ResultsNext ==
  \/ \E d \in Definitions : Finish(d) \/ DeleteDefinition(d)
  \/ DeleteRun
  \/ NextDay
ResultsSpec == ResultsInit /\ [][ResultsNext]_resultVars
-----------------------------------------------------------------------------
\* Of some runs, the last to have finished and the first, none without runs.
Newest(rs) == {r \in rs : \A s \in rs : s.id <= r.id}
Earliest(rs) == {r \in rs : \A s \in rs : r.id <= s.id}
Latest(rs) == CHOOSE r \in rs : \A s \in rs : s.id <= r.id

\* The last n runs, and the first n of some items in an order.
Later(rs, r) == {s \in rs : s.id > r.id}
LastOf(rs, n) == {r \in rs : Cardinality(Later(rs, r)) < n}
FirstOf(xs, Before(_, _), n) == {x \in xs : Cardinality({y \in xs : Before(y, x)}) < n}

\* The finished runs, which all have a summary, and those the dashboard reads:
\* the last to have finished.
Ended == {r \in stored : r.status \in FINISHED}
Finished == LastOf(Ended, DASHBOARD_RUNS)

WithStatus(r, s) == Cardinality({e \in r.endpoints : e.status = s})
Rate(compliant, non_compliant) ==
  LET evaluated == compliant + non_compliant
  IN IF evaluated = 0 THEN NoRate ELSE (1000 * compliant + evaluated \div 2) \div evaluated

\* The statistics of the report that the run keeps as its summary.
Summary(r) ==
  [total |-> Cardinality(r.endpoints), compliant |-> WithStatus(r, "compliant"),
   non_compliant |-> WithStatus(r, "non_compliant"),
   errors |-> Cardinality({e \in r.endpoints : e.status = "error" \/ e.errors}),
   critical |-> Cardinality({f \in UNION {e.found : e \in r.endpoints} : Severity[f] = "critical"})]
-----------------------------------------------------------------------------
(* comparison.py *)

Ids(r) == {EndpointId(e) : e \in r.endpoints}
Pairs(r) == UNION {{<<f, EndpointId(e)>> : f \in e.found} : e \in r.endpoints}

\* Mutated form: scope_of instead of the endpoints, the host instead of the port.
Fixed_host(old, new) == {p \in Pairs(old) \ Pairs(new) : p[2][1] \in {e.ip : e \in new.endpoints}}
Fixed(old, new) == {p \in Pairs(old) \ Pairs(new) : p[2] \in Ids(new)}

\* What changed on an endpoint both runs observed.
Changed(a, b) ==
  {k \in {"tls_versions", "cipher_suites", "certificate", "compliance", "new_errors", "tls_checks"} :
     CASE k = "tls_versions" -> a.tls # b.tls
       [] k = "cipher_suites" -> a.suites # b.suites
       [] k = "certificate" -> a.cert # b.cert
       [] k = "compliance" -> a.grade # b.grade \/ a.status # b.status
       [] k = "new_errors" -> b.errors /\ ~a.errors
       [] k = "tls_checks" -> \E c \in DOMAIN a.checks \cap DOMAIN b.checks : a.checks[c] # b.checks[c]}
EndpointChanges(old, new) ==
  {ch \in {[before |-> a, after |-> b, kinds |-> Changed(a, b)] : a \in old.endpoints, b \in new.endpoints} :
     EndpointId(ch.before) = EndpointId(ch.after) /\ ch.kinds # {}}

Warnings(old, new) ==
  {w \in {"scope_differs", "profile_differs", "policy_versions_differ", "incomplete_runs"} :
     CASE w = "scope_differs" -> old.plan.passes # new.plan.passes
       [] w = "profile_differs" -> old.plan.profile # new.plan.profile
       [] w = "policy_versions_differ" -> old.plan.policies # new.plan.policies
       [] w = "incomplete_runs" -> old.skipped \cup new.skipped # {}}

compare_runs(old, new) ==
  LET fixed == Fixed(old, new) IN
  [old |-> old.id, new_run |-> new.id, warnings |-> Warnings(old, new),
   new |-> Pairs(new) \ Pairs(old), persistent |-> Pairs(new) \cap Pairs(old),
   fixed |-> fixed, not_retested |-> (Pairs(old) \ Pairs(new)) \ fixed,
   added |-> Ids(new) \ Ids(old), removed |-> Ids(old) \ Ids(new),
   changes |-> EndpointChanges(old, new)]

\* The runs `run' is compared with when none is chosen: of the same definition
\* (of none, when it has none), with the same fingerprint if there is one.
previous_comparable(run) ==
  LET earlier == {r \in Ended : r.def = run.def /\ r.id < run.id}
      same == {r \in earlier : r.plan = run.plan}
  IN IF same # {} THEN Newest(same) ELSE Newest(earlier)

\* GET /scan-runs/{id}/compare: the older of the two is the old one; nothing
\* (404) without a run to compare with.
Compare(new, with) ==
  LET others == IF with = {} THEN previous_comparable(new) ELSE with
  IN {IF old.id > new.id THEN compare_runs(new, old) ELSE compare_runs(old, new) : old \in others}
-----------------------------------------------------------------------------
(* evolution.py *)

IsLevel(s) == \E i \in DOMAIN LEVELS : LEVELS[i] = s
Graded(f) == f \notin IGNORED_FINDINGS /\ IsLevel(Severity[f])
Occurrences(pairs, level) == Cardinality({p \in pairs : Graded(p[1]) /\ Severity[p[1]] = level})

RunInfo(r) ==
  LET c == WithStatus(r, "compliant")  n == WithStatus(r, "non_compliant")
      pairs == Pairs(r)
  IN [id |-> r.id, day |-> r.day, endpoints |-> Cardinality(r.endpoints), compliant |-> c, non_compliant |-> n,
      rate |-> Rate(c, n), findings |-> [i \in DOMAIN LEVELS |-> Occurrences(pairs, LEVELS[i])]]

\* The findings of some pairs with how many endpoints each has, the worst first.
LevelOf(f) == IF IsLevel(Severity[f]) THEN CHOOSE i \in DOMAIN LEVELS : LEVELS[i] = Severity[f] ELSE 9
Worse(a, b) ==
  \/ LevelOf(a.finding) < LevelOf(b.finding)
  \/ LevelOf(a.finding) = LevelOf(b.finding)
     /\ (a.endpoints > b.endpoints \/ (a.endpoints = b.endpoints /\ a.finding < b.finding))
Top(pairs) ==
  LET listed == {f \in {p[1] : p \in pairs} : f \notin IGNORED_FINDINGS}
  IN FirstOf({[finding |-> f, endpoints |-> Cardinality({p \in pairs : p[1] = f})] : f \in listed}, Worse, MAX_LISTED)

Moves(changes, before, after) ==
  Cardinality({ch \in changes : ch.before.status = before /\ ch.after.status = after})

\* The listed changes of certificate, which the page counts.
AtMostListed(n) == IF n < MAX_LISTED THEN n ELSE MAX_LISTED
summarize_comparison(old, new) ==
  LET cmp == compare_runs(old, new) IN
  [counts |-> <<Cardinality(cmp.new), Cardinality(cmp.fixed), Cardinality(cmp.persistent), Cardinality(cmp.not_retested)>>,
   warnings |-> cmp.warnings, new |-> Top(cmp.new), fixed |-> Top(cmp.fixed), persistent |-> Top(cmp.persistent),
   added |-> Cardinality(cmp.added), removed |-> Cardinality(cmp.removed),
   certificates |-> AtMostListed(Cardinality({ch \in cmp.changes : "certificate" \in ch.kinds})),
   improved |-> Moves(cmp.changes, "non_compliant", "compliant"),
   degraded |-> Moves(cmp.changes, "compliant", "non_compliant")]

\* Among the finished runs the dashboard reads, those of a definition up to the end of
\* a day, those of the window, and the reference runs of its two ends: a run, or
\* a comparison, that is not there is the empty set.
UpTo(finished, d, day) == {r \in finished : d # NoDefinition /\ r.def = d /\ r.day <= day}
InWindow(finished, d, from, to) == {r \in UpTo(finished, d, to) : r.day >= from}
FromRun(finished, d, from, to) ==
  IF UpTo(finished, d, from) # {} THEN Newest(UpTo(finished, d, from)) ELSE Earliest(InWindow(finished, d, from, to))
ToRun(finished, d, to) == Newest(UpTo(finished, d, to))

Infos(rs) == {RunInfo(r) : r \in rs}
between(finished, d, from, to) ==
  LET from_run == FromRun(finished, d, from, to)
      to_run == ToRun(finished, d, to)
      status == IF from > to THEN "invalid_range" ELSE IF to_run = {} THEN "no_runs"
                ELSE IF from_run = {} \/ from_run = to_run THEN "single_run" ELSE "ok"
  IN [status |-> status,
      from |-> IF status \in {"single_run", "ok"} THEN Infos(from_run) ELSE {},
      to |-> IF status \in {"single_run", "ok"} THEN Infos(to_run) ELSE {},
      cmp |-> IF status = "ok" THEN {summarize_comparison(old, new) : old \in from_run, new \in to_run} ELSE {},
      series |-> IF status = "invalid_range" THEN {} ELSE Infos(LastOf(InWindow(finished, d, from, to), MAX_SERIES))]
-----------------------------------------------------------------------------
(* dashboard.py *)

\* The latest run of every definition; a run without one stands alone.
SameScan(a, b) == a.id = b.id \/ (a.def # NoDefinition /\ a.def = b.def)
Basis(finished) == {r \in finished : ~ \E s \in finished : s.id > r.id /\ SameScan(s, r)}

\* The endpoints counted, each of the newest run that has its key.
Counted(basis) ==
  {k \in UNION {{[run |-> r, e |-> e] : e \in r.endpoints} : r \in basis} :
     \A s \in basis : s.id > k.run.id => \A e \in s.endpoints : EndpointKey(e) # EndpointKey(k.e)}

\* The endpoints a finding counts for; as with Counted, by run and endpoint.
\* Mutated form: not restricted to the endpoints kept.
Affected_all(basis, kept, f) == UNION {{[run |-> r, e |-> e] : e \in {x \in r.endpoints : f \in x.found}} : r \in basis}
Affected(basis, kept, f) == {k \in kept : f \in k.e.found}

\* The orders of the lists: among equals, the code's is that of the rows read.
MoreOften(a, b) == a.endpoints > b.endpoints \/ (a.endpoints = b.endpoints /\ a.check < b.check)
Sooner(a, b) == a.remaining < b.remaining \/ (a.remaining = b.remaining /\ a.cert < b.cert)

InState(kept, status) == {k \in kept : k.e.status = status}
Anomalies(basis, kept) ==
  {f \in UNION {e.found : e \in UNION {r.endpoints : r \in basis}} : Graded(f) /\ Affected(basis, kept, f) # {}}
AtLevels(fs, levels) == {f \in fs : Severity[f] \in levels}
Occurring(basis, kept, fs) == UNION {{f} \X Affected(basis, kept, f) : f \in fs}

\* What needs attention: the findings, the worst first, then the checks that failed.
Item(basis, kept, f) ==
  LET ks == Affected(basis, kept, f)
  IN [finding |-> f, endpoints |-> Cardinality(ks), run |-> Latest({k.run : k \in ks}).id]
WorstItems(basis, kept) == FirstOf({Item(basis, kept, f) : f \in Anomalies(basis, kept)}, Worse, VIGILANCE_LIMIT)
FailedChecks(kept) ==
  LET Failing(c) == {k \in kept : c \in DOMAIN k.e.checks /\ k.e.checks[c] = "FAIL"}
      failed == {c \in UNION {DOMAIN k.e.checks : k \in kept} : Failing(c) # {}}
  IN {[check |-> c, endpoints |-> Cardinality(Failing(c)), run |-> {k.run.id : k \in Failing(c)}] : c \in failed}

CertificatesOf(kept) == {k.e.cert : k \in kept} \ {NoCert}
Certificate(kept, c) ==
  [cert |-> c, remaining |-> NotAfter[c] - today, endpoints |-> Cardinality({k \in kept : k.e.cert = c})]
Watched(kept) == {w \in {Certificate(kept, c) : c \in CertificatesOf(kept)} : w.remaining <= EXPIRY_WINDOW_DAYS}

posture(finished) ==
  LET basis == Basis(finished)
      kept == Counted(basis)
      N(status) == Cardinality(InState(kept, status))
      Priority(levels) == AtLevels(Anomalies(basis, kept), levels)
      vigilance == WorstItems(basis, kept)
  IN [scans |-> Cardinality(basis), total |-> Cardinality(kept),
      compliant |-> N("compliant"), non_compliant |-> N("non_compliant"),
      unevaluated |-> Cardinality(kept) - N("compliant") - N("non_compliant"),
      rate |-> Rate(N("compliant"), N("non_compliant")),
      critical |-> Cardinality(Priority({"critical"})), high |-> Cardinality(Priority({"high"})),
      occurrences |-> Cardinality(Occurring(basis, kept, Priority({"critical", "high"}))),
      vigilance |-> vigilance,
      checks |-> FirstOf(FailedChecks(kept), MoreOften, VIGILANCE_LIMIT - Cardinality(vigilance)),
      expired |-> Cardinality({w \in Watched(kept) : w.remaining < 0}),
      expiring |-> Cardinality({w \in Watched(kept) : w.remaining >= 0}),
      items |-> FirstOf(Watched(kept), Sooner, 5),
      policies |-> {r.plan.policies : r \in basis}]

\* The successive runs of one definition: the one asked for if it has runs,
\* else that of the run that finished last.
Defined(finished) == {r \in finished : r.def # NoDefinition}
TrendOf(finished, asked) ==
  IF asked \in {r.def : r \in Defined(finished)} THEN asked
  ELSE IF Defined(finished) = {} THEN NoDefinition ELSE Latest(Defined(finished)).def
Point(runs, r) ==
  LET c == Summary(r).compliant  n == Summary(r).non_compliant
  IN [id |-> r.id, day |-> r.day, rate |-> Rate(c, n), compliant |-> c, evaluated |-> c + n, total |-> Summary(r).total,
      comparable |-> \A q \in Newest({x \in runs : x.id < r.id}) : q.plan = r.plan]
trend(finished, asked) ==
  LET d == TrendOf(finished, asked)
      runs == LastOf({r \in finished : r.def = d}, TREND_POINTS)
  IN [def |-> d, defs |-> {r.def : r \in Defined(finished)}, points |-> {Point(runs, r) : r \in runs}]
=============================================================================
