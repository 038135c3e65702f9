# Scan_TLS: a TLA+ model of the scan platform

This directory models the TLS scan platform (`backend/`, `frontend/`, `tls_scanner/`):
the queue of scan runs, the notifications about their end, the scheduler, the versioned policies,
profiles and trust stores that scans are planned from, the access keys of external programs, the
single-page application that people work with, and the HTML report that a scan leaves. TLC
configurations check small instances; TLAPS proofs hold for every size.
Everything is read from the code; a doc is only quoted where it says what the code should do.

## The system

Four processes share one PostgreSQL database (READ COMMITTED; sessions have `autoflush=False`,
`expire_on_commit=False`), one container each, restarted when they die (`compose.yaml`,
`restart: unless-stopped`).

| Part | State | Operations | Talks to | What is hard |
|---|---|---|---|---|
| **Run queue** `services/runs.py`, `api/runs.py`, `models/scan.py` | rows of `scan_runs`: status, fingerprint, cancel flag, heartbeat | `create_run`, `add_requester`, `cancel_run`, `delete_run`, `claim_next`, `recover_stale`, `persist_results` | requests, scheduler, worker through rows | readings that are stale when written, a unique index as the arbiter, a count checked in another statement than the claim |
| **Worker** `workers/worker.py`, `workers/child.py` | main loop, one thread per run, one process group per engine | claim, spawn, heartbeat, SIGTERM/SIGKILL, persist, `_guarded` | queue, engine | death of the container, slow heartbeats, engine that does not stop, database calls that raise |
| **Notifications and mail** `services/notifications.py`, `services/mail.py` | rows of `notifications`, requesters | `notify_run_finished`, `deliver_pending` | supervisor, SMTP | sending before the commit, verdicts written by somebody else, runs deleted meanwhile |
| **Scheduler** `scheduler/scheduler.py`, `services/schedule_calc.py`, `api/definitions.py` | `schedules`, `schedule_triggers` | `tick`, `_fire`, edits | queue through `create_run` | a commit in the middle of a tick, edits between its steps, outages, runs purged |
| **Retention** `services/retention.py` | - | `purge` | queue, triggers | deletes what others still refer to |
| **Planner** `services/planner.py` | - | snapshot, fingerprint | policies, targets, trust stores | what a fingerprint distinguishes |
| **Policies and profiles** `api/policies.py`, `pages/Policies.tsx`, `lib/tlsChecks.ts` | items and numbered versions (draft, published, archived); the section of TLS checks in a form | create, `new_version`, `publish`, duplicate; tick, type, add, save | planner, engine (`config.py`) | two editors, a late write to a published version, three shapes of one entry |
| **Trust stores** `api/trust_stores.py`, `services/trust_stores.py` | stores, immutable versions, certificates | `publish_version`, delete, select | profiles, snapshots | reading before the lock, deletion against selection |
| **Catalogue** `api/catalog.py`, `pages/Targets.tsx` | targets, tags, groups; dialogs | a save as a chain of requests, edit, import, delete | planner | one request of a chain failing, lost or repeated |
| **DNS discovery** `services/dns_discovery/`, `components/DnsDiscovery.tsx` | one job row, candidates; the wizard | start, cancel, `process_next`, reconcile; follow, select, review, apply | worker, DNS | slow worker against recovery; selecting while the job goes on |
| **Greenbone import** `services/greenbone.py`, `pages/Admin.tsx` | one job row, selection; history, preview, two timers | upload, analyse, apply, expire; retrieve, preview, apply | worker, catalogue | crash while applying; old answers over new ones |
| **External access** `services/external_access.py`, `api/access.py`, `api/admin.py`, `components/ExternalAccess.tsx` | switches, user flags, keys | switch, authorise, create, revoke, authenticate | REST v1, MCP | a key created while its right is withdrawn |
| **Sessions and limits** `api/auth.py`, `deps.py`, `services/rate_limit.py`, `api/client.ts`, `auth/AuthContext.tsx` | sessions, windows of attempts; cookie, CSRF token, shown user | login, logout, expire, every request | all requests | tabs that share a cookie, concurrent attempts |
| **SSO and directories** `auth/`, `connectors/` | provider configuration | OIDC, LDAP, Entra, Google | outside | protocol exchanges |
| **Engine** `tls_scanner/` | none kept | discovery, probes, grading | nmap, openssl | order of hosts and passes, cancellation |
| **Results** `services/comparison.py`, `evolution.py`, `dashboard.py`, `components/dashboard/` | none of their own | compare two runs, two dates; posture, trend | runs | endpoints that come, go, fail; runs of what was deleted |
| **Pages that follow runs** `pages/Scans.tsx`, `RunDetail.tsx`, `Dashboard.tsx`, `MyTasks.tsx`, `Schedules.tsx`, `components/common.tsx` | what was last loaded, dialogs, groups, filters | `useLoad` (poll, reload), launch, cancel, delete, group, sort, filter | API | answers out of order or lost, pages left meanwhile |
| **HTML report** `exports/report_model.py`, `exports/assets/html/js/report.js` | the report, filters, tables, menu, drawer | sort, filter, search, tick, open, follow, export | a reader | many small states that must agree |
| **Deployment** `compose.yaml` | - | - | all | - |

What makes each correct:

* queue: one active row per fingerprint; at most `max_concurrent_scans` running; a run executed
  once; cancelled only on request; every run ends;
* notifications: each result announced once to those who want it; every pending notice settles;
  the record tells what was sent;
* scheduler: no overlap, once per occurrence, a truthful history, no schedule left behind;
* policies and trust stores: a published version never changes, an item that was published stays
  so, nothing published is lost by a concurrent publication;
* jobs: one finaliser, an import applied entirely or not at all;
* access keys: no request is served that had to be refused since before it began;
* sessions: a write is done as the user whose tab sent it; no tab stays on a dead session;
* pages: what is drawn catches up with the server; every run and endpoint is listed exactly once;
  a group is made of all the targets that were asked for; a ticked check is a selected check; a
  doubtful name is never selected in bulk;
* results: what is new, fixed and unchanged adds up over any history of runs; every service counts
  once, as the newest of the runs it reads saw it;
* report: tables, cards, overview, links and the exported CSV agree with the data and the filters.

## Modules

| Module | Models | Depends on |
|---|---|---|
| `RunLifecycle` | what people are promised of a run (abstract) | - |
| `RunQueue` | requests, workers, supervisors, engine, faults | refines `RunLifecycle` |
| `RunNotices` | `RunQueue` with requesters, notices and mail | extends `RunQueue` |
| `RunProofs` | theorems about `RunQueue` and `RunNotices` | `RunNotices`, TLAPS |
| `Scheduler` | schedules, triggers, tick, runs as seen from the scheduler | - |
| `SchedulerProofs` | theorems about `Scheduler` | `Scheduler`, TLAPS |
| `Versioning` | policies and profiles: drafts, publications, duplicates | - |
| `TrustStores` | trust stores, their publications and deletion, the profiles that select them, the snapshots that pin them | extends `Versioning` |
| `CatalogueProofs` | theorems about `TrustStores` (and the actions of `Versioning` in it) | `TrustStores`, TLAPS |
| `AccessKeys` | switches, authorisations, keys, `authenticate`, statement by statement, asked for anything by anybody | - |
| `AccessPages` | the owner's section and the administrators' controls over it | extends and refines `AccessKeys` |
| `WebSession` | tabs, cookie, CSRF token, routes and sign-in of the application | - |
| `RunViews`, `ScanPages` | what lists of runs draw (pure); the pages that list, follow and launch them | `ScanPages` extends `RunViews`, `RunViews` extends `Lists` |
| `ScanPagesProofs` | theorems about `ScanPages` | `ScanPages`, `ListsProofs` |
| `TargetPages` | the dialogs of targets and groups | - |
| `ProfileEditor` | the editor of TLS checks and trust authorities against the engine's parser | - |
| `DiscoveryWizard` | the wizard of a DNS discovery | - |
| `PageProofs` | theorems about `AccessKeys` and `AccessPages`, `WebSession`, `TargetPages`, `ProfileEditor` and `DiscoveryWizard` | these, TLAPS |
| `GreenbonePage` | the page of Greenbone imports and the statuses the worker sets | - |
| `RunResults`, `ResultViews` | comparison, evolution, posture and trend over a history of runs; what the pages draw of them (pure) | `ResultViews` extends `RunResults` |
| `ResultsProofs` | theorems about `ResultViews` | `ResultViews`, TLAPS |
| `Lists`, `ListsProofs` | filtering, stable sorting and adding up, as operators without recursion (pure), and what they return | - |
| `ReportData`, `ReportTables`, `ReportViews`, `HtmlReport` | the model of a report; its tables and CSV; its cards and overview; the page and its reader | each extends the one before, the first `Lists` |
| `ReportProofs` | theorems about `HtmlReport` | `HtmlReport`, `ListsProofs`, TLAPS |
| `MC_*` | small instances for TLC; `MC_Catalogue` composes trust stores with the dialogs that edit what scans are planned from, `MC_WebApp` the parts of the application that follow the server | |

A step of the models is one statement or one commit. What a process read before is a field of
its record (`request[u].seen`, `worker[w].stale`, `tick.read`), so that every other process can
act between the reading and the writing.

### RunQueue

* `status`, `fingerprint`, `cancel_requested` are the columns of `scan_runs`. `silent` is the set
  of running rows whose `heartbeat_at` is older than `STALE_HEARTBEAT_SECONDS`: time is only that.
* `request[u]` is one HTTP request: `create_run` reads, `InsertRun` inserts (the partial unique
  index refuses a second active fingerprint), `RereadRun` follows the refusal, `add_requester`
  commits. `cancel_run` reads the row, `request_cancel` writes by what was read: an UPDATE of the
  one attribute the session changed, which may hit a row that is running or finished by then.
* `worker[w]` is the main loop: `recover_stale` and `FailStale` (its SELECT and its commit),
  `claim_next` (advisory lock and count), `ClaimOldest` (FOR UPDATE SKIP LOCKED: rows a request
  holds in its commit may be skipped).
* `supervisor[w][r]` is a thread of `run_subprocess` and the process group of its engine:
  `Spawn`, `Heartbeat`, `OverTime`, `Kill`, `EngineExit`, `Persist`, `notify_run_finished`,
  `_guarded`. An engine whose supervisor gave up is an orphan until it exits.
* Faults (at most `MaxFaults`): `Crash` of a container, `SupervisorFails` (a database call raises,
  in the thread or in its handler). Not counted as faults: rows deleted under a reader, which make
  an UPDATE raise (`RowGone`, and the death of the main loop in `FailStale`).

`_guarded`'s reading and writing are one step. A worker that is asked to stop (SIGTERM) and the
contents of results are left out; the engine is its end, with an outcome to read or without.

### RunNotices

Adds `requesters`, `initiated_by`, `notices` (with the status column, and `gone` for a row
deleted with its run), the batch of each main loop (`mailer`) and how often each notice was mailed.
`ReadPending` takes the oldest `BatchLimit` pending notices without a lock, `SendNotice` mails one, or
fails, with the message delivered or not (`deliver_pending` catches every exception, also one raised after the server
accepted it), `CommitDelivery` records the whole batch in one commit, which raises when one of them is gone and
ends the process. A final status written by a request in the queue, by `recover_stale` or by
`_guarded` announces nothing, because the code calls `notify_run_finished` only in the supervisor.

### Scheduler

`tick` is the one session of the one scheduler: `SelectDue` locks and reads the due rows, `_fire`
decides (late, overlapping, no plan, or a snapshot), `CreateRun` commits (and with it releases
all locks), `Record` inserts the trigger in a savepoint and moves the schedule on by the plan that
was read, `Rest` goes on with the next. `locked` holds what FOR UPDATE keeps from people's edits.
`update[q]` is a request that saves a schedule: `ReadSchedule` reads the row without a lock, and `update_schedule`
computes the next run at some moment since and writes, at its commit, the columns whose new value is not the one that
was read (`Column`: the UPDATE of SQLAlchemy), waiting for a row lock. A write of the row by somebody else meanwhile, the
tick included, overtakes the request (`Overtaken`); a save that was overtaken puts its schedule in `crossed`, which the
code does not know. A plan stands for `kind`, `params` and `timezone`, one column for the three: a save by two people that
mixes them makes a plan nobody asked for, and is in `crossed` like any other. `last_run_at`, which is only shown, and
`notify_schedule_problem`, which tells the owner of a skipped occurrence, are not modelled.
`Crash` stands for the death of the process and for an exception that leaves `tick`. Runs end and
are purged; a purged run's trigger forgets it (SET NULL), a trigger about to be inserted for it is
refused. A schedule may be deleted under a tick and another one made, but never with the identifier
the tick still holds (`Handling`): identifiers are uuids. `next_after` is the next element of a plan (`once` or `every`), without time zones.

### Versioning

An item (policy or profile) is the sequence of its versions: rows are numbered and never deleted.
`request[e]` is one HTTP request between two of its statements. An edit is `new_version`
(validation), `FindDraft`, and then either `SaveDraft`, which writes the draft it read by its
primary key and whatever has become of it, or `LastNumber` and `InsertDraft`, which the unique key
refuses when another edit took the number. A publication is `publish` (the draft), `ReadPublished`
and `CommitPublish`, which archives what it read and publishes its draft. Item names and the
toggle that hides an item (`archive`) are left out.

### TrustStores

`store[s]` is a row with its versions, each a set of certificates (`Anchors` are the self-signed
ones). `publish_version` computes the new set from the current one; `create_version` waits for the
row lock (`rowLock`), refuses a set without an anchor and takes the next number; `InsertVersion` is
the INSERT and the commit. `delete_store` checks the usage, `Erase` deletes. The contents of
`Versioning` are here the sets of stores a profile selects; `SelectStores` adds the validation to
creating and editing. A launch is `build_snapshot` (the latest published version), one
`ResolveStore` (state and version number) and one `PinCertificates` (its certificates) per selected
store, and `QueueRun`, the commit of `create_run` that module `RunQueue` details. `update_store` is
one step: a second person's reading in between would only write the value it already has.
`collisions` counts refused numbers and exists for the property alone.

### AccessKeys and AccessPages

A route runs in a thread (`handler[h]`) and is split where another one can come between: `Load` reads
what the route trusts until its commit, `Sweep` is the UPDATE of `revoke_tokens` over the keys in
force when it starts, `Commit` shows all writes at once. The unique index over active keys undoes
a generation that finds another key. `caller[c]` is an external program in `authenticate`: the
switch, the key, the user, each as committed when it is read. `barred` is known to nobody in the
code: the programs whose request had to be refused when it began and has had to be ever since; what
gives a right back (a grant, a switch, a changed password) takes them out of it. `AccessPages` adds
what the pages drew last, of any age, and lets the buttons follow that. Keys are identifiers;
their hashing, and the date of an expiry, are left out.

### The web application

The router mounts one page at a time and unmounts the one that is left, whose state and timers go
with it, so that pages share nothing in the browser but the session. A behaviour of a composed module
therefore follows one part, and the state spaces of the parts add up instead of multiplying:

* `MC_WebApp` composes `WebSession`, `AccessPages`, `ScanPages`, `ResultViews` and an instance of
  `GreenbonePage`, the parts that follow the server;
* `MC_Catalogue` composes `TrustStores` with `TargetPages`, `ProfileEditor` and `DiscoveryWizard`, the dialogs
  that edit what a scan is planned from.

What they extend they check under the very names that are proved. Every module has the requests of
its page under way as state (`net`, `calls`, `saves`, `w.asks`, `loads`): sent, served at some moment,
answered in any order, or lost.

* `WebSession`: each tab keeps the CSRF token and the user of the last answer that carried them, the
  cookie is the browser's. `Verdict` is `deps.py` (session, password to change, token, role); `Receive`
  is what `client.ts` and `AuthContext.tsx` do with an answer, a 401 included. Sessions expire and
  accounts change at any time.
* `ScanPages` over `RunViews`: `ReloadPage` is `useLoad` (on mounting, on every tick, after every write, with
  whatever is under way), `Arrive` what the answer does on the page that is still there, or where it
  navigates: to the page of another run, it stays the same component, with its data and its reads under way.
  A schedule is listed with the last run it queued itself (`Trigger`), not with those started by hand. `RunViews` are the groups, filters, counts and steps a page draws of an answer.
* `TargetPages`: a save is one `PostTarget` after the other, `Reuse` when the value is known, then
  `PostGroup`; nothing disables the button while it runs. Others edit, delete and import meanwhile.
* `ProfileEditor`: an entry of the section of checks is a flag, a mapping, or a mapping without
  `enabled`; `setEnabled` and `setOption` rewrite it, `Selected` is what `config.py` makes of it.
* `DiscoveryWizard`: `w` is the state of the component with its requests and timers, each in the
  closure of the render it was started by; `BulkPage` reads one page of a selection, asks for the
  next one. What the discovery finds is the constant `Found`; that a row exists already, which decides
  what is offered for it, and that something scans it change while the wizard is open (`OthersAdd`, `OthersScan`), and each
  page of results says what is so as it is read (`Compared`). `ghost` keeps, for the property alone, what the person chose
  by hand, whether the box was ticked and which names nothing scanned at some time.
* `GreenbonePage`: the history reloads while it shows a job under way (`ListTick`), another interval
  asks for the job last chosen (`JobTick`); an answer tells the statuses of when it was asked for.
* `RunResults`: `stored` is the sequence of finished runs, each with what it reported; runs and definitions
  are deleted. An endpoint of a run is a record of a set, told apart by its service. `compare_runs`,
  `summarize_comparison`, `posture` and `trend` are operators over it, and `ResultViews` what the cards and
  tables draw of them: counts as cardinalities, the newest run by the number of the run. Of a save of a profile the
  request and its answer are one step in `ProfileEditor`, whose property is about the section in the form.

### The HTML report

The page has one thread: an event of the reader is one action. `ReportData` computes the model that
the exporter embeds from the rows of a scan in the order they were written, of which those with too few cells count
for the raw results only; `ReportTables` is the closure of `table()`: sort, hidden values, menu, CSV with
its header row and its quoting (cells as sequences of characters, since a property is about them); `ReportViews` the cards
under their filters, `Overview` what is drawn once. In `HtmlReport`, a reader uses a pointer, whose
mousedown closes the menu of another place first, or the keyboard, which leaves it open; a menu
may so outlive its table (`orphan`).

The sorts and filters are those of `Lists`: an order is a set of pairs, the place of an element is the
number of those it has to come after (equal ones stay as they were, `Array.prototype.sort` is stable), and
a sum is the number of elements of a disjoint union. None of it is recursive, which is what makes it provable. Findings have a `rank`,
the order of their identifiers as texts, and texts a `RankOf` and a `LocaleRank`, the orders of `localeCompare` that
read numbers in a text and that do not. The TLS checks have a table for each endpoint that has some. Colours,
wording and layout are left out, and so is that a menu lists 300 values and a drawer 300 suites at most.

## Runs

| Run | Instance | Shows |
|---|---|---|
| `queue_requests` | 2 people, 1 worker never timely, 2 rows, 2 fingerprints, cap 1 | de-duplication, cancelled only on request, refinement of `RunLifecycle` |
| `queue_workers` | 2 workers (one timely), 1 person, 2 rows, cap 1 | types, cap, one execution, no verdict behind a live engine's back |
| `queue_recovery` | 1 worker, 1 person, 2 rows, cap 1, one fault, fairness | every run settles |
| `notices` | 1 row, 2 people with different wishes, batches of 1, messages that fail before or after they are taken, one fault, fairness | once, announced, mail counted, record truthful, queue drains |
| `notices_end` | same, no fault, everybody wants everything | **violated**: the documentation promises a notice of every end |
| `scheduler` | a schedule, one-shot or recurring, with two acts of people (2 saves may overlap), or a one-shot with one act beside a second, recurring one; 2 runs, 2 fingerprints, time 0..2, grace 0, one fault, fairness | no overlap, nothing left behind; and but for a save over a later write, a next run for every active schedule, once without crash, truthful history |
| `scheduler_crash` | same | **violated**: "exactly once per occurrence" when the process dies in its tick |
| `catalogue` | one part at a time; *stores*: 2 people, 2 profiles, 1 store, a Root CA and an intermediate, 2 versions of items and of the store, 1 run at a time; the dialogs: see below | a Root CA in every version, numbers that never collide, snapshots complete and consistent with the version they name, profiles that stay launchable; groups are whole, ticked is selected, bulk selection skips what is doubtful |
| `versioning_immutable` | 2 people, 1 item, 3 versions, 2 contents | **violated**: "published versions are never modified" |
| `trust_store_removal` | 2 people, 1 store, 3 versions | **violated**: "the current certificates minus `remove`, plus the uploaded ones" |
| `html_report` | 4 reports (mixed verdicts with more hosts than the cap, rows of one endpoint written in two passes; one endpoint untested, a short row; all well; nothing found), 4 events, caps of 2 hosts, findings and exposed endpoints, 3 top statistics | tables show their state, host cards tell their ports, the overview agrees with the data, links land on a card that is shown, the CSV reads back |
| `web_app` | one part at a time, see below; fairness | a write goes as the user that was shown, only the entitled are served, every run and every endpoint listed once, the evolution adds up, the posture is current, dead sessions leave, polled pages catch up, retrievals come to be shown as ended |

Why the bounds suffice: the races of the queue are between two actors about one row, or about two
rows under one cap; two rows and two fingerprints let a row be shared, recreated, claimed second,
lost and deleted, and a cap of one makes both rows compete. One fault is enough for every window
of a crash, as a second one can only repeat what the first did; what holds for any number of them
is proved. For notices, a batch of one makes a second batch and the head of the queue matter.
For the scheduler, grace 0 and three instants give an occurrence that is on time, late and missed;
one act lands in any window of a tick, two acts are a save in any window of another (a third would need a third reading
to matter, and the proofs have any number). In the catalogue every race is between two requests
about one item or one store: two versions are enough for a draft beside a published version, for a
duplicate, and for a snapshot that names a version that is no longer current.

The parts of `web_app`: *session*, 2 tabs, 2 users, 2 sessions, 2 requests under way, 3 acts (enough for
one tab to sign out and in as somebody else while the other still sends); *access*, 1 user, 1 service, an
old and a new key, 1 program, 1 thread of the owner, 2 of administrators, 2 clicks; *scans*, 2 definitions, 3
runs, 2 requests under way, 3 acts; *imports*, 2 jobs, 3 clicks, 1 lost answer; *results*, 2 definitions with 5
and 3 outcomes (several ports of a host, two addresses of a name, errors, skipped hosts, nothing), 3 runs, 2 days,
1 deletion. The dialogs of `catalogue`: *targets*, 2 values, 3 rows, 2 saves that overlap, 1 edit or lost request;
*profiles*, 4 checks (without options, with a number, with a flag, with ports), any stored section, 5 clicks;
*discovery*, names of every kind over two pages of 4, bulk reads of 2, 1 job, 5 acts of the person or of
others who add targets, scan names or stop scanning them. The two runs allow a behaviour to stop: clicks and other acts are bounded, and
a page that waits for nothing may rest. Limits of the code are scaled so that they are reached: `PAGE` 100 to 4, `BULK` 500 to 2, `TREND_POINTS`
and `VIGILANCE_LIMIT` to 2, `MAX_LISTED` to 1, `MAX_SERIES` to 2, `DASHBOARD_RUNS` 200 to 2, `EXPIRY_WINDOW_DAYS` to 1; in the report `HostCap` 500 to 2,
`TopCap` and `ExposureCap` 6 to 2, `TopStatistics` 10 to 3. Four events of a reader open a menu, act
in it, and redraw its table from elsewhere or leave it behind; every filter combination is reached in fewer.

Constants that bound the model and not the program: `Runs` (identifiers are not reused in
`RunQueue`), `MaxFaults`, `MaxTime`, `Touched`, `Requests`, `MaxLoad`, `MaxVersions`, `MaxStoreVersions`, `MaxRuns`, `MaxEvents`,
`MaxSessions`, `MaxInFlight`, `MaxSteps`, `MaxActs`, `MaxPageActs`, `Slots`, `MaxTargets`, `MaxSaves`, `MaxChanges`,
`MaxClicks`, `MaxJobs`, `MaxDiscoveries`, `MaxLost`, `MaxCalls`, `MaxLoads`, `MaxFinished`, `MaxDeleted`, `LastDay`. Symmetry is used only in runs without liveness,
and only on sets the specification does not order or name.

### Fairness

* Queue: the main loop turns (weak fairness of `recover_stale` and `FailStale`); the lock and the
  claim are granted in turn (strong fairness: PostgreSQL queues waiters, another worker may hold
  the lock again and again); a supervisor's loop turns, enforces the maximum duration and kills
  after the grace; a request in flight ends; time ages a heartbeat that nobody renews. People
  need not do anything, an engine need not end by itself, no fault is ever required.
* Notices: the main loop as a whole turns (strong fairness of its steps, as it shares the claim
  lock), supervisors write and announce. Nothing makes the mail server accept a message.
* Scheduler: the tick goes on (the process is restarted and calls `tick` for ever); runs that
  ended are purged in the end. Runs need not end, people need not edit.
* Web application: in the part that is followed, intervals fire (`Poll`, `ReloadPage`, `ListTick`), and what
  was sent is served and answered or lost in the end, per tab, per slot and per handler. People need
  not click, jobs and runs need not end, and the number of lost requests is bounded: a network that
  loses everything for ever shows nothing.

## Proofs

A theorem is about the module as it stands, for every value of its constants that its assumption
allows (TLC evaluates the assumption on every run).

`RunProofs` proves of `RunQueue`, for any finite set of rows, any fingerprints, people, workers, cap and
number of faults (assumption `QueueAssumption`):

* `TypeCorrect`: `Spec => []TypeOK`;
* `QueueInvariant`: `Spec => []QueueInv`, the strengthening the rest needs. It says: a loop in
  `select` holds the advisory lock and saw fewer running rows than the cap (`ClaimInv`); rows in
  the stale set of a loop, rows with a thread or an engine, and rows a request saw as running have
  been claimed and never wait again (`StaleInv`, `ThreadInv`); two workers never hold the same row;
  a cancellation or a `stop = "cancelled"` comes with `cancel_requested`. The properties alone are
  not inductive: nothing in them says that a row a late writer still holds is out of the queue;
* `Cap`, `DeDuplication`, `ExecutedOnce`, `CancelledOnlyOnRequest`: the safety invariants;
* `EngineKeepsItsRow`: `[]EngineHasItsRow`, that nobody ends a run behind the back of the live engine of a
  worker that beats in time;
* `Refinement`: `Spec => Lifecycle!Spec`. Every step maps to a step of `RunLifecycle` or a stutter
  under the identity mapping of `status` and `fingerprint`.

The argument has two halves: steps that claim nothing are `Quiet` (the rows step as in
`RunLifecycle`, nothing starts running, no thread appears), one lemma per process; and the claim
(`ClaimStarts`) is the one step that starts a row, under the lock.

Of `RunNotices` it proves, from the theorems of the queue and for any finite set of people and of workers, any
size of a batch, any wishes, and events that include the three a supervisor announces:

* `NoticesInvariant` and `NoticesImplementLifecycle`: every step of `RunNotices` is a step of `RunQueue`, or
  touches the mail alone, or is the death of a worker over a deleted notice (which `RunQueue` has not,
  and which the invariant of the queue survives for the reason a `Crash` does). So what is proved of the
  queue holds with the mail, and `RunLifecycle` is still implemented;
* `ToldOnce`: `[]NoticeOnce`. What is added (`AfterInv`): a run that has notices was started, and has no thread
  left. As it is never started again, no announcement, which is the one step that inserts notices, finds
  any of its run;
* `ResultReachesOwner`: `[]ResultIsAnnounced`. Between the verdict and the notice there is a supervisor that
  is to announce (`About`), and the one who queued a run stays among its requesters (`OwnerInv`);
* `MailedOnceEach` and `RecordIsTrue`: `[]MailedOncePerTry` and `[]RecordTellsDelivery`. The counts are
  bounded by the sets they count: a notice was mailed at most once for each worker that has a verdict
  on it and each death (`TriedInv`), and those mails and the workers that may still
  mail it are together no more than the workers and the deaths (`OwingInv`). A verdict "sent" is only
  held, and later recorded, after the mail (`SentInv`); with one worker that never died, what was mailed is recorded
  as sent or failed, or is such a verdict that worker still holds (`SureInv`), so that what was skipped or still waits
  was not. Of a failed notice nothing can be said: the server may have taken it.

`SchedulerProofs` proves the safety invariants of the run `scheduler`, for any schedules, runs, plans, horizon, number
of saves under way, acts and faults (assumption `SchedulerAssumption`; there is some fingerprint a plan can expand to):

* `NeverOverlaps`: `[]NoOverlap`. `OverlapInv` adds that a schedule whose run is about to be created has
  none under way. It looks at its runs in the step before; between the two steps only ends and
  purges happen to them (`CreateChange`);
* `UpdatesInvariant`: a request that nobody overtook knows the row as it is. Then writing the columns that changed
  writes the row as it was asked for, activity and next run together;
* `ActiveKnowsNext`: `[]ActiveHasNext`, for the schedules no save of which went over a later write (not in `crossed`);
* `FiresOnce` and `HistoryIsTrue`: `[]OnceWithoutCrash` and `[]HistoryTellsRuns`, from `OccurrencesInvariant`. What
  makes an occurrence unique is that `next_run_at` runs ahead of everything that was told: every due
  date in a run or a trigger was due when the tick began (`DueInv`), hence lies before the next date of
  the row and of the row as the tick read it (`PastInv`), unless the tick is between the commit of the
  run and that of the trigger (`RecordInv`). A death just there is what the run `scheduler_crash` shows,
  and why these invariants are stated for `faults = 0`; a save that was overtaken may write a date that was told already,
  which is why they leave out `crossed`. `NeverOverlaps` and the liveness of the run need neither. The proof of the history failed at first
  on a schedule deleted and made anew with the same identifier under the tick; the model now says
  what the code guarantees, that identifiers are not reused.

`CatalogueProofs` proves, for any items, editors, stores and certificates and any bounds (of the
assumptions it uses that contents are sets of stores and that `NoEditor` is no editor), the
properties of policies, profiles and trust stores in the run `catalogue`: `TypeCorrect`, `AnchorsAlways`, `NumbersAreTheirOwn`,
`NoDowngrade`, `SnapshotsAreConsistent` and `PublishedForGood`. The inductive invariant
(`CatalogueInvariant`) adds what each request between two of its statements knows: the draft it read
is still a row (`EditOK`); who is about to insert a version holds the row lock, its store is there and
its number is the next one (`LockOK`); what a launch pinned is what the store says, or the store is
gone, and pinned and pending stores make up the selection (`LaunchOK`). Without them the properties
say nothing of a request in flight, whose next step would break them. The argument: every step makes
the tables grow (`ItemsGrow`, `StoresGrow`), writes the record of one request (`OneStep`) and leaves the
rows that others locked (`LocksKept`); from these facts alone the invariant of all other requests
follows (`OthersStayOK`), so each action needs only be looked at for its own.

`PageProofs` proves what is true of the pages and of the requests they send. Of `AccessKeys` and `AccessPages`,
for any users, services, keys, programs and threads:

* `KeysServeTheEntitled`: `KeysSpec => []OnlyTheEntitledAreServed`. The property looks at the end of
  `authenticate` and is not inductive: a request that passed its first check must be known to be stopped by a
  later one. The invariant (`KeysInvariant`) says so: a barred request that waits for its
  first check presents a key that is not entitled, one that waits for the second has a dead key
  or an owner who is not admitted, one that waits for the third an owner who is not, and none
  is served. Its preservation has two halves: steps that give nothing back
  keep what stops a request stopped (a revoked key is never live again, a withdrawn right stays withdrawn),
  and steps that do give something back free exactly the requests concerned, which are no longer barred;
* `PagesImplementKeys`: `AccessSpec => KeysSpec`, where the slots of the pages are threads and the owner
  a user (`Placed`): whatever stale pages propose is among what the open specification allows, so the
  first theorem speaks of them.

Of `WebSession`, `WritesAreAsShown`, `[]WriteAsShown`, for any tabs, people, sessions and requests
(assumption `SessionAssumption`). It is the CSRF token that makes it true: the cookie belongs to all tabs, and a tab may write
with the cookie of somebody who signed in elsewhere. The invariant (`SessionInv`): the token of a tab that
shows somebody, and of each answer on its way to one, is that of a session of the same person, and a write on its way
carries the token of whoever its tab showed. Sessions are never handed to another person
(`Grown`), so a step that adds rows leaves what is said of the others true.

Of the dialogs:

* `GroupsAreWhole`: `[]GroupIsWhole`, for any finite set of values, any number of saves that overlap, edits by others
  and lost requests. The invariant (`TargetsInv`): for each value a save has come past, it holds a target that
  has or had that value. Others may edit the target at once, so `was`, not `value`, is what lasts;
* `TickedAreSelected`: `[]TickedIsSelected`, for any section the dialog may open with and any clicks and keys in any
  order (assumption `EditorAssumption`; the catalogue has one check of each kind). The invariant (`EditorInv`): in the section, each check that was touched is what it was left as, for
  the form (`isEnabled`) and for the engine (`Selected`) alike, in whichever of its three shapes; each
  edit is shown to leave the other entries alone (`SameBut`).

Of `DiscoveryWizard`, `BulkIsCareful`, `[]BulkSkipsDoubtful`, for any sequence of found names (assumption
`FoundAssumption`), any sizes of pages and any number of overlapping selections. The invariant (`WizardInv`) says of
both places where a choice waits, the selection and what each bulk reading has picked so far, that it is one
its name allows, that a doubtful name is in it only by hand, and that one which was scanned ever since the wizard was opened
is in it only by hand or by its box (`FreeInv`: what is not scanned when it is read is among the names that were free); and of
the rows on screen, which may be old, that they offer nothing the found name does not. A bulk reading keeps the box as it was when it was started, which is why the ghost
has to remember that it was once ticked.

`ResultsProofs` proves, for any finite reports, any numbers of runs, days and deletions, any limits of the
lists (assumption `ResultsAssumption`), the properties of the results of the run `web_app`. The
inductive invariant (`StoredInv`, `StoredAlways`) says of the kept runs that they are numbered in the order
they finished, on days that follow, and that each has finitely many endpoints, each service of them once. The rest is what the
operators compute of such a history, by steps any reader can follow on sets:

* `EvolutionAddsUpAlways`: `[]EvolutionAddsUp`. Findings and endpoints of two runs fall into disjoint parts, so what
  is counted of the parts adds up to what is counted of the wholes; that the bars end on the second run's picture
  needs the order of days and numbers;
* `PostureIsCurrentAlways`: `[]PostureIsCurrent`. The newest run that saw a service exists and is unique
  (numbers are, `LeastNat`, which follows from the well-foundedness of the natural numbers and replaces the induction
  over data that no installed prover can do);
* `EveryEndpointListedOnceAlways`: `[]EveryEndpointListedOnce`, folded by host or flat, in any order.

`ListsProofs` proves what filtering, sorting and adding up return, for lists of any length: a sort lists each
chosen place once (`SortedNumbers`), in ascending order where the comparator compares keys (`SortedByKey`),
and with equal elements as they were; the total of the sizes of disjoint parts is the size of the whole
(`TotalOfParts`). Each is a bijection between a set and the numbers up to its size, so none needs induction.

`ScanPagesProofs` proves `EveryRowListedOnceAlways`, `[]EveryRowListedOnce`, for any definitions, runs, slots of
requests and clicks, without an assumption. A page groups what it drew last, of any age, so the property is one of all answers
there may be. The invariant (`ListInv`): the server numbers its runs (`CountedRuns`); an answer under way to a
page that lists runs, and what that page has drawn, are lists of runs told apart by their numbers (`NetInv`,
`DrawnInv`); and whoever leaves a page takes its loads along, so no answer is drawn by a page that did not ask
for it. The rest is about the groups: a scan has a newest run among those drawn, which heads its group; heads of different
groups differ; each run is in the group of its scan and, as the sort leaves nothing out and its numbers descend strictly, once.
TLC had found `ListInv` true in every state of the part *scans* of `web_app` before.

`ReportProofs` proves the properties of the run `html_report` but that of the CSV, for any reports whose endpoints and findings
are told apart by their identifiers (assumption `ReportsAssumption`, which `build_report_model` gives by its
dictionaries), any caps, texts, orders of texts and length of a reading:

* `TablesShowTheirStateAlways`: `[]TablesShowTheirState`, from `PageInvAlways`. The property speaks of what a table
  shows, sorted where the texts of a column all give a number or none does (see below); the invariant (`PageInv`) adds what makes the next event keep it: every table shows
  what its rows and the state of its closure give (`TableOK`), its hidden values are values it has, and the open menu
  is of a column of a table that is in the page, or of the one it outlived, with the boxes of that
  table's hidden values (`MenuOK`). One lemma per event;
* `LinkLandsAlways`, `HostCardsTellAlways` and `OverviewAgreesAlways`: `LinkLandsOnCard`, `[]HostCardsTell` and
  `[]OverviewAgrees`, from `ViewsInvAlways`: the overview and the cards are those of the report under the filters
  on the screen (`ViewsInv`). The rest is about the operators: the top findings are findings, so the card a link
  leads to is there once nothing filters; the groups of the hosts part the endpoints that match; the
  bar adds up because severities part the findings; a finding of a level that an endpoint has is counted in the statistics,
  so a "strong" posture leaves no card to contradict it; and whoever is not among the first of a list sorted by exposure
  is not worse than those who are.

Before they were proved, TLC found `PageInv` and `ViewsInv` true in every state of the instance of `html_report`.

Only model-checked, and why:

* `CsvReadsBack`: what the concatenation of quoted cells holds, and what a reader takes back from it, is a fold over
  characters and takes induction over data, out of this prover's reach;
* liveness (`EveryRunSettles`, `EveryNoticeSettles`, `ScheduleMovesOn`, `DeadSessionLeaves`, `ShownCatchesUp`,
  `RetrievalEndShows`): fairness and ENABLED are out of its reach too.

## Where the code and its documents differ

* `notices_end`: docs/integrations/notifications.md says that everyone who requested a run is told
  of the end of every run. A run cancelled while it waits, one failed by `recover_stale` or one
  failed by `_guarded` is announced to nobody.
* `scheduler_crash`: the scheduler says "exactly once per occurrence". `create_run` commits before the
  trigger does; a death in between fires the occurrence again once its run has ended.
* `versioning_immutable`: an edit that found the draft before somebody published it writes its
  content into the published version (`new_version` has no condition on the status).
* `trust_store_removal`: `publish_version` reads the current certificates before the row lock; of
  two additions made at once, the later version lacks what the earlier one added.

Also observed: `deliver_pending` takes no lock and commits once per batch, so two workers may mail a
notice twice; a commit of the worker's main loop that meets a deleted row ends the process; an edit
made between `create_run`'s commit and the trigger's is overwritten in `next_run_at`. Two saves of one
schedule that overlap, or a save that overlaps the tick, mix their columns (`update_schedule` reads without a lock and
its UPDATE names the changed columns only): an active schedule may be left without a next run, an occurrence may be
fired again with no death at all, and the history then does not name its second run. That is what the exemption
`crossed` of the schedule's properties stands for; without it they are violated with no fault. Two edits
that found no draft may both start one, after which every edit and publication of that item
raises; two publications of the same draft may leave two versions published, or publish again
what was archived. A store may be erased while a profile that selects it is being saved: later
launches are then refused, never silently weakened (`NoSilentDowngrade`). The comment of
`profile_usage` speaks of the latest version of a profile; the code looks at all of them, which is
what keeps an older published selection safe.

### Seen while modelling, not stated as properties

Access keys. `create_token` checks the authorisation, and an administrator may withdraw it and
revoke the keys before the new key is inserted: that key is never answered while the right is
withdrawn (the theorem above), but it is in force again after a new grant, although
docs/admin/operations.md:47 says a withdrawal revokes the keys. Two administrators who switch the API and the
MCP service at once lose one of the two; two first switches, and two concurrent generations, collide on a
key and one of them is answered with an error of the server. Two generations answered out of order
leave the secret of a revoked key on the screen; a lost answer leaves a key nobody knows. Two
administrators may demote each other at once and leave none.

Results. "A target not tested in one of the runs is never reported as fixed" (comparison.py:1; so evolution.py:4-5,
docs/user/dashboard.md:15, docs/user/guide.md:26, docs/user/api-results.md:20), and the code asks only that the newer run has a
row of the endpoint (`key[1] in new_e`, comparison.py:59). An endpoint whose row says that it could not be tested, an error,
counts as observed, and its findings come out as fixed. `RunResults` has such rows and does so, and the property of the
evolution speaks of rows, not of tests that succeeded. No run states the promise, as the engine of this
commit writes such a row for no endpoint: it writes OK and KO, and an error is only provided for (report_model.py:236,
`final_status`). Likewise a finding whose check failed or was off in the newer run comes out as fixed. "The latest finished
run of every scan definition in the caller's scope" (dashboard.py:4-5) is looked for among the 200 latest finished runs that
have a summary (api/runs.py:280): a scan whose last run is older than these is absent from the posture. `DASHBOARD_RUNS` is that
number, 2 in the runs. `previous_comparable` and the trend take all runs whose definition was
deleted for one definition. The tiles count pairs of informational and error findings that the severity
table leaves out. A partial newest run hides the endpoints it did not see. In `RunDetail.tsx`, the rows of
TLS checks of two addresses with one name and port have the same key.

Pages. A poll that fails once stops the wizard of DNS discovery from following its job
(`DnsDiscovery.tsx:126`). A 401 that arrives after a new sign-in signs out; a sign-out with another
tab's cookie is refused. In the Greenbone page a retrieval that is started keeps the old preview, and
Apply then posts its indices to the new job (docs/integrations/greenbone-import.md:49 has the preview reviewed before it is applied), and after Apply the interval of
the job is not started again. `selectWhere` overwrites what was ticked meanwhile; a plan may be
older than the selection it is applied with. The text of a setting is lost when its save fails; toggles of
preferences and of roles write what the page last saw. A late answer of a launch or deletion
navigates away from another page; double clicks start and save twice. A target that is known is taken
for a value with other ports (`Targets.tsx:46-47`). The engine takes a mapping without `enabled`
for enabled (`config.py:452`), the form shows it unticked until it is touched; unticking the chain
verification keeps a selected store, hidden, and the save is refused. The editor of a
version edits what its list last loaded.

Report. `compareValues` is no order on columns that mix numbers and texts, and takes every text without a digit for
the number 0 (`Number('')`), so that sorting a column of words leaves its order as it is; scrolling inside a menu
closes it; from the keyboard a menu outlives the table it belongs to, and the content of a closed drawer is only moved
out of sight, so its tables can still be reached. A row without forward secrecy may count twice for
`TLS_NO_FORWARD_SECRECY` (report_model.py:649-658).

## Not modelled, and the plan

1. `Jobs`: the worker's side of DNS discovery and Greenbone import as job rows with heartbeats,
   recovery and finalisers (a discovery failed as lost and then finalised by the worker that was
   only slow, a death between `applying` and the commit of an import).
2. `Engine`: the child process, hosts and passes under cancellation, the result file.
3. The window of failed attempts (`services/rate_limit.py`), and a second scheduler by mistake, ordered
   by the unique index of triggers.
4. Pure modules, checked against reference definitions: wall-clock `next_after` over a change of
   summer time, exclusions, grading, DNS reconciliation.
5. Pages of trust stores (a preview older than its file), of directories and sign-in configuration, and
   the settings forms.
6. Proofs: that the runs' remaining invariant (`CsvReadsBack`) holds for every table, should a prover do
   induction over sequences; refinements of what the planned modules promise.

The hazards in `PROJECT.json` are those that some property covers, and three that the models reach and that
no property forbids, because it would be false and nothing in the repository promises it; the ones named
above and in this list are the others.

Left out for good: the other formats of reports and exports (wording and layout), dictionaries and styles
of the application, network probes of the engine and the SSO and directory exchanges (input and output
with outside systems), the installation script.
