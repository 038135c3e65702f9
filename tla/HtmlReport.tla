----------------------------- MODULE HtmlReport -----------------------------
(***************************************************************************)
(* The page of an HTML report (js/report.js) and its reader: the filters, *)
(* the tables, the column menu, the drawer, the CSV.  Everything happens  *)
(* in one thread; an event is one action.                                  *)
(*                                                                         *)
(* A reader points at a control, and the mousedown closes the menu of     *)
(* another place first, or reaches it from the keyboard, and it stays.  A  *)
(* menu may so outlive its table: it then acts on an "orphan" that is no   *)
(* longer in the document.                                                 *)
(***************************************************************************)
EXTENDS ReportViews

CONSTANTS Reports,    \* the scans that are reported
          Queries,    \* what is typed into a search field; "" is nothing
          Severities, Compliances, HostSorts,   \* bounds: the choices of each
          CertificateStates, CertificateSorts,  \* list that the reader makes
          MaxEvents   \* bound: events of a reading

VARIABLES
  data,         \* the report model embedded in the page
  overview,     \* what the sections drawn once say
  findingView,  \* filters of the findings, the cards and the count
  hostView,     \* filters and order of the hosts, the cards and the counts
  certView,     \* filter and order of the certificates
  tables,       \* every table, and the one an open menu outlived
  suitesShown,  \* the count above the suites
  menu,         \* the column menu: one at most
  drawer,       \* the drawer: open, and the endpoints it is about
  landed,       \* the card the last "View full finding detail" went to
  download,     \* the last CSV
  events        \* bound

vars == <<data, overview, findingView, hostView, certView, tables, suitesShown, menu,
          drawer, landed, download, events>>

\* The tables of the sections; an endpoint's table of checks goes by its id.
Sections == {"certificates", "trust", "stores", "communication", "technical", "drawer", "orphan"}
EndpointIds == UNION {{scan.endpoints[i].id : i \in DOMAIN scan.endpoints} : scan \in Reports}
TableIds == Sections \cup EndpointIds
Devices == {"pointer", "keyboard"}

ASSUME ChoicesAssumption ==
  /\ Severities \subseteq {"all"} \cup ToSet(severities)
  /\ Compliances \subseteq {"all", "compliant", "non_compliant", "error", "not_tested"}
  /\ HostSorts \subseteq {"severity", "score", "hostname", "grade", "findings", "ports", "expiration"}
  /\ CertificateStates \subseteq {"all"} \cup certOrder
  /\ CertificateSorts \subseteq {"expiration", "remaining", "status", "endpoint", "issuer", "key_size"}

\* Endpoints and findings are told apart by their ids (rows_by_endpoint,
\* FINDING_DEFINITIONS), and so are the titles and the ids ordered.
ScanOK(scan) ==
  /\ IsList(scan.results) /\ IsList(scan.endpoints)
  /\ \A i \in DOMAIN scan.results : scan.results[i].verdict \in {"KO", "ERROR"} =>
                                     scan.results[i].finding \in DOMAIN FindingDefinitions
  /\ \A i, j \in DOMAIN scan.endpoints : scan.endpoints[i].id = scan.endpoints[j].id => i = j
  /\ \A i \in DOMAIN scan.endpoints :
       /\ IsList(scan.endpoints[i].checks) /\ IsList(scan.endpoints[i].certificate.stores)
       /\ scan.endpoints[i].certificate.findings \subseteq DOMAIN FindingDefinitions

ASSUME ReportsAssumption ==
  /\ IsFiniteSet(DOMAIN FindingDefinitions) /\ "TLS_NO_FORWARD_SECRECY" \in DOMAIN FindingDefinitions
  /\ \A f \in DOMAIN FindingDefinitions :
       /\ FindingDefinitions[f].severity \in ToSet(severities)
       /\ {FindingDefinitions[f].rank, FindingDefinitions[f].title} \subseteq Int
  /\ \A f, g \in DOMAIN FindingDefinitions :
       FindingDefinitions[f].rank = FindingDefinitions[g].rank => f = g
  /\ {TopStatistics, HostCap, TopCap, ExposureCap, SuiteCap} \subseteq Nat
  /\ NaN \notin Int
  /\ EndpointIds \cap Sections = {}
  /\ \A scan \in Reports : ScanOK(scan)

Init ==
  \E scan \in Reports : LET d == build_report_model(scan) IN
    /\ data = d
    /\ overview = Overview(d)
    /\ findingView = renderFindings(d, "", "all")
    /\ hostView = renderHosts(d, [q |-> "", compliance |-> "all", sort |-> "severity"])
    /\ certView = [status |-> "all", sort |-> "expiration"]
    /\ tables = [id \in TableIds |->
         CASE id = "certificates"  -> renderCertificates(d, [status |-> "all", sort |-> "expiration"])
           [] id = "trust"         -> TrustTable(d)
           [] id = "stores"        -> StoreTable(d)
           [] id = "communication" -> SuiteTable(d)
           [] id = "technical"     -> TechnicalTable(d)
           [] id \in Checked(d)    -> CheckTable(d, id)
           [] OTHER                -> NoTable]
    /\ suitesShown = Len(SuiteTable(d).shown)
    /\ menu = NoMenu
    /\ drawer = [open |-> FALSE, of |-> << >>]
    /\ landed = "nowhere"
    /\ download = << >>
    /\ events = 0

Event == /\ events < MaxEvents
         /\ events' = events + 1
         /\ UNCHANGED <<data, overview>>

FindingsAlone == UNCHANGED <<findingView, landed>>
HostsAlone == UNCHANGED <<hostView, drawer>>
-----------------------------------------------------------------------------
(* The menu. *)

\* The document's listener for mousedown: the keyboard does not reach it.
MenuAfter(device) == IF device = "pointer" THEN NoMenu ELSE menu

\* Nothing but the menu changes; without it its orphan is garbage.
Leaves(m) ==
  /\ menu' = m
  /\ tables' = [tables EXCEPT !["orphan"] = IF m.table = "orphan" THEN @ ELSE NoTable]

\* A new table takes the place of another, under the menu m.
Redraw(id, new, m) ==
  /\ menu' = IF m.table = id THEN [m EXCEPT !.table = "orphan"] ELSE m
  /\ tables' = [tables EXCEPT ![id] = new,
                 !["orphan"] = CASE m.table = id -> tables[id]
                                 [] m.table = "orphan" -> @
                                 [] OTHER -> NoTable]

\* closeMenu.
CloseMenu == Leaves(NoMenu) /\ UNCHANGED suitesShown

\* A click on the name of a column: its menu opens, or closes if it was open.
\* The keyboard also reaches the table of a closed drawer, which is only moved
\* out of sight.
toggleMenu(id, c) ==
  /\ Event
  /\ tables[id] # NoTable
  /\ c \in DOMAIN tables[id].hidden
  /\ id # "orphan"
  /\ Leaves(IF menu.table = id /\ menu.column = c THEN NoMenu ELSE buildMenu(id, tables[id], c))
  /\ FindingsAlone /\ HostsAlone /\ UNCHANGED <<certView, suitesShown, download>>

\* applyState on the menu's table, with onRender for the suites.
ActsOnTable(new) ==
  /\ tables' = [tables EXCEPT ![menu.table] = new]
  /\ suitesShown' = IF menu.table = "communication" THEN Len(new.shown) ELSE suitesShown
  /\ FindingsAlone /\ HostsAlone /\ UNCHANGED <<certView, download>>

\* Sort ascending, Sort descending, Clear sort: apply, then close.
SortFromMenu(new) ==
  /\ menu' = NoMenu
  /\ tables' = [tables EXCEPT ![menu.table] = IF menu.table = "orphan" THEN NoTable ELSE new,
                              !["orphan"] = NoTable]
  /\ suitesShown' = IF menu.table = "communication" THEN Len(new.shown) ELSE suitesShown
  /\ FindingsAlone /\ HostsAlone /\ UNCHANGED <<certView, download>>

SortBy(direction) ==
  /\ Event
  /\ menu # NoMenu
  /\ SortFromMenu(SortedBy(tables[menu.table], menu.column, direction))

ClearSort ==
  /\ Event
  /\ menu # NoMenu /\ menu.clearSort
  /\ SortFromMenu(ClearedSort(tables[menu.table]))

FilterMenu == menu # NoMenu /\ tables[menu.table].filterable

SearchValues(q) ==
  /\ Event
  /\ FilterMenu /\ q # menu.search
  /\ q \in {""} \cup Values(tables[menu.table], menu.column)
  /\ menu' = [menu EXCEPT !.search = q, !.boxes = renderList(tables[menu.table], menu.column, q)]
  /\ FindingsAlone /\ HostsAlone /\ UNCHANGED <<certView, suitesShown, download, tables>>

ToggleBox(v) ==
  /\ Event
  /\ FilterMenu /\ v \in DOMAIN menu.boxes
  /\ menu' = [menu EXCEPT !.boxes[v] = ~ @]
  /\ ActsOnTable(Ticked(tables[menu.table], menu, v))

\* Select all, Clear all: the state, the table, then the boxes again.  Clear
\* all hides every value of the column, whatever the search shows.  Mutated
\* form: the boxes stay as they are.
SetAllBoxes_stale(values) ==
  /\ UNCHANGED menu
  /\ ActsOnTable(WithHidden(tables[menu.table], menu.column, values))
SetAllBoxes(values) ==
  LET new == WithHidden(tables[menu.table], menu.column, values)
  IN /\ menu' = [menu EXCEPT !.boxes = renderList(new, menu.column, menu.search)]
     /\ ActsOnTable(new)

SelectAll == Event /\ FilterMenu /\ SetAllBoxes({})
ClearAll  == Event /\ FilterMenu /\ SetAllBoxes(Values(tables[menu.table], menu.column))

MenuStep == \/ \E id \in TableIds, c \in 1..2 : toggleMenu(id, c)
            \/ \E direction \in {1, -1} : SortBy(direction)
            \/ ClearSort \/ SelectAll \/ ClearAll
            \/ FilterMenu /\ \E v \in {""} \cup Values(tables[menu.table], menu.column) :
                                SearchValues(v) \/ ToggleBox(v)
-----------------------------------------------------------------------------
(* Filters. *)

SetFindingFilters(device, q, severity) ==
  /\ Event
  /\ (q = findingView.q) # (severity = findingView.severity)
  /\ findingView' = renderFindings(data, q, severity)
  /\ Leaves(MenuAfter(device))
  /\ HostsAlone /\ UNCHANGED <<certView, suitesShown, landed, download>>

SetHostFilters(device, v) ==
  /\ Event
  /\ Cardinality({k \in {"q", "compliance", "sort"} : v[k] # hostView[k]}) = 1
  /\ hostView' = renderHosts(data, v)
  /\ Leaves(MenuAfter(device))
  /\ FindingsAlone /\ UNCHANGED <<certView, suitesShown, drawer, download>>

\* The certificates get a new table: its filters and its sort start afresh.
SetCertificates(device, v) ==
  /\ Event
  /\ (v.status = certView.status) # (v.sort = certView.sort)
  /\ certView' = v
  /\ Redraw("certificates", renderCertificates(data, v), MenuAfter(device))
  /\ FindingsAlone /\ HostsAlone /\ UNCHANGED <<suitesShown, download>>

\* "View full finding detail" under a top finding.  Mutated form: it empties
\* the search and forgets the severity.
ViewFull_keeps_severity(device, f) ==
  /\ Event
  /\ Leaves(MenuAfter(device))
  /\ HostsAlone /\ UNCHANGED <<certView, suitesShown, download>>
  /\ LET view == renderFindings(data, "", findingView.severity)
     IN /\ findingView' = view
        /\ landed' = IF \E i \in DOMAIN view.cards : view.cards[i].id = f THEN f ELSE "lost"
ViewFull(device, f) ==
  /\ Event
  /\ Leaves(MenuAfter(device))
  /\ HostsAlone /\ UNCHANGED <<certView, suitesShown, download>>
  /\ LET view == resetFindingFilters(data)
     IN /\ findingView' = view
        /\ landed' = IF \E i \in DOMAIN view.cards : view.cards[i].id = f THEN f ELSE "lost"

FilterStep == \E device \in Devices :
  \/ \E q \in Queries, severity \in Severities : SetFindingFilters(device, q, severity)
  \/ \E q \in Queries, s \in HostSorts, c \in Compliances :
       SetHostFilters(device, [q |-> q, compliance |-> c, sort |-> s])
  \/ \E status \in CertificateStates, sort \in CertificateSorts :
       SetCertificates(device, [status |-> status, sort |-> sort])
  \/ \E i \in DOMAIN overview.top : ViewFull(device, overview.top[i])
-----------------------------------------------------------------------------
(* The drawer, and the document's other listeners. *)

openHostEndpoints(device, card) ==
  /\ Event
  /\ drawer' = [open |-> TRUE, of |-> card.endpoints]
  /\ Redraw("drawer", HostDrawerTable(data, card.endpoints), MenuAfter(device))
  /\ FindingsAlone /\ UNCHANGED <<hostView, certView, suitesShown, download>>

\* From an exposed endpoint, a top finding, or a row of a host's drawer.
Offered(device) == ToSet(overview.exposure)
           \cup UNION {data.findings[i].affected : i \in
                         {j \in DOMAIN data.findings : data.findings[j].id \in ToSet(overview.top)}}
           \cup (IF drawer.open \/ device = "keyboard" THEN ToSet(drawer.of) ELSE {})

openEndpoint(device, id) ==
  /\ Event
  /\ id \in Offered(device)
  /\ drawer' = [open |-> TRUE, of |-> << id >>]
  /\ Redraw("drawer", EndpointDrawerTable(data, id), MenuAfter(device))
  /\ FindingsAlone /\ UNCHANGED <<hostView, certView, suitesShown, download>>

\* The cross or the backdrop.
closeDrawer(device) ==
  /\ Event
  /\ drawer.open
  /\ drawer' = [drawer EXCEPT !.open = FALSE]
  /\ Leaves(MenuAfter(device))
  /\ FindingsAlone /\ UNCHANGED <<hostView, certView, suitesShown, download>>

\* Both listeners for Escape run.
Escape ==
  /\ Event
  /\ drawer' = [drawer EXCEPT !.open = FALSE]
  /\ CloseMenu
  /\ FindingsAlone /\ UNCHANGED <<hostView, certView, download>>

\* Scrolling the page, or the very list of values, and resizing.
Scroll ==
  /\ Event
  /\ menu # NoMenu
  /\ CloseMenu
  /\ FindingsAlone /\ HostsAlone /\ UNCHANGED <<certView, download>>

downloadCsv(device) ==
  /\ Event
  /\ download' = csvContent(data.raw_results)
  /\ Leaves(MenuAfter(device))
  /\ FindingsAlone /\ HostsAlone /\ UNCHANGED <<certView, suitesShown>>

DrawerStep == \/ \E device \in Devices :
                   \/ \E i \in DOMAIN hostView.cards : openHostEndpoints(device, hostView.cards[i])
                   \/ \E i \in DOMAIN data.endpoints : openEndpoint(device, data.endpoints[i].id)
                   \/ closeDrawer(device) \/ downloadCsv(device)
              \/ Escape \/ Scroll

Next == MenuStep \/ FilterStep \/ DrawerStep
Spec == Init /\ [][Next]_vars
-----------------------------------------------------------------------------
(* Properties. *)

Page == TableIds \ {"orphan"}
Drawn == {id \in Page : tables[id] # NoTable}

Occurs(row, rows) == Among(rows, LAMBDA r : r = row)
Numeric(t, c) == \A v \in Values(t, c) : v # "" /\ NumberOf[v] \in Int
Textual(t, c) == \A v \in Values(t, c) : NumberOf[v] = NaN /\ RankOf[v] \in Int
Weight(t, row) == (IF Numeric(t, t.index) THEN NumberOf[row[t.index]] ELSE RankOf[row[t.index]]) * t.direction

\* table(): after any sequence of sorts, filters, redraws and closed menus, a
\* table of the page shows each row that no column hides as often as it has
\* it, in the order asked for if the texts of the column all give a number or
\* none of them does, the count above the suites is the number of
\* rows below it, and the boxes of the open menu are what is hidden; only
\* values the table has are hidden, so that a menu can bring them back.
TablesShowTheirState ==
  /\ \A id \in Drawn : LET t == tables[id] IN
       /\ \A c \in DOMAIN t.hidden : t.hidden[c] \subseteq Values(t, c)
       /\ \A row \in ToSet(t.rows) \cup ToSet(t.shown) :
            Occurs(row, t.shown) = IF Passes(t, row) THEN Occurs(row, t.rows) ELSE 0
       /\ (t.index # Unsorted /\ (Numeric(t, t.index) \/ Textual(t, t.index))) =>
            \A i, k \in DOMAIN t.shown : i < k => Weight(t, t.shown[i]) <= Weight(t, t.shown[k])
  /\ suitesShown = Len(tables["communication"].shown)
  /\ menu # NoMenu => \A v \in DOMAIN menu.boxes :
       menu.boxes[v] <=> v \notin tables[menu.table].hidden[menu.column]

\* initEndpoints: every endpoint the filters let through is counted, and is on
\* the card of its host, with all its like, unless the cap keeps that host out.
HostCardsTell ==
  LET matching == {e \in ToSet(data.endpoints) : EndpointMatches(e, hostView)}
      cards == hostView.cards
  IN /\ hostView.endpoints = Cardinality(matching)
     /\ hostView.hosts = Len(cards) /\ Len(cards) <= HostCap
     /\ \A i \in DOMAIN cards :
          /\ ToSet(cards[i].endpoints) = {e.id : e \in {x \in matching : x.host = cards[i].host}}
          /\ \A k \in DOMAIN cards : k # i => cards[k].host # cards[i].host
          /\ cards[i].compliant <=> \A e \in matching : e.host = cards[i].host => e.status = "compliant"
     /\ hostView.capped <=> Cardinality({e.host : e \in matching}) > HostCap

\* What the overview promises, the lists below it hold: a "strong" posture has
\* no host that is not compliant nor a card of a high risk, a "high risk" has
\* one or the other, the bar and the indicators count the cards, and no
\* endpoint left out of the exposure is worse than one in it.
OverviewAgrees ==
  LET High(card) == card.severity \in {"critical", "high"}
      unfiltered == findingView.q = "" /\ findingView.severity = "all"
      everyHost  == hostView.q = "" /\ hostView.compliance = "all"
      posture    == overview.context.posture
  IN /\ unfiltered =>
          /\ findingView.count = Total([i \in DOMAIN overview.severities |-> overview.severities[i].unique])
          /\ overview.kpis.highRisk = Among(findingView.cards, High)
          /\ \A i \in DOMAIN findingView.cards :
               findingView.cards[i].impacted =
                 Among(data.endpoints, LAMBDA e : findingView.cards[i].id \in e.findings)
     /\ (unfiltered /\ everyHost /\ posture = "strong") =>
          /\ \A i \in DOMAIN hostView.cards : hostView.cards[i].compliant /\ hostView.cards[i].high = 0
          /\ overview.kpis.highRisk = 0 /\ overview.compliance = "Compliant"
     /\ posture = "high-risk" <=> \/ overview.kpis.highRisk > 0
                                  \/ \E e \in ToSet(data.endpoints) : e.status = "non_compliant"
     /\ \A e \in ToSet(data.endpoints) : e.id \notin ToSet(overview.exposure) =>
          /\ \A i \in DOMAIN overview.exposure : Exposure(Endpoint(data, overview.exposure[i])) >= Exposure(e)
          /\ Len(overview.exposure) < ExposureCap => e.severity \in {"informational", "none"}

\* topFindingRow: the link under a top finding always arrives at its card,
\* whatever the filters hid before, and then every finding is shown.
LinkLandsOnCard ==
  [][\A device \in Devices : \A i \in DOMAIN overview.top : ViewFull(device, overview.top[i]) =>
       landed' = overview.top[i] /\ findingView'.count = Len(data.findings)]_vars

\* downloadCsv: a reader of CSV finds in the file the header and the rows of the
\* results, whatever their cells hold, an empty cell as a dash; every suite of
\* the page has a row of its own there.
CsvReadsBack ==
  download # << >> =>
    LET rows == data.raw_results IN
    /\ CsvRead(download) = << CsvHeaders >> \o [i \in DOMAIN rows |->
                                                   [k \in DOMAIN rows[i] |-> normalize(rows[i][k])]]
    /\ Len(CsvRead(download)) > Len(tables["communication"].rows)
=============================================================================
