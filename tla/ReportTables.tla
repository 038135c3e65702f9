---------------------------- MODULE ReportTables ----------------------------
(***************************************************************************)
(* The tables of the HTML report (table() of js/report.js): a sort and,   *)
(* on filterable tables, the values hidden in each column; the column     *)
(* menu, of which the page has one at most; and the CSV of the page.      *)
(*                                                                         *)
(* A table is a record: its rows (sequences of cell texts), the state of  *)
(* the closure, and what the document shows of it.  What the browser      *)
(* computes of a text is given by constants.                              *)
(***************************************************************************)
EXTENDS ReportData

CONSTANTS NumberOf,  \* text -> Number(text stripped of all but 0-9.-), or NaN
          RankOf,    \* text -> its place in the order of localeCompare that reads numbers
          LocaleRank, \* the same, in the order that does not
          CsvHeaders, \* the header row of the CSV
          NaN

Unsorted == 0
NoTable == [rows |-> << >>, shown |-> << >>]

\* Numbers when both texts give one, the locale's order otherwise.
compareValues(a, b) ==
  IF a # "" /\ b # "" /\ NumberOf[a] # NaN /\ NumberOf[b] # NaN
  THEN NumberOf[a] - NumberOf[b] ELSE RankOf[a] - RankOf[b]

Passes(t, row) == \A c \in DOMAIN t.hidden : row[c] \notin t.hidden[c]

\* renderRows: the document gets the rows of the state, in its order.
Visible(t) == {i \in DOMAIN t.rows : Passes(t, t.rows[i])}
ByColumn(t) == After(t.rows, LAMBDA a, b : compareValues(a[t.index], b[t.index]) * t.direction)
applyState(t) ==
  [t EXCEPT !.shown = IF t.index = Unsorted THEN Chosen(t.rows, Visible(t))
                      ELSE OrderBy(t.rows, Visible(t), ByColumn(t))]

\* table(headers, rows, options).
table(columns, rows, filterable) ==
  applyState([rows |-> rows, filterable |-> filterable, index |-> Unsorted, direction |-> 1,
              hidden |-> [c \in 1..columns |-> {}], shown |-> << >>])

Values(t, c) == {t.rows[i][c] : i \in DOMAIN t.rows}
-----------------------------------------------------------------------------
(* The menu of a column: buttons that act on the state of its table, and   *)
(* the boxes of the values that the search lets through.                   *)

NoMenu == [table |-> "none"]

\* renderList; q is a value, or "" for all.
renderList(t, c, q) ==
  [v \in (IF q = "" THEN Values(t, c) ELSE Values(t, c) \cap {q}) |-> v \notin t.hidden[c]]

buildMenu(id, t, c) ==
  [table |-> id, column |-> c, search |-> "", clearSort |-> t.index = c,
   boxes |-> IF t.filterable THEN renderList(t, c, "") ELSE << >>]

SortedBy(t, c, direction) == applyState([t EXCEPT !.index = c, !.direction = direction])
ClearedSort(t) == applyState([t EXCEPT !.index = Unsorted])
WithHidden(t, c, values) == applyState([t EXCEPT !.hidden[c] = values])

\* The change event of a box: it ticks or unticks, then writes the state.
Ticked(t, menu, v) ==
  WithHidden(t, menu.column, IF menu.boxes[v] THEN t.hidden[menu.column] \cup {v}
                             ELSE t.hidden[menu.column] \ {v})
-----------------------------------------------------------------------------
(* csvContent, and how a reader of CSV takes it back.  Here a text is a    *)
(* sequence of characters: quoting is what is at stake.                    *)

normalize(cell) == IF cell = << >> THEN << "-" >> ELSE cell

\* Mutated form: a quote inside a quoted cell is left single.
csvCell_single_quote(cell) ==
  LET text == normalize(cell)
  IN IF ToSet(text) \cap {",", "\"", "\n", "\r"} = {} THEN text ELSE << "\"" >> \o text \o << "\"" >>
csvCell(cell) ==
  LET text == normalize(cell)
  IN IF ToSet(text) \cap {",", "\"", "\n", "\r"} = {} THEN text
     ELSE << "\"" >> \o FlattenSeq([i \in DOMAIN text |->
            IF text[i] = "\"" THEN <<"\"", "\"">> ELSE << text[i] >>]) \o << "\"" >>

JoinedBy(seqs, sep) == FlattenSeq([i \in DOMAIN seqs |-> IF i = 1 THEN seqs[i] ELSE << sep >> \o seqs[i]])

csvLines(rows) ==
  JoinedBy([i \in DOMAIN rows |-> JoinedBy([k \in DOMAIN rows[i] |-> csvCell(rows[i][k])], ",")], "\n")
  \o << "\n" >>
csvContent(rows) == csvLines(<< CsvHeaders >> \o rows)

\* RFC 4180, the reference.  A comma or a line break after an even number of
\* quotes ends a field; of a quoted field every other quote is text, but the first.
CsvRead(text) ==
  LET quotes == [i \in DOMAIN text |-> Cardinality({j \in 1..i : text[j] = "\""})]
      ends == SelectSeq([i \in DOMAIN text |-> i],
                        LAMBDA i : text[i] \in {",", "\n"} /\ quotes[i] % 2 = 0)
      lines == SelectSeq(ends, LAMBDA e : text[e] = "\n")
      Previous(e, among) == Max({0} \cup {d \in ToSet(among) : d < e})
      Field(e) ==
        LET from == Previous(e, ends) + 1
            span == [i \in 1..(e - from) |-> from + i - 1]
            kept == IF text[from] # "\"" THEN span
                    ELSE Tail(SelectSeq(span, LAMBDA i : text[i] # "\"" \/ quotes[i] % 2 = 1))
        IN [i \in DOMAIN kept |-> text[kept[i]]]
      Row(e) == LET its == SelectSeq(ends, LAMBDA d : Previous(e, lines) < d /\ d <= e)
                IN [k \in DOMAIN its |-> Field(its[k])]
  IN [n \in DOMAIN lines |-> Row(lines[n])]
=============================================================================
