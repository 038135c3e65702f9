---------------------------- MODULE ReportProofs ----------------------------
(***************************************************************************)
(* Theorems about HtmlReport, for any reports and any events of a reader:  *)
(* the tables show their state.                                            *)
(***************************************************************************)
EXTENDS HtmlReport, ListsProofs
-----------------------------------------------------------------------------
(* Lists. *)

\* What a filter and a sort return.
LEMMA OrderByIs ==
  ASSUME NEW s, NEW I \in SUBSET Int, IsFiniteSet(I), NEW after
  PROVE  /\ IsList(OrderBy(s, I, after)) /\ Len(OrderBy(s, I, after)) = Cardinality(I)
         /\ OrderBy(s, I, after) = Take(s, Sorted(I, after))
         /\ Sorted(I, after) \in Bijection(1..Cardinality(I), I)
<1>1. Sorted(I, after) \in Bijection(1..Cardinality(I), I) /\ Cardinality(I) \in Nat
  BY SortedNumbers, FS_CardinalityType
<1>2. DOMAIN Sorted(I, after) = 1..Cardinality(I)
  BY <1>1 DEF Bijection, Injection
<1> QED
  BY <1>1, <1>2, TakenIsList DEF OrderBy

LEMMA ChosenIs ==
  ASSUME NEW s, NEW I \in SUBSET Int, IsFiniteSet(I)
  PROVE  /\ IsList(Chosen(s, I)) /\ Len(Chosen(s, I)) = Cardinality(I)
         /\ Chosen(s, I) = Take(s, Listed(I, Ascending(I)))
         /\ Listed(I, Ascending(I)) \in Bijection(1..Cardinality(I), I)
<1>1. Listed(I, Ascending(I)) \in Bijection(1..Cardinality(I), I) /\ Cardinality(I) \in Nat
  BY AscendingOrders, ListedNumbers, FS_CardinalityType
<1>2. DOMAIN Listed(I, Ascending(I)) = 1..Cardinality(I)
  BY <1>1 DEF Bijection, Injection
<1> QED
  BY <1>1, <1>2, TakenIsList DEF Chosen

\* The first of a list.
LEMMA FirstIs ==
  ASSUME NEW seq, IsList(seq), NEW n \in Nat
  PROVE  /\ IsList(First(seq, n)) /\ Len(First(seq, n)) = (IF Len(seq) < n THEN Len(seq) ELSE n)
         /\ \A k \in DOMAIN First(seq, n) : k \in DOMAIN seq /\ First(seq, n)[k] = seq[k]
  BY DEF First, IsList

\* Lists put one after the other are a list.
LEMMA JoinedIs ==
  ASSUME NEW seqs, IsList(seqs), \A i \in DOMAIN seqs : IsList(seqs[i])
  PROVE  IsList(Joined(seqs))
<1> DEFINE P == Places(seqs)
           at == Listed(P, Lexicographic(P))
           Q(i) == {i} \X (DOMAIN seqs[i])
<1>1. ASSUME NEW i \in DOMAIN seqs PROVE IsFiniteSet(Q(i))
  BY ListFinite, FS_Singleton, FS_Product
<1>2. IsFiniteSet({Q(i) : i \in DOMAIN seqs})
  <2> HIDE DEF Q
  <2> DEFINE f == [i \in DOMAIN seqs |-> Q(i)]
  <2>1. f \in Surjection(DOMAIN seqs, {Q(i) : i \in DOMAIN seqs})
    BY DEF Surjection
  <2> HIDE DEF f
  <2> QED
    BY <2>1, ListFinite, FS_Surjection
<1>3. IsFiniteSet(P)
  <2>1. \A q \in {Q(i) : i \in DOMAIN seqs} : IsFiniteSet(q)
    BY <1>1
  <2> QED
    BY <1>2, <2>1, FS_UNION DEF Places
<1>4. Cardinality(P) \in Nat
  BY <1>3, FS_CardinalityType
<1>5. DOMAIN at = 1..Cardinality(P)
  BY DEF Listed
<1>6. Joined(seqs) = [k \in DOMAIN at |-> seqs[at[k][1]][at[k][2]]]
  BY DEF Joined
<1> HIDE DEF P, at
<1> QED
  BY <1>4, <1>5, <1>6 DEF IsList
-----------------------------------------------------------------------------
(* A table. *)

\* What the document shows of a table in some state.
ShownOf(t) == IF t.index = Unsorted THEN Chosen(t.rows, Visible(t)) ELSE OrderBy(t.rows, Visible(t), ByColumn(t))

TableOK(t) ==
  /\ t = [rows |-> t.rows, filterable |-> t.filterable, index |-> t.index, direction |-> t.direction,
          hidden |-> t.hidden, shown |-> t.shown]
  /\ IsList(t.rows)
  /\ t.direction \in {1, -1}
  /\ t.hidden = [c \in DOMAIN t.hidden |-> t.hidden[c]]
  /\ \A c \in DOMAIN t.hidden : t.hidden[c] \subseteq Values(t, c)
  /\ t.shown = ShownOf(t)

\* The order of a table is well defined whatever it shows.
LEMMA ApplyState ==
  ASSUME NEW t,
         t = [rows |-> t.rows, filterable |-> t.filterable, index |-> t.index, direction |-> t.direction,
              hidden |-> t.hidden, shown |-> t.shown]
  PROVE  /\ applyState(t) = [rows |-> t.rows, filterable |-> t.filterable, index |-> t.index,
                             direction |-> t.direction, hidden |-> t.hidden, shown |-> applyState(t).shown]
         /\ applyState(t).rows = t.rows /\ applyState(t).filterable = t.filterable
         /\ applyState(t).index = t.index /\ applyState(t).direction = t.direction
         /\ applyState(t).hidden = t.hidden
         /\ applyState(t).shown = ShownOf(t) /\ ShownOf(applyState(t)) = ShownOf(t)
<1> DEFINE u == applyState(t)
<1>1. u = [rows |-> t.rows, filterable |-> t.filterable, index |-> t.index, direction |-> t.direction,
           hidden |-> t.hidden, shown |-> ShownOf(t)]
  BY DEF applyState, ShownOf
<1> HIDE DEF u
<1>2. /\ u.rows = t.rows /\ u.index = t.index /\ u.direction = t.direction /\ u.hidden = t.hidden
      /\ u.filterable = t.filterable /\ u.shown = ShownOf(t)
  BY <1>1
<1>3. Visible(u) = Visible(t)
  BY <1>2 DEF Visible, Passes
<1>4. ByColumn(u) = ByColumn(t)
  BY <1>2 DEF ByColumn, After
<1>5. ShownOf(u) = ShownOf(t)
  BY <1>2, <1>3, <1>4 DEF ShownOf
<1> QED
  BY <1>1, <1>2, <1>5 DEF u

\* Applying the state of a table gives a table again.
LEMMA AppliedOK ==
  ASSUME NEW t,
         t = [rows |-> t.rows, filterable |-> t.filterable, index |-> t.index, direction |-> t.direction,
              hidden |-> t.hidden, shown |-> t.shown],
         IsList(t.rows), t.direction \in {1, -1},
         t.hidden = [c \in DOMAIN t.hidden |-> t.hidden[c]],
         \A c \in DOMAIN t.hidden : t.hidden[c] \subseteq Values(t, c)
  PROVE  TableOK(applyState(t))
<1> DEFINE u == applyState(t)
<1>1. /\ u = [rows |-> t.rows, filterable |-> t.filterable, index |-> t.index,
              direction |-> t.direction, hidden |-> t.hidden, shown |-> u.shown]
      /\ u.rows = t.rows /\ u.filterable = t.filterable
      /\ u.index = t.index /\ u.direction = t.direction
      /\ u.hidden = t.hidden
      /\ u.shown = ShownOf(t) /\ ShownOf(u) = ShownOf(t)
  BY ApplyState
<1> HIDE DEF u
<1>2. \A c : Values(u, c) = Values(t, c)
  BY <1>1 DEF Values
<1> QED
  <2>1. u = [rows |-> u.rows, filterable |-> u.filterable, index |-> u.index,
              direction |-> u.direction, hidden |-> u.hidden, shown |-> u.shown]
    BY <1>1
  <2>2. u.hidden = [c \in DOMAIN u.hidden |-> u.hidden[c]]
    BY <1>1
  <2>3. \A c \in DOMAIN u.hidden : u.hidden[c] \subseteq Values(u, c)
    BY <1>1, <1>2
  <2>4. IsList(u.rows) /\ u.direction \in {1, -1} /\ u.shown = ShownOf(u)
    BY <1>1
  <2>5. TableOK(u)
    BY <2>1, <2>2, <2>3, <2>4 DEF TableOK
  <2> QED
    BY <2>5 DEF u

\* A table is well formed from the beginning, and through every sort and filter.
LEMMA TableIsOK ==
  ASSUME NEW columns \in Nat, NEW rows, IsList(rows), NEW filterable
  PROVE  TableOK(table(columns, rows, filterable))
<1> DEFINE t == [rows |-> rows, filterable |-> filterable, index |-> Unsorted, direction |-> 1,
                 hidden |-> [c \in 1..columns |-> {}], shown |-> << >>]
<1>1. TableOK(applyState(t))
  <2>1. t = [rows |-> t.rows, filterable |-> t.filterable, index |-> t.index, direction |-> t.direction,
             hidden |-> t.hidden, shown |-> t.shown]
    OBVIOUS
  <2>2. IsList(t.rows) /\ t.direction \in {1, -1} /\ t.hidden = [c \in DOMAIN t.hidden |-> t.hidden[c]]
    OBVIOUS
  <2>3. \A c \in DOMAIN t.hidden : t.hidden[c] \subseteq Values(t, c)
    OBVIOUS
  <2> HIDE DEF t
  <2> QED
    BY <2>1, <2>2, <2>3, AppliedOK
<1> QED
  BY <1>1 DEF table

LEMMA SortedByOK ==
  ASSUME NEW t, TableOK(t), NEW c, NEW direction \in {1, -1}
  PROVE  TableOK(SortedBy(t, c, direction))
<1> DEFINE u == [t EXCEPT !.index = c, !.direction = direction]
<1>1. /\ u = [rows |-> u.rows, filterable |-> u.filterable, index |-> u.index, direction |-> u.direction,
              hidden |-> u.hidden, shown |-> u.shown]
      /\ u.rows = t.rows /\ u.hidden = t.hidden /\ u.direction = direction
  <2>1. PICK rows, filterable, index, way, hidden, shown :
          t = [rows |-> rows, filterable |-> filterable, index |-> index, direction |-> way,
               hidden |-> hidden, shown |-> shown]
    BY DEF TableOK
  <2> DEFINE w == [t EXCEPT !.index = c]
  <2>2. u = [w EXCEPT !.direction = direction]
    OBVIOUS
  <2>3. w = [rows |-> rows, filterable |-> filterable, index |-> c, direction |-> way,
             hidden |-> hidden, shown |-> shown]
    BY <2>1
  <2> HIDE DEF u, w, TableOK
  <2>4. u = [rows |-> rows, filterable |-> filterable, index |-> c, direction |-> direction,
             hidden |-> hidden, shown |-> shown]
    BY <2>2, <2>3
  <2> QED
    BY <2>1, <2>4
<1> HIDE DEF u
<1>2. /\ IsList(u.rows) /\ u.direction \in {1, -1} /\ u.hidden = [d \in DOMAIN u.hidden |-> u.hidden[d]]
      /\ \A d \in DOMAIN u.hidden : u.hidden[d] \subseteq Values(u, d)
  BY <1>1 DEF TableOK, Values
<1>3. TableOK(applyState(u))
  BY <1>1, <1>2, AppliedOK
<1> QED
  BY <1>3 DEF SortedBy, u

LEMMA ClearedSortOK ==
  ASSUME NEW t, TableOK(t)
  PROVE  TableOK(ClearedSort(t))
<1> DEFINE u == [t EXCEPT !.index = Unsorted]
<1>1. /\ u = [rows |-> u.rows, filterable |-> u.filterable, index |-> u.index, direction |-> u.direction,
              hidden |-> u.hidden, shown |-> u.shown]
      /\ u.rows = t.rows /\ u.hidden = t.hidden /\ u.direction = t.direction
  BY DEF TableOK
<1> HIDE DEF u
<1>2. /\ IsList(u.rows) /\ u.direction \in {1, -1} /\ u.hidden = [d \in DOMAIN u.hidden |-> u.hidden[d]]
      /\ \A d \in DOMAIN u.hidden : u.hidden[d] \subseteq Values(u, d)
  BY <1>1 DEF TableOK, Values
<1>3. TableOK(applyState(u))
  BY <1>1, <1>2, AppliedOK
<1> QED
  BY <1>3 DEF ClearedSort, u

\* What a filter hides is as it was told; the rows and the columns stay.
LEMMA WithHiddenOK ==
  ASSUME NEW t, TableOK(t), NEW c \in DOMAIN t.hidden, NEW values \in SUBSET Values(t, c)
  PROVE  /\ TableOK(WithHidden(t, c, values))
         /\ WithHidden(t, c, values).hidden = [t.hidden EXCEPT ![c] = values]
         /\ \A d : Values(WithHidden(t, c, values), d) = Values(t, d)
<1> DEFINE u == [t EXCEPT !.hidden[c] = values]
<1>1. /\ u = [rows |-> u.rows, filterable |-> u.filterable, index |-> u.index, direction |-> u.direction,
              hidden |-> u.hidden, shown |-> u.shown]
      /\ u.rows = t.rows /\ u.direction = t.direction /\ u.hidden = [t.hidden EXCEPT ![c] = values]
  BY DEF TableOK
<1> HIDE DEF u
<1>2. \A d : Values(u, d) = Values(t, d)
  BY <1>1 DEF Values
<1>3. /\ IsList(u.rows) /\ u.direction \in {1, -1} /\ u.hidden = [d \in DOMAIN u.hidden |-> u.hidden[d]]
      /\ \A d \in DOMAIN u.hidden : u.hidden[d] \subseteq Values(u, d)
  <2>1. IsList(t.rows) /\ t.direction \in {1, -1} /\ \A d \in DOMAIN t.hidden : t.hidden[d] \subseteq Values(t, d)
    BY DEF TableOK
  <2> HIDE DEF TableOK
  <2> QED
    BY <1>1, <1>2, <2>1
<1>4. TableOK(applyState(u))
  BY <1>1, <1>3, AppliedOK
<1>5. applyState(u).hidden = u.hidden /\ applyState(u).rows = u.rows
  BY <1>1, ApplyState
<1>6. \A d : Values(applyState(u), d) = Values(u, d)
  BY <1>5 DEF Values
<1>7. WithHidden(t, c, values) = applyState(u)
  BY DEF WithHidden, u
<1> HIDE DEF TableOK
<1> QED
  BY <1>1, <1>2, <1>4, <1>5, <1>6, <1>7
-----------------------------------------------------------------------------
(* What a well-formed table shows. *)

LEMMA ShownRows ==
  ASSUME NEW t, TableOK(t)
  PROVE  \E at \in Bijection(1..Cardinality(Visible(t)), Visible(t)) :
           /\ t.shown = Take(t.rows, at)
           /\ t.index # Unsorted => at = Sorted(Visible(t), ByColumn(t))
<1>1. Visible(t) \in SUBSET Int /\ IsFiniteSet(Visible(t))
  <2>1. Visible(t) \in SUBSET (DOMAIN t.rows)
    BY DEF Visible
  <2> QED
    BY <2>1, ListFinite, FS_Subset DEF TableOK
<1>2. CASE t.index = Unsorted
  BY <1>1, <1>2, ChosenIs DEF TableOK, ShownOf
<1>3. CASE t.index # Unsorted
  BY <1>1, <1>3, OrderByIs DEF TableOK, ShownOf
<1> QED
  BY <1>2, <1>3

LEMMA ShownOccurs ==
  ASSUME NEW t, TableOK(t), NEW row
  PROVE  Occurs(row, t.shown) = IF Passes(t, row) THEN Occurs(row, t.rows) ELSE 0
<1> DEFINE V == Visible(t)
<1>1. V \in SUBSET (DOMAIN t.rows) /\ IsFiniteSet(V)
  <2>1. V \in SUBSET (DOMAIN t.rows)
    BY DEF Visible
  <2> QED
    BY <2>1, ListFinite, FS_Subset DEF TableOK
<1>2. PICK at \in Bijection(1..Cardinality(V), V) : t.shown = Take(t.rows, at)
  BY ShownRows
<1>3. Occurs(row, t.shown) = Cardinality({i \in V : t.rows[i] = row})
  <2>1. Occurs(row, t.shown) = Cardinality(PlacesOf(row, t.shown, DOMAIN t.shown))
    BY DEF Occurs, Among, PlacesOf
  <2> HIDE DEF V
  <2>2. Cardinality(PlacesOf(row, Take(t.rows, at), DOMAIN Take(t.rows, at))) = Cardinality(PlacesOf(row, t.rows, V))
    BY <1>1, TakeOccurs
  <2> QED
    BY <1>2, <2>1, <2>2 DEF PlacesOf
<1>4. Occurs(row, t.rows) = Cardinality({i \in DOMAIN t.rows : t.rows[i] = row})
  BY DEF Occurs, Among
<1>5. CASE Passes(t, row)
  <2>1. {i \in V : t.rows[i] = row} = {i \in DOMAIN t.rows : t.rows[i] = row}
    BY <1>5 DEF Visible
  <2> QED
    BY <2>1, <1>3, <1>4, <1>5
<1>6. CASE ~ Passes(t, row)
  <2>1. {i \in V : t.rows[i] = row} = {}
    BY <1>6 DEF Visible
  <2> QED
    BY <2>1, <1>3, <1>6, FS_EmptySet
<1> QED
  BY <1>5, <1>6

\* Two texts of a column compare as their weights.
LEMMA WeightCompares ==
  ASSUME NEW t, TableOK(t), t.index # Unsorted, Numeric(t, t.index) \/ Textual(t, t.index),
         NEW j \in DOMAIN t.rows, NEW l \in DOMAIN t.rows
  PROVE  /\ Weight(t, t.rows[j]) \in Int
         /\ compareValues(t.rows[j][t.index], t.rows[l][t.index]) * t.direction
              = Weight(t, t.rows[j]) - Weight(t, t.rows[l])
<1> DEFINE a == t.rows[j][t.index]
           b == t.rows[l][t.index]
<1>1. a \in Values(t, t.index) /\ b \in Values(t, t.index)
  BY DEF Values
<1>2. t.direction = 1 \/ t.direction = -1
  BY DEF TableOK
<1>3. CASE Numeric(t, t.index)
  <2>1. a # "" /\ b # "" /\ NumberOf[a] \in Int /\ NumberOf[b] \in Int
    BY <1>1, <1>3 DEF Numeric
  <2>2. compareValues(a, b) = NumberOf[a] - NumberOf[b]
    BY <2>1, ReportsAssumption DEF compareValues
  <2>3. Weight(t, t.rows[j]) = NumberOf[a] * t.direction /\ Weight(t, t.rows[l]) = NumberOf[b] * t.direction
    BY <1>3 DEF Weight
  <2>4. PICK x \in Int, y \in Int : x = NumberOf[a] /\ y = NumberOf[b]
    BY <2>1
  <2>5. CASE t.direction = 1
    <3>1. compareValues(a, b) = x - y /\ Weight(t, t.rows[j]) = x /\ Weight(t, t.rows[l]) = y
      BY <2>2, <2>3, <2>4, <2>5
    <3> HIDE DEF a, b
    <3>2. compareValues(a, b) * t.direction = x - y
      BY <2>5, <3>1
    <3> QED
      BY <3>1, <3>2 DEF a, b
  <2>6. CASE t.direction = -1
    <3>1. compareValues(a, b) = x - y /\ Weight(t, t.rows[j]) = - x /\ Weight(t, t.rows[l]) = - y
      BY <2>2, <2>3, <2>4, <2>6
    <3> HIDE DEF a, b
    <3>2. compareValues(a, b) * t.direction = y - x
      BY <2>6, <3>1
    <3> QED
      BY <3>1, <3>2 DEF a, b
  <2> QED
    BY <1>2, <2>5, <2>6
<1>4. CASE ~ Numeric(t, t.index)
  <2>1. NumberOf[a] = NaN /\ RankOf[a] \in Int /\ RankOf[b] \in Int
    BY <1>1, <1>4 DEF Textual
  <2>2. compareValues(a, b) = RankOf[a] - RankOf[b]
    BY <2>1 DEF compareValues
  <2>3. Weight(t, t.rows[j]) = RankOf[a] * t.direction /\ Weight(t, t.rows[l]) = RankOf[b] * t.direction
    BY <1>4 DEF Weight
  <2> HIDE DEF a, b
  <2>4. /\ Weight(t, t.rows[j]) \in Int
        /\ compareValues(a, b) * t.direction = Weight(t, t.rows[j]) - Weight(t, t.rows[l])
    <3>1. CASE t.direction = 1
      BY <3>1, <2>1, <2>2, <2>3
    <3>2. CASE t.direction = -1
      BY <3>2, <2>1, <2>2, <2>3
    <3> QED
      BY <1>2, <3>1, <3>2
  <2> QED
    BY <2>4 DEF a, b
<1> QED
  BY <1>3, <1>4

LEMMA ShownSorted ==
  ASSUME NEW t, TableOK(t), t.index # Unsorted, Numeric(t, t.index) \/ Textual(t, t.index),
         NEW i \in DOMAIN t.shown, NEW k \in DOMAIN t.shown, i < k
  PROVE  Weight(t, t.shown[i]) <= Weight(t, t.shown[k])
<1> DEFINE V == Visible(t)
           key == [j \in V |-> Weight(t, t.rows[j])]
<1>1. V \in SUBSET (DOMAIN t.rows) /\ V \in SUBSET Int /\ IsFiniteSet(V)
  <2>1. V \in SUBSET (DOMAIN t.rows)
    BY DEF Visible
  <2> QED
    BY <2>1, ListFinite, FS_Subset DEF TableOK
<1>2. PICK at \in Bijection(1..Cardinality(V), V) : t.shown = Take(t.rows, at) /\ at = Sorted(V, ByColumn(t))
  BY ShownRows
<1>3. \A j \in V : key[j] \in Int
  BY <1>1, WeightCompares
<1>4. ASSUME NEW j \in V, NEW l \in V PROVE <<j, l>> \in ByColumn(t) <=> key[j] > key[l]
  <2>1. <<j, l>> \in ByColumn(t) <=>
          compareValues(t.rows[j][t.index], t.rows[l][t.index]) * t.direction > 0
    BY <1>1 DEF ByColumn, After
  <2>2. compareValues(t.rows[j][t.index], t.rows[l][t.index]) * t.direction
          = Weight(t, t.rows[j]) - Weight(t, t.rows[l])
    BY <1>1, WeightCompares
  <2>3. key[j] = Weight(t, t.rows[j]) /\ key[l] = Weight(t, t.rows[l])
    OBVIOUS
  <2>4. key[j] \in Int /\ key[l] \in Int
    BY <1>3
  <2> HIDE DEF key, V
  <2> QED
    BY <2>1, <2>2, <2>3, <2>4
<1>5. i \in 1..Cardinality(V) /\ k \in 1..Cardinality(V) /\ at[i] \in V /\ at[k] \in V
  BY <1>2 DEF Take, Bijection, Injection
<1>6. key[at[i]] <= key[at[k]]
  <2> HIDE DEF V, key
  <2> QED
    BY <1>1, <1>2, <1>3, <1>4, <1>5, SortedByKey
<1>7. t.shown[i] = t.rows[at[i]] /\ t.shown[k] = t.rows[at[k]]
  BY <1>2 DEF Take
<1> QED
  BY <1>5, <1>6, <1>7
-----------------------------------------------------------------------------
(* The report. *)

\* What build_report_model makes of the rows of a scan.
ObservationsOK(obs) ==
  /\ IsList(obs)
  /\ \A i, j \in DOMAIN obs : obs[i].id = obs[j].id => i = j
  /\ \A i \in DOMAIN obs :
       /\ IsList(obs[i].suites) /\ IsList(obs[i].checks) /\ IsList(obs[i].certificate.stores)
       /\ FindingIds(obs[i]) \subseteq DOMAIN FindingDefinitions

\* The rows of an endpoint are rows of the scan.
LEMMA RowsOfEndpoint ==
  ASSUME NEW results, IsList(results), NEW id
  PROVE  /\ IsList(RowsOf(results, id))
         /\ \A k \in DOMAIN RowsOf(results, id) : \E i \in DOMAIN results : RowsOf(results, id)[k] = results[i]
<1> DEFINE I == {i \in DOMAIN results : Len(results[i].cells) >= MinCells /\ results[i].endpoint = id}
           at == Listed(I, Ascending(I))
<1>1. I \in SUBSET (DOMAIN results)
  OBVIOUS
<1>2. RowsOf(results, id) = Chosen(results, I)
  BY DEF RowsOf
<1> HIDE DEF I
<1>3. I \in SUBSET Int /\ IsFiniteSet(I)
  BY <1>1, ListFinite, FS_Subset
<1>4. /\ IsList(Chosen(results, I)) /\ Chosen(results, I) = Take(results, at)
      /\ at \in Bijection(1..Cardinality(I), I)
  BY <1>3, ChosenIs
<1> HIDE DEF at
<1>5. \A k \in DOMAIN Take(results, at) : at[k] \in I /\ Take(results, at)[k] = results[at[k]]
  BY <1>4 DEF Take, Bijection, Injection
<1> QED
  BY <1>1, <1>2, <1>4, <1>5

\* What an endpoint of a report is known to be.
LEMMA ObservedIs ==
  ASSUME NEW scan \in Reports, NEW obs, obs = rows_by_endpoint(scan)
  PROVE  ObservationsOK(obs)
<1>1. ScanOK(scan)
  BY ReportsAssumption
<1>2. DOMAIN obs = DOMAIN scan.endpoints /\ \A i \in DOMAIN obs : obs[i] = Observation(scan.endpoints[i], scan.results)
  BY DEF rows_by_endpoint
<1>3. IsList(obs)
  <2>1. IsList([i \in DOMAIN scan.endpoints |-> Observation(scan.endpoints[i], scan.results)])
    BY <1>1 DEF ScanOK, IsList
  <2> QED
    BY <2>1 DEF rows_by_endpoint
<1>4. ASSUME NEW i \in DOMAIN obs
      PROVE  /\ obs[i].id = scan.endpoints[i].id
             /\ obs[i].suites = RowsOf(scan.results, scan.endpoints[i].id)
             /\ obs[i].certificate = scan.endpoints[i].certificate /\ obs[i].checks = scan.endpoints[i].checks
  <2>1. PICK o, e : o = obs[i] /\ e = scan.endpoints[i]
    OBVIOUS
  <2>2. o = Observation(e, scan.results)
    BY <1>2, <2>1
  <2>3. /\ o.id = e.id /\ o.suites = RowsOf(scan.results, e.id)
        /\ o.certificate = e.certificate /\ o.checks = e.checks
    BY <2>2 DEF Observation
  <2> QED
    BY <2>1, <2>3
<1>5. ASSUME NEW i \in DOMAIN obs PROVE FindingIds(obs[i]) \subseteq DOMAIN FindingDefinitions
  <2>1. obs[i].certificate.findings \subseteq DOMAIN FindingDefinitions
    BY <1>1, <1>2, <1>4 DEF ScanOK
  <2>2. ASSUME NEW k \in DOMAIN obs[i].suites, NEW p \in RaisedBy(obs[i].suites[k])
        PROVE  p[2] \in DOMAIN FindingDefinitions
    <3>1. PICK row : row = obs[i].suites[k]
      OBVIOUS
    <3>2. \E n \in DOMAIN scan.results : row = scan.results[n]
      BY <1>1, <1>4, <3>1, RowsOfEndpoint DEF ScanOK
    <3>3. row.verdict \in {"KO", "ERROR"} => row.finding \in DOMAIN FindingDefinitions
      BY <1>1, <3>2 DEF ScanOK
    <3>4. p \in RaisedBy(row)
      BY <2>2, <3>1
    <3> QED
      BY <3>3, <3>4, ReportsAssumption DEF RaisedBy
  <2> QED
    BY <2>1, <2>2 DEF FindingIds
<1>6. ASSUME NEW i \in DOMAIN obs
      PROVE  IsList(obs[i].suites) /\ IsList(obs[i].checks) /\ IsList(obs[i].certificate.stores)
  BY <1>1, <1>2, <1>4, RowsOfEndpoint DEF ScanOK
<1>7. \A i, j \in DOMAIN obs : obs[i].id = obs[j].id => i = j
  BY <1>1, <1>2, <1>4 DEF ScanOK
<1> QED
  BY <1>3, <1>5, <1>6, <1>7 DEF ObservationsOK

\* The endpoints of a report are those observed, told apart by their ids.
LEMMA ModelIs ==
  ASSUME NEW scan \in Reports, NEW obs, obs = rows_by_endpoint(scan), NEW d, d = build_report_model(scan)
  PROVE  /\ IsList(d.endpoints) /\ DOMAIN d.endpoints = DOMAIN obs
         /\ \A i \in DOMAIN d.endpoints : d.endpoints[i] = EndpointReport(obs[i])
         /\ d.findings = GroupedFindings(obs)
         /\ d.statistics = build_statistics(d.endpoints, d.findings, obs)
         /\ ObservationsOK(obs)
<1>1. ObservationsOK(obs)
  BY ObservedIs
<1>2. IsList([i \in DOMAIN obs |-> EndpointReport(obs[i])])
  BY <1>1 DEF ObservationsOK, IsList
<1> QED
  BY <1>1, <1>2 DEF build_report_model

LEMMA EndpointIs ==
  ASSUME NEW obs, ObservationsOK(obs), NEW i \in DOMAIN obs, NEW e, e = EndpointReport(obs[i])
  PROVE  /\ e.id = obs[i].id /\ e.host = obs[i].host /\ e.suites = obs[i].suites
         /\ e.findings = FindingIds(obs[i]) /\ e.severity = HighestSeverity(FindingIds(obs[i]))
         /\ e.status = endpoint_status({obs[i].suites[k].verdict : k \in DOMAIN obs[i].suites})
         /\ IsList(e.suites) /\ IsList(e.checks) /\ IsList(e.certificate.stores)
  BY DEF EndpointReport, ObservationsOK

ModelOK(d) ==
  /\ IsList(d.endpoints)
  /\ \A i \in DOMAIN d.endpoints :
       IsList(d.endpoints[i].suites) /\ IsList(d.endpoints[i].checks) /\ IsList(d.endpoints[i].certificate.stores)
  /\ \A i, j \in DOMAIN d.endpoints : d.endpoints[i].id = d.endpoints[j].id => i = j

LEMMA ModelIsOK ==
  ASSUME NEW scan \in Reports, NEW obs, obs = rows_by_endpoint(scan), NEW d, d = build_report_model(scan)
  PROVE  ModelOK(d)
<1>1. /\ IsList(d.endpoints) /\ DOMAIN d.endpoints = DOMAIN obs
      /\ \A i \in DOMAIN d.endpoints : d.endpoints[i] = EndpointReport(obs[i])
      /\ ObservationsOK(obs)
  BY ModelIs
<1>2. ASSUME NEW i \in DOMAIN d.endpoints
      PROVE  /\ IsList(d.endpoints[i].suites) /\ IsList(d.endpoints[i].checks)
             /\ IsList(d.endpoints[i].certificate.stores)
             /\ d.endpoints[i].id = obs[i].id
  <2>1. i \in DOMAIN obs /\ d.endpoints[i] = EndpointReport(obs[i])
    BY <1>1
  <2>2. PICK e : e = d.endpoints[i]
    OBVIOUS
  <2>3. e = EndpointReport(obs[i]) /\ ObservationsOK(obs)
    BY <1>1, <2>1, <2>2
  <2>4. IsList(e.suites) /\ IsList(e.checks) /\ IsList(e.certificate.stores) /\ e.id = obs[i].id
    BY <2>1, <2>3, EndpointIs
  <2> QED
    BY <2>2, <2>4
<1>3. \A i, j \in DOMAIN obs : obs[i].id = obs[j].id => i = j
  BY <1>1 DEF ObservationsOK
<1> QED
  BY <1>1, <1>2, <1>3 DEF ModelOK
\* A report names the endpoints of its scan.
LEMMA IdsOfModel ==
  ASSUME NEW scan \in Reports, NEW d, d = build_report_model(scan)
  PROVE  /\ DOMAIN d.endpoints = DOMAIN scan.endpoints
         /\ \A i \in DOMAIN d.endpoints : d.endpoints[i].id = scan.endpoints[i].id
<1>1. PICK obs : obs = rows_by_endpoint(scan)
  OBVIOUS
<1>2. DOMAIN d.endpoints = DOMAIN obs /\ \A i \in DOMAIN d.endpoints : d.endpoints[i] = EndpointReport(obs[i])
  BY <1>1, ModelIs
<1>3. DOMAIN obs = DOMAIN scan.endpoints
  BY <1>1 DEF rows_by_endpoint
<1>4. ASSUME NEW i \in DOMAIN obs PROVE d.endpoints[i].id = scan.endpoints[i].id
  <2>1. PICK e, o, x : e = d.endpoints[i] /\ o = obs[i] /\ x = scan.endpoints[i]
    OBVIOUS
  <2>2. o = Observation(x, scan.results)
    BY <1>1, <1>3, <2>1 DEF rows_by_endpoint
  <2>3. e = EndpointReport(o)
    BY <1>2, <2>1
  <2>4. o.id = x.id
    BY <2>2 DEF Observation
  <2>5. e.id = o.id
    BY <2>3 DEF EndpointReport
  <2> QED
    BY <2>1, <2>4, <2>5
<1> QED
  BY <1>2, <1>3, <1>4
-----------------------------------------------------------------------------
(* The tables of the report are tables. *)

LEMMA RowsOK ==
  ASSUME NEW e, IsList(e.suites), IsList(e.checks), IsList(e.certificate.stores)
  PROVE  IsList(StoreRows(e)) /\ IsList(SuiteRows(e))
  BY DEF StoreRows, SuiteRows, IsList

LEMMA CertificatesOK ==
  ASSUME NEW d, IsList(d.endpoints), NEW v
  PROVE  TableOK(renderCertificates(d, v))
<1> DEFINE matching == {i \in DOMAIN d.endpoints : v.status \in {"all", d.endpoints[i].certificate.status}}
           shown == OrderBy(d.endpoints, matching, ByCertificate(d, v.sort))
           rows == [i \in DOMAIN shown |-> <<shown[i].id, shown[i].certificate.trust>>]
<1>1. matching \in SUBSET Int /\ IsFiniteSet(matching)
  <2>1. matching \in SUBSET (DOMAIN d.endpoints)
    OBVIOUS
  <2> HIDE DEF matching
  <2> QED
    BY <2>1, ListFinite, FS_Subset
<1>2. renderCertificates(d, v) = table(2, rows, TRUE)
  BY DEF renderCertificates
<1> HIDE DEF matching
<1>3. IsList(shown)
  BY <1>1, OrderByIs
<1> HIDE DEF shown
<1>4. IsList(rows)
  BY <1>3 DEF IsList
<1> HIDE DEF rows
<1> QED
  BY <1>2, <1>4, TableIsOK

LEMMA TrustOK == ASSUME NEW d, IsList(d.endpoints) PROVE TableOK(TrustTable(d))
<1> DEFINE rows == [i \in DOMAIN d.endpoints |-> <<d.endpoints[i].id, d.endpoints[i].certificate.trust>>]
<1>1. TrustTable(d) = table(2, rows, TRUE) /\ IsList(rows)
  BY DEF TrustTable, IsList
<1> HIDE DEF rows
<1> QED
  BY <1>1, TableIsOK

LEMMA TechnicalOK == ASSUME NEW d, IsList(d.endpoints) PROVE TableOK(TechnicalTable(d))
<1> DEFINE rows == [i \in DOMAIN d.endpoints |-> << d.endpoints[i].id >>]
<1>1. TechnicalTable(d) = table(1, rows, FALSE) /\ IsList(rows)
  BY DEF TechnicalTable, IsList
<1> HIDE DEF rows
<1> QED
  BY <1>1, TableIsOK

LEMMA HostDrawerOK == ASSUME NEW d, NEW ids, IsList(ids) PROVE TableOK(HostDrawerTable(d, ids))
<1> DEFINE rows == [i \in DOMAIN ids |-> <<ids[i], Endpoint(d, ids[i]).status>>]
<1>1. HostDrawerTable(d, ids) = table(2, rows, FALSE) /\ IsList(rows)
  BY DEF HostDrawerTable, IsList
<1> HIDE DEF rows
<1> QED
  BY <1>1, TableIsOK

LEMMA JoinedRows ==
  ASSUME NEW d, ModelOK(d)
  PROVE  TableOK(StoreTable(d)) /\ TableOK(SuiteTable(d))
<1> DEFINE stores == [i \in DOMAIN d.endpoints |-> StoreRows(d.endpoints[i])]
           suites == [i \in DOMAIN d.endpoints |-> SuiteRows(d.endpoints[i])]
<1>1. StoreTable(d) = table(2, Joined(stores), TRUE)
  BY DEF StoreTable
<1>2. SuiteTable(d) = table(2, Joined(suites), TRUE)
  BY DEF SuiteTable
<1>4. IsList(stores) /\ IsList(suites)
  BY DEF ModelOK, IsList
<1>5. \A i \in DOMAIN d.endpoints : IsList(StoreRows(d.endpoints[i])) /\ IsList(SuiteRows(d.endpoints[i]))
  BY RowsOK DEF ModelOK
<1>6. /\ \A i \in DOMAIN stores : IsList(stores[i])
      /\ \A i \in DOMAIN suites : IsList(suites[i])
  BY <1>5
<1> HIDE DEF stores, suites
<1>7. IsList(Joined(stores)) /\ IsList(Joined(suites))
  BY <1>4, <1>6, JoinedIs
<1> QED
  BY <1>1, <1>2, <1>7, TableIsOK

\* The endpoint with some id is the one that has it.
LEMMA EndpointOf ==
  ASSUME NEW d, ModelOK(d), NEW i \in DOMAIN d.endpoints
  PROVE  Endpoint(d, d.endpoints[i].id) = d.endpoints[i]
<1>1. d.endpoints[i] \in ToSet(d.endpoints)
  BY DEF ToSet
<1>2. ASSUME NEW e \in ToSet(d.endpoints), e.id = d.endpoints[i].id PROVE e = d.endpoints[i]
  <2>1. PICK j \in DOMAIN d.endpoints : e = d.endpoints[j]
    BY DEF ToSet
  <2>2. j = i
    BY <2>1, <1>2 DEF ModelOK
  <2> QED
    BY <2>1, <2>2
<1> QED
  BY <1>1, <1>2 DEF Endpoint

LEMMA EndpointDrawerOK ==
  ASSUME NEW d, ModelOK(d), NEW i \in DOMAIN d.endpoints
  PROVE  TableOK(EndpointDrawerTable(d, d.endpoints[i].id))
<1>1. EndpointDrawerTable(d, d.endpoints[i].id) = table(2, First(SuiteRows(d.endpoints[i]), SuiteCap), FALSE)
  BY EndpointOf DEF EndpointDrawerTable
<1>2. IsList(SuiteRows(d.endpoints[i]))
  BY RowsOK DEF ModelOK
<1>3. IsList(First(SuiteRows(d.endpoints[i]), SuiteCap))
  BY <1>2, FirstIs, ReportsAssumption
<1> QED
  BY <1>1, <1>3, TableIsOK

\* The tables of checks are those of endpoints.
LEMMA ChecksOK ==
  ASSUME NEW d, ModelOK(d), NEW id \in Checked(d)
  PROVE  TableOK(CheckTable(d, id))
<1>1. PICK i \in DOMAIN d.endpoints : id = d.endpoints[i].id
  BY DEF Checked, ToSet
<1>2. CheckTable(d, id) = table(2, d.endpoints[i].checks, FALSE)
  BY <1>1, EndpointOf DEF CheckTable
<1>3. IsList(d.endpoints[i].checks)
  BY DEF ModelOK
<1> QED
  BY <1>2, <1>3, TableIsOK
-----------------------------------------------------------------------------
(* What every event keeps: the page is that of a report, its tables and    *)
(* the menu's are well formed, and the boxes are what is hidden.           *)

DataInv == \E scan \in Reports : data = build_report_model(scan)
CardsInv == \A i \in DOMAIN hostView.cards : IsList(hostView.cards[i].endpoints)

MenuOK(m, ts) ==
  m # NoMenu =>
    /\ m = [table |-> m.table, column |-> m.column, search |-> m.search, clearSort |-> m.clearSort,
            boxes |-> m.boxes]
    /\ m.table \in TableIds
    /\ TableOK(ts[m.table])
    /\ m.column \in DOMAIN ts[m.table].hidden
    /\ DOMAIN m.boxes \subseteq Values(ts[m.table], m.column)
    /\ \A v \in DOMAIN m.boxes : m.boxes[v] = (v \notin ts[m.table].hidden[m.column])

TablesOK(ts) ==
  /\ ts = [id \in TableIds |-> ts[id]]
  /\ \A id \in TableIds : ts[id] # NoTable => TableOK(ts[id])

PageInv == /\ DataInv /\ CardsInv
           /\ TablesOK(tables) /\ MenuOK(menu, tables)
           /\ suitesShown = Len(tables["communication"].shown)

LEMMA DataIsOK == ASSUME DataInv PROVE ModelOK(data)
  BY ModelIsOK DEF DataInv

\* The cards of the hosts hold lists of endpoints.
LEMMA HostsOK ==
  ASSUME NEW d, ModelOK(d), NEW v
  PROVE  \A i \in DOMAIN renderHosts(d, v).cards : IsList(renderHosts(d, v).cards[i].endpoints)
<1> DEFINE I == Matching(d, v)
           grouped == groupEndpointsByHost(d.endpoints, I)
           groups == HostsInOrder(grouped, v.sort)
           visible == First(groups, HostCap)
           cards == renderHosts(d, v).cards
<1>1. cards = [n \in DOMAIN visible |-> hostEndpointCard(visible[n])]
  BY DEF renderHosts
<1>2. I \in SUBSET (DOMAIN d.endpoints) /\ I \in SUBSET Int /\ IsFiniteSet(I)
  <2>1. I \in SUBSET (DOMAIN d.endpoints)
    BY DEF Matching
  <2>2. IsFiniteSet(DOMAIN d.endpoints) /\ DOMAIN d.endpoints \in SUBSET Int
    BY ListFinite DEF ModelOK
  <2> HIDE DEF I
  <2> QED
    BY <2>1, <2>2, FS_Subset
<1> HIDE DEF I
<1> DEFINE at == FirstOfHost(d.endpoints, I)
           first == Chosen(d.endpoints, at)
<1>3. /\ IsList(grouped)
      /\ \A n \in DOMAIN grouped : IsList(grouped[n].endpoints)
  <2>1. at \in SUBSET Int /\ IsFiniteSet(at)
    <3>1. at \in SUBSET I
      BY DEF FirstOfHost
    <3> HIDE DEF at
    <3> QED
      BY <1>2, <3>1, FS_Subset
  <2>2. grouped = [n \in DOMAIN first |->
          [host |-> first[n].host,
           endpoints |-> OrderBy(d.endpoints, OnHost(d.endpoints, I, first[n].host), ByPort(d.endpoints))]]
    BY DEF groupEndpointsByHost
  <2> HIDE DEF at, grouped
  <2>3. IsList(first)
    BY <2>1, ChosenIs
  <2> HIDE DEF first
  <2>4. ASSUME NEW host PROVE IsList(OrderBy(d.endpoints, OnHost(d.endpoints, I, host), ByPort(d.endpoints)))
    <3>1. OnHost(d.endpoints, I, host) \in SUBSET I
      BY DEF OnHost
    <3>2. OnHost(d.endpoints, I, host) \in SUBSET Int /\ IsFiniteSet(OnHost(d.endpoints, I, host))
      BY <1>2, <3>1, FS_Subset
    <3> QED
      BY <3>2, OrderByIs
  <2>5. IsList(grouped)
    BY <2>2, <2>3 DEF IsList
  <2> QED
    BY <2>2, <2>4, <2>5
<1> HIDE DEF grouped, at, first
<1>4. \A n \in DOMAIN groups : \E k \in DOMAIN grouped : groups[n] = grouped[k]
  <2>1. IsFiniteSet(DOMAIN grouped) /\ DOMAIN grouped \in SUBSET Int
    BY <1>3, ListFinite
  <2> DEFINE after == After(grouped, LAMBDA a, b : HostOrder(v.sort, a, b))
             order == Sorted(DOMAIN grouped, after)
  <2>2. groups = OrderBy(grouped, DOMAIN grouped, after)
    BY DEF HostsInOrder
  <2> HIDE DEF after, groups
  <2>3. groups = Take(grouped, order) /\ order \in Bijection(1..Cardinality(DOMAIN grouped), DOMAIN grouped)
    BY <2>1, <2>2, OrderByIs
  <2> HIDE DEF order
  <2> QED
    BY <2>3 DEF Take, Bijection, Injection
<1>5. IsList(groups)
  <2> DEFINE after == After(grouped, LAMBDA a, b : HostOrder(v.sort, a, b))
  <2>1. IsFiniteSet(DOMAIN grouped) /\ DOMAIN grouped \in SUBSET Int
    BY <1>3, ListFinite
  <2>2. groups = OrderBy(grouped, DOMAIN grouped, after)
    BY DEF HostsInOrder
  <2> HIDE DEF after, groups
  <2> QED
    BY <2>1, <2>2, OrderByIs
<1> HIDE DEF groups
<1>6. \A n \in DOMAIN visible : n \in DOMAIN groups /\ visible[n] = groups[n]
  BY <1>5, ReportsAssumption DEF First, IsList
<1> HIDE DEF visible
<1>7. \A n \in DOMAIN cards : IsList(cards[n].endpoints)
  <2> SUFFICES ASSUME NEW n \in DOMAIN cards PROVE IsList(cards[n].endpoints)
    OBVIOUS
  <2>1. n \in DOMAIN visible /\ cards[n] = hostEndpointCard(visible[n])
    BY <1>1
  <2>2. IsList(visible[n].endpoints)
    BY <2>1, <1>3, <1>4, <1>6
  <2>3. cards[n].endpoints = Ids(visible[n].endpoints)
    BY <2>1 DEF hostEndpointCard
  <2> QED
    BY <2>2, <2>3 DEF Ids, IsList
<1> QED
  BY <1>7
-----------------------------------------------------------------------------
(* The invariant holds at first. *)

LEMMA Starts == Init => PageInv
<1> SUFFICES ASSUME Init PROVE PageInv
  OBVIOUS
<1> DEFINE v == [status |-> "all", sort |-> "expiration"]
           drawn(d) == [id \in TableIds |->
             CASE id = "certificates"  -> renderCertificates(d, v)
               [] id = "trust"         -> TrustTable(d)
               [] id = "stores"        -> StoreTable(d)
               [] id = "communication" -> SuiteTable(d)
               [] id = "technical"     -> TechnicalTable(d)
               [] id \in Checked(d)    -> CheckTable(d, id)
               [] OTHER                -> NoTable]
<1>1. PICK scan \in Reports :
        /\ data = build_report_model(scan)
        /\ hostView = renderHosts(build_report_model(scan), [q |-> "", compliance |-> "all", sort |-> "severity"])
        /\ tables = drawn(build_report_model(scan))
        /\ suitesShown = Len(SuiteTable(build_report_model(scan)).shown)
        /\ menu = NoMenu
  BY DEF Init
<1>2. DataInv /\ ModelOK(data)
  BY <1>1, DataIsOK DEF DataInv
<1>3. PICK d : d = data
  OBVIOUS
<1>4. CardsInv
  BY <1>1, <1>2, HostsOK DEF CardsInv
<1>5. /\ TableOK(renderCertificates(d, v)) /\ TableOK(TrustTable(d)) /\ TableOK(StoreTable(d))
      /\ TableOK(SuiteTable(d)) /\ TableOK(TechnicalTable(d))
      /\ \A id \in Checked(d) : TableOK(CheckTable(d, id))
  BY <1>2, <1>3, CertificatesOK, TrustOK, JoinedRows, TechnicalOK, ChecksOK DEF ModelOK
<1>6. tables = drawn(d)
  <2> HIDE DEF drawn
  <2> QED
    BY <1>1, <1>3
<1> HIDE DEF v
<1>7. TablesOK(tables) /\ tables["communication"] = SuiteTable(d)
  <2>1. ASSUME NEW id \in TableIds, tables[id] # NoTable PROVE TableOK(tables[id])
    BY <1>5, <1>6, <2>1
  <2>2. tables = [id \in TableIds |-> tables[id]]
    BY <1>6
  <2>3. "communication" \notin Checked(d)
    <3>1. /\ DOMAIN d.endpoints = DOMAIN scan.endpoints
          /\ \A i \in DOMAIN d.endpoints : d.endpoints[i].id = scan.endpoints[i].id
      BY <1>1, <1>3, IdsOfModel
    <3>2. Checked(d) \subseteq EndpointIds
      BY <3>1 DEF Checked, ToSet, EndpointIds
    <3> QED
      BY <3>2, ReportsAssumption DEF Sections
  <2>4. tables["communication"] = SuiteTable(d)
    BY <1>6, <2>3 DEF TableIds, Sections
  <2> QED
    BY <2>1, <2>2, <2>4 DEF TablesOK
<1>8. suitesShown = Len(tables["communication"].shown)
  BY <1>1, <1>3, <1>7
<1>9. MenuOK(menu, tables)
  BY <1>1 DEF MenuOK
<1> QED
  BY <1>2, <1>4, <1>7, <1>8, <1>9 DEF PageInv
-----------------------------------------------------------------------------
(* What the steps that events are made of do to the tables. *)

\* The menu leaves, or stays as it is.
LEMMA LeavesKeeps ==
  ASSUME TablesOK(tables), NEW m, MenuOK(m, tables), Leaves(m)
  PROVE  /\ TablesOK(tables') /\ MenuOK(menu', tables')
         /\ tables'["communication"] = tables["communication"]
<1>1. /\ tables' = [tables EXCEPT !["orphan"] = IF m.table = "orphan" THEN @ ELSE NoTable]
      /\ menu' = m
  BY DEF Leaves
<1>2. tables = [id \in TableIds |-> tables[id]]
  BY DEF TablesOK
<1>3. ASSUME NEW id \in TableIds, id # "orphan" PROVE tables'[id] = tables[id]
  BY <1>1, <1>2, <1>3
<1>4. tables'["orphan"] = IF m.table = "orphan" THEN tables["orphan"] ELSE NoTable
  BY <1>1, <1>2 DEF TableIds, Sections
<1>5. tables' = [id \in TableIds |-> tables'[id]]
  BY <1>1, <1>2
<1>6. TablesOK(tables')
  BY <1>3, <1>4, <1>5 DEF TablesOK
<1>7. m # NoMenu => tables'[m.table] = tables[m.table]
  BY <1>3, <1>4 DEF MenuOK
<1> QED
  BY <1>1, <1>3, <1>6, <1>7 DEF MenuOK, TableIds, Sections

\* A table is drawn anew, and the menu of the old one goes on with the old one.
LEMMA RedrawKeeps ==
  ASSUME TablesOK(tables), NEW id \in Sections, id # "orphan", NEW new, TableOK(new), NEW m, MenuOK(m, tables),
         Redraw(id, new, m)
  PROVE  /\ TablesOK(tables') /\ MenuOK(menu', tables')
         /\ id # "communication" => tables'["communication"] = tables["communication"]
<1>1. /\ menu' = IF m.table = id THEN [m EXCEPT !.table = "orphan"] ELSE m
      /\ tables' = [tables EXCEPT ![id] = new,
                     !["orphan"] = CASE m.table = id -> tables[id]
                                     [] m.table = "orphan" -> @
                                     [] OTHER -> NoTable]
  BY DEF Redraw
<1>2. tables = [i \in TableIds |-> tables[i]]
  BY DEF TablesOK
<1>3. id \in TableIds /\ id # "orphan"
  BY DEF TableIds
<1>4. ASSUME NEW i \in TableIds, i # "orphan", i # id PROVE tables'[i] = tables[i]
  BY <1>1, <1>2, <1>4
<1>5. tables'[id] = new
  BY <1>1, <1>2, <1>3
<1>6. tables'["orphan"] = CASE m.table = id -> tables[id]
                            [] m.table = "orphan" -> tables["orphan"]
                            [] OTHER -> NoTable
  BY <1>1, <1>2, <1>3 DEF TableIds, Sections
<1>7. tables' = [i \in TableIds |-> tables'[i]]
  BY <1>1, <1>2
<1>8. m.table = id => m # NoMenu
  BY <1>3 DEF NoMenu, TableIds, Sections
<1>9. TablesOK(tables')
  <2>1. ASSUME NEW i \in TableIds, tables'[i] # NoTable PROVE TableOK(tables'[i])
    <3>1. CASE i = id
      BY <3>1, <1>5
    <3>2. CASE i # id /\ i # "orphan"
      BY <3>2, <2>1, <1>4 DEF TablesOK
    <3>3. CASE i = "orphan"
      BY <3>3, <2>1, <1>3, <1>6 DEF TablesOK
    <3> QED
      BY <3>1, <3>2, <3>3
  <2> QED
    BY <2>1, <1>7 DEF TablesOK
<1>10. MenuOK(menu', tables')
  <2>1. CASE m.table = id
    <3>1. m # NoMenu /\ tables'["orphan"] = tables[id]
      BY <2>1, <1>8, <1>6
    <3>2. m = [table |-> m.table, column |-> m.column, search |-> m.search, clearSort |-> m.clearSort,
               boxes |-> m.boxes]
      BY <3>1 DEF MenuOK
    <3>3. menu' = [table |-> "orphan", column |-> m.column, search |-> m.search, clearSort |-> m.clearSort,
                   boxes |-> m.boxes]
      BY <3>2, <2>1, <1>1
    <3>4. /\ menu'.table = "orphan" /\ menu'.column = m.column /\ menu'.boxes = m.boxes
          /\ menu' = [table |-> menu'.table, column |-> menu'.column, search |-> menu'.search,
                      clearSort |-> menu'.clearSort, boxes |-> menu'.boxes]
      BY <3>3
    <3>5. /\ TableOK(tables[id]) /\ m.column \in DOMAIN tables[id].hidden
          /\ DOMAIN m.boxes \subseteq Values(tables[id], m.column)
          /\ \A v \in DOMAIN m.boxes : m.boxes[v] = (v \notin tables[id].hidden[m.column])
      BY <3>1, <2>1 DEF MenuOK
    <3>6. "orphan" \in TableIds
      BY DEF TableIds, Sections
    <3> QED
      BY <3>1, <3>4, <3>5, <3>6 DEF MenuOK
  <2>2. CASE m.table # id
    <3>1. menu' = m
      BY <2>2, <1>1
    <3>2. m # NoMenu => tables'[m.table] = tables[m.table]
      BY <2>2, <1>4, <1>6 DEF MenuOK
    <3> QED
      BY <3>1, <3>2 DEF MenuOK
  <2> QED
    BY <2>1, <2>2
<1>11. id # "communication" => tables'["communication"] = tables["communication"]
  BY <1>4 DEF TableIds, Sections
<1> QED
  BY <1>9, <1>10, <1>11

\* The menu changes its table.
LEMMA ActsKeeps ==
  ASSUME TablesOK(tables), MenuOK(menu, tables), menu # NoMenu,
         NEW new, TableOK(new), ActsOnTable(new),
         suitesShown = Len(tables["communication"].shown)
  PROVE  /\ TablesOK(tables') /\ tables'[menu.table] = new
         /\ suitesShown' = Len(tables'["communication"].shown)
<1>1. /\ tables' = [tables EXCEPT ![menu.table] = new]
      /\ suitesShown' = IF menu.table = "communication" THEN Len(new.shown) ELSE suitesShown
  BY DEF ActsOnTable
<1>2. tables = [id \in TableIds |-> tables[id]] /\ menu.table \in TableIds
  BY DEF TablesOK, MenuOK
<1>3. tables'[menu.table] = new /\ \A id \in TableIds : id # menu.table => tables'[id] = tables[id]
  BY <1>1, <1>2
<1>4. tables' = [id \in TableIds |-> tables'[id]]
  BY <1>1, <1>2
<1>5. TablesOK(tables')
  BY <1>3, <1>4 DEF TablesOK
<1> QED
  BY <1>1, <1>3, <1>5 DEF TableIds, Sections

LEMMA SortKeeps ==
  ASSUME TablesOK(tables), MenuOK(menu, tables), menu # NoMenu,
         NEW new, TableOK(new), SortFromMenu(new),
         suitesShown = Len(tables["communication"].shown)
  PROVE  /\ TablesOK(tables') /\ MenuOK(menu', tables')
         /\ suitesShown' = Len(tables'["communication"].shown)
<1>1. /\ menu' = NoMenu
      /\ tables' = [tables EXCEPT ![menu.table] = IF menu.table = "orphan" THEN NoTable ELSE new,
                              !["orphan"] = NoTable]
      /\ suitesShown' = IF menu.table = "communication" THEN Len(new.shown) ELSE suitesShown
  BY DEF SortFromMenu
<1>2. tables = [id \in TableIds |-> tables[id]] /\ menu.table \in TableIds
  BY DEF TablesOK, MenuOK
<1>3. /\ menu.table # "orphan" => tables'[menu.table] = new
      /\ \A id \in TableIds : id # menu.table /\ id # "orphan" => tables'[id] = tables[id]
      /\ tables'["orphan"] = NoTable
  BY <1>1, <1>2 DEF TableIds, Sections
<1>4. tables' = [id \in TableIds |-> tables'[id]]
  BY <1>1, <1>2
<1>5. TablesOK(tables')
  <2>1. ASSUME NEW id \in TableIds, tables'[id] # NoTable PROVE TableOK(tables'[id])
    BY <2>1, <1>3 DEF TablesOK
  <2> QED
    BY <2>1, <1>4 DEF TablesOK
<1>6. "communication" \in TableIds /\ "communication" # "orphan"
  BY DEF TableIds, Sections
<1>7. suitesShown' = Len(tables'["communication"].shown)
  BY <1>1, <1>3, <1>6
<1> QED
  BY <1>1, <1>5, <1>7 DEF MenuOK
-----------------------------------------------------------------------------
(* Every event keeps the invariant. *)

LEMMA RenderListIs ==
  ASSUME NEW t, NEW c, NEW q
  PROVE  /\ DOMAIN renderList(t, c, q) \subseteq Values(t, c)
         /\ \A v \in DOMAIN renderList(t, c, q) : renderList(t, c, q)[v] = (v \notin t.hidden[c])
  BY DEF renderList

LEMMA MenuAfterOK == ASSUME MenuOK(menu, tables), NEW device PROVE MenuOK(MenuAfter(device), tables)
  BY DEF MenuOK, MenuAfter

LEMMA BuildMenuOK ==
  ASSUME TablesOK(tables), NEW id \in TableIds, tables[id] # NoTable, NEW c \in DOMAIN tables[id].hidden
  PROVE  MenuOK(buildMenu(id, tables[id], c), tables)
<1> DEFINE t == tables[id]
           m == buildMenu(id, t, c)
<1>1. TableOK(t)
  BY DEF TablesOK
<1> HIDE DEF t
<1>2. /\ m = [table |-> m.table, column |-> m.column, search |-> m.search, clearSort |-> m.clearSort,
              boxes |-> m.boxes]
      /\ m.table = id /\ m.column = c
      /\ m.boxes = IF t.filterable THEN renderList(t, c, "") ELSE << >>
  BY DEF buildMenu
<1> HIDE DEF m
<1>3. DOMAIN m.boxes \subseteq Values(t, c) /\ \A v \in DOMAIN m.boxes : m.boxes[v] = (v \notin t.hidden[c])
  <2>1. CASE t.filterable
    <3>1. m.boxes = renderList(t, c, "")
      BY <1>2, <2>1
    <3>2. /\ DOMAIN renderList(t, c, "") \subseteq Values(t, c)
          /\ \A v \in DOMAIN renderList(t, c, "") : renderList(t, c, "")[v] = (v \notin t.hidden[c])
      BY RenderListIs
    <3> QED
      BY <3>1, <3>2
  <2>2. CASE ~ t.filterable
    <3>1. m.boxes = << >>
      BY <1>2, <2>2
    <3>2. DOMAIN m.boxes = {}
      BY <3>1
    <3> HIDE DEF m
    <3> QED
      BY <3>2
  <2> QED
    BY <2>1, <2>2
<1> QED
  BY <1>1, <1>2, <1>3 DEF MenuOK, t, m

LEMMA ToggleMenuKeeps == ASSUME PageInv, NEW id \in TableIds, NEW c, toggleMenu(id, c) PROVE PageInv'
<1> DEFINE m == IF menu.table = id /\ menu.column = c THEN NoMenu ELSE buildMenu(id, tables[id], c)
<1>1. /\ tables[id] # NoTable /\ c \in DOMAIN tables[id].hidden /\ Leaves(m)
      /\ UNCHANGED <<data, hostView, suitesShown>>
  BY DEF toggleMenu, Event, HostsAlone
<1>2. MenuOK(m, tables)
  <2>1. MenuOK(NoMenu, tables)
    BY DEF MenuOK
  <2>2. MenuOK(buildMenu(id, tables[id], c), tables)
    BY <1>1, BuildMenuOK DEF PageInv
  <2> QED
    BY <2>1, <2>2
<1> HIDE DEF m
<1>3. TablesOK(tables') /\ MenuOK(menu', tables') /\ tables'["communication"] = tables["communication"]
  BY <1>1, <1>2, LeavesKeeps DEF PageInv
<1> QED
  BY <1>1, <1>3 DEF PageInv, DataInv, CardsInv

LEMMA SortByKeeps == ASSUME PageInv, NEW direction \in {1, -1}, SortBy(direction) PROVE PageInv'
<1> DEFINE new == SortedBy(tables[menu.table], menu.column, direction)
<1>1. menu # NoMenu /\ SortFromMenu(new) /\ UNCHANGED <<data, hostView>>
  BY DEF SortBy, Event, SortFromMenu, HostsAlone
<1>2. TableOK(new)
  BY <1>1, SortedByOK DEF PageInv, MenuOK
<1> HIDE DEF new
<1>3. TablesOK(tables') /\ MenuOK(menu', tables') /\ suitesShown' = Len(tables'["communication"].shown)
  BY <1>1, <1>2, SortKeeps DEF PageInv
<1> QED
  BY <1>1, <1>3 DEF PageInv, DataInv, CardsInv

LEMMA ClearSortKeeps == ASSUME PageInv, ClearSort PROVE PageInv'
<1> DEFINE new == ClearedSort(tables[menu.table])
<1>1. menu # NoMenu /\ SortFromMenu(new) /\ UNCHANGED <<data, hostView>>
  BY DEF ClearSort, Event, SortFromMenu, HostsAlone
<1>2. TableOK(new)
  BY <1>1, ClearedSortOK DEF PageInv, MenuOK
<1> HIDE DEF new
<1>3. TablesOK(tables') /\ MenuOK(menu', tables') /\ suitesShown' = Len(tables'["communication"].shown)
  BY <1>1, <1>2, SortKeeps DEF PageInv
<1> QED
  BY <1>1, <1>3 DEF PageInv, DataInv, CardsInv

LEMMA SearchKeeps == ASSUME PageInv, NEW q, SearchValues(q) PROVE PageInv'
<1> DEFINE t == tables[menu.table]
<1>1. /\ menu # NoMenu
      /\ menu' = [menu EXCEPT !.search = q, !.boxes = renderList(t, menu.column, q)]
      /\ UNCHANGED <<data, hostView, suitesShown, tables>>
  BY DEF SearchValues, FilterMenu, Event, HostsAlone
<1>2. /\ menu = [table |-> menu.table, column |-> menu.column, search |-> menu.search,
                 clearSort |-> menu.clearSort, boxes |-> menu.boxes]
      /\ menu.table \in TableIds /\ TableOK(t) /\ menu.column \in DOMAIN t.hidden
  BY <1>1 DEF PageInv, MenuOK
<1> HIDE DEF t
<1>3. menu' = [table |-> menu.table, column |-> menu.column, search |-> q,
               clearSort |-> menu.clearSort, boxes |-> renderList(t, menu.column, q)]
  BY <1>1, <1>2
<1>4. /\ menu' = [table |-> menu'.table, column |-> menu'.column, search |-> menu'.search,
                  clearSort |-> menu'.clearSort, boxes |-> menu'.boxes]
      /\ menu'.table = menu.table /\ menu'.column = menu.column /\ menu'.boxes = renderList(t, menu.column, q)
  BY <1>3
<1>5. /\ DOMAIN menu'.boxes \subseteq Values(t, menu.column)
      /\ \A v \in DOMAIN menu'.boxes : menu'.boxes[v] = (v \notin t.hidden[menu.column])
  BY <1>4, RenderListIs
<1>6. tables' = tables /\ t = tables[menu.table]
  BY <1>1 DEF t
<1>7. MenuOK(menu', tables')
  BY <1>2, <1>4, <1>5, <1>6 DEF MenuOK
<1> QED
  BY <1>1, <1>7 DEF PageInv, DataInv, CardsInv

\* A box that is ticked or unticked writes what it now says.
LEMMA ToggleBoxKeeps == ASSUME PageInv, NEW v, ToggleBox(v) PROVE PageInv'
<1> DEFINE t == tables[menu.table]
           c == menu.column
           values == IF menu.boxes[v] THEN t.hidden[c] \cup {v} ELSE t.hidden[c] \ {v}
           new == WithHidden(t, c, values)
<1>1. /\ menu # NoMenu /\ v \in DOMAIN menu.boxes
      /\ menu' = [menu EXCEPT !.boxes[v] = ~ @]
      /\ ActsOnTable(new)
      /\ UNCHANGED <<data, hostView>>
  BY DEF ToggleBox, FilterMenu, Ticked, Event, ActsOnTable, HostsAlone
<1>2. /\ menu = [table |-> menu.table, column |-> menu.column, search |-> menu.search,
                 clearSort |-> menu.clearSort, boxes |-> menu.boxes]
      /\ menu.table \in TableIds /\ TableOK(t) /\ c \in DOMAIN t.hidden
      /\ DOMAIN menu.boxes \subseteq Values(t, c)
      /\ \A w \in DOMAIN menu.boxes : menu.boxes[w] = (w \notin t.hidden[c])
  BY <1>1 DEF PageInv, MenuOK
<1>3. values \in SUBSET Values(t, c)
  BY <1>1, <1>2 DEF TableOK
<1>4. \A w \in DOMAIN menu.boxes : w # v => (w \in values <=> w \in t.hidden[c])
  OBVIOUS
<1>5. v \in values <=> menu.boxes[v]
  BY <1>1, <1>2
<1>6. TableOK(new) /\ new.hidden = [t.hidden EXCEPT ![c] = values] /\ Values(new, c) = Values(t, c)
  <2> HIDE DEF values, t, c
  <2> QED
    BY <1>2, <1>3, WithHiddenOK
<1> HIDE DEF new
<1>7. TablesOK(tables') /\ tables'[menu.table] = new /\ suitesShown' = Len(tables'["communication"].shown)
  <2> HIDE DEF values, t, c
  <2> QED
    BY <1>1, <1>6, ActsKeeps DEF PageInv
<1>8. PICK boxes : boxes = [menu.boxes EXCEPT ![v] = ~ menu.boxes[v]]
  OBVIOUS
<1>9. menu' = [table |-> menu.table, column |-> c, search |-> menu.search,
               clearSort |-> menu.clearSort, boxes |-> boxes]
  BY <1>1, <1>2, <1>8
<1>10. new.hidden[c] = values /\ c \in DOMAIN new.hidden
  BY <1>2, <1>6
<1> HIDE DEF values, t, c
<1>11. \A w \in DOMAIN boxes : boxes[w] = (w \notin values)
  <2> SUFFICES ASSUME NEW w \in DOMAIN menu.boxes PROVE boxes[w] = (w \notin values)
    BY <1>8
  <2>1. CASE w = v
    <3>1. boxes[v] = ~ menu.boxes[v]
      BY <1>1, <1>8
    <3>2. menu.boxes[v] \in BOOLEAN
      BY <1>1, <1>2
    <3> QED
      BY <2>1, <3>1, <3>2, <1>5
  <2>2. CASE w # v
    <3>1. boxes[w] = menu.boxes[w]
      BY <2>2, <1>8
    <3> QED
      BY <2>2, <3>1, <1>2, <1>4
  <2> QED
    BY <2>1, <2>2
<1>12. DOMAIN boxes \subseteq Values(new, c)
  BY <1>2, <1>6, <1>8
<1>13. MenuOK(menu', tables')
  <2>1. /\ menu' = [table |-> menu'.table, column |-> menu'.column, search |-> menu'.search,
                    clearSort |-> menu'.clearSort, boxes |-> menu'.boxes]
        /\ menu'.table = menu.table /\ menu'.column = c /\ menu'.boxes = boxes
    BY <1>9
  <2> QED
    BY <2>1, <1>2, <1>6, <1>7, <1>10, <1>11, <1>12 DEF MenuOK
<1> QED
  BY <1>1, <1>7, <1>13 DEF PageInv, DataInv, CardsInv

\* All boxes at once.
LEMMA SetAllBoxesKeeps ==
  ASSUME PageInv, FilterMenu, UNCHANGED data,
         NEW values \in SUBSET Values(tables[menu.table], menu.column), SetAllBoxes(values)
  PROVE  PageInv'
<1> DEFINE t == tables[menu.table]
           c == menu.column
           new == WithHidden(t, c, values)
<1>1. /\ menu # NoMenu
      /\ menu' = [menu EXCEPT !.boxes = renderList(new, c, menu.search)]
      /\ ActsOnTable(new)
      /\ UNCHANGED hostView
  BY DEF FilterMenu, SetAllBoxes, ActsOnTable, HostsAlone
<1>2. /\ menu = [table |-> menu.table, column |-> menu.column, search |-> menu.search,
                 clearSort |-> menu.clearSort, boxes |-> menu.boxes]
      /\ menu.table \in TableIds /\ TableOK(t) /\ c \in DOMAIN t.hidden
  BY <1>1 DEF PageInv, MenuOK
<1>3. values \in SUBSET Values(t, c)
  OBVIOUS
<1> HIDE DEF t, c
<1>4. TableOK(new) /\ new.hidden = [t.hidden EXCEPT ![c] = values]
  BY <1>2, <1>3, WithHiddenOK
<1> HIDE DEF new
<1>5. TablesOK(tables') /\ tables'[menu.table] = new /\ suitesShown' = Len(tables'["communication"].shown)
  BY <1>1, <1>4, ActsKeeps DEF PageInv
<1>6. menu' = [table |-> menu.table, column |-> c, search |-> menu.search,
               clearSort |-> menu.clearSort, boxes |-> renderList(new, c, menu.search)]
  BY <1>1, <1>2 DEF c
<1>7. /\ menu' = [table |-> menu'.table, column |-> menu'.column, search |-> menu'.search,
                  clearSort |-> menu'.clearSort, boxes |-> menu'.boxes]
      /\ menu'.table = menu.table /\ menu'.column = c /\ menu'.boxes = renderList(new, c, menu.search)
  BY <1>6
<1>8. c \in DOMAIN new.hidden
  BY <1>2, <1>4
<1>9. MenuOK(menu', tables')
  BY <1>2, <1>4, <1>5, <1>7, <1>8, RenderListIs DEF MenuOK
<1> QED
  BY <1>1, <1>5, <1>9 DEF PageInv, DataInv, CardsInv

LEMMA MenuStepKeeps == ASSUME PageInv, MenuStep PROVE PageInv'
<1>1. ASSUME NEW id \in TableIds, NEW c \in 1..2, toggleMenu(id, c) PROVE PageInv'
  BY <1>1, ToggleMenuKeeps
<1>2. ASSUME NEW direction \in {1, -1}, SortBy(direction) PROVE PageInv'
  BY <1>2, SortByKeeps
<1>3. CASE ClearSort
  BY <1>3, ClearSortKeeps
<1>4. CASE SelectAll
  <2>1. FilterMenu /\ SetAllBoxes({}) /\ UNCHANGED data
    BY <1>4 DEF SelectAll, Event
  <2>2. {} \in SUBSET Values(tables[menu.table], menu.column)
    OBVIOUS
  <2> QED
    BY <2>1, <2>2, SetAllBoxesKeeps
<1>5. CASE ClearAll
  <2>1. FilterMenu /\ SetAllBoxes(Values(tables[menu.table], menu.column)) /\ UNCHANGED data
    BY <1>5 DEF ClearAll, Event
  <2> QED
    BY <2>1, SetAllBoxesKeeps
<1>6. ASSUME NEW v, SearchValues(v) PROVE PageInv'
  BY <1>6, SearchKeeps
<1>7. ASSUME NEW v, ToggleBox(v) PROVE PageInv'
  BY <1>7, ToggleBoxKeeps
<1> QED
  BY <1>1, <1>2, <1>3, <1>4, <1>5, <1>6, <1>7 DEF MenuStep

\* The events that leave the tables of the page and the hosts alone.
LEMMA OthersKeep ==
  ASSUME PageInv, NEW m, MenuOK(m, tables), Leaves(m), UNCHANGED <<data, suitesShown>>, CardsInv'
  PROVE  PageInv'
<1>1. TablesOK(tables') /\ MenuOK(menu', tables') /\ tables'["communication"] = tables["communication"]
  BY LeavesKeeps DEF PageInv
<1> QED
  BY <1>1 DEF PageInv, DataInv

LEMMA RedrawsKeep ==
  ASSUME PageInv, NEW id \in Sections \ {"communication", "orphan"}, NEW new, TableOK(new),
         NEW device, Redraw(id, new, MenuAfter(device)), UNCHANGED <<data, suitesShown>>, CardsInv'
  PROVE  PageInv'
<1>1. MenuOK(MenuAfter(device), tables)
  BY MenuAfterOK DEF PageInv
<1>2. TablesOK(tables') /\ MenuOK(menu', tables') /\ tables'["communication"] = tables["communication"]
  BY <1>1, RedrawKeeps DEF PageInv
<1> QED
  BY <1>2 DEF PageInv, DataInv

LEMMA FilterStepKeeps == ASSUME PageInv, FilterStep PROVE PageInv'
<1>0. /\ \A device : MenuOK(MenuAfter(device), tables)
      /\ UNCHANGED hostView => CardsInv'
      /\ CardsInv /\ ModelOK(data)
  BY MenuAfterOK, DataIsOK DEF PageInv, CardsInv
<1>1. ASSUME NEW device \in Devices, NEW q \in Queries, NEW severity \in Severities,
             SetFindingFilters(device, q, severity)
      PROVE  PageInv'
  <2>1. Leaves(MenuAfter(device)) /\ UNCHANGED <<data, suitesShown>> /\ UNCHANGED hostView
    BY <1>1 DEF SetFindingFilters, Event, HostsAlone
  <2> QED
    BY <1>0, <2>1, OthersKeep
<1>2. ASSUME NEW device \in Devices, NEW v, SetHostFilters(device, v) PROVE PageInv'
  <2>1. /\ Leaves(MenuAfter(device)) /\ UNCHANGED <<data, suitesShown>>
        /\ hostView' = renderHosts(data, v)
    BY <1>2 DEF SetHostFilters, Event
  <2>2. CardsInv'
    BY <1>0, <2>1, HostsOK DEF CardsInv
  <2> QED
    BY <1>0, <2>1, <2>2, OthersKeep
<1>3. ASSUME NEW device \in Devices, NEW v, SetCertificates(device, v) PROVE PageInv'
  <2>1. /\ Redraw("certificates", renderCertificates(data, v), MenuAfter(device))
        /\ UNCHANGED <<data, suitesShown>> /\ UNCHANGED hostView
    BY <1>3 DEF SetCertificates, Event, HostsAlone
  <2>2. TableOK(renderCertificates(data, v))
    BY <1>0, CertificatesOK DEF ModelOK
  <2>3. "certificates" \in Sections \ {"communication", "orphan"}
    BY DEF Sections
  <2> QED
    BY <1>0, <2>1, <2>2, <2>3, RedrawsKeep
<1>4. ASSUME NEW device \in Devices, NEW f, ViewFull(device, f) PROVE PageInv'
  <2>1. Leaves(MenuAfter(device)) /\ UNCHANGED <<data, suitesShown>> /\ UNCHANGED hostView
    BY <1>4 DEF ViewFull, Event, HostsAlone
  <2> QED
    BY <1>0, <2>1, OthersKeep
<1> QED
  BY <1>1, <1>2, <1>3, <1>4 DEF FilterStep

LEMMA DrawerStepKeeps == ASSUME PageInv, DrawerStep PROVE PageInv'
<1>0. /\ \A device : MenuOK(MenuAfter(device), tables)
      /\ MenuOK(NoMenu, tables)
      /\ UNCHANGED hostView => CardsInv'
      /\ CardsInv /\ ModelOK(data)
      /\ "drawer" \in Sections \ {"communication", "orphan"}
  BY MenuAfterOK, DataIsOK DEF PageInv, CardsInv, MenuOK, Sections
<1>1. ASSUME NEW device \in Devices, NEW i \in DOMAIN hostView.cards,
             openHostEndpoints(device, hostView.cards[i])
      PROVE  PageInv'
  <2> DEFINE ids == hostView.cards[i].endpoints
  <2>1. /\ Redraw("drawer", HostDrawerTable(data, ids), MenuAfter(device))
        /\ UNCHANGED <<data, suitesShown>> /\ UNCHANGED hostView
    BY <1>1 DEF openHostEndpoints, Event
  <2>2. IsList(ids)
    BY <1>0 DEF CardsInv
  <2> HIDE DEF ids
  <2>3. TableOK(HostDrawerTable(data, ids))
    BY <2>2, HostDrawerOK
  <2> QED
    BY <1>0, <2>1, <2>3, RedrawsKeep
<1>2. ASSUME NEW device \in Devices, NEW i \in DOMAIN data.endpoints,
             openEndpoint(device, data.endpoints[i].id)
      PROVE  PageInv'
  <2>1. /\ Redraw("drawer", EndpointDrawerTable(data, data.endpoints[i].id), MenuAfter(device))
        /\ UNCHANGED <<data, suitesShown>> /\ UNCHANGED hostView
    BY <1>2 DEF openEndpoint, Event
  <2>2. TableOK(EndpointDrawerTable(data, data.endpoints[i].id))
    BY <1>0, EndpointDrawerOK
  <2> QED
    BY <1>0, <2>1, <2>2, RedrawsKeep
<1>3. ASSUME NEW device \in Devices, closeDrawer(device) PROVE PageInv'
  <2>1. Leaves(MenuAfter(device)) /\ UNCHANGED <<data, suitesShown>> /\ UNCHANGED hostView
    BY <1>3 DEF closeDrawer, Event
  <2> QED
    BY <1>0, <2>1, OthersKeep
<1>4. ASSUME NEW device \in Devices, downloadCsv(device) PROVE PageInv'
  <2>1. Leaves(MenuAfter(device)) /\ UNCHANGED <<data, suitesShown>> /\ UNCHANGED hostView
    BY <1>4 DEF downloadCsv, Event, HostsAlone
  <2> QED
    BY <1>0, <2>1, OthersKeep
<1>5. CASE Escape
  <2>1. Leaves(NoMenu) /\ UNCHANGED <<data, suitesShown>> /\ UNCHANGED hostView
    BY <1>5 DEF Escape, CloseMenu, Event
  <2> QED
    BY <1>0, <2>1, OthersKeep
<1>6. CASE Scroll
  <2>1. Leaves(NoMenu) /\ UNCHANGED <<data, suitesShown>> /\ UNCHANGED hostView
    BY <1>6 DEF Scroll, CloseMenu, Event, HostsAlone
  <2> QED
    BY <1>0, <2>1, OthersKeep
<1> QED
  BY <1>1, <1>2, <1>3, <1>4, <1>5, <1>6 DEF DrawerStep

\* The inductive invariant of the tables: in any report and after any events of
\* a reader, what each shows is what the state of its closure says, hidden
\* values are values it has, and the open menu is one of a table in the page,
\* or of the one it has outlived, with the boxes of what that hides.
THEOREM PageInvAlways == Spec => []PageInv
<1>1. Init => PageInv
  BY Starts
<1>2. PageInv /\ [Next]_vars => PageInv'
  <2> SUFFICES ASSUME PageInv, [Next]_vars PROVE PageInv'
    OBVIOUS
  <2>1. CASE Next
    BY <2>1, MenuStepKeeps, FilterStepKeeps, DrawerStepKeeps DEF Next
  <2>2. CASE UNCHANGED vars
    BY <2>2 DEF vars, PageInv, DataInv, CardsInv
  <2> QED
    BY <2>1, <2>2
<1> QED
  BY <1>1, <1>2, PTL DEF Spec

\* table() of report.js: whatever a reader sorts, filters, ticks, redraws and
\* closes, in whatever report, every table of the page shows the rows that its
\* filters let through, as often as it has them, and in the order asked for where
\* the texts of the column all give a number or none does; the
\* count of the suites is that of the rows, and the menu's boxes say what is
\* hidden, also when the menu has outlived its table.
THEOREM TablesShowTheirStateAlways == Spec => []TablesShowTheirState
<1>1. PageInv => TablesShowTheirState
  <2> SUFFICES ASSUME PageInv PROVE TablesShowTheirState
    OBVIOUS
  <2>1. ASSUME NEW id \in Drawn
        PROVE  LET t == tables[id] IN
          /\ \A c \in DOMAIN t.hidden : t.hidden[c] \subseteq Values(t, c)
          /\ \A row \in ToSet(t.rows) \cup ToSet(t.shown) :
               Occurs(row, t.shown) = IF Passes(t, row) THEN Occurs(row, t.rows) ELSE 0
          /\ (t.index # Unsorted /\ (Numeric(t, t.index) \/ Textual(t, t.index))) =>
               \A i, k \in DOMAIN t.shown : i < k => Weight(t, t.shown[i]) <= Weight(t, t.shown[k])
    <3>1. PICK t : t = tables[id]
      OBVIOUS
    <3>2. TableOK(t)
      BY <3>1 DEF Drawn, Page, PageInv, TablesOK
    <3>3. \A c \in DOMAIN t.hidden : t.hidden[c] \subseteq Values(t, c)
      BY <3>2 DEF TableOK
    <3>4. \A row : Occurs(row, t.shown) = IF Passes(t, row) THEN Occurs(row, t.rows) ELSE 0
      BY <3>2, ShownOccurs
    <3>5. ASSUME t.index # Unsorted, Numeric(t, t.index) \/ Textual(t, t.index),
                 NEW i \in DOMAIN t.shown, NEW k \in DOMAIN t.shown, i < k
          PROVE  Weight(t, t.shown[i]) <= Weight(t, t.shown[k])
      BY <3>2, <3>5, ShownSorted
    <3> QED
      BY <3>1, <3>3, <3>4, <3>5
  <2>2. menu # NoMenu => \A v \in DOMAIN menu.boxes :
          menu.boxes[v] <=> v \notin tables[menu.table].hidden[menu.column]
    BY DEF PageInv, MenuOK
  <2>3. suitesShown = Len(tables["communication"].shown)
    BY DEF PageInv
  <2> QED
    BY <2>1, <2>2, <2>3 DEF TablesShowTheirState
<1> QED
  BY <1>1, PageInvAlways, PTL
-----------------------------------------------------------------------------
(* The findings of a report. *)

LEMMA SeverityOrderInt ==
  /\ \A s \in ToSet(severities) : severityOrder[s] \in Int
  /\ ToSet(severities) = {"critical", "high", "medium", "low", "informational"}
<1>1. ToSet(severities) = {"critical", "high", "medium", "low", "informational"}
  <2>1. DOMAIN severities = 1..5 /\ severities[1] = "critical" /\ severities[2] = "high"
        /\ severities[3] = "medium" /\ severities[4] = "low" /\ severities[5] = "informational"
    BY DEF severities
  <2> QED
    BY <2>1 DEF ToSet
<1>2. ASSUME NEW s \in ToSet(severities) PROVE severityOrder[s] \in Int
  <2>1. s # "none"
    BY <1>1
  <2>2. severityOrder[s] = (CHOOSE i \in 1..5 : severities[i] = s) - 1
    BY <2>1 DEF severityOrder
  <2>3. \E i \in 1..5 : severities[i] = s
    BY DEF ToSet, severities
  <2> DEFINE place == CHOOSE i \in 1..5 : severities[i] = s
  <2>4. place \in 1..5 /\ severityOrder[s] = place - 1
    BY <2>2, <2>3
  <2> HIDE DEF place
  <2> QED
    BY <2>4
<1> QED
  BY <1>1, <1>2

\* The order of the findings is one.
LEMMA BySeverityOrders ==
  ASSUME NEW ids \in SUBSET (DOMAIN FindingDefinitions)
  PROVE  StrictOrder(ids, BySeverity(ids))
<1> DEFINE major(f) == severityOrder[SeverityOf(f)]
           minor(f) == FindingDefinitions[f].rank
           Before(f, g) == major(f) < major(g) \/ (major(f) = major(g) /\ minor(f) < minor(g))
<1>1. \A f \in ids : major(f) \in Int /\ minor(f) \in Int
  BY SeverityOrderInt, ReportsAssumption DEF SeverityOf
<1>2. \A f, g \in ids : minor(f) = minor(g) => f = g
  BY ReportsAssumption
<1>3. ASSUME NEW f \in ids, NEW g \in ids PROVE <<f, g>> \in BySeverity(ids) <=> Before(f, g)
  <2>1. <<f, g>> \in BySeverity(ids) <=> FirstNonZero(major(f) - major(g), minor(f) - minor(g), 0) < 0
    BY DEF BySeverity
  <2>2. major(f) \in Int /\ major(g) \in Int /\ minor(f) \in Int /\ minor(g) \in Int
    BY <1>1
  <2> HIDE DEF major, minor
  <2> QED
    BY <2>1, <2>2 DEF FirstNonZero
<1> HIDE DEF major, minor
<1>4. \A f \in ids : ~ Before(f, f)
  BY <1>1
<1>5. \A f, g \in ids : f # g => Before(f, g) \/ Before(g, f)
  BY <1>1, <1>2
<1>6. \A f, g, h \in ids : Before(f, g) /\ Before(g, h) => Before(f, h)
  BY <1>1
<1> HIDE DEF Before
<1> QED
  BY <1>3, <1>4, <1>5, <1>6 DEF StrictOrder

\* Every finding found is listed, once.
LEMMA FindingsAre ==
  ASSUME NEW obs, ObservationsOK(obs)
  PROVE  LET G == GroupedFindings(obs) IN
         /\ IsList(G)
         /\ \A i \in DOMAIN G : G[i].id \in FoundIn(obs) /\ G[i] = Finding(G[i].id, obs)
         /\ \A f \in FoundIn(obs) : \E i \in DOMAIN G : G[i].id = f
         /\ \A i, j \in DOMAIN G : G[i].id = G[j].id => i = j
<1> DEFINE F == FoundIn(obs)
           ids == Listed(F, BySeverity(F))
           G == GroupedFindings(obs)
<1>1. F \in SUBSET (DOMAIN FindingDefinitions)
  BY DEF FoundIn, ObservationsOK
<1>2. G = [i \in DOMAIN ids |-> Finding(ids[i], obs)]
  BY DEF GroupedFindings
<1> HIDE DEF F, G
<1>3. IsFiniteSet(F)
  BY <1>1, ReportsAssumption, FS_Subset
<1>4. StrictOrder(F, BySeverity(F))
  BY <1>1, BySeverityOrders
<1>5. ids \in Bijection(1..Cardinality(F), F)
  BY <1>3, <1>4, ListedNumbers
<1>6. Cardinality(F) \in Nat
  BY <1>3, FS_CardinalityType
<1> HIDE DEF ids
<1>7. DOMAIN ids = 1..Cardinality(F) /\ \A i \in DOMAIN ids : ids[i] \in F
  BY <1>5 DEF Bijection, Injection
<1>8. DOMAIN G = DOMAIN ids /\ \A i \in DOMAIN G : G[i] = Finding(ids[i], obs) /\ G[i].id = ids[i]
  BY <1>2 DEF Finding
<1>9. IsList(G)
  BY <1>2, <1>6, <1>7 DEF IsList
<1>10. \A f \in F : \E i \in DOMAIN G : G[i].id = f
  BY <1>5, <1>7, <1>8 DEF Bijection, Surjection
<1>11. \A i, j \in DOMAIN G : G[i].id = G[j].id => i = j
  BY <1>5, <1>7, <1>8 DEF Bijection, Injection, IsInjective
<1>12. \A i \in DOMAIN G : G[i].id \in F /\ G[i] = Finding(G[i].id, obs)
  BY <1>7, <1>8
<1> QED
  BY <1>9, <1>10, <1>11, <1>12 DEF F, G

\* A sort of a whole list has every element of the list.
LEMMA OrderedAll ==
  ASSUME NEW s, IsList(s), NEW after
  PROVE  /\ IsList(OrderBy(s, DOMAIN s, after)) /\ Len(OrderBy(s, DOMAIN s, after)) = Len(s)
         /\ \A i \in DOMAIN s : \E k \in DOMAIN OrderBy(s, DOMAIN s, after) : OrderBy(s, DOMAIN s, after)[k] = s[i]
         /\ \A k \in DOMAIN OrderBy(s, DOMAIN s, after) : \E i \in DOMAIN s : OrderBy(s, DOMAIN s, after)[k] = s[i]
<1> DEFINE o == OrderBy(s, DOMAIN s, after)
           at == Sorted(DOMAIN s, after)
<1>1. IsFiniteSet(DOMAIN s) /\ DOMAIN s \in SUBSET Int
  BY ListFinite
<1>2. Cardinality(DOMAIN s) = Len(s)
  <2>1. PICK n \in Nat : n = Len(s) /\ DOMAIN s = 1..n
    BY DEF IsList
  <2>2. Cardinality(1..n) = n
    BY FS_Interval
  <2> QED
    BY <2>1, <2>2
<1>3. /\ IsList(o) /\ Len(o) = Len(s) /\ o = Take(s, at)
      /\ at \in Bijection(1..Cardinality(DOMAIN s), DOMAIN s)
  BY <1>1, <1>2, OrderByIs
<1> HIDE DEF o, at
<1>4. DOMAIN o = 1..Cardinality(DOMAIN s) /\ \A k \in DOMAIN o : o[k] = s[at[k]] /\ at[k] \in DOMAIN s
  BY <1>3 DEF Take, Bijection, Injection
<1>5. \A i \in DOMAIN s : \E k \in DOMAIN o : o[k] = s[i]
  BY <1>3, <1>4 DEF Bijection, Surjection
<1> QED
  BY <1>3, <1>4, <1>5 DEF o

\* Without a filter every finding has its card.
LEMMA AllFindingsShown ==
  ASSUME NEW d, IsList(d.findings)
  PROVE  LET view == renderFindings(d, "", "all") IN
         /\ view.count = Len(d.findings)
         /\ \A i \in DOMAIN d.findings : \E k \in DOMAIN view.cards : view.cards[k].id = d.findings[i].id
<1> DEFINE v == [q |-> "", severity |-> "all"]
           matching == {i \in DOMAIN d.findings : FindingMatches(d.findings[i], v)}
           shown == OrderBy(d.findings, matching, ByRisk(d.findings))
           view == renderFindings(d, "", "all")
<1>1. matching = DOMAIN d.findings
  BY DEF FindingMatches
<1>2. view = [q |-> "", severity |-> "all", cards |-> [i \in DOMAIN shown |-> findingCard(shown[i])],
              count |-> Len(shown)]
  BY DEF renderFindings
<1> HIDE DEF matching, view, v
<1>3. /\ Len(shown) = Len(d.findings)
      /\ \A i \in DOMAIN d.findings : \E k \in DOMAIN shown : shown[k] = d.findings[i]
  <2>1. shown = OrderBy(d.findings, DOMAIN d.findings, ByRisk(d.findings))
    BY <1>1
  <2> HIDE DEF shown
  <2> QED
    BY <2>1, OrderedAll
<1> HIDE DEF shown
<1>4. view.count = Len(d.findings)
  BY <1>2, <1>3
<1>5. ASSUME NEW i \in DOMAIN d.findings PROVE \E k \in DOMAIN view.cards : view.cards[k].id = d.findings[i].id
  <2>1. PICK k \in DOMAIN shown : shown[k] = d.findings[i]
    BY <1>3
  <2>2. k \in DOMAIN view.cards /\ view.cards[k] = findingCard(d.findings[i])
    BY <1>2, <2>1
  <2>3. view.cards[k].id = d.findings[i].id
    BY <2>2 DEF findingCard
  <2> QED
    BY <2>2, <2>3
<1> QED
  BY <1>4, <1>5 DEF view

\* The top findings are findings.
LEMMA TopAreFindings ==
  ASSUME NEW scan \in Reports, NEW obs, obs = rows_by_endpoint(scan), NEW d, d = build_report_model(scan)
  PROVE  /\ IsList(d.findings)
         /\ \A i \in DOMAIN initTopFindings(d.statistics) :
              \E k \in DOMAIN d.findings : initTopFindings(d.statistics)[i] = d.findings[k].id
<1>1. ObservationsOK(obs) /\ d.findings = GroupedFindings(obs)
      /\ d.statistics = build_statistics(d.endpoints, d.findings, obs)
  BY ModelIs
<1>2. IsList(d.findings)
  BY <1>1, FindingsAre
<1> DEFINE sorted == OrderBy(d.findings, DOMAIN d.findings, MostAffected(d.findings))
           top == First(sorted, TopStatistics)
           drawn == First(top, TopCap)
<1>3. IsList(sorted) /\ \A k \in DOMAIN sorted : \E i \in DOMAIN d.findings : sorted[k] = d.findings[i]
  BY <1>2, OrderedAll
<1>4. d.statistics.top = top
  BY <1>1 DEF build_statistics, TopFindings
<1>5. initTopFindings(d.statistics) = [i \in DOMAIN drawn |-> drawn[i].id]
  BY <1>4 DEF initTopFindings, Ids
<1> HIDE DEF sorted
<1>6. IsList(top) /\ \A k \in DOMAIN top : k \in DOMAIN sorted /\ top[k] = sorted[k]
  BY <1>3, FirstIs, ReportsAssumption
<1> HIDE DEF top
<1>7. \A k \in DOMAIN drawn : k \in DOMAIN top /\ drawn[k] = top[k]
  BY <1>6, FirstIs, ReportsAssumption
<1> HIDE DEF drawn
<1>8. \A i \in DOMAIN drawn : \E k \in DOMAIN d.findings : drawn[i].id = d.findings[k].id
  BY <1>3, <1>6, <1>7
<1> QED
  BY <1>2, <1>5, <1>8
-----------------------------------------------------------------------------
(* What is shown beside the tables is of the report and of the filters.    *)

ViewsInv ==
  /\ \E scan \in Reports : data = build_report_model(scan)
  /\ overview = Overview(data)
  /\ findingView = renderFindings(data, findingView.q, findingView.severity)
  /\ hostView = renderHosts(data, hostView)

\* The cards of the hosts carry the filters they were drawn for.
LEMMA HostsOfThemselves ==
  ASSUME NEW d, NEW v, NEW w, w = renderHosts(d, v)
  PROVE  w = renderHosts(d, w)
<1>1. w.q = v.q /\ w.compliance = v.compliance /\ w.sort = v.sort
  BY DEF renderHosts
<1>2. Matching(d, w) = Matching(d, v)
  BY <1>1 DEF Matching, EndpointMatches
<1>3. renderHosts(d, w) = renderHosts(d, v)
  BY <1>1, <1>2 DEF renderHosts
<1> QED
  BY <1>3

LEMMA FindingsOfThemselves ==
  ASSUME NEW d, NEW q, NEW severity, NEW w, w = renderFindings(d, q, severity)
  PROVE  w = renderFindings(d, w.q, w.severity)
<1>1. w.q = q /\ w.severity = severity
  BY DEF renderFindings
<1> QED
  BY <1>1

\* An event draws the findings and the hosts anew, or leaves them.
LEMMA EventViews ==
  ASSUME Next
  PROVE  /\ UNCHANGED <<data, overview>>
         /\ findingView' = findingView \/ \E q, severity : findingView' = renderFindings(data, q, severity)
         /\ hostView' = hostView \/ \E v : hostView' = renderHosts(data, v)
<1>1. CASE MenuStep
  <2>1. ASSUME NEW id \in TableIds, NEW c \in 1..2, toggleMenu(id, c)
        PROVE  UNCHANGED <<data, overview, findingView, hostView>>
    BY <2>1 DEF toggleMenu, Event, FindingsAlone, HostsAlone
  <2>2. ASSUME NEW direction \in {1, -1}, SortBy(direction)
        PROVE  UNCHANGED <<data, overview, findingView, hostView>>
    BY <2>2 DEF SortBy, SortFromMenu, Event, FindingsAlone, HostsAlone
  <2>3. CASE ClearSort
    BY <2>3 DEF ClearSort, SortFromMenu, Event, FindingsAlone, HostsAlone
  <2>4. CASE SelectAll
    BY <2>4 DEF SelectAll, SetAllBoxes, ActsOnTable, Event, FindingsAlone, HostsAlone
  <2>5. CASE ClearAll
    BY <2>5 DEF ClearAll, SetAllBoxes, ActsOnTable, Event, FindingsAlone, HostsAlone
  <2>6. ASSUME NEW v, SearchValues(v) \/ ToggleBox(v)
        PROVE  UNCHANGED <<data, overview, findingView, hostView>>
    BY <2>6 DEF SearchValues, ToggleBox, ActsOnTable, Event, FindingsAlone, HostsAlone
  <2> QED
    BY <1>1, <2>1, <2>2, <2>3, <2>4, <2>5, <2>6 DEF MenuStep
<1>2. CASE FilterStep
  <2>1. ASSUME NEW device, NEW q, NEW severity, SetFindingFilters(device, q, severity)
        PROVE  /\ UNCHANGED <<data, overview, hostView>>
               /\ \E r, l : findingView' = renderFindings(data, r, l)
    BY <2>1 DEF SetFindingFilters, Event, HostsAlone
  <2>2. ASSUME NEW device, NEW v, SetHostFilters(device, v)
        PROVE  /\ UNCHANGED <<data, overview, findingView>>
               /\ \E w : hostView' = renderHosts(data, w)
    BY <2>2 DEF SetHostFilters, Event, FindingsAlone
  <2>3. ASSUME NEW device, NEW v, SetCertificates(device, v)
        PROVE  UNCHANGED <<data, overview, findingView, hostView>>
    BY <2>3 DEF SetCertificates, Event, FindingsAlone, HostsAlone
  <2>4. ASSUME NEW device, NEW f, ViewFull(device, f)
        PROVE  /\ UNCHANGED <<data, overview, hostView>>
               /\ \E r, l : findingView' = renderFindings(data, r, l)
    BY <2>4 DEF ViewFull, resetFindingFilters, Event, HostsAlone
  <2> QED
    BY <1>2, <2>1, <2>2, <2>3, <2>4 DEF FilterStep
<1>3. CASE DrawerStep
  <2>1. ASSUME NEW device, NEW card, openHostEndpoints(device, card)
        PROVE  UNCHANGED <<data, overview, findingView, hostView>>
    BY <2>1 DEF openHostEndpoints, Event, FindingsAlone
  <2>2. ASSUME NEW device, NEW id, openEndpoint(device, id)
        PROVE  UNCHANGED <<data, overview, findingView, hostView>>
    BY <2>2 DEF openEndpoint, Event, FindingsAlone
  <2>3. ASSUME NEW device, closeDrawer(device) \/ downloadCsv(device)
        PROVE  UNCHANGED <<data, overview, findingView, hostView>>
    BY <2>3 DEF closeDrawer, downloadCsv, Event, FindingsAlone, HostsAlone
  <2>4. CASE Escape \/ Scroll
    BY <2>4 DEF Escape, Scroll, Event, FindingsAlone, HostsAlone
  <2> QED
    BY <1>3, <2>1, <2>2, <2>3, <2>4 DEF DrawerStep
<1> QED
  BY <1>1, <1>2, <1>3 DEF Next

\* The inductive invariant of the other sections: the overview, the cards of
\* the findings and those of the hosts are what report.js draws of the report
\* under the filters on the screen, whatever was filtered before.
THEOREM ViewsInvAlways == Spec => []ViewsInv
<1>1. Init => ViewsInv
  <2> SUFFICES ASSUME Init PROVE ViewsInv
    OBVIOUS
  <2> DEFINE v == [q |-> "", compliance |-> "all", sort |-> "severity"]
  <2>1. /\ \E scan \in Reports : data = build_report_model(scan)
        /\ overview = Overview(data)
        /\ findingView = renderFindings(data, "", "all")
        /\ hostView = renderHosts(data, v)
    BY DEF Init
  <2> HIDE DEF v
  <2>2. findingView = renderFindings(data, findingView.q, findingView.severity)
    <3>1. PICK q, severity : findingView = renderFindings(data, q, severity)
      BY <2>1
    <3> QED
      BY <3>1, FindingsOfThemselves
  <2>3. hostView = renderHosts(data, hostView)
    BY <2>1, HostsOfThemselves
  <2> QED
    BY <2>1, <2>2, <2>3 DEF ViewsInv
<1>2. ViewsInv /\ [Next]_vars => ViewsInv'
  <2> SUFFICES ASSUME ViewsInv, [Next]_vars PROVE ViewsInv'
    OBVIOUS
  <2>1. CASE Next
    <3>1. /\ UNCHANGED <<data, overview>>
          /\ findingView' = findingView \/ \E q, severity : findingView' = renderFindings(data, q, severity)
          /\ hostView' = hostView \/ \E v : hostView' = renderHosts(data, v)
      BY <2>1, EventViews
    <3>2. findingView' = renderFindings(data, findingView'.q, findingView'.severity)
      BY <3>1, FindingsOfThemselves DEF ViewsInv
    <3>3. hostView' = renderHosts(data, hostView')
      BY <3>1, HostsOfThemselves DEF ViewsInv
    <3> QED
      BY <3>1, <3>2, <3>3 DEF ViewsInv
  <2>2. CASE UNCHANGED vars
    BY <2>2 DEF vars, ViewsInv
  <2> QED
    BY <2>1, <2>2
<1> QED
  BY <1>1, <1>2, PTL DEF Spec

\* topFindingRow of report.js: in any report and under any filters, "View full
\* finding detail" resets the filters, so that it finds the card it goes to and
\* all findings are shown.
THEOREM LinkLandsAlways == Spec => LinkLandsOnCard
<1>1. ViewsInv /\ [Next]_vars =>
        [\A device \in Devices : \A i \in DOMAIN overview.top : ViewFull(device, overview.top[i]) =>
           landed' = overview.top[i] /\ findingView'.count = Len(data.findings)]_vars
  <2> SUFFICES ASSUME ViewsInv, NEW device \in Devices, NEW i \in DOMAIN overview.top,
                      ViewFull(device, overview.top[i])
               PROVE  landed' = overview.top[i] /\ findingView'.count = Len(data.findings)
    OBVIOUS
  <2>1. PICK f : f = overview.top[i]
    OBVIOUS
  <2>2. PICK view : view = renderFindings(data, "", "all")
    OBVIOUS
  <2>3. /\ findingView' = view
        /\ landed' = IF \E k \in DOMAIN view.cards : view.cards[k].id = f THEN f ELSE "lost"
    BY <2>1, <2>2 DEF ViewFull, resetFindingFilters
  <2>4. overview.top = initTopFindings(data.statistics)
    BY DEF ViewsInv, Overview
  <2>5. IsList(data.findings) /\ \E k \in DOMAIN data.findings : f = data.findings[k].id
    BY <2>1, <2>4, TopAreFindings DEF ViewsInv
  <2>6. view.count = Len(data.findings) /\ \E k \in DOMAIN view.cards : view.cards[k].id = f
    BY <2>2, <2>5, AllFindingsShown
  <2> QED
    BY <2>1, <2>3, <2>6
<1> QED
  BY <1>1, ViewsInvAlways, PTL DEF Spec, LinkLandsOnCard
-----------------------------------------------------------------------------
(* The hosts. *)

LEMMA OrderPicks ==
  ASSUME NEW s, NEW I \in SUBSET Int, IsFiniteSet(I), NEW after
  PROVE  Picks(OrderBy(s, I, after), s, I)
  BY OrderByIs DEF Picks

LEMMA ChosenPicks ==
  ASSUME NEW s, NEW I \in SUBSET Int, IsFiniteSet(I)
  PROVE  Picks(Chosen(s, I), s, I)
  BY ChosenIs DEF Picks

HostsOf(es, I) == {es[i].host : i \in I}

\* A group for each host, with every endpoint of it.
LEMMA GroupsAre ==
  ASSUME NEW es, IsList(es), NEW I \in SUBSET (DOMAIN es), NEW G, G = groupEndpointsByHost(es, I)
  PROVE  /\ IsList(G) /\ IsFiniteSet(I)
         /\ \A n \in DOMAIN G : IsFiniteSet(OnHost(es, I, G[n].host))
                                /\ Picks(G[n].endpoints, es, OnHost(es, I, G[n].host))
         /\ \A n, m \in DOMAIN G : G[n].host = G[m].host => n = m
         /\ \A i \in I : \E n \in DOMAIN G : G[n].host = es[i].host
         /\ Len(G) = Cardinality(HostsOf(es, I))
<1> DEFINE F == FirstOfHost(es, I)
           first == Chosen(es, F)
           hosts == HostsOf(es, I)
           hostOf == [i \in F |-> es[i].host]
<1>1. I \in SUBSET Int /\ IsFiniteSet(I)
  BY ListFinite, FS_Subset
<1>2. F \in SUBSET I /\ \A i \in F : \A j \in I : es[j].host = es[i].host => i <= j
  BY DEF FirstOfHost
<1>3. ASSUME NEW i \in I PROVE \E j \in F : es[j].host = es[i].host
  <2> DEFINE S == {j \in I : es[j].host = es[i].host}
  <2>1. S \in SUBSET Int /\ IsFiniteSet(S) /\ S # {}
    <3>1. S \in SUBSET I /\ i \in S
      OBVIOUS
    <3> HIDE DEF S
    <3> QED
      BY <3>1, <1>1, FS_Subset
  <2>2. PICK j \in S : \A k \in S : j <= k
    <3> HIDE DEF S
    <3> QED
      BY <2>1, LeastPlace
  <2>3. j \in F
    BY <2>2 DEF FirstOfHost
  <2> QED
    BY <2>2, <2>3
<1>4. \A i, j \in F : es[i].host = es[j].host => i = j
  <2> SUFFICES ASSUME NEW i \in F, NEW j \in F, es[i].host = es[j].host PROVE i = j
    OBVIOUS
  <2>1. i \in I /\ j \in I /\ i <= j /\ j <= i
    BY <1>2
  <2>2. i \in Int /\ j \in Int
    BY <2>1, <1>1
  <2> QED
    BY <2>1, <2>2
<1> HIDE DEF F
<1>5. F \in SUBSET Int /\ IsFiniteSet(F)
  BY <1>1, <1>2, FS_Subset
<1>6. Picks(first, es, F)
  BY <1>5, ChosenPicks
<1>7. G = [n \in DOMAIN first |->
             [host |-> first[n].host,
              endpoints |-> OrderBy(es, OnHost(es, I, first[n].host), ByPort(es))]]
  BY DEF groupEndpointsByHost, F
<1> HIDE DEF first
<1>8. /\ IsList(first) /\ Len(first) = Cardinality(F)
      /\ \A k \in DOMAIN first : \E i \in F : first[k] = es[i]
      /\ \A i \in F : \E k \in DOMAIN first : first[k] = es[i]
  <2>1. IsFiniteSet(F) /\ Picks(first, es, F)
    BY <1>5, <1>6
  <2>2. IsList(first) /\ Len(first) = Cardinality(F)
    BY <2>1, PicksIs
  <2>3. \A k \in DOMAIN first : \E i \in F : first[k] = es[i]
    BY <2>1, PicksIs
  <2>4. \A i \in F : \E k \in DOMAIN first : first[k] = es[i]
    BY <2>1, PicksIs
  <2> QED
    BY <2>2, <2>3, <2>4
<1>9. \A k, l \in DOMAIN first : first[k] = first[l] => k = l
  <2>1. \A i, j \in F : es[i] = es[j] => i = j
    BY <1>4
  <2> QED
    BY <2>1, <1>6, PicksDiffer
<1>10. IsList(G) /\ Len(G) = Len(first) /\ DOMAIN G = DOMAIN first
  BY <1>7, <1>8 DEF IsList
<1>11. ASSUME NEW host
       PROVE  /\ IsFiniteSet(OnHost(es, I, host))
              /\ Picks(OrderBy(es, OnHost(es, I, host), ByPort(es)), es, OnHost(es, I, host))
  <2>1. OnHost(es, I, host) \in SUBSET I
    BY DEF OnHost
  <2>2. OnHost(es, I, host) \in SUBSET Int /\ IsFiniteSet(OnHost(es, I, host))
    BY <2>1, <1>1, FS_Subset
  <2> QED
    BY <2>2, OrderPicks
<1>12. ASSUME NEW n \in DOMAIN G
       PROVE  /\ G[n].host = first[n].host
              /\ IsFiniteSet(OnHost(es, I, G[n].host)) /\ Picks(G[n].endpoints, es, OnHost(es, I, G[n].host))
  <2>1. /\ G[n].host = first[n].host
        /\ G[n].endpoints = OrderBy(es, OnHost(es, I, first[n].host), ByPort(es))
    BY <1>7, <1>10
  <2> QED
    BY <2>1, <1>11
<1>13. \A n, m \in DOMAIN G : G[n].host = G[m].host => n = m
  <2> SUFFICES ASSUME NEW n \in DOMAIN G, NEW m \in DOMAIN G, G[n].host = G[m].host PROVE n = m
    OBVIOUS
  <2>1. PICK i \in F, j \in F : first[n] = es[i] /\ first[m] = es[j]
    BY <1>8, <1>10
  <2>2. es[i].host = es[j].host
    BY <2>1, <1>12
  <2>3. i = j
    BY <2>2, <1>4
  <2> QED
    BY <2>1, <2>3, <1>9, <1>10
<1>14. ASSUME NEW i \in I PROVE \E n \in DOMAIN G : G[n].host = es[i].host
  <2>1. PICK j \in F : es[j].host = es[i].host
    BY <1>3
  <2>2. PICK n \in DOMAIN first : first[n] = es[j]
    BY <1>8
  <2> QED
    BY <2>1, <2>2, <1>10, <1>12
<1>15. Cardinality(hosts) = Cardinality(F)
  <2>1. hosts = ValuesOf(hostOf, F)
    <3>1. ASSUME NEW h \in hosts PROVE h \in ValuesOf(hostOf, F)
      BY <1>3 DEF HostsOf, ValuesOf
    <3>2. ASSUME NEW h \in ValuesOf(hostOf, F) PROVE h \in hosts
      BY <1>2 DEF HostsOf, ValuesOf
    <3> QED
      BY <3>1, <3>2
  <2>2. \A i, j \in F : hostOf[i] = hostOf[j] => i = j
    BY <1>4
  <2> HIDE DEF hosts, hostOf
  <2> QED
    BY <2>1, <2>2, <1>5, AsMany
<1> QED
  BY <1>1, <1>8, <1>10, <1>12, <1>13, <1>14, <1>15

\* The cards of the hosts: a card for each, up to the cap.
DrawnFor(visible, w, d, v) ==
    /\ IsList(visible) /\ Len(visible) <= HostCap
    /\ w.cards = [n \in DOMAIN visible |-> hostEndpointCard(visible[n])]
    /\ w.hosts = Len(visible) /\ w.endpoints = Cardinality(Matching(d, v))
    /\ w.capped = (Cardinality(HostsOf(d.endpoints, Matching(d, v))) > HostCap)
    /\ \A n, m \in DOMAIN visible : visible[n].host = visible[m].host => n = m
    /\ \A n \in DOMAIN visible :
         /\ IsFiniteSet(OnHost(d.endpoints, Matching(d, v), visible[n].host))
         /\ Picks(visible[n].endpoints, d.endpoints, OnHost(d.endpoints, Matching(d, v), visible[n].host))

LEMMA HostGroupsAre ==
  ASSUME NEW d, ModelOK(d), NEW v, NEW w, w = renderHosts(d, v)
  PROVE  \E visible : DrawnFor(visible, w, d, v)
<1> DEFINE I == Matching(d, v)
           G == groupEndpointsByHost(d.endpoints, I)
           groups == HostsInOrder(G, v.sort)
           visible == First(groups, HostCap)
           hosts == HostsOf(d.endpoints, I)
<1>1. w = [q |-> v.q, compliance |-> v.compliance, sort |-> v.sort,
           cards |-> [n \in DOMAIN visible |-> hostEndpointCard(visible[n])],
           hosts |-> Len(visible), endpoints |-> Cardinality(I), capped |-> Len(groups) > Len(visible)]
  BY DEF renderHosts
<1>2. I \in SUBSET (DOMAIN d.endpoints)
  BY DEF Matching
<1> HIDE DEF I, G
<1>3. IsList(d.endpoints)
  BY DEF ModelOK
<1>4. /\ IsList(G) /\ IsFiniteSet(I)
      /\ \A n \in DOMAIN G : IsFiniteSet(OnHost(d.endpoints, I, G[n].host))
                             /\ Picks(G[n].endpoints, d.endpoints, OnHost(d.endpoints, I, G[n].host))
      /\ \A n, m \in DOMAIN G : G[n].host = G[m].host => n = m
      /\ Len(G) = Cardinality(hosts)
  BY <1>2, <1>3, GroupsAre DEF G
<1> HIDE DEF hosts
<1>5. Picks(groups, G, DOMAIN G) /\ IsFiniteSet(DOMAIN G) /\ Cardinality(DOMAIN G) = Len(G)
  <2> DEFINE after == After(G, LAMBDA a, b : HostOrder(v.sort, a, b))
  <2>1. groups = OrderBy(G, DOMAIN G, after)
    BY DEF HostsInOrder
  <2> HIDE DEF after, groups
  <2>2. IsFiniteSet(DOMAIN G) /\ DOMAIN G \in SUBSET Int
    BY <1>4, ListFinite
  <2>3. PICK n \in Nat : n = Len(G) /\ DOMAIN G = 1..n
    BY <1>4 DEF IsList
  <2>4. Cardinality(1..n) = n
    BY FS_Interval
  <2> QED
    BY <2>1, <2>2, <2>3, <2>4, OrderPicks
<1> HIDE DEF groups
<1>6. /\ IsList(groups) /\ Len(groups) = Len(G)
      /\ \A k \in DOMAIN groups : \E n \in DOMAIN G : groups[k] = G[n]
  BY <1>5, PicksIs
<1>7. \A k, l \in DOMAIN groups : groups[k].host = groups[l].host => k = l
  <2>1. \A n, m \in DOMAIN G : G[n] = G[m] => n = m
    BY <1>4
  <2>2. \A k, l \in DOMAIN groups : groups[k] = groups[l] => k = l
    BY <2>1, <1>5, PicksDiffer
  <2> SUFFICES ASSUME NEW k \in DOMAIN groups, NEW l \in DOMAIN groups, groups[k].host = groups[l].host
               PROVE  k = l
    OBVIOUS
  <2>3. PICK n \in DOMAIN G, m \in DOMAIN G : groups[k] = G[n] /\ groups[l] = G[m]
    BY <1>6
  <2>4. n = m
    BY <2>3, <1>4
  <2> QED
    BY <2>2, <2>3, <2>4
<1>8. HostCap \in Nat
  BY ReportsAssumption
<1>9. /\ IsList(visible) /\ Len(visible) = (IF Len(groups) < HostCap THEN Len(groups) ELSE HostCap)
      /\ \A k \in DOMAIN visible : k \in DOMAIN groups /\ visible[k] = groups[k]
  BY <1>6, <1>8, FirstIs
<1> HIDE DEF visible
<1>10. Len(visible) <= HostCap /\ (Len(groups) > Len(visible)) = (Cardinality(hosts) > HostCap)
  <2>1. PICK n \in Nat : n = Len(groups)
    BY <1>6 DEF IsList
  <2>2. Cardinality(hosts) = n
    BY <2>1, <1>4, <1>6
  <2> QED
    BY <2>1, <2>2, <1>8, <1>9
<1>11. /\ w.cards = [n \in DOMAIN visible |-> hostEndpointCard(visible[n])]
       /\ w.hosts = Len(visible) /\ w.endpoints = Cardinality(I)
       /\ w.capped = (Len(groups) > Len(visible))
  BY <1>1
<1>12. w.capped = (Cardinality(hosts) > HostCap)
  BY <1>10, <1>11
<1>13. \A n, m \in DOMAIN visible : visible[n].host = visible[m].host => n = m
  BY <1>7, <1>9
<1>14. \A n \in DOMAIN visible :
         /\ IsFiniteSet(OnHost(d.endpoints, I, visible[n].host))
         /\ Picks(visible[n].endpoints, d.endpoints, OnHost(d.endpoints, I, visible[n].host))
  BY <1>4, <1>6, <1>9
<1>15. DrawnFor(visible, w, d, v)
  BY <1>9, <1>10, <1>11, <1>12, <1>13, <1>14 DEF DrawnFor, I, hosts
<1> QED
  BY <1>15

\* The endpoints that the filters let through.
MatchingEndpoints(d, v) == {e \in ToSet(d.endpoints) : EndpointMatches(e, v)}

LEMMA MatchingIs ==
  ASSUME NEW d, ModelOK(d), NEW v, NEW M, M = MatchingEndpoints(d, v)
  PROVE  /\ Matching(d, v) \in SUBSET (DOMAIN d.endpoints) /\ IsFiniteSet(Matching(d, v))
         /\ M = ValuesOf(d.endpoints, Matching(d, v))
         /\ \A e \in M : \E i \in Matching(d, v) : e = d.endpoints[i]
         /\ \A i \in Matching(d, v) : d.endpoints[i] \in M
         /\ Cardinality(M) = Cardinality(Matching(d, v))
         /\ {e.host : e \in M} = HostsOf(d.endpoints, Matching(d, v))
<1> DEFINE I == Matching(d, v)
           es == d.endpoints
<1>1. I = {i \in DOMAIN es : EndpointMatches(es[i], v)}
  BY DEF Matching
<1>2. I \in SUBSET (DOMAIN es) /\ IsFiniteSet(I)
  <2>1. I \in SUBSET (DOMAIN es)
    BY <1>1
  <2>2. IsFiniteSet(DOMAIN es)
    BY ListFinite DEF ModelOK
  <2> HIDE DEF I, es
  <2> QED
    BY <2>1, <2>2, FS_Subset
<1>0. M = {e \in ToSet(es) : EndpointMatches(e, v)}
  BY DEF MatchingEndpoints
<1>3. \A e \in M : \E i \in I : e = es[i]
  <2> SUFFICES ASSUME NEW e \in M PROVE \E i \in I : e = es[i]
    OBVIOUS
  <2>0. e \in ToSet(es) /\ EndpointMatches(e, v)
    BY <1>0
  <2>1. PICK i \in DOMAIN es : e = es[i]
    BY <2>0 DEF ToSet
  <2>2. EndpointMatches(es[i], v)
    BY <2>0, <2>1
  <2> QED
    BY <2>1, <2>2, <1>1
<1>4. \A i \in I : es[i] \in M
  BY <1>0, <1>1 DEF ToSet
<1>5. \A i, j \in I : es[i] = es[j] => i = j
  BY <1>2 DEF ModelOK
<1> HIDE DEF I, es
<1>6. M = ValuesOf(es, I)
  BY <1>3, <1>4 DEF ValuesOf
<1>7. Cardinality(M) = Cardinality(I)
  BY <1>2, <1>5, <1>6, AsMany
<1>8. {e.host : e \in M} = HostsOf(es, I)
  BY <1>3, <1>4 DEF HostsOf
<1> QED
  BY <1>2, <1>3, <1>4, <1>6, <1>7, <1>8 DEF I, es

IdsOn(host, M) == {e.id : e \in {x \in M : x.host = host}}

\* What the card of a host says of its endpoints.
LEMMA CardIs ==
  ASSUME NEW d, ModelOK(d), NEW v, NEW M, M = MatchingEndpoints(d, v),
         NEW g, IsFiniteSet(OnHost(d.endpoints, Matching(d, v), g.host)),
         Picks(g.endpoints, d.endpoints, OnHost(d.endpoints, Matching(d, v), g.host)),
         NEW card, card = hostEndpointCard(g)
  PROVE  /\ card.host = g.host
         /\ ToSet(card.endpoints) = IdsOn(card.host, M)
         /\ card.compliant <=> \A e \in M : e.host = card.host => e.status = "compliant"
         /\ IsList(g.endpoints)
         /\ \A k \in DOMAIN g.endpoints : g.endpoints[k] \in M /\ g.endpoints[k].host = g.host
<1> DEFINE es == d.endpoints
           I == Matching(d, v)
           O == OnHost(es, I, g.host)
           ge == g.endpoints
<1>1. /\ card.host = g.host
      /\ card.endpoints = [k \in DOMAIN ge |-> ge[k].id]
      /\ card.compliant = ({k \in DOMAIN ge : ge[k].status # "compliant"} = {})
  BY DEF hostEndpointCard, Failed, Ids
<1>2. O = {i \in I : es[i].host = g.host}
  BY DEF OnHost
<1>3. /\ \A e \in M : \E i \in I : e = es[i]
      /\ \A i \in I : es[i] \in M
  BY MatchingIs
<1>4. IsFiniteSet(O) /\ Picks(ge, es, O)
  OBVIOUS
<1> HIDE DEF es, I, O, ge
<1>5. /\ IsList(ge)
      /\ \A k \in DOMAIN ge : \E i \in O : ge[k] = es[i]
      /\ \A i \in O : \E k \in DOMAIN ge : ge[k] = es[i]
  BY <1>4, PicksIs
<1>6. \A k \in DOMAIN ge : ge[k] \in M /\ ge[k].host = g.host
  BY <1>2, <1>3, <1>5
<1>7. \A e \in M : e.host = g.host => \E k \in DOMAIN ge : ge[k] = e
  BY <1>2, <1>3, <1>5
<1>8. ToSet(card.endpoints) = IdsOn(card.host, M)
  <2> DEFINE left == ToSet(card.endpoints)
             mine == {x \in M : x.host = card.host}
  <2>0. left = {ge[k].id : k \in DOMAIN ge}
    BY <1>1 DEF ToSet
  <2>1. ASSUME NEW x \in left PROVE \E e \in mine : x = e.id
    <3>1. PICK k \in DOMAIN ge : x = ge[k].id
      BY <2>0
    <3>2. ge[k] \in mine
      BY <1>1, <1>6
    <3> QED
      BY <3>1, <3>2
  <2>2. ASSUME NEW e \in mine PROVE e.id \in left
    <3>1. PICK k \in DOMAIN ge : ge[k] = e
      BY <1>1, <1>7
    <3> QED
      BY <2>0, <3>1
  <2> HIDE DEF left, mine
  <2>3. left = {e.id : e \in mine}
    BY <2>1, <2>2
  <2> QED
    BY <2>3 DEF left, mine, IdsOn
<1>9. card.compliant <=> \A e \in M : e.host = card.host => e.status = "compliant"
  <2>1. ASSUME card.compliant, NEW e \in M, e.host = card.host PROVE e.status = "compliant"
    <3>1. PICK k \in DOMAIN ge : ge[k] = e
      BY <2>1, <1>1, <1>7
    <3>2. ge[k].status = "compliant"
      BY <2>1, <1>1
    <3> QED
      BY <3>1, <3>2
  <2>2. ASSUME \A e \in M : e.host = card.host => e.status = "compliant" PROVE card.compliant
    <3>1. \A k \in DOMAIN ge : ge[k].status = "compliant"
      BY <2>2, <1>1, <1>6
    <3> QED
      BY <3>1, <1>1
  <2> QED
    BY <2>1, <2>2
<1> QED
  BY <1>1, <1>5, <1>6, <1>8, <1>9 DEF ge

\* initEndpoints of report.js: for any report, filters and cap, the cards of
\* the hosts tell of every endpoint that matches, on the card of its host, once,
\* with the verdict of all of them, and the page says when it left hosts out.
THEOREM HostCardsTellAlways == Spec => []HostCardsTell
<1>1. ViewsInv => HostCardsTell
  <2> SUFFICES ASSUME ViewsInv PROVE HostCardsTell
    OBVIOUS
  <2>1. ModelOK(data) /\ hostView = renderHosts(data, hostView)
    BY ModelIsOK DEF ViewsInv
  <2>2. PICK M : M = MatchingEndpoints(data, hostView)
    OBVIOUS
  <2>3. PICK I : I = Matching(data, hostView)
    OBVIOUS
  <2>4. Cardinality(M) = Cardinality(I) /\ {e.host : e \in M} = HostsOf(data.endpoints, I)
    BY <2>1, <2>2, <2>3, MatchingIs
  <2>5. PICK visible :
          /\ IsList(visible) /\ Len(visible) <= HostCap
          /\ hostView.cards = [n \in DOMAIN visible |-> hostEndpointCard(visible[n])]
          /\ hostView.hosts = Len(visible) /\ hostView.endpoints = Cardinality(I)
          /\ hostView.capped = (Cardinality(HostsOf(data.endpoints, I)) > HostCap)
          /\ \A n, m \in DOMAIN visible : visible[n].host = visible[m].host => n = m
          /\ \A n \in DOMAIN visible :
               /\ IsFiniteSet(OnHost(data.endpoints, I, visible[n].host))
               /\ Picks(visible[n].endpoints, data.endpoints, OnHost(data.endpoints, I, visible[n].host))
    <3>1. PICK visible : DrawnFor(visible, hostView, data, hostView)
      BY <2>1, HostGroupsAre
    <3> QED
      BY <3>1, <2>3 DEF DrawnFor
  <2>6. ASSUME NEW n \in DOMAIN visible
        PROVE  /\ hostView.cards[n].host = visible[n].host
               /\ ToSet(hostView.cards[n].endpoints) = IdsOn(hostView.cards[n].host, M)
               /\ hostView.cards[n].compliant <=>
                    \A e \in M : e.host = hostView.cards[n].host => e.status = "compliant"
    <3>1. hostView.cards[n] = hostEndpointCard(visible[n])
      BY <2>5
    <3>2. /\ IsFiniteSet(OnHost(data.endpoints, Matching(data, hostView), visible[n].host))
          /\ Picks(visible[n].endpoints, data.endpoints,
                   OnHost(data.endpoints, Matching(data, hostView), visible[n].host))
      BY <2>3, <2>5
    <3>3. PICK card, g : card = hostView.cards[n] /\ g = visible[n]
      OBVIOUS
    <3>4. /\ card.host = g.host /\ ToSet(card.endpoints) = IdsOn(card.host, M)
          /\ card.compliant <=> \A e \in M : e.host = card.host => e.status = "compliant"
      BY <2>1, <2>2, <3>1, <3>2, <3>3, CardIs
    <3> QED
      BY <3>3, <3>4
  <2>7. DOMAIN hostView.cards = DOMAIN visible /\ Len(hostView.cards) = Len(visible)
    BY <2>5 DEF IsList
  <2>8. \A i \in DOMAIN hostView.cards : \A k \in DOMAIN hostView.cards :
          k # i => hostView.cards[k].host # hostView.cards[i].host
    BY <2>5, <2>6, <2>7
  <2>9. hostView.endpoints = Cardinality(M) /\ hostView.hosts = Len(hostView.cards)
        /\ Len(hostView.cards) <= HostCap
    BY <2>4, <2>5, <2>7
  <2>10. hostView.capped <=> Cardinality({e.host : e \in M}) > HostCap
    BY <2>4, <2>5
  <2> QED
    BY <2>2, <2>6, <2>7, <2>8, <2>9, <2>10 DEF HostCardsTell, MatchingEndpoints, IdsOn
<1> QED
  BY <1>1, ViewsInvAlways, PTL
-----------------------------------------------------------------------------
(* The statistics. *)

\* A finding that an endpoint has is among the findings of the report.
LEMMA EveryFindingGrouped ==
  ASSUME NEW obs, ObservationsOK(obs), NEW G, G = GroupedFindings(obs)
  PROVE  /\ IsList(G)
         /\ \A i, j \in DOMAIN G : G[i] = G[j] => i = j
         /\ \A i \in DOMAIN G :
              /\ G[i].id \in DOMAIN FindingDefinitions
              /\ G[i].severity = SeverityOf(G[i].id) /\ G[i].severity \in ToSet(severities)
              /\ G[i] = Finding(G[i].id, obs)
         /\ \A k \in DOMAIN obs : \A f \in FindingIds(obs[k]) : \E i \in DOMAIN G : G[i].id = f
<1>1. /\ IsList(G)
      /\ \A i \in DOMAIN G : G[i].id \in FoundIn(obs) /\ G[i] = Finding(G[i].id, obs)
      /\ \A f \in FoundIn(obs) : \E i \in DOMAIN G : G[i].id = f
      /\ \A i, j \in DOMAIN G : G[i].id = G[j].id => i = j
  BY FindingsAre
<1>2. FoundIn(obs) \subseteq DOMAIN FindingDefinitions
  BY DEF FoundIn, ObservationsOK
<1>3. ASSUME NEW i \in DOMAIN G
      PROVE  /\ G[i].id \in DOMAIN FindingDefinitions
             /\ G[i].severity = SeverityOf(G[i].id) /\ G[i].severity \in ToSet(severities)
             /\ G[i] = Finding(G[i].id, obs)
  <2>1. G[i].id \in DOMAIN FindingDefinitions /\ G[i] = Finding(G[i].id, obs)
    BY <1>1, <1>2
  <2>2. PICK f : f = G[i].id
    OBVIOUS
  <2>3. G[i].severity = SeverityOf(f)
    BY <2>1, <2>2 DEF Finding
  <2>4. SeverityOf(f) \in ToSet(severities)
    BY <2>1, <2>2, ReportsAssumption DEF SeverityOf
  <2> QED
    BY <2>1, <2>2, <2>3, <2>4
<1>4. ASSUME NEW k \in DOMAIN obs, NEW f \in FindingIds(obs[k]) PROVE \E i \in DOMAIN G : G[i].id = f
  <2>1. f \in FoundIn(obs)
    BY DEF FoundIn
  <2> QED
    BY <2>1, <1>1
<1> QED
  BY <1>1, <1>3, <1>4

\* As many places as elements.
LEMMA ListCount == ASSUME NEW G, IsList(G) PROVE Cardinality(DOMAIN G) = Len(G)
<1>1. PICK n \in Nat : n = Len(G) /\ DOMAIN G = 1..n
  BY DEF IsList
<1>2. Cardinality(1..n) = n
  BY FS_Interval
<1> QED
  BY <1>1, <1>2

\* The findings of one level; those of the report are as many as it lists.
LEMMA FindingSets ==
  ASSUME NEW G, IsList(G), \A i, j \in DOMAIN G : G[i] = G[j] => i = j
  PROVE  /\ IsFiniteSet(ToSet(G)) /\ Cardinality(ToSet(G)) = Len(G)
         /\ \A level : IsFiniteSet(FindingsOf(G, level)) /\ Cardinality(FindingsOf(G, level)) \in Nat
<1>1. IsFiniteSet(DOMAIN G)
  BY ListFinite
<1>2. ToSet(G) = ValuesOf(G, DOMAIN G)
  BY DEF ToSet, ValuesOf
<1>3. IsFiniteSet(ToSet(G)) /\ Cardinality(ToSet(G)) = Cardinality(DOMAIN G)
  BY <1>1, <1>2, AsMany
<1>4. Cardinality(DOMAIN G) = Len(G)
  BY ListCount
<1>5. ASSUME NEW level PROVE IsFiniteSet(FindingsOf(G, level)) /\ Cardinality(FindingsOf(G, level)) \in Nat
  <2>1. FindingsOf(G, level) \in SUBSET ToSet(G)
    BY DEF FindingsOf
  <2> QED
    BY <2>1, <1>3, FS_Subset, FS_CardinalityType
<1> QED
  BY <1>3, <1>4, <1>5

\* How many of a list have some property: a number, and none have it if it is 0.
LEMMA CountedNumbers ==
  ASSUME NEW seq, IsList(seq), NEW I, I \in SUBSET (DOMAIN seq)
  PROVE  IsFiniteSet(I) /\ Cardinality(I) \in Nat /\ (Cardinality(I) = 0 => I = {})
<1>1. IsFiniteSet(I)
  BY ListFinite, FS_Subset
<1> QED
  BY <1>1, FS_CardinalityType, NoneCounted

WithStatus(es, status) == {i \in DOMAIN es : es[i].status = status}
Erring(es) == {i \in DOMAIN es : es[i].status = "error" \/ es[i].errors}

LEMMA StatisticsAre ==
  ASSUME NEW scan \in Reports, NEW obs, obs = rows_by_endpoint(scan), NEW d, d = build_report_model(scan), NEW s, s = d.statistics
  PROVE  /\ s.compliant = Cardinality(WithStatus(d.endpoints, "compliant"))
         /\ s.non_compliant = Cardinality(WithStatus(d.endpoints, "non_compliant"))
         /\ s.not_tested = Cardinality(WithStatus(d.endpoints, "not_tested"))
         /\ s.with_errors = Cardinality(Erring(d.endpoints))
         /\ s.critical = Cardinality(FindingsOf(d.findings, "critical"))
         /\ s.high = Cardinality(FindingsOf(d.findings, "high"))
         /\ \A l \in ToSet(severities) : s.by_severity[l].unique = Cardinality(FindingsOf(d.findings, l))
<1>1. s = build_statistics(d.endpoints, d.findings, obs)
  BY ModelIs
<1>2. \A value : With(d.endpoints, "status", value) = Cardinality(WithStatus(d.endpoints, value))
  BY DEF With, Among, WithStatus
<1>3. /\ s.compliant = With(d.endpoints, "status", "compliant")
      /\ s.non_compliant = With(d.endpoints, "status", "non_compliant")
      /\ s.not_tested = With(d.endpoints, "status", "not_tested")
      /\ s.critical = Cardinality(FindingsOf(d.findings, "critical"))
      /\ s.high = Cardinality(FindingsOf(d.findings, "high"))
      /\ s.by_severity = [l \in ToSet(severities) |->
                      [unique |-> Cardinality(FindingsOf(d.findings, l)),
                       occurrences |-> OccurrencesOf(FindingsOf(d.findings, l), obs)]]
  BY <1>1 DEF build_statistics
<1>4. s.with_errors = Cardinality(Erring(d.endpoints))
  BY <1>1 DEF build_statistics, Among, Erring
<1>5. \A l \in ToSet(severities) : s.by_severity[l].unique = Cardinality(FindingsOf(d.findings, l))
  BY <1>3
<1> QED
  BY <1>2, <1>3, <1>4, <1>5

\* The bar of the severities adds up to the findings.
UniqueOf(bar) == [i \in DOMAIN bar |-> bar[i].unique]

LEMMA BarAddsUp ==
  ASSUME NEW G, IsList(G), \A i, j \in DOMAIN G : G[i] = G[j] => i = j,
         \A i \in DOMAIN G : G[i].severity \in ToSet(severities),
         NEW s, \A l \in ToSet(severities) : s.by_severity[l].unique = Cardinality(FindingsOf(G, l))
  PROVE  Total(UniqueOf(initSeveritySummary(s))) = Len(G)
<1> DEFINE I == {i \in DOMAIN severities : s.by_severity[severities[i]].unique > 0}
           levels == Chosen(severities, I)
           bar == initSeveritySummary(s)
           f == UniqueOf(bar)
           class == [g \in ToSet(G) |-> CHOOSE i \in DOMAIN levels : levels[i] = g.severity]
<1>1. DOMAIN severities = 1..5 /\ \A i, j \in DOMAIN severities : severities[i] = severities[j] => i = j
  BY DEF severities
<1>2. bar = [i \in DOMAIN levels |-> [level |-> levels[i], unique |-> s.by_severity[levels[i]].unique]]
  BY DEF initSeveritySummary
<1>3. I \in SUBSET (DOMAIN severities) /\ I \in SUBSET Int /\ IsFiniteSet(I)
  <2>1. I \in SUBSET (DOMAIN severities)
    OBVIOUS
  <2>2. 1..5 \in SUBSET Int
    OBVIOUS
  <2>3. IsFiniteSet(1..5)
    BY FS_Interval, 1 \in Int, 5 \in Int
  <2> HIDE DEF I
  <2> QED
    BY <1>1, <2>1, <2>2, <2>3, FS_Subset
<1>4. Picks(levels, severities, I)
  <2> HIDE DEF I
  <2> QED
    BY <1>3, ChosenPicks
<1>5. ASSUME NEW g \in ToSet(G)
      PROVE  \E i \in I : severities[i] = g.severity
  <2>1. PICK i \in DOMAIN severities : severities[i] = g.severity
    BY DEF ToSet
  <2>2. g \in FindingsOf(G, g.severity)
    BY DEF FindingsOf
  <2>3. Cardinality(FindingsOf(G, g.severity)) > 0
    <3>1. IsFiniteSet(FindingsOf(G, g.severity)) /\ Cardinality(FindingsOf(G, g.severity)) \in Nat
      BY FindingSets
    <3>2. Cardinality(FindingsOf(G, g.severity)) # 0
      BY <2>2, <3>1, NoneCounted
    <3> QED
      BY <3>1, <3>2
  <2>4. g.severity \in ToSet(severities)
    BY <2>1 DEF ToSet
  <2> QED
    BY <2>1, <2>3, <2>4
<1> HIDE DEF I, bar, levels
<1>6. /\ \A k \in DOMAIN levels : \E i \in I : levels[k] = severities[i]
      /\ \A i \in I : \E k \in DOMAIN levels : levels[k] = severities[i]
      /\ \A k, l \in DOMAIN levels : levels[k] = levels[l] => k = l
  <2>1. /\ \A k \in DOMAIN levels : \E i \in I : levels[k] = severities[i]
        /\ \A i \in I : \E k \in DOMAIN levels : levels[k] = severities[i]
    BY <1>3, <1>4, PicksIs
  <2>2. \A i, j \in I : severities[i] = severities[j] => i = j
    BY <1>1, <1>3
  <2>3. \A k, l \in DOMAIN levels : levels[k] = levels[l] => k = l
    BY <1>4, <2>2, PicksDiffer
  <2> QED
    BY <2>1, <2>3
<1>7. ASSUME NEW g \in ToSet(G) PROVE class[g] \in DOMAIN levels /\ levels[class[g]] = g.severity
  <2>1. \E k \in DOMAIN levels : levels[k] = g.severity
    BY <1>5, <1>6
  <2>2. class[g] = CHOOSE i \in DOMAIN levels : levels[i] = g.severity
    OBVIOUS
  <2> HIDE DEF class
  <2> QED
    BY <2>1, <2>2
<1> HIDE DEF class
<1>8. DOMAIN f = DOMAIN levels /\ \A x \in DOMAIN f : f[x] = s.by_severity[levels[x]].unique
  BY <1>2 DEF UniqueOf
<1>9. ASSUME NEW x \in DOMAIN f PROVE f[x] = Cardinality(Part(ToSet(G), class, x))
  <2>1. levels[x] \in ToSet(severities)
    BY <1>3, <1>6, <1>8 DEF ToSet
  <2>2. f[x] = Cardinality(FindingsOf(G, levels[x]))
    BY <1>8, <2>1
  <2>3. \A g \in ToSet(G) : class[g] = x <=> g.severity = levels[x]
    BY <1>6, <1>7, <1>8
  <2>4. Part(ToSet(G), class, x) = FindingsOf(G, levels[x])
    BY <2>3 DEF Part, FindingsOf
  <2> QED
    BY <2>2, <2>4
<1> HIDE DEF f
<1>10. IsFiniteSet(ToSet(G)) /\ Cardinality(ToSet(G)) = Len(G)
  BY FindingSets
<1>11. \A g \in ToSet(G) : class[g] \in DOMAIN f
  BY <1>7, <1>8
<1>12. Total(f) = Cardinality(ToSet(G))
  BY <1>9, <1>10, <1>11, TotalOfParts
<1> QED
  BY <1>10, <1>12 DEF f, bar

\* The cards without a filter: what they are of.
CardsOf(view, shown, findings) ==
  /\ Picks(shown, findings, DOMAIN findings) /\ view.count = Len(shown)
  /\ view.cards = [k \in DOMAIN shown |-> findingCard(shown[k])]

LEMMA CardsWithoutFilter ==
  ASSUME NEW d, IsList(d.findings)
  PROVE  \E shown : CardsOf(renderFindings(d, "", "all"), shown, d.findings)
<1> DEFINE v == [q |-> "", severity |-> "all"]
           matching == {i \in DOMAIN d.findings : FindingMatches(d.findings[i], v)}
           shown == OrderBy(d.findings, matching, ByRisk(d.findings))
           cards == [i \in DOMAIN shown |-> findingCard(shown[i])]
           view == renderFindings(d, "", "all")
<1>1. matching = DOMAIN d.findings
  BY DEF FindingMatches
<1>2. view = [q |-> "", severity |-> "all", cards |-> cards, count |-> Len(shown)]
  BY DEF renderFindings
<1> HIDE DEF matching, v, cards, view
<1>3. Picks(shown, d.findings, DOMAIN d.findings)
  <2>1. shown = OrderBy(d.findings, DOMAIN d.findings, ByRisk(d.findings))
    BY <1>1
  <2>2. DOMAIN d.findings \in SUBSET Int /\ IsFiniteSet(DOMAIN d.findings)
    BY ListFinite
  <2> HIDE DEF shown
  <2> QED
    BY <2>1, <2>2, OrderPicks
<1> HIDE DEF shown
<1>4. view.count = Len(shown) /\ view.cards = cards
  BY <1>2
<1>5. CardsOf(view, shown, d.findings)
  BY <1>3, <1>4 DEF CardsOf, cards
<1> QED
  BY <1>5 DEF view

\* As many cards of a high risk as findings of it.
HighOf(seq) == {i \in DOMAIN seq : seq[i].severity \in {"critical", "high"}}

LEMMA HighCards ==
  ASSUME NEW G, IsList(G), \A i, j \in DOMAIN G : G[i] = G[j] => i = j,
         NEW shown, Picks(shown, G, DOMAIN G),
         NEW cards, cards = [k \in DOMAIN shown |-> findingCard(shown[k])]
  PROVE  Cardinality(HighOf(cards)) =
           Cardinality(FindingsOf(G, "high")) + Cardinality(FindingsOf(G, "critical"))
<1> DEFINE A == FindingsOf(G, "high")
           B == FindingsOf(G, "critical")
<1>1. IsFiniteSet(DOMAIN G)
  BY ListFinite
<1>2. /\ IsList(shown)
      /\ \A k \in DOMAIN shown : \E i \in DOMAIN G : shown[k] = G[i]
      /\ \A i \in DOMAIN G : \E k \in DOMAIN shown : shown[k] = G[i]
  BY <1>1, PicksIs
<1>3. \A k, l \in DOMAIN shown : shown[k] = shown[l] => k = l
  BY PicksDiffer
<1>4. DOMAIN cards = DOMAIN shown /\ \A k \in DOMAIN cards : cards[k].severity = shown[k].severity
  BY DEF findingCard
<1>5. HighOf(cards) = HighOf(shown)
  BY <1>4 DEF HighOf
<1>6. HighOf(shown) \in SUBSET (DOMAIN shown)
  BY DEF HighOf
<1>7. IsFiniteSet(HighOf(shown))
  BY <1>2, <1>6, CountedNumbers
<1>8. \A k, l \in HighOf(shown) : shown[k] = shown[l] => k = l
  BY <1>3, <1>6
<1>9. Cardinality(ValuesOf(shown, HighOf(shown))) = Cardinality(HighOf(shown))
  BY <1>7, <1>8, AsMany
<1>10. ValuesOf(shown, HighOf(shown)) = A \cup B
  <2>1. ASSUME NEW g \in ValuesOf(shown, HighOf(shown)) PROVE g \in A \cup B
    <3>1. PICK k \in DOMAIN shown : g = shown[k] /\ g.severity \in {"critical", "high"}
      BY DEF ValuesOf, HighOf
    <3>2. g \in ToSet(G)
      BY <3>1, <1>2 DEF ToSet
    <3> QED
      BY <3>1, <3>2 DEF FindingsOf
  <2>2. ASSUME NEW g \in A \cup B PROVE g \in ValuesOf(shown, HighOf(shown))
    <3>1. g \in ToSet(G) /\ g.severity \in {"critical", "high"}
      BY DEF FindingsOf
    <3>2. PICK i \in DOMAIN G : g = G[i]
      BY <3>1 DEF ToSet
    <3>3. PICK k \in DOMAIN shown : shown[k] = g
      BY <3>2, <1>2
    <3> QED
      BY <3>1, <3>3 DEF ValuesOf, HighOf
  <2> QED
    BY <2>1, <2>2
<1>11. A \cap B = {}
  BY DEF FindingsOf
<1>12. /\ IsFiniteSet(A) /\ Cardinality(A) \in Nat
       /\ IsFiniteSet(B) /\ Cardinality(B) \in Nat
  BY FindingSets
<1> HIDE DEF A, B
<1>13. Cardinality(A \cup B) = Cardinality(A) + Cardinality(B)
  BY <1>11, <1>12, FS_Union, FS_EmptySet
<1> QED
  BY <1>5, <1>9, <1>10, <1>13 DEF A, B

\* A card counts the endpoints that have its finding.
Having(es, f) == {i \in DOMAIN es : f \in es[i].findings}

LEMMA ImpactedAre ==
  ASSUME NEW scan \in Reports, NEW obs, obs = rows_by_endpoint(scan), NEW d, d = build_report_model(scan), NEW i \in DOMAIN d.findings
  PROVE  Cardinality(d.findings[i].affected) = Cardinality(Having(d.endpoints, d.findings[i].id))
<1>1. /\ IsList(d.endpoints) /\ DOMAIN d.endpoints = DOMAIN obs
      /\ \A k \in DOMAIN d.endpoints : d.endpoints[k] = EndpointReport(obs[k])
      /\ d.findings = GroupedFindings(obs) /\ ObservationsOK(obs)
  BY ModelIs
<1>2. PICK f : f = d.findings[i].id
  OBVIOUS
<1>3. d.findings[i] = Finding(f, obs)
  BY <1>1, <1>2, EveryFindingGrouped
<1> DEFINE I == Having(d.endpoints, f)
           idOf == [k \in DOMAIN obs |-> obs[k].id]
<1>4. ASSUME NEW k \in DOMAIN obs PROVE d.endpoints[k].findings = FindingIds(obs[k])
  <2>1. d.endpoints[k] = EndpointReport(obs[k])
    BY <1>1
  <2> QED
    BY <2>1 DEF EndpointReport
<1>5. I = {k \in DOMAIN obs : f \in FindingIds(obs[k])}
  BY <1>1, <1>4 DEF Having
<1>6. d.findings[i].affected = {obs[k].id : k \in I}
  BY <1>3, <1>5 DEF Finding
<1>7. d.findings[i].affected = ValuesOf(idOf, I)
  BY <1>5, <1>6 DEF ValuesOf
<1>8. I \in SUBSET (DOMAIN d.endpoints)
  BY DEF Having
<1>9. \A k, l \in I : idOf[k] = idOf[l] => k = l
  BY <1>1, <1>5 DEF ObservationsOK
<1> HIDE DEF I, idOf
<1>10. IsFiniteSet(I)
  BY <1>1, <1>8, CountedNumbers
<1>11. Cardinality(ValuesOf(idOf, I)) = Cardinality(I)
  BY <1>9, <1>10, AsMany
<1> QED
  BY <1>2, <1>7, <1>11 DEF I

\* The posture is that of the statistics.
LEMMA PostureIs ==
  ASSUME NEW s, s.critical \in Nat, s.high \in Nat, s.non_compliant \in Nat,
         s.with_errors \in Nat, s.not_tested \in Nat
  PROVE  /\ postureTone(s) = "high-risk" <=> s.high + s.critical > 0 \/ s.non_compliant > 0
         /\ postureTone(s) = "strong" => /\ s.critical = 0 /\ s.high = 0 /\ s.non_compliant = 0
                                         /\ s.with_errors = 0 /\ s.not_tested = 0
<1>1. CASE s.critical + s.high + s.non_compliant > 0
  <2>1. postureTone(s) = "high-risk"
    BY <1>1 DEF postureTone
  <2> QED
    BY <1>1, <2>1
<1>2. CASE ~ s.critical + s.high + s.non_compliant > 0 /\ s.with_errors + s.not_tested > 0
  <2>1. s.critical + s.high + s.non_compliant = 0
    BY <1>2
  <2>2. postureTone(s) = "needs-attention"
    BY <1>2, <2>1 DEF postureTone
  <2> QED
    BY <2>1, <2>2
<1>3. CASE ~ s.critical + s.high + s.non_compliant > 0 /\ ~ s.with_errors + s.not_tested > 0
  <2>1. postureTone(s) = "strong"
    BY <1>3 DEF postureTone
  <2> QED
    BY <1>3, <2>1
<1> QED
  BY <1>1, <1>2, <1>3

LEMMA StatisticsNumbers ==
  ASSUME NEW scan \in Reports, NEW obs, obs = rows_by_endpoint(scan), NEW d, d = build_report_model(scan), NEW s, s = d.statistics
  PROVE  /\ s.critical \in Nat /\ s.high \in Nat /\ s.non_compliant \in Nat
         /\ s.with_errors \in Nat /\ s.not_tested \in Nat
         /\ s.critical = 0 => FindingsOf(d.findings, "critical") = {}
         /\ s.high = 0 => FindingsOf(d.findings, "high") = {}
         /\ s.non_compliant = 0 <=> WithStatus(d.endpoints, "non_compliant") = {}
         /\ s.not_tested = 0 => WithStatus(d.endpoints, "not_tested") = {}
         /\ s.with_errors = 0 => Erring(d.endpoints) = {}
<1>1. /\ s.non_compliant = Cardinality(WithStatus(d.endpoints, "non_compliant"))
      /\ s.not_tested = Cardinality(WithStatus(d.endpoints, "not_tested"))
      /\ s.with_errors = Cardinality(Erring(d.endpoints))
      /\ s.critical = Cardinality(FindingsOf(d.findings, "critical"))
      /\ s.high = Cardinality(FindingsOf(d.findings, "high"))
  BY StatisticsAre
<1>2. IsList(d.endpoints) /\ d.findings = GroupedFindings(obs) /\ ObservationsOK(obs)
  BY ModelIs
<1>3. IsList(d.findings) /\ \A i, j \in DOMAIN d.findings : d.findings[i] = d.findings[j] => i = j
  BY <1>2, EveryFindingGrouped
<1>4. \A level : IsFiniteSet(FindingsOf(d.findings, level)) /\ Cardinality(FindingsOf(d.findings, level)) \in Nat
  BY <1>3, FindingSets
<1>5. ASSUME NEW I, I \in SUBSET (DOMAIN d.endpoints)
      PROVE  Cardinality(I) \in Nat /\ (Cardinality(I) = 0 <=> I = {})
  <2>1. Cardinality(I) \in Nat /\ (Cardinality(I) = 0 => I = {})
    BY <1>2, <1>5, CountedNumbers
  <2>2. Cardinality({}) = 0
    BY FS_EmptySet
  <2> QED
    BY <2>1, <2>2
<1>6. /\ WithStatus(d.endpoints, "non_compliant") \in SUBSET (DOMAIN d.endpoints)
      /\ WithStatus(d.endpoints, "not_tested") \in SUBSET (DOMAIN d.endpoints)
      /\ Erring(d.endpoints) \in SUBSET (DOMAIN d.endpoints)
  BY DEF WithStatus, Erring
<1>7. s.non_compliant \in Nat /\ s.not_tested \in Nat /\ s.with_errors \in Nat
  BY <1>1, <1>5, <1>6
<1>8. s.critical \in Nat /\ s.high \in Nat
  BY <1>1, <1>4
<1>9. /\ s.critical = 0 => FindingsOf(d.findings, "critical") = {}
      /\ s.high = 0 => FindingsOf(d.findings, "high") = {}
  BY <1>1, <1>4, NoneCounted
<1>10. /\ s.non_compliant = 0 <=> WithStatus(d.endpoints, "non_compliant") = {}
       /\ s.not_tested = 0 => WithStatus(d.endpoints, "not_tested") = {}
       /\ s.with_errors = 0 => Erring(d.endpoints) = {}
  BY <1>1, <1>5, <1>6
<1> QED
  BY <1>7, <1>8, <1>9, <1>10

\* Of a strong report every endpoint is compliant.
LEMMA StrongEndpoints ==
  ASSUME NEW scan \in Reports, NEW obs, obs = rows_by_endpoint(scan), NEW d, d = build_report_model(scan),
         WithStatus(d.endpoints, "non_compliant") = {}, WithStatus(d.endpoints, "not_tested") = {},
         Erring(d.endpoints) = {}, NEW i \in DOMAIN d.endpoints
  PROVE  d.endpoints[i].status = "compliant"
<1>1. /\ DOMAIN d.endpoints = DOMAIN obs /\ d.endpoints[i] = EndpointReport(obs[i]) /\ ObservationsOK(obs)
  BY ModelIs
<1>2. PICK status : status = d.endpoints[i].status
  OBVIOUS
<1>3. PICK verdicts : status = endpoint_status(verdicts)
  <2>1. d.endpoints[i].status = endpoint_status({obs[i].suites[k].verdict : k \in DOMAIN obs[i].suites})
    BY <1>1 DEF EndpointReport
  <2> QED
    BY <1>2, <2>1
<1>4. status \in {"error", "non_compliant", "compliant", "not_tested"}
  BY <1>3 DEF endpoint_status
<1>5. status # "non_compliant" /\ status # "not_tested" /\ status # "error"
  BY <1>2 DEF WithStatus, Erring
<1> QED
  BY <1>2, <1>4, <1>5

\* Where no finding of a level is listed, no endpoint has one.
LEMMA NoneAtLevel ==
  ASSUME NEW scan \in Reports, NEW obs, obs = rows_by_endpoint(scan), NEW d, d = build_report_model(scan), NEW level,
         FindingsOf(d.findings, level) = {}, NEW e \in ToSet(d.endpoints)
  PROVE  AtLevel(e, level) = 0
<1>1. /\ DOMAIN d.endpoints = DOMAIN obs
      /\ \A i \in DOMAIN d.endpoints : d.endpoints[i] = EndpointReport(obs[i])
      /\ d.findings = GroupedFindings(obs) /\ ObservationsOK(obs)
  BY ModelIs
<1>2. PICK i \in DOMAIN obs : e = EndpointReport(obs[i])
  BY <1>1 DEF ToSet
<1>3. e.findings = FindingIds(obs[i])
  BY <1>2 DEF EndpointReport
<1>4. {f \in e.findings : SeverityOf(f) = level} = {}
  <2> SUFFICES ASSUME NEW f \in e.findings, SeverityOf(f) = level PROVE FALSE
    OBVIOUS
  <2>1. PICK k \in DOMAIN d.findings : d.findings[k].id = f
    BY <1>1, <1>3, EveryFindingGrouped
  <2>2. d.findings[k].severity = SeverityOf(d.findings[k].id)
    BY <1>1, EveryFindingGrouped
  <2>3. d.findings[k] \in FindingsOf(d.findings, level)
    BY <2>1, <2>2 DEF FindingsOf, ToSet
  <2> QED
    BY <2>3
<1> QED
  BY <1>4, FS_EmptySet DEF AtLevel

LEMMA NoneRaised ==
  ASSUME NEW es, NEW level, \A k \in DOMAIN es : AtLevel(es[k], level) = 0
  PROVE  RaisedAt(es, level) = 0
<1> DEFINE f == [k \in DOMAIN es |-> AtLevel(es[k], level)]
<1>1. RaisedAt(es, level) = Total(f) /\ \A k \in DOMAIN f : f[k] = 0
  BY DEF RaisedAt
<1> HIDE DEF f
<1> QED
  BY <1>1, TotalOfZeros
-----------------------------------------------------------------------------
(* The exposure. *)

\* The severity of an endpoint is that of one of its findings.
LEMMA HighestIs ==
  ASSUME NEW ids \in SUBSET (DOMAIN FindingDefinitions), ids # {}
  PROVE  \E f \in ids : SeverityOf(f) = HighestSeverity(ids)
<1> DEFINE S == {SeverityOf(f) : f \in ids}
           J == {severityOrder[x] : x \in S}
           best == CHOOSE x \in S : \A f \in ids : severityOrder[x] <= severityOrder[SeverityOf(f)]
<1>1. \A f \in ids : SeverityOf(f) \in ToSet(severities) /\ severityOrder[SeverityOf(f)] \in Int
  BY SeverityOrderInt, ReportsAssumption DEF SeverityOf
<1>2. J \in SUBSET Int /\ J # {}
  BY <1>1
<1>3. IsFiniteSet(J)
  <2>1. IsFiniteSet(ids)
    BY ReportsAssumption, FS_Subset
  <2> DEFINE g == [f \in ids |-> severityOrder[SeverityOf(f)]]
  <2>2. g \in Surjection(ids, J)
    BY DEF Surjection
  <2> HIDE DEF g, J
  <2> QED
    BY <2>1, <2>2, FS_Surjection
<1>4. PICK j \in J : \A k \in J : j <= k
  <2> HIDE DEF J
  <2> QED
    BY <1>2, <1>3, LeastPlace
<1>5. PICK x \in S : severityOrder[x] = j
  OBVIOUS
<1>6. \A f \in ids : severityOrder[x] <= severityOrder[SeverityOf(f)]
  BY <1>4, <1>5
<1>7. HighestSeverity(ids) = best
  BY DEF HighestSeverity
<1>8. best \in S
  BY <1>6
<1> HIDE DEF best
<1> QED
  BY <1>7, <1>8

LEMMA ExposureIs ==
  ASSUME NEW e, IsFiniteSet(e.findings)
  PROVE  /\ Exposure(e) \in Nat
         /\ \A f \in e.findings : SeverityOf(f) \in {"critical", "high", "medium", "low"} => Exposure(e) > 0
<1>1. ASSUME NEW level PROVE AtLevel(e, level) \in Nat /\ \A f \in e.findings : SeverityOf(f) = level => AtLevel(e, level) > 0
  <2> DEFINE S == {f \in e.findings : SeverityOf(f) = level}
  <2>1. S \in SUBSET e.findings
    OBVIOUS
  <2>2. AtLevel(e, level) = Cardinality(S)
    BY DEF AtLevel
  <2>3. \A f \in e.findings : SeverityOf(f) = level => S # {}
    OBVIOUS
  <2> HIDE DEF S
  <2>4. IsFiniteSet(S)
    BY <2>1, FS_Subset
  <2>5. Cardinality(S) \in Nat /\ (S # {} => Cardinality(S) # 0)
    BY <2>4, FS_CardinalityType, NoneCounted
  <2> QED
    BY <2>2, <2>3, <2>5
<1>2. PICK a \in Nat, b \in Nat, c \in Nat, l \in Nat :
        /\ a = AtLevel(e, "critical") /\ b = AtLevel(e, "high")
        /\ c = AtLevel(e, "medium") /\ l = AtLevel(e, "low")
  BY <1>1
<1>3. Exposure(e) = 100 * a + 10 * b + 3 * c + l
  BY <1>2 DEF Exposure
<1>4. Exposure(e) \in Nat
  BY <1>3
<1>5. ASSUME NEW f \in e.findings, SeverityOf(f) \in {"critical", "high", "medium", "low"} PROVE Exposure(e) > 0
  <2>1. a > 0 \/ b > 0 \/ c > 0 \/ l > 0
    BY <1>1, <1>2, <1>5
  <2> QED
    BY <2>1, <1>3
<1> QED
  BY <1>4, <1>5

\* An endpoint that is left out of the exposure is no worse than those in it.
LEMMA ExposureOrdered ==
  ASSUME NEW d, ModelOK(d), \A i \in DOMAIN d.endpoints : IsFiniteSet(d.endpoints[i].findings),
         NEW m \in DOMAIN d.endpoints, d.endpoints[m].id \notin ToSet(initExposure(d))
  PROVE  /\ \A i \in DOMAIN initExposure(d) :
              Exposure(Endpoint(d, initExposure(d)[i])) >= Exposure(d.endpoints[m])
         /\ Len(initExposure(d)) < ExposureCap => Exposure(d.endpoints[m]) = 0
<1> DEFINE es == d.endpoints
           I == Exposed(d)
           after == LessExposed(d)
           at == Sorted(I, after)
           o == OrderBy(es, I, after)
           best == First(o, ExposureCap)
           x == initExposure(d)
           key == [i \in DOMAIN es |-> 0 - Exposure(es[i])]
<1>1. x = [i \in DOMAIN best |-> best[i].id]
  BY DEF initExposure, Ids
<1>2. \A i \in DOMAIN es : Exposure(es[i]) \in Nat
  BY ExposureIs
<1>3. I = {i \in DOMAIN es : Exposure(es[i]) > 0}
  BY DEF Exposed
<1>4. I \in SUBSET (DOMAIN es) /\ I \in SUBSET Int /\ IsFiniteSet(I)
  <2>1. I \in SUBSET (DOMAIN es)
    BY <1>3
  <2>2. IsFiniteSet(DOMAIN es) /\ DOMAIN es \in SUBSET Int
    BY ListFinite DEF ModelOK
  <2> HIDE DEF I, es
  <2> QED
    BY <2>1, <2>2, FS_Subset
<1>5. \A i, j \in I : <<i, j>> \in after <=> key[i] > key[j]
  <2> SUFFICES ASSUME NEW i \in I, NEW j \in I PROVE <<i, j>> \in after <=> key[i] > key[j]
    OBVIOUS
  <2>1. i \in DOMAIN es /\ j \in DOMAIN es
    BY <1>4
  <2>2. <<i, j>> \in after <=> Exposure(es[j]) - Exposure(es[i]) > 0
    BY <2>1 DEF LessExposed, After
  <2>3. Exposure(es[j]) \in Nat /\ Exposure(es[i]) \in Nat
    BY <2>1, <1>2
  <2>4. key[i] = 0 - Exposure(es[i]) /\ key[j] = 0 - Exposure(es[j])
    BY <2>1
  <2> HIDE DEF I, es, after, key
  <2> QED
    BY <2>2, <2>3, <2>4
<1>6. \A i \in I : key[i] \in Int
  BY <1>2, <1>4
<1>7. \A i \in DOMAIN es : key[i] = 0 - Exposure(es[i])
  OBVIOUS
<1>8. x = initExposure(d) /\ es = d.endpoints
  OBVIOUS
<1> HIDE DEF es, I, after, x, key
<1>9. IsList(o) /\ Len(o) = Cardinality(I) /\ o = Take(es, at) /\ at \in Bijection(1..Cardinality(I), I)
  BY <1>4, OrderByIs
<1>10. \A k, l \in 1..Cardinality(I) : k < l => key[at[k]] <= key[at[l]]
  BY <1>4, <1>5, <1>6, SortedByKey
<1> HIDE DEF at, o
<1>11. DOMAIN o = 1..Cardinality(I) /\ \A k \in DOMAIN o : o[k] = es[at[k]] /\ at[k] \in I
  BY <1>9 DEF Take, Bijection, Injection
<1>12. ExposureCap \in Nat
  BY ReportsAssumption
<1>13. /\ IsList(best) /\ Len(best) = (IF Len(o) < ExposureCap THEN Len(o) ELSE ExposureCap)
       /\ \A k \in DOMAIN best : k \in DOMAIN o /\ best[k] = o[k]
  BY <1>9, <1>12, FirstIs
<1>14. DOMAIN best = 1..Len(best) /\ Len(best) \in Nat
  BY <1>13 DEF IsList
<1> HIDE DEF best
<1>15. DOMAIN x = DOMAIN best /\ Len(x) = Len(best) /\ \A k \in DOMAIN x : x[k] = es[at[k]].id
  BY <1>1, <1>11, <1>13, <1>14
<1>16. ASSUME m \in I PROVE \E l \in 1..Cardinality(I) : at[l] = m /\ l > Len(best)
  <2>1. PICK l \in 1..Cardinality(I) : at[l] = m
    BY <1>9, <1>16 DEF Bijection, Surjection
  <2>2. l \notin DOMAIN x
    <3>1. ASSUME l \in DOMAIN x PROVE es[m].id \in ToSet(x)
      BY <3>1, <2>1, <1>15 DEF ToSet
    <3> QED
      BY <3>1, <1>8
  <2>3. l > Len(best)
    BY <2>2, <1>14, <1>15
  <2> QED
    BY <2>1, <2>3
<1>17. ASSUME NEW i \in DOMAIN x PROVE Exposure(Endpoint(d, x[i])) >= Exposure(es[m])
  <2>1. i \in 1..Cardinality(I) /\ at[i] \in I /\ at[i] \in DOMAIN es /\ x[i] = es[at[i]].id
    BY <1>4, <1>11, <1>13, <1>15
  <2>2. Endpoint(d, x[i]) = es[at[i]]
    BY <2>1, <1>8, EndpointOf
  <2>3. m \in DOMAIN es
    BY <1>8
  <2>4. Exposure(es[at[i]]) \in Nat /\ Exposure(es[m]) \in Nat
    BY <2>1, <2>3, <1>2
  <2>5. CASE m \in I
    <3>1. PICK l \in 1..Cardinality(I) : at[l] = m /\ l > Len(best)
      BY <2>5, <1>16
    <3>2. i < l
      BY <3>1, <1>14, <1>15
    <3>3. key[at[i]] <= key[m]
      BY <2>1, <3>1, <3>2, <1>10
    <3>4. key[at[i]] = 0 - Exposure(es[at[i]]) /\ key[m] = 0 - Exposure(es[m])
      BY <2>1, <2>3, <1>7
    <3> QED
      BY <2>2, <2>4, <3>3, <3>4
  <2>6. CASE m \notin I
    <3>1. Exposure(es[m]) = 0
      BY <2>3, <2>4, <2>6, <1>3
    <3> QED
      BY <2>2, <2>4, <3>1
  <2> QED
    BY <2>5, <2>6
<1>18. ASSUME Len(x) < ExposureCap PROVE Exposure(es[m]) = 0
  <2>1. Len(best) = Cardinality(I)
    <3>1. PICK n \in Nat : n = Len(o)
      BY <1>9 DEF IsList
    <3> QED
      BY <3>1, <1>9, <1>12, <1>13, <1>15, <1>18
  <2>2. m \notin I
    <3> SUFFICES ASSUME m \in I PROVE FALSE
      OBVIOUS
    <3>1. PICK l \in 1..Cardinality(I) : at[l] = m /\ l > Len(best)
      BY <1>16
    <3>2. Cardinality(I) \in Nat
      BY <2>1, <1>14
    <3> QED
      BY <2>1, <3>1, <3>2
  <2>3. m \in DOMAIN es
    BY <1>8
  <2> QED
    BY <2>2, <2>3, <1>2, <1>3
<1> QED
  BY <1>8, <1>17, <1>18
-----------------------------------------------------------------------------
(* The overview promises what the lists hold. *)

\* The findings, when nothing filters them.
FindingsTell(d, o, view) ==
  /\ view.count = Total(UniqueOf(o.severities))
  /\ o.kpis.highRisk = Cardinality(HighOf(view.cards))
  /\ \A i \in DOMAIN view.cards :
       view.cards[i].impacted = Cardinality(Having(d.endpoints, view.cards[i].id))

LEMMA FindingsAgree ==
  ASSUME NEW scan \in Reports, NEW obs, obs = rows_by_endpoint(scan), NEW d, d = build_report_model(scan)
  PROVE  FindingsTell(d, Overview(d), renderFindings(d, "", "all"))
<1>1. d.findings = GroupedFindings(obs) /\ ObservationsOK(obs)
  BY ModelIs
<1>2. PICK G : G = d.findings
  OBVIOUS
<1>3. G = GroupedFindings(obs)
  BY <1>1, <1>2
<1>4. /\ IsList(G)
      /\ \A i, j \in DOMAIN G : G[i] = G[j] => i = j
      /\ \A i \in DOMAIN G : G[i].severity \in ToSet(severities)
  BY <1>1, <1>3, EveryFindingGrouped
<1>5. PICK s : s = d.statistics
  OBVIOUS
<1>6. PICK o : o = Overview(d)
  OBVIOUS
<1>7. o.severities = initSeveritySummary(s) /\ o.kpis.highRisk = s.high + s.critical
  BY <1>5, <1>6 DEF Overview, initKpis
<1>8. PICK view : view = renderFindings(d, "", "all")
  OBVIOUS
<1>9. PICK shown : /\ Picks(shown, G, DOMAIN G) /\ view.count = Len(shown)
                   /\ view.cards = [k \in DOMAIN shown |-> findingCard(shown[k])]
  <2>1. IsList(d.findings)
    BY <1>2, <1>4
  <2>2. PICK shown : CardsOf(renderFindings(d, "", "all"), shown, d.findings)
    BY <2>1, CardsWithoutFilter
  <2>3. CardsOf(view, shown, G)
    BY <2>2, <1>2, <1>8
  <2> QED
    BY <2>3 DEF CardsOf
<1>10. PICK cards : cards = [k \in DOMAIN shown |-> findingCard(shown[k])]
  OBVIOUS
<1>11. view.cards = cards
  BY <1>9, <1>10
<1>12. /\ IsList(shown) /\ Len(shown) = Len(G)
       /\ \A k \in DOMAIN shown : \E i \in DOMAIN G : shown[k] = G[i]
  BY <1>4, <1>9, ListFinite, ListCount, PicksIs
<1>13. /\ s.high = Cardinality(FindingsOf(G, "high")) /\ s.critical = Cardinality(FindingsOf(G, "critical"))
       /\ \A l \in ToSet(severities) : s.by_severity[l].unique = Cardinality(FindingsOf(G, l))
  BY <1>2, <1>5, StatisticsAre
<1>14. Total(UniqueOf(initSeveritySummary(s))) = Len(G)
  BY <1>4, <1>13, BarAddsUp
<1>15. view.count = Total(UniqueOf(o.severities))
  BY <1>7, <1>9, <1>12, <1>14
<1>16. o.kpis.highRisk = Cardinality(HighOf(view.cards))
  <2>1. Cardinality(HighOf(cards)) = Cardinality(FindingsOf(G, "high")) + Cardinality(FindingsOf(G, "critical"))
    BY <1>4, <1>9, <1>10, HighCards
  <2> QED
    BY <2>1, <1>7, <1>11, <1>13
<1>17. ASSUME NEW i \in DOMAIN view.cards
       PROVE  view.cards[i].impacted = Cardinality(Having(d.endpoints, view.cards[i].id))
  <2>1. i \in DOMAIN shown /\ view.cards[i] = findingCard(shown[i])
    BY <1>9
  <2>2. PICK k \in DOMAIN G : shown[i] = G[k]
    BY <1>12, <2>1
  <2>3. view.cards[i].id = G[k].id /\ view.cards[i].impacted = Cardinality(G[k].affected)
    BY <2>1, <2>2 DEF findingCard
  <2>4. Cardinality(G[k].affected) = Cardinality(Having(d.endpoints, G[k].id))
    BY <1>2, ImpactedAre
  <2> QED
    BY <2>3, <2>4
<1> QED
  BY <1>6, <1>8, <1>15, <1>16, <1>17 DEF FindingsTell

\* The hosts, under any filters, of a strong report.
LEMMA HostsOfStrong ==
  ASSUME NEW scan \in Reports, NEW obs, obs = rows_by_endpoint(scan), NEW d, d = build_report_model(scan), NEW v, NEW w, w = renderHosts(d, v),
         postureTone(d.statistics) = "strong"
  PROVE  /\ \A i \in DOMAIN w.cards : w.cards[i].compliant /\ w.cards[i].high = 0
         /\ d.statistics.high + d.statistics.critical = 0
         /\ initCompliance(d.statistics) = "Compliant"
<1>1. PICK s : s = d.statistics
  OBVIOUS
<1>2. /\ s.critical \in Nat /\ s.high \in Nat /\ s.non_compliant \in Nat
      /\ s.with_errors \in Nat /\ s.not_tested \in Nat
  BY <1>1, StatisticsNumbers
<1>3. /\ s.critical = 0 /\ s.high = 0 /\ s.non_compliant = 0 /\ s.with_errors = 0 /\ s.not_tested = 0
  BY <1>1, <1>2, PostureIs
<1>4. /\ FindingsOf(d.findings, "critical") = {} /\ FindingsOf(d.findings, "high") = {}
      /\ WithStatus(d.endpoints, "non_compliant") = {} /\ WithStatus(d.endpoints, "not_tested") = {}
      /\ Erring(d.endpoints) = {}
  BY <1>1, <1>3, StatisticsNumbers
<1>5. ModelOK(d)
  BY ModelIsOK
<1>6. ASSUME NEW e \in ToSet(d.endpoints)
      PROVE  e.status = "compliant" /\ AtLevel(e, "critical") = 0 /\ AtLevel(e, "high") = 0
  <2>1. PICK i \in DOMAIN d.endpoints : e = d.endpoints[i]
    BY DEF ToSet
  <2>2. e.status = "compliant"
    BY <2>1, <1>4, StrongEndpoints
  <2> QED
    BY <2>2, <1>4, NoneAtLevel
<1>7. PICK visible : DrawnFor(visible, w, d, v)
  BY <1>5, HostGroupsAre
<1>8. PICK M : M = MatchingEndpoints(d, v)
  OBVIOUS
<1>9. M \subseteq ToSet(d.endpoints)
  BY <1>8 DEF MatchingEndpoints
<1>10. ASSUME NEW n \in DOMAIN w.cards PROVE w.cards[n].compliant /\ w.cards[n].high = 0
  <2>1. PICK g, card : g = visible[n] /\ card = w.cards[n]
    OBVIOUS
  <2>2. n \in DOMAIN visible /\ card = hostEndpointCard(g)
    BY <2>1, <1>7 DEF DrawnFor
  <2>3. /\ IsFiniteSet(OnHost(d.endpoints, Matching(d, v), g.host))
        /\ Picks(g.endpoints, d.endpoints, OnHost(d.endpoints, Matching(d, v), g.host))
    BY <2>1, <2>2, <1>7 DEF DrawnFor
  <2>4. /\ card.compliant <=> \A e \in M : e.host = card.host => e.status = "compliant"
        /\ \A k \in DOMAIN g.endpoints : g.endpoints[k] \in M
    BY <2>2, <2>3, <1>5, <1>8, CardIs
  <2>5. card.compliant
    BY <2>4, <1>6, <1>9
  <2>6. PICK es : es = g.endpoints
    OBVIOUS
  <2>7. RaisedAt(es, "critical") = 0 /\ RaisedAt(es, "high") = 0
    <3>1. \A k \in DOMAIN es : AtLevel(es[k], "critical") = 0 /\ AtLevel(es[k], "high") = 0
      BY <2>4, <2>6, <1>6, <1>9
    <3>2. RaisedAt(es, "critical") = 0
      BY <3>1, NoneRaised
    <3>3. RaisedAt(es, "high") = 0
      BY <3>1, NoneRaised
    <3> QED
      BY <3>2, <3>3
  <2>8. card.high = 0
    BY <2>2, <2>6, <2>7 DEF hostEndpointCard
  <2> QED
    BY <2>1, <2>5, <2>8
<1>11. initCompliance(s) = "Compliant"
  BY <1>3 DEF initCompliance
<1> QED
  BY <1>1, <1>3, <1>10, <1>11

\* The posture, whatever the lists are filtered by.
LEMMA PostureAgrees ==
  ASSUME NEW scan \in Reports, NEW obs, obs = rows_by_endpoint(scan), NEW d, d = build_report_model(scan)
  PROVE  postureTone(d.statistics) = "high-risk" <=>
           \/ d.statistics.high + d.statistics.critical > 0
           \/ \E e \in ToSet(d.endpoints) : e.status = "non_compliant"
<1>1. PICK s : s = d.statistics
  OBVIOUS
<1>2. /\ s.critical \in Nat /\ s.high \in Nat /\ s.non_compliant \in Nat
      /\ s.with_errors \in Nat /\ s.not_tested \in Nat
      /\ s.non_compliant = 0 <=> WithStatus(d.endpoints, "non_compliant") = {}
  BY <1>1, StatisticsNumbers
<1>3. postureTone(s) = "high-risk" <=> s.high + s.critical > 0 \/ s.non_compliant > 0
  BY <1>2, PostureIs
<1>4. WithStatus(d.endpoints, "non_compliant") # {} <=> \E e \in ToSet(d.endpoints) : e.status = "non_compliant"
  BY DEF WithStatus, ToSet
<1>5. s.non_compliant > 0 <=> WithStatus(d.endpoints, "non_compliant") # {}
  BY <1>2
<1> QED
  BY <1>1, <1>3, <1>4, <1>5

\* The exposure leaves out none that is worse than one it shows.
LEMMA ExposureAgrees ==
  ASSUME NEW scan \in Reports, NEW obs, obs = rows_by_endpoint(scan), NEW d, d = build_report_model(scan), NEW e \in ToSet(d.endpoints),
         e.id \notin ToSet(initExposure(d))
  PROVE  /\ \A i \in DOMAIN initExposure(d) : Exposure(Endpoint(d, initExposure(d)[i])) >= Exposure(e)
         /\ Len(initExposure(d)) < ExposureCap => e.severity \in {"informational", "none"}
<1>1. /\ DOMAIN d.endpoints = DOMAIN obs
      /\ \A i \in DOMAIN d.endpoints : d.endpoints[i] = EndpointReport(obs[i])
      /\ ObservationsOK(obs)
  BY ModelIs
<1>2. ModelOK(d)
  BY ModelIsOK
<1>3. ASSUME NEW i \in DOMAIN d.endpoints
      PROVE  /\ d.endpoints[i].findings \in SUBSET (DOMAIN FindingDefinitions)
             /\ IsFiniteSet(d.endpoints[i].findings)
             /\ d.endpoints[i].severity = HighestSeverity(d.endpoints[i].findings)
  <2>0. i \in DOMAIN obs /\ d.endpoints[i] = EndpointReport(obs[i])
    BY <1>1
  <2>1. /\ d.endpoints[i].findings = FindingIds(obs[i])
        /\ d.endpoints[i].severity = HighestSeverity(FindingIds(obs[i]))
    BY <2>0 DEF EndpointReport
  <2>2. FindingIds(obs[i]) \in SUBSET (DOMAIN FindingDefinitions)
    BY <1>1, <2>0 DEF ObservationsOK
  <2>3. IsFiniteSet(FindingIds(obs[i]))
    BY <2>2, ReportsAssumption, FS_Subset
  <2> QED
    BY <2>1, <2>2, <2>3
<1>4. PICK m \in DOMAIN d.endpoints : e = d.endpoints[m]
  BY DEF ToSet
<1>5. /\ \A i \in DOMAIN initExposure(d) : Exposure(Endpoint(d, initExposure(d)[i])) >= Exposure(e)
      /\ Len(initExposure(d)) < ExposureCap => Exposure(e) = 0
  BY <1>2, <1>3, <1>4, ExposureOrdered
<1>6. ASSUME Exposure(e) = 0 PROVE e.severity \in {"informational", "none"}
  <2>1. /\ e.findings \in SUBSET (DOMAIN FindingDefinitions) /\ IsFiniteSet(e.findings)
        /\ e.severity = HighestSeverity(e.findings)
    BY <1>3, <1>4
  <2>2. CASE e.findings = {}
    BY <2>1, <2>2 DEF HighestSeverity
  <2>3. CASE e.findings # {}
    <3>1. PICK f \in e.findings : SeverityOf(f) = e.severity
      BY <2>1, <2>3, HighestIs
    <3>2. SeverityOf(f) \in {"critical", "high", "medium", "low", "informational"}
      BY <2>1, SeverityOrderInt, ReportsAssumption DEF SeverityOf
    <3>3. SeverityOf(f) \notin {"critical", "high", "medium", "low"}
      BY <2>1, <1>6, ExposureIs
    <3> QED
      BY <3>1, <3>2, <3>3
  <2> QED
    BY <2>2, <2>3
<1> QED
  BY <1>5, <1>6

\* initContext, initKpis, initSeveritySummary and initExposure of report.js: for
\* any report, what the overview says of the posture, the findings and the
\* exposure is what the lists below it show.
THEOREM OverviewAgreesAlways == Spec => []OverviewAgrees
<1>1. ViewsInv => OverviewAgrees
  <2> SUFFICES ASSUME ViewsInv PROVE OverviewAgrees
    OBVIOUS
  <2>1. PICK scan \in Reports : data = build_report_model(scan)
    BY DEF ViewsInv
  <2>2. /\ overview = Overview(data)
        /\ findingView = renderFindings(data, findingView.q, findingView.severity)
        /\ hostView = renderHosts(data, hostView)
    BY DEF ViewsInv
  <2>3. PICK s : s = data.statistics
    OBVIOUS
  <2>4. /\ overview.context.posture = postureTone(s)
        /\ overview.kpis.highRisk = s.high + s.critical
        /\ overview.compliance = initCompliance(s)
        /\ overview.exposure = initExposure(data)
    BY <2>2, <2>3 DEF Overview, initContext, initKpis
  <2>5. ASSUME findingView.q = "", findingView.severity = "all"
        PROVE  /\ findingView.count = Total([i \in DOMAIN overview.severities |-> overview.severities[i].unique])
               /\ overview.kpis.highRisk =
                    Among(findingView.cards, LAMBDA card : card.severity \in {"critical", "high"})
               /\ \A i \in DOMAIN findingView.cards :
                    findingView.cards[i].impacted =
                      Among(data.endpoints, LAMBDA e : findingView.cards[i].id \in e.findings)
    <3>1. findingView = renderFindings(data, "", "all")
      BY <2>2, <2>5
    <3>2. FindingsTell(data, overview, findingView)
      BY <3>1, <2>1, <2>2, FindingsAgree
    <3>4. Cardinality(HighOf(findingView.cards)) =
            Among(findingView.cards, LAMBDA card : card.severity \in {"critical", "high"})
      BY DEF HighOf, Among
    <3>5. findingView.count = Total([i \in DOMAIN overview.severities |-> overview.severities[i].unique])
      BY <3>2 DEF FindingsTell, UniqueOf
    <3>6. overview.kpis.highRisk = Among(findingView.cards, LAMBDA card : card.severity \in {"critical", "high"})
      BY <3>2, <3>4 DEF FindingsTell
    <3>7. ASSUME NEW i \in DOMAIN findingView.cards
          PROVE  findingView.cards[i].impacted =
                   Among(data.endpoints, LAMBDA e : findingView.cards[i].id \in e.findings)
      <4>1. PICK f : f = findingView.cards[i].id
        OBVIOUS
      <4>2. findingView.cards[i].impacted = Cardinality(Having(data.endpoints, f))
        BY <3>2, <4>1 DEF FindingsTell
      <4>3. findingView.cards[i].impacted = Cardinality({k \in DOMAIN data.endpoints : f \in data.endpoints[k].findings})
        BY <4>2 DEF Having
      <4> QED
        BY <4>1, <4>3 DEF Among
    <3> QED
      BY <3>5, <3>6, <3>7
  <2>6. ASSUME overview.context.posture = "strong"
        PROVE  /\ \A i \in DOMAIN hostView.cards : hostView.cards[i].compliant /\ hostView.cards[i].high = 0
               /\ overview.kpis.highRisk = 0 /\ overview.compliance = "Compliant"
    <3>1. PICK v : v = hostView
      OBVIOUS
    <3>2. v = renderHosts(data, v)
      BY <2>2, <3>1
    <3>3. postureTone(data.statistics) = "strong"
      BY <2>3, <2>4, <2>6
    <3>4. /\ \A i \in DOMAIN v.cards : v.cards[i].compliant /\ v.cards[i].high = 0
          /\ data.statistics.high + data.statistics.critical = 0
          /\ initCompliance(data.statistics) = "Compliant"
      BY <2>1, <3>2, <3>3, HostsOfStrong
    <3> QED
      BY <2>3, <2>4, <3>1, <3>4
  <2>7. overview.context.posture = "high-risk" <=>
          overview.kpis.highRisk > 0 \/ \E e \in ToSet(data.endpoints) : e.status = "non_compliant"
    BY <2>1, <2>3, <2>4, PostureAgrees
  <2>8. ASSUME NEW e \in ToSet(data.endpoints), e.id \notin ToSet(overview.exposure)
        PROVE  /\ \A i \in DOMAIN overview.exposure :
                    Exposure(Endpoint(data, overview.exposure[i])) >= Exposure(e)
               /\ Len(overview.exposure) < ExposureCap => e.severity \in {"informational", "none"}
    BY <2>1, <2>4, <2>8, ExposureAgrees
  <2> QED
    BY <2>5, <2>6, <2>7, <2>8 DEF OverviewAgrees
<1> QED
  BY <1>1, ViewsInvAlways, PTL
=============================================================================
