-------------------------- MODULE ScanPagesProofs ---------------------------
(***************************************************************************)
(* Proofs about ScanPages and RunViews, for any definitions, runs, requests*)
(* under way and clicks: the list of the runs by scan.                     *)
(***************************************************************************)
EXTENDS ScanPages, ListsProofs
-----------------------------------------------------------------------------
(* Lists of runs: an answer of the server, whatever order it is in.        *)

RunRows(rows) ==
  /\ IsList(rows)
  /\ \A i \in DOMAIN rows : rows[i].id \in Int
  /\ \A i, j \in DOMAIN rows : rows[i].id = rows[j].id => i = j

\* Runs that are told apart by their number have a newest one.
LEMMA NewerOrders ==
  ASSUME NEW rows, RunRows(rows), NEW I \in SUBSET DOMAIN rows
  PROVE  StrictOrder(I, Newer(rows)) /\ IsFiniteSet(I) /\ I \in SUBSET Int
<1>1. \A i \in DOMAIN rows : rows[i].id \in Int
  BY DEF RunRows
<1>2. \A i, j \in DOMAIN rows : i # j => rows[i].id < rows[j].id \/ rows[i].id > rows[j].id
  BY <1>1 DEF RunRows
<1>3. \A i, j \in DOMAIN rows : <<i, j>> \in Newer(rows) <=> rows[i].id > rows[j].id
  BY DEF Newer
<1>4. IsFiniteSet(I) /\ I \in SUBSET Int
  BY ListFinite, FS_Subset DEF RunRows
<1> QED
  BY <1>1, <1>2, <1>3, <1>4 DEF StrictOrder

\* Sorted by their date, the runs at some places are all there, the newest first.
LEMMA NewestIs ==
  ASSUME NEW rows, RunRows(rows), NEW I \in SUBSET DOMAIN rows
  PROVE  /\ RunRows(NewestOf(rows, I))
         /\ \A k \in DOMAIN NewestOf(rows, I) : \E i \in I : NewestOf(rows, I)[k] = rows[i]
         /\ \A i \in I : \E k \in DOMAIN NewestOf(rows, I) : NewestOf(rows, I)[k] = rows[i]
         /\ \A k, l \in DOMAIN NewestOf(rows, I) : k < l => NewestOf(rows, I)[k].id > NewestOf(rows, I)[l].id
<1> DEFINE at == Listed(I, Newer(rows))
           n == Cardinality(I)
           s == Take(rows, at)
<1>1. StrictOrder(I, Newer(rows)) /\ IsFiniteSet(I)
  BY NewerOrders
<1>2. n \in Nat
  BY <1>1, FS_CardinalityType
<1>3. at \in [1..n -> I] /\ \A i \in I : \E k \in 1..n : at[k] = i
  BY <1>1, ListedIs
<1>4. \A k, l \in 1..n : k < l => <<at[k], at[l]>> \in Newer(rows)
  BY <1>1, ListedIs
<1> HIDE DEF at, n
<1>5. IsList(s) /\ DOMAIN s = 1..n
  BY <1>2, <1>3, TakenIsList DEF IsList
<1>6. \A k \in 1..n : s[k] = rows[at[k]] /\ at[k] \in I
  BY <1>3 DEF Take
<1>7. \A k, l \in 1..n : k < l => s[k].id > s[l].id
  BY <1>4, <1>6 DEF Newer
<1> HIDE DEF s
<1>8. \A k \in 1..n : s[k].id \in Int
  BY <1>6 DEF RunRows
<1>9. \A k, l \in 1..n : s[k].id = s[l].id => k = l
  BY <1>2, <1>7, <1>8
<1>10. RunRows(s)
  BY <1>5, <1>8, <1>9 DEF RunRows
<1>11. NewestOf(rows, I) = s
  BY DEF NewestOf, s, at
<1> QED
  BY <1>3, <1>5, <1>6, <1>7, <1>10, <1>11
-----------------------------------------------------------------------------
(* GroupedRuns.tsx: what a group is. *)

\* The runs of a group, the newest first: those of a list in this order whose
\* key is that of its head, which is the first of them; none is there twice.
LEMMA GroupIs ==
  ASSUME NEW rows, RunRows(rows),
         \A k, l \in DOMAIN rows : k < l => rows[k].id > rows[l].id,
         NEW h \in Heads(rows)
  PROVE  /\ Group(rows, rows[h]).runs[1] = rows[h]
         /\ {Group(rows, rows[h]).runs[i] : i \in DOMAIN Group(rows, rows[h]).runs}
              = {rows[i] : i \in OfGroup(rows, GroupKey(rows[h]))}
         /\ \A k, l \in DOMAIN Group(rows, rows[h]).runs :
              k < l => Group(rows, rows[h]).runs[k].id > Group(rows, rows[h]).runs[l].id
<1> DEFINE I == OfGroup(rows, GroupKey(rows[h]))
           at == Listed(I, Ascending(I))
           n == Cardinality(I)
           s == Take(rows, at)
<1>1. I \in SUBSET DOMAIN rows /\ h \in I /\ (\A j \in I : h <= j) /\ h \in DOMAIN rows
  BY DEF OfGroup, Heads
<1>2. IsFiniteSet(I) /\ I \in SUBSET Int
  BY <1>1, NewerOrders
<1>3. at \in [1..n -> I] /\ \A i \in I : \E k \in 1..n : at[k] = i
  BY <1>2, AscendingOrders, ListedIs
<1>4. \A k, l \in 1..n : k < l => <<at[k], at[l]>> \in Ascending(I)
  BY <1>2, AscendingOrders, ListedIs
<1>5. n \in Nat
  BY <1>2, FS_CardinalityType
<1>6. Group(rows, rows[h]).runs = s
  BY DEF Group, Chosen
<1> HIDE DEF at, n, I
<1>7. \A k, l \in 1..n : k < l => at[k] < at[l]
  BY <1>4 DEF Ascending
<1>8. DOMAIN s = 1..n /\ \A k \in 1..n : s[k] = rows[at[k]]
  BY <1>3 DEF Take
<1> HIDE DEF s
<1>9. PICK k \in 1..n : at[k] = h
  BY <1>1, <1>3
<1>10. 1 \in 1..n /\ at[1] \in I
  BY <1>3, <1>5, <1>9
<1>11. at[1] = h
  <2>1. h <= at[1] /\ h \in Int /\ at[1] \in Int
    BY <1>1, <1>2, <1>10
  <2>2. k = 1 \/ 1 < k
    BY <1>5, <1>9
  <2>3. k = 1 \/ at[1] < h
    BY <2>2, <1>7, <1>9, <1>10
  <2> QED
    BY <2>1, <2>3, <1>9
<1>12. s[1] = rows[h]
  BY <1>8, <1>10, <1>11
<1>13. {s[i] : i \in DOMAIN s} = {rows[i] : i \in I}
  BY <1>3, <1>8
<1>14. \A p, q \in 1..n : p < q => s[p].id > s[q].id
  <2>1. \A p \in 1..n : at[p] \in DOMAIN rows
    BY <1>1, <1>3
  <2> QED
    BY <2>1, <1>7, <1>8
<1> QED
  BY <1>6, <1>8, <1>12, <1>13, <1>14 DEF I

\* Every run has a head of its group.
LEMMA HeadIs ==
  ASSUME NEW rows, RunRows(rows), NEW i \in DOMAIN rows
  PROVE  \E h \in Heads(rows) : GroupKey(rows[h]) = GroupKey(rows[i])
<1> DEFINE I == OfGroup(rows, GroupKey(rows[i]))
<1>1. I \in SUBSET DOMAIN rows /\ i \in I
  BY DEF OfGroup
<1>2. IsFiniteSet(I) /\ I \in SUBSET Int /\ I # {}
  BY <1>1, NewerOrders
<1>3. PICK h \in I : \A j \in I : h <= j
  BY <1>2, LeastPlace
<1>4. GroupKey(rows[h]) = GroupKey(rows[i]) /\ h \in DOMAIN rows
  BY DEF OfGroup
<1>5. h \in Heads(rows)
  BY <1>3, <1>4 DEF Heads
<1> QED
  BY <1>4, <1>5

\* The groups of a list whose newest come first: one for every head, in order.
LEMMA HeadsAreListed ==
  ASSUME NEW rows, RunRows(rows)
  PROVE  \E at : /\ at \in [1..Cardinality(Heads(rows)) -> Heads(rows)]
                 /\ \A h \in Heads(rows) : \E k \in DOMAIN at : at[k] = h
                 /\ \A k, l \in DOMAIN at : k < l => at[k] < at[l]
                 /\ Chosen(rows, Heads(rows)) = Take(rows, at)
<1> DEFINE H == Heads(rows)
           at == Listed(H, Ascending(H))
           n == Cardinality(H)
<1>1. H \in SUBSET DOMAIN rows
  BY DEF Heads
<1>2. IsFiniteSet(H) /\ H \in SUBSET Int
  BY <1>1, NewerOrders
<1>3. at \in [1..n -> H] /\ \A h \in H : \E k \in 1..n : at[k] = h
  BY <1>2, AscendingOrders, ListedIs
<1>4. \A k, l \in 1..n : k < l => <<at[k], at[l]>> \in Ascending(H)
  BY <1>2, AscendingOrders, ListedIs
<1>5. Chosen(rows, H) = Take(rows, at)
  BY DEF Chosen
<1> HIDE DEF at, n, H
<1>6. \A k, l \in 1..n : k < l => at[k] < at[l]
  BY <1>4 DEF Ascending
<1>7. DOMAIN at = 1..n
  BY <1>3
<1>8. /\ at \in [1..n -> H]
      /\ \A h \in H : \E k \in DOMAIN at : at[k] = h
      /\ \A k, l \in DOMAIN at : k < l => at[k] < at[l]
      /\ Chosen(rows, H) = Take(rows, at)
  BY <1>3, <1>5, <1>6, <1>7
<1> QED
  BY <1>8 DEF H, n

\* GroupedRuns over the runs of an answer: every run once, under its scan.
ListedOnce(rows, shown) ==
  LET groups == Groups(rows)
      Of(g) == {g.runs[i] : i \in DOMAIN g.runs}
  IN /\ {Of(groups[i]) : i \in DOMAIN groups} = {{r \in shown : GroupKey(r) = GroupKey(x)} : x \in shown}
     /\ \A i \in DOMAIN groups : \A k, l \in DOMAIN groups[i].runs :
          k < l => groups[i].runs[k].id > groups[i].runs[l].id
     /\ \A i, j \in DOMAIN groups : i < j => groups[i].runs[1].id > groups[j].runs[1].id

LEMMA GroupsTell == ASSUME NEW rows, RunRows(rows) PROVE ListedOnce(rows, {rows[i] : i \in DOMAIN rows})
<1> DEFINE newest == NewestFirst(rows)
           heads == Chosen(newest, Heads(newest))
           groups == Groups(rows)
           shown == {rows[i] : i \in DOMAIN rows}
           Of(g) == {g.runs[i] : i \in DOMAIN g.runs}
           Same(x) == {r \in shown : GroupKey(r) = GroupKey(x)}
<1>1. /\ RunRows(newest)
      /\ shown = {newest[k] : k \in DOMAIN newest}
      /\ \A k, l \in DOMAIN newest : k < l => newest[k].id > newest[l].id
  BY NewestIs DEF NewestFirst
<1>2. groups = [n \in DOMAIN heads |-> Group(newest, heads[n])]
  BY DEF Groups
<1> HIDE DEF newest, groups, shown
<1>3. PICK at : /\ at \in [1..Cardinality(Heads(newest)) -> Heads(newest)]
                /\ \A h \in Heads(newest) : \E k \in DOMAIN at : at[k] = h
                /\ \A k, l \in DOMAIN at : k < l => at[k] < at[l]
                /\ heads = Take(newest, at)
  BY <1>1, HeadsAreListed
<1>4. DOMAIN heads = DOMAIN at /\ \A k \in DOMAIN at : heads[k] = newest[at[k]]
  BY <1>3 DEF Take
<1> HIDE DEF heads
<1>5. DOMAIN groups = DOMAIN at /\ \A k \in DOMAIN at : groups[k] = Group(newest, newest[at[k]])
  BY <1>2, <1>4
<1>6. \A k \in DOMAIN at : at[k] \in Heads(newest) /\ at[k] \in DOMAIN newest
  BY <1>3 DEF Heads
<1>7. ASSUME NEW k \in DOMAIN groups
      PROVE  /\ groups[k].runs[1] = newest[at[k]]
             /\ Of(groups[k]) = Same(newest[at[k]])
             /\ \A p, q \in DOMAIN groups[k].runs : p < q => groups[k].runs[p].id > groups[k].runs[q].id
  <2> DEFINE h == at[k]
  <2>1. h \in Heads(newest) /\ groups[k] = Group(newest, newest[h])
    BY <1>5, <1>6
  <2> HIDE DEF h
  <2>2. /\ groups[k].runs[1] = newest[h]
        /\ Of(groups[k]) = {newest[i] : i \in OfGroup(newest, GroupKey(newest[h]))}
        /\ \A p, q \in DOMAIN groups[k].runs : p < q => groups[k].runs[p].id > groups[k].runs[q].id
    <3>1. RunRows(newest) /\ \A p, q \in DOMAIN newest : p < q => newest[p].id > newest[q].id
      BY <1>1
    <3>2. /\ Group(newest, newest[h]).runs[1] = newest[h]
          /\ {Group(newest, newest[h]).runs[i] : i \in DOMAIN Group(newest, newest[h]).runs}
               = {newest[i] : i \in OfGroup(newest, GroupKey(newest[h]))}
          /\ \A p, q \in DOMAIN Group(newest, newest[h]).runs :
               p < q => Group(newest, newest[h]).runs[p].id > Group(newest, newest[h]).runs[q].id
      BY ONLY <2>1, <3>1, GroupIs
    <3> QED
      BY <2>1, <3>2
  <2>3. {newest[i] : i \in OfGroup(newest, GroupKey(newest[h]))} = Same(newest[h])
    BY <1>1 DEF OfGroup
  <2> QED
    BY <2>2, <2>3 DEF h
<1>8. {Of(groups[i]) : i \in DOMAIN groups} = {Same(x) : x \in shown}
  <2>1. ASSUME NEW k \in DOMAIN groups PROVE Of(groups[k]) \in {Same(x) : x \in shown}
    <3>1. newest[at[k]] \in shown
      BY <1>1, <1>5, <1>6
    <3> QED
      BY <3>1, <1>7
  <2>2. ASSUME NEW x \in shown PROVE \E k \in DOMAIN groups : Of(groups[k]) = Same(x)
    <3>1. PICK i \in DOMAIN newest : newest[i] = x
      BY <1>1
    <3>2. PICK h \in Heads(newest) : GroupKey(newest[h]) = GroupKey(x)
      BY <1>1, <3>1, HeadIs
    <3>3. PICK k \in DOMAIN at : at[k] = h
      BY <1>3
    <3>4. Of(groups[k]) = Same(newest[h])
      BY <1>5, <1>7, <3>3
    <3>5. Same(newest[h]) = Same(x)
      BY <3>2
    <3> QED
      BY <1>5, <3>4, <3>5
  <2> HIDE DEF Of, Same
  <2> QED
    BY <2>1, <2>2
<1>9. \A i \in DOMAIN groups : \A k, l \in DOMAIN groups[i].runs :
        k < l => groups[i].runs[k].id > groups[i].runs[l].id
  BY <1>7
<1>10. \A i, j \in DOMAIN groups : i < j => groups[i].runs[1].id > groups[j].runs[1].id
  BY <1>1, <1>3, <1>5, <1>6, <1>7
<1> QED
  BY <1>8, <1>9, <1>10 DEF ListedOnce, groups, shown
-----------------------------------------------------------------------------
(* The invariant: the server numbers its runs; an answer to a page that    *)
(* lists runs, on its way or drawn, is a list of runs told apart by their  *)
(* numbers.  A page that is left takes the answers to its loads with it.   *)

RunOf(i, r) == [id |-> i, def |-> r.def, sched |-> r.sched, name |-> r.name, mine |-> r.mine, asked |-> r.asked,
                status |-> r.status, phase |-> r.phase, stop |-> r.stop, nc |-> r.nc]
CountedRuns(rs) == /\ Len(rs) \in Nat
                /\ rs = [i \in 1..Len(rs) |-> rs[i]]
                /\ \A i \in DOMAIN rs : rs[i] = RunOf(i, rs[i])

Kinds == {"load", "loadDefs", "cancel", "delete", "launch", "saveDef", "deleteDef", "saveSched", "deleteSched"}
CallFull(c) == c = [kind |-> c.kind, arg |-> c.arg, slot |-> c.slot, from |-> c.from, live |-> c.live,
                    answer |-> c.answer, to |-> c.to, about |-> c.about]
CallInv(c, s, page) ==
  c.kind # "idle" =>
    /\ CallFull(c) /\ c.kind \in Kinds /\ c.slot = s /\ c.live \in BOOLEAN
    /\ c.answer \in {"none", "ok", "refused"}
    /\ c.kind = "load" /\ c.answer = "ok" /\ page = "scans" => RunRows(c.to)
NetInv(cs, page) == cs = [s \in Slots |-> cs[s]] /\ \A s \in Slots : CallInv(cs[s], s, page)

PageFull(v) == v = [page |-> v.page, arg |-> v.arg, data |-> v.data, loadError |-> v.loadError, error |-> v.error,
                    defs |-> v.defs, grouped |-> v.grouped, open |-> v.open, sort |-> v.sort, ticked |-> v.ticked,
                    tab |-> v.tab, dialog |-> v.dialog, owed |-> v.owed, owesDefs |-> v.owesDefs]
DrawnInv(v) == PageFull(v) /\ (v.page = "scans" /\ v.data # Nothing => RunRows(v.data))

ListInv == CountedRuns(runs) /\ NetInv(calls, view.page) /\ DrawnInv(view)

LEMMA MountedDraws == ASSUME NEW page, NEW arg PROVE DrawnInv(Mounted(page, arg)) /\ Mounted(page, arg).page = page
  BY DEF Mounted, DrawnInv, PageFull

LEMMA TwoRuns == ASSUME NEW a, NEW b PROVE Len(<<a, b>>) = 2 /\ <<a, b>> = [i \in 1..2 |-> <<a, b>>[i]]
  OBVIOUS

LEMMA ListInvInit == PageInit => ListInv
<1> SUFFICES ASSUME PageInit PROVE ListInv
  OBVIOUS
<1>1. CountedRuns(runs)
  <2>1. Len(runs) = 2 /\ runs = [i \in 1..2 |-> runs[i]]
    BY TwoRuns DEF PageInit
  <2>2. runs[1] = RunOf(1, runs[1]) /\ runs[2] = RunOf(2, runs[2])
    BY DEF PageInit, RunOf, NewRun
  <2> QED
    BY <2>1, <2>2 DEF CountedRuns
<1>2. NetInv(calls, view.page)
  BY DEF PageInit, NetInv, CallInv, Idle
<1>3. DrawnInv(view)
  BY MountedDraws DEF PageInit
<1> QED
  BY <1>1, <1>2, <1>3 DEF ListInv

\* Requests leave, and are dropped when their page is left.
LEMMA SendKeeps ==
  ASSUME NetInv(calls, view.page), NEW kind \in Kinds, NEW arg, SendCall(kind, arg)
  PROVE  NetInv(calls', view.page)
<1>1. PICK s \in Free : calls' = [calls EXCEPT ![s] = CallOf(s, kind, arg)]
  BY DEF SendCall
<1>2. s \in Slots
  BY DEF Free
<1>3. CallInv(CallOf(s, kind, arg), s, view.page)
  BY DEF CallOf, CallInv, CallFull
<1>4. calls = [t \in Slots |-> calls[t]] /\ \A t \in Slots : CallInv(calls[t], t, view.page)
  BY DEF NetInv
<1>5. calls' = [t \in Slots |-> calls'[t]] /\ \A t \in Slots : calls'[t] = IF t = s THEN CallOf(s, kind, arg) ELSE calls[t]
  BY <1>1, <1>2, <1>4
<1> QED
  BY <1>3, <1>4, <1>5 DEF NetInv

LEMMA DroppedCall ==
  ASSUME NEW c, CallFull(c), NEW d, d = [c EXCEPT !.live = FALSE]
  PROVE  CallFull(d) /\ d.kind = c.kind /\ d.slot = c.slot /\ d.live = FALSE /\ d.answer = c.answer
  BY DEF CallFull

LEMMA AnsweredCall ==
  ASSUME NEW c, CallFull(c), NEW v, NEW d, d = [c EXCEPT !.answer = v]
  PROVE  CallFull(d) /\ d.kind = c.kind /\ d.slot = c.slot /\ d.live = c.live /\ d.answer = v
  BY DEF CallFull

LEMMA GivenCall ==
  ASSUME NEW c, CallFull(c), NEW v, NEW d, d = [c EXCEPT !.to = v]
  PROVE  CallFull(d) /\ d.kind = c.kind /\ d.slot = c.slot /\ d.live = c.live /\ d.answer = c.answer /\ d.to = v
  BY DEF CallFull

LEMMA LeftKeeps ==
  ASSUME NEW page, NEW new, NetInv(calls, page)
  PROVE  NetInv(Left, new)
<1>1. \A s \in Slots : CallInv(calls[s], s, page)
  BY DEF NetInv
<1>2. Left = [s \in Slots |-> Left[s]]
  BY DEF Left
<1>3. ASSUME NEW s \in Slots PROVE CallInv(Left[s], s, new)
  <2>1. CASE calls[s].kind \in Reads \cup {"idle"}
    <3>1. Left[s] = Idle
      BY <2>1 DEF Left, Reads
    <3> QED
      BY <3>1 DEF Idle, CallInv
  <2>2. CASE calls[s].kind \notin Reads \cup {"idle"}
    <3>1. Left[s] = [calls[s] EXCEPT !.live = FALSE]
      BY <2>2 DEF Left, Reads
    <3>2. CallInv(calls[s], s, page) /\ calls[s].kind # "idle"
      BY <1>1, <2>2
    <3>3. CallInv([calls[s] EXCEPT !.live = FALSE], s, new)
      <4> DEFINE c == calls[s]
                 d == [c EXCEPT !.live = FALSE]
      <4>1. /\ CallFull(c) /\ c.kind \in Kinds /\ c.slot = s /\ c.answer \in {"none", "ok", "refused"}
            /\ c.kind # "load"
        BY <2>2, <3>2 DEF CallInv, Reads
      <4>2. d = [c EXCEPT !.live = FALSE]
        OBVIOUS
      <4> HIDE DEF c, d
      <4>3. CallFull(d) /\ d.kind = c.kind /\ d.slot = c.slot /\ d.live = FALSE /\ d.answer = c.answer
        BY <4>1, <4>2, DroppedCall
      <4>4. CallInv(d, s, new)
        BY <4>1, <4>3 DEF CallInv
      <4> QED
        BY <4>4 DEF c, d
    <3> QED
      BY <3>1, <3>3
  <2> QED
    BY <2>1, <2>2
<1> QED
  BY <1>2, <1>3 DEF NetInv

\* A request is answered or lost.
LEMMA PutKeeps ==
  ASSUME NEW cs, NEW page, NetInv(cs, page), NEW s \in Slots, NEW c, CallInv(c, s, page)
  PROVE  NetInv([cs EXCEPT ![s] = c], page)
<1>1. cs = [t \in Slots |-> cs[t]] /\ \A t \in Slots : CallInv(cs[t], t, page)
  BY DEF NetInv
<1> DEFINE new == [cs EXCEPT ![s] = c]
<1>2. new = [t \in Slots |-> new[t]] /\ \A t \in Slots : new[t] = IF t = s THEN c ELSE cs[t]
  BY <1>1
<1> HIDE DEF new
<1>3. NetInv(new, page)
  BY <1>1, <1>2 DEF NetInv
<1> QED
  BY <1>3 DEF new

LEMMA IdleFits == ASSUME NEW s, NEW page PROVE CallInv(Idle, s, page)
  BY DEF Idle, CallInv

LEMMA AcceptedKeeps ==
  ASSUME NEW page, NetInv(calls, page), NEW s \in Slots, calls[s].kind # "idle", NEW to,
         calls[s].kind = "load" /\ page = "scans" => RunRows(to)
  PROVE  NetInv([calls EXCEPT ![calls[s].slot].answer = "ok", ![calls[s].slot].to = to], page)
<1> DEFINE c == calls[s]
           e == [c EXCEPT !.answer = "ok"]
           d == [e EXCEPT !.to = to]
<1>1. /\ CallFull(c) /\ c.kind \in Kinds /\ c.slot = s /\ c.live \in BOOLEAN
      /\ calls = [t \in Slots |-> calls[t]]
  BY DEF NetInv, CallInv
<1>2. e = [c EXCEPT !.answer = "ok"] /\ d = [e EXCEPT !.to = to]
  OBVIOUS
<1>3. c = calls[s] /\ (c.kind = "load" /\ page = "scans" => RunRows(to))
  OBVIOUS
<1> HIDE DEF c, d, e
<1>4. CallFull(d) /\ d.kind = c.kind /\ d.slot = s /\ d.live = c.live /\ d.answer = "ok" /\ d.to = to
  <2>1. CallFull(e) /\ e.kind = c.kind /\ e.slot = s /\ e.live = c.live /\ e.answer = "ok"
    BY <1>1, <1>2, AnsweredCall
  <2>2. d = [e EXCEPT !.to = to]
    BY <1>2
  <2>3. /\ CallFull(d) /\ d.kind = e.kind /\ d.slot = e.slot /\ d.live = e.live
        /\ d.answer = e.answer /\ d.to = to
    BY ONLY <2>1, <2>2, GivenCall
  <2> QED
    BY <2>1, <2>3
<1>5. CallInv(d, s, page)
  BY <1>1, <1>3, <1>4 DEF CallInv
<1>6. [calls EXCEPT ![s].answer = "ok", ![s].to = to] = [calls EXCEPT ![s] = d]
  BY <1>1, <1>2, <1>3
<1>7. NetInv([calls EXCEPT ![s] = d], page)
  BY <1>5, PutKeeps
<1> QED
  BY <1>1, <1>3, <1>6, <1>7

LEMMA RefusedKeeps ==
  ASSUME NEW page, NetInv(calls, page), NEW s \in Slots, calls[s].kind # "idle"
  PROVE  NetInv([calls EXCEPT ![calls[s].slot].answer = "refused"], page)
<1> DEFINE c == calls[s]
           d == [c EXCEPT !.answer = "refused"]
<1>1. CallFull(c) /\ c.kind \in Kinds /\ c.slot = s /\ c.live \in BOOLEAN
  BY DEF NetInv, CallInv
<1>2. d = [c EXCEPT !.answer = "refused"]
  OBVIOUS
<1>3. c = calls[s]
  OBVIOUS
<1> HIDE DEF c, d
<1>4. CallFull(d) /\ d.kind = c.kind /\ d.slot = s /\ d.live = c.live /\ d.answer = "refused"
  BY <1>1, <1>2, AnsweredCall
<1>5. CallInv(d, s, page)
  BY <1>1, <1>4 DEF CallInv
<1>6. [calls EXCEPT ![s].answer = "refused"] = [calls EXCEPT ![s] = d]
  BY <1>2, <1>3
<1>7. NetInv([calls EXCEPT ![s] = d], page)
  BY <1>5, PutKeeps
<1> QED
  BY <1>1, <1>3, <1>6, <1>7

\* The server's rows.
LEMMA CountedAreRows == ASSUME NEW rs, CountedRuns(rs) PROVE RunRows(rs)
<1>1. Len(rs) \in Nat /\ DOMAIN rs = 1..Len(rs)
  BY DEF CountedRuns
<1>2. \A i \in DOMAIN rs : rs[i].id = i
  BY DEF CountedRuns, RunOf
<1> QED
  BY <1>1, <1>2 DEF RunRows, IsList

LEMMA RunsChanged ==
  ASSUME NEW rs, CountedRuns(rs), NEW new, new = [i \in DOMAIN rs |-> new[i]],
         \A i \in DOMAIN rs : new[i] = RunOf(i, new[i])
  PROVE  CountedRuns(new)
<1>1. Len(rs) \in Nat /\ DOMAIN rs = 1..Len(rs)
  BY DEF CountedRuns
<1>2. DOMAIN new = 1..Len(rs)
  BY <1>1
<1> DEFINE S == {new[i] : i \in 1..Len(rs)}
<1>3. new \in [1..Len(rs) -> S]
  BY <1>1
<1>4. new \in Seq(S) /\ Len(new) = Len(rs)
  <2> HIDE DEF S
  <2> QED
    BY <1>1, <1>3
<1> QED
  BY <1>1, <1>2, <1>4 DEF CountedRuns

LEMMA RunPut ==
  ASSUME NEW rs, CountedRuns(rs), NEW i \in DOMAIN rs, NEW r, r = RunOf(i, r)
  PROVE  CountedRuns([rs EXCEPT ![i] = r])
<1> DEFINE new == [rs EXCEPT ![i] = r]
<1>1. rs = [j \in 1..Len(rs) |-> rs[j]] /\ \A j \in DOMAIN rs : rs[j] = RunOf(j, rs[j])
  BY DEF CountedRuns
<1>2. new = [j \in DOMAIN rs |-> new[j]] /\ \A j \in DOMAIN rs : new[j] = IF j = i THEN r ELSE rs[j]
  BY <1>1
<1> HIDE DEF new
<1>3. \A j \in DOMAIN rs : new[j] = RunOf(j, new[j])
  BY <1>1, <1>2
<1>4. CountedRuns(new)
  BY <1>2, <1>3, RunsChanged
<1> QED
  BY <1>4 DEF new

LEMMA RunAdded ==
  ASSUME NEW rs, CountedRuns(rs), NEW x, x = RunOf(Len(rs) + 1, x)
  PROVE  CountedRuns(Append(rs, x))
<1> DEFINE n == Len(rs)
           S == {rs[i] : i \in 1..n} \cup {x}
           new == Append(rs, x)
<1>1. n \in Nat /\ rs = [i \in 1..n |-> rs[i]] /\ \A i \in DOMAIN rs : rs[i] = RunOf(i, rs[i])
  BY DEF CountedRuns
<1>2. x = RunOf(n + 1, x)
  OBVIOUS
<1> HIDE DEF n
<1>3. rs \in [1..n -> S] /\ x \in S
  BY <1>1
<1> HIDE DEF S
<1>4. rs \in Seq(S) /\ Len(rs) = n
  BY <1>1, <1>3 DEF n
<1>5. new \in Seq(S) /\ Len(new) = n + 1 /\ \A i \in 1..(n + 1) : new[i] = IF i = n + 1 THEN x ELSE rs[i]
  BY <1>1, <1>3, <1>4
<1> HIDE DEF new
<1>6. new = [i \in 1..(n + 1) |-> new[i]]
  BY <1>1, <1>5
<1>7. ASSUME NEW i \in 1..(n + 1) PROVE new[i] = RunOf(i, new[i])
  <2>1. CASE i = n + 1
    BY <2>1, <1>2, <1>5
  <2>2. CASE i # n + 1
    <3>0. i \in 1..n
      BY <2>2, <1>1
    <3>1. i \in DOMAIN rs /\ new[i] = rs[i]
      BY <2>2, <3>0, <1>1, <1>5
    <3>2. rs[i] = RunOf(i, rs[i])
      BY <3>1, <1>1
    <3> QED
      BY <3>1, <3>2
  <2> QED
    BY <2>1, <2>2
<1>8. CountedRuns(new)
  BY <1>1, <1>5, <1>6, <1>7 DEF CountedRuns
<1> QED
  BY <1>8 DEF new

LEMMA RunEdited ==
  ASSUME NEW i, NEW r, r = RunOf(i, r), NEW new, NEW v,
         \/ new = [r EXCEPT !.status = v] \/ new = [r EXCEPT !.nc = v] \/ new = [r EXCEPT !.phase = v]
         \/ new = [r EXCEPT !.asked = v] \/ new = [r EXCEPT !.def = v] \/ new = [r EXCEPT !.stop = v]
         \/ new = [r EXCEPT !.sched = v] \/ new = [r EXCEPT !.mine = v]
  PROVE  new = RunOf(i, new)
<1>1. CASE new = [r EXCEPT !.status = v]
  BY <1>1 DEF RunOf
<1>2. CASE new = [r EXCEPT !.nc = v]
  BY <1>2 DEF RunOf
<1>3. CASE new = [r EXCEPT !.phase = v]
  BY <1>3 DEF RunOf
<1>4. CASE new = [r EXCEPT !.asked = v]
  BY <1>4 DEF RunOf
<1>5. CASE new = [r EXCEPT !.def = v]
  BY <1>5 DEF RunOf
<1>6. CASE new = [r EXCEPT !.stop = v]
  BY <1>6 DEF RunOf
<1>7. CASE new = [r EXCEPT !.sched = v]
  BY <1>7 DEF RunOf
<1>8. CASE new = [r EXCEPT !.mine = v]
  BY <1>8 DEF RunOf
<1> QED
  BY <1>1, <1>2, <1>3, <1>4, <1>5, <1>6, <1>7, <1>8

\* What changes on a page but its data.
LEMMA PageEdited ==
  ASSUME NEW v, DrawnInv(v), NEW new, NEW x,
         \/ new = [v EXCEPT !.arg = x]
         \/ new = [v EXCEPT !.loadError = x]
         \/ new = [v EXCEPT !.error = x]
         \/ new = [v EXCEPT !.defs = x]
         \/ new = [v EXCEPT !.grouped = x]
         \/ new = [v EXCEPT !.open = x]
         \/ new = [v EXCEPT !.sort = x]
         \/ new = [v EXCEPT !.ticked = x]
         \/ new = [v EXCEPT !.tab = x]
         \/ new = [v EXCEPT !.dialog = x]
         \/ new = [v EXCEPT !.owed = x]
         \/ new = [v EXCEPT !.owesDefs = x]
  PROVE  DrawnInv(new) /\ new.page = v.page
<1>1. CASE new = [v EXCEPT !.arg = x]
  BY <1>1 DEF DrawnInv, PageFull
<1>2. CASE new = [v EXCEPT !.loadError = x]
  BY <1>2 DEF DrawnInv, PageFull
<1>3. CASE new = [v EXCEPT !.error = x]
  BY <1>3 DEF DrawnInv, PageFull
<1>4. CASE new = [v EXCEPT !.defs = x]
  BY <1>4 DEF DrawnInv, PageFull
<1>5. CASE new = [v EXCEPT !.grouped = x]
  BY <1>5 DEF DrawnInv, PageFull
<1>6. CASE new = [v EXCEPT !.open = x]
  BY <1>6 DEF DrawnInv, PageFull
<1>7. CASE new = [v EXCEPT !.sort = x]
  BY <1>7 DEF DrawnInv, PageFull
<1>8. CASE new = [v EXCEPT !.ticked = x]
  BY <1>8 DEF DrawnInv, PageFull
<1>9. CASE new = [v EXCEPT !.tab = x]
  BY <1>9 DEF DrawnInv, PageFull
<1>10. CASE new = [v EXCEPT !.dialog = x]
  BY <1>10 DEF DrawnInv, PageFull
<1>11. CASE new = [v EXCEPT !.owed = x]
  BY <1>11 DEF DrawnInv, PageFull
<1>12. CASE new = [v EXCEPT !.owesDefs = x]
  BY <1>12 DEF DrawnInv, PageFull
<1> QED
  BY <1>1, <1>2, <1>3, <1>4, <1>5, <1>6, <1>7, <1>8, <1>9, <1>10, <1>11, <1>12

LEMMA PageGiven ==
  ASSUME NEW v, DrawnInv(v), NEW new, NEW x, new = [v EXCEPT !.data = x], v.page = "scans" => RunRows(x)
  PROVE  DrawnInv(new) /\ new.page = v.page
  BY DEF DrawnInv, PageFull

\* What the server answers to a page that lists runs.
LEMMA LoadIs ==
  ASSUME CountedRuns(runs), NEW arg
  PROVE  RunRows(AnswerTo("scans", arg))
<1>1. Asked(arg) \in SUBSET DOMAIN runs
  BY DEF Asked
<1>2. RunRows(NewestOf(runs, Asked(arg)))
  BY <1>1, CountedAreRows, NewestIs
<1> QED
  BY <1>2 DEF AnswerTo, RunsFor

\* The server serves a request.
AnsweredAs(c) ==
  \/ calls' = [calls EXCEPT ![c.slot].answer = "refused"]
  \/ \E to : /\ calls' = [calls EXCEPT ![c.slot].answer = "ok", ![c.slot].to = to]
             /\ c.kind = "load" => to = AnswerTo(view.page, c.arg)
ServedRuns(c) ==
  \/ runs' = runs
  \/ /\ c.arg \in DOMAIN runs
     /\ \E v, w : runs' = [runs EXCEPT ![c.arg].status = v, ![c.arg].stop = w]
  \/ /\ c.arg \in DOMAIN runs
     /\ \E v : runs' = [runs EXCEPT ![c.arg].status = v]
  \/ \E i \in DOMAIN runs : runs' = [runs EXCEPT ![i].asked = TRUE]
  \/ runs' = Append(runs, NewRun(Len(runs) + 1, c.arg))
  \/ runs' = [i \in DOMAIN runs |-> IF runs[i].def = c.arg THEN [runs[i] EXCEPT !.def = NoDef] ELSE runs[i]]
  \/ runs' = [i \in DOMAIN runs |-> IF runs[i].sched = c.arg THEN [runs[i] EXCEPT !.sched = NoDef] ELSE runs[i]]

LEMMA ServedIs ==
  ASSUME NEW c, c.kind \in Kinds, Served(c)
  PROVE  AnsweredAs(c) /\ ServedRuns(c)
<1>1. CASE c.kind = "cancel"
  <2> DEFINE a == c.arg
             v == IF runs[a].status = "queued" THEN "cancelled" ELSE runs[a].status
             w == runs[a].status = "running"
  <2>1. CASE ~(Exists(a) /\ Active(runs[a]))
    BY <1>1, <2>1 DEF AnsweredAs, ServedRuns, Served
  <2>2. CASE Exists(a) /\ Active(runs[a])
    <3>1. /\ runs' = [runs EXCEPT ![a].status = v, ![a].stop = w]
          /\ calls' = [calls EXCEPT ![c.slot].answer = "ok", ![c.slot].to = a]
      BY <1>1, <2>2 DEF AnsweredAs, ServedRuns, Served
    <3>2. a \in DOMAIN runs
      BY <2>2 DEF Exists
    <3> HIDE DEF v, w
    <3> QED
      BY <1>1, <3>1, <3>2 DEF AnsweredAs, ServedRuns
  <2> QED
    BY <2>1, <2>2
<1>2. CASE c.kind = "delete"
  BY <1>2 DEF AnsweredAs, ServedRuns, Served, Exists
<1>3. CASE c.kind = "launch"
  <2>1. CASE c.arg \notin defs
    BY <1>3, <2>1 DEF AnsweredAs, ServedRuns, Served
  <2>2. CASE c.arg \in defs /\ ActiveOf(c.arg) # {}
    <3> DEFINE i == CHOOSE i \in ActiveOf(c.arg) : TRUE
    <3>1. i \in DOMAIN runs
      BY <2>2 DEF ActiveOf
    <3>2. /\ runs' = [runs EXCEPT ![i].asked = TRUE]
          /\ calls' = [calls EXCEPT ![c.slot].answer = "ok", ![c.slot].to = i]
      BY <1>3, <2>2 DEF AnsweredAs, ServedRuns, Served
    <3> HIDE DEF i
    <3> QED
      BY <1>3, <3>1, <3>2 DEF AnsweredAs, ServedRuns
  <2>3. CASE c.arg \in defs /\ ActiveOf(c.arg) = {}
    BY <1>3, <2>3 DEF AnsweredAs, ServedRuns, Served
  <2> QED
    BY <2>1, <2>2, <2>3
<1>4. CASE c.kind = "saveDef"
  BY <1>4 DEF AnsweredAs, ServedRuns, Served
<1>5. CASE c.kind = "deleteDef"
  BY <1>5 DEF AnsweredAs, ServedRuns, Served
<1>6. CASE c.kind = "saveSched"
  BY <1>6 DEF AnsweredAs, ServedRuns, Served
<1>7. CASE c.kind = "deleteSched"
  BY <1>7 DEF AnsweredAs, ServedRuns, Served
<1>8. CASE c.kind = "load"
  BY <1>8 DEF AnsweredAs, ServedRuns, Served
<1>9. CASE c.kind = "loadDefs"
  BY <1>9 DEF AnsweredAs, ServedRuns, Served
<1> QED
  BY <1>1, <1>2, <1>3, <1>4, <1>5, <1>6, <1>7, <1>8, <1>9 DEF Kinds

LEMMA ServeKeeps == ASSUME ListInv, NEW s \in Slots, ServeCall(s) PROVE ListInv'
<1>0. PICK c : c = calls[s]
  OBVIOUS
<1>1. CountedRuns(runs) /\ NetInv(calls, view.page) /\ DrawnInv(view)
  BY DEF ListInv
<1>2. c.kind # "idle" /\ Served(c) /\ view' = view
  BY <1>0 DEF ServeCall
<1>3. c.kind \in Kinds
  BY <1>0, <1>1, <1>2 DEF NetInv, CallInv
<1>4. AnsweredAs(c) /\ ServedRuns(c)
  BY <1>2, <1>3, ServedIs
<1>5. NetInv(calls', view.page)
  <2>1. CASE calls' = [calls EXCEPT ![c.slot].answer = "refused"]
    BY <2>1, <1>0, <1>1, <1>2, RefusedKeeps
  <2>2. ASSUME NEW to, calls' = [calls EXCEPT ![c.slot].answer = "ok", ![c.slot].to = to],
               c.kind = "load" => to = AnswerTo(view.page, c.arg)
        PROVE NetInv(calls', view.page)
    <3>1. c.kind = "load" /\ view.page = "scans" => RunRows(to)
      BY <1>1, <2>2, LoadIs
    <3> QED
      BY <3>1, <2>2, <1>0, <1>1, <1>2, AcceptedKeeps
  <2> QED
    BY <2>1, <2>2, <1>4 DEF AnsweredAs
<1>6. \A i \in DOMAIN runs : runs[i] = RunOf(i, runs[i])
  BY <1>1 DEF CountedRuns
<1>7. CountedRuns(runs')
  <2>1. CASE runs' = runs
    BY <2>1, <1>1
  <2>2. ASSUME NEW i \in DOMAIN runs, NEW v, NEW w, runs' = [runs EXCEPT ![i].status = v, ![i].stop = w]
        PROVE CountedRuns(runs')
    <3> DEFINE e == [runs[i] EXCEPT !.status = v]
               d == [e EXCEPT !.stop = w]
    <3>1. e = [runs[i] EXCEPT !.status = v] /\ d = [e EXCEPT !.stop = w]
      OBVIOUS
    <3>2. runs' = [runs EXCEPT ![i] = d]
      BY <2>2
    <3> HIDE DEF e, d
    <3>3. e = RunOf(i, e)
      BY ONLY <3>1, <1>6, i \in DOMAIN runs, RunEdited
    <3>4. d = RunOf(i, d)
      <4>1. d = [e EXCEPT !.stop = w]
        BY <3>1
      <4> QED
        BY ONLY <4>1, <3>3, RunEdited
    <3> QED
      BY <1>1, <3>2, <3>4, RunPut
  <2>3. ASSUME NEW i \in DOMAIN runs, NEW v, runs' = [runs EXCEPT ![i].status = v] \/ runs' = [runs EXCEPT ![i].asked = v]
        PROVE CountedRuns(runs')
    <3>1. PICK d : /\ runs' = [runs EXCEPT ![i] = d]
                   /\ d = [runs[i] EXCEPT !.status = v] \/ d = [runs[i] EXCEPT !.asked = v]
      BY <2>3
    <3>2. d = RunOf(i, d)
      BY ONLY <3>1, <1>6, i \in DOMAIN runs, RunEdited
    <3> QED
      BY <1>1, <3>1, <3>2, RunPut
  <2>4. CASE runs' = Append(runs, NewRun(Len(runs) + 1, c.arg))
    <3>1. NewRun(Len(runs) + 1, c.arg) = RunOf(Len(runs) + 1, NewRun(Len(runs) + 1, c.arg))
      BY DEF NewRun, RunOf
    <3> QED
      BY ONLY <2>4, <3>1, <1>1, RunAdded
  <2>5. CASE runs' = [i \in DOMAIN runs |-> IF runs[i].def = c.arg THEN [runs[i] EXCEPT !.def = NoDef] ELSE runs[i]]
    <3>1. ASSUME NEW i \in DOMAIN runs PROVE runs'[i] = RunOf(i, runs'[i])
      <4>1. CASE runs[i].def = c.arg
        <5>1. runs'[i] = [runs[i] EXCEPT !.def = NoDef]
          BY <2>5, <4>1
        <5> QED
          BY ONLY <5>1, <1>6, i \in DOMAIN runs, RunEdited
      <4>2. CASE runs[i].def # c.arg
        <5>1. runs'[i] = runs[i]
          BY <2>5, <4>2
        <5> QED
          BY <5>1, <1>6
      <4> QED
        BY <4>1, <4>2
    <3>2. runs' = [i \in DOMAIN runs |-> runs'[i]]
      BY <2>5
    <3> QED
      BY <1>1, <3>1, <3>2, RunsChanged
  <2>9. CASE runs' = [i \in DOMAIN runs |-> IF runs[i].sched = c.arg THEN [runs[i] EXCEPT !.sched = NoDef] ELSE runs[i]]
    <3>1. ASSUME NEW i \in DOMAIN runs PROVE runs'[i] = RunOf(i, runs'[i])
      <4>1. CASE runs[i].sched = c.arg
        <5>1. runs'[i] = [runs[i] EXCEPT !.sched = NoDef]
          BY <2>9, <4>1
        <5> QED
          BY ONLY <5>1, <1>6, i \in DOMAIN runs, RunEdited
      <4>2. CASE runs[i].sched # c.arg
        <5>1. runs'[i] = runs[i]
          BY <2>9, <4>2
        <5> QED
          BY <5>1, <1>6
      <4> QED
        BY <4>1, <4>2
    <3>2. runs' = [i \in DOMAIN runs |-> runs'[i]]
      BY <2>9
    <3> QED
      BY <1>1, <3>1, <3>2, RunsChanged
  <2>6. CASE c.arg \in DOMAIN runs /\ \E v, w : runs' = [runs EXCEPT ![c.arg].status = v, ![c.arg].stop = w]
    BY <2>2, <2>6
  <2>7. CASE c.arg \in DOMAIN runs /\ \E v : runs' = [runs EXCEPT ![c.arg].status = v]
    BY <2>3, <2>7
  <2>8. CASE \E i \in DOMAIN runs : runs' = [runs EXCEPT ![i].asked = TRUE]
    BY <2>3, <2>8
  <2> QED
    BY <1>4, <2>1, <2>4, <2>5, <2>6, <2>7, <2>8, <2>9 DEF ServedRuns
<1> QED
  BY <1>1, <1>2, <1>5, <1>7 DEF ListInv

\* An answer navigates: the page is mounted anew, stays as it is, or is now
\* about something else.
LEMMA GoesIs ==
  ASSUME NEW s, NEW page, NEW arg, Goes(s, page, arg)
  PROVE  \/ view' = Mounted(page, arg) /\ calls' = [Left EXCEPT ![s] = Idle]
         \/ /\ calls' = [calls EXCEPT ![s] = Idle]
            /\ view' = view \/ \E a, o : view' = [view EXCEPT !.arg = a, !.owed = o]
<1>1. CASE page # view.page
  BY <1>1 DEF Goes
<1>2. CASE page = view.page /\ (page # "detail" \/ arg = view.arg)
  BY <1>2 DEF Goes, Stays
<1>3. CASE page = view.page /\ ~(page # "detail" \/ arg = view.arg)
  <2>1. view' = [view EXCEPT !.arg = arg, !.owed = view.owed \cup {arg}] /\ calls' = [calls EXCEPT ![s] = Idle]
    BY <1>3 DEF Goes, Stays
  <2> QED
    BY <2>1
<1> QED
  BY <1>1, <1>2, <1>3

\* An answer arrives.
LEMMA ArriveIs ==
  ASSUME NEW s \in Slots, CallInv(calls[s], s, view.page), Arrive(s)
  PROVE  \/ /\ \E page, arg : view' = Mounted(page, arg)
            /\ calls' = [Left EXCEPT ![s] = Idle]
         \/ /\ calls' = [calls EXCEPT ![s] = Idle]
            /\ \/ view' = view
               \/ view' = [view EXCEPT !.loadError = TRUE]
               \/ /\ calls[s].kind = "load" /\ calls[s].answer = "ok"
                  /\ view' = [view EXCEPT !.data = calls[s].to, !.loadError = FALSE]
               \/ \E d : view' = [view EXCEPT !.defs = d]
               \/ \E o : view' = [view EXCEPT !.owed = o]
               \/ \E o : view' = [view EXCEPT !.owesDefs = o]
               \/ \E a, o : view' = [view EXCEPT !.arg = a, !.owed = o]
               \/ \E o : view' = [[view EXCEPT !.owesDefs = o] EXCEPT !.tab = "defs", !.dialog = FALSE]
               \/ \E o : view' = [[view EXCEPT !.owed = o] EXCEPT !.dialog = FALSE]
               \/ view' = [view EXCEPT !.error = TRUE]
<1>1. /\ calls[s].kind \in Kinds /\ calls[s].live \in BOOLEAN /\ calls[s].answer \in {"ok", "refused"}
  BY DEF CallInv, Arrive
<1>2. CASE calls[s].answer = "ok"
  <2>1. CASE calls[s].kind = "load"
    BY <1>2, <2>1, <1>1 DEF Arrive, Stays
  <2>2. CASE calls[s].kind = "loadDefs"
    BY <1>2, <2>2, <1>1 DEF Arrive, Stays
  <2>3. CASE calls[s].kind = "launch"
    <3>1. Goes(s, "detail", calls[s].to)
      BY <1>2, <2>3 DEF Arrive
    <3> QED
      BY <3>1, GoesIs
  <2>4. CASE calls[s].kind = "delete"
    <3>1. CASE calls[s].from = "detail"
      <4>1. Goes(s, "scans", FirstArg("scans"))
        BY <1>2, <2>4, <3>1 DEF Arrive
      <4> QED
        BY <4>1, GoesIs
    <3>2. CASE calls[s].from # "detail"
      BY <1>2, <2>4, <3>2, <1>1 DEF Arrive, Stays, Owes
    <3> QED
      BY <3>1, <3>2
  <2>5. CASE calls[s].kind \in {"cancel", "deleteSched"}
    BY <1>2, <2>5, <1>1 DEF Arrive, Stays, Owes
  <2>6. CASE calls[s].kind \in {"deleteDef", "saveDef"}
    BY <1>2, <2>6, <1>1 DEF Arrive, Stays, OwesDefs
  <2>7. CASE calls[s].kind = "saveSched"
    BY <1>2, <2>7, <1>1 DEF Arrive, Stays, Owes
  <2> QED
    BY <1>1, <2>1, <2>2, <2>3, <2>4, <2>5, <2>6, <2>7 DEF Kinds
<1>3. CASE calls[s].answer = "refused"
  BY <1>3, <1>1 DEF Arrive, Stays
<1> QED
  BY <1>1, <1>2, <1>3

LEMMA ArriveKeeps == ASSUME ListInv, NEW s \in Slots, Arrive(s) PROVE ListInv'
<1>1. CountedRuns(runs) /\ NetInv(calls, view.page) /\ DrawnInv(view) /\ runs' = runs
  BY DEF ListInv, Arrive
<1>2. CallInv(calls[s], s, view.page)
  BY <1>1 DEF NetInv
<1>3. CASE /\ \E page, arg : view' = Mounted(page, arg)
           /\ calls' = [Left EXCEPT ![s] = Idle]
  <2>1. DrawnInv(view')
    BY <1>3, MountedDraws
  <2>2. NetInv(Left, view'.page)
    BY <1>1, LeftKeeps
  <2>3. NetInv(calls', view'.page)
    BY <1>3, <2>2, IdleFits, PutKeeps
  <2> QED
    BY <1>1, <2>1, <2>3 DEF ListInv
<1>4. ASSUME calls' = [calls EXCEPT ![s] = Idle], DrawnInv(view'), view'.page = view.page
      PROVE ListInv'
  <2>1. NetInv(calls', view'.page)
    BY <1>1, <1>4, IdleFits, PutKeeps
  <2> QED
    BY <1>1, <1>4, <2>1 DEF ListInv
<1>5. CASE calls' = [calls EXCEPT ![s] = Idle] /\ view' = view
  BY <1>1, <1>4, <1>5
<1>6. CASE calls' = [calls EXCEPT ![s] = Idle] /\ view' = [view EXCEPT !.loadError = TRUE]
  <2>1. DrawnInv(view') /\ view'.page = view.page
    BY <1>1, <1>6, PageEdited
  <2> QED
    BY <1>4, <1>6, <2>1
<1>7. CASE /\ calls' = [calls EXCEPT ![s] = Idle] /\ calls[s].kind = "load" /\ calls[s].answer = "ok"
           /\ view' = [view EXCEPT !.data = calls[s].to, !.loadError = FALSE]
  <2>1. PICK given : given = [view EXCEPT !.data = calls[s].to]
    OBVIOUS
  <2>2. view.page = "scans" => RunRows(calls[s].to)
    BY <1>2, <1>7 DEF CallInv
  <2>3. DrawnInv(given) /\ given.page = view.page
    BY <1>1, <2>1, <2>2, PageGiven
  <2>4. view' = [given EXCEPT !.loadError = FALSE]
    BY <1>7, <2>1
  <2>5. DrawnInv(view') /\ view'.page = given.page
    BY <2>3, <2>4, PageEdited
  <2> QED
    BY <1>4, <1>7, <2>3, <2>5
<1>8. ASSUME NEW x, calls' = [calls EXCEPT ![s] = Idle],
             \/ view' = [view EXCEPT !.defs = x] \/ view' = [view EXCEPT !.owed = x]
             \/ view' = [view EXCEPT !.owesDefs = x] \/ view' = [view EXCEPT !.error = x]
      PROVE ListInv'
  <2>1. DrawnInv(view') /\ view'.page = view.page
    BY <1>1, <1>8, PageEdited
  <2> QED
    BY <1>4, <1>8, <2>1
<1>9. ASSUME NEW o, calls' = [calls EXCEPT ![s] = Idle],
             \/ view' = [[view EXCEPT !.owesDefs = o] EXCEPT !.tab = "defs", !.dialog = FALSE]
             \/ view' = [[view EXCEPT !.owed = o] EXCEPT !.dialog = FALSE]
      PROVE ListInv'
  <2>1. PICK owes : owes = [view EXCEPT !.owed = o]
    OBVIOUS
  <2>2. PICK owesDefs : owesDefs = [view EXCEPT !.owesDefs = o]
    OBVIOUS
  <2>3. PICK tabbed : tabbed = [owesDefs EXCEPT !.tab = "defs"]
    OBVIOUS
  <2>4. DrawnInv(owes) /\ owes.page = view.page
    BY <1>1, <2>1, PageEdited
  <2>5. DrawnInv(owesDefs) /\ owesDefs.page = view.page
    BY <1>1, <2>2, PageEdited
  <2>6. DrawnInv(tabbed) /\ tabbed.page = view.page
    BY <2>3, <2>5, PageEdited
  <2>7. view' = [tabbed EXCEPT !.dialog = FALSE] \/ view' = [owes EXCEPT !.dialog = FALSE]
    BY <1>9, <2>1, <2>2, <2>3
  <2>8. DrawnInv(view') /\ view'.page = view.page
    BY <2>4, <2>6, <2>7, PageEdited
  <2> QED
    BY <1>4, <1>9, <2>8
<1>10. ASSUME NEW a, NEW o, calls' = [calls EXCEPT ![s] = Idle], view' = [view EXCEPT !.arg = a, !.owed = o]
       PROVE ListInv'
  <2>1. PICK moved : moved = [view EXCEPT !.arg = a]
    OBVIOUS
  <2>2. DrawnInv(moved) /\ moved.page = view.page
    BY <1>1, <2>1, PageEdited
  <2>3. view' = [moved EXCEPT !.owed = o]
    BY <1>10, <2>1
  <2>4. DrawnInv(view') /\ view'.page = view.page
    BY <2>2, <2>3, PageEdited
  <2> QED
    BY <1>4, <1>10, <2>4
<1> QED
  BY <1>2, <1>3, <1>5, <1>6, <1>7, <1>8, <1>9, <1>10, ArriveIs

LEMMA LoseKeeps == ASSUME ListInv, NEW s \in Slots, LoseCall(s) PROVE ListInv'
<1>1. CountedRuns(runs) /\ NetInv(calls, view.page) /\ DrawnInv(view) /\ runs' = runs
  BY DEF ListInv, LoseCall
<1>2. calls' = [calls EXCEPT ![s] = Idle]
  BY DEF LoseCall, Stays
<1>3. view' = view \/ view' = [view EXCEPT !.loadError = TRUE] \/ view' = [view EXCEPT !.error = TRUE]
  BY DEF LoseCall, Stays
<1>4. DrawnInv(view') /\ view'.page = view.page
  BY <1>1, <1>3, PageEdited
<1>5. NetInv(calls', view'.page)
  BY <1>1, <1>2, <1>4, IdleFits, PutKeeps
<1> QED
  BY <1>1, <1>4, <1>5 DEF ListInv

LEMMA WorkKeeps == ASSUME ListInv, NEW i \in DOMAIN runs, Work(i) PROVE ListInv'
<1>1. CountedRuns(runs) /\ NetInv(calls, view.page) /\ DrawnInv(view) /\ calls' = calls /\ view' = view
  BY DEF ListInv, Work
<1>2. PICK r : r = runs[i]
  OBVIOUS
<1>3. r = RunOf(i, r)
  BY <1>1, <1>2 DEF CountedRuns
<1>4. PICK new : /\ runs' = [runs EXCEPT ![i] = new]
                 /\ \/ \E v : new = [r EXCEPT !.status = v]
                    \/ \E v : new = [r EXCEPT !.phase = v]
                    \/ new = [r EXCEPT !.status = "completed", !.nc = 0]
  BY <1>2 DEF Work
<1>5. new = RunOf(i, new)
  <2>1. CASE \/ \E v : new = [r EXCEPT !.status = v]
             \/ \E v : new = [r EXCEPT !.phase = v]
    BY <2>1, <1>3, RunEdited
  <2>2. CASE new = [r EXCEPT !.status = "completed", !.nc = 0]
    <3>1. PICK e : e = [r EXCEPT !.status = "completed"]
      OBVIOUS
    <3>2. e = RunOf(i, e)
      BY <3>1, <1>3, RunEdited
    <3>3. new = [e EXCEPT !.nc = 0]
      BY <2>2, <3>1
    <3> QED
      BY <3>2, <3>3, RunEdited
  <2> QED
    BY <1>4, <2>1, <2>2
<1>6. CountedRuns(runs')
  BY <1>1, <1>4, <1>5, RunPut
<1> QED
  BY <1>1, <1>6 DEF ListInv

\* A click that sends a request, or that only the page sees.
LEMMA WriteKeeps == ASSUME ListInv, NEW kind \in Kinds, NEW arg, WriteCall(kind, arg) PROVE ListInv'
<1>1. NetInv(calls', view.page)
  BY SendKeeps DEF ListInv, WriteCall
<1> QED
  BY <1>1 DEF ListInv, WriteCall

LEMMA ShownKeeps ==
  ASSUME ListInv, NEW new, Shown(new), DrawnInv(new), new.page = view.page
  PROVE  ListInv'
  BY DEF ListInv, Shown

LEMMA ListInvNext == ListInv /\ [PageNext]_pageVars => ListInv'
<1> SUFFICES ASSUME ListInv, [PageNext]_pageVars PROVE ListInv'
  OBVIOUS
<1>0. CountedRuns(runs) /\ NetInv(calls, view.page) /\ DrawnInv(view)
  BY DEF ListInv
<1>1. ASSUME NEW x, view' = [view EXCEPT !.owed = x] \/ view' = [view EXCEPT !.owesDefs = x], NetInv(calls', view.page), runs' = runs PROVE ListInv'
  <2>1. DrawnInv(view') /\ view'.page = view.page
    BY <1>0, <1>1, PageEdited
  <2> QED
    BY <1>0, <1>1, <2>1 DEF ListInv
<1>2. CASE ReloadPage
  <2>1. PICK arg : SendCall("load", arg) /\ view' = [view EXCEPT !.owed = @ \ {arg}]
    BY <1>2 DEF ReloadPage, Loading
  <2>2. NetInv(calls', view.page)
    BY <1>0, <2>1, SendKeeps DEF Kinds
  <2>3. runs' = runs
    BY <1>2 DEF ReloadPage, Loading
  <2> QED
    BY <1>1, <2>1, <2>2, <2>3
<1>3. CASE ReloadDefs
  <2>1. NetInv(calls', view.page)
    BY <1>0, <1>3, SendKeeps DEF ReloadDefs, Kinds
  <2> QED
    BY <1>1, <1>3, <2>1 DEF ReloadDefs
<1>4. CASE CancelRun \/ Delete \/ Rescan \/ Launch \/ DeleteDef \/ DeleteSched \/ SaveDialog
  <2>1. \E kind \in Kinds : \E arg : WriteCall(kind, arg)
    BY <1>4 DEF CancelRun, Delete, Rescan, Launch, DeleteDef, DeleteSched, SaveDialog, Kinds
  <2> QED
    BY <2>1, WriteKeeps
<1>5. ASSUME NEW new, Shown(new), NEW x,
             \/ new = [view EXCEPT !.dialog = x] \/ new = [view EXCEPT !.tab = x] \/ new = [view EXCEPT !.open = x]
             \/ new = [view EXCEPT !.sort = x] \/ new = [view EXCEPT !.ticked = x]
      PROVE ListInv'
  <2>1. DrawnInv(new) /\ new.page = view.page
    BY <1>0, <1>5, PageEdited
  <2> QED
    BY <1>5, <2>1, ShownKeeps
<1>6. CASE Dialog
  <2>1. Shown([view EXCEPT !.dialog = ~view.dialog])
    BY <1>6 DEF Dialog
  <2> QED
    BY <2>1, <1>5
<1>7. CASE SetTab
  <2>1. PICK tab : Shown([view EXCEPT !.tab = tab])
    BY <1>7 DEF SetTab
  <2> QED
    BY <2>1, <1>5
<1>8. CASE Unfold
  <2>1. PICK open : Shown([view EXCEPT !.open = open])
    BY <1>8 DEF Unfold
  <2> QED
    BY <2>1, <1>5
<1>9. CASE SetGrouped
  <2>1. PICK a : a = [view EXCEPT !.grouped = ~view.grouped]
    OBVIOUS
  <2>2. PICK b : b = [a EXCEPT !.open = {}]
    OBVIOUS
  <2>3. PICK c : c = [b EXCEPT !.sort = "date desc"]
    OBVIOUS
  <2>4. PICK d : d = [c EXCEPT !.ticked = {}]
    OBVIOUS
  <2>5. Shown(d)
    BY <1>9, <2>1, <2>2, <2>3, <2>4 DEF SetGrouped
  <2>6. DrawnInv(a) /\ a.page = view.page
    BY <1>0, <2>1, PageEdited
  <2>7. DrawnInv(b) /\ b.page = view.page
    BY <2>2, <2>6, PageEdited
  <2>8. DrawnInv(c) /\ c.page = view.page
    BY <2>3, <2>7, PageEdited
  <2>9. DrawnInv(d) /\ d.page = view.page
    BY <2>4, <2>8, PageEdited
  <2> QED
    BY <2>5, <2>9, ShownKeeps
<1>10. CASE SortTable
  <2>1. Shown([view EXCEPT !.sort = Cycle(view.sort)])
    BY <1>10 DEF SortTable
  <2> QED
    BY <2>1, <1>5
<1>11. CASE TickFilter
  <2>1. PICK ticked : Shown([view EXCEPT !.ticked = ticked])
    BY <1>11 DEF TickFilter
  <2> QED
    BY <2>1, <1>5
<1>12. CASE ResetTable
  <2>1. PICK a : a = [view EXCEPT !.ticked = {}]
    OBVIOUS
  <2>2. PICK b : b = [a EXCEPT !.sort = "date desc"]
    OBVIOUS
  <2>3. Shown(b)
    BY <1>12, <2>1, <2>2 DEF ResetTable
  <2>4. DrawnInv(a) /\ a.page = view.page
    BY <1>0, <2>1, PageEdited
  <2>5. DrawnInv(b) /\ b.page = view.page
    BY <2>2, <2>4, PageEdited
  <2> QED
    BY <2>3, <2>5, ShownKeeps
<1>13. CASE SetArg
  <2>1. PICK arg, owed : Shown([view EXCEPT !.arg = arg, !.owed = owed])
    BY <1>13 DEF SetArg
  <2>2. PICK a : a = [view EXCEPT !.arg = arg]
    OBVIOUS
  <2>3. PICK b : b = [a EXCEPT !.owed = owed]
    OBVIOUS
  <2>4. Shown(b)
    BY <2>1, <2>2, <2>3
  <2>5. DrawnInv(a) /\ a.page = view.page
    BY <1>0, <2>2, PageEdited
  <2>6. DrawnInv(b) /\ b.page = view.page
    BY <2>3, <2>5, PageEdited
  <2> QED
    BY <2>4, <2>6, ShownKeeps
<1>14. CASE FollowLink
  <2>1. DrawnInv(view') /\ NetInv(Left, view'.page)
    BY <1>0, <1>14, MountedDraws, LeftKeeps DEF FollowLink
  <2> QED
    BY <1>0, <1>14, <2>1 DEF FollowLink, ListInv
<1>15. CASE \E s \in Slots : ServeCall(s) \/ Arrive(s) \/ LoseCall(s)
  BY <1>15, ServeKeeps, ArriveKeeps, LoseKeeps
<1>16. CASE \E i \in DOMAIN runs : Work(i)
  BY <1>16, WorkKeeps
<1>18. CASE \E d \in Defs : Trigger(d)
  <2>1. PICK d \in Defs, own \in BOOLEAN :
          runs' = Append(runs, [NewRun(Len(runs) + 1, d) EXCEPT !.sched = d, !.mine = own, !.asked = own])
    BY <1>18 DEF Trigger
  <2>2. PICK new : new = [NewRun(Len(runs) + 1, d) EXCEPT !.sched = d, !.mine = own, !.asked = own]
    OBVIOUS
  <2>3. new = RunOf(Len(runs) + 1, new)
    BY <2>2 DEF NewRun, RunOf
  <2>4. CountedRuns(runs')
    BY <1>0, <2>1, <2>2, <2>3, RunAdded
  <2> QED
    BY <1>0, <1>18, <2>4 DEF Trigger, ListInv
<1>17. CASE UNCHANGED pageVars
  BY <1>0, <1>17 DEF pageVars, ListInv
<1> QED
  BY <1>2, <1>3, <1>4, <1>6, <1>7, <1>8, <1>9, <1>10, <1>11, <1>12, <1>13, <1>14, <1>15, <1>16, <1>17, <1>18 DEF PageNext

LEMMA ListInvAlways == PageSpec => []ListInv
  BY ListInvInit, ListInvNext, PTL DEF PageSpec

\* The property of the run web_app, for any definitions, runs and clicks: an
\* answer, whatever the server did since it was asked for and whatever other
\* answers were late or lost, shows each of its runs in one place of one group,
\* that of its scan, every group newest first, the scans by their newest run.
THEOREM EveryRowListedOnceAlways == PageSpec => []EveryRowListedOnce
<1>1. ListInv => EveryRowListedOnce
  <2> SUFFICES ASSUME ListInv, view.page = "scans", view.data # Nothing PROVE EveryRowListedOnce
    BY DEF EveryRowListedOnce
  <2>1. RunRows(view.data)
    BY DEF ListInv, DrawnInv
  <2>2. RunsShown = {view.data[i] : i \in DOMAIN view.data}
    BY DEF RunsShown
  <2>3. ListedOnce(view.data, RunsShown)
    BY <2>1, <2>2, GroupsTell
  <2> QED
    BY <2>3 DEF EveryRowListedOnce, ListedOnce
<1> QED
  BY <1>1, ListInvAlways, PTL
=============================================================================
