---------------------------- MODULE ResultsProofs ---------------------------
(***************************************************************************)
(* Proofs about RunResults and ResultViews, for any reports, plans and     *)
(* findings, any numbers of runs and days, any limits of the lists: what   *)
(* the card of the evolution counts adds up, the posture is that of the    *)
(* newest observations, and the page of a run lists its endpoints once.    *)
(***************************************************************************)
EXTENDS ResultViews, FiniteSetTheorems, WellFoundedInduction, TLAPS

RunFields == {"id", "def", "day", "plan", "status", "endpoints", "skipped"}
RunOK(r) == /\ DOMAIN r = RunFields
            /\ r.id \in 1 .. created
            /\ r.day \in Nat /\ r.day <= today
            /\ ReportOK(r.endpoints)

\* The runs are numbered in the order they finished, on days that follow.
StoredInv ==
  /\ created \in Nat /\ today \in Nat
  /\ IsFiniteSet(stored)
  /\ \A r \in stored : RunOK(r)
  /\ \A r, s \in stored : r.id = s.id => r = s
  /\ \A r, s \in stored : r.id < s.id => r.day <= s.day
-----------------------------------------------------------------------------
(* Numbers and sizes of sets. *)

LEMMA NatLess == IsWellFoundedOn({p \in Nat \X Nat : p[1] < p[2]}, Nat)
<1>1. IsWellFoundedOn(OpToRel(<, Nat), Nat)
  BY NatLessThanWellFounded
<1>2. OpToRel(<, Nat) = {p \in Nat \X Nat : p[1] < p[2]}
  BY DEF OpToRel
<1> QED BY <1>1, <1>2

LEMMA LeastNat ==
  ASSUME NEW T, T \subseteq Nat, T # {}
  PROVE  \E x \in T : \A y \in T : x <= y
<1> DEFINE R == {p \in Nat \X Nat : p[1] < p[2]}
<1>1. IsWellFoundedOn(R, Nat)
  BY NatLess
<1> HIDE DEF R
<1>2. PICK x \in T : \A y \in T : <<y, x>> \notin R
  BY <1>1, WFMin
<1>3. ASSUME NEW y \in T PROVE x <= y
  <2>1. ~(<<y, x>> \in {p \in Nat \X Nat : p[1] < p[2]})
    BY <1>2 DEF R
  <2>2. x \in Nat /\ y \in Nat
    OBVIOUS
  <2> QED BY <2>1, <2>2
<1> QED BY <1>3

\* Of numbered things whose numbers are bounded, one has the greatest, and one
\* the least.
LEMMA GreatestId ==
  ASSUME NEW rs, rs # {}, NEW n \in Nat, \A r \in rs : r.id \in Nat /\ r.id <= n
  PROVE  \E x \in rs : \A y \in rs : y.id <= x.id
<1> DEFINE T == {n - r.id : r \in rs}
<1>1. T \subseteq Nat /\ T # {}
  OBVIOUS
<1> HIDE DEF T
<1>2. PICK t \in T : \A u \in T : t <= u
  BY <1>1, LeastNat
<1>3. PICK x \in rs : t = n - x.id
  BY <1>2 DEF T
<1>4. ASSUME NEW y \in rs PROVE y.id <= x.id
  <2>1. n - y.id \in T
    BY DEF T
  <2> QED BY <1>2, <1>3, <2>1
<1> QED BY <1>4

LEMMA LeastId ==
  ASSUME NEW rs, rs # {}, \A r \in rs : r.id \in Nat
  PROVE  \E x \in rs : \A y \in rs : x.id <= y.id
<1> DEFINE T == {r.id : r \in rs}
<1>1. T \subseteq Nat /\ T # {}
  OBVIOUS
<1> HIDE DEF T
<1>2. PICK t \in T : \A u \in T : t <= u
  BY <1>1, LeastNat
<1>3. PICK x \in rs : t = x.id
  BY <1>2 DEF T
<1>4. ASSUME NEW y \in rs PROVE x.id <= y.id
  BY <1>2, <1>3 DEF T
<1> QED BY <1>4

\* A function that is one to one between two sets makes them of one size.
LEMMA SameSize ==
  ASSUME NEW S, NEW T, IsFiniteSet(S), NEW f \in [S -> T],
         \A x, y \in S : f[x] = f[y] => x = y,
         \A t \in T : \E x \in S : f[x] = t
  PROVE  IsFiniteSet(T) /\ Cardinality(T) = Cardinality(S)
<1>1. f \in Bijection(S, T)
  BY DEF Bijection, Injection, Surjection, IsInjective
<1>2. ExistsBijection(S, T)
  BY <1>1 DEF ExistsBijection
<1> QED BY <1>2, FS_Bijection

\* The sizes of two disjoint parts add up.
LEMMA TwoParts ==
  ASSUME NEW S, IsFiniteSet(S), NEW A, NEW B, S = A \cup B, A \cap B = {}
  PROVE  /\ IsFiniteSet(A) /\ IsFiniteSet(B)
         /\ Cardinality(A) \in Nat /\ Cardinality(B) \in Nat
         /\ Cardinality(S) = Cardinality(A) + Cardinality(B)
<1>1. A \in SUBSET S /\ B \in SUBSET S
  OBVIOUS
<1>2. IsFiniteSet(A) /\ IsFiniteSet(B)
  BY <1>1, FS_Subset
<1>3. Cardinality(A) \in Nat /\ Cardinality(B) \in Nat
  BY <1>2, FS_CardinalityType
<1>4. Cardinality(A \cup B) = Cardinality(A) + Cardinality(B) - Cardinality(A \cap B)
  BY <1>2, FS_Union
<1>5. Cardinality(A \cap B) = 0
  BY FS_EmptySet
<1> QED BY <1>2, <1>3, <1>4, <1>5
-----------------------------------------------------------------------------
(* The runs that are kept. *)

LEMMA InitStored == ResultsInit => StoredInv
BY FS_EmptySet DEF ResultsInit, StoredInv

LEMMA FinishStored == ASSUME StoredInv, NEW d \in Definitions, Finish(d) PROVE StoredInv'
<1>1. PICK o \in Outcomes[d] :
        stored' = stored \cup {[id |-> created + 1, def |-> d, day |-> today, plan |-> Plan[d][today],
                                status |-> final_status(o), endpoints |-> o.endpoints, skipped |-> o.skipped]}
  BY DEF Finish
<1> DEFINE n == [id |-> created + 1, def |-> d, day |-> today, plan |-> Plan[d][today],
                 status |-> final_status(o), endpoints |-> o.endpoints, skipped |-> o.skipped]
<1>2. created' = created + 1 /\ today' = today /\ created \in Nat /\ today \in Nat
  BY DEF Finish, StoredInv
<1>3. DOMAIN n = RunFields /\ n.id = created + 1 /\ n.day = today /\ n.endpoints = o.endpoints
  BY DEF RunFields
<1> HIDE DEF n
<1>4. stored' = stored \cup {n}
  BY <1>1 DEF n
<1>5. ReportOK(o.endpoints)
  BY ResultsAssumption
<1>6. \A r \in stored : RunOK(r)
  BY DEF StoredInv
<1>7. \A r \in stored' : RunOK(r)'
  BY <1>2, <1>3, <1>4, <1>5, <1>6 DEF RunOK
<1>8. IsFiniteSet(stored')
  BY <1>4, FS_AddElement DEF StoredInv
<1>9. \A r \in stored : r.id \in Nat /\ r.id < n.id /\ r.day <= n.day
  BY <1>2, <1>3, <1>6 DEF RunOK
<1>10. n.id \in Nat /\ n.day \in Nat
  BY <1>2, <1>3
<1>11. \A r, s \in stored' : (r.id = s.id => r = s) /\ (r.id < s.id => r.day <= s.day)
  <2> TAKE r, s \in stored'
  <2>1. CASE r \in stored /\ s \in stored
    BY <2>1 DEF StoredInv
  <2>2. CASE r = n \/ s = n
    BY <1>4, <1>9, <1>10, <2>2
  <2> QED BY <1>4, <2>1, <2>2
<1> QED BY <1>2, <1>7, <1>8, <1>11 DEF StoredInv

LEMMA DeleteRunStored == ASSUME StoredInv, DeleteRun PROVE StoredInv'
<1>1. PICK r \in stored : stored' = stored \ {r}
  BY DEF DeleteRun
<1>2. created' = created /\ today' = today
  BY DEF DeleteRun
<1>3. IsFiniteSet(stored')
  BY <1>1, FS_RemoveElement DEF StoredInv
<1> QED BY <1>1, <1>2, <1>3 DEF StoredInv, RunOK

LEMMA DeleteDefinitionStored ==
  ASSUME StoredInv, NEW d \in Definitions, DeleteDefinition(d) PROVE StoredInv'
<1> DEFINE f == [r \in stored |-> IF r.def = d THEN [r EXCEPT !.def = NoDefinition] ELSE r]
<1>1. created' = created /\ today' = today
  BY DEF DeleteDefinition
<1>2. stored' = {f[r] : r \in stored}
  BY DEF DeleteDefinition
<1>3. \A r \in stored : /\ DOMAIN f[r] = RunFields /\ f[r].id = r.id /\ f[r].day = r.day
                        /\ f[r].endpoints = r.endpoints
  <2> TAKE r \in stored
  <2>1. DOMAIN r = RunFields
    BY DEF StoredInv, RunOK
  <2> QED BY <2>1 DEF RunFields
<1>4. f \in Surjection(stored, stored')
  BY <1>2 DEF Surjection
<1> HIDE DEF f
<1>5. IsFiniteSet(stored')
  BY <1>4, FS_Surjection DEF StoredInv
<1>6. \A r \in stored' : RunOK(r)'
  BY <1>1, <1>2, <1>3 DEF StoredInv, RunOK
<1>7. \A r, s \in stored' : (r.id = s.id => r = s) /\ (r.id < s.id => r.day <= s.day)
  BY <1>2, <1>3 DEF StoredInv
<1> QED BY <1>1, <1>5, <1>6, <1>7 DEF StoredInv

LEMMA NextStored == StoredInv /\ [ResultsNext]_resultVars => StoredInv'
<1> SUFFICES ASSUME StoredInv, [ResultsNext]_resultVars PROVE StoredInv'
  OBVIOUS
<1>1. CASE NextDay
  BY <1>1 DEF NextDay, StoredInv, RunOK
<1>2. CASE UNCHANGED resultVars
  BY <1>2 DEF resultVars, StoredInv, RunOK
<1> QED BY <1>1, <1>2, FinishStored, DeleteRunStored, DeleteDefinitionStored DEF ResultsNext

\* persist_results, delete_run: runs are numbered in the order they finished.
THEOREM StoredAlways == ResultsSpec => []StoredInv
BY InitStored, NextStored, PTL DEF ResultsSpec
-----------------------------------------------------------------------------
(* Choices among runs. *)

LEMMA Ids_ ==
  ASSUME StoredInv, NEW rs \in SUBSET stored
  PROVE  /\ created \in Nat
         /\ \A r \in rs : r.id \in Nat /\ r.id <= created /\ r.day \in Nat
         /\ \A r, s \in rs : r.id = s.id => r = s
BY DEF StoredInv, RunOK

LEMMA LatestIs ==
  ASSUME StoredInv, NEW rs \in SUBSET stored, rs # {}
  PROVE  /\ Latest(rs) \in rs /\ \A s \in rs : s.id <= Latest(rs).id
         /\ Newest(rs) = {Latest(rs)}
<1>1. \E x \in rs : \A y \in rs : y.id <= x.id
  BY Ids_, GreatestId
<1>2. Latest(rs) \in rs /\ \A s \in rs : s.id <= Latest(rs).id
  BY <1>1 DEF Latest
<1>3. \A r \in Newest(rs) : r.id = Latest(rs).id
  BY <1>2, Ids_ DEF Newest
<1> QED BY <1>2, <1>3, Ids_ DEF Newest

LEMMA EarliestIs ==
  ASSUME StoredInv, NEW rs \in SUBSET stored, rs # {}
  PROVE  \E x \in rs : Earliest(rs) = {x}
<1>1. PICK x \in rs : \A y \in rs : x.id <= y.id
  BY Ids_, LeastId
<1>2. \A r \in Earliest(rs) : r.id = x.id
  BY <1>1, Ids_ DEF Earliest
<1> QED BY <1>1, <1>2, Ids_ DEF Earliest

\* The last runs of some hold the last one.
LEMMA LastOfHas ==
  ASSUME StoredInv, NEW rs \in SUBSET stored, rs # {}, NEW n \in Nat \ {0}
  PROVE  LastOf(rs, n) \subseteq rs /\ Latest(rs) \in LastOf(rs, n)
<1>1. Later(rs, Latest(rs)) = {}
  BY LatestIs, Ids_ DEF Later
<1>2. Cardinality(Later(rs, Latest(rs))) = 0
  BY <1>1, FS_EmptySet
<1>3. Latest(rs) \in rs /\ 0 < n
  BY LatestIs
<1>4. Cardinality(Later(rs, Latest(rs))) < n
  BY <1>2, <1>3
<1>5. Latest(rs) \in LastOf(rs, n)
  <2>1. \A x : x \in LastOf(rs, n) <=> x \in rs /\ Cardinality(Later(rs, x)) < n
    BY DEF LastOf
  <2> QED BY <1>3, <1>4, <2>1
<1> QED BY <1>5 DEF LastOf

LEMMA RunOfId == ASSUME StoredInv, NEW r \in stored PROVE RunOf(r.id) = r
BY DEF StoredInv, RunOf
-----------------------------------------------------------------------------
(* evolution.py: the two reference runs. *)

LEMMA Reference ==
  ASSUME StoredInv, NEW d, NEW from \in Int, NEW to \in Int,
         NEW data, data = between(Finished, d, from, to), data.status = "ok"
  PROVE  \E old, new \in stored, shown \in SUBSET stored :
           /\ old.id < new.id /\ old.def = d /\ new.def = d
           /\ data.from = {RunInfo(old)} /\ data.to = {RunInfo(new)}
           /\ data.cmp = {summarize_comparison(old, new)}
           /\ data.series = Infos(shown)
           /\ shown # {} => new \in shown
           /\ \A r \in shown : r.id <= new.id
<1> DEFINE upto == UpTo(Finished, d, to)
           window == InWindow(Finished, d, from, to)
           from_run == FromRun(Finished, d, from, to)
           to_run == ToRun(Finished, d, to)
<1>1. /\ from <= to
      /\ to_run # {} /\ from_run # {} /\ from_run # to_run
      /\ data.from = Infos(from_run) /\ data.to = Infos(to_run)
      /\ data.cmp = {summarize_comparison(old, new) : old \in from_run, new \in to_run}
      /\ data.series = Infos(LastOf(window, MAX_SERIES))
  BY DEF between
<1>2. /\ upto \in SUBSET stored /\ window \in SUBSET upto /\ UpTo(Finished, d, from) \in SUBSET upto
      /\ \A r \in upto : r.def = d
  <2>1. Finished \subseteq stored
    BY DEF Finished, LastOf, Ended
  <2>2. \A r \in stored : r.day \in Nat
    BY Ids_
  <2> QED BY <1>1, <2>1, <2>2 DEF UpTo, InWindow
<1>3. upto # {} /\ to_run = Newest(upto)
  BY <1>1 DEF Newest, ToRun
<1>4. PICK new \in upto : to_run = {new} /\ \A r \in upto : r.id <= new.id
  BY <1>2, <1>3, LatestIs
<1>5. PICK old \in upto : from_run = {old}
  <2>1. CASE UpTo(Finished, d, from) # {}
    BY <1>2, <2>1, LatestIs DEF FromRun
  <2>2. CASE UpTo(Finished, d, from) = {}
    <3>1. window # {} /\ from_run = Earliest(window)
      BY <1>1, <2>2 DEF Earliest, FromRun
    <3>2. window \in SUBSET stored
      BY <1>2
    <3> QED BY <1>2, <3>1, <3>2, EarliestIs
  <2> QED BY <2>1, <2>2
<1>6. \A r, s \in upto : r.id \in Nat /\ r.day \in Nat /\ (r.id = s.id => r = s)
  BY <1>2, Ids_
<1>7. old.id < new.id
  BY <1>1, <1>4, <1>5, <1>6
<1> DEFINE shown == LastOf(window, MAX_SERIES)
<1>8. shown \in SUBSET window
  BY DEF LastOf
<1>9. shown # {} => new \in shown
  <2> SUFFICES ASSUME window # {} PROVE new \in shown
    BY <1>8
  <2>1. window \in SUBSET stored /\ MAX_SERIES \in Nat \ {0}
    BY <1>2, ResultsAssumption
  <2>2. Latest(window) \in window /\ Latest(window) \in shown
    BY <2>1, LatestIs, LastOfHas
  <2>3. new.day >= Latest(window).day
    <3>1. new \in stored /\ Latest(window) \in stored /\ Latest(window) \in upto
      BY <1>2, <2>2
    <3>2. Latest(window).id <= new.id
      BY <1>4, <3>1
    <3> QED BY <1>6, <3>1, <3>2 DEF StoredInv
  <2>4. new \in window
    BY <1>6, <2>2, <2>3 DEF InWindow
  <2>5. Latest(window) = new
    <3>1. Latest(window).id <= new.id /\ new.id <= Latest(window).id
      BY <1>2, <1>4, <2>1, <2>2, <2>4, LatestIs
    <3> QED BY <1>2, <1>6, <2>2, <3>1
  <2> QED BY <2>2, <2>5
<1>10. data.cmp = {summarize_comparison(old, new)} /\ data.from = {RunInfo(old)} /\ data.to = {RunInfo(new)}
  BY <1>1, <1>4, <1>5 DEF Infos
<1>11. /\ old \in stored /\ new \in stored /\ old.def = d /\ new.def = d
       /\ shown \in SUBSET stored /\ \A r \in shown : r.id <= new.id
  BY <1>2, <1>4, <1>8
<1> HIDE DEF shown
<1> QED BY <1>1, <1>7, <1>9, <1>10, <1>11 DEF shown
-----------------------------------------------------------------------------
(* comparison.py: findings by endpoint. *)

PairsOf(e) == {<<f, EndpointId(e)>> : f \in e.found}

LEMMA PairsFinite == ASSUME NEW r, ReportOK(r.endpoints) PROVE IsFiniteSet(Pairs(r))
<1> DEFINE all == {PairsOf(e) : e \in r.endpoints}
<1>1. Pairs(r) = UNION all
  BY DEF Pairs, PairsOf
<1>2. IsFiniteSet(all)
  <2> DEFINE g == [e \in r.endpoints |-> PairsOf(e)]
  <2>1. g \in Surjection(r.endpoints, all)
    BY DEF Surjection
  <2> HIDE DEF g
  <2> QED BY <2>1, FS_Surjection DEF ReportOK
<1>3. ASSUME NEW e \in r.endpoints PROVE IsFiniteSet(PairsOf(e))
  <2> DEFINE g == [f \in e.found |-> <<f, EndpointId(e)>>]
  <2>1. g \in Surjection(e.found, PairsOf(e))
    BY DEF Surjection, PairsOf
  <2>2. IsFiniteSet(e.found)
    BY DEF ReportOK
  <2> HIDE DEF g
  <2> QED BY <2>1, <2>2, FS_Surjection
<1>4. \A T \in all : IsFiniteSet(T)
  BY <1>3
<1> HIDE DEF all
<1> QED BY <1>1, <1>2, <1>4, FS_UNION

LEMMA PairOf ==
  ASSUME NEW r, NEW p \in Pairs(r)
  PROVE  p = <<p[1], p[2]>> /\ \E e \in r.endpoints : p[1] \in e.found /\ p[2] = EndpointId(e)
BY DEF Pairs

\* The occurrences of a level among two disjoint parts add up.
LEMMA OccurrencesAdd ==
  ASSUME NEW S, IsFiniteSet(S), NEW A, NEW B, S = A \cup B, A \cap B = {}, NEW level
  PROVE  /\ Occurrences(A, level) \in Nat /\ Occurrences(B, level) \in Nat
         /\ Occurrences(S, level) = Occurrences(A, level) + Occurrences(B, level)
<1> DEFINE At(P) == {p \in P : Graded(p[1]) /\ Severity[p[1]] = level}
<1>1. At(S) \in SUBSET S
  OBVIOUS
<1>2. IsFiniteSet(At(S))
  BY <1>1, FS_Subset
<1>3. At(S) = At(A) \cup At(B) /\ At(A) \cap At(B) = {}
  OBVIOUS
<1>4. Occurrences(S, level) = Cardinality(At(S)) /\ Occurrences(A, level) = Cardinality(At(A))
      /\ Occurrences(B, level) = Cardinality(At(B))
  BY DEF Occurrences
<1> HIDE DEF At
<1> QED BY <1>2, <1>3, <1>4, TwoParts

\* What a comparison tells of the findings of two runs: five parts.
LEMMA Verdicts ==
  ASSUME NEW old, NEW new
  PROVE  LET cmp == compare_runs(old, new) IN
         /\ cmp.new = Pairs(new) \ Pairs(old)
         /\ cmp.persistent = Pairs(new) \cap Pairs(old)
         /\ cmp.fixed = Fixed(old, new) /\ cmp.fixed \subseteq Pairs(old) \ Pairs(new)
         /\ cmp.not_retested = (Pairs(old) \ Pairs(new)) \ cmp.fixed
BY DEF compare_runs, Fixed

LEMMA VerdictSizes ==
  ASSUME NEW old, NEW new, ReportOK(old.endpoints), ReportOK(new.endpoints)
  PROVE  LET cmp == compare_runs(old, new)
             N(P) == Cardinality(P)
             O(P, level) == Occurrences(P, level) IN
         /\ N(cmp.new) + N(cmp.persistent) = N(Pairs(new))
         /\ N(cmp.fixed) + N(cmp.persistent) + N(cmp.not_retested) = N(Pairs(old))
         /\ \A level : O(Pairs(new), level) - O(Pairs(old), level)
                       = O(cmp.new, level) - O(cmp.fixed, level) - O(cmp.not_retested, level)
<1> DEFINE cmp == compare_runs(old, new)
           gone == Pairs(old) \ Pairs(new)
<1>1. IsFiniteSet(Pairs(old)) /\ IsFiniteSet(Pairs(new))
  BY PairsFinite
<1>2. /\ Pairs(new) = cmp.new \cup cmp.persistent /\ cmp.new \cap cmp.persistent = {}
      /\ Pairs(old) = gone \cup cmp.persistent /\ gone \cap cmp.persistent = {}
      /\ gone = cmp.fixed \cup cmp.not_retested /\ cmp.fixed \cap cmp.not_retested = {}
  BY Verdicts
<1>3. IsFiniteSet(gone)
  BY <1>1, FS_Difference
<1> HIDE DEF cmp, gone
<1>4. /\ Cardinality(cmp.new) \in Nat /\ Cardinality(cmp.persistent) \in Nat
      /\ Cardinality(Pairs(new)) = Cardinality(cmp.new) + Cardinality(cmp.persistent)
  BY <1>1, <1>2, TwoParts
<1>5. /\ Cardinality(gone) \in Nat
      /\ Cardinality(Pairs(old)) = Cardinality(gone) + Cardinality(cmp.persistent)
  <2>1. IsFiniteSet(Pairs(old)) /\ Pairs(old) = gone \cup cmp.persistent /\ gone \cap cmp.persistent = {}
    BY <1>1, <1>2
  <2> QED BY <2>1, TwoParts
<1>6. /\ Cardinality(cmp.fixed) \in Nat /\ Cardinality(cmp.not_retested) \in Nat
      /\ Cardinality(gone) = Cardinality(cmp.fixed) + Cardinality(cmp.not_retested)
  BY <1>2, <1>3, TwoParts
<1>7. ASSUME NEW level
      PROVE  Occurrences(Pairs(new), level) - Occurrences(Pairs(old), level)
             = Occurrences(cmp.new, level) - Occurrences(cmp.fixed, level) - Occurrences(cmp.not_retested, level)
  <2>1. /\ Occurrences(cmp.new, level) \in Nat /\ Occurrences(cmp.persistent, level) \in Nat
        /\ Occurrences(Pairs(new), level) = Occurrences(cmp.new, level) + Occurrences(cmp.persistent, level)
    BY <1>1, <1>2, OccurrencesAdd
  <2>2. /\ Occurrences(gone, level) \in Nat
        /\ Occurrences(Pairs(old), level) = Occurrences(gone, level) + Occurrences(cmp.persistent, level)
    <3>1. IsFiniteSet(Pairs(old)) /\ Pairs(old) = gone \cup cmp.persistent /\ gone \cap cmp.persistent = {}
      BY <1>1, <1>2
    <3> QED BY <3>1, OccurrencesAdd
  <2>3. /\ Occurrences(cmp.fixed, level) \in Nat /\ Occurrences(cmp.not_retested, level) \in Nat
        /\ Occurrences(gone, level) = Occurrences(cmp.fixed, level) + Occurrences(cmp.not_retested, level)
    BY <1>2, <1>3, OccurrencesAdd
  <2> QED BY <2>1, <2>2, <2>3
<1>8. Cardinality(cmp.new) + Cardinality(cmp.persistent) = Cardinality(Pairs(new))
  BY <1>4
<1>9. Cardinality(cmp.fixed) + Cardinality(cmp.persistent) + Cardinality(cmp.not_retested) = Cardinality(Pairs(old))
  BY <1>4, <1>5, <1>6
<1> QED BY <1>7, <1>8, <1>9 DEF cmp

\* The lists of a page have every pair once.
LEMMA ListsAreComplete ==
  ASSUME NEW P, \A p \in P : p = <<p[1], p[2]>>
  PROVE  OncePerFinding(FindingList(P)) /\ Entries(FindingList(P)) = P
<1> DEFINE On(f) == {p[2] : p \in {q \in P : q[1] = f}}
           row(f) == [finding |-> f, affected |-> On(f)]
<1>1. FindingList(P) = {row(f) : f \in {p[1] : p \in P}}
  BY DEF FindingList
<1>2. \A f : row(f).finding = f /\ row(f).affected = On(f)
  OBVIOUS
<1> HIDE DEF row
<1>3. OncePerFinding(FindingList(P))
  BY <1>1, <1>2 DEF OncePerFinding
<1>4. ASSUME NEW x PROVE x \in Entries(FindingList(P)) <=> x \in P
  <2>1. ASSUME x \in P PROVE x \in Entries(FindingList(P))
    <3>1. row(x[1]) \in FindingList(P)
      BY <1>1, <2>1
    <3>2. x \in {x[1]} \X On(x[1])
      BY <2>1
    <3> QED BY <1>2, <3>1, <3>2 DEF Entries
  <2>2. ASSUME x \in Entries(FindingList(P)) PROVE x \in P
    <3>1. PICK l \in FindingList(P) : x \in {l.finding} \X l.affected
      BY <2>2 DEF Entries
    <3>2. PICK f : l = row(f)
      BY <1>1, <3>1
    <3>3. x = <<x[1], x[2]>> /\ x[1] = f /\ x[2] \in On(f)
      BY <1>2, <3>1, <3>2
    <3>4. PICK p \in P : p[1] = f /\ p[2] = x[2]
      BY <3>3
    <3> QED BY <3>3, <3>4
  <2> QED BY <2>1, <2>2
<1> QED BY <1>3, <1>4
-----------------------------------------------------------------------------
(* The card of the evolution. *)

LEMMA RunInfoIs ==
  ASSUME NEW r
  PROVE  /\ RunInfo(r).id = r.id
         /\ \A i \in DOMAIN LEVELS : RunInfo(r).findings[i] = Occurrences(Pairs(r), LEVELS[i])
BY DEF RunInfo

LEMMA CountsAre ==
  ASSUME NEW old, NEW new
  PROVE  LET cmp == compare_runs(old, new) IN
         summarize_comparison(old, new).counts =
           <<Cardinality(cmp.new), Cardinality(cmp.fixed), Cardinality(cmp.persistent), Cardinality(cmp.not_retested)>>
BY DEF summarize_comparison

\* The page the link of the card opens compares the same two runs.
LEMMA OpenedIs ==
  ASSUME NEW old, NEW new, ~(old.id > new.id)
  PROVE  RunDetail(new, TRUE, {}, FALSE, {old}).compared = {ComparisonView(compare_runs(old, new))}
<1>1. Compare(new, {old}) = {compare_runs(old, new)}
  BY DEF Compare
<1>2. RunDetail(new, TRUE, {}, FALSE, {old}).compared = {ComparisonView(c) : c \in Compare(new, {old})}
  BY DEF RunDetail
<1> QED BY <1>1, <1>2

LEMMA ListsAre ==
  ASSUME NEW cmp
  PROVE  LET lists == ComparisonView(cmp).lists IN
         /\ lists[1] = FindingList(cmp.new) /\ lists[2] = FindingList(cmp.fixed)
         /\ lists[3] = FindingList(cmp.persistent) /\ lists[4] = FindingList(cmp.not_retested)
BY DEF ComparisonView

LEMMA CardIs ==
  ASSUME NEW data, NEW c \in Evolution(data).card
  PROVE  /\ data.status = "ok"
         /\ \E a \in data.from, b \in data.to, m \in data.cmp :
              c.from = a.id /\ c.to = b.id /\ c.tiles = m.counts /\ c.rows = BySeverity(a.findings, b.findings)
              /\ c.endpoints[2] = m.removed
BY DEF Evolution

\* The last bar is that of the second reference run.
LEMMA LastBar ==
  ASSUME NEW shown, NEW new, new.id \in Nat, shown # {} => new \in shown,
         \A r \in shown : r.id \in Nat /\ r.id <= new.id,
         NEW bar \in Newest(Series(Infos(shown)).bars)
  PROVE  bar.id = new.id
<1> DEFINE bars == Series(Infos(shown)).bars
<1> DEFINE infos == Infos(shown)
<1> HIDE DEF infos
<1>0. bars = {Bar(infos, i) : i \in infos} /\ \A i : Bar(infos, i).id = i.id
  BY DEF Series, Bar, infos
<1>1. \A x \in bars : \E i \in Infos(shown) : x.id = i.id
  BY <1>0 DEF infos
<1>2. \A i \in Infos(shown) : \E x \in bars : x.id = i.id
  BY <1>0 DEF infos
<1>3. \A i \in Infos(shown) : \E r \in shown : i.id = r.id
  BY RunInfoIs DEF Infos
<1>4. bar \in bars /\ \A x \in bars : x.id <= bar.id
  BY DEF Newest
<1> HIDE DEF bars
<1>5. PICK r \in shown : bar.id = r.id
  BY <1>1, <1>3, <1>4
<1>6. RunInfo(new) \in Infos(shown) /\ RunInfo(new).id = new.id
  BY <1>5, RunInfoIs DEF Infos
<1>7. new.id <= bar.id
  BY <1>2, <1>4, <1>6
<1> QED BY <1>5, <1>7

LEMMA AddUp ==
  ASSUME NEW d, NEW c, NEW old, NEW new, RunOf(c.from) = old, RunOf(c.to) = new,
         ReportOK(old.endpoints), ReportOK(new.endpoints), old.id \in Nat, new.id \in Nat,
         old.id < new.id, old.def = d, new.def = d, c.tiles = summarize_comparison(old, new).counts,
         c.rows = BySeverity(RunInfo(old).findings, RunInfo(new).findings),
         c.endpoints[2] = summarize_comparison(old, new).removed
  PROVE  AddsUp(c, d)
<1> DEFINE cmp == compare_runs(old, new)
<1>1. ASSUME NEW i \in DOMAIN LEVELS
      PROVE  c.rows[i][3] = Occurrences(cmp.new, LEVELS[i]) - Occurrences(cmp.fixed, LEVELS[i])
                            - Occurrences(cmp.not_retested, LEVELS[i])
  <2>1. c.rows[i][3] = RunInfo(new).findings[i] - RunInfo(old).findings[i]
    BY DEF BySeverity
  <2>2. c.rows[i][3] = Occurrences(Pairs(new), LEVELS[i]) - Occurrences(Pairs(old), LEVELS[i])
    BY <2>1, RunInfoIs
  <2> QED BY <2>2, VerdictSizes
<1>2. /\ c.tiles[1] = Cardinality(cmp.new) /\ c.tiles[2] = Cardinality(cmp.fixed)
      /\ c.tiles[3] = Cardinality(cmp.persistent) /\ c.tiles[4] = Cardinality(cmp.not_retested)
  BY CountsAre
<1>3. /\ c.tiles[1] + c.tiles[3] = Cardinality(Pairs(new))
      /\ c.tiles[2] + c.tiles[3] + c.tiles[4] = Cardinality(Pairs(old))
  BY <1>2, VerdictSizes
<1>4. /\ c.endpoints[2] = Cardinality(Ids(old) \ Ids(new))
      /\ \A p \in cmp.fixed : p[2] \notin Ids(old) \ Ids(new)
  <2>1. summarize_comparison(old, new).removed = Cardinality(Ids(old) \ Ids(new))
    BY DEF summarize_comparison, compare_runs
  <2>2. \A p \in cmp.fixed : p[2] \in Ids(new)
    BY Verdicts DEF Fixed
  <2> QED BY <2>1, <2>2
<1>5. RunDetail(new, TRUE, {}, FALSE, {old}).compared = {ComparisonView(cmp)}
  <2>1. ~(old.id > new.id)
    OBVIOUS
  <2> QED BY <2>1, OpenedIs
<1>6. ASSUME NEW k \in 1 .. 4
      PROVE  LET list == ComparisonView(cmp).lists[k] IN
             OncePerFinding(list) /\ Cardinality(Entries(list)) = c.tiles[k]
  <2>1. \A p \in Pairs(old) \cup Pairs(new) : p = <<p[1], p[2]>>
    BY PairOf
  <2>2. /\ cmp.new \subseteq Pairs(new) /\ cmp.persistent \subseteq Pairs(new)
        /\ cmp.fixed \subseteq Pairs(old) /\ cmp.not_retested \subseteq Pairs(old)
    BY Verdicts
  <2> HIDE DEF cmp
  <2>3. ASSUME NEW P \in {cmp.new, cmp.fixed, cmp.persistent, cmp.not_retested}
        PROVE  OncePerFinding(FindingList(P)) /\ Entries(FindingList(P)) = P
    BY <2>1, <2>2, ListsAreComplete
  <2>4. CASE k = 1
    BY <1>2, <2>3, <2>4, ListsAre
  <2>5. CASE k = 2
    BY <1>2, <2>3, <2>5, ListsAre
  <2>6. CASE k = 3
    BY <1>2, <2>3, <2>6, ListsAre
  <2>7. CASE k = 4
    BY <1>2, <2>3, <2>7, ListsAre
  <2> QED BY <2>4, <2>5, <2>6, <2>7
<1> HIDE DEF cmp
<1>7. \A v \in RunDetail(new, TRUE, {}, FALSE, {old}).compared : \A k \in 1 .. 4 :
        OncePerFinding(v.lists[k]) /\ Cardinality(Entries(v.lists[k])) = c.tiles[k]
  BY <1>5, <1>6
<1> QED BY <1>1, <1>3, <1>4, <1>7 DEF AddsUp, cmp

LEMMA EvolutionStep == StoredInv => EvolutionAddsUp
<1> SUFFICES ASSUME StoredInv, NEW d \in Definitions, NEW from \in 0 .. LastDay, NEW to \in 0 .. LastDay,
                    NEW drawn, drawn = Evolution(between(Finished, d, from, to))
             PROVE  /\ from > to => drawn.card = {} /\ drawn.series = {}
                    /\ \A c \in drawn.card : /\ AddsUp(c, d)
                                             /\ \A s \in drawn.series : \A bar \in Newest(s.bars) : bar.id = c.to
  BY DEF EvolutionAddsUp
<1>1. from \in Int /\ to \in Int
  BY ResultsAssumption
<1>2. PICK data : data = between(Finished, d, from, to)
  OBVIOUS
<1>3. ASSUME from > to PROVE drawn.card = {} /\ drawn.series = {}
  <2>1. data.status = "invalid_range" /\ data.series = {}
    BY <1>2, <1>3 DEF between
  <2> QED BY <1>2, <2>1 DEF Evolution
<1>4. ASSUME NEW c \in drawn.card
      PROVE  AddsUp(c, d) /\ \A s \in drawn.series : \A bar \in Newest(s.bars) : bar.id = c.to
  <2>1. data.status = "ok"
    BY <1>2 DEF Evolution
  <2>2. PICK old \in stored, new \in stored, shown \in SUBSET stored :
           /\ old.id < new.id /\ old.def = d /\ new.def = d
           /\ data.from = {RunInfo(old)} /\ data.to = {RunInfo(new)}
           /\ data.cmp = {summarize_comparison(old, new)}
           /\ data.series = Infos(shown)
           /\ shown # {} => new \in shown
           /\ \A r \in shown : r.id <= new.id
    BY <1>1, <1>2, <2>1, Reference
  <2>3. c \in Evolution(data).card
    BY <1>2
  <2>4. /\ c.from = old.id /\ c.to = new.id /\ c.tiles = summarize_comparison(old, new).counts
        /\ c.rows = BySeverity(RunInfo(old).findings, RunInfo(new).findings)
        /\ c.endpoints[2] = summarize_comparison(old, new).removed
    <3>1. PICK a \in data.from, b \in data.to, m \in data.cmp :
            c.from = a.id /\ c.to = b.id /\ c.tiles = m.counts /\ c.rows = BySeverity(a.findings, b.findings)
            /\ c.endpoints[2] = m.removed
      BY <2>3, CardIs
    <3>2. a = RunInfo(old) /\ b = RunInfo(new) /\ m = summarize_comparison(old, new)
      BY <2>2
    <3> QED BY <3>1, <3>2, RunInfoIs
  <2>5. RunOf(c.from) = old /\ RunOf(c.to) = new
    BY <2>4, RunOfId
  <2>6. /\ old.id \in Nat /\ new.id \in Nat
        /\ ReportOK(old.endpoints) /\ ReportOK(new.endpoints)
    BY DEF StoredInv, RunOK
  <2>7. AddsUp(c, d)
    BY <2>2, <2>4, <2>5, <2>6, AddUp
  <2>8. ASSUME NEW s \in drawn.series, NEW bar \in Newest(s.bars) PROVE bar.id = c.to
    <3>1. s = Series(Infos(shown))
      BY <1>2, <2>2, <2>8 DEF Evolution
    <3>2. \A r \in shown : r.id \in Nat
      BY Ids_
    <3> QED BY <2>2, <2>4, <2>6, <2>8, <3>1, <3>2, LastBar
  <2> QED BY <2>7, <2>8
<1> QED BY <1>3, <1>4

\* Evolution.tsx over evolution.py and comparison.py: whatever was scanned, kept
\* or deleted, what the card says of two dates adds up.
THEOREM EvolutionAddsUpAlways == ResultsSpec => []EvolutionAddsUp
BY StoredAlways, EvolutionStep, PTL
-----------------------------------------------------------------------------
(* The endpoints on the page of a run. *)

LEMMA HostRowIs ==
  ASSUME NEW rows, NEW open, NEW h
  PROVE  LET row == HostRow(rows, open, h)  n == Cardinality(OfHost(rows, h)) IN
         /\ row.host = h
         /\ h \in open \/ n = 1 => row.under = Lines(OfHost(rows, h))
         /\ (IF row.head = << >> THEN 1 ELSE row.head[1]) = n
BY DEF HostRow

LEMMA TableOnce == ASSUME NEW rows, NEW open PROVE OncePerHost(GroupedEndpoints(rows, open))
BY HostRowIs DEF OncePerHost, GroupedEndpoints

\* With all hosts unfolded, or without hosts, the lines are the endpoints.
Shown_(es) == {<<hostOf(e), Line(e)>> : e \in es}

LEMMA OpenShows ==
  ASSUME NEW es, NEW table, table = GroupedEndpoints(es, {hostOf(e) : e \in es})
  PROVE  LinesShown(table) = Shown_(es) /\ UNION {row.under : row \in table} = Lines(es)
<1> DEFINE hosts == {hostOf(e) : e \in es}
<1>1. \A h \in hosts : LET row == HostRow(es, hosts, h) IN row.host = h /\ row.under = Lines(OfHost(es, h))
  BY HostRowIs
<1>2. table = {HostRow(es, hosts, h) : h \in hosts}
  BY DEF GroupedEndpoints
<1>3. \A e \in es : hostOf(e) \in hosts /\ e \in OfHost(es, hostOf(e))
  BY DEF OfHost
<1>4. \A h, l : l \in Lines(OfHost(es, h)) <=> \E e \in es : hostOf(e) = h /\ l = Line(e)
  BY DEF Lines, OfHost
<1> HIDE DEF hosts
<1>5. ASSUME NEW x PROVE x \in LinesShown(table) <=> x \in Shown_(es)
  <2>1. ASSUME x \in LinesShown(table) PROVE x \in Shown_(es)
    <3>1. PICK row \in table : x \in {row.host} \X row.under
      BY <2>1 DEF LinesShown
    <3>2. PICK h \in hosts : row = HostRow(es, hosts, h)
      BY <1>2, <3>1
    <3>3. x = <<x[1], x[2]>> /\ x[1] = h /\ x[2] \in Lines(OfHost(es, h))
      BY <1>1, <3>1, <3>2
    <3> QED BY <1>4, <3>3 DEF Shown_
  <2>2. ASSUME x \in Shown_(es) PROVE x \in LinesShown(table)
    <3>1. PICK e \in es : x = <<hostOf(e), Line(e)>>
      BY <2>2 DEF Shown_
    <3>2. HostRow(es, hosts, hostOf(e)) \in table
      BY <1>2, <1>3
    <3>3. x \in {HostRow(es, hosts, hostOf(e)).host} \X HostRow(es, hosts, hostOf(e)).under
      BY <1>1, <1>3, <1>4, <3>1
    <3> QED BY <3>2, <3>3 DEF LinesShown
  <2> QED BY <2>1, <2>2
<1>6. ASSUME NEW l PROVE l \in UNION {row.under : row \in table} <=> l \in Lines(es)
  <2>1. l \in UNION {row.under : row \in table} <=> \E row \in table : l \in row.under
    OBVIOUS
  <2>2. (\E row \in table : l \in row.under) <=> \E h \in hosts : l \in HostRow(es, hosts, h).under
    BY <1>2
  <2>3. \A h \in hosts : HostRow(es, hosts, h).under = Lines(OfHost(es, h))
    BY <1>1
  <2> QED BY <1>3, <1>4, <2>1, <2>2, <2>3 DEF Lines
<1> QED BY <1>5, <1>6

LEMMA FlatShows ==
  ASSUME NEW es, NEW table, table = {PlainRow(e) : e \in es}
  PROVE  LinesShown(table) = Shown_(es)
<1>1. \A e : PlainRow(e).host = hostOf(e) /\ PlainRow(e).under = {Line(e)}
  BY DEF PlainRow
<1>2. ASSUME NEW x PROVE x \in LinesShown(table) <=> x \in Shown_(es)
  <2>1. x \in LinesShown(table) <=> \E e \in es : x \in {hostOf(e)} \X {Line(e)}
    BY <1>1 DEF LinesShown
  <2>2. \A e : x \in {hostOf(e)} \X {Line(e)} <=> x = <<hostOf(e), Line(e)>>
    OBVIOUS
  <2> QED BY <2>1, <2>2 DEF Shown_
<1> QED BY <1>2

LEMMA ShownSize == ASSUME NEW es, ReportOK(es) PROVE Cardinality(Shown_(es)) = Cardinality(es)
<1> DEFINE f == [e \in es |-> <<hostOf(e), Line(e)>>]
<1>1. f \in [es -> Shown_(es)] /\ \A t \in Shown_(es) : \E e \in es : f[e] = t
  BY DEF Shown_
<1>2. ASSUME NEW a \in es, NEW b \in es, f[a] = f[b] PROVE a = b
  <2>1. Line(a) = Line(b)
    BY <1>2
  <2>2. EndpointId(a) = EndpointId(b)
    BY <2>1 DEF Line
  <2> QED BY <2>2 DEF ReportOK
<1>3. IsFiniteSet(es)
  BY DEF ReportOK
<1> HIDE DEF f
<1> QED BY <1>1, <1>2, <1>3, SameSize

\* What the hosts say adds up to the endpoints: number those of each host.
LEMMA SaidSize ==
  ASSUME NEW es, IsFiniteSet(es), NEW open, NEW table, table = GroupedEndpoints(es, open)
  PROVE  Cardinality(LinesSaid(table)) = Cardinality(es)
<1> DEFINE N(h) == Cardinality(OfHost(es, h))
           G(h) == CHOOSE g : g \in Bijection(1 .. N(h), OfHost(es, h))
           F(e) == <<hostOf(e), CHOOSE i \in 1 .. N(hostOf(e)) : G(hostOf(e))[i] = e>>
           f == [e \in es |-> F(e)]
<1>1. ASSUME NEW h PROVE N(h) \in Nat /\ G(h) \in Bijection(1 .. N(h), OfHost(es, h))
  <2>1. OfHost(es, h) \in SUBSET es
    BY DEF OfHost
  <2>2. IsFiniteSet(OfHost(es, h))
    BY <2>1, FS_Subset
  <2>3. PICK n \in Nat : ExistsBijection(1 .. n, OfHost(es, h))
    BY <2>2, FS_NatBijection
  <2>4. N(h) = n
    BY <2>3, FS_CountingElements
  <2>5. \E g : g \in Bijection(1 .. N(h), OfHost(es, h))
    BY <2>3, <2>4 DEF ExistsBijection
  <2> QED BY <2>3, <2>4, <2>5
<1>2. \A x : x \in LinesSaid(table) <=> \E e \in es : x \in {hostOf(e)} \X (1 .. N(hostOf(e)))
  <2>1. table = {HostRow(es, open, h) : h \in {hostOf(e) : e \in es}}
    BY DEF GroupedEndpoints
  <2>2. \A h : /\ HostRow(es, open, h).host = h
               /\ (IF HostRow(es, open, h).head = << >> THEN 1 ELSE HostRow(es, open, h).head[1]) = N(h)
    BY HostRowIs
  <2> HIDE DEF N
  <2> QED BY <2>1, <2>2 DEF LinesSaid
<1>3. ASSUME NEW e \in es
      PROVE  F(e) = <<hostOf(e), F(e)[2]>> /\ F(e)[2] \in 1 .. N(hostOf(e)) /\ G(hostOf(e))[F(e)[2]] = e
  <2>1. e \in OfHost(es, hostOf(e))
    BY DEF OfHost
  <2>2. \E i \in 1 .. N(hostOf(e)) : G(hostOf(e))[i] = e
    <3> HIDE DEF N, G
    <3> QED BY <1>1, <2>1 DEF Bijection, Surjection
  <2> HIDE DEF N, G
  <2> QED BY <2>2
<1> HIDE DEF F, G, N
<1>4. f \in [es -> LinesSaid(table)] /\ \A e \in es : f[e] = F(e)
  BY <1>2, <1>3
<1> HIDE DEF f
<1>5. \A a, b \in es : f[a] = f[b] => a = b
  BY <1>3, <1>4
<1>6. ASSUME NEW t \in LinesSaid(table) PROVE \E e \in es : f[e] = t
  <2>1. PICK x \in es : t \in {hostOf(x)} \X (1 .. N(hostOf(x)))
    BY <1>2
  <2> DEFINE h == hostOf(x)
  <2>2. t = <<h, t[2]>> /\ t[2] \in 1 .. N(h)
    BY <2>1
  <2>3. PICK e \in OfHost(es, h) : G(h)[t[2]] = e
    BY <1>1, <2>2 DEF Bijection, Injection
  <2>4. e \in es /\ hostOf(e) = h
    BY DEF OfHost
  <2>5. f[e][2] \in 1 .. N(h) /\ G(h)[f[e][2]] = e /\ f[e] = <<h, f[e][2]>>
    BY <1>3, <1>4, <2>4
  <2>6. f[e][2] = t[2]
    BY <1>1, <2>2, <2>3, <2>5 DEF Bijection, Injection, IsInjective
  <2> QED BY <2>2, <2>4, <2>5, <2>6
<1> QED BY <1>4, <1>5, <1>6, SameSize

LEMMA ListedStep == StoredInv => EveryEndpointListedOnce
<1> SUFFICES ASSUME StoredInv, NEW r \in stored
             PROVE  LET hosts == {hostOf(e) : e \in r.endpoints}
                        open == RunDetail(r, TRUE, hosts, FALSE, {}).endpoints
                        closed == RunDetail(r, TRUE, {}, FALSE, {}).endpoints
                        flat == RunDetail(r, FALSE, {}, FALSE, {})
                    IN /\ UNION {row.under : row \in open} = Lines(r.endpoints)
                       /\ OncePerHost(open) /\ OncePerHost(closed)
                       /\ Cardinality(LinesShown(open)) = flat.metrics[1]
                       /\ Cardinality(LinesSaid(closed)) = flat.metrics[1]
                       /\ Cardinality(LinesShown(flat.endpoints)) = flat.metrics[1]
  BY Zenon DEF EveryEndpointListedOnce
<1> DEFINE es == r.endpoints
           hosts == {hostOf(e) : e \in es}
<1>1. ReportOK(es) /\ IsFiniteSet(es)
  BY DEF StoredInv, RunOK, ReportOK
<1>2. /\ RunDetail(r, TRUE, hosts, FALSE, {}).endpoints = GroupedEndpoints(es, hosts)
      /\ RunDetail(r, TRUE, {}, FALSE, {}).endpoints = GroupedEndpoints(es, {})
      /\ RunDetail(r, FALSE, {}, FALSE, {}).endpoints = {PlainRow(e) : e \in es}
  BY DEF RunDetail
<1>3. RunDetail(r, FALSE, {}, FALSE, {}).metrics[1] = Cardinality(es)
  BY DEF RunDetail, Summary
<1>4. PICK open : open = GroupedEndpoints(es, hosts)
  OBVIOUS
<1>5. PICK closed : closed = GroupedEndpoints(es, {})
  OBVIOUS
<1>6. PICK flat : flat = {PlainRow(e) : e \in es}
  OBVIOUS
<1>7. /\ UNION {row.under : row \in open} = Lines(es) /\ OncePerHost(open) /\ OncePerHost(closed)
      /\ Cardinality(LinesShown(open)) = Cardinality(es)
  BY <1>1, <1>4, <1>5, OpenShows, ShownSize, TableOnce
<1>8. Cardinality(LinesSaid(closed)) = Cardinality(es)
  BY <1>1, <1>5, SaidSize
<1>9. Cardinality(LinesShown(flat)) = Cardinality(es)
  BY <1>1, <1>6, FlatShows, ShownSize
<1> HIDE DEF es, hosts
<1> QED BY <1>2, <1>3, <1>4, <1>5, <1>6, <1>7, <1>8, <1>9 DEF es, hosts

\* GroupedEndpoints.tsx: the page of a run lists its endpoints once, folded or
\* not, and its hosts count them all.
THEOREM EveryEndpointListedOnceAlways == ResultsSpec => []EveryEndpointListedOnce
BY StoredAlways, ListedStep, PTL
-----------------------------------------------------------------------------
(* dashboard.py: the picture of the newest observations. *)

\* What counts for a service, as posture counts it.
View(k) == [run |-> SeenIn(k), e |-> Seen(k)]

LEMMA BasisIs == StoredInv => Basis(Finished) = CurrentRuns /\ CurrentRuns \in SUBSET stored
<1> SUFFICES ASSUME StoredInv PROVE Basis(Finished) = CurrentRuns /\ CurrentRuns \in SUBSET stored
  OBVIOUS
<1>1. Finished \in SUBSET stored
  BY DEF Finished, LastOf, Ended
<1>2. \A r, s \in Finished : r.id \in Nat /\ s.id \in Nat
  BY <1>1, Ids_
<1> QED BY <1>1, <1>2 DEF Basis, CurrentRuns, SameScan

LEMMA SeenIs ==
  ASSUME StoredInv, NEW k \in ServicesSeen
  PROVE  /\ SeenIn(k) \in CurrentRuns /\ SeenIn(k) \in stored
         /\ Seen(k) \in SeenIn(k).endpoints /\ EndpointKey(Seen(k)) = k
         /\ \A r \in CurrentRuns : \A e \in r.endpoints : EndpointKey(e) = k => r.id <= SeenIn(k).id
<1> DEFINE R == {r \in CurrentRuns : \E e \in r.endpoints : EndpointKey(e) = k}
<1>1. R \in SUBSET stored /\ R # {}
  BY BasisIs DEF ServicesSeen
<1>2. SeenIn(k) = Latest(R)
  BY DEF SeenIn
<1> HIDE DEF R
<1>3. SeenIn(k) \in R /\ \A r \in R : r.id <= SeenIn(k).id
  BY <1>1, <1>2, LatestIs
<1>4. \E e \in SeenIn(k).endpoints : EndpointKey(e) = k
  BY <1>3 DEF R
<1>5. Seen(k) \in SeenIn(k).endpoints /\ EndpointKey(Seen(k)) = k
  BY <1>4 DEF Seen
<1> QED BY <1>1, <1>3, <1>5 DEF R

LEMMA KeyTells ==
  ASSUME NEW es, ReportOK(es), NEW a \in es, NEW b \in es, EndpointKey(a) = EndpointKey(b)
  PROVE  a = b
BY DEF ReportOK, EndpointKey, EndpointId

LEMMA CountedIn ==
  ASSUME NEW basis
  PROVE  \A k : k \in Counted(basis) <=>
                /\ \E r \in basis : \E e \in r.endpoints : k = [run |-> r, e |-> e]
                /\ \A s \in basis : s.id > k.run.id => \A e \in s.endpoints : EndpointKey(e) # EndpointKey(k.e)
BY DEF Counted

\* posture counts every service once, as it was seen last.
LEMMA CountedIs ==
  ASSUME StoredInv
  PROVE  Counted(Basis(Finished)) = {View(k) : k \in ServicesSeen}
<1>1. ASSUME NEW k \in ServicesSeen PROVE View(k) \in Counted(CurrentRuns)
  <2>1. View(k).run = SeenIn(k) /\ View(k).e = Seen(k)
    BY DEF View
  <2>2. \A s \in CurrentRuns : s.id > SeenIn(k).id => \A e \in s.endpoints : EndpointKey(e) # k
    <3>1. \A s \in CurrentRuns : s.id \in Nat
      BY BasisIs, Ids_
    <3>2. SeenIn(k).id \in Nat
      BY <3>1, SeenIs
    <3> QED BY <3>1, <3>2, SeenIs
  <2>3. EndpointKey(View(k).e) = k
    BY <2>1, SeenIs
  <2>4. \E r \in CurrentRuns : \E e \in r.endpoints : View(k) = [run |-> r, e |-> e]
    BY SeenIs DEF View
  <2> QED BY <2>1, <2>2, <2>3, <2>4, CountedIn
<1>2. ASSUME NEW x \in Counted(CurrentRuns) PROVE \E k \in ServicesSeen : x = View(k)
  <2>0. PICK r \in CurrentRuns : \E e \in r.endpoints : x = [run |-> r, e |-> e]
    BY CountedIn
  <2>1. PICK e \in r.endpoints : x = [run |-> r, e |-> e]
    BY <2>0
  <2> DEFINE k == EndpointKey(e)
  <2>2. k \in ServicesSeen
    BY <2>1 DEF ServicesSeen
  <2> HIDE DEF k
  <2>3. \A s \in CurrentRuns : s.id > r.id => \A d \in s.endpoints : EndpointKey(d) # k
    <3>1. x.run = r /\ x.e = e
      BY <2>1
    <3> QED BY <3>1, CountedIn DEF k
  <2>4. r.id <= SeenIn(k).id
    BY <2>1, <2>2, SeenIs DEF k
  <2>5. ~(SeenIn(k).id > r.id)
    BY <2>2, <2>3, SeenIs
  <2>6. r \in stored /\ SeenIn(k) \in stored
    BY <2>2, BasisIs, SeenIs
  <2>7. r = SeenIn(k)
    BY <2>4, <2>5, <2>6 DEF StoredInv, RunOK
  <2>8. e = Seen(k)
    <3>1. ReportOK(r.endpoints)
      BY <2>6 DEF StoredInv, RunOK
    <3>2. Seen(k) \in r.endpoints /\ EndpointKey(Seen(k)) = EndpointKey(e)
      BY <2>2, <2>7, SeenIs DEF k
    <3> QED BY <2>1, <3>1, <3>2, KeyTells
  <2> QED BY <2>1, <2>2, <2>7, <2>8 DEF View
<1> QED BY <1>1, <1>2, BasisIs

LEMMA ServicesFinite == ASSUME StoredInv PROVE IsFiniteSet(ServicesSeen)
<1> DEFINE Keys(r) == {EndpointKey(e) : e \in r.endpoints}
           all == {Keys(r) : r \in CurrentRuns}
<1>1. IsFiniteSet(CurrentRuns)
  BY BasisIs, FS_Subset DEF StoredInv
<1>2. IsFiniteSet(all)
  <2> DEFINE g == [r \in CurrentRuns |-> Keys(r)]
  <2>1. g \in Surjection(CurrentRuns, all)
    BY DEF Surjection
  <2> HIDE DEF g, all
  <2> QED BY <1>1, <2>1, FS_Surjection
<1>3. ASSUME NEW r \in CurrentRuns PROVE IsFiniteSet(Keys(r))
  <2> DEFINE g == [e \in r.endpoints |-> EndpointKey(e)]
  <2>1. g \in Surjection(r.endpoints, Keys(r))
    BY DEF Surjection
  <2>2. IsFiniteSet(r.endpoints)
    BY BasisIs DEF StoredInv, RunOK, ReportOK
  <2> HIDE DEF g
  <2> QED BY <2>1, <2>2, FS_Surjection
<1>4. \A T \in all : IsFiniteSet(T)
  BY <1>3
<1>5. ServicesSeen = UNION all
  BY DEF ServicesSeen
<1> HIDE DEF all
<1> QED BY <1>2, <1>4, <1>5, FS_UNION

\* Some services are as many as what counts for them.
LEMMA ViewsSize ==
  ASSUME StoredInv, NEW T \in SUBSET ServicesSeen
  PROVE  /\ IsFiniteSet(T) /\ IsFiniteSet({View(k) : k \in T})
         /\ Cardinality({View(k) : k \in T}) = Cardinality(T) /\ Cardinality(T) \in Nat
<1> DEFINE f == [k \in T |-> View(k)]
           V == {View(k) : k \in T}
<1>1. f \in [T -> V] /\ \A v \in V : \E k \in T : f[k] = v
  OBVIOUS
<1>2. ASSUME NEW a \in T, NEW b \in T, f[a] = f[b] PROVE a = b
  <2>1. View(a).e = View(b).e
    BY <1>2
  <2>2. Seen(a) = Seen(b)
    BY <2>1 DEF View
  <2> QED BY <2>2, SeenIs
<1>3. IsFiniteSet(T)
  BY ServicesFinite, FS_Subset
<1> HIDE DEF f, V
<1>4. IsFiniteSet(V) /\ Cardinality(V) = Cardinality(T)
  BY <1>1, <1>2, <1>3, SameSize
<1> QED BY <1>3, <1>4, FS_CardinalityType DEF V

LEMMA InStateIs ==
  ASSUME StoredInv, NEW seen, seen = [k \in ServicesSeen |-> Seen(k)], NEW status
  PROVE  InState(Counted(Basis(Finished)), status) = {View(k) : k \in Having(seen, status)}
BY CountedIs DEF InState, Having, View

LEMMA PostureIs ==
  LET p == posture(Finished)  basis == Basis(Finished)  kept == Counted(basis) IN
  /\ p.scans = Cardinality(basis) /\ p.total = Cardinality(kept)
  /\ p.compliant = Cardinality(InState(kept, "compliant"))
  /\ p.non_compliant = Cardinality(InState(kept, "non_compliant"))
  /\ p.unevaluated = p.total - p.compliant - p.non_compliant
  /\ p.rate = Rate(p.compliant, p.non_compliant)
  /\ p.occurrences = Cardinality(Occurring(basis, kept, AtLevels(Anomalies(basis, kept), {"critical", "high"})))
  /\ p.expired = Cardinality({w \in Watched(kept) : w.remaining < 0})
  /\ p.vigilance = WorstItems(basis, kept)
BY DEF posture

\* The services of a status.
LEMMA StatesCounted ==
  ASSUME StoredInv, NEW seen, seen = [k \in ServicesSeen |-> Seen(k)], NEW p, p = posture(Finished)
  PROVE  /\ p.total = Cardinality(ServicesSeen) /\ p.total \in Nat
         /\ p.compliant = Cardinality(Having(seen, "compliant")) /\ p.compliant \in Nat
         /\ p.non_compliant = Cardinality(Having(seen, "non_compliant")) /\ p.non_compliant \in Nat
         /\ p.unevaluated = p.total - p.compliant - p.non_compliant
<1> PICK basis : basis = Basis(Finished)
  OBVIOUS
<1> PICK kept : kept = Counted(basis)
  OBVIOUS
<1>1. /\ p.total = Cardinality(kept)
      /\ p.compliant = Cardinality(InState(kept, "compliant"))
      /\ p.non_compliant = Cardinality(InState(kept, "non_compliant"))
      /\ p.unevaluated = p.total - p.compliant - p.non_compliant
  BY PostureIs
<1>2. kept = {View(k) : k \in ServicesSeen}
  BY CountedIs
<1>3. \A status : InState(kept, status) = {View(k) : k \in Having(seen, status)}
  BY InStateIs
<1>4. \A status : Having(seen, status) \in SUBSET ServicesSeen
  BY DEF Having
<1>5. Cardinality(kept) = Cardinality(ServicesSeen) /\ Cardinality(kept) \in Nat
  BY <1>2, ViewsSize
<1>6. ASSUME NEW status
      PROVE  /\ Cardinality(InState(kept, status)) = Cardinality(Having(seen, status))
             /\ Cardinality(InState(kept, status)) \in Nat
  BY <1>3, <1>4, ViewsSize
<1> QED BY <1>1, <1>5, <1>6

\* The grave findings of the services are the occurrences posture counts.
Graves(seen) == {x \in ServicesSeen \X Grave : x[2] \in seen[x[1]].found}

LEMMA GravesFinite ==
  ASSUME StoredInv, NEW seen, seen = [k \in ServicesSeen |-> Seen(k)]
  PROVE  IsFiniteSet(Graves(seen))
<1> DEFINE all == {Seen(k).found : k \in ServicesSeen}
<1>1. IsFiniteSet(all)
  <2> DEFINE g == [k \in ServicesSeen |-> Seen(k).found]
  <2>1. g \in Surjection(ServicesSeen, all)
    BY DEF Surjection
  <2> HIDE DEF g, all
  <2> QED BY <2>1, ServicesFinite, FS_Surjection
<1>2. ASSUME NEW k \in ServicesSeen PROVE IsFiniteSet(Seen(k).found)
  <2>1. ReportOK(SeenIn(k).endpoints)
    BY SeenIs DEF StoredInv, RunOK
  <2> QED BY <2>1, SeenIs DEF ReportOK
<1>3. IsFiniteSet(UNION all)
  <2>1. \A T \in all : IsFiniteSet(T)
    BY <1>2
  <2> HIDE DEF all
  <2> QED BY <1>1, <2>1, FS_UNION
<1>4. IsFiniteSet(ServicesSeen \X UNION all)
  BY <1>3, ServicesFinite, FS_Product
<1>5. Graves(seen) \in SUBSET (ServicesSeen \X UNION all)
  BY DEF Graves
<1> HIDE DEF all
<1> QED BY <1>4, <1>5, FS_Subset

LEMMA GravesCounted ==
  ASSUME StoredInv, NEW seen, seen = [k \in ServicesSeen |-> Seen(k)],
         NEW basis, basis = Basis(Finished), NEW kept, kept = Counted(basis)
  PROVE  Cardinality(Occurring(basis, kept, AtLevels(Anomalies(basis, kept), {"critical", "high"})))
           = Cardinality(Graves(seen))
<1> DEFINE O == Occurring(basis, kept, AtLevels(Anomalies(basis, kept), {"critical", "high"}))
<1>1. kept = {View(k) : k \in ServicesSeen} /\ basis = CurrentRuns
  BY CountedIs, BasisIs
<1>2. ASSUME NEW k \in ServicesSeen, NEW f
      PROVE  View(k) \in Affected(basis, kept, f) <=> f \in Seen(k).found
  BY <1>1 DEF Affected, View
<1>3. ASSUME NEW k \in ServicesSeen, NEW f \in Seen(k).found
      PROVE  f \in AtLevels(Anomalies(basis, kept), {"critical", "high"}) <=> f \in Grave
  <2>1. f \in DOMAIN Severity
    <3>1. ReportOK(SeenIn(k).endpoints)
      BY SeenIs DEF StoredInv, RunOK
    <3> QED BY <3>1, SeenIs DEF ReportOK
  <2>2. Affected(basis, kept, f) # {}
    BY <1>2
  <2>3. f \in UNION {e.found : e \in UNION {r.endpoints : r \in basis}}
    <3>1. SeenIn(k) \in basis /\ Seen(k) \in SeenIn(k).endpoints
      BY <1>1, SeenIs
    <3>2. Seen(k) \in UNION {r.endpoints : r \in basis}
      BY <3>1
    <3> QED BY <3>2
  <2>4. Severity[f] \in {"critical", "high"} => IsLevel(Severity[f])
    <3>1. DOMAIN LEVELS = 1 .. 4 /\ LEVELS[1] = "critical" /\ LEVELS[2] = "high"
      BY DEF LEVELS
    <3>2. 1 \in 1 .. 4 /\ 2 \in 1 .. 4
      OBVIOUS
    <3> QED BY <3>1, <3>2 DEF IsLevel
  <2>5. f \in Anomalies(basis, kept) <=> Graded(f)
    BY <2>2, <2>3 DEF Anomalies
  <2> QED BY <2>1, <2>4, <2>5 DEF AtLevels, Grave, Graded
<1>4. ASSUME NEW o PROVE o \in O <=> \E x \in Graves(seen) : o = <<x[2], View(x[1])>>
  <2>1. o \in O <=> \E f \in AtLevels(Anomalies(basis, kept), {"critical", "high"}) :
                      o \in {f} \X Affected(basis, kept, f)
    BY DEF Occurring
  <2> HIDE DEF O
  <2>2. ASSUME o \in O PROVE \E x \in Graves(seen) : o = <<x[2], View(x[1])>>
    <3>1. PICK f \in AtLevels(Anomalies(basis, kept), {"critical", "high"}) : o \in {f} \X Affected(basis, kept, f)
      BY <2>1, <2>2
    <3>2. o = <<f, o[2]>> /\ o[2] \in Affected(basis, kept, f)
      BY <3>1
    <3>3. PICK k \in ServicesSeen : o[2] = View(k)
      BY <1>1, <3>2 DEF Affected
    <3>4. f \in Seen(k).found
      BY <1>2, <3>2, <3>3
    <3>5. f \in Grave
      BY <1>3, <3>1, <3>4
    <3>6. <<k, f>> \in Graves(seen)
      BY <3>4, <3>5 DEF Graves
    <3>7. o = <<(<<k, f>>)[2], View((<<k, f>>)[1])>>
      BY <3>2, <3>3
    <3> QED BY <3>6, <3>7
  <2>3. ASSUME NEW x \in Graves(seen), o = <<x[2], View(x[1])>> PROVE o \in O
    <3>1. x[1] \in ServicesSeen /\ x[2] \in Grave /\ x[2] \in Seen(x[1]).found
      BY DEF Graves
    <3>2. x[2] \in AtLevels(Anomalies(basis, kept), {"critical", "high"}) /\ View(x[1]) \in Affected(basis, kept, x[2])
      BY <1>2, <1>3, <3>1
    <3> QED BY <2>1, <2>3, <3>2
  <2> QED BY <2>2, <2>3
<1> HIDE DEF O
<1> DEFINE F(x) == <<x[2], View(x[1])>>
           g == [x \in Graves(seen) |-> F(x)]
<1>5. \A x, y \in Graves(seen) : F(x) = F(y) => x = y
  <2> TAKE x, y \in Graves(seen)
  <2> HAVE F(x) = F(y)
  <2>1. x[2] = y[2] /\ View(x[1]) = View(y[1])
    OBVIOUS
  <2>2. x = <<x[1], x[2]>> /\ y = <<y[1], y[2]>> /\ x[1] \in ServicesSeen /\ y[1] \in ServicesSeen
    BY DEF Graves
  <2>3. View(x[1]).e = View(y[1]).e
    BY <2>1
  <2>4. Seen(x[1]) = Seen(y[1])
    BY <2>3 DEF View
  <2>5. x[1] = y[1]
    BY <2>2, <2>4, SeenIs
  <2> QED BY <2>1, <2>2, <2>5
<1>6. \A x \in Graves(seen) : F(x) \in O
  BY <1>4
<1>7. \A o \in O : \E x \in Graves(seen) : F(x) = o
  BY <1>4
<1> HIDE DEF F
<1>8. g \in [Graves(seen) -> O] /\ (\A x \in Graves(seen) : g[x] = F(x))
  BY <1>6
<1> HIDE DEF g
<1>9. /\ \A x, y \in Graves(seen) : g[x] = g[y] => x = y
      /\ \A o \in O : \E x \in Graves(seen) : g[x] = o
  BY <1>5, <1>7, <1>8
<1>10. Cardinality(O) = Cardinality(Graves(seen))
  BY <1>8, <1>9, GravesFinite, SameSize
<1> QED BY <1>10 DEF O

Expired(seen) == {c \in {seen[k].cert : k \in ServicesSeen} \ {NoCert} : NotAfter[c] < today}

\* The certificates that expired are those of the watched ones with no day left.
LEMMA ExpiredCounted ==
  ASSUME StoredInv, NEW seen, seen = [k \in ServicesSeen |-> Seen(k)],
         NEW kept, kept = Counted(Basis(Finished))
  PROVE  Cardinality({w \in Watched(kept) : w.remaining < 0}) = Cardinality(Expired(seen))
<1>1. kept = {View(k) : k \in ServicesSeen}
  BY CountedIs
<1>2. CertificatesOf(kept) = {seen[k].cert : k \in ServicesSeen} \ {NoCert}
  <2>1. \A k \in ServicesSeen : View(k).e.cert = seen[k].cert
    BY DEF View
  <2> QED BY <1>1, <2>1 DEF CertificatesOf
<1>3. \A c \in CertificatesOf(kept) : NotAfter[c] \in Int
  <2> TAKE c \in CertificatesOf(kept)
  <2>1. PICK k \in ServicesSeen : c = Seen(k).cert /\ c # NoCert
    BY <1>2
  <2>2. ReportOK(SeenIn(k).endpoints) /\ Seen(k) \in SeenIn(k).endpoints
    BY SeenIs DEF StoredInv, RunOK
  <2> QED BY <2>1, <2>2 DEF ReportOK
<1>4. today \in Int /\ EXPIRY_WINDOW_DAYS \in Nat
  BY ResultsAssumption DEF StoredInv
<1>5. IsFiniteSet(Expired(seen))
  <2> DEFINE all == {seen[k].cert : k \in ServicesSeen}
             g == [k \in ServicesSeen |-> seen[k].cert]
  <2>1. g \in Surjection(ServicesSeen, all)
    BY DEF Surjection
  <2>2. Expired(seen) \in SUBSET all
    BY DEF Expired
  <2> HIDE DEF g, all
  <2> QED BY <2>1, <2>2, ServicesFinite, FS_Surjection, FS_Subset
<1>6. \A c : Certificate(kept, c).cert = c /\ Certificate(kept, c).remaining = NotAfter[c] - today
  BY DEF Certificate
<1>7. \A c \in CertificatesOf(kept) : NotAfter[c] < today <=> NotAfter[c] - today < 0
  BY <1>3, <1>4
<1> DEFINE W == {w \in Watched(kept) : w.remaining < 0}
           g == [c \in Expired(seen) |-> Certificate(kept, c)]
<1>8. \A w : w \in W <=> \E c \in Expired(seen) : w = Certificate(kept, c)
  <2>1. \A w : w \in Watched(kept) <=> \E c \in CertificatesOf(kept) :
                 w = Certificate(kept, c) /\ NotAfter[c] - today <= EXPIRY_WINDOW_DAYS
    BY <1>6 DEF Watched
  <2>2. \A c : c \in Expired(seen) <=> c \in CertificatesOf(kept) /\ NotAfter[c] - today < 0
    BY <1>2, <1>7 DEF Expired
  <2>3. \A c \in Expired(seen) : NotAfter[c] - today <= EXPIRY_WINDOW_DAYS
    BY <1>3, <1>4, <2>2
  <2> QED BY <1>6, <2>1, <2>2, <2>3
<1> HIDE DEF W
<1>9. /\ g \in [Expired(seen) -> W]
      /\ \A x, y \in Expired(seen) : g[x] = g[y] => x = y
      /\ \A w \in W : \E c \in Expired(seen) : g[c] = w
  BY <1>6, <1>8
<1> HIDE DEF g
<1>10. Cardinality(W) = Cardinality(Expired(seen))
  BY <1>5, <1>9, SameSize
<1> QED BY <1>10 DEF W

LEMMA CountsStep ==
  ASSUME StoredInv, NEW seen, seen = [k \in ServicesSeen |-> Seen(k)], NEW p, p = posture(Finished)
  PROVE  CountsAreSeen(p, seen)
<1> PICK kept : kept = Counted(Basis(Finished))
  OBVIOUS
<1>1. /\ p.total = Cardinality(ServicesSeen) /\ p.total \in Nat
      /\ p.compliant = Cardinality(Having(seen, "compliant")) /\ p.compliant \in Nat
      /\ p.non_compliant = Cardinality(Having(seen, "non_compliant")) /\ p.non_compliant \in Nat
      /\ p.unevaluated = p.total - p.compliant - p.non_compliant
  BY StatesCounted
<1>2. p.occurrences = Cardinality({x \in ServicesSeen \X Grave : x[2] \in seen[x[1]].found})
  <2> PICK basis : basis = Basis(Finished)
    OBVIOUS
  <2>1. kept = Counted(basis)
    OBVIOUS
  <2>2. p.occurrences = Cardinality(Occurring(basis, kept, AtLevels(Anomalies(basis, kept), {"critical", "high"})))
    BY <2>1, PostureIs
  <2>3. p.occurrences = Cardinality(Graves(seen))
    BY <2>1, <2>2, GravesCounted
  <2> QED BY <2>3 DEF Graves
<1>3. p.expired = Cardinality({c \in {seen[k].cert : k \in ServicesSeen} \ {NoCert} : NotAfter[c] < today})
  <2>1. p.expired = Cardinality({w \in Watched(kept) : w.remaining < 0})
    BY PostureIs
  <2>2. p.expired = Cardinality(Expired(seen))
    BY <2>1, ExpiredCounted
  <2> QED BY <2>2 DEF Expired
<1>4. SecurityKpis(p).noncompliant.value = p.non_compliant
  BY DEF SecurityKpis
<1>5. SecurityKpis(p).findings.tip = p.occurrences
  BY DEF SecurityKpis
<1>6. SecurityKpis(p).certs.hint[1] = p.expired
  BY DEF SecurityKpis
<1>7. ASSUME ServicesSeen # {}
      PROVE  LET legend == ComplianceBreakdown(p).legend IN
             /\ legend[1][1] = p.compliant
             /\ legend[1][1] + legend[2][1] + legend[3][1] = p.total
  <2>1. p.total # 0
    BY <1>1, <1>7, ServicesFinite, FS_EmptySet
  <2>2. ComplianceBreakdown(p).legend = [i \in 1 .. 3 |-> <<Parts(p)[i], (1000 * Parts(p)[i]) \div p.total>>]
    BY <2>1 DEF ComplianceBreakdown
  <2>3. /\ ComplianceBreakdown(p).legend[1][1] = p.compliant
        /\ ComplianceBreakdown(p).legend[2][1] = p.non_compliant
        /\ ComplianceBreakdown(p).legend[3][1] = p.unevaluated
    BY <2>2 DEF Parts
  <2> QED BY <1>1, <2>3
<1> QED BY <1>1, <1>2, <1>3, <1>4, <1>5, <1>6, <1>7 DEF CountsAreSeen

\* An item of the vigilance names the newest of the runs its services were seen in.
LEMMA ChevronStep ==
  ASSUME StoredInv, NEW seen, seen = [k \in ServicesSeen |-> Seen(k)],
         NEW item \in Vigilance(posture(Finished)).findings
  PROVE  ChevronOpensIt(item, seen)
<1> PICK basis : basis = CurrentRuns
  OBVIOUS
<1> PICK kept : kept = Counted(Basis(Finished))
  OBVIOUS
<1>1. item \in WorstItems(basis, kept)
  BY BasisIs, PostureIs DEF Vigilance
<1>2. item \in {Item(basis, kept, f) : f \in Anomalies(basis, kept)}
  BY <1>1 DEF WorstItems, FirstOf
<1>3. PICK f \in Anomalies(basis, kept) : item = Item(basis, kept, f)
  BY <1>2
<1>4. kept = {View(k) : k \in ServicesSeen}
  BY CountedIs
<1> DEFINE runs == {v.run : v \in Affected(basis, kept, f)}
<1>5. runs # {}
  <2>1. Affected(basis, kept, f) # {}
    BY DEF Anomalies
  <2>2. PICK v \in Affected(basis, kept, f) : TRUE
    BY <2>1
  <2> QED BY <2>2
<1>6. runs \in SUBSET stored
  <2>1. ASSUME NEW v \in Affected(basis, kept, f) PROVE v.run \in stored
    <3>1. PICK k \in ServicesSeen : v = View(k)
      BY <1>4 DEF Affected
    <3> QED BY <3>1, SeenIs DEF View
  <2> QED BY <2>1
<1>7. item.finding = f /\ item.run = Latest(runs).id
  BY <1>3 DEF Item
<1>8. Latest(runs) \in runs
  <2> HIDE DEF runs
  <2> QED BY <1>5, <1>6, LatestIs
<1>9. PICK v \in Affected(basis, kept, f) : v.run = Latest(runs)
  BY <1>8
<1>10. PICK k \in ServicesSeen : v = View(k)
  BY <1>4 DEF Affected
<1>11. item.run = SeenIn(k).id /\ f \in Seen(k).found
  BY <1>7, <1>9, <1>10 DEF View, Affected
<1> HIDE DEF runs
<1>12. RunOf(item.run) = SeenIn(k)
  BY <1>11, SeenIs, RunOfId
<1>13. FindingRow(SeenIn(k), f) \in findingRows(RunOf(item.run))
  BY <1>11, <1>12, SeenIs DEF findingRows
<1>14. /\ FindingRow(SeenIn(k), f).finding = f
       /\ <<EndpointId(seen[k]), endpointLabel(seen[k])>> \in FindingRow(SeenIn(k), f).affected
  BY <1>11, SeenIs DEF FindingRow
<1> QED BY <1>7, <1>11, <1>13, <1>14 DEF ChevronOpensIt

\* Every finished run is current, or a newer one of its definition is.
LEMMA CurrentOf ==
  ASSUME StoredInv, NEW r \in Finished
  PROVE  \E b \in CurrentRuns : r = b \/ (r.def # NoDefinition /\ b.def = r.def)
<1>1. CASE r.def = NoDefinition
  BY <1>1 DEF CurrentRuns
<1>2. CASE r.def # NoDefinition
  <2> DEFINE rs == {s \in Finished : s.def = r.def}
  <2>1. rs \in SUBSET stored /\ rs # {}
    BY DEF Finished, LastOf, Ended
  <2>2. Latest(rs) \in rs /\ \A s \in rs : s.id <= Latest(rs).id
    <3> HIDE DEF rs
    <3> QED BY <2>1, LatestIs
  <2>3. Latest(rs) \in CurrentRuns
    BY <2>2 DEF CurrentRuns
  <2> QED BY <1>2, <2>2, <2>3
<1> QED BY <1>1, <1>2

\* With one current run, it is the last of the runs the trend takes.
LEMMA TrendEnds ==
  ASSUME StoredInv, NEW b, CurrentRuns = {b}, NEW d, d = TrendOf(Finished, NoDefinition)
  PROVE  LET runs == {r \in Finished : r.def = d} IN
         runs \in SUBSET stored /\ b \in runs /\ \A r \in runs : r.id <= b.id
<1>1. b \in Finished /\ Finished \in SUBSET stored /\ b \in CurrentRuns
  BY DEF CurrentRuns, Finished, LastOf, Ended
<1>2. \A r \in Finished : r = b \/ (r.def # NoDefinition /\ b.def = r.def)
  BY CurrentOf
<1>3. NoDefinition \notin {r.def : r \in Defined(Finished)}
  BY DEF Defined
<1>4. b.id \in Nat
  BY <1>1, Ids_
<1>5. CASE b.def = NoDefinition
  <2>1. \A r \in Finished : r = b
    BY <1>2, <1>5
  <2>2. Defined(Finished) = {}
    BY <1>5, <2>1 DEF Defined
  <2>3. d = NoDefinition
    BY <1>3, <2>2 DEF TrendOf
  <2> QED BY <1>1, <1>4, <1>5, <2>1, <2>3
<1>6. CASE b.def # NoDefinition
  <2>1. \A r \in Finished : r.def = b.def
    BY <1>2
  <2>2. Defined(Finished) = Finished
    BY <1>6, <2>1 DEF Defined
  <2>3. d = Latest(Finished).def /\ Latest(Finished) \in Finished
    BY <1>1, <1>3, <2>2, LatestIs DEF TrendOf
  <2>4. \A r \in Finished : r.id <= b.id
    BY <1>1, <1>6, <2>1 DEF CurrentRuns
  <2> QED BY <1>1, <2>1, <2>3, <2>4
<1> QED BY <1>5, <1>6

\* With one current run, the services are its endpoints.
LEMMA OneRunSize ==
  ASSUME StoredInv, NEW b, CurrentRuns = {b}, NEW T \in SUBSET ServicesSeen, NEW E \in SUBSET b.endpoints,
         \A k \in ServicesSeen : k \in T <=> Seen(k) \in E
  PROVE  Cardinality(E) = Cardinality(T)
<1>1. \A k \in ServicesSeen : SeenIn(k) = b /\ Seen(k) \in b.endpoints /\ EndpointKey(Seen(k)) = k
  BY SeenIs
<1>2. b \in stored /\ ReportOK(b.endpoints)
  BY BasisIs DEF StoredInv, RunOK
<1>3. ASSUME NEW e \in b.endpoints PROVE EndpointKey(e) \in ServicesSeen /\ Seen(EndpointKey(e)) = e
  <2>1. EndpointKey(e) \in ServicesSeen
    BY DEF ServicesSeen
  <2>2. Seen(EndpointKey(e)) \in b.endpoints /\ EndpointKey(Seen(EndpointKey(e))) = EndpointKey(e)
    BY <1>1, <2>1
  <2> QED BY <1>2, <2>1, <2>2, KeyTells
<1> DEFINE g == [k \in T |-> Seen(k)]
<1>4. /\ g \in [T -> E]
      /\ \A x, y \in T : g[x] = g[y] => x = y
      /\ \A e \in E : \E k \in T : g[k] = e
  BY <1>1, <1>3
<1>5. IsFiniteSet(T)
  BY ServicesFinite, FS_Subset
<1> HIDE DEF g
<1> QED BY <1>4, <1>5, SameSize

LEMMA EndsStep ==
  ASSUME StoredInv, NEW p, p = posture(Finished), p.scans = 1
  PROVE  EndsAs(trend(Finished, NoDefinition), p)
<1> PICK seen : seen = [k \in ServicesSeen |-> Seen(k)]
  OBVIOUS
<1>1. PICK b : CurrentRuns = {b}
  <2>1. IsFiniteSet(CurrentRuns)
    BY BasisIs, FS_Subset DEF StoredInv
  <2>2. Cardinality(CurrentRuns) = 1
    BY BasisIs, PostureIs
  <2> QED BY <2>1, <2>2, FS_Singleton
<1> PICK d : d = TrendOf(Finished, NoDefinition)
  OBVIOUS
<1> DEFINE all == {r \in Finished : r.def = d}
           runs == LastOf(all, TREND_POINTS)
           points == {Point(runs, r) : r \in runs}
           point == Point(runs, b)
<1>2. all \in SUBSET stored /\ b \in all /\ \A r \in all : r.id <= b.id
  BY <1>1, TrendEnds
<1> HIDE DEF all
<1>3. Latest(all) = b
  <2>1. Latest(all) \in all /\ b.id <= Latest(all).id
    BY <1>2, LatestIs
  <2> QED BY <1>2, <2>1, Ids_
<1>4. b \in runs /\ runs \in SUBSET all
  BY <1>2, <1>3, LastOfHas, ResultsAssumption
<1> HIDE DEF runs
<1>5. \A r : /\ Point(runs, r).id = r.id
             /\ Point(runs, r).rate = Rate(WithStatus(r, "compliant"), WithStatus(r, "non_compliant"))
             /\ Point(runs, r).total = Cardinality(r.endpoints)
  BY DEF Point, Summary
<1>6. point \in points /\ (\A q \in points : q.id <= point.id) /\ (\A q \in points : q.id = b.id => q = point)
  <2>1. \A r \in runs : r.id <= b.id /\ (r.id = b.id => r = b)
    BY <1>2, <1>4 DEF StoredInv
  <2> QED BY <1>4, <1>5, <2>1
<1>7. point \in Newest(points)
  BY <1>6 DEF Newest
<1>8. ASSUME NEW status PROVE WithStatus(b, status) = Cardinality(Having(seen, status))
  <2> DEFINE E == {e \in b.endpoints : e.status = status}
  <2>1. Having(seen, status) \in SUBSET ServicesSeen /\ E \in SUBSET b.endpoints
    BY DEF Having
  <2>2. \A k \in ServicesSeen : k \in Having(seen, status) <=> Seen(k) \in E
    BY <1>1, SeenIs DEF Having
  <2>3. Cardinality(E) = Cardinality(Having(seen, status))
    <3> HIDE DEF E
    <3> QED BY <1>1, <2>1, <2>2, OneRunSize
  <2> QED BY <2>3 DEF WithStatus
<1>9. Cardinality(b.endpoints) = Cardinality(ServicesSeen)
  BY <1>1, SeenIs, OneRunSize
<1>10. p.rate = point.rate /\ p.total = point.total
  <2>1. p.rate = Rate(p.compliant, p.non_compliant)
    BY PostureIs
  <2>2. /\ p.total = Cardinality(ServicesSeen)
        /\ p.compliant = Cardinality(Having(seen, "compliant"))
        /\ p.non_compliant = Cardinality(Having(seen, "non_compliant"))
    BY StatesCounted
  <2>3. point.rate = Rate(WithStatus(b, "compliant"), WithStatus(b, "non_compliant")) /\ point.total = Cardinality(b.endpoints)
    BY <1>5
  <2> QED BY <1>8, <1>9, <2>1, <2>2, <2>3
<1>11. SecurityKpis(p).compliance.value = p.rate
  BY DEF SecurityKpis
<1> PICK tr : tr = trend(Finished, NoDefinition)
  OBVIOUS
<1>12. tr.points = points
  BY DEF trend, runs, all
<1> HIDE DEF points
<1>13. point.id = b.id
  BY <1>5
<1> HIDE DEF point
<1>14. point.rate # NoRate <=> \E dot \in ComplianceTrend(tr, 0, TRUE).dots : dot.id = point.id
  <2>1. \A dot : dot \in ComplianceTrend(tr, 0, TRUE).dots <=>
          \E q \in points : q.rate # NoRate /\ dot = Dot(q, Place(points, q))
    BY <1>12 DEF ComplianceTrend
  <2>2. \A q, at : Dot(q, at).id = q.id
    BY DEF Dot
  <2> PICK dots : dots = ComplianceTrend(tr, 0, TRUE).dots
    OBVIOUS
  <2>3. (\E dot \in dots : dot.id = point.id) <=> \E q \in points : q.rate # NoRate /\ q.id = point.id
    <3>1. ASSUME NEW dot \in dots, dot.id = point.id
          PROVE  \E q \in points : q.rate # NoRate /\ q.id = point.id
      <4>1. PICK q \in points : q.rate # NoRate /\ dot = Dot(q, Place(points, q))
        BY <2>1, <3>1
      <4> QED BY <2>2, <3>1, <4>1
    <3>2. ASSUME NEW q \in points, q.rate # NoRate, q.id = point.id
          PROVE  \E dot \in dots : dot.id = point.id
      <4>1. Dot(q, Place(points, q)) \in dots
        BY <2>1, <3>2
      <4> QED BY <2>2, <3>2, <4>1
    <3> QED BY <3>1, <3>2
  <2>4. (\E q \in points : q.rate # NoRate /\ q.id = point.id) <=> point.rate # NoRate
    BY <1>6, <1>13
  <2> QED BY <2>3, <2>4
<1>15. EndsAs(tr, p)
  <2> PICK dots : dots = ComplianceTrend(tr, 0, TRUE).dots
    OBVIOUS
  <2>1. point \in Newest(tr.points)
    BY <1>7, <1>12
  <2>2. point.rate # NoRate <=> \E dot \in dots : dot.id = point.id
    BY <1>14
  <2>3. point.rate = SecurityKpis(p).compliance.value /\ point.total = p.total
    BY <1>10, <1>11
  <2> QED BY Zenon, <2>1, <2>2, <2>3 DEF EndsAs
<1> QED BY <1>15

LEMMA PostureStep == StoredInv => PostureIsCurrent
<1> SUFFICES ASSUME StoredInv,
                    NEW p \in {posture(Finished)}, NEW seen \in {[k \in ServicesSeen |-> Seen(k)]}
             PROVE  /\ CountsAreSeen(p, seen)
                    /\ \A item \in Vigilance(p).findings : ChevronOpensIt(item, seen)
                    /\ p.scans = 1 => EndsAs(trend(Finished, NoDefinition), p)
  BY Zenon DEF PostureIsCurrent
<1>1. p = posture(Finished) /\ seen = [k \in ServicesSeen |-> Seen(k)]
  OBVIOUS
<1>2. CountsAreSeen(p, seen)
  BY <1>1, CountsStep
<1>3. ASSUME NEW item \in Vigilance(p).findings PROVE ChevronOpensIt(item, seen)
  BY <1>1, <1>3, ChevronStep
<1>4. p.scans = 1 => EndsAs(trend(Finished, NoDefinition), p)
  BY <1>1, EndsStep
<1> QED BY <1>2, <1>3, <1>4

\* Dashboard over dashboard.py: in every history of runs, each service counts once
\* as the newest run in scope saw it, the findings listed open on a run that has
\* them, and with one scan in scope its trend ends on that picture.
THEOREM PostureIsCurrentAlways == ResultsSpec => []PostureIsCurrent
BY StoredAlways, PostureStep, PTL
=============================================================================
