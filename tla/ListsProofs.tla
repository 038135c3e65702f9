---------------------------- MODULE ListsProofs -----------------------------
(***************************************************************************)
(* What the operators of Lists return, for any finite set, any sequence    *)
(* and any comparator.                                                     *)
(***************************************************************************)
EXTENDS Lists, FiniteSetTheorems, FunctionTheorems, TLAPS

\* A set with an element more than another has more elements.
LEMMA FewerElements ==
  ASSUME NEW Y, IsFiniteSet(Y), NEW X \in SUBSET Y, NEW y \in Y \ X
  PROVE  Cardinality(X) \in Nat /\ Cardinality(Y) \in Nat /\ Cardinality(X) < Cardinality(Y)
<1>1. IsFiniteSet(X) /\ Cardinality(X) <= Cardinality(Y) /\ Cardinality(X) # Cardinality(Y)
  BY FS_Subset
<1> QED
  BY <1>1, FS_CardinalityType

\* Fewer elements are before one than before a later one.
LEMMA FewerEarlier ==
  ASSUME NEW S, IsFiniteSet(S), NEW before, StrictOrder(S, before),
         NEW x \in S, NEW y \in S, <<x, y>> \in before
  PROVE  /\ Cardinality(Earlier(S, before, x)) \in Nat
         /\ Cardinality(Earlier(S, before, y)) \in Nat
         /\ Cardinality(Earlier(S, before, x)) < Cardinality(Earlier(S, before, y))
<1>1. Earlier(S, before, x) \subseteq Earlier(S, before, y)
  BY DEF StrictOrder, Earlier
<1>2. x \in Earlier(S, before, y) \ Earlier(S, before, x)
  BY DEF StrictOrder, Earlier
<1>3. IsFiniteSet(Earlier(S, before, y))
  BY FS_Subset DEF Earlier
<1> QED
  BY <1>1, <1>2, <1>3, FewerElements

\* Listed has each element once, in the order.
LEMMA ListedIs ==
  ASSUME NEW S, IsFiniteSet(S), NEW before, StrictOrder(S, before)
  PROVE  /\ Listed(S, before) \in [1..Cardinality(S) -> S]
         /\ \A x \in S : \E k \in 1..Cardinality(S) : Listed(S, before)[k] = x
         /\ \A k, l \in 1..Cardinality(S) :
              k < l => <<Listed(S, before)[k], Listed(S, before)[l]>> \in before
<1> DEFINE n == Cardinality(S)
           place == [x \in S |-> Cardinality(Earlier(S, before, x)) + 1]
<1>1. n \in Nat
  BY FS_CardinalityType
<1>2. ASSUME NEW x \in S
      PROVE  Cardinality(Earlier(S, before, x)) \in Nat /\ place[x] \in 1..n
  <2>1. Earlier(S, before, x) \in SUBSET S /\ x \in S \ Earlier(S, before, x)
    BY DEF StrictOrder, Earlier
  <2>2. Cardinality(Earlier(S, before, x)) \in Nat /\ Cardinality(Earlier(S, before, x)) < n
    BY <2>1, FewerElements
  <2> QED
    BY <2>2, <1>1
<1>3. ASSUME NEW x \in S, NEW y \in S, <<x, y>> \in before PROVE place[x] < place[y]
  BY <1>3, FewerEarlier
<1>4. place \in Injection(S, 1..n)
  <2>1. place \in [S -> 1..n]
    BY <1>2
  <2>2. ASSUME NEW x \in S, NEW y \in S, x # y PROVE place[x] # place[y]
    <3>1. <<x, y>> \in before \/ <<y, x>> \in before
      BY <2>2 DEF StrictOrder
    <3>2. place[x] \in Int /\ place[y] \in Int
      BY <1>2
    <3> QED
      BY <3>1, <3>2, <1>3
  <2> QED
    BY <2>1, <2>2 DEF Injection, IsInjective
<1>5. \A k \in 1..n : \E x \in S : place[x] = k
  <2>1. IsFiniteSet(1..n) /\ Cardinality(1..n) = n
    BY <1>1, FS_Interval
  <2> HIDE DEF place
  <2>2. place \in Surjection(S, 1..n)
    BY <1>4, <2>1, FS_Injection
  <2> QED
    BY <2>2 DEF Surjection
<1> DEFINE L == Listed(S, before)
<1>6. L = [k \in 1..n |-> CHOOSE x \in S : Cardinality(Earlier(S, before, x)) = k - 1]
  BY DEF Listed
<1> HIDE DEF L
<1>7. ASSUME NEW k \in 1..n PROVE L[k] \in S /\ place[L[k]] = k
  <2>1. L[k] = CHOOSE x \in S : Cardinality(Earlier(S, before, x)) = k - 1
    BY <1>6
  <2>2. \E x \in S : Cardinality(Earlier(S, before, x)) = k - 1
    BY <1>5, <1>2
  <2>3. L[k] \in S /\ Cardinality(Earlier(S, before, L[k])) = k - 1
    BY <2>1, <2>2
  <2> QED
    BY <2>3
<1>8. L \in [1..n -> S]
  BY <1>6, <1>7
<1> HIDE DEF place
<1>9. ASSUME NEW x \in S PROVE \E k \in 1..n : L[k] = x
  <2>1. place[x] \in 1..n
    BY <1>4 DEF Injection
  <2>2. L[place[x]] \in S /\ place[L[place[x]]] = place[x]
    BY <1>7, <2>1
  <2>3. L[place[x]] = x
    BY <1>4, <2>2 DEF Injection, IsInjective
  <2> QED
    BY <2>1, <2>3
<1>10. ASSUME NEW k \in 1..n, NEW l \in 1..n, k < l PROVE <<L[k], L[l]>> \in before
  <2>1. /\ L[k] \in S /\ place[L[k]] = k
        /\ L[l] \in S /\ place[L[l]] = l
    BY <1>7
  <2>2. L[k] # L[l]
    BY <2>1, <1>10
  <2>3. <<L[k], L[l]>> \in before \/ <<L[l], L[k]>> \in before
    BY <2>1, <2>2 DEF StrictOrder
  <2>4. ~ <<L[l], L[k]>> \in before
    BY <2>1, <1>3, <1>10
  <2> QED
    BY <2>3, <2>4
<1> QED
  BY <1>8, <1>9, <1>10 DEF L

\* Hence it numbers the elements.
LEMMA ListedNumbers ==
  ASSUME NEW S, IsFiniteSet(S), NEW before, StrictOrder(S, before)
  PROVE  Listed(S, before) \in Bijection(1..Cardinality(S), S)
<1> DEFINE L == Listed(S, before)
<1>1. L \in [1..Cardinality(S) -> S]
  BY ListedIs
<1>2. \A x \in S : \E k \in 1..Cardinality(S) : L[k] = x
  BY ListedIs
<1>3. \A k, l \in 1..Cardinality(S) : k < l => <<L[k], L[l]>> \in before
  BY ListedIs
<1> HIDE DEF L
<1>4. Cardinality(S) \in Nat
  BY FS_CardinalityType
<1>5. ASSUME NEW k \in 1..Cardinality(S), NEW l \in 1..Cardinality(S), L[k] = L[l] PROVE k = l
  <2>1. L[k] \in S /\ <<L[k], L[k]>> \notin before
    BY <1>1 DEF StrictOrder
  <2>2. ~ k < l /\ ~ l < k
    BY <2>1, <1>3, <1>5
  <2> QED
    BY <2>2, <1>4
<1> QED
  BY <1>1, <1>2, <1>5 DEF Bijection, Injection, IsInjective, Surjection, L

\* The order of places is an order.
LEMMA AscendingOrders == ASSUME NEW I \in SUBSET Int PROVE StrictOrder(I, Ascending(I))
  BY DEF StrictOrder, Ascending

\* So is that of pairs of numbers.
LEMMA LexicographicOrders == ASSUME NEW P \in SUBSET (Int \X Int) PROVE StrictOrder(P, Lexicographic(P))
<1> DEFINE Before(x, y) == x[1] < y[1] \/ (x[1] = y[1] /\ x[2] < y[2])
<1>1. \A x, y \in P : <<x, y>> \in Lexicographic(P) <=> Before(x, y)
  BY DEF Lexicographic
<1>2. \A x, y \in Int \X Int : x # y => Before(x, y) \/ Before(y, x)
  OBVIOUS
<1>3. \A x, y, z \in Int \X Int : Before(x, y) /\ Before(y, z) => Before(x, z)
  OBVIOUS
<1>4. \A x \in Int \X Int : ~ Before(x, x)
  OBVIOUS
<1> HIDE DEF Before
<1> QED
  BY <1>1, <1>2, <1>3, <1>4 DEF StrictOrder

\* How many places one has to come after.
Overtaken(I, after, i) == Cardinality({j \in I : <<i, j>> \in after})

LEMMA OvertakenCounts ==
  ASSUME NEW I, IsFiniteSet(I), NEW after, NEW i
  PROVE  Overtaken(I, after, i) \in Nat
<1>1. {j \in I : <<i, j>> \in after} \in SUBSET I
  OBVIOUS
<1>2. IsFiniteSet({j \in I : <<i, j>> \in after})
  BY <1>1, FS_Subset
<1> QED
  BY <1>2, FS_CardinalityType DEF Overtaken

\* Every place is weighed once.
LEMMA WeighedAre ==
  ASSUME NEW I \in SUBSET Int, IsFiniteSet(I), NEW after
  PROVE  /\ IsFiniteSet(Weighed(I, after)) /\ Cardinality(Weighed(I, after)) = Cardinality(I)
         /\ Weighed(I, after) \in SUBSET (Int \X Int)
         /\ \A w \in Weighed(I, after) : w[2] \in I /\ w = <<Overtaken(I, after, w[2]), w[2]>>
         /\ \A i \in I : <<Overtaken(I, after, i), i>> \in Weighed(I, after)
<1> DEFINE W == {<<Overtaken(I, after, i), i>> : i \in I}
           f == [i \in I |-> <<Overtaken(I, after, i), i>>]
<1>1. Weighed(I, after) = W
  BY DEF Weighed, Overtaken
<1>2. \A i \in I : Overtaken(I, after, i) \in Int
  BY OvertakenCounts
<1>3. f \in Bijection(I, W)
  BY DEF Bijection, Injection, IsInjective, Surjection
<1>4. W \in SUBSET (Int \X Int)
  BY <1>2
<1>5. \A w \in W : w[2] \in I /\ w = <<Overtaken(I, after, w[2]), w[2]>>
  OBVIOUS
<1>6. \A i \in I : <<Overtaken(I, after, i), i>> \in W
  OBVIOUS
<1> HIDE DEF W, f
<1>7. IsFiniteSet(W) /\ Cardinality(W) = Cardinality(I)
  BY <1>3, FS_Bijection DEF ExistsBijection
<1> QED
  BY <1>1, <1>4, <1>5, <1>6, <1>7

\* A sort numbers the places, whatever the comparator.
LEMMA SortedNumbers ==
  ASSUME NEW I \in SUBSET Int, IsFiniteSet(I), NEW after
  PROVE  /\ Sorted(I, after) \in Bijection(1..Cardinality(I), I)
         /\ \A k, l \in 1..Cardinality(I) : k < l =>
              Overtaken(I, after, Sorted(I, after)[k]) <= Overtaken(I, after, Sorted(I, after)[l])
<1> DEFINE W == Weighed(I, after)
           n == Cardinality(I)
           at == Listed(W, Lexicographic(W))
           s == Sorted(I, after)
<1>1. /\ IsFiniteSet(W) /\ Cardinality(W) = n
      /\ W \in SUBSET (Int \X Int)
      /\ \A w \in W : w[2] \in I /\ w = <<Overtaken(I, after, w[2]), w[2]>>
      /\ \A i \in I : <<Overtaken(I, after, i), i>> \in W
  BY WeighedAre
<1> HIDE DEF W
<1>2. StrictOrder(W, Lexicographic(W))
  BY <1>1, LexicographicOrders
<1>3. at \in Bijection(1..n, W)
  BY <1>1, <1>2, ListedNumbers
<1>4. \A k, l \in 1..n : k < l => <<at[k], at[l]>> \in Lexicographic(W)
  BY <1>1, <1>2, ListedIs
<1> HIDE DEF at
<1>5. at \in [1..n -> W]
  BY <1>3 DEF Bijection, Injection
<1>6. s = [k \in 1..n |-> at[k][2]]
  BY <1>5 DEF Sorted, at, W
<1> HIDE DEF s
<1>7. s \in [1..n -> I]
  BY <1>1, <1>5, <1>6
<1>8. ASSUME NEW k \in 1..n, NEW l \in 1..n, s[k] = s[l] PROVE k = l
  <2>1. at[k] \in W /\ at[l] \in W /\ at[k][2] = at[l][2]
    BY <1>5, <1>6, <1>8
  <2>2. at[k] = at[l]
    BY <2>1, <1>1
  <2> QED
    BY <2>2, <1>3 DEF Bijection, Injection, IsInjective
<1>9. ASSUME NEW i \in I PROVE \E k \in 1..n : s[k] = i
  <2>1. PICK k \in 1..n : at[k] = <<Overtaken(I, after, i), i>>
    BY <1>1, <1>3 DEF Bijection, Surjection
  <2> QED
    BY <2>1, <1>6
<1>10. s \in Bijection(1..n, I)
  BY <1>7, <1>8, <1>9 DEF Bijection, Injection, IsInjective, Surjection
<1>11. ASSUME NEW k \in 1..n, NEW l \in 1..n, k < l
       PROVE  Overtaken(I, after, s[k]) <= Overtaken(I, after, s[l])
  <2>1. at[k] \in W /\ at[l] \in W /\ at[k][1] <= at[l][1]
    <3>1. <<at[k], at[l]>> \in Lexicographic(W)
      BY <1>4, <1>11
    <3>2. at[k][1] < at[l][1] \/ at[k][1] = at[l][1]
      BY <3>1 DEF Lexicographic
    <3>3. at[k] \in W /\ at[l] \in W
      BY <1>5
    <3>4. at[k][1] \in Int /\ at[l][1] \in Int
      BY <3>3, <1>1
    <3> QED
      BY <3>2, <3>3, <3>4
  <2>2. at[k][1] = Overtaken(I, after, s[k]) /\ at[l][1] = Overtaken(I, after, s[l])
    BY <2>1, <1>1, <1>6
  <2> QED
    BY <2>1, <2>2
<1> QED
  BY <1>10, <1>11 DEF s

\* applyState, and every sort of report.js: where the comparator compares keys,
\* the keys of a sorted list of any length ascend.
THEOREM SortedByKey ==
  ASSUME NEW I \in SUBSET Int, IsFiniteSet(I), NEW after, NEW key,
         \A i \in I : key[i] \in Int,
         \A i, j \in I : <<i, j>> \in after <=> key[i] > key[j],
         NEW k \in 1..Cardinality(I), NEW l \in 1..Cardinality(I), k < l
  PROVE  key[Sorted(I, after)[k]] <= key[Sorted(I, after)[l]]
<1> DEFINE at == Sorted(I, after)
<1>1. at \in [1..Cardinality(I) -> I] /\ Overtaken(I, after, at[k]) <= Overtaken(I, after, at[l])
  BY SortedNumbers DEF Bijection, Injection
<1> HIDE DEF at
<1>2. PICK x \in I, y \in I : x = at[k] /\ y = at[l]
  BY <1>1
<1>4. CASE key[x] > key[y]
  <2> DEFINE X == {j \in I : <<x, j>> \in after}
             Y == {j \in I : <<y, j>> \in after}
  <2>0. key[x] \in Int /\ key[y] \in Int
    OBVIOUS
  <2>1. Y \in SUBSET X /\ y \in X \ Y
    <3>1. \A j \in I : <<y, j>> \in after => <<x, j>> \in after
      <4> SUFFICES ASSUME NEW j \in I, key[y] > key[j] PROVE key[x] > key[j]
        OBVIOUS
      <4>1. key[j] \in Int
        OBVIOUS
      <4> QED
        BY <1>4, <2>0, <4>1
    <3>2. <<x, y>> \in after /\ <<y, y>> \notin after
      BY <1>4, <2>0
    <3> QED
      BY <3>1, <3>2
  <2>2. IsFiniteSet(X)
    BY FS_Subset
  <2>3. Overtaken(I, after, x) = Cardinality(X) /\ Overtaken(I, after, y) = Cardinality(Y)
    BY DEF Overtaken
  <2> HIDE DEF X, Y
  <2>4. Cardinality(Y) \in Nat /\ Cardinality(X) \in Nat /\ Cardinality(Y) < Cardinality(X)
    BY <2>1, <2>2, FewerElements
  <2> QED
    BY <2>3, <2>4, <1>1, <1>2
<1>5. CASE ~ key[x] > key[y]
  <2>1. key[x] \in Int /\ key[y] \in Int
    OBVIOUS
  <2> QED
    BY <1>5, <1>2, <2>1 DEF at
<1> QED
  BY <1>4, <1>5

\* The places among some where x is.
PlacesOf(x, seq, I) == {i \in I : seq[i] = x}

\* Taking the elements at some places, each once, takes each as often as it is there.
LEMMA TakeOccurs ==
  ASSUME NEW I, IsFiniteSet(I), NEW at \in Bijection(1..Cardinality(I), I), NEW seq, NEW x
  PROVE  Cardinality(PlacesOf(x, Take(seq, at), DOMAIN Take(seq, at))) = Cardinality(PlacesOf(x, seq, I))
<1> DEFINE n == Cardinality(I)
           K == {k \in 1..n : seq[at[k]] = x}
           J == PlacesOf(x, seq, I)
           f == [k \in K |-> at[k]]
<1>1. at \in [1..n -> I]
  BY DEF Bijection, Injection
<1>2. PlacesOf(x, Take(seq, at), DOMAIN Take(seq, at)) = K
  BY <1>1 DEF Take, PlacesOf
<1>0. J = {i \in I : seq[i] = x}
  BY DEF PlacesOf
<1>3. f \in Bijection(K, J)
  <2>1. f \in [K -> J]
    BY <1>0, <1>1
  <2>2. \A k, l \in K : f[k] = f[l] => k = l
    BY DEF Bijection, Injection, IsInjective
  <2>3. \A i \in J : \E k \in K : f[k] = i
    BY <1>0 DEF Bijection, Surjection
  <2> QED
    BY <2>1, <2>2, <2>3 DEF Bijection, Injection, IsInjective, Surjection
<1>4. IsFiniteSet(J)
  BY <1>0, FS_Subset
<1>5. IsFiniteSet(K)
  <2>1. n \in Nat /\ IsFiniteSet(1..n)
    BY FS_CardinalityType, FS_Interval
  <2>2. K \in SUBSET (1..n)
    OBVIOUS
  <2> HIDE DEF K
  <2> QED
    BY <2>1, <2>2, FS_Subset
<1> HIDE DEF K, J, f
<1>6. Cardinality(K) = Cardinality(J)
  BY <1>3, <1>4, <1>5, FS_Bijection DEF ExistsBijection
<1> QED
  BY <1>2, <1>6 DEF J

\* Some place is the first.
LEMMA LeastPlace ==
  ASSUME NEW I \in SUBSET Int, IsFiniteSet(I), I # {}
  PROVE  \E i \in I : \A j \in I : i <= j
<1> DEFINE L == Listed(I, Ascending(I))
           n == Cardinality(I)
<1>1. /\ L \in [1..n -> I]
      /\ \A x \in I : \E k \in 1..n : L[k] = x
      /\ \A k, l \in 1..n : k < l => <<L[k], L[l]>> \in Ascending(I)
  BY AscendingOrders, ListedIs
<1>2. n \in Nat /\ n # 0
  BY FS_CardinalityType, FS_EmptySet
<1> HIDE DEF L, n
<1>3. 1 \in 1..n /\ L[1] \in I
  BY <1>1, <1>2
<1>4. ASSUME NEW j \in I PROVE L[1] <= j
  <2>0. L[1] \in Int /\ j \in Int
    BY <1>3
  <2>1. PICK k \in 1..n : L[k] = j
    BY <1>1
  <2>2. CASE k = 1
    BY <2>0, <2>1, <2>2
  <2>3. CASE k # 1
    <3>1. <<L[1], L[k]>> \in Ascending(I)
      BY <2>3, <1>1, <1>2, <1>3
    <3> QED
      BY <3>1, <2>0, <2>1 DEF Ascending
  <2> QED
    BY <2>1, <2>2, <2>3
<1> QED
  BY <1>3, <1>4

\* A list of elements taken from some places of another, each place once.
Picks(s, seq, I) == \E at \in Bijection(1..Cardinality(I), I) : s = Take(seq, at)

LEMMA PicksIs ==
  ASSUME NEW I, IsFiniteSet(I), NEW seq, NEW s, Picks(s, seq, I)
  PROVE  /\ IsList(s) /\ Len(s) = Cardinality(I)
         /\ \A k \in DOMAIN s : \E i \in I : s[k] = seq[i]
         /\ \A i \in I : \E k \in DOMAIN s : s[k] = seq[i]
<1>1. PICK at \in Bijection(1..Cardinality(I), I) : s = Take(seq, at)
  BY DEF Picks
<1>2. DOMAIN s = 1..Cardinality(I) /\ \A k \in DOMAIN s : s[k] = seq[at[k]] /\ at[k] \in I
  BY <1>1 DEF Take, Bijection, Injection
<1>3. Cardinality(I) \in Nat
  BY FS_CardinalityType
<1>4. IsList(s) /\ Len(s) = Cardinality(I)
  BY <1>1, <1>2, <1>3 DEF IsList, Take
<1>5. \A i \in I : \E k \in DOMAIN s : s[k] = seq[i]
  BY <1>1, <1>2 DEF Bijection, Surjection
<1> QED
  BY <1>2, <1>4, <1>5

\* What was different stays so.
LEMMA PicksDiffer ==
  ASSUME NEW I, NEW seq, NEW s, Picks(s, seq, I), \A i, j \in I : seq[i] = seq[j] => i = j
  PROVE  \A k, l \in DOMAIN s : s[k] = s[l] => k = l
<1>1. PICK at \in Bijection(1..Cardinality(I), I) : s = Take(seq, at)
  BY DEF Picks
<1>2. DOMAIN s = 1..Cardinality(I) /\ \A k \in DOMAIN s : s[k] = seq[at[k]] /\ at[k] \in I
  BY <1>1 DEF Take, Bijection, Injection
<1>3. \A k, l \in DOMAIN s : at[k] = at[l] => k = l
  BY <1>1, <1>2 DEF Bijection, Injection, IsInjective
<1> QED
  BY <1>2, <1>3

\* The sum of the sizes of the parts that a finite set falls into.
Part(S, class, x) == {s \in S : class[s] = x}
Numbered(f) == UNION {{x} \X (1..f[x]) : x \in DOMAIN f}

LEMMA NumberedIs == ASSUME NEW f, NEW p PROVE p \in Numbered(f) <=> \E x \in DOMAIN f : \E k \in 1..f[x] : p = <<x, k>>
  BY DEF Numbered

LEMMA TotalOfParts ==
  ASSUME NEW S, IsFiniteSet(S), NEW class, NEW f,
         \A s \in S : class[s] \in DOMAIN f,
         \A x \in DOMAIN f : f[x] = Cardinality(Part(S, class, x))
  PROVE  Total(f) = Cardinality(S)
<1> DEFINE B(x) == Bijection(1..f[x], Part(S, class, x))
           b == [x \in DOMAIN f |-> CHOOSE g : g \in B(x)]
           T == Numbered(f)
           h == [p \in T |-> b[p[1]][p[2]]]
<1>1. ASSUME NEW x \in DOMAIN f PROVE b[x] \in B(x)
  <2>1. Part(S, class, x) \in SUBSET S
    BY DEF Part
  <2>2. IsFiniteSet(Part(S, class, x))
    BY <2>1, FS_Subset
  <2>3. ExistsBijection(1..f[x], Part(S, class, x))
    BY <2>2, FS_CardinalityType
  <2>4. \E g : g \in B(x)
    BY <2>3 DEF ExistsBijection
  <2>5. b[x] = CHOOSE g : g \in B(x)
    OBVIOUS
  <2> HIDE DEF B, b
  <2> QED
    BY <2>4, <2>5
<1> HIDE DEF b
<1>2. ASSUME NEW x \in DOMAIN f
      PROVE  /\ \A k \in 1..f[x] : b[x][k] \in S /\ class[b[x][k]] = x
             /\ \A k, l \in 1..f[x] : b[x][k] = b[x][l] => k = l
             /\ \A s \in S : class[s] = x => \E k \in 1..f[x] : b[x][k] = s
  <2>1. b[x] \in Bijection(1..f[x], Part(S, class, x))
    BY <1>1
  <2> QED
    BY <2>1 DEF Part, Bijection, Injection, IsInjective, Surjection
<1>3. ASSUME NEW p \in T
      PROVE  /\ h[p] = b[p[1]][p[2]] /\ p = <<p[1], p[2]>>
             /\ p[1] \in DOMAIN f /\ p[2] \in 1..f[p[1]]
  BY NumberedIs
<1> HIDE DEF h, B
<1>4. \A p \in T : h[p] \in S
  BY <1>2, <1>3
<1>5. ASSUME NEW p \in T, NEW q \in T, h[p] = h[q] PROVE p = q
  <2>1. p[1] = q[1]
    BY <1>2, <1>3, <1>5
  <2>2. p[2] = q[2]
    BY <2>1, <1>2, <1>3, <1>5
  <2> QED
    BY <2>1, <2>2, <1>3
<1>6. ASSUME NEW s \in S PROVE \E p \in T : h[p] = s
  <2>1. PICK x \in DOMAIN f : x = class[s]
    OBVIOUS
  <2>2. PICK k \in 1..f[x] : b[x][k] = s
    BY <2>1, <1>2
  <2>3. PICK p \in T : p = <<x, k>>
    BY NumberedIs
  <2>4. h[p] = b[p[1]][p[2]]
    BY <1>3
  <2> QED
    BY <2>2, <2>3, <2>4
<1>7. h \in Bijection(T, S)
  <2>1. h \in [T -> S]
    BY <1>4 DEF h
  <2> QED
    BY <2>1, <1>5, <1>6 DEF Bijection, Injection, IsInjective, Surjection
<1>8. ExistsBijection(S, T)
  BY <1>7, Fun_ExistsBijSymmetric DEF ExistsBijection
<1>9. Cardinality(T) = Cardinality(S)
  BY <1>8, FS_Bijection
<1> QED
  BY <1>9 DEF Total, Numbered

\* The sum of zeros.
LEMMA TotalOfZeros ==
  ASSUME NEW f, \A x \in DOMAIN f : f[x] = 0
  PROVE  Total(f) = 0
<1>1. Numbered(f) = {}
  <2> SUFFICES ASSUME NEW p \in Numbered(f) PROVE FALSE
    OBVIOUS
  <2>1. PICK x \in DOMAIN f : \E k \in 1..f[x] : p = <<x, k>>
    BY NumberedIs
  <2>2. 1..f[x] = {}
    OBVIOUS
  <2> QED
    BY <2>1, <2>2
<1> QED
  BY <1>1, FS_EmptySet DEF Total, Numbered

\* As many values as places that give them, where no two places give the same.
ValuesOf(f, I) == {f[i] : i \in I}

LEMMA AsMany ==
  ASSUME NEW I, IsFiniteSet(I), NEW f, \A i, j \in I : f[i] = f[j] => i = j
  PROVE  Cardinality(ValuesOf(f, I)) = Cardinality(I) /\ IsFiniteSet(ValuesOf(f, I))
<1> DEFINE S == ValuesOf(f, I)
           g == [i \in I |-> f[i]]
<1>1. g \in Bijection(I, S)
  BY DEF ValuesOf, Bijection, Injection, IsInjective, Surjection
<1> HIDE DEF S, g
<1>2. IsFiniteSet(S) /\ Cardinality(S) = Cardinality(I)
  BY <1>1, FS_Bijection DEF ExistsBijection
<1> QED
  BY <1>2 DEF S

LEMMA NoneCounted == ASSUME NEW S, IsFiniteSet(S), Cardinality(S) = 0 PROVE S = {}
  BY FS_EmptySet

\* Places of a list, and a list taken by them.
LEMMA ListFinite == ASSUME NEW s, IsList(s) PROVE IsFiniteSet(DOMAIN s) /\ DOMAIN s \subseteq Int
  BY FS_Interval DEF IsList

LEMMA TakenIsList ==
  ASSUME NEW n \in Nat, NEW at, DOMAIN at = 1..n, NEW s
  PROVE  IsList(Take(s, at)) /\ Len(Take(s, at)) = n
  BY DEF Take, IsList
=============================================================================
