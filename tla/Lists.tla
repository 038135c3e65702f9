------------------------------- MODULE Lists --------------------------------
(***************************************************************************)
(* Filtering and sorting as the pages do it, without recursion, so that    *)
(* what they return can be proved.  An order is a set of pairs, the first  *)
(* of which comes before the second.                                       *)
(***************************************************************************)
EXTENDS Integers, Sequences, FiniteSets

IsList(seq) == Len(seq) \in Nat /\ DOMAIN seq = 1..Len(seq)

StrictOrder(S, before) ==
  /\ \A x \in S : <<x, x>> \notin before
  /\ \A x, y \in S : x # y => <<x, y>> \in before \/ <<y, x>> \in before
  /\ \A x, y, z \in S : <<x, y>> \in before /\ <<y, z>> \in before => <<x, z>> \in before

\* The elements of a finite set, one after the other.
Earlier(S, before, x) == {y \in S : <<y, x>> \in before}
Listed(S, before) ==
  [k \in 1..Cardinality(S) |-> CHOOSE x \in S : Cardinality(Earlier(S, before, x)) = k - 1]

Take(seq, at) == [k \in DOMAIN at |-> seq[at[k]]]

\* What a filter leaves: the elements at some places.
Ascending(I) == {p \in I \X I : p[1] < p[2]}
Chosen(seq, I) == Take(seq, Listed(I, Ascending(I)))

\* Pairs of numbers, by the first and then by the second.
Lexicographic(P) ==
  {q \in P \X P : q[1][1] < q[2][1] \/ (q[1][1] = q[2][1] /\ q[1][2] < q[2][2])}

\* A stable sort of what a filter leaves: `after' are the pairs of places for
\* whose elements the comparator is positive.  The fewer places one has to come
\* after, the earlier it comes.  Where the comparator is no order, JavaScript
\* leaves open what the order of the elements is, and this is one.
Weighed(I, after) == {<<Cardinality({j \in I : <<i, j>> \in after}), i>> : i \in I}
Sorted(I, after) ==
  LET at == Listed(Weighed(I, after), Lexicographic(Weighed(I, after)))
  IN [k \in DOMAIN at |-> at[k][2]]
OrderBy(seq, I, after) == Take(seq, Sorted(I, after))
After(seq, cmp(_, _)) == {p \in (DOMAIN seq) \X (DOMAIN seq) : cmp(seq[p[1]], seq[p[2]]) > 0}
FirstNonZero(a, b, c) == IF a # 0 THEN a ELSE IF b # 0 THEN b ELSE c

First(seq, n) == [k \in 1..(IF Len(seq) < n THEN Len(seq) ELSE n) |-> seq[k]]

\* The elements of several sequences, one after the other.
Places(seqs) == UNION {{i} \X (DOMAIN seqs[i]) : i \in DOMAIN seqs}
Joined(seqs) ==
  LET at == Listed(Places(seqs), Lexicographic(Places(seqs)))
  IN [k \in DOMAIN at |-> seqs[at[k][1]][at[k][2]]]

\* The sum of the natural numbers that f gives.
Total(f) == Cardinality(UNION {{x} \X (1..f[x]) : x \in DOMAIN f})
=============================================================================
