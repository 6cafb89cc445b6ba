------------------------------ MODULE Vectors ------------------------------
(***************************************************************************)
(* What the code does with vectors, said without recursion: a filter keeps *)
(* the elements at some positions in their order, a sort is stable, a sum  *)
(* adds up what a map holds.                                               *)
(***************************************************************************)
EXTENDS Integers, Sequences, FiniteSets, FiniteSetsExt

\* The one element of S: a value that is used many times gets a name.
The(S) == CHOOSE x \in S : TRUE

\* The k-th element of I in the order.
Nth(I, order, k) == CHOOSE i \in I : Cardinality({j \in I : <<j, i>> \in order}) = k - 1

Ascending(I) == {p \in I \X I : p[1] < p[2]}

\* The elements of s at the positions I in the order.
Arranged(s, I, order) == [k \in 1..Cardinality(I) |-> s[Nth(I, order, k)]] \o << >>

\* retain, filter: the elements of s at the positions I.
Kept(s, I) == The({Arranged(s, J, Ascending(J)) : J \in {I}})

\* The elements of s that are not in the set no.
Without(s, no) == Kept(s, {i \in DOMAIN s : s[i] \notin no})

\* sort_by, where less relates a position to those of greater elements:
\* stable, so that elements that compare equal stay in their order.
Stable(I, less) == less \cup {p \in Ascending(I) : <<p[2], p[1]>> \notin less}
Sorted(s, less) == The({Arranged(s, DOMAIN s, order) : order \in {Stable(DOMAIN s, less)}})

\* Everything in the map g added up.
SumOf(g) == MapThenSumSet(LAMBDA x : g[x], DOMAIN g)
=============================================================================
