------------------------------ MODULE Ranking ------------------------------
(***************************************************************************)
(* What both pipelines do with collections.  Vectors are sequences and     *)
(* their sorts are stable.  A HashMap is iterated in no particular order,  *)
(* so a ranking of one that is cut is any of the Cuts that the comparison  *)
(* allows.                                                                 *)
(***************************************************************************)
EXTENDS Vectors, SequencesExt

\* The n best of S, where Beats is a total order.
Best(S, n, Beats(_, _)) == {x \in S : Cardinality({y \in S : Beats(y, x)}) < n}

\* All the ways to sort S and cut it to n, where some elements may tie.
Cuts(S, n, Beats(_, _)) ==
    {T \in kSubset(Min({n, Cardinality(S)}), S) : \A x \in T, y \in S \ T : ~Beats(y, x)}

\* iter().map().collect(), filter and sort_by: Test is given the vector and
\* a position, Beats two elements.
Mapped(s, Op(_)) == The({[i \in DOMAIN t |-> Op(t[i])] \o << >> : t \in {s}})
Picked(s, Test(_, _)) == The({Kept(t, {i \in DOMAIN t : Test(t, i)}) : t \in {s}})
SortedBy(s, Beats(_, _)) ==
    The({Sorted(t, {p \in (DOMAIN t) \X (DOMAIN t) : Beats(t[p[1]], t[p[2]])}) : t \in {s}})

Take(s, n) == SubSeq(s, 1, IF Len(s) < n THEN Len(s) ELSE n)

-----------------------------------------------------------------------------
(* A tag profile: how much the seeds weigh in each tag.                    *)

WeightOf(profile, t) == IF t \in DOMAIN profile THEN profile[t] ELSE 0

\* The weight that stands for 1.0 after the normalization, at least 1.
Heaviest(profile) == Max({1} \cup {profile[t] : t \in DOMAIN profile})

Empty == [x \in {} |-> 0]

\* What f holds and what g adds to it.
Gained(f, g) == [x \in DOMAIN f \cup DOMAIN g |-> WeightOf(f, x) + WeightOf(g, x)]

Occurs(t, s) == Cardinality({i \in DOMAIN s : s[i] = t})

\* Every occurrence of a tag adds w.
TagGain(tags, w) == [t \in ToSet(tags) |-> w * Occurs(t, tags)]
=============================================================================
