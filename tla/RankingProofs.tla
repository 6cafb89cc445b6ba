--------------------------- MODULE RankingProofs ---------------------------
(***************************************************************************)
(* Facts about filters, sorts, sums and rankings, of any length.           *)
(* Induction is by the least counterexample, because the induction rules   *)
(* of the library take an operator as a parameter.                         *)
(***************************************************************************)
EXTENDS Ranking, FiniteSetTheorems, SequenceTheorems, TLAPS

(* Whatever holds of 0 and of the successor of each number of which it     *)
(* holds, holds of all numbers: here for the set of those numbers.         *)
LEMMA SetInduction ==
    ASSUME NEW P, 0 \in P, \A n \in Nat : n \in P => n + 1 \in P
    PROVE  Nat \subseteq P
<1> DEFINE R == {ss \in Nat \X Nat : ss[1] < ss[2]}
           T == Nat \ P
<1>1. IsWellFoundedOn(R, Nat)
  BY NatLessThanWellFounded DEF OpToRel
<1> SUFFICES ASSUME T # {} PROVE FALSE
  OBVIOUS
<1>2. PICK x \in T : \A y \in T : ~(<<y, x>> \in R)
  <2> HIDE DEF R
  <2>1. T \subseteq Nat
    OBVIOUS
  <2> HIDE DEF T
  <2> QED
    BY <1>1, <2>1, WFMin
<1>3. x \in Nat /\ x # 0 /\ x \notin P
  OBVIOUS
<1>4. x - 1 \in Nat /\ <<x - 1, x>> \in R
  BY <1>3
<1>5. x - 1 \in P
  BY <1>2, <1>4
<1>6. (x - 1) + 1 \in P
  BY <1>4, <1>5
<1> QED
  BY <1>3, <1>6

(* A set of numbers has a least one.                                       *)
LEMMA LeastNumber ==
    ASSUME NEW S, S \subseteq Nat, S # {}
    PROVE  \E n \in S : \A m \in S : n <= m
<1> SUFFICES ASSUME \A n \in S : \E m \in S : m < n PROVE FALSE
  OBVIOUS
<1> DEFINE P == {n \in Nat : \A m \in S : n <= m}
<1>1. 0 \in P
  OBVIOUS
<1>2. ASSUME NEW n \in Nat, n \in P PROVE n + 1 \in P
  BY <1>2
<1>3. Nat \subseteq P
  <2> HIDE DEF P
  <2> QED
    BY <1>1, <1>2, SetInduction
<1>4. PICK m \in S : TRUE
  OBVIOUS
<1>5. m + 1 \in P
  BY <1>3
<1> QED
  BY <1>5

(* A finite set of numbers has a greatest one.                             *)
LEMMA GreatestNumber ==
    ASSUME NEW S, IsFiniteSet(S), S # {}, S \subseteq Int
    PROVE  Max(S) \in S /\ \A y \in S : Max(S) >= y
<1> DEFINE Tops(T, x) == x \in T /\ \A y \in T : x >= y
           P == {n \in Nat : \A T \in SUBSET S : Cardinality(T) = n + 1 => \E x : Tops(T, x)}
<1>1. ASSUME NEW T \in SUBSET S, NEW n \in Nat, Cardinality(T) = n + 1
      PROVE  \E x \in T : IsFiniteSet(T \ {x}) /\ Cardinality(T \ {x}) = n
  <2>1. IsFiniteSet(T)
    BY FS_Subset
  <2>2. T # {}
    BY <1>1, <2>1, FS_EmptySet
  <2>3. PICK x \in T : TRUE
    BY <2>2
  <2>4. IsFiniteSet(T \ {x}) /\ Cardinality(T \ {x}) = Cardinality(T) - 1
    BY <2>1, <2>3, FS_RemoveElement
  <2>5. Cardinality(T \ {x}) = n
    BY <1>1, <2>4
  <2> QED
    BY <2>3, <2>4, <2>5
<1>2. 0 \in P
  <2> SUFFICES ASSUME NEW T \in SUBSET S, Cardinality(T) = 1 PROVE \E x : Tops(T, x)
    OBVIOUS
  <2>1. PICK x \in T : IsFiniteSet(T \ {x}) /\ Cardinality(T \ {x}) = 0
    BY <1>1
  <2>2. T \ {x} = {}
    BY <2>1, FS_EmptySet
  <2>3. Tops(T, x)
    BY <2>2
  <2> QED
    BY <2>3
<1>3. ASSUME NEW n \in Nat, n \in P PROVE n + 1 \in P
  <2> SUFFICES ASSUME NEW T \in SUBSET S, Cardinality(T) = n + 2 PROVE \E x : Tops(T, x)
    OBVIOUS
  <2>1. PICK x \in T : IsFiniteSet(T \ {x}) /\ Cardinality(T \ {x}) = n + 1
    BY <1>1
  <2>2. PICK z : Tops(T \ {x}, z)
    BY <1>3, <2>1
  <2>3. x \in Int /\ z \in Int /\ T \ {x} \subseteq Int
    BY <2>2
  <2>4. CASE x >= z
    <3>1. Tops(T, x)
      BY <2>2, <2>3, <2>4
    <3> QED
      BY <3>1
  <2>5. CASE z >= x
    <3>1. Tops(T, z)
      BY <2>2, <2>3, <2>5
    <3> QED
      BY <3>1
  <2> QED
    BY <2>3, <2>4, <2>5
<1>4. Nat \subseteq P
  <2> HIDE DEF P
  <2> QED
    BY <1>2, <1>3, SetInduction
<1>5. Cardinality(S) \in Nat /\ Cardinality(S) # 0
  BY FS_CardinalityType, FS_EmptySet
<1>6. Cardinality(S) - 1 \in P
  BY <1>4, <1>5
<1>7. \E x : Tops(S, x)
  BY <1>5, <1>6
<1> QED
  BY <1>7 DEF Max

(* The values of a function on a finite set are finitely many.             *)
LEMMA ValuesFinite ==
    ASSUME NEW S, IsFiniteSet(S), NEW f, DOMAIN f = S, NEW V, \A v \in V : \E x \in S : f[x] = v,
           \A x \in S : f[x] \in V
    PROVE  IsFiniteSet(V)
<1> DEFINE g == [x \in S |-> f[x]]
<1>1. g \in Surjection(S, V)
  BY DEF Surjection
<1> HIDE DEF g
<1> QED
  BY <1>1, FS_Surjection

-----------------------------------------------------------------------------
(* Orders.                                                                 *)

(* A strict total order of the set I.                                      *)
TotalOrder(I, order) ==
    /\ \A i \in I : <<i, i>> \notin order
    /\ \A i, j, k \in I : <<i, j>> \in order /\ <<j, k>> \in order => <<i, k>> \in order
    /\ \A i, j \in I : i = j \/ <<i, j>> \in order \/ <<j, i>> \in order

(* A numbering of I from 1 on, without gap or repetition, along the order. *)
Numbering(f, I, order) ==
    /\ f \in [1..Cardinality(I) -> I]
    /\ \A i \in I : \E k \in 1..Cardinality(I) : f[k] = i
    /\ \A k, l \in 1..Cardinality(I) : k < l => <<f[k], f[l]>> \in order /\ f[k] # f[l]

(* The elements of I from the first to the last.                           *)
Ordered(I, order) == [k \in 1..Cardinality(I) |-> Nth(I, order, k)]

(* Every total order of a finite set numbers it: as many are below an      *)
(* element as its number says, and no two elements have the same number.   *)
LEMMA OrderedNumbers ==
    ASSUME NEW I, IsFiniteSet(I), NEW order, TotalOrder(I, order)
    PROVE  Cardinality(I) \in Nat /\ Numbering(Ordered(I, order), I, order)
<1> DEFINE n == Cardinality(I)
           below(i) == {j \in I : <<j, i>> \in order}
           rank == [i \in I |-> Cardinality(below(i)) + 1]
           f == Ordered(I, order)
<1>1. n \in Nat
  BY FS_CardinalityType
<1>2. ASSUME NEW i \in I
      PROVE  Cardinality(below(i)) \in Nat /\ IsFiniteSet(below(i)) /\ Cardinality(below(i)) < n
  <2>1. below(i) \in SUBSET I /\ i \notin below(i)
    BY DEF TotalOrder
  <2> HIDE DEF below
  <2>2. IsFiniteSet(below(i)) /\ Cardinality(below(i)) <= n /\ (n = Cardinality(below(i)) => I = below(i))
    BY <2>1, FS_Subset
  <2>3. Cardinality(below(i)) \in Nat
    BY <2>2, FS_CardinalityType
  <2> QED
    BY <1>1, <2>1, <2>2, <2>3
<1>3. ASSUME NEW i \in I, NEW j \in I, <<i, j>> \in order
      PROVE  Cardinality(below(i)) < Cardinality(below(j))
  <2>1. below(i) \in SUBSET below(j) /\ i \in below(j) /\ i \notin below(i)
    BY <1>3 DEF TotalOrder
  <2>2. IsFiniteSet(below(j)) /\ Cardinality(below(i)) \in Nat /\ Cardinality(below(j)) \in Nat
    BY <1>2
  <2> HIDE DEF below
  <2>3. Cardinality(below(i)) <= Cardinality(below(j)) /\ (Cardinality(below(j)) = Cardinality(below(i)) => below(j) = below(i))
    BY <2>1, <2>2, FS_Subset
  <2> QED
    BY <2>1, <2>2, <2>3
<1>4. rank \in [I -> 1..n]
  <2> SUFFICES ASSUME NEW i \in I PROVE Cardinality(below(i)) + 1 \in 1..n
    OBVIOUS
  <2> HIDE DEF below
  <2> QED
    BY <1>1, <1>2
<1>5. \A i, j \in I : i # j => rank[i] # rank[j]
  <2> SUFFICES ASSUME NEW i \in I, NEW j \in I, i # j PROVE Cardinality(below(i)) # Cardinality(below(j))
    <3> HIDE DEF below
    <3> QED
      BY <1>2
  <2>1. <<i, j>> \in order \/ <<j, i>> \in order
    BY DEF TotalOrder
  <2> HIDE DEF below
  <2> QED
    BY <1>2, <1>3, <2>1
<1>6. \A k \in 1..n : \E i \in I : rank[i] = k
  <2>1. rank \in Injection(I, 1..n)
    BY <1>4, <1>5 DEF Injection, IsInjective
  <2>2. IsFiniteSet(1..n) /\ Cardinality(1..n) = n
    BY <1>1, FS_Interval
  <2>3. rank \in Surjection(I, 1..n)
    <3> HIDE DEF rank
    <3> QED
      BY <2>1, <2>2, FS_Injection
  <2> QED
    BY <2>3 DEF Surjection
<1>7. \A k \in 1..n : f[k] \in I /\ rank[f[k]] = k
  <2> SUFFICES ASSUME NEW k \in 1..n PROVE f[k] \in I /\ rank[f[k]] = k
    OBVIOUS
  <2>1. f[k] = CHOOSE i \in I : Cardinality(below(i)) = k - 1
    BY DEF Ordered, Nth
  <2>2. PICK i \in I : Cardinality(below(i)) = k - 1
    <3>1. PICK i \in I : rank[i] = k
      BY <1>6
    <3>2. Cardinality(below(i)) + 1 = k /\ Cardinality(below(i)) \in Nat
      BY <1>2, <3>1
    <3> HIDE DEF below
    <3> QED
      BY <3>2
  <2> HIDE DEF below, f
  <2>3. f[k] \in I /\ Cardinality(below(f[k])) = k - 1
    BY <2>1, <2>2
  <2> QED
    BY <2>3, <1>1
<1>8. f \in [1..n -> I]
  BY <1>7 DEF Ordered
<1>9. \A i \in I : \E k \in 1..n : f[k] = i
  <2> SUFFICES ASSUME NEW i \in I PROVE \E k \in 1..n : f[k] = i
    OBVIOUS
  <2>1. rank[i] \in 1..n
    BY <1>4
  <2> HIDE DEF f, rank
  <2>2. rank[f[rank[i]]] = rank[i] /\ f[rank[i]] \in I
    BY <1>7, <2>1
  <2> QED
    BY <1>5, <2>1, <2>2
<1>10. \A k, l \in 1..n : k < l => <<f[k], f[l]>> \in order /\ f[k] # f[l]
  <2> SUFFICES ASSUME NEW k \in 1..n, NEW l \in 1..n, k < l
               PROVE  <<f[k], f[l]>> \in order /\ f[k] # f[l]
    OBVIOUS
  <2>1. /\ f[k] \in I /\ f[l] \in I
        /\ Cardinality(below(f[k])) + 1 = k /\ Cardinality(below(f[l])) + 1 = l
    BY <1>7
  <2>2. Cardinality(below(f[k])) \in Nat /\ Cardinality(below(f[l])) \in Nat
    BY <1>2, <2>1
  <2>3. <<f[l], f[k]>> \in order => Cardinality(below(f[l])) < Cardinality(below(f[k]))
    BY <1>3, <2>1
  <2> HIDE DEF below, f
  <2>4. ~(<<f[l], f[k]>> \in order) /\ f[k] # f[l]
    BY <2>1, <2>2, <2>3
  <2> QED
    BY <2>1, <2>4 DEF TotalOrder
<1> QED
  BY <1>1, <1>8, <1>9, <1>10 DEF Numbering

-----------------------------------------------------------------------------
(* Filters.                                                                *)

(* A filter keeps every element at the positions I, each once, in the      *)
(* order in which they were.                                               *)
Increasing(f, I) ==
    /\ f \in [1..Cardinality(I) -> I]
    /\ \A i \in I : \E k \in 1..Cardinality(I) : f[k] = i
    /\ \A k, l \in 1..Cardinality(I) : k < l => f[k] < f[l]

Along(t, s, I, f) == Increasing(f, I) /\ \A k \in 1..Cardinality(I) : t[k] = s[f[k]]

LEMMA OfOne == ASSUME NEW x PROVE The({x}) = x
  BY DEF The

(* The elements at some positions, without the joining that forms them.    *)
LEMMA ArrangedElements ==
    ASSUME NEW s, NEW I, NEW order, Cardinality(I) \in Nat
    PROVE  Arranged(s, I, order) = [k \in 1..Cardinality(I) |-> s[Nth(I, order, k)]]
<1> DEFINE n == Cardinality(I)
           t == [k \in 1..n |-> s[Nth(I, order, k)]]
           T == {t[k] : k \in 1..n}
<1>1. t \in [1..n -> T]
  OBVIOUS
<1> HIDE DEF T
<1>2. t \in Seq(T) /\ Len(t) = n
  BY <1>1
<1> HIDE DEF t
<1>3. t \o << >> = t
  BY <1>2
<1> QED
  BY <1>3 DEF Arranged, t

LEMMA KeptAsMap ==
    ASSUME NEW s, NEW I, Cardinality(I) \in Nat
    PROVE  Kept(s, I) = [k \in 1..Cardinality(I) |-> s[Nth(I, Ascending(I), k)]]
<1> DEFINE t(J) == Arranged(s, J, Ascending(J))
<1>1. {t(J) : J \in {I}} = {t(I)}
  OBVIOUS
<1>2. Kept(s, I) = t(I)
  BY <1>1, OfOne DEF Kept
<1> DEFINE order == Ascending(I)
<1>3. Kept(s, I) = Arranged(s, I, order)
  BY <1>2
<1> HIDE DEF order, t
<1>4. Arranged(s, I, order) = [k \in 1..Cardinality(I) |-> s[Nth(I, order, k)]]
  BY ONLY Cardinality(I) \in Nat, ArrangedElements
<1>5. Kept(s, I) = [k \in 1..Cardinality(I) |-> s[Nth(I, order, k)]]
  BY <1>3, <1>4
<1> QED
  BY <1>5 DEF order

LEMMA KeptElements ==
    ASSUME NEW s, NEW I, I \subseteq Int, IsFiniteSet(I)
    PROVE  /\ Cardinality(I) \in Nat /\ DOMAIN Kept(s, I) = 1..Cardinality(I)
           /\ \E f : Along(Kept(s, I), s, I, f)
<1> DEFINE f == Ordered(I, Ascending(I))
<1>1. TotalOrder(I, Ascending(I))
  BY DEF TotalOrder, Ascending
<1>2. Cardinality(I) \in Nat /\ Numbering(f, I, Ascending(I))
  BY <1>1, OrderedNumbers
<1>3. Increasing(f, I)
  BY <1>2 DEF Numbering, Increasing, Ascending
<1>4. \A k \in 1..Cardinality(I) : f[k] = Nth(I, Ascending(I), k)
  BY DEF Ordered
<1> HIDE DEF f
<1> QED
  BY <1>2, <1>3, <1>4, KeptAsMap DEF Along

(* What is kept of a vector is a vector of the same type, not longer.      *)
LEMMA KeptIsVector ==
    ASSUME NEW T, NEW s \in Seq(T), NEW I, I \subseteq DOMAIN s
    PROVE  /\ Kept(s, I) \in Seq(T) /\ Len(Kept(s, I)) = Cardinality(I) /\ Cardinality(I) \in 0..Len(s)
           /\ IsFiniteSet(I)
           /\ \E f : Along(Kept(s, I), s, I, f)
<1>1. Len(s) \in Nat /\ DOMAIN s = 1..Len(s) /\ \A i \in 1..Len(s) : s[i] \in T
  OBVIOUS
<1>2. IsFiniteSet(I) /\ Cardinality(I) \in 0..Len(s)
  <2>1. IsFiniteSet(1..Len(s)) /\ Cardinality(1..Len(s)) = Len(s)
    BY <1>1, FS_Interval
  <2>2. I \in SUBSET (1..Len(s))
    BY <1>1
  <2>3. IsFiniteSet(I) /\ Cardinality(I) <= Len(s)
    BY <2>1, <2>2, FS_Subset
  <2> QED
    BY <1>1, <2>3, FS_CardinalityType
<1>3. /\ Cardinality(I) \in Nat /\ DOMAIN Kept(s, I) = 1..Cardinality(I)
      /\ \E f : Along(Kept(s, I), s, I, f)
  <2>1. I \subseteq Int
    BY <1>1
  <2> QED
    BY <1>2, <2>1, KeptElements
<1>4. \A k \in 1..Cardinality(I) : Kept(s, I)[k] \in T
  BY <1>1, <1>3 DEF Increasing, Along
<1>5. Kept(s, I) = [k \in 1..Cardinality(I) |-> Kept(s, I)[k]]
  BY <1>3, KeptAsMap
<1>6. Kept(s, I) \in [1..Cardinality(I) -> T]
  BY <1>4, <1>5
<1> QED
  BY <1>2, <1>3, <1>6

(* Two increasing numberings of the same positions are the same.           *)
LEMMA IncreasingUnique ==
    ASSUME NEW I, I \subseteq Int, Cardinality(I) \in Nat, NEW f, NEW g, Increasing(f, I), Increasing(g, I)
    PROVE  f = g
<1> DEFINE n == Cardinality(I)
           P == {m \in Nat : \A k \in 1..n : k <= m => f[k] = g[k]}
<1>1. 0 \in P
  OBVIOUS
<1>2. ASSUME NEW m \in Nat, m \in P PROVE m + 1 \in P
  <2> SUFFICES ASSUME m + 1 \in 1..n PROVE f[m + 1] = g[m + 1]
    BY <1>2
  <2>1. \A k \in 1..n : k < m + 1 => f[k] = g[k]
    BY <1>2
  <2>2. PICK k \in 1..n : g[k] = f[m + 1]
    BY DEF Increasing
  <2>3. PICK l \in 1..n : f[l] = g[m + 1]
    BY DEF Increasing
  <2>4. /\ \A a, b \in 1..n : a < b => f[a] < f[b] /\ g[a] < g[b]
        /\ \A a \in 1..n : f[a] \in Int /\ g[a] \in Int
    BY DEF Increasing
  <2>5. CASE k < m + 1
    BY <2>1, <2>2, <2>4, <2>5
  <2>6. CASE l < m + 1
    BY <2>1, <2>3, <2>4, <2>6
  <2>7. CASE k = m + 1
    BY <2>2, <2>7
  <2>8. CASE l = m + 1
    BY <2>3, <2>8
  <2>9. CASE k > m + 1 /\ l > m + 1
    <3>1. g[m + 1] < g[k] /\ f[m + 1] < f[l]
      BY <2>4, <2>9
    <3> QED
      BY <2>2, <2>3, <2>4, <3>1
  <2> QED
    BY <2>5, <2>6, <2>7, <2>8, <2>9
<1>3. n \in P
  <2> HIDE DEF P
  <2> QED
    BY <1>1, <1>2, SetInduction
<1>4. \A k \in 1..n : f[k] = g[k]
  BY <1>3
<1> QED
  BY <1>4 DEF Increasing

(* Increasing positions at which a vector t agrees with s are what a      *)
(* filter keeps.                                                           *)
LEMMA KeptIs ==
    ASSUME NEW s, NEW I, I \subseteq Int, IsFiniteSet(I), NEW f, Increasing(f, I)
    PROVE  /\ Kept(s, I) = [k \in 1..Cardinality(I) |-> Kept(s, I)[k]]
           /\ \A k \in 1..Cardinality(I) : Kept(s, I)[k] = s[f[k]]
<1>1. Cardinality(I) \in Nat
  BY KeptElements
<1>2. PICK g : Along(Kept(s, I), s, I, g)
  BY KeptElements
<1>3. f = g
  BY <1>1, <1>2, IncreasingUnique DEF Along
<1>4. Kept(s, I) = [k \in 1..Cardinality(I) |-> Kept(s, I)[k]]
  BY <1>1, KeptAsMap
<1> QED
  BY <1>2, <1>3, <1>4 DEF Along

(* Two vectors, one after the other.                                       *)
LEMMA JoinedElements ==
    ASSUME NEW T, NEW u \in Seq(T), NEW v \in Seq(T)
    PROVE  u \o v = [k \in 1..(Len(u) + Len(v)) |-> IF k <= Len(u) THEN u[k] ELSE v[k - Len(u)]]
<1>1. u \o v \in Seq(T) /\ Len(u \o v) = Len(u) + Len(v)
  OBVIOUS
<1>2. \A k \in 1..(Len(u) + Len(v)) : (u \o v)[k] = IF k <= Len(u) THEN u[k] ELSE v[k - Len(u)]
  OBVIOUS
<1> DEFINE w == u \o v
<1>3. w \in [1..(Len(u) + Len(v)) -> T]
  <2> HIDE DEF w
  <2>1. w \in [1..Len(w) -> T] /\ Len(w) = Len(u) + Len(v)
    BY <1>1, LenProperties DEF w
  <2> QED
    BY <2>1
<1>4. \A k \in 1..(Len(u) + Len(v)) : w[k] = IF k <= Len(u) THEN u[k] ELSE v[k - Len(u)]
  BY <1>2
<1> HIDE DEF w
<1>5. w = [k \in 1..(Len(u) + Len(v)) |-> IF k <= Len(u) THEN u[k] ELSE v[k - Len(u)]]
  BY <1>3, <1>4
<1> QED
  BY <1>5 DEF w

(* A filter of two vectors, one after the other, filters each: the         *)
(* positions I of the first and J of the second, which comes m later.      *)
Both(B, I, J, m) ==
    /\ B \subseteq Int /\ I \subseteq B /\ \A j \in J : m + j \in B
    /\ \A i \in B : i \in I \/ i - m \in J

LEMMA KeptOfBoth ==
    ASSUME NEW T, NEW s \in Seq(T), NEW t \in Seq(T),
           NEW I, I \subseteq DOMAIN s, NEW J, J \subseteq DOMAIN t,
           NEW B, Both(B, I, J, Len(s))
    PROVE  Kept(s \o t, B) = Kept(s, I) \o Kept(t, J)
<1> DEFINE a == Cardinality(I)
           b == Cardinality(J)
           m == Len(s)
           K == {m + j : j \in J}
<1>1. /\ m \in Nat /\ DOMAIN s = 1..m /\ DOMAIN t = 1..Len(t) /\ Len(t) \in Nat
      /\ \A i \in 1..m : (s \o t)[i] = s[i]
      /\ \A j \in 1..Len(t) : (s \o t)[m + j] = t[j]
  OBVIOUS
<1>2. /\ Kept(s, I) \in Seq(T) /\ Len(Kept(s, I)) = a /\ a \in Nat /\ IsFiniteSet(I)
      /\ \E f : Along(Kept(s, I), s, I, f)
  BY KeptIsVector
<1>3. /\ Kept(t, J) \in Seq(T) /\ Len(Kept(t, J)) = b /\ b \in Nat /\ IsFiniteSet(J)
      /\ \E f : Along(Kept(t, J), t, J, f)
  <2>1. b \in 0..Len(t)
    BY KeptIsVector
  <2> QED
    BY <1>1, <2>1, KeptIsVector
<1>4. PICK f : Along(Kept(s, I), s, I, f)
  BY <1>2
<1>5. PICK g : Along(Kept(t, J), t, J, g)
  BY <1>3
<1>6. J \subseteq Nat \ {0} /\ I \subseteq 1..m
  BY <1>1
<1>7. IsFiniteSet(K) /\ Cardinality(K) = b
  <2> DEFINE shift == [j \in J |-> m + j]
  <2>1. shift \in Bijection(J, K)
    <3>1. shift \in [J -> K] /\ \A i, j \in J : shift[i] = shift[j] => i = j
      BY <1>1, <1>6
    <3>2. \A k \in K : \E j \in J : shift[j] = k
      OBVIOUS
    <3> QED
      BY <3>1, <3>2 DEF Bijection, Injection, Surjection, IsInjective
  <2>2. ExistsBijection(J, K)
    BY <2>1 DEF ExistsBijection
  <2> HIDE DEF K, shift
  <2> QED
    BY <1>3, <2>2, FS_Bijection
<1>8. I \cap K = {} /\ B \subseteq Int /\ B = I \cup K
  <2>1. I \cap K = {} /\ I \subseteq Int /\ K \subseteq Int
    BY <1>1, <1>6
  <2>2. K \subseteq B
    BY DEF Both
  <2>3. ASSUME NEW i \in B, i \notin I PROVE i \in K
    <3>1. i - m \in J /\ i \in Int
      BY <2>3 DEF Both
    <3>2. i = m + (i - m)
      BY <1>1, <3>1
    <3> QED
      BY <3>1, <3>2
  <2> QED
    BY <2>1, <2>2, <2>3 DEF Both
<1>9. IsFiniteSet(B) /\ Cardinality(B) = a + b
  <2> HIDE DEF K
  <2>1. Cardinality(I \cap K) = 0
    BY <1>8, FS_EmptySet
  <2>2. IsFiniteSet(I \cup K) /\ Cardinality(I \cup K) = a + Cardinality(K) - Cardinality(I \cap K)
    BY <1>2, <1>7, FS_Union
  <2>3. B = I \cup K /\ Cardinality(K) = b /\ a \in Nat /\ b \in Nat
    BY <1>2, <1>3, <1>7, <1>8
  <2> HIDE DEF a, b
  <2>4. Cardinality(I \cup K) = a + b
    BY <2>1, <2>2, <2>3
  <2> QED
    BY <2>2, <2>3, <2>4
<1> DEFINE h == [k \in 1..(a + b) |-> IF k <= a THEN f[k] ELSE m + g[k - a]]
<1>10. /\ f \in [1..a -> I] /\ \A i \in I : \E k \in 1..a : f[k] = i
       /\ \A k, l \in 1..a : k < l => f[k] < f[l]
       /\ \A k \in 1..a : Kept(s, I)[k] = s[f[k]]
  BY <1>4 DEF Along, Increasing
<1>11. /\ g \in [1..b -> J] /\ \A i \in J : \E k \in 1..b : g[k] = i
       /\ \A k, l \in 1..b : k < l => g[k] < g[l]
       /\ \A k \in 1..b : Kept(t, J)[k] = t[g[k]]
  BY <1>5 DEF Along, Increasing
<1> HIDE DEF a, b, m
<1>12. \A k \in 1..(a + b) : k <= a => k \in 1..a /\ h[k] = f[k]
  BY <1>2, <1>3 DEF a, b
<1>13. \A k \in 1..(a + b) : ~(k <= a) => k - a \in 1..b /\ h[k] = m + g[k - a]
  BY <1>2, <1>3 DEF a, b
<1>14. Increasing(h, B)
  <2> HIDE DEF h
  <2>1. ASSUME NEW k \in 1..(a + b) PROVE h[k] \in B
    <3>1. CASE k <= a
      BY <1>8, <1>10, <1>12, <3>1
    <3>2. CASE ~(k <= a)
      BY <1>8, <1>11, <1>13, <3>2
    <3> QED
      BY <3>1, <3>2
  <2>2. ASSUME NEW i \in B PROVE \E k \in 1..(a + b) : h[k] = i
    <3>1. CASE i \in I
      <4>1. PICK k \in 1..a : f[k] = i
        BY <1>10, <3>1
      <4>2. k \in 1..(a + b) /\ k <= a
        BY <1>2, <1>3, <4>1 DEF a, b
      <4> QED
        BY <1>12, <4>1, <4>2
    <3>2. CASE i \in K
      <4>1. PICK j \in J : i = m + j
        BY <3>2
      <4>2. PICK k \in 1..b : g[k] = j
        BY <1>11
      <4>3. a + k \in 1..(a + b) /\ ~(a + k <= a) /\ (a + k) - a = k
        BY <1>2, <1>3, <4>2 DEF a, b
      <4>4. h[a + k] = m + g[k]
        BY <1>13, <4>3
      <4> QED
        BY <4>1, <4>2, <4>3, <4>4
    <3> QED
      BY <1>8, <3>1, <3>2
  <2>3. ASSUME NEW k \in 1..(a + b), NEW l \in 1..(a + b), k < l PROVE h[k] < h[l]
    <3>0. a \in Nat /\ b \in Nat /\ k \in Nat /\ l \in Nat
      BY <1>2, <1>3 DEF a, b
    <3>1. CASE l <= a
      <4>1. k <= a
        BY <2>3, <3>0, <3>1
      <4> QED
        BY <1>10, <1>12, <2>3, <3>1, <4>1
    <3>2. CASE ~(k <= a)
      <4>1. ~(l <= a)
        BY <2>3, <3>0, <3>2
      <4>2. k - a \in 1..b /\ l - a \in 1..b /\ k - a < l - a
        BY <1>13, <2>3, <3>0, <3>2, <4>1
      <4>3. g[k - a] < g[l - a] /\ g[k - a] \in Nat /\ g[l - a] \in Nat
        BY <1>6, <1>11, <4>2
      <4>4. h[k] = m + g[k - a] /\ h[l] = m + g[l - a] /\ m \in Nat
        BY <1>1, <1>13, <3>2, <4>1 DEF m
      <4> QED
        BY <4>3, <4>4
    <3>3. CASE k <= a /\ ~(l <= a)
      <4>1. h[k] = f[k] /\ f[k] \in 1..m
        BY <1>6, <1>10, <1>12, <3>3
      <4>2. h[l] = m + g[l - a] /\ g[l - a] \in Nat \ {0}
        BY <1>6, <1>11, <1>13, <3>3
      <4>3. m \in Nat
        BY <1>1 DEF m
      <4> QED
        BY <4>1, <4>2, <4>3
    <3> QED
      BY <2>3, <3>1, <3>2, <3>3
  <2>4. h \in [1..(a + b) -> B]
    BY <2>1 DEF h
  <2> QED
    BY <1>9, <2>2, <2>3, <2>4 DEF Increasing
<1>15. Kept(s \o t, B) = [k \in 1..(a + b) |-> (s \o t)[h[k]]]
  <2> HIDE DEF h, K
  <2> DEFINE st == s \o t
  <2>1. B \subseteq Int /\ IsFiniteSet(B) /\ Cardinality(B) = a + b
    BY <1>8, <1>9
  <2> HIDE DEF st
  <2>2. /\ Kept(st, B) = [k \in 1..Cardinality(B) |-> Kept(st, B)[k]]
        /\ \A k \in 1..Cardinality(B) : Kept(st, B)[k] = st[h[k]]
    BY ONLY <1>14, <2>1, KeptIs
  <2> QED
    BY <2>1, <2>2 DEF st
<1>16. Kept(s, I) \o Kept(t, J) = [k \in 1..(a + b) |-> IF k <= a THEN Kept(s, I)[k] ELSE Kept(t, J)[k - a]]
  <2> DEFINE u == Kept(s, I)
             v == Kept(t, J)
  <2>1. u \in Seq(T) /\ v \in Seq(T) /\ Len(u) = a /\ Len(v) = b
    BY <1>2, <1>3 DEF a, b
  <2> HIDE DEF u, v
  <2>2. u \o v = [k \in 1..(Len(u) + Len(v)) |-> IF k <= Len(u) THEN u[k] ELSE v[k - Len(u)]]
    BY <2>1, JoinedElements
  <2>3. u \o v = [k \in 1..(a + b) |-> IF k <= a THEN u[k] ELSE v[k - a]]
    BY <2>1, <2>2
  <2> QED
    BY <2>3 DEF u, v
<1>17. ASSUME NEW k \in 1..(a + b)
       PROVE  (s \o t)[h[k]] = IF k <= a THEN Kept(s, I)[k] ELSE Kept(t, J)[k - a]
  <2> HIDE DEF h
  <2>1. CASE k <= a
    <3>1. h[k] = f[k] /\ f[k] \in 1..m /\ k \in 1..a
      BY <1>6, <1>10, <1>12, <2>1
    <3> QED
      BY <1>1, <1>10, <2>1, <3>1 DEF m
  <2>2. CASE ~(k <= a)
    <3>1. h[k] = m + g[k - a] /\ g[k - a] \in J /\ k - a \in 1..b
      BY <1>11, <1>13, <2>2
    <3> QED
      BY <1>1, <1>11, <2>2, <3>1 DEF m
  <2> QED
    BY <2>1, <2>2
<1> QED
  BY <1>15, <1>16, <1>17

(* A filter by membership is a filter by position, and what it keeps is    *)
(* not in the set.                                                         *)
LEMMA WithoutIsVector ==
    ASSUME NEW T, NEW list \in Seq(T), NEW no
    PROVE  /\ Without(list, no) \in Seq(T) /\ Len(Without(list, no)) \in 0..Len(list)
           /\ \A k \in DOMAIN Without(list, no) : Without(list, no)[k] \notin no
           /\ \A k \in DOMAIN Without(list, no) : \E i \in DOMAIN list : Without(list, no)[k] = list[i]
           /\ \A i \in DOMAIN list : list[i] \notin no =>
                 \E k \in DOMAIN Without(list, no) : Without(list, no)[k] = list[i]
<1> DEFINE I == {i \in DOMAIN list : list[i] \notin no}
<1>1. Without(list, no) = Kept(list, I) /\ I \subseteq DOMAIN list
  BY DEF Without
<1>2. /\ Kept(list, I) \in Seq(T) /\ Len(Kept(list, I)) = Cardinality(I)
      /\ Cardinality(I) \in 0..Len(list)
      /\ \E f : Along(Kept(list, I), list, I, f)
  <2> HIDE DEF I
  <2> QED
    BY <1>1, KeptIsVector
<1>3. PICK f : Along(Kept(list, I), list, I, f)
  BY <1>2
<1>4. \A k \in 1..Cardinality(I) : f[k] \in I /\ Kept(list, I)[k] = list[f[k]]
  BY <1>3 DEF Along, Increasing
<1>5. \A k \in 1..Cardinality(I) : Kept(list, I)[k] \notin no
  BY <1>4
<1>6. /\ \A k \in 1..Cardinality(I) : \E i \in DOMAIN list : Kept(list, I)[k] = list[i]
      /\ \A i \in DOMAIN list : list[i] \notin no => \E k \in 1..Cardinality(I) : Kept(list, I)[k] = list[i]
  <2>1. \A i \in I : \E k \in 1..Cardinality(I) : f[k] = i
    BY <1>3 DEF Along, Increasing
  <2>2. \A i \in DOMAIN list : list[i] \notin no => i \in I
    OBVIOUS
  <2> HIDE DEF I
  <2> QED
    BY <1>1, <1>4, <2>1, <2>2
<1> HIDE DEF I
<1>7. DOMAIN Kept(list, I) = 1..Cardinality(I)
  BY <1>2
<1> QED
  BY <1>1, <1>2, <1>5, <1>6, <1>7

(* Taking names out of two lists takes them out of the two together.       *)
LEMMA WithoutOfBoth ==
    ASSUME NEW T, NEW s \in Seq(T), NEW t \in Seq(T), NEW no
    PROVE  Without(s \o t, no) = Without(s, no) \o Without(t, no)
<1> DEFINE I == {i \in DOMAIN s : s[i] \notin no}
           J == {i \in DOMAIN t : t[i] \notin no}
           both == s \o t
           B == {i \in DOMAIN both : both[i] \notin no}
           m == Len(s)
<1>1. /\ m \in Nat /\ DOMAIN s = 1..m /\ DOMAIN t = 1..Len(t) /\ Len(t) \in Nat
      /\ DOMAIN both = 1..(m + Len(t))
      /\ \A i \in 1..m : both[i] = s[i]
      /\ \A j \in 1..Len(t) : both[m + j] = t[j]
  OBVIOUS
<1>2. ASSUME NEW i \in DOMAIN both PROVE i \in 1..m \/ (i - m \in 1..Len(t) /\ i = m + (i - m))
  BY <1>1
<1>3. I \subseteq DOMAIN s /\ J \subseteq DOMAIN t
  OBVIOUS
<1>4. Both(B, I, J, m)
  <2> HIDE DEF both, m
  <2>1. B \subseteq Int /\ I \subseteq B
    BY <1>1
  <2>2. \A j \in J : m + j \in B
    BY <1>1
  <2>3. ASSUME NEW i \in B, i \notin I PROVE i - m \in J
    <3>1. i - m \in 1..Len(t) /\ i = m + (i - m)
      BY <1>1, <1>2, <2>3
    <3>2. both[i] = t[i - m]
      BY <1>1, <3>1
    <3> QED
      BY <1>1, <2>3, <3>1, <3>2
  <2> QED
    BY <2>1, <2>2, <2>3 DEF Both
<1>5. Both(B, I, J, Len(s))
  BY <1>4
<1> HIDE DEF B, I, J, m, both
<1>6. Kept(s \o t, B) = Kept(s, I) \o Kept(t, J)
  BY <1>3, <1>5, KeptOfBoth, SMTT(30)
<1> QED
  BY <1>6 DEF Without, B, I, J, both

(* The start of one vector after another one.                              *)
LEMMA JoinedPrefix ==
    ASSUME NEW T, NEW u \in Seq(T), NEW v \in Seq(T), NEW m \in 0..Len(v)
    PROVE  u \o SubSeq(v, 1, m) = SubSeq(u \o v, 1, Len(u) + m)
<1>1. Len(u) \in Nat /\ Len(v) \in Nat /\ m \in Nat
  OBVIOUS
<1> DEFINE p == SubSeq(v, 1, m)
           w == u \o v
           n == Len(u) + m
<1>2. p \in Seq(T) /\ Len(p) = m /\ \A k \in 1..m : p[k] = v[k]
  OBVIOUS
<1>3. w \in Seq(T) /\ Len(w) = Len(u) + Len(v)
  OBVIOUS
<1> HIDE DEF p
<1>4. u \o p = [k \in 1..n |-> IF k <= Len(u) THEN u[k] ELSE p[k - Len(u)]]
  <2>1. u \o p = [k \in 1..(Len(u) + Len(p)) |-> IF k <= Len(u) THEN u[k] ELSE p[k - Len(u)]]
    BY <1>2, JoinedElements
  <2> QED
    BY <1>2, <2>1
<1>5. w = [k \in 1..(Len(u) + Len(v)) |-> IF k <= Len(u) THEN u[k] ELSE v[k - Len(u)]]
  BY JoinedElements
<1> HIDE DEF w
<1>6. n \in 0..Len(w)
  BY <1>1, <1>3
<1>7. SubSeq(w, 1, n) = [k \in 1..n |-> w[k]]
  BY <1>3, <1>6
<1>8. ASSUME NEW k \in 1..n PROVE w[k] = IF k <= Len(u) THEN u[k] ELSE p[k - Len(u)]
  BY <1>1, <1>2, <1>5
<1> HIDE DEF n
<1>9. SubSeq(w, 1, n) = u \o p
  BY <1>4, <1>7, <1>8
<1> QED
  BY <1>9 DEF w, n, p
-----------------------------------------------------------------------------
(* Sorts.                                                                  *)

(* What a comparison has to be for a sort: never both ways, and of two     *)
(* elements that differ at least one differs from any third.               *)
WeakOrder(I, less) ==
    /\ less \subseteq I \X I
    /\ \A i, j \in I : <<i, j>> \in less => <<j, i>> \notin less
    /\ \A i, j, k \in I : <<i, k>> \in less => <<i, j>> \in less \/ <<j, k>> \in less

LEMMA StableIsTotal ==
    ASSUME NEW I, I \subseteq Int, NEW less, WeakOrder(I, less)
    PROVE  TotalOrder(I, Stable(I, less))
<1> DEFINE R == Stable(I, less)
<1>1. \A i, j \in I : <<i, j>> \in R <=> \/ <<i, j>> \in less
                                         \/ i < j /\ <<j, i>> \notin less
  <2> SUFFICES ASSUME NEW i \in I, NEW j \in I
               PROVE  <<i, j>> \in R <=> <<i, j>> \in less \/ (i < j /\ <<j, i>> \notin less)
    OBVIOUS
  <2>1. <<i, j>> \in Ascending(I) <=> i < j
    BY DEF Ascending
  <2>2. <<i, j>>[1] = i /\ <<i, j>>[2] = j
    OBVIOUS
  <2> QED
    BY <2>1, <2>2 DEF Stable
<1> HIDE DEF R
<1>2. \A i \in I : <<i, i>> \notin R
  BY <1>1 DEF WeakOrder
<1>3. ASSUME NEW i \in I, NEW j \in I PROVE i = j \/ <<i, j>> \in R \/ <<j, i>> \in R
  <2>1. i \in Int /\ j \in Int
    OBVIOUS
  <2>2. i = j \/ i < j \/ j < i
    BY <2>1
  <2> QED
    BY <1>1, <2>2
<1>4. ASSUME NEW i \in I, NEW j \in I, NEW k \in I, <<i, j>> \in R, <<j, k>> \in R
      PROVE  <<i, k>> \in R
  <2>1. CASE <<i, j>> \in less /\ <<j, k>> \in less
    BY <1>1, <2>1 DEF WeakOrder
  <2>2. CASE <<i, j>> \in less /\ <<j, k>> \notin less
    BY <1>1, <1>4, <2>2 DEF WeakOrder
  <2>3. CASE <<i, j>> \notin less /\ <<j, k>> \in less
    BY <1>1, <1>4, <2>3 DEF WeakOrder
  <2>4. CASE <<i, j>> \notin less /\ <<j, k>> \notin less
    <3>1. i < j /\ j < k /\ <<j, i>> \notin less /\ <<k, j>> \notin less
      BY <1>1, <1>4, <2>4
    <3>2. <<k, i>> \notin less
      BY <3>1 DEF WeakOrder
    <3>3. i < k
      BY <3>1
    <3> QED
      BY <1>1, <3>2, <3>3
  <2> QED
    BY <2>1, <2>2, <2>3, <2>4
<1> QED
  BY <1>2, <1>3, <1>4 DEF TotalOrder, R

(* A sort gives every element exactly once, none after one that is         *)
(* greater, and elements that compare equal in the order in which they     *)
(* were.                                                                   *)
Rearranged(t, s, f) ==
    /\ f \in [DOMAIN s -> DOMAIN s]
    /\ \A i \in DOMAIN s : \E k \in DOMAIN s : f[k] = i
    /\ \A k, l \in DOMAIN s : f[k] = f[l] => k = l
    /\ \A k \in DOMAIN s : t[k] = s[f[k]]

LEMMA SortedElements ==
    ASSUME NEW T, NEW s \in Seq(T), NEW less, WeakOrder(DOMAIN s, less)
    PROVE  /\ Sorted(s, less) \in Seq(T) /\ Len(Sorted(s, less)) = Len(s)
           /\ DOMAIN Sorted(s, less) = DOMAIN s
           /\ \E f : /\ Rearranged(Sorted(s, less), s, f)
                     /\ \A k, l \in DOMAIN s : k < l => <<f[l], f[k]>> \notin less
<1> DEFINE D == DOMAIN s
           R == Stable(D, less)
           f == Ordered(D, R)
<1>1. Len(s) \in Nat /\ D = 1..Len(s) /\ \A i \in D : s[i] \in T
  OBVIOUS
<1>2. IsFiniteSet(D) /\ Cardinality(D) = Len(s) /\ D \subseteq Int
  <2>1. IsFiniteSet(1..Len(s)) /\ Cardinality(1..Len(s)) = Len(s)
    BY <1>1, FS_Interval
  <2> QED
    BY <1>1, <2>1
<1>3. TotalOrder(D, R)
  <2> HIDE DEF D
  <2> QED
    BY <1>2, StableIsTotal DEF D
<1>4. Numbering(f, D, R)
  <2> HIDE DEF D, R
  <2> QED
    BY <1>2, <1>3, OrderedNumbers
<1>5. /\ f \in [D -> D] /\ \A i \in D : \E k \in D : f[k] = i
      /\ \A k, l \in D : k < l => <<f[k], f[l]>> \in R /\ f[k] # f[l]
  <2> HIDE DEF f, R
  <2> QED
    BY <1>1, <1>2, <1>4 DEF Numbering
<1>6. Sorted(s, less) = [k \in D |-> s[f[k]]]
  <2>1. \A k \in D : f[k] = Nth(D, R, k)
    BY <1>1, <1>2 DEF Ordered
  <2> HIDE DEF f, R
  <2>2. Sorted(s, less) = Arranged(s, D, R)
    <3> DEFINE t(order) == Arranged(s, D, order)
    <3>1. {t(order) : order \in {R}} = {t(R)}
      OBVIOUS
    <3> QED
      BY <3>1, OfOne DEF Sorted, R
  <2>3. Sorted(s, less) = [k \in D |-> s[Nth(D, R, k)]]
    BY <1>1, <1>2, <2>2, ArrangedElements
  <2> QED
    BY <2>1, <2>3
<1> HIDE DEF f, R, D
<1>7. ASSUME NEW k \in D, NEW l \in D, f[k] = f[l] PROVE k = l
  <2>1. k \in Nat /\ l \in Nat
    BY <1>1
  <2>2. k = l \/ k < l \/ l < k
    BY <2>1
  <2> QED
    BY <1>5, <1>7, <2>2
<1>8. Rearranged(Sorted(s, less), s, f)
  BY <1>5, <1>6, <1>7 DEF Rearranged, D
<1>9. ASSUME NEW k \in D, NEW l \in D, k < l PROVE <<f[l], f[k]>> \notin less
  <2>1. <<f[k], f[l]>> \in R /\ f[k] \in D /\ f[l] \in D
    BY <1>5, <1>9
  <2>2. R = less \cup {p \in Ascending(D) : <<p[2], p[1]>> \notin less}
    BY DEF R, Stable
  <2>3. <<f[k], f[l]>> \in less \/ <<f[l], f[k]>> \notin less
    BY <2>1, <2>2
  <2> QED
    BY <2>1, <2>3 DEF WeakOrder, D
<1>10. Sorted(s, less) \in [1..Len(s) -> T]
  BY <1>1, <1>5, <1>6
<1>11. Sorted(s, less) \in Seq(T) /\ Len(Sorted(s, less)) = Len(s) /\ DOMAIN Sorted(s, less) = DOMAIN s
  BY <1>1, <1>10 DEF D
<1> QED
  BY <1>8, <1>9, <1>11 DEF D
-----------------------------------------------------------------------------
(* Sums.                                                                   *)

(* One step of a sum over a subset of the map's keys.                      *)
Added(g, F, s) == IF s = {} THEN 0 ELSE g[CHOOSE x \in s : TRUE] + F[s \ {CHOOSE x \in s : TRUE}]
Adds(g, F) == F = [s \in SUBSET DOMAIN g |-> Added(g, F, s)]

LEMMA SumIsFold ==
    ASSUME NEW g
    PROVE  SumOf(g) = (CHOOSE F : Adds(g, F))[DOMAIN g]
  BY DEF SumOf, MapThenSumSet, MapThenFoldSet, Adds, Added

(* A finite map can be added up.                                           *)
LEMMA AddsExists ==
    ASSUME NEW g, IsFiniteSet(DOMAIN g)
    PROVE  \E F : Adds(g, F)
<1> DEFINE D == DOMAIN g
           Upto(n, F) == /\ F = [s \in SUBSET D |-> F[s]]
                         /\ \A s \in SUBSET D : Cardinality(s) <= n => F[s] = Added(g, F, s)
           P == {n \in Nat : \E F : Upto(n, F)}
<1>1. \A s \in SUBSET D : IsFiniteSet(s) /\ Cardinality(s) \in Nat /\ Cardinality(s) <= Cardinality(D)
  BY FS_Subset, FS_CardinalityType
<1>2. 0 \in P
  <2> DEFINE F == [s \in SUBSET D |-> 0]
  <2>1. ASSUME NEW s \in SUBSET D, Cardinality(s) <= 0 PROVE F[s] = Added(g, F, s)
    <3>1. s = {}
      BY <1>1, <2>1, FS_EmptySet
    <3> QED
      BY <3>1 DEF Added
  <2>2. Upto(0, F)
    BY <2>1
  <2> QED
    BY <2>2
<1>3. ASSUME NEW n \in Nat, n \in P PROVE n + 1 \in P
  <2>1. PICK F : Upto(n, F)
    BY <1>3
  <2> DEFINE G == [s \in SUBSET D |-> Added(g, F, s)]
  <2>2. ASSUME NEW s \in SUBSET D, Cardinality(s) <= n + 1 PROVE G[s] = Added(g, G, s)
    <3>1. CASE s = {}
      BY <3>1 DEF Added
    <3>2. CASE s # {}
      <4> DEFINE x == CHOOSE y \in s : TRUE
      <4>1. x \in s
        BY <3>2
      <4>2. s \ {x} \in SUBSET D /\ Cardinality(s \ {x}) <= n
        <5>1. Cardinality(s \ {x}) = Cardinality(s) - 1
          BY <1>1, <4>1, FS_RemoveElement
        <5> QED
          BY <1>1, <2>2, <5>1
      <4>3. F[s \ {x}] = Added(g, F, s \ {x})
        BY <2>1, <4>2
      <4>4. G[s \ {x}] = F[s \ {x}]
        BY <4>2, <4>3
      <4>5. G[s] = g[x] + F[s \ {x}] /\ Added(g, G, s) = g[x] + G[s \ {x}]
        BY <3>2 DEF Added
      <4> QED
        BY <4>4, <4>5
    <3> QED
      BY <3>1, <3>2
  <2>3. Upto(n + 1, G)
    BY <2>2
  <2> HIDE DEF Upto, G
  <2> QED
    BY <2>3
<1>4. Cardinality(D) \in P
  <2>1. Cardinality(D) \in Nat
    BY FS_CardinalityType
  <2> HIDE DEF P
  <2> QED
    BY <1>2, <1>3, <2>1, SetInduction
<1>5. PICK F : Upto(Cardinality(D), F)
  BY <1>4
<1>6. \A s \in SUBSET D : F[s] = Added(g, F, s)
  BY <1>1, <1>5
<1>7. F = [s \in SUBSET D |-> Added(g, F, s)]
  BY <1>5, <1>6
<1> QED
  BY <1>7 DEF Adds

LEMMA SumAdds ==
    ASSUME NEW g, IsFiniteSet(DOMAIN g)
    PROVE  \E F : Adds(g, F) /\ SumOf(g) = F[DOMAIN g]
<1> DEFINE F == CHOOSE F : Adds(g, F)
<1>1. Adds(g, F)
  BY AddsExists
<1>2. SumOf(g) = F[DOMAIN g]
  BY SumIsFold
<1> HIDE DEF F
<1> QED
  BY <1>1, <1>2

(* Nothing adds up to 0.                                                   *)
LEMMA SumEmpty ==
    ASSUME NEW g, DOMAIN g = {}
    PROVE  SumOf(g) = 0
<1>1. IsFiniteSet(DOMAIN g)
  BY FS_EmptySet
<1>2. PICK F : Adds(g, F) /\ SumOf(g) = F[DOMAIN g]
  BY <1>1, SumAdds
<1> QED
  BY <1>2 DEF Adds, Added

Counts(g) == IsFiniteSet(DOMAIN g) /\ \A x \in DOMAIN g : g[x] \in Nat

(* A sum of numbers is a number, and does not depend on the order in which *)
(* they are taken.                                                         *)
LEMMA PartialSums ==
    ASSUME NEW g, Counts(g), NEW F, Adds(g, F)
    PROVE  /\ F[{}] = 0
           /\ \A s \in SUBSET DOMAIN g : F[s] \in Nat
           /\ \A s \in SUBSET DOMAIN g : \A x \in s : F[s] = g[x] + F[s \ {x}]
<1> DEFINE D == DOMAIN g
           Good(s) == F[s] \in Nat /\ \A x \in s : F[s] = g[x] + F[s \ {x}]
           P == {n \in Nat : \A s \in SUBSET D : Cardinality(s) <= n => Good(s)}
<1>1. \A s \in SUBSET D : IsFiniteSet(s) /\ Cardinality(s) \in Nat
  BY FS_Subset, FS_CardinalityType DEF Counts
<1>2. \A s \in SUBSET D : F[s] = Added(g, F, s)
  BY DEF Adds
<1>3. F[{}] = 0
  BY <1>2 DEF Added
<1>4. 0 \in P
  <2>1. ASSUME NEW s \in SUBSET D, Cardinality(s) <= 0 PROVE s = {}
    BY <1>1, <2>1, FS_EmptySet
  <2>2. Good({})
    BY <1>3
  <2> HIDE DEF Good
  <2> QED
    BY <2>1, <2>2
<1>5. ASSUME NEW n \in Nat, n \in P PROVE n + 1 \in P
  <2> SUFFICES ASSUME NEW s \in SUBSET D, Cardinality(s) <= n + 1 PROVE Good(s)
    OBVIOUS
  <2>1. CASE s = {}
    BY <1>3, <2>1
  <2>2. CASE s # {}
    <3> DEFINE c == CHOOSE y \in s : TRUE
    <3>1. c \in s
      BY <2>2
    <3>2. F[s] = g[c] + F[s \ {c}]
      BY <1>2, <2>2 DEF Added
    <3> HIDE DEF c, Good
    <3>3. ASSUME NEW y \in s PROVE s \ {y} \in SUBSET D /\ Good(s \ {y}) /\ g[y] \in Nat
      <4>1. Cardinality(s \ {y}) = Cardinality(s) - 1
        BY <1>1, FS_RemoveElement
      <4>2. Cardinality(s \ {y}) <= n
        BY <1>1, <4>1
      <4> QED
        BY <1>5, <4>2 DEF Counts
    <3> USE DEF Good
    <3>4. F[s] \in Nat
      BY <3>1, <3>2, <3>3
    <3>5. ASSUME NEW x \in s PROVE F[s] = g[x] + F[s \ {x}]
      <4>1. CASE x = c
        BY <3>2, <4>1
      <4>2. CASE x # c
        <5>1. (s \ {x}) \ {c} = (s \ {c}) \ {x}
          OBVIOUS
        <5>2. c \in s \ {x} /\ x \in s \ {c}
          BY <3>1, <4>2
        <5> DEFINE r == (s \ {c}) \ {x}
        <5>3. F[s \ {x}] = g[c] + F[r]
          BY <3>3, <5>1, <5>2
        <5>4. F[s \ {c}] = g[x] + F[r]
          BY <3>1, <3>3, <5>2
        <5>5. g[x] \in Nat /\ g[c] \in Nat /\ F[s \ {x}] \in Nat /\ F[s \ {c}] \in Nat
          BY <3>1, <3>3
        <5>6. F[r] \in Nat
          <6>1. r \in SUBSET D /\ Cardinality(r) <= n
            <7>1. Cardinality(s \ {c}) = Cardinality(s) - 1 /\ Cardinality(r) = Cardinality(s \ {c}) - 1
              BY <1>1, <3>1, <3>3, <5>2, FS_RemoveElement
            <7> QED
              BY <1>1, <7>1
          <6> QED
            BY <1>5, <6>1
        <5> HIDE DEF r
        <5> QED
          BY <3>2, <5>3, <5>4, <5>5, <5>6
      <4> QED
        BY <4>1, <4>2
    <3> QED
      BY <3>4, <3>5
  <2> QED
    BY <2>1, <2>2
<1>6. ASSUME NEW s \in SUBSET D PROVE Good(s)
  <2>1. Cardinality(s) \in P
    <3> HIDE DEF P
    <3> QED
      BY <1>1, <1>4, <1>5, SetInduction
  <2> QED
    BY <1>1, <2>1
<1> QED
  BY <1>3, <1>6

(* What a part of a map adds up to does not depend on the rest.            *)
LEMMA PartialSumsAgree ==
    ASSUME NEW g, Counts(g), NEW h, Counts(h), NEW F, Adds(g, F), NEW H, Adds(h, H),
           DOMAIN h \subseteq DOMAIN g, \A x \in DOMAIN h : h[x] = g[x]
    PROVE  \A s \in SUBSET DOMAIN h : F[s] = H[s]
<1> DEFINE D == DOMAIN h
           P == {n \in Nat : \A s \in SUBSET D : Cardinality(s) <= n => F[s] = H[s]}
<1>1. \A s \in SUBSET D : IsFiniteSet(s) /\ Cardinality(s) \in Nat
  BY FS_Subset, FS_CardinalityType DEF Counts
<1>2. /\ \A s \in SUBSET D : s # {} => F[s] = g[CHOOSE x \in s : TRUE] + F[s \ {CHOOSE x \in s : TRUE}]
      /\ \A s \in SUBSET D : s # {} => H[s] = h[CHOOSE x \in s : TRUE] + H[s \ {CHOOSE x \in s : TRUE}]
      /\ F[{}] = 0 /\ H[{}] = 0
  BY DEF Adds, Added
<1>3. 0 \in P
  <2>1. ASSUME NEW s \in SUBSET D, Cardinality(s) <= 0 PROVE s = {}
    BY <1>1, <2>1, FS_EmptySet
  <2> QED
    BY <1>2, <2>1
<1>4. ASSUME NEW n \in Nat, n \in P PROVE n + 1 \in P
  <2> SUFFICES ASSUME NEW s \in SUBSET D, Cardinality(s) <= n + 1 PROVE F[s] = H[s]
    OBVIOUS
  <2>1. CASE s = {}
    BY <1>2, <2>1
  <2>2. CASE s # {}
    <3> DEFINE c == CHOOSE x \in s : TRUE
    <3>1. c \in s
      BY <2>2
    <3>2. F[s] = g[c] + F[s \ {c}] /\ H[s] = h[c] + H[s \ {c}]
      BY <1>2, <2>2
    <3> HIDE DEF c
    <3>3. Cardinality(s \ {c}) <= n
      <4>1. Cardinality(s \ {c}) = Cardinality(s) - 1
        BY <1>1, <3>1, FS_RemoveElement
      <4> QED
        BY <1>1, <4>1
    <3>4. F[s \ {c}] = H[s \ {c}] /\ g[c] = h[c]
      BY <1>4, <3>1, <3>3
    <3> QED
      BY <3>2, <3>4
  <2> QED
    BY <2>1, <2>2
<1>5. ASSUME NEW s \in SUBSET D PROVE F[s] = H[s]
  <2>1. Cardinality(s) \in P
    <3> HIDE DEF P
    <3> QED
      BY <1>1, <1>3, <1>4, SetInduction
  <2> QED
    BY <1>1, <2>1
<1> QED
  BY <1>5

LEMMA SumIsNat == ASSUME NEW g, Counts(g) PROVE SumOf(g) \in Nat
<1>1. PICK F : Adds(g, F) /\ SumOf(g) = F[DOMAIN g]
  BY SumAdds DEF Counts
<1> QED
  BY <1>1, PartialSums

(* A sum of some is not more than the sum of all.                          *)
LEMMA SumOfSome ==
    ASSUME NEW g, Counts(g), NEW h, DOMAIN h \subseteq DOMAIN g, \A x \in DOMAIN h : h[x] = g[x]
    PROVE  Counts(h) /\ SumOf(h) <= SumOf(g) /\ SumOf(h) \in Nat /\ SumOf(g) \in Nat
<1> DEFINE D == DOMAIN g
<1>1. Counts(h)
  <2>1. IsFiniteSet(DOMAIN h)
    BY FS_Subset DEF Counts
  <2> QED
    BY <2>1 DEF Counts
<1>2. PICK F : Adds(g, F) /\ SumOf(g) = F[D]
  BY SumAdds DEF Counts
<1>3. PICK H : Adds(h, H) /\ SumOf(h) = H[DOMAIN h]
  BY <1>1, SumAdds DEF Counts
<1>4. F[DOMAIN h] = H[DOMAIN h]
  BY <1>1, <1>2, <1>3, PartialSumsAgree
<1>5. /\ \A s \in SUBSET D : F[s] \in Nat
      /\ \A s \in SUBSET D : \A x \in s : F[s] = g[x] + F[s \ {x}]
  BY <1>2, PartialSums
<1> DEFINE P == {n \in Nat : \A s \in SUBSET D : DOMAIN h \subseteq s /\ Cardinality(s) <= n => F[DOMAIN h] <= F[s]}
<1>6. \A s \in SUBSET D : IsFiniteSet(s) /\ Cardinality(s) \in Nat
  BY FS_Subset, FS_CardinalityType DEF Counts
<1>7. 0 \in P
  <2> SUFFICES ASSUME NEW s \in SUBSET D, DOMAIN h \subseteq s, Cardinality(s) <= 0
               PROVE  F[DOMAIN h] <= F[s]
    OBVIOUS
  <2>1. s = {}
    BY <1>6, FS_EmptySet
  <2>2. DOMAIN h = s
    BY <2>1
  <2>3. F[s] \in Nat
    BY <1>5
  <2> QED
    BY <2>2, <2>3
<1>8. ASSUME NEW n \in Nat, n \in P PROVE n + 1 \in P
  <2> SUFFICES ASSUME NEW s \in SUBSET D, DOMAIN h \subseteq s, Cardinality(s) <= n + 1
               PROVE  F[DOMAIN h] <= F[s]
    OBVIOUS
  <2>1. F[s] \in Nat
    BY <1>5
  <2>2. CASE DOMAIN h = s
    BY <2>1, <2>2
  <2>3. CASE DOMAIN h # s
    <3>1. PICK x \in s : x \notin DOMAIN h
      BY <2>3
    <3>2. DOMAIN h \subseteq s \ {x} /\ s \ {x} \in SUBSET D
      BY <3>1
    <3>3. Cardinality(s \ {x}) <= n
      <4>1. Cardinality(s \ {x}) = Cardinality(s) - 1
        BY <1>6, FS_RemoveElement
      <4> QED
        BY <1>6, <4>1
    <3>4. F[DOMAIN h] <= F[s \ {x}]
      BY <1>8, <3>2, <3>3
    <3>5. F[s] = g[x] + F[s \ {x}]
      BY <1>5
    <3>6. g[x] \in Nat /\ F[s \ {x}] \in Nat /\ F[DOMAIN h] \in Nat
      BY <1>5, <3>2 DEF Counts
    <3> QED
      BY <3>4, <3>5, <3>6
  <2> QED
    BY <2>2, <2>3
<1>9. F[DOMAIN h] <= F[D]
  <2>1. Cardinality(D) \in P
    <3> HIDE DEF P
    <3> QED
      BY <1>6, <1>7, <1>8, SetInduction
  <2> QED
    BY <1>6, <2>1
<1>10. F[DOMAIN h] \in Nat /\ F[D] \in Nat
  BY <1>5
<1> QED
  BY <1>1, <1>2, <1>3, <1>4, <1>9, <1>10

(* One more is added to the sum.                                           *)
LEMMA SumOfMore ==
    ASSUME NEW g, Counts(g), NEW x \in DOMAIN g,
           NEW h, DOMAIN h = DOMAIN g \ {x}, \A y \in DOMAIN h : h[y] = g[y]
    PROVE  SumOf(g) = g[x] + SumOf(h)
<1>1. Counts(h)
  BY SumOfSome
<1>2. PICK F : Adds(g, F) /\ SumOf(g) = F[DOMAIN g]
  BY SumAdds DEF Counts
<1>3. PICK H : Adds(h, H) /\ SumOf(h) = H[DOMAIN h]
  BY <1>1, SumAdds DEF Counts
<1>4. F[DOMAIN h] = H[DOMAIN h]
  BY <1>1, <1>2, <1>3, PartialSumsAgree
<1>5. F[DOMAIN g] = g[x] + F[DOMAIN g \ {x}]
  <2> DEFINE D == DOMAIN g
  <2>1. /\ \A s \in SUBSET D : F[s] \in Nat
        /\ \A s \in SUBSET D : \A y \in s : F[s] = g[y] + F[s \ {y}]
    BY <1>2, PartialSums
  <2>2. DOMAIN g \in SUBSET DOMAIN g
    OBVIOUS
  <2> QED
    BY <2>1, <2>2
<1> QED
  BY <1>2, <1>3, <1>4, <1>5

(* Nothing but noughts adds up to 0.                                       *)
LEMMA SumOfNoughts ==
    ASSUME NEW g, IsFiniteSet(DOMAIN g), \A x \in DOMAIN g : g[x] = 0
    PROVE  SumOf(g) = 0
<1> DEFINE D == DOMAIN g
<1>1. Counts(g)
  BY DEF Counts
<1>2. PICK F : Adds(g, F) /\ SumOf(g) = F[D]
  BY SumAdds
<1>3. F[{}] = 0 /\ \A s \in SUBSET D : \A x \in s : F[s] = g[x] + F[s \ {x}]
  BY <1>1, <1>2, PartialSums
<1> DEFINE P == {n \in Nat : \A s \in SUBSET D : Cardinality(s) <= n => F[s] = 0}
<1>4. \A s \in SUBSET D : IsFiniteSet(s) /\ Cardinality(s) \in Nat
  BY FS_Subset, FS_CardinalityType
<1>5. 0 \in P
  <2> SUFFICES ASSUME NEW s \in SUBSET D, Cardinality(s) <= 0 PROVE F[s] = 0
    OBVIOUS
  <2>1. s = {}
    BY <1>4, FS_EmptySet
  <2> QED
    BY <1>3, <2>1
<1>6. ASSUME NEW n \in Nat, n \in P PROVE n + 1 \in P
  <2> SUFFICES ASSUME NEW s \in SUBSET D, Cardinality(s) <= n + 1 PROVE F[s] = 0
    OBVIOUS
  <2>1. CASE s = {}
    BY <1>3, <2>1
  <2>2. CASE s # {}
    <3>1. PICK x \in s : TRUE
      BY <2>2
    <3>2. Cardinality(s \ {x}) = Cardinality(s) - 1
      BY <1>4, FS_RemoveElement
    <3>3. s \ {x} \in SUBSET D /\ Cardinality(s \ {x}) <= n
      BY <1>4, <3>2
    <3>4. F[s \ {x}] = 0
      BY <1>6, <3>3
    <3>5. F[s] = g[x] + F[s \ {x}] /\ g[x] = 0
      BY <1>3
    <3> QED
      BY <3>4, <3>5
  <2> QED
    BY <2>1, <2>2
<1>7. Nat \subseteq P
  <2> HIDE DEF P
  <2> QED
    BY <1>5, <1>6, SetInduction
<1>8. D \in SUBSET D /\ Cardinality(D) \in Nat
  BY <1>4
<1> QED
  BY <1>2, <1>7, <1>8

-----------------------------------------------------------------------------
(* Rankings and tag profiles.                                              *)

(* What is added up stays a count.                                         *)
CountsOf(f, S) == DOMAIN f \subseteq S /\ f \in [DOMAIN f -> Nat]

LEMMA EmptyCounts == ASSUME NEW S PROVE CountsOf(Empty, S)
  BY DEF CountsOf, Empty

LEMMA WeightOfCounts == ASSUME NEW S, NEW f, CountsOf(f, S), NEW x PROVE WeightOf(f, x) \in Nat
  BY DEF CountsOf, WeightOf

LEMMA GainedCounts ==
    ASSUME NEW S, NEW f, NEW g, CountsOf(f, S), CountsOf(g, S)
    PROVE  CountsOf(Gained(f, g), S)
<1>1. \A x : WeightOf(f, x) + WeightOf(g, x) \in Nat
  BY WeightOfCounts
<1> QED
  BY <1>1 DEF CountsOf, Gained

LEMMA VectorFinite ==
    ASSUME NEW T, NEW s \in Seq(T), NEW I, I \subseteq DOMAIN s
    PROVE  IsFiniteSet(I) /\ Cardinality(I) \in Nat /\ DOMAIN s \subseteq Nat
<1>1. Len(s) \in Nat /\ DOMAIN s = 1..Len(s)
  OBVIOUS
<1>2. IsFiniteSet(1..Len(s)) /\ I \in SUBSET (1..Len(s))
  BY <1>1, FS_Interval
<1>3. IsFiniteSet(I)
  BY <1>2, FS_Subset
<1> QED
  BY <1>1, <1>3, FS_CardinalityType

LEMMA TagGainCounts ==
    ASSUME NEW S, NEW s \in Seq(S), NEW w \in Nat
    PROVE  CountsOf(TagGain(s, w), S)
<1>1. ASSUME NEW t PROVE w * Occurs(t, s) \in Nat
  <2>1. {i \in DOMAIN s : s[i] = t} \subseteq DOMAIN s
    OBVIOUS
  <2>2. Occurs(t, s) \in Nat
    BY <2>1, VectorFinite DEF Occurs
  <2> QED
    BY <2>2
<1>2. ToSet(s) \subseteq S
  BY DEF ToSet
<1> QED
  BY <1>1, <1>2 DEF CountsOf, TagGain

(* The elements of a vector.                                               *)
LEMMA ElementType == ASSUME NEW T, NEW s \in Seq(T) PROVE \A i \in DOMAIN s : s[i] \in T
  OBVIOUS

LEMMA JoinedEmpty == ASSUME NEW T, NEW s \in Seq(T) PROVE s \o << >> = s
  OBVIOUS

LEMMA MinOfTwo == ASSUME NEW a \in Nat, NEW b \in Nat PROVE Min({a, b}) \in Nat
<1>1. Min({a, b}) \in {a, b}
  BY DEF Min
<1> QED
  BY <1>1

LEMMA LesserOfTwo ==
    ASSUME NEW a \in Nat, NEW b \in Nat, NEW k, k = IF a < b THEN a ELSE b
    PROVE  k \in Nat /\ k <= a /\ k <= b /\ (k = b \/ (k = a /\ k < b))
  OBVIOUS

(* The weight that stands for 1.0 is a count.                              *)
LEMMA HeaviestCount ==
    ASSUME NEW T, IsFiniteSet(T), NEW f, CountsOf(f, T)
    PROVE  Heaviest(f) \in Nat
<1> DEFINE V == {f[t] : t \in DOMAIN f}
           S == {1} \cup V
<1>1. IsFiniteSet(DOMAIN f)
  <2>1. DOMAIN f \in SUBSET T
    BY DEF CountsOf
  <2> QED
    BY <2>1, FS_Subset
<1>2. IsFiniteSet(V)
  <2>1. /\ \A v \in V : \E t \in DOMAIN f : f[t] = v
        /\ \A t \in DOMAIN f : f[t] \in V
    OBVIOUS
  <2> HIDE DEF V
  <2> QED
    BY <1>1, <2>1, ValuesFinite
<1>3. V \subseteq Nat
  BY DEF CountsOf
<1>4. IsFiniteSet(S) /\ S # {} /\ S \subseteq Nat
  <2> HIDE DEF V
  <2>1. IsFiniteSet(V \cup {1})
    BY <1>2, FS_AddElement
  <2>2. S = V \cup {1}
    OBVIOUS
  <2> QED
    BY <1>3, <2>1, <2>2
<1>5. Max(S) \in S
  <2> HIDE DEF S
  <2>1. S \subseteq Int
    BY <1>4
  <2> QED
    BY <1>4, <2>1, GreatestNumber
<1>6. Heaviest(f) = Max(S)
  BY DEF Heaviest
<1> HIDE DEF S
<1> QED
  BY <1>4, <1>5, <1>6

(* By how much an artist that fits the profile gains is a count.           *)
LEMMA FactorCount ==
    ASSUME NEW T, IsFiniteSet(T), NEW f, CountsOf(f, T), NEW s \in Seq(T),
           NEW g, g = [i \in DOMAIN s |-> WeightOf(f, s[i])]
    PROVE  2 * Heaviest(f) + Min({SumOf(g), Heaviest(f)}) \in Nat
<1>1. Heaviest(f) \in Nat
  BY HeaviestCount
<1>2. Counts(g)
  <2>1. IsFiniteSet(DOMAIN s)
    BY VectorFinite
  <2>2. \A i \in DOMAIN s : WeightOf(f, s[i]) \in Nat
    BY WeightOfCounts
  <2> QED
    BY <2>1, <2>2 DEF Counts
<1>3. SumOf(g) \in Nat
  BY <1>2, SumIsNat
<1>4. Min({SumOf(g), Heaviest(f)}) \in Nat
  BY <1>1, <1>3, MinOfTwo
<1> QED
  BY <1>1, <1>4

(* The first n elements.                                                   *)
LEMMA TakeElements ==
    ASSUME NEW T, NEW s \in Seq(T), NEW n \in Nat
    PROVE  \E k \in Nat :
               /\ k <= Len(s) /\ k <= n /\ (k = n \/ k = Len(s))
               /\ Take(s, n) \in Seq(T) /\ Len(Take(s, n)) = k /\ DOMAIN Take(s, n) = 1..k
               /\ \A i \in 1..k : Take(s, n)[i] = s[i]
<1> DEFINE L == Len(s)
           k == IF L < n THEN L ELSE n
           t == SubSeq(s, 1, k)
<1>1. L \in Nat /\ \A i \in 1..L : s[i] \in T
  OBVIOUS
<1>2. Take(s, n) = t
  BY DEF Take
<1> HIDE DEF L
<1>3. k \in Nat /\ k <= L /\ k <= n /\ (k = n \/ (k = L /\ k < n))
  BY <1>1, LesserOfTwo
<1> HIDE DEF k
<1>4. \A i \in 1..k : s[i] \in T
  BY <1>1, <1>3
<1>5. /\ t \in Seq(T) /\ Len(t) = IF 1 <= k THEN k - 1 + 1 ELSE 0
      /\ \A i \in 1..(k - 1 + 1) : t[i] = s[1 + i - 1]
  BY <1>3, <1>4, SubSeqProperties
<1> HIDE DEF t
<1>6. Len(t) = k /\ DOMAIN t = 1..k /\ \A i \in 1..k : t[i] = s[i]
  BY <1>3, <1>5
<1> QED
  BY <1>2, <1>3, <1>5, <1>6 DEF L

-----------------------------------------------------------------------------
(* Permutations.                                                           *)

(* The maps t and s have the same values, each equally often.              *)
Permutes(f, t, s) ==
    /\ f \in [DOMAIN t -> DOMAIN s]
    /\ \A k, l \in DOMAIN t : f[k] = f[l] => k = l
    /\ \A i \in DOMAIN s : \E k \in DOMAIN t : f[k] = i
    /\ \A k \in DOMAIN t : t[k] = s[f[k]]
Permuted(t, s) == \E f : Permutes(f, t, s)

LEMMA PermutedBack == ASSUME NEW s, NEW t, Permuted(t, s) PROVE Permuted(s, t)
<1>1. PICK f : Permutes(f, t, s)
  BY DEF Permuted
<1> DEFINE g == [i \in DOMAIN s |-> CHOOSE k \in DOMAIN t : f[k] = i]
<1>2. \A i \in DOMAIN s : g[i] \in DOMAIN t /\ f[g[i]] = i
  BY <1>1 DEF Permutes
<1>3. g \in [DOMAIN s -> DOMAIN t]
  BY <1>2
<1> HIDE DEF g
<1>4. Permutes(g, s, t)
  BY <1>1, <1>2, <1>3 DEF Permutes
<1> QED
  BY <1>4 DEF Permuted

LEMMA PermutedTwice ==
    ASSUME NEW s, NEW t, NEW u, Permuted(t, s), Permuted(u, t)
    PROVE  Permuted(u, s)
<1>1. PICK f : Permutes(f, t, s)
  BY DEF Permuted
<1>2. PICK g : Permutes(g, u, t)
  BY DEF Permuted
<1> DEFINE h == [k \in DOMAIN u |-> f[g[k]]]
<1>3. h \in [DOMAIN u -> DOMAIN s] /\ \A k \in DOMAIN u : h[k] = f[g[k]]
  BY <1>1, <1>2 DEF Permutes
<1> HIDE DEF h
<1>4. \A k, l \in DOMAIN u : h[k] = h[l] => k = l
  BY <1>1, <1>2, <1>3 DEF Permutes
<1>5. ASSUME NEW i \in DOMAIN s PROVE \E k \in DOMAIN u : h[k] = i
  <2>1. PICK j \in DOMAIN t : f[j] = i
    BY <1>1 DEF Permutes
  <2>2. PICK k \in DOMAIN u : g[k] = j
    BY <1>2 DEF Permutes
  <2> QED
    BY <1>3, <2>1, <2>2
<1>6. \A k \in DOMAIN u : u[k] = s[h[k]]
  BY <1>1, <1>2, <1>3 DEF Permutes
<1>7. Permutes(h, u, s)
  BY <1>3, <1>4, <1>5, <1>6 DEF Permutes
<1> QED
  BY <1>7 DEF Permuted

(* The values at the positions whose values are in P.                      *)
Chosen(s, P) == [i \in {j \in DOMAIN s : s[j] \in P} |-> s[i]]

LEMMA ChosenPermuted ==
    ASSUME NEW s, NEW t, NEW P, Permuted(t, s)
    PROVE  Permuted(Chosen(t, P), Chosen(s, P))
<1>1. PICK f : Permutes(f, t, s)
  BY DEF Permuted
<1> DEFINE I == {j \in DOMAIN s : s[j] \in P}
           J == {j \in DOMAIN t : t[j] \in P}
           g == [k \in J |-> f[k]]
<1>2. DOMAIN Chosen(t, P) = J /\ DOMAIN Chosen(s, P) = I
  BY DEF Chosen
<1>3. \A k \in J : Chosen(t, P)[k] = t[k]
  BY DEF Chosen
<1>4. \A i \in I : Chosen(s, P)[i] = s[i]
  BY DEF Chosen
<1>5. g \in [J -> I] /\ \A k \in J : g[k] = f[k] /\ f[k] \in I
  BY <1>1 DEF Permutes
<1>6. ASSUME NEW i \in I PROVE \E k \in J : g[k] = i
  <2>1. PICK k \in DOMAIN t : f[k] = i
    BY <1>1 DEF Permutes
  <2>2. k \in J
    BY <1>1, <2>1 DEF Permutes
  <2> QED
    BY <1>5, <2>1, <2>2
<1>7. \A k, l \in J : g[k] = g[l] => k = l
  BY <1>1, <1>5 DEF Permutes
<1>8. \A k \in J : t[k] = s[g[k]]
  BY <1>1, <1>5 DEF Permutes
<1> HIDE DEF I, J, g
<1>9. Permutes(g, Chosen(t, P), Chosen(s, P))
  BY <1>2, <1>3, <1>4, <1>5, <1>6, <1>7, <1>8 DEF Permutes
<1> QED
  BY <1>9 DEF Permuted

(* A filter by value is a permutation of what it keeps.                    *)
LEMMA KeptPermuted ==
    ASSUME NEW T, NEW s \in Seq(T), NEW P, NEW I, I = {i \in DOMAIN s : s[i] \in P}
    PROVE  Permuted(Kept(s, I), Chosen(s, P))
<1> DEFINE t == Kept(s, I)
<1>1. /\ t \in Seq(T) /\ Len(t) = Cardinality(I) /\ Cardinality(I) \in 0..Len(s)
      /\ \E f : Along(t, s, I, f)
  <2>1. I \subseteq DOMAIN s
    OBVIOUS
  <2> QED
    BY <2>1, KeptIsVector
<1> HIDE DEF t
<1>2. PICK f : Along(t, s, I, f)
  BY <1>1
<1>3. DOMAIN t = 1..Cardinality(I) /\ Cardinality(I) \in Nat
  BY <1>1
<1>4. DOMAIN Chosen(s, P) = I /\ \A i \in I : Chosen(s, P)[i] = s[i]
  BY DEF Chosen
<1>5. /\ f \in [DOMAIN t -> I] /\ \A k \in DOMAIN t : t[k] = s[f[k]]
      /\ \A i \in I : \E k \in DOMAIN t : f[k] = i
  BY <1>2, <1>3 DEF Along, Increasing
<1>6. ASSUME NEW k \in DOMAIN t, NEW l \in DOMAIN t, f[k] = f[l] PROVE k = l
  <2>1. k \in Nat /\ l \in Nat /\ f[k] \in Nat /\ f[l] \in Nat
    BY <1>3, <1>5
  <2>2. k < l => f[k] < f[l]
    BY <1>2, <1>3 DEF Along, Increasing
  <2>3. l < k => f[l] < f[k]
    BY <1>2, <1>3 DEF Along, Increasing
  <2> QED
    BY <1>6, <2>1, <2>2, <2>3
<1>7. Permutes(f, t, Chosen(s, P))
  BY <1>4, <1>5, <1>6 DEF Permutes
<1> QED
  BY <1>7 DEF Permuted, t

(* Filters of permutations by the same test are permutations.              *)
LEMMA KeptOfPermuted ==
    ASSUME NEW T, NEW s \in Seq(T), NEW t \in Seq(T), Permuted(t, s), NEW P,
           NEW I, I = {i \in DOMAIN s : s[i] \in P}, NEW J, J = {i \in DOMAIN t : t[i] \in P}
    PROVE  Permuted(Kept(t, J), Kept(s, I))
<1>1. Permuted(Kept(t, J), Chosen(t, P))
  BY KeptPermuted
<1>2. Permuted(Kept(s, I), Chosen(s, P))
  BY KeptPermuted
<1>3. Permuted(Chosen(s, P), Kept(s, I))
  BY <1>2, PermutedBack
<1>4. Permuted(Chosen(t, P), Chosen(s, P))
  BY ChosenPermuted
<1>5. Permuted(Chosen(t, P), Kept(s, I))
  BY <1>3, <1>4, PermutedTwice
<1> QED
  BY <1>1, <1>5, PermutedTwice

(* A sort is a permutation.                                                *)
LEMMA SortedPermuted ==
    ASSUME NEW T, NEW s \in Seq(T), NEW less, WeakOrder(DOMAIN s, less)
    PROVE  /\ Sorted(s, less) \in Seq(T) /\ DOMAIN Sorted(s, less) = DOMAIN s
           /\ \E f : /\ Permutes(f, Sorted(s, less), s)
                     /\ \A k, l \in DOMAIN s : k < l => <<f[l], f[k]>> \notin less
<1>1. PICK f : /\ Rearranged(Sorted(s, less), s, f)
               /\ \A k, l \in DOMAIN s : k < l => <<f[l], f[k]>> \notin less
  BY SortedElements
<1>2. Sorted(s, less) \in Seq(T) /\ DOMAIN Sorted(s, less) = DOMAIN s
  BY SortedElements
<1>3. Permutes(f, Sorted(s, less), s)
  BY <1>1, <1>2 DEF Rearranged, Permutes
<1> QED
  BY <1>1, <1>2, <1>3

(* A ranking R of values: never both ways, and transitive.  A vector is in *)
(* order when nothing comes after something that it beats.                 *)
Ranks(R, V) ==
    /\ \A x \in V : <<x, x>> \notin R
    /\ \A x, y, z \in V : <<x, y>> \in R /\ <<y, z>> \in R => <<x, z>> \in R
InOrder(t, R) == \A k, l \in DOMAIN t : k < l => <<t[l], t[k]>> \notin R
NoTies(t, R) == \A k, l \in DOMAIN t : t[k] = t[l] \/ <<t[k], t[l]>> \in R \/ <<t[l], t[k]>> \in R

(* Of two permutations that are in order none is ahead anywhere: the first *)
(* k of the one would be among the first k - 1 of the other.               *)
LEMMA NotAhead ==
    ASSUME NEW T, NEW t \in Seq(T), NEW u \in Seq(T), Permuted(u, t), NEW R, Ranks(R, T),
           InOrder(t, R), InOrder(u, R), NoTies(t, R), NEW k \in DOMAIN t, k \in DOMAIN u
    PROVE  <<u[k], t[k]>> \notin R
<1> SUFFICES ASSUME <<u[k], t[k]>> \in R PROVE FALSE
  OBVIOUS
<1>1. PICK f : Permutes(f, u, t)
  BY DEF Permuted
<1>2. /\ DOMAIN t = 1..Len(t) /\ DOMAIN u = 1..Len(u) /\ Len(t) \in Nat /\ Len(u) \in Nat /\ k \in Nat
      /\ \A i \in DOMAIN t : t[i] \in T
      /\ \A i \in DOMAIN u : u[i] \in T
  BY ElementType
<1>3. ASSUME NEW i \in 1..k PROVE f[i] \in 1..(k - 1)
  <2>1. i \in DOMAIN u /\ f[i] \in DOMAIN t /\ u[i] = t[f[i]] /\ f[k] \in DOMAIN t /\ u[k] = t[f[k]]
    <3>1. i \in DOMAIN u
      BY <1>2
    <3> QED
      BY <1>1, <3>1 DEF Permutes
  <2>2. u[i] = u[k] \/ <<u[i], u[k]>> \in R
    <3>1. CASE i = k
      BY <3>1
    <3>2. CASE i < k
      BY <2>1, <3>2 DEF InOrder, NoTies
    <3> QED
      BY <1>2, <3>1, <3>2
  <2>3. <<t[f[i]], t[k]>> \in R
    BY <1>2, <2>1, <2>2 DEF Ranks
  <2>4. f[i] # k
    BY <1>2, <2>3 DEF Ranks
  <2>5. ~(k < f[i])
    BY <2>1, <2>3 DEF InOrder
  <2> QED
    BY <1>2, <2>1, <2>4, <2>5
<1> DEFINE g == [i \in 1..k |-> f[i]]
<1>4. g \in [1..k -> 1..(k - 1)]
  BY <1>3
<1>5. \A i, j \in 1..k : g[i] = g[j] => i = j
  <2>1. \A i \in 1..k : i \in DOMAIN u /\ g[i] = f[i]
    BY <1>2
  <2> QED
    BY <1>1, <2>1 DEF Permutes
<1> HIDE DEF g
<1>6. /\ IsFiniteSet(1..k) /\ IsFiniteSet(1..(k - 1))
      /\ Cardinality(1..k) = k /\ Cardinality(1..(k - 1)) = k - 1
  <2>1. k >= 1 /\ k \in Int /\ k - 1 \in Int /\ 1 \in Int
    BY <1>2
  <2>2. IsFiniteSet(1..k) /\ Cardinality(1..k) = IF 1 > k THEN 0 ELSE k - 1 + 1
    BY <2>1, FS_Interval
  <2>3. IsFiniteSet(1..(k - 1)) /\ Cardinality(1..(k - 1)) = IF 1 > k - 1 THEN 0 ELSE (k - 1) - 1 + 1
    BY <2>1, FS_Interval
  <2> QED
    BY <2>1, <2>2, <2>3
<1>7. \E i, j \in 1..k : i # j /\ g[i] = g[j]
  <2>1. Cardinality(1..(k - 1)) < Cardinality(1..k)
    BY <1>2, <1>6
  <2> QED
    BY <1>4, <1>6, <2>1, FS_PigeonHole
<1> QED
  BY <1>5, <1>7

(* There is only one way to put values in order when none of them tie.     *)
LEMMA OneOrder ==
    ASSUME NEW T, NEW t \in Seq(T), NEW u \in Seq(T), Permuted(u, t), NEW R, Ranks(R, T),
           InOrder(t, R), InOrder(u, R), NoTies(t, R)
    PROVE  u = t
<1>1. Permuted(t, u)
  BY PermutedBack
<1>2. PICK f : Permutes(f, u, t)
  BY DEF Permuted
<1>3. NoTies(u, R)
  BY <1>2 DEF NoTies, Permutes
<1>4. /\ DOMAIN t = 1..Len(t) /\ DOMAIN u = 1..Len(u) /\ Len(t) \in Nat /\ Len(u) \in Nat
  OBVIOUS
<1>5. Len(t) = Len(u)
  <2>1. f \in Bijection(DOMAIN u, DOMAIN t)
    BY <1>2 DEF Permutes, Bijection, Injection, Surjection, IsInjective
  <2>2. ExistsBijection(DOMAIN u, DOMAIN t)
    BY <2>1 DEF ExistsBijection
  <2>3. IsFiniteSet(DOMAIN u)
    BY <1>4, FS_Interval
  <2>4. Cardinality(DOMAIN t) = Cardinality(DOMAIN u)
    BY <2>2, <2>3, FS_Bijection
  <2>5. Cardinality(1..Len(t)) = Len(t) /\ Cardinality(1..Len(u)) = Len(u)
    <3>1. ASSUME NEW n \in Nat PROVE Cardinality(1..n) = n
      <4>1. Cardinality(1..n) = IF 1 > n THEN 0 ELSE n - 1 + 1
        BY FS_Interval
      <4> QED
        BY <4>1
    <3> QED
      BY <1>4, <3>1
  <2> QED
    BY <1>4, <2>4, <2>5
<1>6. ASSUME NEW k \in DOMAIN t PROVE u[k] = t[k]
  <2>1. k \in DOMAIN u
    BY <1>4, <1>5
  <2>2. <<u[k], t[k]>> \notin R
    BY <2>1, NotAhead
  <2>3. <<t[k], u[k]>> \notin R
    BY <1>1, <1>3, <2>1, NotAhead
  <2>4. f[k] \in DOMAIN t /\ u[k] = t[f[k]]
    BY <1>2, <2>1 DEF Permutes
  <2> QED
    BY <2>2, <2>3, <2>4 DEF NoTies
<1> QED
  BY <1>4, <1>5, <1>6

(* Nothing, one element more, and a map in the order of its keys.          *)
LEMMA PermutedNone == ASSUME NEW m, DOMAIN m = {} PROVE Permuted(<< >>, m)
<1> DEFINE f == [k \in {} |-> k]
<1>1. DOMAIN << >> = {}
  OBVIOUS
<1>2. Permutes(f, << >>, m)
  BY <1>1 DEF Permutes
<1> QED
  BY <1>2 DEF Permuted

OneMore(m, d, a, n) == /\ d \notin DOMAIN m /\ DOMAIN n = DOMAIN m \cup {d}
                       /\ n[d] = a /\ \A c \in DOMAIN m : n[c] = m[c]

LEMMA PermutedMore ==
    ASSUME NEW T, NEW r \in Seq(T), NEW m, Permuted(r, m), NEW d, NEW a \in T,
           NEW n, OneMore(m, d, a, n)
    PROVE  Permuted(Append(r, a), n)
<1>0. /\ d \notin DOMAIN m /\ DOMAIN n = DOMAIN m \cup {d}
      /\ n[d] = a /\ \A c \in DOMAIN m : n[c] = m[c]
  BY DEF OneMore
<1> DEFINE s == Append(r, a)
<1>1. PICK f : Permutes(f, r, m)
  BY DEF Permuted
<1>2. /\ DOMAIN s = DOMAIN r \cup {Len(r) + 1} /\ Len(r) + 1 \notin DOMAIN r
      /\ s[Len(r) + 1] = a /\ \A k \in DOMAIN r : s[k] = r[k]
  OBVIOUS
<1> DEFINE l == Len(r) + 1
           g == [k \in DOMAIN s |-> IF k = l THEN d ELSE f[k]]
<1> HIDE DEF s
<1>3. /\ \A k \in DOMAIN r : k # l /\ k \in DOMAIN s /\ f[k] \in DOMAIN m /\ r[k] = m[f[k]]
      /\ l \in DOMAIN s /\ \A k \in DOMAIN s : k = l \/ k \in DOMAIN r
  BY <1>1, <1>2 DEF Permutes
<1> HIDE DEF l
<1>4. g \in [DOMAIN s -> DOMAIN n] /\ g[l] = d /\ \A k \in DOMAIN r : g[k] = f[k]
  BY <1>0, <1>3
<1> HIDE DEF g
<1>5. ASSUME NEW k \in DOMAIN s, NEW j \in DOMAIN s, g[k] = g[j] PROVE k = j
  <2>1. CASE k = l /\ j = l
    BY <2>1
  <2>2. CASE k = l /\ j # l
    BY <1>0, <1>3, <1>4, <1>5, <2>2
  <2>3. CASE k # l /\ j = l
    BY <1>0, <1>3, <1>4, <1>5, <2>3
  <2>4. CASE k # l /\ j # l
    <3>1. k \in DOMAIN r /\ j \in DOMAIN r /\ f[k] = f[j]
      BY <1>3, <1>4, <1>5, <2>4
    <3> QED
      BY <1>1, <3>1 DEF Permutes
  <2> QED
    BY <2>1, <2>2, <2>3, <2>4
<1>6. ASSUME NEW c \in DOMAIN n PROVE \E k \in DOMAIN s : g[k] = c
  <2>1. CASE c = d
    BY <1>0, <1>3, <1>4, <2>1
  <2>2. CASE c # d
    <3>1. PICK k \in DOMAIN r : f[k] = c
      BY <1>0, <1>1, <2>2 DEF Permutes
    <3> QED
      BY <1>3, <1>4, <3>1
  <2> QED
    BY <2>1, <2>2
<1>7. ASSUME NEW k \in DOMAIN s PROVE s[k] = n[g[k]]
  <2>1. CASE k = l
    BY <1>0, <1>2, <1>4, <2>1 DEF l
  <2>2. CASE k # l
    BY <1>0, <1>2, <1>3, <1>4, <2>2
  <2> QED
    BY <2>1, <2>2
<1>8. Permutes(g, s, n)
  BY <1>4, <1>5, <1>6, <1>7 DEF Permutes
<1> QED
  BY <1>8 DEF Permuted, s

LEMMA KeptOfMap ==
    ASSUME NEW T, NEW D, D \subseteq Int, IsFiniteSet(D), NEW m, DOMAIN m = D, \A c \in D : m[c] \in T
    PROVE  Kept(m, D) \in Seq(T) /\ Permuted(Kept(m, D), m)
<1> DEFINE t == Kept(m, D)
           n == Cardinality(D)
<1>1. n \in Nat /\ DOMAIN t = 1..n /\ \E f : Along(t, m, D, f)
  BY KeptElements
<1>2. t = [k \in 1..n |-> t[k]]
  <2> DEFINE u(k) == m[Nth(D, Ascending(D), k)]
  <2>1. t = [k \in 1..n |-> u(k)]
    BY <1>1, KeptAsMap
  <2> HIDE DEF t, u, n
  <2> QED
    BY <2>1
<1> HIDE DEF t, n
<1>3. PICK f : Along(t, m, D, f)
  BY <1>1
<1>4. /\ f \in [DOMAIN t -> D] /\ \A k \in DOMAIN t : t[k] = m[f[k]]
      /\ \A c \in D : \E k \in DOMAIN t : f[k] = c
      /\ \A k, l \in DOMAIN t : k < l => f[k] < f[l]
  BY <1>1, <1>3 DEF Along, Increasing, n
<1>5. ASSUME NEW k \in DOMAIN t, NEW l \in DOMAIN t, f[k] = f[l] PROVE k = l
  <2>1. k \in Int /\ l \in Int /\ f[k] \in Int /\ f[l] \in Int
    <3>1. k \in 1..n /\ l \in 1..n /\ n \in Nat
      BY <1>1
    <3>2. f[k] \in D /\ f[l] \in D
      BY <1>4, Zenon
    <3>3. f[k] \in Int /\ f[l] \in Int
      BY <3>2, Zenon
    <3>4. k \in Int /\ l \in Int
      BY <3>1
    <3> QED
      BY <3>3, <3>4
  <2> QED
    BY <1>4, <1>5, <2>1
<1>6. Permuted(t, m)
  <2>1. Permutes(f, t, m)
    BY <1>4, <1>5 DEF Permutes
  <2> QED
    BY <2>1 DEF Permuted
<1>7. t \in [1..n -> T]
  BY <1>1, <1>2, <1>4
<1>8. t \in Seq(T)
  BY <1>1, <1>7
<1> QED
  BY <1>6, <1>8 DEF t

-----------------------------------------------------------------------------
(* Cuts.                                                                   *)

(* When the order leaves nothing open, the n best are the only cut.        *)
LEMMA CutIsBest ==
    ASSUME NEW S, IsFiniteSet(S), NEW n \in Nat, NEW R, TotalOrder(S, R),
           NEW top \in kSubset(Min({n, Cardinality(S)}), S),
           \A x \in top, y \in S \ top : <<y, x>> \notin R
    PROVE  top = {x \in S : Cardinality({y \in S : <<y, x>> \in R}) < n}
<1> DEFINE ahead(x) == {y \in S : <<y, x>> \in R}
           m == Min({n, Cardinality(S)})
<1>1. Cardinality(S) \in Nat
  BY FS_CardinalityType
<1>2. m \in Nat /\ m <= n /\ m <= Cardinality(S) /\ (m = n \/ m = Cardinality(S))
  <2> DEFINE both == {n, Cardinality(S)}
  <2>1. n \in both /\ Cardinality(S) \in both /\ \A x \in both : x \in Int
    BY <1>1
  <2>2. \E x \in both : \A y \in both : x <= y
    <3>1. CASE n <= Cardinality(S)
      BY <1>1, <3>1
    <3>2. CASE Cardinality(S) <= n
      BY <1>1, <3>2
    <3> QED
      BY <1>1, <3>1, <3>2
  <2>3. m = CHOOSE x \in both : \A y \in both : x <= y
    BY DEF Min
  <2> HIDE DEF both
  <2>4. m \in both /\ \A y \in both : m <= y
    <3> HIDE DEF m
    <3> QED
      BY <2>2, <2>3
  <2> HIDE DEF m
  <2> QED
    BY <1>1, <2>1, <2>4 DEF both
<1> HIDE DEF m
<1>3. top \subseteq S /\ Cardinality(top) = m
  BY DEF kSubset, m
<1>4. IsFiniteSet(top)
  BY <1>3, FS_Subset
<1>5. ASSUME NEW x \in top PROVE Cardinality(ahead(x)) < n
  <2>1. ahead(x) \subseteq top \ {x}
    BY <1>3 DEF TotalOrder
  <2>2. IsFiniteSet(top \ {x}) /\ Cardinality(top \ {x}) = m - 1
    BY <1>3, <1>4, FS_RemoveElement
  <2> HIDE DEF ahead
  <2>3. Cardinality(ahead(x)) \in Nat /\ Cardinality(ahead(x)) <= m - 1
    BY <2>1, <2>2, FS_Subset, FS_CardinalityType
  <2> QED
    BY <1>2, <2>3
<1>6. ASSUME NEW x \in S \ top PROVE ~(Cardinality(ahead(x)) < n)
  <2>1. top \subseteq ahead(x)
    BY <1>3 DEF TotalOrder
  <2>2. IsFiniteSet(ahead(x))
    <3>1. ahead(x) \in SUBSET S
      OBVIOUS
    <3> HIDE DEF ahead
    <3> QED
      BY <3>1, FS_Subset
  <2>3. m # Cardinality(S)
    BY <1>3, FS_Subset
  <2> HIDE DEF ahead
  <2>4. Cardinality(top) <= Cardinality(ahead(x)) /\ Cardinality(ahead(x)) \in Nat
    BY <2>1, <2>2, FS_Subset, FS_CardinalityType
  <2> QED
    BY <1>2, <1>3, <2>3, <2>4
<1> QED
  BY <1>3, <1>5, <1>6
=============================================================================
