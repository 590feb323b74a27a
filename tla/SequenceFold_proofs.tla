------------------------- MODULE SequenceFold_proofs -------------------------
(***************************************************************************)
(* What FoldLeft of the community modules computes, for any operator: the  *)
(* proofs about the migrations unfold their folds by these facts, one      *)
(* instance of this module for each operator that is folded.               *)
(*                                                                         *)
(* FoldLeft is a recursive function on the subsets of the domain of the    *)
(* sequence.  The proof constructs that function, from 1..n to 1..n+1, and *)
(* takes induction from the well-foundedness of the finite subsets of Nat. *)
(***************************************************************************)
EXTENDS SequencesExt, FiniteSetTheorems, WellFoundedInduction, TLAPS

CONSTANT Step(_, _)

Fold(base, seq) == FoldLeft(Step, base, seq)
-----------------------------------------------------------------------------
(***************************************************************************)
(* Induction, as a fact about sets of numbers.                             *)
(***************************************************************************)
LEMMA SmallestOfSet ==
  ASSUME NEW T \in SUBSET Nat, T # {}
  PROVE  \E n \in T : \A m \in T : ~(m < n)
<1> DEFINE Below == {0..(n - 1) : n \in T}
           Smaller == StrictSubsetOrdering(Nat)
<1>1. IsWellFoundedOn(Smaller, FiniteSubsetsOf(Nat))
  BY FS_StrictSubsetOrderingWellFounded
<1>2. Below \subseteq FiniteSubsetsOf(Nat)
  <2> SUFFICES ASSUME NEW n \in T
               PROVE  0..(n - 1) \in FiniteSubsetsOf(Nat)
    OBVIOUS
  <2>1. IsFiniteSet(0..(n - 1))
    BY FS_Interval
  <2>2. 0..(n - 1) \in SUBSET Nat
    OBVIOUS
  <2> QED BY <2>1, <2>2, Zenon DEF FiniteSubsetsOf
<1>3. ASSUME NEW m \in Nat, NEW n \in Nat, m < n
      PROVE  <<0..(m - 1), 0..(n - 1)>> \in Smaller
  <2>1. m \in 0..(n - 1) /\ m \notin 0..(m - 1)
    BY <1>3
  <2> QED BY <1>3, <2>1 DEF StrictSubsetOrdering
<1>4. Below # {}
  OBVIOUS
<1> HIDE DEF Below, Smaller
<1>5. PICK least \in Below : \A other \in Below : <<other, least>> \notin Smaller
  BY <1>1, <1>2, <1>4, WFMin
<1> QED BY <1>3, <1>5 DEF Below

\* Induction over the naturals, for a set instead of a predicate.
LEMMA InductionOverSet ==
  ASSUME NEW T, 0 \in T, \A n \in T \cap Nat : n + 1 \in T
  PROVE  Nat \subseteq T
<1> SUFFICES ASSUME Nat \ T # {} PROVE FALSE
  OBVIOUS
<1>1. PICK n \in Nat \ T : \A m \in Nat \ T : ~(m < n)
  BY SmallestOfSet
<1> QED BY <1>1

\* The maximum of a non-empty set of positions is one of them.
LEMMA MaxIsMember ==
  ASSUME NEW n \in Nat, NEW s \in SUBSET (1..n), s # {}
  PROVE  Max(s) \in s /\ \A y \in s : Max(s) >= y
<1> DEFINE FromTheTop == {k \in Nat : n - k \in s}
<1>1. PICK x \in s : n - x \in FromTheTop
  <2>1. PICK x \in s : TRUE
    OBVIOUS
  <2>2. n - x \in Nat /\ n - (n - x) = x
    OBVIOUS
  <2> QED BY <2>2
<1>2. PICK k \in FromTheTop : \A m \in FromTheTop : ~(m < k)
  BY <1>1, SmallestOfSet
<1>3. ASSUME NEW y \in s
      PROVE  n - k >= y
  <2>1. n - y \in FromTheTop
    OBVIOUS
  <2> QED BY <2>1, <1>2
<1> QED BY <1>2, <1>3 DEF Max

\* The last position of a list is the maximum of its positions.
LEMMA MaxIsLast ==
  ASSUME NEW n \in Nat, NEW s \in SUBSET (1..(n + 1)), n + 1 \in s
  PROVE  Max(s) = n + 1
<1>1. Max(s) \in s /\ Max(s) >= n + 1
  BY MaxIsMember
<1>2. Max(s) \in 1..(n + 1)
  BY <1>1
<1> QED BY <1>1, <1>2
-----------------------------------------------------------------------------
(***************************************************************************)
(* The recursive function behind FoldLeft.                                 *)
(***************************************************************************)
Iterates(iter, base, seq, n) ==
  iter = [s \in SUBSET (1..n) |->
            IF s = {} THEN base ELSE Step(iter[s \ {Max(s)}], seq[Max(s)])]

\* If the recursive function exists on the positions up to n, it takes one step
\* per position.
LEMMA FoldIsIterated ==
  ASSUME NEW base, NEW seq, NEW n \in Nat, DOMAIN seq = 1..n
  PROVE  Fold(base, seq) = (CHOOSE iter : Iterates(iter, base, seq, n))[1..n]
BY DEF Fold, FoldLeft, MapThenFoldSet, Iterates

\* It does exist, for every n.
LEMMA IterationExists ==
  ASSUME NEW base, NEW seq
  PROVE  \A n \in Nat : \E iter : Iterates(iter, base, seq, n)
<1> DEFINE T == {n \in Nat : \E iter : Iterates(iter, base, seq, n)}
<1>1. 0 \in T
  <2>1. Iterates([s \in SUBSET (1..0) |-> base], base, seq, 0)
    BY DEF Iterates
  <2> QED BY <2>1
<1>2. ASSUME NEW n \in T PROVE n + 1 \in T
  <2>1. PICK h : Iterates(h, base, seq, n)
    OBVIOUS
  <2> DEFINE g == [s \in SUBSET (1..(n + 1)) |->
                     IF n + 1 \in s THEN Step(h[s \ {n + 1}], seq[n + 1]) ELSE h[s]]
  <2>2. ASSUME NEW s \in SUBSET (1..(n + 1))
        PROVE  g[s] = IF s = {} THEN base ELSE Step(g[s \ {Max(s)}], seq[Max(s)])
    <3>1. CASE n + 1 \in s
      <4>1. Max(s) = n + 1
        BY <3>1, MaxIsLast
      <4>2. s \ {n + 1} \in SUBSET (1..(n + 1)) /\ n + 1 \notin s \ {n + 1}
        OBVIOUS
      <4> QED BY <3>1, <4>1, <4>2
    <3>2. CASE n + 1 \notin s
      <4>1. s \in SUBSET (1..n)
        BY <3>2
      <4>2. g[s] = h[s] /\ g[s \ {Max(s)}] = h[s \ {Max(s)}]
        BY <3>2
      <4> QED BY <2>1, <4>1, <4>2 DEF Iterates
    <3> QED BY <3>1, <3>2
  <2>3. g = [s \in SUBSET (1..(n + 1)) |-> g[s]]
    OBVIOUS
  <2> HIDE DEF g
  <2>4. Iterates(g, base, seq, n + 1)
    BY <2>2, <2>3, Zenon DEF Iterates
  <2> QED BY <2>4
<1> HIDE DEF T
<1>3. Nat \subseteq T
  BY <1>1, <1>2, InductionOverSet
<1> QED BY <1>3 DEF T
-----------------------------------------------------------------------------
(***************************************************************************)
(* The facts the other modules cite.                                       *)
(***************************************************************************)
\* `after' lists what the fold has made of the first elements.
Steps(after, base, seq) ==
  /\ after[0] = base
  /\ \A i \in DOMAIN seq : after[i] = Step(after[i - 1], seq[i])

\* A fold takes the elements one after the other, the first one first.
THEOREM FoldSteps ==
  ASSUME NEW base, NEW seq, NEW n \in Nat, DOMAIN seq = 1..n
  PROVE  \E after : Steps(after, base, seq) /\ Fold(base, seq) = after[n]
<1> DEFINE iter  == CHOOSE f : Iterates(f, base, seq, n)
           after == [i \in 0..n |-> iter[1..i]]
<1>1. Iterates(iter, base, seq, n)
  BY IterationExists, Zenon
<1>2. Fold(base, seq) = iter[1..n]
  BY FoldIsIterated, Zenon
<1> HIDE DEF iter
<1>3. after[0] = base
  <2>1. 1..0 = {}
    OBVIOUS
  <2> QED BY <1>1, <2>1 DEF Iterates
<1>4. ASSUME NEW i \in 1..n
      PROVE  after[i] = Step(after[i - 1], seq[i])
  <2>1. i - 1 \in Nat /\ (i - 1) + 1 = i /\ i \in 1..i
    OBVIOUS
  <2>2. Max(1..i) = i
    BY <2>1, MaxIsLast
  <2>3. (1..i) \ {i} = 1..(i - 1)
    OBVIOUS
  <2>4. 1..i \in SUBSET (1..n)
    OBVIOUS
  <2>5. iter[1..i] = Step(iter[(1..i) \ {Max(1..i)}], seq[Max(1..i)])
    BY <1>1, <2>1, <2>4 DEF Iterates
  <2>6. after[i] = iter[1..i] /\ after[i - 1] = iter[1..(i - 1)]
    OBVIOUS
  <2> QED BY <2>2, <2>3, <2>5, <2>6
<1>5. Fold(base, seq) = after[n]
  BY <1>2
<1> HIDE DEF after
<1>6. Steps(after, base, seq)
  BY <1>3, <1>4 DEF Steps
<1> QED BY <1>5, <1>6

\* A fold over a few elements, written out.
LEMMA FoldNone ==
  ASSUME NEW base
  PROVE  Fold(base, <<>>) = base
<1>1. DOMAIN <<>> = 1..0
  OBVIOUS
<1> QED BY <1>1, FoldSteps DEF Steps

\* Short lists, unfolded.
LEMMA FoldOne ==
  ASSUME NEW base, NEW a
  PROVE  Fold(base, <<a>>) = Step(base, a)
<1>1. DOMAIN <<a>> = 1..1
  OBVIOUS
<1>2. PICK after : Steps(after, base, <<a>>) /\ Fold(base, <<a>>) = after[1]
  BY <1>1, FoldSteps
<1> QED BY <1>2 DEF Steps

LEMMA FoldTwo ==
  ASSUME NEW base, NEW a, NEW b
  PROVE  Fold(base, <<a, b>>) =
           Step(Step(base, a), b)
<1> DEFINE seq == <<a, b>>
<1>1. /\ 2 \in Nat /\ DOMAIN seq = 1..2
      /\ seq[1] = a /\ seq[2] = b
  OBVIOUS
<1> HIDE DEF seq
<1>2. PICK after : Steps(after, base, seq) /\ Fold(base, seq) = after[2]
  BY <1>1, FoldSteps
<1>3. /\ after[0] = base
      /\ after[1] = Step(after[0], a)
      /\ after[2] = Step(after[1], b)
  BY <1>1, <1>2 DEF Steps
<1> QED BY <1>2, <1>3 DEF seq

LEMMA FoldThree ==
  ASSUME NEW base, NEW a, NEW b, NEW c
  PROVE  Fold(base, <<a, b, c>>) =
           Step(Step(Step(base, a), b), c)
<1> DEFINE seq == <<a, b, c>>
<1>1. /\ 3 \in Nat /\ DOMAIN seq = 1..3
      /\ seq[1] = a /\ seq[2] = b /\ seq[3] = c
  OBVIOUS
<1> HIDE DEF seq
<1>2. PICK after : Steps(after, base, seq) /\ Fold(base, seq) = after[3]
  BY <1>1, FoldSteps
<1>3. /\ after[0] = base
      /\ after[1] = Step(after[0], a)
      /\ after[2] = Step(after[1], b)
      /\ after[3] = Step(after[2], c)
  BY <1>1, <1>2 DEF Steps
<1> QED BY <1>2, <1>3 DEF seq

LEMMA FoldFive ==
  ASSUME NEW base, NEW a, NEW b, NEW c, NEW d, NEW e
  PROVE  Fold(base, <<a, b, c, d, e>>) =
           Step(Step(Step(Step(Step(base, a), b), c), d), e)
<1> DEFINE seq == <<a, b, c, d, e>>
<1>1. /\ 5 \in Nat /\ DOMAIN seq = 1..5
      /\ seq[1] = a /\ seq[2] = b /\ seq[3] = c /\ seq[4] = d /\ seq[5] = e
  OBVIOUS
<1> HIDE DEF seq
<1>2. PICK after : Steps(after, base, seq) /\ Fold(base, seq) = after[5]
  BY <1>1, FoldSteps
<1>3. /\ after[0] = base
      /\ after[1] = Step(after[0], a)
      /\ after[2] = Step(after[1], b)
      /\ after[3] = Step(after[2], c)
      /\ after[4] = Step(after[3], d)
      /\ after[5] = Step(after[4], e)
  BY <1>1, <1>2 DEF Steps
<1> QED BY <1>2, <1>3 DEF seq

LEMMA FoldSix ==
  ASSUME NEW base, NEW a, NEW b, NEW c, NEW d, NEW e, NEW f
  PROVE  Fold(base, <<a, b, c, d, e, f>>) =
           Step(Step(Step(Step(Step(Step(base, a), b), c), d), e), f)
<1> DEFINE seq == <<a, b, c, d, e, f>>
<1>1. /\ 6 \in Nat /\ DOMAIN seq = 1..6
      /\ seq[1] = a /\ seq[2] = b /\ seq[3] = c /\ seq[4] = d /\ seq[5] = e /\ seq[6] = f
  OBVIOUS
<1> HIDE DEF seq
<1>2. PICK after : Steps(after, base, seq) /\ Fold(base, seq) = after[6]
  BY <1>1, FoldSteps
<1>3. /\ after[0] = base
      /\ after[1] = Step(after[0], a)
      /\ after[2] = Step(after[1], b)
      /\ after[3] = Step(after[2], c)
      /\ after[4] = Step(after[3], d)
      /\ after[5] = Step(after[4], e)
      /\ after[6] = Step(after[5], f)
  BY <1>1, <1>2 DEF Steps
<1> QED BY <1>2, <1>3 DEF seq

\* A fold over two sequences goes on with the second where the first ended.
IsList(s) == \E S : s \in Seq(S)

\* Two lists joined are a list, and its fold is the fold of the second from where
\* the first has led.
THEOREM FoldConcat ==
  ASSUME NEW base, NEW s, NEW t, IsList(s), IsList(t)
  PROVE  /\ IsList(s \o t)
         /\ Fold(base, s \o t) = Fold(Fold(base, s), t)
<1>0. PICK S : s \in Seq(S) /\ t \in Seq(S)
  <2>1. PICK S1, S2 : s \in Seq(S1) /\ t \in Seq(S2)
    BY DEF IsList
  <2>2. s \in Seq(S1 \cup S2) /\ t \in Seq(S1 \cup S2)
    BY <2>1
  <2> QED BY <2>2
<1> DEFINE m == Len(s)
           n == Len(t)
<1>1. /\ m \in Nat /\ n \in Nat
      /\ DOMAIN s = 1..m /\ DOMAIN t = 1..n /\ DOMAIN (s \o t) = 1..(m + n)
      /\ \A i \in 1..m : (s \o t)[i] = s[i]
      /\ \A i \in 1..n : (s \o t)[m + i] = t[i]
  BY <1>0
<1> DEFINE st == s \o t
<1> HIDE DEF m, n, st
<1>2. PICK f : Steps(f, base, s) /\ Fold(base, s) = f[m]
  BY <1>1, FoldSteps
<1>3. PICK g : Steps(g, Fold(base, s), t) /\ Fold(Fold(base, s), t) = g[n]
  BY <1>1, FoldSteps
<1>4. PICK h : Steps(h, base, st) /\ Fold(base, st) = h[m + n]
  <2>1. DOMAIN st = 1..(m + n) /\ m + n \in Nat
    BY <1>1 DEF st
  <2> QED BY <2>1, FoldSteps
<1> DEFINE A == {i \in Nat : i <= m => h[i] = f[i]}
           B == {i \in Nat : i <= n => h[m + i] = g[i]}
<1>5. Nat \subseteq A
  <2>1. 0 \in A
    BY <1>2, <1>4 DEF Steps
  <2>2. ASSUME NEW i \in A, i + 1 <= m PROVE h[i + 1] = f[i + 1]
    <3>1. i + 1 \in 1..m /\ (i + 1) - 1 = i /\ i + 1 \in 1..(m + n)
      BY <1>1, <2>2
    <3>2. f[i + 1] = Step(f[(i + 1) - 1], s[i + 1])
      BY <1>1, <1>2, <3>1 DEF Steps
    <3>3. h[i + 1] = Step(h[(i + 1) - 1], st[i + 1])
      BY <1>1, <1>4, <3>1 DEF Steps, st
    <3>4. st[i + 1] = s[i + 1] /\ h[i] = f[i]
      BY <1>1, <2>2, <3>1 DEF st
    <3> QED BY <3>1, <3>2, <3>3, <3>4
  <2>3. \A i \in A \cap Nat : i + 1 \in A
    BY <1>1, <2>2
  <2> HIDE DEF A
  <2> QED BY <2>1, <2>3, InductionOverSet
<1>6. h[m] = g[0]
  BY <1>1, <1>2, <1>3, <1>5 DEF Steps
<1>7. Nat \subseteq B
  <2>1. 0 \in B
    BY <1>1, <1>6
  <2>2. ASSUME NEW i \in B, i + 1 <= n PROVE h[m + (i + 1)] = g[i + 1]
    <3>1. /\ i + 1 \in 1..n /\ (i + 1) - 1 = i
          /\ m + (i + 1) \in 1..(m + n) /\ (m + (i + 1)) - 1 = m + i
      BY <1>1, <2>2
    <3>2. g[i + 1] = Step(g[(i + 1) - 1], t[i + 1])
      BY <1>1, <1>3, <3>1 DEF Steps
    <3>3. h[m + (i + 1)] = Step(h[(m + (i + 1)) - 1], st[m + (i + 1)])
      BY <1>1, <1>4, <3>1 DEF Steps, st
    <3>4. st[m + (i + 1)] = t[i + 1] /\ h[m + i] = g[i]
      BY <1>1, <2>2, <3>1 DEF st
    <3> QED BY <3>1, <3>2, <3>3, <3>4
  <2>3. ASSUME NEW i \in B PROVE i + 1 \in B
    <3>1. i + 1 \in Nat /\ (i + 1 <= n => h[m + (i + 1)] = g[i + 1])
      BY <2>2
    <3> QED BY <3>1
  <2> HIDE DEF B
  <2> QED BY <2>1, <2>3, InductionOverSet
<1>8. h[m + n] = g[n]
  BY <1>1, <1>7
<1>9. IsList(s \o t)
  <2>1. s \o t \in Seq(S)
    BY <1>0
  <2> QED BY <2>1 DEF IsList
<1> QED BY <1>3, <1>4, <1>8, <1>9 DEF st
=============================================================================
