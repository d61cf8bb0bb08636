------------------------------- MODULE FoldFacts -------------------------------
(***************************************************************************)
(* Sums over finite sets and folds over sequences, as MapThenSumSet and    *)
(* FoldLeft of the community modules compute them, for proofs.  The prover *)
(* knows no induction over data; a statement about every finite set is     *)
(* proved here from the least size of a set that would break it.           *)
(***************************************************************************)
EXTENDS Integers, Sequences, FiniteSets, FiniteSetsExt, FiniteSetTheorems, WellFoundedInduction, TLAPS

\* The function that MapThenSumSet computes recursively: h[s] is the sum of F over s.
Pick(s) == CHOOSE x \in s : TRUE
SumsUp(F, S, h) == h = [s \in SUBSET S |-> IF s = {} THEN 0 ELSE F[Pick(s)] + h[s \ {Pick(s)}]]

-----------------------------------------------------------------------------
\* Every set of numbers that has an element has a least one.
LEMMA Least ==
    ASSUME NEW T, T \subseteq Nat, T # {}
    PROVE  \E x \in T : \A y \in T : x <= y
<1> DEFINE R == {p \in Nat \X Nat : p[1] < p[2]}
<1>1. IsWellFoundedOn(R, Nat)
  BY NatLessThanWellFounded DEF OpToRel
<1>2. \E x \in T : \A y \in T : ~ (<<y, x>> \in R)
  <2> HIDE DEF R
  <2> QED
    BY <1>1, WFMin
<1>3. \A x, y \in Nat : y < x => <<y, x>> \in R
  BY SMT
<1>4. PICK x \in T : \A y \in T : ~ (<<y, x>> \in R)
  BY <1>2
<1> HIDE DEF R
<1>5. ASSUME NEW y \in T PROVE x <= y
  <2>1. x \in Nat /\ y \in Nat
    BY <1>4
  <2>2. ~(y < x)
    BY <1>3, <1>4, <2>1, Zenon
  <2> QED
    BY <2>1, <2>2
<1> QED
  BY <1>4, <1>5

\* A family of subsets of S has a smallest member.
LEMMA Smallest ==
    ASSUME NEW S, IsFiniteSet(S), NEW B, B \subseteq SUBSET S, B # {}
    PROVE  \E s \in B : \A r \in SUBSET S : r \in B => Cardinality(s) <= Cardinality(r)
<1> DEFINE T == {Cardinality(s) : s \in B}
<1>1. \A s \in SUBSET S : IsFiniteSet(s) /\ Cardinality(s) \in Nat
  BY FS_Subset, FS_CardinalityType
<1>2. T \subseteq Nat /\ T # {}
  BY <1>1
<1>3. PICK n \in T : \A k \in T : n <= k
  <2> HIDE DEF T
  <2> QED
    BY <1>2, Least
<1>4. PICK s \in B : n = Cardinality(s)
  BY <1>3
<1> QED
  BY <1>3, <1>4

\* Taking the chosen element away leaves a smaller subset.
LEMMA PickSmaller ==
    ASSUME NEW S, IsFiniteSet(S), NEW s \in SUBSET S, s # {}
    PROVE  /\ Pick(s) \in s /\ s \ {Pick(s)} \in SUBSET S
           /\ Cardinality(s \ {Pick(s)}) < Cardinality(s)
<1>1. Pick(s) \in s
  BY DEF Pick
<1>2. IsFiniteSet(s) /\ Cardinality(s) \in Nat
  BY FS_Subset, FS_CardinalityType
<1>3. Cardinality(s \ {Pick(s)}) = Cardinality(s) - 1
  BY <1>1, <1>2, FS_RemoveElement
<1> QED
  BY <1>1, <1>2, <1>3

\* h is computed by taking one chosen element off a set at a time.
Recurs(G, P, b, S, h) ==
    \A s \in SUBSET S : h[s] = IF s = {} THEN b ELSE G[<<h[s \ {P[s]}], P[s]>>]

\* Such a recursion has a solution.
LEMMA RecursionExists ==
    ASSUME NEW S, IsFiniteSet(S), NEW V, NEW b \in V, NEW G \in [V \X S -> V],
           NEW P, \A s \in SUBSET S : s # {} => P[s] \in s
    PROVE  \E h \in [SUBSET S -> V] : Recurs(G, P, b, S, h)
<1> DEFINE W(h, s) == IF s = {} THEN b ELSE G[<<h[s \ {P[s]}], P[s]>>]
           Solves(h, n) == \A s \in SUBSET S : Cardinality(s) <= n => h[s] = W(h, s)
           T == {n \in Nat : ~ \E h \in [SUBSET S -> V] : Solves(h, n)}
<1>0. \A s \in SUBSET S : Cardinality(s) \in Nat /\ (Cardinality(s) = 0 <=> s = {})
  <2>1. \A s \in SUBSET S : IsFiniteSet(s)
    BY FS_Subset
  <2> QED
    BY <2>1, FS_CardinalityType, FS_EmptySet
<1>p. ASSUME NEW s \in SUBSET S, s # {}
      PROVE  /\ P[s] \in S /\ s \ {P[s]} \in SUBSET S
             /\ Cardinality(s \ {P[s]}) = Cardinality(s) - 1
  <2>1. P[s] \in s /\ IsFiniteSet(s)
    BY <1>p, FS_Subset
  <2> QED
    BY <2>1, FS_RemoveElement
<1>1. \A h \in [SUBSET S -> V], s \in SUBSET S : W(h, s) \in V
  <2> SUFFICES ASSUME NEW h \in [SUBSET S -> V], NEW s \in SUBSET S, s # {}
               PROVE  G[<<h[s \ {P[s]}], P[s]>>] \in V
    OBVIOUS
  <2>1. P[s] \in S /\ s \ {P[s]} \in SUBSET S
    BY <1>p
  <2>2. <<h[s \ {P[s]}], P[s]>> \in V \X S
    BY <2>1
  <2> QED
    BY <2>2
<1>2. 0 \notin T
  <2> DEFINE h0 == [s \in SUBSET S |-> b]
  <2>1. h0 \in [SUBSET S -> V] /\ Solves(h0, 0)
    BY <1>0
  <2> QED
    BY <2>1
<1>3. ASSUME NEW n \in Nat, n \notin T PROVE n + 1 \notin T
  <2>1. PICK h \in [SUBSET S -> V] : Solves(h, n)
    BY <1>3
  <2> DEFINE k == [s \in SUBSET S |-> IF Cardinality(s) <= n THEN h[s] ELSE W(h, s)]
  <2>2. k \in [SUBSET S -> V]
    <3> HIDE DEF W
    <3> QED
      BY <1>1
  <2>3. ASSUME NEW s \in SUBSET S, Cardinality(s) <= n + 1 PROVE k[s] = W(k, s)
    <3>1. k[s] = W(h, s)
      BY <2>1
    <3>2. s # {} => k[s \ {P[s]}] = h[s \ {P[s]}]
      <4>1. ASSUME s # {} PROVE s \ {P[s]} \in SUBSET S /\ Cardinality(s \ {P[s]}) <= n
        <5> HIDE DEF W, Solves, k
        <5>1. Cardinality(s) \in Nat /\ Cardinality(s \ {P[s]}) = Cardinality(s) - 1
          BY <1>0, <1>p, <4>1
        <5> QED
          BY <1>p, <2>3, <4>1, <5>1
      <4> QED
        BY <4>1
    <3> QED
      BY <3>1, <3>2
  <2>4. Solves(k, n + 1)
    BY <2>3
  <2> HIDE DEF k, Solves
  <2> QED
    BY <2>2, <2>4
<1>4. T = {}
  <2> SUFFICES ASSUME T # {} PROVE FALSE
    OBVIOUS
  <2>1. PICK m \in T : \A n \in T : m <= n
    <3>1. T \subseteq Nat
      OBVIOUS
    <3> HIDE DEF T
    <3> QED
      BY <3>1, Least
  <2>2. m \in Nat
    BY <2>1
  <2> HIDE DEF T
  <2>3. m # 0 /\ m - 1 \in Nat
    BY <1>2, <2>1, <2>2
  <2>4. m - 1 \in T
    <3>1. (m - 1) + 1 = m /\ ~ (m <= m - 1)
      BY <2>2
    <3> QED
      BY <1>3, <2>1, <2>3, <3>1
  <2> QED
    BY <2>1, <2>2, <2>4
<1>5. PICK h \in [SUBSET S -> V] : Solves(h, Cardinality(S))
  BY <1>0, <1>4
<1>6. \A s \in SUBSET S : h[s] = W(h, s)
  <2>1. \A s \in SUBSET S : Cardinality(s) <= Cardinality(S)
    BY FS_Subset
  <2> QED
    BY <1>5, <2>1
<1> QED
  BY <1>6 DEF Recurs

\* The recursion of a sum has a solution, and its values are numbers.
LEMMA SumExists ==
    ASSUME NEW S, IsFiniteSet(S), NEW F \in [S -> Nat]
    PROVE  \E h \in [SUBSET S -> Nat] : SumsUp(F, S, h)
<1> DEFINE P == [s \in SUBSET S |-> Pick(s)]
           G == [p \in Nat \X S |-> F[p[2]] + p[1]]
<1>1. \A s \in SUBSET S : P[s] = Pick(s) /\ (s # {} => P[s] \in s)
  BY DEF Pick
<1>2. G \in [Nat \X S -> Nat] /\ \A n \in Nat, x \in S : G[<<n, x>>] = F[x] + n
  OBVIOUS
<1> HIDE DEF P, G
<1>3. PICK h \in [SUBSET S -> Nat] : Recurs(G, P, 0, S, h)
  <2>1. \A s \in SUBSET S : s # {} => P[s] \in s
    BY <1>1
  <2>2. 0 \in Nat /\ G \in [Nat \X S -> Nat]
    BY <1>2
  <2> QED
    BY <2>1, <2>2, RecursionExists
<1>4. \A s \in SUBSET S : s # {} => G[<<h[s \ {P[s]}], P[s]>>] = F[Pick(s)] + h[s \ {Pick(s)}]
  <2> TAKE s \in SUBSET S
  <2> HAVE s # {}
  <2>1. P[s] = Pick(s) /\ P[s] \in S /\ s \ {P[s]} \in SUBSET S
    BY <1>1
  <2>2. h[s \ {P[s]}] \in Nat
    BY <2>1
  <2> QED
    BY <1>2, <2>1, <2>2
<1>5. \A s \in SUBSET S : h[s] = IF s = {} THEN 0 ELSE F[Pick(s)] + h[s \ {Pick(s)}]
  BY <1>3, <1>4 DEF Recurs
<1>6. h = [s \in SUBSET S |-> IF s = {} THEN 0 ELSE F[Pick(s)] + h[s \ {Pick(s)}]]
  BY <1>5
<1> QED
  BY <1>6, Zenon DEF SumsUp

Summed(F, S, h) == \A s \in SUBSET S : h[s] = IF s = {} THEN 0 ELSE F[Pick(s)] + h[s \ {Pick(s)}]

\* The sum of a set is the chosen element's summand and the sum of the rest.
LEMMA SumStep ==
    ASSUME NEW F, NEW S, NEW h, SumsUp(F, S, h)
    PROVE  Summed(F, S, h)
<1> DEFINE V(g, r) == IF r = {} THEN 0 ELSE F[Pick(r)] + g[r \ {Pick(r)}]
<1>1. h = [r \in SUBSET S |-> V(h, r)]
  BY DEF SumsUp
<1>2. \A s \in SUBSET S : h[s] = V(h, s)
  <2> HIDE DEF V
  <2> QED
    BY <1>1
<1> QED
  BY <1>2 DEF Summed

\* Larger summands, larger sum.
LEMMA SumGrows ==
    ASSUME NEW S, IsFiniteSet(S), NEW F \in [S -> Nat], NEW G \in [S -> Nat],
           NEW h, NEW k, SumsUp(F, S, h), SumsUp(G, S, k), \A x \in S : F[x] <= G[x]
    PROVE  h[S] \in Nat /\ k[S] \in Nat /\ h[S] <= k[S]
<1>0. Summed(F, S, h) /\ Summed(G, S, k)
  BY SumStep
<1> DEFINE Good(s) == h[s] \in Nat /\ k[s] \in Nat /\ h[s] <= k[s]
           B == {s \in SUBSET S : ~ Good(s)}
<1>1. ASSUME NEW s \in SUBSET S, s # {}, Good(s \ {Pick(s)}) PROVE Good(s)
  <2>1. Pick(s) \in S
    BY <1>1, PickSmaller
  <2>2. /\ h[s] = F[Pick(s)] + h[s \ {Pick(s)}]
        /\ k[s] = G[Pick(s)] + k[s \ {Pick(s)}]
    BY <1>0, <1>1 DEF Summed
  <2>3. F[Pick(s)] \in Nat /\ G[Pick(s)] \in Nat /\ F[Pick(s)] <= G[Pick(s)]
    BY <2>1
  <2> QED
    BY <1>1, <2>2, <2>3
<1>2. Good({})
  <2>1. {} \in SUBSET S
    OBVIOUS
  <2>2. h[{}] = 0 /\ k[{}] = 0
    BY <1>0, <2>1 DEF Summed
  <2> QED
    BY <2>2
<1>3. B = {}
  <2> SUFFICES ASSUME B # {} PROVE FALSE
    OBVIOUS
  <2>1. B \subseteq SUBSET S /\ \A s \in B : s \in SUBSET S /\ ~ Good(s)
    OBVIOUS
  <2>2. \A s \in SUBSET S : s \notin B => Good(s)
    OBVIOUS
  <2> HIDE DEF B, Good
  <2>3. PICK s \in B : \A r \in SUBSET S : r \in B => Cardinality(s) <= Cardinality(r)
    BY <2>1, Smallest
  <2>4. s # {}
    BY <1>2, <2>1, <2>3
  <2>5. s \ {Pick(s)} \in SUBSET S /\ Cardinality(s \ {Pick(s)}) < Cardinality(s)
    BY <2>1, <2>3, <2>4, PickSmaller
  <2>6. Cardinality(s) \in Nat /\ Cardinality(s \ {Pick(s)}) \in Nat
    BY <2>1, <2>3, <2>5, FS_Subset, FS_CardinalityType
  <2>7. s \ {Pick(s)} \notin B
    BY <2>3, <2>5, <2>6
  <2> QED
    BY <1>1, <2>1, <2>2, <2>3, <2>4, <2>5, <2>7
<1> QED
  BY <1>3, S \in SUBSET S

\* One summand grows by d, and with it the sum.
LEMMA SumAdds ==
    ASSUME NEW S, IsFiniteSet(S), NEW F \in [S -> Nat], NEW G \in [S -> Nat],
           NEW h, NEW k, SumsUp(F, S, h), SumsUp(G, S, k),
           NEW t \in S, NEW d \in Nat, \A x \in S : G[x] = IF x = t THEN F[x] + d ELSE F[x]
    PROVE  k[S] = h[S] + d
<1>0. Summed(F, S, h) /\ Summed(G, S, k)
  BY SumStep
<1> DEFINE Good(s) == h[s] \in Nat /\ k[s] = IF t \in s THEN h[s] + d ELSE h[s]
           B == {s \in SUBSET S : ~ Good(s)}
<1>1. ASSUME NEW s \in SUBSET S, s # {}, Good(s \ {Pick(s)}) PROVE Good(s)
  <2>1. Pick(s) \in S /\ Pick(s) \in s
    BY <1>1, PickSmaller
  <2>2. /\ h[s] = F[Pick(s)] + h[s \ {Pick(s)}]
        /\ k[s] = G[Pick(s)] + k[s \ {Pick(s)}]
    BY <1>0, <1>1 DEF Summed
  <2>3. F[Pick(s)] \in Nat /\ G[Pick(s)] = IF Pick(s) = t THEN F[Pick(s)] + d ELSE F[Pick(s)]
    BY <2>1
  <2>4. t \in s \ {Pick(s)} <=> t \in s /\ Pick(s) # t
    OBVIOUS
  <2> QED
    BY <1>1, <2>1, <2>2, <2>3, <2>4
<1>2. Good({})
  <2>1. {} \in SUBSET S
    OBVIOUS
  <2>2. h[{}] = 0 /\ k[{}] = 0
    BY <1>0, <2>1 DEF Summed
  <2> QED
    BY <2>2
<1>3. B = {}
  <2> SUFFICES ASSUME B # {} PROVE FALSE
    OBVIOUS
  <2>1. B \subseteq SUBSET S /\ \A s \in B : s \in SUBSET S /\ ~ Good(s)
    OBVIOUS
  <2>2. \A s \in SUBSET S : s \notin B => Good(s)
    OBVIOUS
  <2> HIDE DEF B, Good
  <2>3. PICK s \in B : \A r \in SUBSET S : r \in B => Cardinality(s) <= Cardinality(r)
    BY <2>1, Smallest
  <2>4. s # {}
    BY <1>2, <2>1, <2>3
  <2>5. s \ {Pick(s)} \in SUBSET S /\ Cardinality(s \ {Pick(s)}) < Cardinality(s)
    BY <2>1, <2>3, <2>4, PickSmaller
  <2>6. Cardinality(s) \in Nat /\ Cardinality(s \ {Pick(s)}) \in Nat
    BY <2>1, <2>3, <2>5, FS_Subset, FS_CardinalityType
  <2>7. s \ {Pick(s)} \notin B
    BY <2>3, <2>5, <2>6
  <2> QED
    BY <1>1, <2>1, <2>2, <2>3, <2>4, <2>5, <2>7
<1> QED
  BY <1>3, S \in SUBSET S

-----------------------------------------------------------------------------
(* Folds over sequences.                                                   *)

\* The greatest number of a set of places.
LEMMA MaxOfPlaces ==
    ASSUME NEW n \in Nat, NEW r \in SUBSET (1..n), r # {}
    PROVE  Max(r) \in r /\ \A y \in r : y <= Max(r)
<1> DEFINE T == {n - x : x \in r}
<1>1. T \subseteq Nat /\ T # {}
  OBVIOUS
<1>2. PICK m \in T : \A k \in T : m <= k
  <2> HIDE DEF T
  <2> QED
    BY <1>1, Least
<1>3. PICK x \in r : m = n - x
  BY <1>2
<1>4. \A y \in r : x >= y
  <2> TAKE y \in r
  <2>1. n - x <= n - y
    BY <1>2, <1>3
  <2> QED
    BY <2>1
<1> QED
  BY <1>3, <1>4 DEF Max

LEMMA MaxOfFirst ==
    ASSUME NEW i \in Nat, i # 0
    PROVE  Max(1..i) = i /\ (1..i) \ {i} = 1..(i - 1) /\ 1..i # {}
<1>1. i \in 1..i /\ 1..i \in SUBSET (1..i)
  OBVIOUS
<1>2. Max(1..i) \in 1..i /\ i <= Max(1..i)
  BY <1>1, MaxOfPlaces
<1> QED
  BY <1>1, <1>2

\* h computes a fold over the places of s, the last place first, as far as its values
\* stay in V.
FoldsUp(G, V, b, n, s, h) ==
    /\ h[{}] = b
    /\ \A r \in SUBSET (1..n) :
          r # {} /\ h[r \ {Max(r)}] \in V => h[r] = G[<<h[r \ {Max(r)}], s[Max(r)]>>]

\* g holds the values the fold passes through.
Trace(G, b, n, s, g) == g[0] = b /\ \A i \in 1..n : g[i] = G[<<g[i - 1], s[i]>>]

Traced(G, V, b, n, s, result) == \E g \in [0..n -> V] : Trace(G, b, n, s, g) /\ g[n] = result

\* h computes the fold of G wherever its values stay in V.
Folds(G, b, n, s, h) ==
    \A r \in SUBSET (1..n) : h[r] = IF r = {} THEN b ELSE G[<<h[r \ {Max(r)}], s[Max(r)]>>]
Computable(G, V, b, n, s) == \E h \in [SUBSET (1..n) -> V] : Folds(G, b, n, s, h)

\* A fold whose step stays in V can be computed.
LEMMA FoldExists ==
    ASSUME NEW n \in Nat, NEW V, NEW E, NEW b \in V, NEW G \in [V \X E -> V],
           NEW s \in [1..n -> E]
    PROVE  Computable(G, V, b, n, s)
<1> DEFINE P == [r \in SUBSET (1..n) |-> Max(r)]
           H == [p \in V \X (1..n) |-> G[<<p[1], s[p[2]]>>]]
<1>1. \A r \in SUBSET (1..n) : P[r] = Max(r) /\ (r # {} => P[r] \in r)
  BY MaxOfPlaces
<1>2. H \in [V \X (1..n) -> V] /\ \A v \in V, x \in 1..n : H[<<v, x>>] = G[<<v, s[x]>>]
  OBVIOUS
<1> HIDE DEF P, H
<1>3. IsFiniteSet(1..n)
  BY FS_Interval
<1>4. PICK h \in [SUBSET (1..n) -> V] : Recurs(H, P, b, 1..n, h)
  <2>1. \A r \in SUBSET (1..n) : r # {} => P[r] \in r
    BY <1>1
  <2>2. H \in [V \X (1..n) -> V]
    BY <1>2
  <2> QED
    BY <1>3, <2>1, <2>2, RecursionExists
<1>5. \A r \in SUBSET (1..n) :
         r # {} => H[<<h[r \ {P[r]}], P[r]>>] = G[<<h[r \ {Max(r)}], s[Max(r)]>>]
  <2> TAKE r \in SUBSET (1..n)
  <2> HAVE r # {}
  <2>1. P[r] = Max(r) /\ P[r] \in 1..n /\ r \ {P[r]} \in SUBSET (1..n)
    BY <1>1
  <2>2. h[r \ {P[r]}] \in V
    BY <2>1
  <2> QED
    BY <1>2, <2>1, <2>2
<1>6. Folds(G, b, n, s, h)
  BY <1>1, <1>4, <1>5 DEF Recurs, Folds
<1> QED
  BY <1>4, <1>6 DEF Computable

\* However it is computed, a fold passes through its trace and stays in V.
LEMMA FoldTrace ==
    ASSUME NEW n \in Nat, NEW V, NEW E, NEW b \in V, NEW G \in [V \X E -> V],
           NEW s \in [1..n -> E], NEW h, FoldsUp(G, V, b, n, s, h)
    PROVE  Traced(G, V, b, n, s, h[1..n])
<1> DEFINE g == [i \in 0..n |-> h[1..i]]
           B == {i \in 0..n : h[1..i] \notin V}
<1>1. h[1..0] = b
  <2>1. 1..0 = {}
    OBVIOUS
  <2> QED
    BY <2>1 DEF FoldsUp
<1>2. ASSUME NEW i \in 1..n, h[1..(i - 1)] \in V
      PROVE  h[1..i] = G[<<h[1..(i - 1)], s[i]>>] /\ h[1..i] \in V
  <2>1. i \in Nat /\ i # 0 /\ 1..i \in SUBSET (1..n)
    OBVIOUS
  <2>2. Max(1..i) = i /\ (1..i) \ {i} = 1..(i - 1) /\ 1..i # {}
    BY <2>1, MaxOfFirst
  <2>3. h[1..i] = G[<<h[1..(i - 1)], s[i]>>]
    BY <1>2, <2>1, <2>2 DEF FoldsUp
  <2>4. <<h[1..(i - 1)], s[i]>> \in V \X E
    BY <1>2
  <2> QED
    BY <2>3, <2>4
<1>3. B = {}
  <2> SUFFICES ASSUME B # {} PROVE FALSE
    OBVIOUS
  <2>1. B \subseteq Nat /\ \A i \in B : i \in 0..n /\ h[1..i] \notin V
    OBVIOUS
  <2>2. \A i \in 0..n : i \notin B => h[1..i] \in V
    OBVIOUS
  <2> HIDE DEF B, g
  <2>3. PICK m \in B : \A k \in B : m <= k
    BY <2>1, Least
  <2>4. m # 0
    BY <1>1, <2>1
  <2>5. m \in 1..n /\ m - 1 \in 0..n /\ ~ (m <= m - 1)
    BY <2>1, <2>4
  <2>6. h[1..(m - 1)] \in V
    BY <2>2, <2>3, <2>5
  <2> QED
    BY <1>2, <2>1, <2>5, <2>6
<1>4. \A i \in 0..n : h[1..i] \in V
  BY <1>3
<1>5. g \in [0..n -> V]
  BY <1>4
<1>6. g[0] = b /\ g[n] = h[1..n]
  BY <1>1
<1>7. \A i \in 1..n : g[i] = G[<<g[i - 1], s[i]>>]
  <2> TAKE i \in 1..n
  <2>1. i - 1 \in 0..n /\ i \in 0..n
    OBVIOUS
  <2> QED
    BY <1>2, <1>4, <2>1
<1> HIDE DEF g
<1> QED
  BY <1>5, <1>6, <1>7 DEF Trace, Traced

\* One more element takes the fold one step further.
LEMMA FoldAppend ==
    ASSUME NEW n \in Nat, NEW V, NEW b, NEW G, NEW s, NEW u, \A i \in 1..n : u[i] = s[i],
           NEW v, NEW w, Traced(G, V, b, n, s, v), Traced(G, V, b, n + 1, u, w)
    PROVE  v \in V /\ w \in V /\ w = G[<<v, u[n + 1]>>]
<1>1. PICK g \in [0..n -> V] : Trace(G, b, n, s, g) /\ g[n] = v
  BY DEF Traced
<1>2. PICK k \in [0..(n + 1) -> V] : Trace(G, b, n + 1, u, k) /\ k[n + 1] = w
  BY DEF Traced
<1> DEFINE B == {i \in 0..n : g[i] # k[i]}
<1>3. 0 \notin B
  BY <1>1, <1>2 DEF Trace
<1>4. ASSUME NEW i \in 1..n, g[i - 1] = k[i - 1] PROVE g[i] = k[i]
  <2>1. i \in 1..(n + 1)
    OBVIOUS
  <2>2. g[i] = G[<<g[i - 1], s[i]>>]
    BY <1>1 DEF Trace
  <2>3. k[i] = G[<<k[i - 1], u[i]>>]
    BY <1>2, <2>1 DEF Trace
  <2> QED
    BY <1>4, <2>2, <2>3
<1>5. B = {}
  <2> SUFFICES ASSUME B # {} PROVE FALSE
    OBVIOUS
  <2>1. B \subseteq Nat /\ \A i \in B : i \in 0..n /\ g[i] # k[i]
    OBVIOUS
  <2>2. \A i \in 0..n : i \notin B => g[i] = k[i]
    OBVIOUS
  <2> HIDE DEF B
  <2>3. PICK m \in B : \A j \in B : m <= j
    BY <2>1, Least
  <2>4. m \in 1..n /\ m - 1 \in 0..n /\ ~ (m <= m - 1)
    BY <1>3, <2>1
  <2>5. g[m - 1] = k[m - 1]
    BY <2>2, <2>3, <2>4
  <2> QED
    BY <1>4, <2>1, <2>4, <2>5
<1>6. g[n] = k[n]
  BY <1>5
<1>7. k[n + 1] = G[<<k[n], u[n + 1]>>]
  <2>1. n + 1 \in 1..(n + 1) /\ (n + 1) - 1 = n
    OBVIOUS
  <2> QED
    BY <1>2, <2>1 DEF Trace
<1> QED
  BY <1>1, <1>2, <1>6, <1>7
=============================================================================
