---------------------------- MODULE RankingProofs ----------------------------
(***************************************************************************)
(* The ranking of candidates is an order that leaves ties only between     *)
(* equals, so that comparing all with all leaves exactly the best, in      *)
(* whatever order they come; it is the order of what they need; and the    *)
(* filters after it find the one to be preferred.                          *)
(***************************************************************************)
EXTENDS Ranking, TLAPS, FiniteSetTheorems, WellFoundedInduction

\* What candidates for a call of n arguments are compared by.
Keys(n) == [ranks : [1..n -> Nat], kind : Nat]

\* The ranks of what can be called.
Matching == {Exact, Promotion, Standard}
WorstFirst(ranks) == \A i, j \in DOMAIN ranks : i <= j => ranks[i] >= ranks[j]

\* The candidates, the first of which converts better than the second.
Pairs(set, key) == {p \in set \X set : Beats(key[p[1]], key[p[2]])}

-------------------------------------------------------------------------------
(* Numbers *)

\* A set of numbers that is not empty has a least one.
LEMMA LeastNumber ==
  ASSUME NEW T, T \subseteq Nat, T # {}
  PROVE  \E m \in T : \A i \in T : m <= i
PROOF
  <1>1. PICK m \in T : \A i \in T : ~(<<i, m>> \in OpToRel(<, Nat))
    BY NatLessThanWellFounded, WFMin
  <1>2. \A i \in T : ~(i < m)
    BY <1>1 DEF OpToRel
  <1> QED
    BY <1>2

\* A set of positions that has all positions before one of its own consists of
\* the first ones.
LEMMA FirstOnes ==
  ASSUME NEW n \in Nat, NEW T, T \subseteq 1..n,
         \A i \in T : \A j \in 1..i : j \in T
  PROVE  /\ IsFiniteSet(T)
         /\ Cardinality(T) \in 0..n /\ T = 1..Cardinality(T)
PROOF
  <1> DEFINE Bounds == {k \in 0..n : T \subseteq 1..k}
  <1>1. PICK k \in Bounds : \A i \in Bounds : k <= i
    <2>1. n \in Bounds /\ Bounds \subseteq Nat
      OBVIOUS
    <2> QED
      BY <2>1, LeastNumber
  <1>2. T = 1..k
    <2>1. CASE k = 0
      BY <1>1, <2>1
    <2>2. CASE k # 0
      <3>1. k - 1 \in 0..n /\ ~(T \subseteq 1..(k - 1))
        BY <1>1, <2>2
      <3>2. k \in T
        BY <1>1, <3>1
      <3> QED
        BY <1>1, <3>2
    <2> QED
      BY <2>1, <2>2
  <1>3. IsFiniteSet(1..k) /\ Cardinality(1..k) = k
    BY FS_Interval
  <1> QED
    BY <1>2, <1>3

-------------------------------------------------------------------------------
(* The order *)

LEMMA FirstDifference ==
  ASSUME NEW n \in Nat, NEW a \in [1..n -> Nat], NEW b \in [1..n -> Nat], a # b
  PROVE  \E i \in 1..n : a[i] # b[i] /\ \A j \in 1..(i - 1) : a[j] = b[j]
PROOF
  <1> DEFINE Differ == {i \in 1..n : a[i] # b[i]}
  <1>1. Differ # {} /\ Differ \subseteq Nat
    OBVIOUS
  <1>2. PICK i \in Differ : \A j \in Differ : i <= j
    BY <1>1, LeastNumber
  <1> QED
    BY <1>2

\* The vectors of n ranks are in a strict and total order.
LEMMA LessIsOrder ==
  ASSUME NEW n \in Nat, NEW a \in [1..n -> Nat], NEW b \in [1..n -> Nat],
         NEW c \in [1..n -> Nat]
  PROVE  /\ ~Less(a, a)
         /\ Less(a, b) /\ Less(b, c) => Less(a, c)
         /\ Less(a, b) \/ a = b \/ Less(b, a)
PROOF
  <1>1. ~Less(a, a)
    BY DEF Less
  <1>2. ASSUME Less(a, b), Less(b, c)
        PROVE  Less(a, c)
    <2>1. PICK i \in 1..n : a[i] < b[i] /\ \A j \in 1..(i - 1) : a[j] = b[j]
      BY <1>2 DEF Less
    <2>2. PICK k \in 1..n : b[k] < c[k] /\ \A j \in 1..(k - 1) : b[j] = c[j]
      BY <1>2 DEF Less
    <2>3. CASE i < k
      <3>1. a[i] < c[i]
        <4>1. b[i] = c[i]
          BY <2>2, <2>3
        <4> QED
          BY <2>1, <4>1
      <3>2. \A j \in 1..(i - 1) : a[j] = c[j]
        <4>1. \A j \in 1..(i - 1) : b[j] = c[j]
          BY <2>2, <2>3
        <4> QED
          BY <2>1, <4>1
      <3> QED
        BY <3>1, <3>2 DEF Less
    <2>4. CASE i = k
      <3>1. a[i] < c[i]
        <4>1. a[i] \in Nat /\ b[i] \in Nat /\ c[i] \in Nat
          OBVIOUS
        <4>2. a[i] < b[i] /\ b[i] < c[i]
          BY <2>1, <2>2, <2>4
        <4> QED
          BY <4>1, <4>2
      <3>2. \A j \in 1..(i - 1) : a[j] = c[j]
        BY <2>1, <2>2, <2>4
      <3> QED
        BY <3>1, <3>2 DEF Less
    <2>5. CASE k < i
      <3>1. a[k] < c[k]
        <4>1. a[k] = b[k]
          BY <2>1, <2>5
        <4> QED
          BY <2>2, <4>1
      <3>2. \A j \in 1..(k - 1) : a[j] = c[j]
        <4>1. \A j \in 1..(k - 1) : a[j] = b[j]
          BY <2>1, <2>5
        <4> QED
          BY <2>2, <4>1
      <3> QED
        BY <3>1, <3>2 DEF Less
    <2> QED
      BY <2>3, <2>4, <2>5
  <1>3. Less(a, b) \/ a = b \/ Less(b, a)
    <2> SUFFICES ASSUME a # b
                 PROVE  Less(a, b) \/ Less(b, a)
      OBVIOUS
    <2>1. PICK i \in 1..n : a[i] # b[i] /\ \A j \in 1..(i - 1) : a[j] = b[j]
      BY FirstDifference
    <2>2. a[i] < b[i] \/ b[i] < a[i]
      BY <2>1
    <2> QED
      BY <2>1, <2>2 DEF Less
  <1> QED
    BY <1>1, <1>2, <1>3

\* Candidates are in a strict order that leaves equal ones tied.
LEMMA BeatsIsOrder ==
  ASSUME NEW n \in Nat, NEW a \in Keys(n), NEW b \in Keys(n), NEW c \in Keys(n)
  PROVE  /\ ~Beats(a, a)
         /\ Beats(a, b) /\ Beats(b, c) => Beats(a, c)
         /\ Beats(a, b) \/ a = b \/ Beats(b, a)
PROOF
  <1>1. /\ a.ranks \in [1..n -> Nat] /\ b.ranks \in [1..n -> Nat]
        /\ c.ranks \in [1..n -> Nat]
        /\ a.kind \in Nat /\ b.kind \in Nat /\ c.kind \in Nat
    BY DEF Keys
  <1>2. ~Beats(a, a)
    <2>1. ~Less(a.ranks, a.ranks)
      BY <1>1, LessIsOrder
    <2> QED
      BY <1>1, <2>1 DEF Beats
  <1>3. ASSUME Beats(a, b), Beats(b, c)
        PROVE  Beats(a, c)
    <2>1. Less(a.ranks, b.ranks) /\ Less(b.ranks, c.ranks) => Less(a.ranks, c.ranks)
      BY <1>1, LessIsOrder
    <2> QED
      BY <1>1, <1>3, <2>1 DEF Beats
  <1>4. Beats(a, b) \/ a = b \/ Beats(b, a)
    <2>1. Less(a.ranks, b.ranks) \/ a.ranks = b.ranks \/ Less(b.ranks, a.ranks)
      BY <1>1, LessIsOrder
    <2>2. a.ranks = b.ranks /\ a.kind = b.kind => a = b
      BY DEF Keys
    <2> QED
      BY <1>1, <2>1, <2>2 DEF Beats
  <1> QED
    BY <1>2, <1>3, <1>4

-------------------------------------------------------------------------------
(* The filter *)

\* A candidate is left if there is any: the one that the fewest are better than.
LEMMA OneIsLeft ==
  ASSUME NEW n \in Nat, NEW S, IsFiniteSet(S), S # {}, NEW key \in [S -> Keys(n)]
  PROVE  \E a \in S : \A b \in S : ~Beats(key[b], key[a])
PROOF
  <1> DEFINE Over(a) == {b \in S : Beats(key[b], key[a])}
             Sizes   == {Cardinality(Over(a)) : a \in S}
  <1>1. \A a \in S : IsFiniteSet(Over(a)) /\ Cardinality(Over(a)) \in Nat
    BY FS_Subset, FS_CardinalityType
  <1>2. PICK a \in S : \A b \in S : Cardinality(Over(a)) <= Cardinality(Over(b))
    <2>1. Sizes \subseteq Nat /\ Sizes # {}
      BY <1>1
    <2>2. PICK m \in Sizes : \A i \in Sizes : m <= i
      BY <2>1, LeastNumber
    <2> QED
      BY <2>2
  <1>3. ASSUME NEW b \in S, Beats(key[b], key[a])
        PROVE  FALSE
    <2>1. Over(b) \subseteq Over(a)
      <3> SUFFICES ASSUME NEW c \in S, Beats(key[c], key[b])
                   PROVE  Beats(key[c], key[a])
        OBVIOUS
      <3> QED
        BY <1>3, BeatsIsOrder
    <2>2. b \in Over(a) /\ b \notin Over(b)
      BY <1>3, BeatsIsOrder
    <2>3. Cardinality(Over(b)) < Cardinality(Over(a))
      BY <1>1, <2>1, <2>2, FS_Subset
    <2> QED
      BY <1>1, <1>2, <2>3
  <1> QED
    BY <1>3

\* filterByFuncDeductConv compares each candidate with each other and drops
\* whatever is beaten.  Of any list of candidates it leaves one at least; those
\* it leaves are tied, with equal ranks and of the same kind; and all of them
\* beat all that it drops.  What is called does not depend on the order of the
\* candidates, and a call is ambiguous only between candidates that are tied.
THEOREM FilterKeepsTheBest ==
  ASSUME NEW n \in Nat, NEW S, IsFiniteSet(S), S # {}, NEW key \in [S -> Keys(n)]
  PROVE  LET left == Unbeaten(S, Pairs(S, key)) IN
         /\ left # {}
         /\ \A a, b \in left : key[a] = key[b]
         /\ \A a \in left : \A b \in S \ left : Beats(key[a], key[b])
PROOF
  <1> DEFINE left == Unbeaten(S, Pairs(S, key))
  <1>1. \A b \in S : b \in left <=> \A a \in S : ~Beats(key[a], key[b])
    <2>1. \A a, b \in S : <<a, b>> \in Pairs(S, key) <=> Beats(key[a], key[b])
      BY DEF Pairs
    <2>2. \A a \in S : ~Beats(key[a], key[a])
      BY BeatsIsOrder
    <2> QED
      BY <2>1, <2>2 DEF Unbeaten
  <1>2. left \subseteq S
    BY DEF Unbeaten
  <1>3. left # {}
    BY <1>1, OneIsLeft
  <1>4. \A a, b \in left : key[a] = key[b]
    BY <1>1, <1>2, BeatsIsOrder
  <1>5. ASSUME NEW a \in left, NEW b \in S \ left
        PROVE  Beats(key[a], key[b])
    <2>1. PICK c \in S : Beats(key[c], key[b])
      BY <1>1, <1>5
    <2>2. Beats(key[a], key[c]) \/ key[a] = key[c]
      BY <1>1, <1>2, BeatsIsOrder
    <2> QED
      BY <1>2, <2>1, <2>2, BeatsIsOrder
  <1> QED
    BY <1>3, <1>4, <1>5

-------------------------------------------------------------------------------
(* The order of what is needed *)

USE DEF Exact, Promotion, Standard, Matching

\* A vector of n ranks begins with s of the worst, goes on with p of the next,
\* and ends with the best.
Begins(a, n, s, p) ==
  /\ s \in Nat /\ p \in Nat /\ s + p <= n
  /\ \A i \in 1..n : a[i] = Standard <=> i <= s
  /\ \A i \in 1..n : a[i] = Exact <=> i > s + p

\* Where the ranks are the worst first, how often each occurs tells where it is.
LEMMA CountsTellPlaces ==
  ASSUME NEW n \in Nat, NEW a \in [1..n -> Matching], WorstFirst(a)
  PROVE  Begins(a, n, Count(a, Standard), Count(a, Promotion))
PROOF
  <1> DEFINE S == {i \in 1..n : a[i] = Standard}
             P == {i \in 1..n : a[i] = Promotion}
             C == S \cup P
  <1>1. Count(a, Standard) = Cardinality(S) /\ Count(a, Promotion) = Cardinality(P)
    BY DEF Count
  <1>2. \A i \in 1..n : a[i] \in {Exact, Promotion, Standard}
    OBVIOUS
  <1>3. \A i, j \in 1..n : i <= j => a[i] >= a[j]
    BY DEF WorstFirst
  <1>4. /\ Cardinality(S) \in 0..n /\ S = 1..Cardinality(S)
        /\ IsFiniteSet(S)
    <2>1. S \subseteq 1..n /\ \A i \in S : \A j \in 1..i : j \in S
      BY <1>2, <1>3
    <2> HIDE DEF S
    <2> QED
      BY <2>1, FirstOnes
  <1>5. Cardinality(C) \in 0..n /\ C = 1..Cardinality(C)
    <2>1. C \subseteq 1..n /\ \A i \in C : \A j \in 1..i : j \in C
      BY <1>2, <1>3
    <2> HIDE DEF C
    <2> QED
      BY <2>1, FirstOnes
  <1>6. /\ Cardinality(P) \in Nat
        /\ Cardinality(C) = Cardinality(S) + Cardinality(P)
    <2>1. P \subseteq 1..n /\ IsFiniteSet(1..n)
      BY FS_Interval
    <2>2. IsFiniteSet(P) /\ Cardinality(P) \in Nat
      BY <2>1, FS_Subset, FS_CardinalityType
    <2>3. S \cap P = {}
      OBVIOUS
    <2>4. Cardinality(C) = Cardinality(S) + Cardinality(P) - Cardinality(S \cap P)
      BY <1>4, <2>2, FS_Union
    <2>5. Cardinality(S \cap P) = 0
      BY <2>3, FS_EmptySet
    <2> HIDE DEF S, P, C
    <2> QED
      BY <1>4, <2>2, <2>4, <2>5
  <1>7. ASSUME NEW i \in 1..n
        PROVE  /\ a[i] = Standard <=> i <= Cardinality(S)
               /\ a[i] = Exact <=> i > Cardinality(C)
    <2>1. a[i] = Standard <=> i \in S
      OBVIOUS
    <2>2. a[i] = Exact <=> i \notin C
      BY <1>2
    <2> HIDE DEF S, C
    <2> QED
      BY <1>4, <1>5, <2>1, <2>2
  <1> HIDE DEF S, P, C
  <1> QED
    BY <1>1, <1>4, <1>5, <1>6, <1>7 DEF Begins

\* Of two such vectors the less has less of the worst, or less of the next.
LEMMA LessIsByPlaces ==
  ASSUME NEW n \in Nat, NEW a \in [1..n -> Matching], NEW b \in [1..n -> Matching],
         NEW sa, NEW pa, NEW sb, NEW pb, Begins(a, n, sa, pa), Begins(b, n, sb, pb)
  PROVE  /\ Less(a, b) <=> sa < sb \/ (sa = sb /\ pa < pb)
         /\ sa = sb /\ pa = pb => a = b
PROOF
  <1> SUFFICES ASSUME sa \in Nat, pa \in Nat, sa + pa <= n,
                        sb \in Nat, pb \in Nat, sb + pb <= n,
                        \A i \in 1..n : a[i] = Standard <=> i <= sa,
                        \A i \in 1..n : a[i] = Exact <=> i > sa + pa,
                        \A i \in 1..n : b[i] = Standard <=> i <= sb,
                        \A i \in 1..n : b[i] = Exact <=> i > sb + pb
                 PROVE  /\ Less(a, b) <=> sa < sb \/ (sa = sb /\ pa < pb)
                        /\ sa = sb /\ pa = pb => a = b
    BY DEF Begins
  <1>1. ASSUME Less(a, b)
        PROVE  sa < sb \/ (sa = sb /\ pa < pb)
    <2>1. PICK i \in 1..n : a[i] < b[i] /\ \A j \in 1..(i - 1) : a[j] = b[j]
      BY <1>1 DEF Less
    <2>2. sa < i /\ (b[i] = Standard \/ (a[i] = Exact /\ b[i] # Exact))
      BY <2>1
    <2>3. sa <= sb
      <3>1. CASE sa = 0
        BY <3>1
      <3>2. CASE sa # 0
        <4>1. sa \in 1..(i - 1) /\ sa \in 1..n /\ a[sa] = Standard
          BY <2>2, <3>2
        <4>2. b[sa] = Standard
          BY <2>1, <4>1
        <4> QED
          BY <4>1, <4>2
      <3> QED
        BY <3>1, <3>2
    <2>4. CASE b[i] = Standard
      BY <2>2, <2>4
    <2>5. CASE a[i] = Exact /\ b[i] # Exact
      BY <2>3, <2>5
    <2> QED
      BY <2>2, <2>4, <2>5
  <1>2. ASSUME sa < sb
        PROVE  Less(a, b)
    <2> DEFINE i == sa + 1
    <2>1. i \in 1..n /\ b[i] = Standard /\ a[i] # Standard
      BY <1>2
    <2>2. a[i] < b[i]
      BY <2>1
    <2>3. \A j \in 1..(i - 1) : a[j] = Standard /\ b[j] = Standard
      BY <1>2
    <2> QED
      BY <2>1, <2>2, <2>3 DEF Less
  <1>3. ASSUME sa = sb, pa < pb
        PROVE  Less(a, b)
    <2> DEFINE i == sa + pa + 1
    <2>1. i \in 1..n /\ a[i] = Exact /\ b[i] # Exact
      BY <1>3
    <2>2. a[i] < b[i]
      BY <2>1
    <2>3. ASSUME NEW j \in 1..(i - 1)
          PROVE  a[j] = b[j]
      <3>1. /\ j \in 1..n /\ a[j] # Exact /\ b[j] # Exact
            /\ a[j] = Standard <=> b[j] = Standard
        BY <1>3, <2>1
      <3> QED
        BY <3>1
    <2> QED
      BY <2>1, <2>2, <2>3 DEF Less
  <1>4. ASSUME sa = sb, pa = pb
        PROVE  a = b
    <2> SUFFICES ASSUME NEW i \in 1..n
                 PROVE  a[i] = b[i]
      OBVIOUS
    <2>1. /\ a[i] = Standard <=> b[i] = Standard
          /\ a[i] = Exact <=> b[i] = Exact
      BY <1>4
    <2> QED
      BY <2>1
  <1> QED
    BY <1>1, <1>2, <1>3, <1>4

\* The vectors are compared by how often they have the worst rank, and then the
\* next one.
LEMMA LessIsByCount ==
  ASSUME NEW n \in Nat,
         NEW a \in [1..n -> Matching], WorstFirst(a),
         NEW b \in [1..n -> Matching], WorstFirst(b)
  PROVE  /\ Less(a, b) <=>
              \/ Count(a, Standard) < Count(b, Standard)
              \/ /\ Count(a, Standard) = Count(b, Standard)
                 /\ Count(a, Promotion) < Count(b, Promotion)
         /\ a = b <=> /\ Count(a, Standard) = Count(b, Standard)
                      /\ Count(a, Promotion) = Count(b, Promotion)
PROOF
  BY CountsTellPlaces, LessIsByPlaces

\* isConversionBetterThan sorts the ranks and compares them as vectors.  That is
\* to prefer the fewest standard conversions, then the fewest promotions, then a
\* function to a specialization and that to a template: for any number of
\* arguments, and any ranks short of a mismatch.
THEOREM RankingIsByNeed ==
  ASSUME NEW n \in Nat,
         NEW a \in [ranks : [1..n -> Matching], kind : Nat],
         NEW b \in [ranks : [1..n -> Matching], kind : Nat],
         WorstFirst(a.ranks), WorstFirst(b.ranks)
  PROVE  Beats(a, b) <=> NeedsLess(Needed(a.ranks, a.kind), Needed(b.ranks, b.kind))
PROOF
  <1> DEFINE x == Needed(a.ranks, a.kind)
             y == Needed(b.ranks, b.kind)
  <1>1. /\ x[1] = Count(a.ranks, Standard) /\ x[2] = Count(a.ranks, Promotion)
        /\ x[3] = a.kind
        /\ y[1] = Count(b.ranks, Standard) /\ y[2] = Count(b.ranks, Promotion)
        /\ y[3] = b.kind
    BY DEF Needed
  <1> HIDE DEF x, y
  <1>2. NeedsLess(x, y) <=> \/ x[1] < y[1]
                            \/ x[1] = y[1] /\ x[2] < y[2]
                            \/ x[1] = y[1] /\ x[2] = y[2] /\ x[3] < y[3]
    BY DEF NeedsLess
  <1>3. Less(a.ranks, b.ranks) <=> x[1] < y[1] \/ (x[1] = y[1] /\ x[2] < y[2])
    BY <1>1, LessIsByCount
  <1>4. a.ranks = b.ranks <=> x[1] = y[1] /\ x[2] = y[2]
    BY <1>1, LessIsByCount
  <1>5. Beats(a, b) <=> NeedsLess(x, y)
    BY <1>1, <1>2, <1>3, <1>4 DEF Beats
  <1> QED
    BY <1>5 DEF x, y

-------------------------------------------------------------------------------
(* The three filters for callees *)

\* What converts a candidate needs, and whether two need the same.
LEMMA SameNeed ==
  ASSUME NEW n \in Nat,
         NEW a \in [ranks : [1..n -> Matching], kind : Nat],
         NEW b \in [ranks : [1..n -> Matching], kind : Nat],
         WorstFirst(a.ranks), WorstFirst(b.ranks)
  PROVE  a = b <=> Needed(a.ranks, a.kind) = Needed(b.ranks, b.kind)
PROOF
  <1>1. a = b <=> a.ranks = b.ranks /\ a.kind = b.kind
    OBVIOUS
  <1>2. a.ranks = b.ranks <=> /\ Count(a.ranks, Standard) = Count(b.ranks, Standard)
                              /\ Count(a.ranks, Promotion) = Count(b.ranks, Promotion)
    BY LessIsByCount
  <1> QED
    BY <1>1, <1>2 DEF Needed

\* Of finitely many things, each of which may be under others, one is under
\* none: the one that is under the fewest.
LEMMA OneIsOnTop ==
  ASSUME NEW S, IsFiniteSet(S), S # {}, NEW over \in [S -> SUBSET S],
         \A a \in S : a \notin over[a],
         \A a, b \in S : b \in over[a] => over[b] \subseteq over[a]
  PROVE  \E a \in S : over[a] = {}
PROOF
  <1> DEFINE Sizes == {Cardinality(over[a]) : a \in S}
  <1>1. \A a \in S : IsFiniteSet(over[a]) /\ Cardinality(over[a]) \in Nat
    BY FS_Subset, FS_CardinalityType
  <1>2. PICK a \in S : \A b \in S : Cardinality(over[a]) <= Cardinality(over[b])
    <2>1. Sizes \subseteq Nat /\ Sizes # {}
      BY <1>1
    <2>2. PICK m \in Sizes : \A i \in Sizes : m <= i
      BY <2>1, LeastNumber
    <2> QED
      BY <2>2
  <1>3. ASSUME NEW b \in over[a]
        PROVE  FALSE
    <2>1. b \in S /\ over[b] \subseteq over[a] /\ b \notin over[b]
      BY <1>3
    <2>2. Cardinality(over[b]) < Cardinality(over[a])
      <3>1. over[b] # over[a]
        BY <1>3, <2>1
      <3>2. IsFiniteSet(over[a])
        BY <1>1
      <3>3. over[b] \in SUBSET over[a]
        BY <2>1
      <3>4. Cardinality(over[b]) <= Cardinality(over[a])
        BY <3>2, <3>3, FS_Subset
      <3>5. Cardinality(over[a]) # Cardinality(over[b])
        BY <3>1, <3>2, <3>3, FS_Subset
      <3>6. Cardinality(over[a]) \in Nat /\ Cardinality(over[b]) \in Nat
        BY <1>1, <2>1
      <3> QED
        BY <3>4, <3>5, <3>6
    <2> QED
      BY <1>1, <1>2, <2>1, <2>2
  <1> QED
    BY <1>3

\* filterByScope and the filter by the number of typenames look only at what the
\* filters before them have left.  The callee is nevertheless the candidate that
\* is preferred among all, if there is one, since what has been dropped would not
\* hide or outdo another; and some candidate is left for the last filter, so that
\* a call is ambiguous only between equals.  This takes a relation by which no
\* candidate hides itself, nor those that hide it: methods of one class that need
\* the same are left out.
THEOREM CalleeIsPreferred ==
  ASSUME NEW n \in Nat, NEW S, IsFiniteSet(S),
         NEW key \in [S -> [ranks : [1..n -> Matching], kind : Nat]],
         \A a \in S : WorstFirst(key[a].ranks),
         NEW closer \in SUBSET (S \X S),
         \A a \in S : <<a, a>> \notin closer,
         \A a, b, c \in S : <<a, b>> \in closer /\ <<b, c>> \in closer
                              => <<a, c>> \in closer,
         NEW size \in [S -> Nat]
  PROVE  LET conv == Unbeaten(S, Pairs(S, key))
             need == [a \in S |-> Needed(key[a].ranks, key[a].kind)]
             scope == Unbeaten(conv, closer)
         IN /\ S # {} => scope # {}
            /\ \A a \in S : Least(scope, size) = {a}
                            <=> a \in Preferred(S, need, closer, size)
PROOF
  <1> DEFINE conv  == Unbeaten(S, Pairs(S, key))
             scope == Unbeaten(conv, closer)
             need  == [a \in S |-> Needed(key[a].ranks, key[a].kind)]
  <1>1. key \in [S -> Keys(n)]
    <2>1. Matching \subseteq Nat
      BY DEF Matching, Exact, Promotion, Standard
    <2>2. ASSUME NEW f \in [1..n -> Matching]
          PROVE  f \in [1..n -> Nat]
      <3>1. f = [i \in 1..n |-> f[i]]
        BY <2>2
      <3>2. \A i \in 1..n : f[i] \in Nat
        BY <2>1, <2>2
      <3> QED
        BY <3>1, <3>2
    <2>3. [ranks : [1..n -> Matching], kind : Nat] \subseteq Keys(n)
      BY <2>2 DEF Keys
    <2> QED
      BY <2>3
  <1>2. \A a, b \in S : need[a] = need[b] <=> key[a] = key[b]
    BY SameNeed
  <1>3. \A a, b \in S : NeedsLess(need[a], need[b]) <=> Beats(key[a], key[b])
    BY RankingIsByNeed
  <1>4. /\ conv \subseteq S
        /\ S # {} => conv # {}
        /\ \A a, b \in conv : key[a] = key[b]
        /\ \A a \in conv : \A b \in S \ conv : Beats(key[a], key[b])
    <2>1. conv \subseteq S
      BY DEF Unbeaten
    <2>2. CASE S = {}
      BY <2>1, <2>2
    <2>3. CASE S # {}
      <3>1. LET left == Unbeaten(S, Pairs(S, key)) IN
            /\ left # {}
            /\ \A a, b \in left : key[a] = key[b]
            /\ \A a \in left : \A b \in S \ left : Beats(key[a], key[b])
        BY <1>1, <2>3, FilterKeepsTheBest
      <3>2. /\ conv # {}
            /\ \A a, b \in conv : key[a] = key[b]
            /\ \A a \in conv : \A b \in S \ conv : Beats(key[a], key[b])
        BY <3>1
      <3> QED
        BY <2>1, <3>2
    <2> QED
      BY <2>2, <2>3
  <1>5. \A a, b \in S : a \in conv /\ key[a] = key[b] => b \in conv
    BY <1>1, <1>4, BeatsIsOrder
  <1> HIDE DEF conv
  <1>6. \A b \in S : b \in scope <=> b \in conv /\ ~Hidden(S, need, closer, b)
    <2>1. \A b \in conv : b \in scope <=> \A c \in conv : <<c, b>> \notin closer
      BY <1>4 DEF Unbeaten
    <2>2. scope \subseteq conv
      BY DEF Unbeaten
    <2>3. \A b \in conv : Hidden(S, need, closer, b)
                            <=> \E c \in conv : <<c, b>> \in closer
      BY <1>2, <1>4, <1>5 DEF Hidden
    <2> QED
      BY <2>1, <2>2, <2>3
  <1>7. scope \subseteq S
    BY <1>4 DEF Unbeaten
  <1>8. S # {} => scope # {}
    <2> SUFFICES ASSUME S # {} PROVE scope # {}
      OBVIOUS
    <2> DEFINE over == [b \in conv |-> {c \in conv : <<c, b>> \in closer}]
    <2>1. \A a, b \in conv : b \in over[a] <=> <<b, a>> \in closer
      OBVIOUS
    <2>2. over \in [conv -> SUBSET conv]
      OBVIOUS
    <2> HIDE DEF over
    <2>3. IsFiniteSet(conv) /\ conv # {}
      BY <1>4, FS_Subset
    <2>4. \A a \in conv : a \notin over[a]
      BY <1>4, <2>1
    <2>5. \A a, b \in conv : b \in over[a] => over[b] \subseteq over[a]
      BY <1>4, <2>1, <2>2
    <2>6. PICK a \in conv : over[a] = {}
      BY <2>2, <2>3, <2>4, <2>5, OneIsOnTop
    <2>7. a \in scope
      BY <2>1, <2>6 DEF Unbeaten
    <2> QED
      BY <2>7
  <1> HIDE DEF scope, need
  <1>9. ASSUME NEW a \in S, Least(scope, size) = {a}
        PROVE  a \in Preferred(S, need, closer, size)
    <2>1. a \in scope /\ \A b \in scope : size[a] <= size[b]
      BY <1>9 DEF Least
    <2>2. \A b \in scope \ {a} : size[a] < size[b]
      <3> SUFFICES ASSUME NEW b \in scope \ {a}, size[a] = size[b] PROVE FALSE
        BY <1>7, <2>1
      <3>1. b \in Least(scope, size)
        BY <2>1 DEF Least
      <3> QED
        BY <1>9, <3>1
    <2>3. a \in conv /\ ~Hidden(S, need, closer, a)
      BY <1>6, <2>1
    <2>4. ASSUME NEW b \in S \ {a}
          PROVE  \/ NeedsLess(need[a], need[b])
                 \/ Hidden(S, need, closer, b)
                 \/ need[a] = need[b] /\ size[a] < size[b]
      <3>1. CASE b \notin conv
        BY <1>3, <1>4, <2>3, <3>1
      <3>2. CASE b \in conv
        BY <1>2, <1>4, <1>6, <2>2, <2>3, <3>2
      <3> QED
        BY <3>1, <3>2
    <2> QED
      BY <2>3, <2>4 DEF Preferred
  <1>10. ASSUME NEW a \in S, a \in Preferred(S, need, closer, size)
        PROVE  Least(scope, size) = {a}
    <2>1. ~Hidden(S, need, closer, a)
      BY <1>10 DEF Preferred
    <2>2. ASSUME NEW b \in S \ {a}
          PROVE  \/ NeedsLess(need[a], need[b])
                 \/ Hidden(S, need, closer, b)
                 \/ need[a] = need[b] /\ size[a] < size[b]
      BY <1>10 DEF Preferred
    <2>3. PICK d \in S : d \in scope
      BY <1>8, <1>7
    <2>4. d \in conv /\ ~Hidden(S, need, closer, d)
      BY <1>6, <2>3
    <2>5. ~Beats(key[a], key[d])
      <3>1. ASSUME Beats(key[a], key[d]) PROVE FALSE
        <4>1. CASE a \in conv
          BY <1>1, <1>4, <2>4, <3>1, <4>1, BeatsIsOrder
        <4>2. CASE a \notin conv
          BY <1>1, <1>4, <2>4, <3>1, <4>2, BeatsIsOrder
        <4> QED
          BY <4>1, <4>2
      <3> QED
        BY <3>1
    <2>6. a = d \/ need[a] = need[d]
      BY <1>3, <2>2, <2>4, <2>5
    <2>7. a \in scope
      BY <1>2, <1>5, <1>6, <2>1, <2>4, <2>6
    <2>8. ASSUME NEW b \in scope, b # a
          PROVE  b \in S /\ size[a] < size[b]
      <3>1. b \in S /\ a \in conv /\ b \in conv /\ ~Hidden(S, need, closer, b)
        BY <1>4, <1>6, <2>7, <2>8 DEF Unbeaten, scope
      <3>2. ~NeedsLess(need[a], need[b])
        BY <1>1, <1>3, <1>4, <3>1, BeatsIsOrder
      <3> QED
        BY <2>2, <2>8, <3>1, <3>2
    <2>9. \A b \in scope : size[a] <= size[b] /\ (b # a => ~(size[b] <= size[a]))
      BY <2>8
    <2> QED
      BY <2>7, <2>9 DEF Least
  <1> QED
    BY <1>8, <1>9, <1>10 DEF scope, conv, need
===============================================================================
