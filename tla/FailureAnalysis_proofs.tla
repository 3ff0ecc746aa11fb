------------------------ MODULE FailureAnalysis_proofs ------------------------
(***************************************************************************)
(* What a failure analysis is, for every set of inputs, job lists, logs,   *)
(* changes, signals and budgets the schemas let through.                   *)
(***************************************************************************)
EXTENDS FailureAnalysis, TLAPS, FiniteSetTheorems, SequenceTheorems, WellFoundedInduction

-----------------------------------------------------------------------------
(* Numbers *)

LEMMA LeastOf ==
    ASSUME NEW a \in Int, NEW b \in Int
    PROVE  /\ Least(a, b) \in {a, b}
           /\ Least(a, b) = IF a <= b THEN a ELSE b
<1> DEFINE P(x) == \A y \in {a, b} : x <= y
<1>1. \E x \in {a, b} : P(x)
  OBVIOUS
<1>2. Least(a, b) = CHOOSE x \in {a, b} : P(x)
  BY DEF Least, Min
<1>3. Least(a, b) \in {a, b} /\ P(Least(a, b))
  BY <1>1, <1>2, Zenon
<1> QED
  BY <1>3

LEMMA LeastOfThree ==
    ASSUME NEW a \in Int, NEW b \in Int, NEW c \in Int
    PROVE  /\ Min({a, b, c}) \in {a, b, c}
           /\ Min({a, b, c}) <= a /\ Min({a, b, c}) <= b /\ Min({a, b, c}) <= c
<1> DEFINE P(x) == \A y \in {a, b, c} : x <= y
<1>1. \E x \in {a, b, c} : P(x)
  <2>1. CASE a <= b /\ a <= c
    BY <2>1
  <2>2. CASE b <= a /\ b <= c
    BY <2>2
  <2>3. CASE c <= a /\ c <= b
    BY <2>3
  <2> QED
    BY <2>1, <2>2, <2>3
<1>2. Min({a, b, c}) = CHOOSE x \in {a, b, c} : P(x)
  BY DEF Min
<1>3. Min({a, b, c}) \in {a, b, c} /\ P(Min({a, b, c}))
  BY <1>1, <1>2, Zenon
<1> QED
  BY <1>3

LEMMA RestOf ==
    ASSUME NEW limit \in Int, NEW used \in Int
    PROVE  /\ Rest(limit, used) \in Nat
           /\ Rest(limit, used) = IF used <= limit THEN limit - used ELSE 0
<1> DEFINE r == limit - used
           P(x) == \A y \in {0, r} : x >= y
<1>1. \E x \in {0, r} : P(x)
  OBVIOUS
<1>2. Rest(limit, used) = CHOOSE x \in {0, r} : P(x)
  BY DEF Rest, Max
<1>3. Rest(limit, used) \in {0, r} /\ P(Rest(limit, used))
  BY <1>1, <1>2, Zenon
<1> QED
  BY <1>3

(* Every set of naturals that is not empty has a least element: what takes *)
(* the place of induction below.                                           *)
LEMMA LeastNumber ==
    ASSUME NEW T, T \subseteq Nat, T # {}
    PROVE  \E n \in T : \A m \in T : n <= m
<1> DEFINE F == {0..n : n \in T}
<1>1. F \subseteq FiniteSubsetsOf(Nat)
  <2> SUFFICES ASSUME NEW n \in T PROVE 0..n \in FiniteSubsetsOf(Nat)
    OBVIOUS
  <2>1. IsFiniteSet(0..n)
    BY FS_Interval
  <2> QED
    BY <2>1 DEF FiniteSubsetsOf
<1>2. F # {}
  OBVIOUS
<1> HIDE DEF F
<1>3. \E x \in F : \A y \in F : <<y, x>> \notin StrictSubsetOrdering(Nat)
  BY <1>1, <1>2, FS_StrictSubsetOrderingWellFounded, WFMin
<1> USE DEF F
<1>4. PICK n \in T : \A y \in F : <<y, 0..n>> \notin StrictSubsetOrdering(Nat)
  BY <1>3
<1>5. ASSUME NEW m \in T, m < n
      PROVE  FALSE
  <2>1. 0..m \subseteq 0..n /\ n \in 0..n /\ n \notin 0..m
    BY <1>5
  <2>2. <<0..m, 0..n>> \in StrictSubsetOrdering(Nat)
    BY <2>1 DEF StrictSubsetOrdering
  <2> QED
    BY <1>4, <2>2
<1> QED
  BY <1>5

-----------------------------------------------------------------------------
(* filter and sort *)

(* The ranks of the places are the numbers below their count, each once.   *)
LEMMA RanksAreDistinct ==
    ASSUME NEW places, places \subseteq Nat, IsFiniteSet(places),
           NEW key, \A i \in places : key[i] \in Int
    PROVE  /\ \A i \in places : Rank(places, key, i) \in 0..(Cardinality(places) - 1)
           /\ \A i, j \in places :
                 Rank(places, key, i) = Rank(places, key, j) => i = j
<1> DEFINE Below(i) ==
             {j \in places : key[j] < key[i] \/ (key[j] = key[i] /\ j < i)}
<1>1. Cardinality(places) \in Nat
  BY FS_CardinalityType
<1>2. ASSUME NEW i \in places
      PROVE  /\ IsFiniteSet(Below(i))
             /\ Cardinality(Below(i)) \in Nat
             /\ Rank(places, key, i) = Cardinality(Below(i))
  <2>1. Below(i) \in SUBSET places
    OBVIOUS
  <2>2. IsFiniteSet(Below(i))
    BY <2>1, FS_Subset
  <2> QED
    BY <2>2, FS_CardinalityType DEF Rank
<1>3. ASSUME NEW i \in places
      PROVE  Cardinality(Below(i)) < Cardinality(places)
  <2>1. Below(i) \in SUBSET places /\ i \notin Below(i)
    OBVIOUS
  <2> HIDE DEF Below
  <2> QED
    BY <1>1, <1>2, <2>1, FS_Subset
<1>4. ASSUME NEW i \in places, NEW j \in places,
             key[i] < key[j] \/ (key[i] = key[j] /\ i < j)
      PROVE  Cardinality(Below(i)) < Cardinality(Below(j))
  <2>1. Below(i) \in SUBSET Below(j)
    <3> SUFFICES ASSUME NEW m \in Below(i) PROVE m \in Below(j)
      OBVIOUS
    <3>1. key[m] \in Int /\ key[i] \in Int /\ key[j] \in Int /\ m \in Int /\ i \in Int /\ j \in Int
      OBVIOUS
    <3>2. key[m] < key[j] \/ (key[m] = key[j] /\ m < j)
      BY <1>4, <3>1
    <3> QED
      BY <3>2
  <2>2. i \in Below(j) /\ i \notin Below(i)
    BY <1>4
  <2> HIDE DEF Below
  <2> QED
    BY <1>2, <2>1, <2>2, FS_Subset
<1>5. ASSUME NEW i \in places, NEW j \in places,
             Rank(places, key, i) = Rank(places, key, j)
      PROVE  i = j
  <2>1. Cardinality(Below(i)) = Cardinality(Below(j))
    BY <1>2, <1>5
  <2>2. i = j \/ (key[i] < key[j] \/ (key[i] = key[j] /\ i < j))
        \/ (key[j] < key[i] \/ (key[j] = key[i] /\ j < i))
    OBVIOUS
  <2> HIDE DEF Below
  <2> QED
    BY <1>2, <1>4, <2>1, <2>2
<1> HIDE DEF Below
<1> QED
  BY <1>1, <1>2, <1>3, <1>5

(* The n-th entry that is sorted comes from the p[n]-th place. *)
ComesFrom(p, s, places, key) ==
    SortedAt(s, places, key) = [n \in 1..Cardinality(places) |-> s[p[n]]]

(* What SortedAt gives is the entries at those places, each once.          *)
LEMMA SortedAtArranges ==
    ASSUME NEW s, NEW places, places \subseteq Nat, IsFiniteSet(places),
           NEW key, \A i \in places : key[i] \in Int
    PROVE  \E p \in Bijection(1..Cardinality(places), places) :
              ComesFrom(p, s, places, key)
<1> DEFINE k == Cardinality(places)
           rank == [i \in places |-> Rank(places, key, i)]
           At(n) == CHOOSE i \in places : Rank(places, key, i) = n - 1
           p == [n \in 1..k |-> At(n)]
<1>1. k \in Nat
  BY FS_CardinalityType
<1>2. rank \in Injection(places, 0..(k - 1))
  <2>1. /\ \A i \in places : rank[i] \in 0..(k - 1)
        /\ \A i, j \in places : rank[i] = rank[j] => i = j
    BY RanksAreDistinct
  <2>2. DOMAIN rank = places
    OBVIOUS
  <2> HIDE DEF rank, k
  <2> QED
    BY <2>1, <2>2 DEF Injection, IsInjective, rank
<1>3. IsFiniteSet(0..(k - 1)) /\ Cardinality(0..(k - 1)) = k
  <2>1. k - 1 \in Int /\ 0 \in Int
    BY <1>1
  <2> HIDE DEF k
  <2> QED
    BY <1>1, <2>1, FS_Interval
<1>4. rank \in Surjection(places, 0..(k - 1))
  <2> HIDE DEF rank, k
  <2> QED
    BY <1>2, <1>3, FS_Injection DEF k
<1>5. ASSUME NEW n \in 1..k
      PROVE  At(n) \in places /\ Rank(places, key, At(n)) = n - 1
  <2>1. n - 1 \in 0..(k - 1)
    BY <1>1
  <2>2. \E i \in places : rank[i] = n - 1
    BY <1>4, <2>1 DEF Surjection
  <2> QED
    BY <2>2
<1>6. p \in Injection(1..k, places)
  BY <1>1, <1>5 DEF Injection, IsInjective
<1>7. ASSUME NEW i \in places
      PROVE  \E n \in 1..k : p[n] = i
  <2>1. rank[i] \in 0..(k - 1)
    BY <1>2 DEF Injection
  <2>2. PICK n \in 1..k : n - 1 = rank[i]
    <3>1. rank[i] + 1 \in 1..k /\ (rank[i] + 1) - 1 = rank[i]
      BY <1>1, <2>1
    <3> QED
      BY <3>1
  <2>3. Rank(places, key, At(n)) = Rank(places, key, i) /\ At(n) \in places
    BY <1>5, <2>2
  <2>4. At(n) = i
    BY <2>3, RanksAreDistinct
  <2> QED
    BY <2>4
<1>8. p \in Bijection(1..k, places)
  BY <1>6, <1>7 DEF Bijection, Surjection, Injection
<1>9. ComesFrom(p, s, places, key)
  BY DEF SortedAt, ComesFrom
<1> QED
  BY <1>8, <1>9

-----------------------------------------------------------------------------
(* Sums *)

(* f[n] is the sum of the first n entries of s. *)
SumsOf(f, s, k) == f[0] = 0 /\ \A n \in 1..k : f[n] = f[n - 1] + s[n]

LEMMA SumsExist ==
    ASSUME NEW s, NEW k \in Nat, \A n \in 1..k : s[n] \in Int
    PROVE  \E f \in [0..k -> Int] : SumsOf(f, s, k)
<1> DEFINE Good(n) == \E f \in [0..n -> Int] : SumsOf(f, s, n)
           T == {n \in 0..k : ~Good(n)}
<1>1. SUFFICES T = {}
  <2>1. k \in 0..k
    OBVIOUS
  <2> QED
    BY <1>1, <2>1
<1>2. SUFFICES ASSUME T # {} PROVE FALSE
  OBVIOUS
<1>3. PICK n \in T : \A m \in T : n <= m
  <2>1. T \subseteq Nat
    OBVIOUS
  <2> HIDE DEF T
  <2> QED
    BY <1>2, <2>1, LeastNumber
<1>4. Good(0)
  <2>1. [m \in 0..0 |-> 0] \in [0..0 -> Int]
    OBVIOUS
  <2>2. SumsOf([m \in 0..0 |-> 0], s, 0)
    BY DEF SumsOf
  <2> QED
    BY <2>1, <2>2
<1> HIDE DEF Good
<1>5. n \in 1..k /\ n - 1 \in 0..k /\ n - 1 \notin T
  <2>1. n \in 0..k /\ ~Good(n)
    OBVIOUS
  <2>2. n # 0
    BY <2>1, <1>4
  <2> QED
    BY <1>3, <2>1, <2>2
<1> USE DEF Good
<1>6. PICK f \in [0..(n - 1) -> Int] : SumsOf(f, s, n - 1)
  BY <1>5
<1> DEFINE g == [m \in 0..n |-> IF m = n THEN f[n - 1] + s[n] ELSE f[m]]
<1>7. g \in [0..n -> Int]
  <2> SUFFICES ASSUME NEW m \in 0..n PROVE g[m] \in Int
    OBVIOUS
  <2>1. CASE m = n
    BY <2>1, <1>5
  <2>2. CASE m # n
    <3>1. m \in 0..(n - 1)
      BY <2>2, <1>5
    <3> QED
      BY <3>1, <2>2
  <2> QED
    BY <2>1, <2>2
<1>8. SumsOf(g, s, n)
  <2>1. g[0] = 0
    BY <1>5, <1>6 DEF SumsOf
  <2>2. ASSUME NEW m \in 1..n PROVE g[m] = g[m - 1] + s[m]
    <3>1. CASE m = n
      BY <3>1, <1>5
    <3>2. CASE m # n
      <4>1. m \in 1..(n - 1) /\ m - 1 \in 0..n /\ m - 1 # n /\ m \in 0..n
        BY <3>2, <1>5
      <4>2. f[m] = f[m - 1] + s[m]
        BY <4>1, <1>6 DEF SumsOf
      <4> QED
        BY <4>1, <4>2, <3>2
    <3> QED
      BY <3>1, <3>2
  <2> HIDE DEF g
  <2> QED
    BY <2>1, <2>2 DEF SumsOf
<1>9. Good(n)
  BY <1>7, <1>8
<1> QED
  BY <1>3, <1>9

LEMMA SumsAreUnique ==
    ASSUME NEW s, NEW k \in Nat, NEW f, NEW g, SumsOf(f, s, k), SumsOf(g, s, k)
    PROVE  \A n \in 0..k : f[n] = g[n]
<1> DEFINE T == {n \in 0..k : f[n] # g[n]}
<1>1. SUFFICES ASSUME T # {} PROVE FALSE
  OBVIOUS
<1>2. PICK n \in T : \A m \in T : n <= m
  <2>1. T \subseteq Nat
    OBVIOUS
  <2> HIDE DEF T
  <2> QED
    BY <1>1, <2>1, LeastNumber
<1>3. n # 0
  BY DEF SumsOf
<1>4. n \in 1..k /\ n - 1 \in 0..k /\ n - 1 \notin T
  BY <1>2, <1>3
<1>5. f[n] = f[n - 1] + s[n] /\ g[n] = g[n - 1] + s[n] /\ f[n - 1] = g[n - 1]
  BY <1>4 DEF SumsOf
<1> QED
  BY <1>5

(* Any function with these sums gives the total. *)
LEMMA TotalIsTheSum ==
    ASSUME NEW s, Len(s) \in Nat, \A n \in 1..Len(s) : s[n] \in Int,
           NEW f, SumsOf(f, s, Len(s))
    PROVE  Total(s) = f[Len(s)]
<1> DEFINE k == Len(s)
           IsSum(g) == g = [n \in 0..k |-> IF n = 0 THEN 0 ELSE g[n - 1] + s[n]]
           h == CHOOSE g : IsSum(g)
<1>1. PICK e \in [0..k -> Int] : SumsOf(e, s, k)
  BY SumsExist
<1>2. IsSum(e)
  <2>1. ASSUME NEW n \in 0..k
        PROVE  e[n] = IF n = 0 THEN 0 ELSE e[n - 1] + s[n]
    <3>1. CASE n = 0
      BY <3>1, <1>1 DEF SumsOf
    <3>2. CASE n # 0
      <4>1. n \in 1..k
        BY <3>2
      <4> QED
        BY <4>1, <3>2, <1>1 DEF SumsOf
    <3> QED
      BY <3>1, <3>2
  <2> QED
    BY <2>1, <1>1
<1>3. IsSum(h)
  <2> HIDE DEF IsSum
  <2> QED
    BY <1>2
<1>4. SumsOf(h, s, k)
  <2>1. \A n \in 0..k : h[n] = IF n = 0 THEN 0 ELSE h[n - 1] + s[n]
    <3> HIDE DEF h
    <3> QED
      BY <1>3
  <2>2. 0 \in 0..k /\ \A n \in 1..k : n \in 0..k /\ n # 0
    OBVIOUS
  <2> HIDE DEF h
  <2> QED
    BY <2>1, <2>2 DEF SumsOf
<1>5. Total(s) = h[k]
  BY DEF Total
<1>6. k \in 0..k
  OBVIOUS
<1> HIDE DEF h
<1> QED
  BY <1>4, <1>5, <1>6, SumsAreUnique

LEMMA TotalsOfPrefixes ==
    ASSUME NEW s \in Seq(Int)
    PROVE  \E f \in [0..Len(s) -> Int] :
              /\ SumsOf(f, s, Len(s))
              /\ \A n \in 0..Len(s) : Total(SubSeq(s, 1, n)) = f[n]
              /\ Total(s) = f[Len(s)]
<1>1. Len(s) \in Nat /\ \A n \in 1..Len(s) : s[n] \in Int
  OBVIOUS
<1>2. PICK f \in [0..Len(s) -> Int] : SumsOf(f, s, Len(s))
  BY <1>1, SumsExist
<1>3. Total(s) = f[Len(s)]
  BY <1>1, <1>2, TotalIsTheSum
<1>4. ASSUME NEW n \in 0..Len(s) PROVE Total(SubSeq(s, 1, n)) = f[n]
  <2> DEFINE t == SubSeq(s, 1, n)
  <2>1. Len(t) = n /\ n \in Nat /\ \A m \in 1..n : t[m] = s[m] /\ m \in 1..Len(s)
    BY <1>1
  <2> HIDE DEF t
  <2>2. SumsOf(f, t, n)
    BY <1>2, <2>1 DEF SumsOf
  <2>3. \A m \in 1..n : t[m] \in Int
    BY <1>1, <2>1
  <2> QED
    BY <2>1, <2>2, <2>3, TotalIsTheSum DEF t
<1> QED
  BY <1>2, <1>3, <1>4

LEMMA TotalOfNone == Total(<<>>) = 0
<1>1. <<>> \in Seq(Int) /\ Len(<<>>) = 0
  OBVIOUS
<1>2. PICK f \in [0..0 -> Int] : SumsOf(f, <<>>, 0) /\ Total(<<>>) = f[0]
  BY <1>1, TotalsOfPrefixes
<1> QED
  BY <1>2 DEF SumsOf

LEMMA TotalOfLast ==
    ASSUME NEW s \in Seq(Int), s # <<>>
    PROVE  /\ Total(s) = Total(SubSeq(s, 1, Len(s) - 1)) + s[Len(s)]
           /\ Total(SubSeq(s, 1, Len(s) - 1)) \in Int
<1>1. PICK f \in [0..Len(s) -> Int] :
              /\ SumsOf(f, s, Len(s))
              /\ \A n \in 0..Len(s) : Total(SubSeq(s, 1, n)) = f[n]
              /\ Total(s) = f[Len(s)]
  BY TotalsOfPrefixes
<1>2. Len(s) \in Nat /\ Len(s) \in 1..Len(s) /\ Len(s) - 1 \in 0..Len(s)
  OBVIOUS
<1>3. f[Len(s)] = f[Len(s) - 1] + s[Len(s)]
  BY <1>1, <1>2 DEF SumsOf
<1> QED
  BY <1>1, <1>2, <1>3

LEMMA TotalOfInts ==
    ASSUME NEW s \in Seq(Int) PROVE Total(s) \in Int
BY TotalsOfPrefixes

LEMMA TotalOfAppend ==
    ASSUME NEW s \in Seq(Int), NEW x \in Int
    PROVE  Total(Append(s, x)) = Total(s) + x
<1> DEFINE t == Append(s, x)
<1>1. t \in Seq(Int) /\ t # <<>> /\ Len(t) = Len(s) + 1 /\ t[Len(s) + 1] = x
  OBVIOUS
<1>2. SubSeq(t, 1, Len(t) - 1) = s
  BY HeadTailAppend, AppendProperties
<1> HIDE DEF t
<1> QED
  BY <1>1, <1>2, TotalOfLast DEF t

(* A sum of naturals is none less than any sum of its first entries.       *)
LEMMA TotalOfNats ==
    ASSUME NEW s \in Seq(Nat) PROVE Total(s) \in Nat
<1>1. s \in Seq(Int) /\ Len(s) \in Nat /\ \A n \in 1..Len(s) : s[n] \in Nat
  OBVIOUS
<1>2. PICK f \in [0..Len(s) -> Int] : SumsOf(f, s, Len(s)) /\ Total(s) = f[Len(s)]
  BY <1>1, TotalsOfPrefixes
<1> DEFINE T == {n \in 0..Len(s) : f[n] < 0}
<1>3. ASSUME T # {} PROVE FALSE
  <2>1. T \subseteq Nat
    OBVIOUS
  <2> HIDE DEF T
  <2>2. PICK n \in T : \A m \in T : n <= m
    BY <1>3, <2>1, LeastNumber
  <2> USE DEF T
  <2>3. n \in 0..Len(s) /\ f[n] < 0 /\ n # 0
    BY <1>2 DEF SumsOf
  <2>4. n \in 1..Len(s) /\ n - 1 \in 0..Len(s) /\ ~(n <= n - 1)
    BY <1>1, <2>3
  <2>5. f[n] = f[n - 1] + s[n] /\ s[n] \in Nat /\ f[n - 1] \in Int
    BY <1>1, <1>2, <2>4 DEF SumsOf
  <2>6. f[n - 1] < 0
    BY <2>3, <2>5
  <2>7. n - 1 \in T
    BY <2>4, <2>6
  <2> HIDE DEF T
  <2> QED
    BY <2>2, <2>4, <2>7
<1>4. Len(s) \in 0..Len(s) /\ f[Len(s)] \in Int
  BY <1>1
<1> QED
  BY <1>2, <1>3, <1>4

LEMMA BeforeIsAPrefix ==
    ASSUME NEW s \in Seq(Int), NEW i \in 1..Len(s)
    PROVE  Before(s, i) = Total(SubSeq(s, 1, i - 1))
<1>1. Len(s) \in Nat /\ i - 1 \in Int /\ i - 1 <= Len(s)
  OBVIOUS
<1>2. Least(i - 1, Len(s)) = i - 1
  BY <1>1, LeastOf
<1> QED
  BY <1>2 DEF Before, Take

(* Each entry of t is what is left for that of s, when P is used already.  *)
SharesOf(t, s, M, P) ==
    \A k \in 1..Len(s) : t[k] = Least(s[k], Rest(M, P + Before(s, k)))

LEMMA ShareOfTheRest ==
    ASSUME NEW M \in Nat, NEW u \in Int, NEW c \in Nat
    PROVE  Least(c, Rest(M, u)) = Least(M, u + c) - Least(M, u)
<1>1. /\ Least(M, u + c) = IF M <= u + c THEN M ELSE u + c
      /\ Least(M, u) = IF M <= u THEN M ELSE u
  BY LeastOf
<1>2. Rest(M, u) \in Int /\ Rest(M, u) = IF u <= M THEN M - u ELSE 0
  BY RestOf
<1>3. Least(c, Rest(M, u)) = IF c <= Rest(M, u) THEN c ELSE Rest(M, u)
  BY <1>2, LeastOf
<1> QED
  BY <1>1, <1>2, <1>3

(* What is handed out in order from a limit, some of which is used, is all *)
(* there is or all that is left: hunks and lines are given out like this.  *)
LEMMA HandedOutInOrder ==
    ASSUME NEW s \in Seq(Nat), NEW M \in Nat, NEW P \in Nat,
           NEW t \in Seq(Int), Len(t) = Len(s), SharesOf(t, s, M, P)
    PROVE  Total(t) = Least(M, P + Total(s)) - Least(M, P)
<1>1. s \in Seq(Int) /\ Len(s) \in Nat /\ \A n \in 1..Len(s) : s[n] \in Nat
  BY SMTT(30)
<1>2. PICK f \in [0..Len(s) -> Int] :
              /\ SumsOf(f, s, Len(s))
              /\ \A n \in 0..Len(s) : Total(SubSeq(s, 1, n)) = f[n]
              /\ Total(s) = f[Len(s)]
  BY <1>1, TotalsOfPrefixes
<1> DEFINE g == [n \in 0..Len(s) |-> Least(M, P + f[n]) - Least(M, P)]
<1>3. f[0] = 0 /\ P + f[0] = P
  BY <1>2 DEF SumsOf
<1>4. Least(M, P) \in Int
  BY LeastOf
<1>5. g[0] = 0
  BY <1>1, <1>3, <1>4
<1>6. ASSUME NEW n \in 1..Len(s) PROVE g[n] = g[n - 1] + t[n]
  <2>1. n \in 0..Len(s) /\ n - 1 \in 0..Len(s) /\ s[n] \in Nat
    BY <1>1
  <2>2. f[n] = f[n - 1] + s[n] /\ f[n - 1] \in Int /\ f[n] \in Int
    BY <1>2, <2>1 DEF SumsOf
  <2>3. Before(s, n) = f[n - 1]
    BY <1>1, <1>2, <2>1, BeforeIsAPrefix
  <2>4. PICK u \in Int, c \in Nat, w \in Int :
           u = P + f[n - 1] /\ c = s[n] /\ w = P + f[n] /\ w = u + c
    <3> HIDE DEF g
    <3>1. \A x, y \in Int, z \in Nat : y = x + z =>
             P + x \in Int /\ P + y \in Int /\ P + y = (P + x) + z
      OBVIOUS
    <3>2. P + f[n - 1] \in Int /\ P + f[n] \in Int /\ P + f[n] = (P + f[n - 1]) + s[n]
      BY <2>1, <2>2, <3>1, Zenon
    <3> QED
      BY <2>1, <3>2, Zenon
  <2>5. t[n] = Least(c, Rest(M, u))
    BY <2>3, <2>4 DEF SharesOf
  <2>6. g[n] = Least(M, w) - Least(M, P) /\ g[n - 1] = Least(M, u) - Least(M, P)
    BY <2>1, <2>4
  <2> HIDE DEF g
  <2>7. Least(c, Rest(M, u)) = Least(M, w) - Least(M, u)
    <3>1. Least(c, Rest(M, u)) = Least(M, u + c) - Least(M, u)
      BY ShareOfTheRest
    <3> QED
      BY <2>4, <3>1, Zenon
  <2>8. Least(M, w) \in Int /\ Least(M, u) \in Int
    BY LeastOf
  <2> QED
    BY <1>4, <2>5, <2>6, <2>7, <2>8
<1>7. SumsOf(g, t, Len(t))
  <2> HIDE DEF g
  <2> QED
    BY <1>5, <1>6 DEF SumsOf
<1>8. Total(t) = g[Len(t)]
  BY <1>1, <1>7, TotalIsTheSum, SMTT(30)
<1>9. g[Len(t)] = Least(M, P + Total(s)) - Least(M, P)
  BY <1>1, <1>2
<1> QED
  BY <1>8, <1>9

-----------------------------------------------------------------------------
(* Prefixes and arrangements of sequences *)

LEMMA TakeOf ==
    ASSUME NEW S, NEW s \in Seq(S), NEW n \in Nat
    PROVE  /\ Take(s, n) \in Seq(S)
           /\ Len(Take(s, n)) = Least(n, Len(s))
           /\ Len(Take(s, n)) <= n /\ Len(Take(s, n)) <= Len(s)
           /\ \A i \in 1..Len(Take(s, n)) : Take(s, n)[i] = s[i] /\ i \in 1..Len(s)
           /\ Len(s) <= n => Take(s, n) = s
<1>1. Len(s) \in Nat
  OBVIOUS
<1>2. PICK k \in Nat : k = Least(n, Len(s)) /\ k <= n /\ k <= Len(s) /\ (Len(s) <= n => k = Len(s))
  BY <1>1, LeastOf
<1>3. Take(s, n) = SubSeq(s, 1, k)
  BY <1>2 DEF Take
<1>4. /\ SubSeq(s, 1, k) \in Seq(S) /\ Len(SubSeq(s, 1, k)) = k
      /\ \A i \in 1..k : SubSeq(s, 1, k)[i] = s[i] /\ i \in 1..Len(s)
  BY <1>1, <1>2
<1>5. k = Len(s) => SubSeq(s, 1, k) = s
  BY SubSeqFull
<1> QED
  BY <1>2, <1>3, <1>4, <1>5

LEMMA PlacesAreFinite ==
    ASSUME NEW S, NEW s \in Seq(S), NEW places, places \subseteq DOMAIN s
    PROVE  /\ places \subseteq Nat /\ IsFiniteSet(places)
           /\ Cardinality(places) \in Nat /\ Cardinality(places) <= Len(s)
           /\ Cardinality(places) = Len(s) => places = DOMAIN s
           /\ Cardinality(DOMAIN s) = Len(s)
<1>1. Len(s) \in Nat /\ DOMAIN s = 1..Len(s)
  OBVIOUS
<1>2. IsFiniteSet(1..Len(s)) /\ Cardinality(1..Len(s)) = Len(s)
  <2> DEFINE b == Len(s)
  <2>1. PICK a \in Int : a = 1
    OBVIOUS
  <2>4. b \in Int
    BY <1>1
  <2> HIDE DEF b
  <2>2. IsFiniteSet(a..b) /\ Cardinality(a..b) = IF a > b THEN 0 ELSE b - a + 1
    BY <2>4, FS_Interval
  <2> USE DEF b
  <2>3. IsFiniteSet(a..b) /\ Cardinality(a..b) = b
    BY <1>1, <2>1, <2>2
  <2> QED
    BY <2>1, <2>3, Zenon
<1>3. /\ IsFiniteSet(places) /\ Cardinality(places) <= Cardinality(1..Len(s))
      /\ Cardinality(1..Len(s)) = Cardinality(places) => 1..Len(s) = places
  BY <1>1, <1>2, FS_Subset
<1>4. Cardinality(places) \in Nat
  BY <1>3, FS_CardinalityType
<1> QED
  BY <1>1, <1>2, <1>3, <1>4

LEMMA SortedAtIsASeq ==
    ASSUME NEW S, NEW s \in Seq(S), NEW places, places \subseteq DOMAIN s,
           NEW key, \A i \in places : key[i] \in Int
    PROVE  /\ SortedAt(s, places, key) \in Seq(S)
           /\ Len(SortedAt(s, places, key)) = Cardinality(places)
<1>1. places \subseteq Nat /\ IsFiniteSet(places) /\ Cardinality(places) \in Nat
  BY PlacesAreFinite
<1>2. PICK p \in Bijection(1..Cardinality(places), places) :
          SortedAt(s, places, key) = [n \in 1..Cardinality(places) |-> s[p[n]]]
  BY <1>1, SortedAtArranges DEF ComesFrom
<1>3. \A n \in 1..Cardinality(places) : s[p[n]] \in S
  BY DEF Bijection, Injection
<1> QED
  BY <1>1, <1>2, <1>3

(* Sorting loses nothing, adds nothing and repeats nothing. *)
LEMMA SortedByIsASeq ==
    ASSUME NEW S, NEW s \in Seq(S), NEW key, \A i \in DOMAIN s : key[i] \in Int
    PROVE  /\ SortedBy(s, key) \in Seq(S)
           /\ Len(SortedBy(s, key)) = Len(s)
           /\ IsInjective(s) => IsInjective(SortedBy(s, key))
<1>1. DOMAIN s \subseteq Nat /\ IsFiniteSet(DOMAIN s) /\ Cardinality(DOMAIN s) = Len(s)
  BY PlacesAreFinite
<1>2. SortedBy(s, key) \in Seq(S) /\ Len(SortedBy(s, key)) = Len(s)
  BY <1>1, SortedAtIsASeq DEF SortedBy
<1>3. PICK p \in Bijection(1..Len(s), DOMAIN s) :
          SortedBy(s, key) = [n \in 1..Len(s) |-> s[p[n]]]
  <2> DEFINE places == DOMAIN s
  <2>1. places \subseteq Nat /\ IsFiniteSet(places) /\ \A i \in places : key[i] \in Int
    BY <1>1
  <2>2. PICK p \in Bijection(1..Cardinality(places), places) : ComesFrom(p, s, places, key)
    <3> HIDE DEF places
    <3> QED
      BY <2>1, SortedAtArranges
  <2> QED
    BY <1>1, <2>2, Zenon DEF SortedBy, ComesFrom
<1>4. ASSUME IsInjective(s),
             NEW m \in DOMAIN SortedBy(s, key), NEW n \in DOMAIN SortedBy(s, key),
             SortedBy(s, key)[m] = SortedBy(s, key)[n]
      PROVE  m = n
  <2>1. m \in 1..Len(s) /\ n \in 1..Len(s) /\ s[p[m]] = s[p[n]]
    BY <1>3, <1>4
  <2>2. p[m] \in DOMAIN s /\ p[n] \in DOMAIN s
    BY <2>1 DEF Bijection, Injection
  <2>3. p[m] = p[n]
    BY <1>4, <2>1, <2>2 DEF IsInjective
  <2> QED
    BY <2>1, <2>3 DEF Bijection, Injection, IsInjective
<1>5. IsInjective(s) => IsInjective(SortedBy(s, key))
  BY <1>4 DEF IsInjective
<1> QED
  BY <1>2, <1>5

(* The jobs of an analysis are some of those the provider listed, once.    *)
LEMMA SelectedJobs ==
    ASSUME NEW list \in Seq(Nat), IsInjective(list), NEW n \in Nat
    PROVE  /\ SelectJobs(list, n) \in Seq(Nat)
           /\ IsInjective(SelectJobs(list, n))
<1>1. /\ Take(list, n) \in Seq(Nat)
      /\ \A i \in 1..Len(Take(list, n)) : Take(list, n)[i] = list[i] /\ i \in 1..Len(list)
  BY TakeOf
<1> DEFINE few == Take(list, n)
<1>2. DOMAIN few = 1..Len(few) /\ DOMAIN list = 1..Len(list)
  BY <1>1
<1>3. IsInjective(few)
  <2> HIDE DEF few
  <2> QED
    BY <1>1, <1>2 DEF IsInjective, few
<1>4. \A i \in DOMAIN few : few[i] \in Int
  BY <1>1
<1> HIDE DEF few
<1> QED
  BY <1>1, <1>3, <1>4, SortedByIsASeq DEF SelectJobs, few

LEMMA ByPathIsASeq ==
    ASSUME NEW changes \in Seq(ChangeRecord)
    PROVE  ByPath(changes) \in Seq(ChangeRecord) /\ Len(ByPath(changes)) = Len(changes)
<1> DEFINE key == [i \in DOMAIN changes |-> changes[i].path]
<1>1. \A i \in DOMAIN changes : key[i] \in Int
  <2> SUFFICES ASSUME NEW i \in DOMAIN changes PROVE key[i] \in Int
    OBVIOUS
  <2>1. changes[i] \in ChangeRecord
    BY ElementOfSeq
  <2> QED
    BY <2>1 DEF ChangeRecord
<1> HIDE DEF key
<1> QED
  BY <1>1, SortedByIsASeq DEF ByPath, key

(* The signals kept are at most as many as asked for, and when they are as *)
(* many as there are, they are all of them in their order.                 *)
LEMMA SignalsInWindow ==
    ASSUME NEW signals \in Seq(SignalRecord), NEW n \in Nat
    PROVE  /\ InWindow(signals, n) \in Seq(SignalRecord)
           /\ Len(InWindow(signals, n)) <= n /\ Len(InWindow(signals, n)) <= Len(signals)
           /\ Len(InWindow(signals, n)) >= Len(signals) =>
                 InWindow(signals, n) = SortedBy(signals, Ids(signals))
<1> DEFINE places == {i \in DOMAIN signals : signals[i].inWindow}
           all == SortedAt(signals, places, Ids(signals))
<1>1. \A i \in DOMAIN signals : Ids(signals)[i] \in Int
  <2> SUFFICES ASSUME NEW i \in DOMAIN signals PROVE Ids(signals)[i] \in Int
    OBVIOUS
  <2>1. signals[i] \in SignalRecord
    BY ElementOfSeq
  <2> QED
    BY <2>1 DEF Ids, SignalRecord
<1>2. all \in Seq(SignalRecord) /\ Len(all) = Cardinality(places)
  <2>1. places \subseteq DOMAIN signals
    OBVIOUS
  <2> HIDE DEF places
  <2> QED
    BY <1>1, <2>1, SortedAtIsASeq
<1>3. /\ Cardinality(places) <= Len(signals)
      /\ Cardinality(places) = Len(signals) => places = DOMAIN signals
      /\ Cardinality(places) \in Nat /\ Len(signals) \in Nat
  <2>1. places \subseteq DOMAIN signals
    OBVIOUS
  <2> HIDE DEF places
  <2> QED
    BY <2>1, PlacesAreFinite
<1>4. InWindow(signals, n) = Take(all, n)
  BY DEF InWindow
<1> HIDE DEF all, places
<1>5. /\ Take(all, n) \in Seq(SignalRecord)
      /\ Len(Take(all, n)) = Least(n, Len(all))
      /\ Len(all) <= n => Take(all, n) = all
  BY <1>2, TakeOf
<1>6. /\ Len(Take(all, n)) <= n /\ Len(Take(all, n)) <= Len(all)
      /\ Len(Take(all, n)) \in Nat
      /\ Len(Take(all, n)) = Len(all) => Len(all) <= n
  BY <1>2, <1>3, <1>5, LeastOf
<1>7. ASSUME Len(Take(all, n)) >= Len(signals)
      PROVE  Take(all, n) = SortedBy(signals, Ids(signals))
  <2>1. Len(all) = Len(signals) /\ Take(all, n) = all
    BY <1>2, <1>3, <1>5, <1>6, <1>7
  <2>2. places = DOMAIN signals
    BY <1>2, <1>3, <2>1
  <2> QED
    BY <2>1, <2>2 DEF all, SortedBy
<1>8. Len(Take(all, n)) <= Len(signals)
  BY <1>2, <1>3, <1>6
<1> QED
  BY <1>4, <1>5, <1>6, <1>7, <1>8

-----------------------------------------------------------------------------
(* SelectChanges *)

LEMMA ListOf ==
    ASSUME NEW S, NEW n \in Nat, NEW f, f = [i \in 1..n |-> f[i]],
           \A i \in 1..n : f[i] \in S
    PROVE  f \in Seq(S) /\ Len(f) = n
OBVIOUS

(* The same, when nothing of the limit is used yet. *)
LEMMA HandedOutFromTheLimit ==
    ASSUME NEW s \in Seq(Nat), NEW M \in Nat, NEW t \in Seq(Nat), Len(t) = Len(s),
           \A k \in 1..Len(s) : t[k] = Least(s[k], Rest(M, Before(s, k)))
    PROVE  Total(t) \in Nat /\ Total(t) <= M
<1>1. s \in Seq(Int) /\ t \in Seq(Int) /\ Len(s) \in Nat
  OBVIOUS
<1>2. PICK P \in Nat : P = 0
  OBVIOUS
<1>3. ASSUME NEW k \in 1..Len(s)
      PROVE  t[k] = Least(s[k], Rest(M, P + Before(s, k)))
  <2>1. SubSeq(s, 1, k - 1) \in Seq(Int)
    BY <1>1
  <2>2. Before(s, k) \in Int
    BY <1>1, <2>1, BeforeIsAPrefix, TotalOfInts
  <2>3. P + Before(s, k) = Before(s, k)
    BY <1>2, <2>2
  <2> QED
    BY <2>3, Zenon
<1>4. Total(t) = Least(M, P + Total(s)) - Least(M, P)
  <2>1. SharesOf(t, s, M, P)
    BY <1>3, Zenon DEF SharesOf
  <2> QED
    BY <1>1, <2>1, HandedOutInOrder
<1>5. PICK w \in Nat : w = P + Total(s)
  BY <1>2, TotalOfNats
<1>6. Least(M, w) <= M /\ Least(M, w) \in Int /\ Least(M, P) = 0
  BY <1>2, LeastOf
<1> QED
  BY <1>4, <1>5, <1>6, TotalOfNats

(* What collectSCM keeps: as many of the sorted changes as files may be    *)
(* shown, with their paths, in which neither the hunks nor the lines of    *)
(* all of them exceed what is left of the budget.                          *)
SamePaths(some, others) == Paths(some) = Paths(others)

LEMMA SelectedChanges ==
    ASSUME NEW changes \in Seq(ChangeRecord), NEW maxChanges \in Nat, NEW maxHunks \in Nat,
           NEW perHunk \in Nat, NEW maxLines \in Nat,
           NEW kept, kept = SelectChanges(changes, maxChanges, maxHunks, perHunk, maxLines)
    PROVE  /\ kept \in Seq(ChangeRecord)
           /\ Len(kept) <= maxChanges
           /\ Sum(kept, LAMBDA c : Len(c.hunks)) <= maxHunks
           /\ Sum(kept, LAMBDA c : HunkLines(c.hunks)) <= maxLines
           /\ Sum(kept, LAMBDA c : HunkLines(c.hunks)) \in Nat
           /\ Len(changes) <= maxChanges => SamePaths(kept, ByPath(changes))
<1> DEFINE few == Take(ByPath(changes), maxChanges)
           counts == [i \in DOMAIN few |-> Len(few[i].hunks)]
           capped == [i \in DOMAIN few |->
                        LET hunks == Take(few[i].hunks, Rest(maxHunks, Before(counts, i)))
                        IN [k \in DOMAIN hunks |-> Least(hunks[k], perHunk)]]
           wanted == [i \in DOMAIN few |-> HunkLines(capped[i])]
           given(i, k) == Rest(maxLines, Before(wanted, i) + Before(capped[i], k))
           cut(i) == [k \in DOMAIN capped[i] |-> Least(capped[i][k], given(i, k))]
<1>1. kept = [i \in DOMAIN few |-> [few[i] EXCEPT !.hunks = cut(i)]]
  BY DEF SelectChanges
<1>2. /\ few \in Seq(ChangeRecord) /\ Len(few) <= maxChanges
      /\ Len(changes) <= maxChanges => few = ByPath(changes)
  BY ByPathIsASeq, TakeOf
<1> HIDE DEF few
<1>3. DOMAIN few = 1..Len(few) /\ Len(few) \in Nat
  BY <1>2
<1>4. ASSUME NEW i \in DOMAIN few
      PROVE  few[i] \in ChangeRecord /\ few[i].hunks \in Seq(Nat) /\ Len(few[i].hunks) \in Nat
  <2>1. few[i] \in ChangeRecord
    BY <1>2, <1>4, ElementOfSeq
  <2>2. few[i].hunks \in Seq(Nat)
    BY <2>1 DEF ChangeRecord
  <2> QED
    BY <2>1, <2>2
<1>5. /\ counts \in Seq(Nat) /\ counts \in Seq(Int) /\ Len(counts) = Len(few)
      /\ Total(counts) \in Nat
      /\ \A i \in DOMAIN few : counts[i] = Len(few[i].hunks)
  <2>1. counts \in Seq(Nat) /\ Len(counts) = Len(few)
    BY <1>3, <1>4
  <2> HIDE DEF counts
  <2>2. counts \in Seq(Int) /\ Total(counts) \in Nat
    BY <2>1, TotalOfNats
  <2> QED
    BY <2>1, <2>2 DEF counts
<1> HIDE DEF counts
<1>6. ASSUME NEW i \in DOMAIN few
      PROVE  /\ Before(counts, i) \in Int
             /\ Rest(maxHunks, Before(counts, i)) \in Nat
             /\ capped[i] \in Seq(Nat)
             /\ Len(capped[i]) = Least(counts[i], Rest(maxHunks, Before(counts, i)))
             /\ HunkLines(capped[i]) = Total(capped[i])
             /\ Total(capped[i]) \in Nat
  <2> DEFINE n == Rest(maxHunks, Before(counts, i))
             hunks == Take(few[i].hunks, n)
  <2>1. i \in 1..Len(counts) /\ i - 1 \in 0..Len(counts)
    BY <1>3, <1>5
  <2>2. Before(counts, i) \in Int
    <3>1. SubSeq(counts, 1, i - 1) \in Seq(Int)
      BY <1>5, <2>1
    <3>2. Before(counts, i) = Total(SubSeq(counts, 1, i - 1))
      BY <1>5, <2>1, BeforeIsAPrefix
    <3> QED
      BY <3>1, <3>2, TotalOfInts
  <2>3. n \in Nat
    BY <2>2, RestOf
  <2>4. capped[i] = [k \in DOMAIN hunks |-> Least(hunks[k], perHunk)]
    OBVIOUS
  <2> HIDE DEF n, capped
  <2>5. hunks \in Seq(Nat) /\ Len(hunks) = Least(n, Len(few[i].hunks))
    BY <1>4, <2>3, TakeOf
  <2> HIDE DEF hunks
  <2>6. ASSUME NEW k \in DOMAIN hunks PROVE Least(hunks[k], perHunk) \in Nat
    <3>1. hunks[k] \in Nat
      BY <2>5
    <3> QED
      BY <3>1, LeastOf
  <2>7. capped[i] \in Seq(Nat) /\ Len(capped[i]) = Len(hunks)
    <3> DEFINE c == capped[i]
    <3>1. DOMAIN hunks = 1..Len(hunks) /\ Len(hunks) \in Nat
      BY <2>5
    <3>2. c = [k \in 1..Len(hunks) |-> c[k]] /\ \A k \in 1..Len(hunks) : c[k] \in Nat
      BY <2>4, <2>6, <3>1
    <3> HIDE DEF c
    <3>3. c \in Seq(Nat) /\ Len(c) = Len(hunks)
      BY <3>1, <3>2, ListOf
    <3> QED
      BY <3>3 DEF c
  <2>8. Least(n, Len(few[i].hunks)) = Least(counts[i], n)
    BY <1>4, <1>5, <2>3, LeastOf, SMTT(30)
  <2> QED
    BY <2>2, <2>3, <2>5, <2>7, <2>8, TotalOfNats DEF HunkLines, n
<1> HIDE DEF capped
<1>7. /\ wanted \in Seq(Nat) /\ wanted \in Seq(Int) /\ Len(wanted) = Len(few)
      /\ \A i \in DOMAIN few : wanted[i] = Total(capped[i])
      /\ Total(wanted) \in Nat
  <2>1. wanted \in Seq(Nat) /\ Len(wanted) = Len(few)
    BY <1>3, <1>6
  <2>2. \A i \in DOMAIN few : wanted[i] = Total(capped[i])
    BY <1>6
  <2> HIDE DEF wanted
  <2> QED
    BY <2>1, <2>2, TotalOfNats
<1> HIDE DEF wanted
<1>8. ASSUME NEW i \in DOMAIN few
      PROVE  /\ Before(wanted, i) \in Nat
             /\ cut(i) \in Seq(Nat) /\ Len(cut(i)) = Len(capped[i])
             /\ Total(cut(i)) = Least(wanted[i], Rest(maxLines, Before(wanted, i)))
             /\ Total(cut(i)) \in Nat
  <2>1. i \in 1..Len(wanted) /\ i - 1 \in 0..Len(wanted)
    BY <1>3, <1>7
  <2>2. Before(wanted, i) \in Nat
    <3>1. SubSeq(wanted, 1, i - 1) \in Seq(Nat)
      BY <1>7, <2>1, SMTT(30)
    <3>2. Before(wanted, i) = Total(SubSeq(wanted, 1, i - 1))
      BY <1>7, <2>1, BeforeIsAPrefix
    <3> QED
      BY <3>1, <3>2, TotalOfNats
  <2> DEFINE P == Before(wanted, i)
             c == capped[i]
  <2>3. c \in Seq(Nat) /\ c \in Seq(Int) /\ DOMAIN c = 1..Len(c)
    BY <1>6
  <2>4. cut(i) = [k \in DOMAIN c |-> Least(c[k], Rest(maxLines, P + Before(c, k)))]
    OBVIOUS
  <2>5. P \in Nat
    BY <2>2
  <2> DEFINE t == cut(i)
  <2> HIDE DEF P, c
  <2>6. ASSUME NEW k \in DOMAIN c PROVE Least(c[k], Rest(maxLines, P + Before(c, k))) \in Nat
    <3>1. k \in 1..Len(c) /\ SubSeq(c, 1, k - 1) \in Seq(Int) /\ c[k] \in Nat
      BY <2>3
    <3>2. Before(c, k) \in Int
      BY <2>3, <3>1, BeforeIsAPrefix, TotalOfInts
    <3>3. P + Before(c, k) \in Int
      BY <2>5, <3>2
    <3>4. Rest(maxLines, P + Before(c, k)) \in Nat
      BY <3>3, RestOf
    <3> QED
      BY <3>1, <3>4, LeastOf
  <2>7. t \in Seq(Nat) /\ Len(t) = Len(c)
    <3>1. t = [k \in DOMAIN c |-> Least(c[k], Rest(maxLines, P + Before(c, k)))]
      BY <2>4
    <3> HIDE DEF t
    <3> QED
      BY <2>3, <2>6, <3>1
  <2>8. SharesOf(t, c, maxLines, P)
    BY <2>3, <2>4 DEF SharesOf
  <2> HIDE DEF t
  <2>9. Total(t) = Least(maxLines, P + Total(c)) - Least(maxLines, P)
    <3>1. t \in Seq(Int)
      BY <2>7
    <3> QED
      BY <2>3, <2>5, <2>7, <2>8, <3>1, HandedOutInOrder
  <2>10. Total(c) \in Nat /\ wanted[i] = Total(c)
    BY <1>6, <1>7 DEF c
  <2>11. Least(Total(c), Rest(maxLines, P)) = Least(maxLines, P + Total(c)) - Least(maxLines, P)
    <3>1. PICK w \in Nat : w = Total(c)
      BY <2>10
    <3>2. PICK u \in Int : u = P
      BY <2>5
    <3>3. Least(w, Rest(maxLines, u)) = Least(maxLines, u + w) - Least(maxLines, u)
      BY ShareOfTheRest
    <3> QED
      BY <3>1, <3>2, <3>3, Zenon
  <2>12. Total(t) \in Nat
    BY <2>7, TotalOfNats
  <2> QED
    BY <2>2, <2>7, <2>9, <2>10, <2>11, <2>12 DEF t, c, P
<1> HIDE DEF cut
<1>9. ASSUME NEW i \in DOMAIN few
      PROVE  /\ kept[i] \in ChangeRecord /\ kept[i].path = few[i].path
             /\ kept[i].hunks = cut(i)
  BY <1>1, <1>4, <1>8 DEF ChangeRecord
<1>10. kept \in Seq(ChangeRecord) /\ DOMAIN kept = DOMAIN few /\ Len(kept) = Len(few)
  <2>1. kept = [i \in 1..Len(few) |-> kept[i]]
    BY <1>1, <1>3
  <2> QED
    BY <1>3, <1>9, <2>1
<1>11. Sum(kept, LAMBDA c : Len(c.hunks)) <= maxHunks
  <2> DEFINE t == [i \in DOMAIN kept |-> Len(kept[i].hunks)]
  <2>1. \A i \in DOMAIN few : t[i] = Least(counts[i], Rest(maxHunks, Before(counts, i)))
    BY <1>6, <1>8, <1>9, <1>10
  <2>2. t \in Seq(Nat) /\ Len(t) = Len(few)
    BY <1>3, <1>8, <1>9, <1>10
  <2>3. Sum(kept, LAMBDA c : Len(c.hunks)) = Total(t)
    BY DEF Sum
  <2> HIDE DEF t
  <2>4. \A k \in 1..Len(counts) : t[k] = Least(counts[k], Rest(maxHunks, Before(counts, k)))
    BY <1>3, <1>5, <1>7, <2>1
  <2>5. Total(t) <= maxHunks /\ Total(t) \in Nat
    BY <1>5, <1>7, <2>2, <2>4, HandedOutFromTheLimit
  <2> QED
    BY <2>3, <2>5, Zenon
<1>12. /\ Sum(kept, LAMBDA c : HunkLines(c.hunks)) <= maxLines
       /\ Sum(kept, LAMBDA c : HunkLines(c.hunks)) \in Nat
  <2> DEFINE t == [i \in DOMAIN kept |-> HunkLines(kept[i].hunks)]
  <2>1. \A i \in DOMAIN few : t[i] = Least(wanted[i], Rest(maxLines, Before(wanted, i)))
    BY <1>8, <1>9, <1>10 DEF HunkLines
  <2>2. t \in Seq(Nat) /\ Len(t) = Len(few)
    <3>1. \A i \in DOMAIN kept : HunkLines(kept[i].hunks) \in Nat
      BY <1>8, <1>9, <1>10 DEF HunkLines
    <3> QED
      BY <1>3, <1>10, <3>1
  <2>3. Sum(kept, LAMBDA c : HunkLines(c.hunks)) = Total(t)
    BY DEF Sum
  <2> HIDE DEF t
  <2>4. \A k \in 1..Len(wanted) : t[k] = Least(wanted[k], Rest(maxLines, Before(wanted, k)))
    BY <1>3, <1>5, <1>7, <2>1
  <2>5. Total(t) <= maxLines /\ Total(t) \in Nat
    BY <1>5, <1>7, <2>2, <2>4, HandedOutFromTheLimit
  <2> QED
    BY <2>3, <2>5, Zenon
<1>13. Len(changes) <= maxChanges => Paths(kept) = Paths(ByPath(changes))
  BY <1>2, <1>9, <1>10 DEF Paths
<1> QED
  BY <1>2, <1>10, <1>11, <1>12, <1>13 DEF SamePaths

-----------------------------------------------------------------------------
(* The budget and fitEvidenceBudget *)

LEMMA BudgetIsTyped ==
    ASSUME input \in Inputs
    PROVE  /\ budget.maxFiles \in Nat /\ budget.maxHunks \in Nat
           /\ budget.maxLines \in Nat /\ budget.maxBytes \in Nat
           /\ budget.maxRequests \in Nat /\ budget.maxRequests >= 2
           /\ {input.maxJobs, input.maxLogLines, input.maxChanges,
               input.maxHunkLines, input.maxSignals} \subseteq Nat
<1>1. {input.maxJobs, input.maxLogLines, input.maxChanges,
       input.maxHunkLines, input.maxSignals} \subseteq Nat
  BY InputAssumption
<1>2. CASE input.budget # NoBudget
  <2>1. input.budget \in BudgetRecord /\ budget = input.budget
    BY <1>2, InputAssumption DEF budget, contextBudgetFor
  <2> QED
    BY <1>1, <2>1 DEF BudgetRecord
<1>3. CASE input.budget = NoBudget
  <2>1. budget = [maxFiles |-> input.maxChanges,
                  maxHunks |-> Least(HunkCap, 2 * input.maxChanges),
                  maxLines |-> Least(LineCap, input.maxLogLines + input.maxHunkLines),
                  maxBytes |-> ByteCap,
                  maxRequests |-> RequestCap]
    BY <1>3 DEF budget, contextBudgetFor
  <2>2. PICK a \in Nat, b \in Nat : a = 2 * input.maxChanges /\ b = input.maxLogLines + input.maxHunkLines
    <3>1. 2 * input.maxChanges \in Nat /\ input.maxLogLines + input.maxHunkLines \in Nat
      BY <1>1
    <3> QED
      BY <3>1
  <2>3. Least(HunkCap, a) \in Nat /\ Least(LineCap, b) \in Nat
    BY LeastOf, InputAssumption
  <2> QED
    BY <1>1, <2>1, <2>2, <2>3, InputAssumption
<1> QED
  BY <1>2, <1>3

LEMMA FrontOf ==
    ASSUME NEW S, NEW s \in Seq(S), s # <<>>
    PROVE  /\ Front(s) \in Seq(S) /\ Len(Front(s)) = Len(s) - 1
           /\ Len(s) \in Nat \ {0} /\ Last(s) = s[Len(s)] /\ s[Len(s)] \in S
           /\ \A i \in 1..(Len(s) - 1) : Front(s)[i] = s[i] /\ i \in 1..Len(s)
           /\ Front(s) = SubSeq(s, 1, Len(s) - 1)
<1>1. PICK n \in Nat : n = Len(s) - 1 /\ Len(s) = n + 1 /\ n + 1 \in 1..Len(s)
  OBVIOUS
<1>2. Front(s) = SubSeq(s, 1, n)
  BY <1>1 DEF Front
<1>3. /\ SubSeq(s, 1, n) \in Seq(S) /\ Len(SubSeq(s, 1, n)) = n
      /\ \A i \in 1..n : SubSeq(s, 1, n)[i] = s[i] /\ i \in 1..Len(s)
  BY <1>1
<1>4. Last(s) = s[Len(s)] /\ s[Len(s)] \in S
  BY <1>1 DEF Last
<1> QED
  BY <1>1, <1>2, <1>3, <1>4

LEMMA TotalWithoutLast ==
    ASSUME NEW s \in Seq(Nat), s # <<>>
    PROVE  /\ Front(s) \in Seq(Nat) /\ Total(Front(s)) \in Nat /\ Total(s) \in Nat
           /\ Last(s) \in Nat /\ Total(Front(s)) = Total(s) - Last(s)
           /\ Len(Front(s)) = Len(s) - 1
<1>1. s \in Seq(Int)
  OBVIOUS
<1>2. Total(s) = Total(SubSeq(s, 1, Len(s) - 1)) + s[Len(s)]
  BY <1>1, TotalOfLast
<1>3. /\ Front(s) = SubSeq(s, 1, Len(s) - 1) /\ Last(s) = s[Len(s)]
      /\ Front(s) \in Seq(Nat) /\ s[Len(s)] \in Nat /\ Len(Front(s)) = Len(s) - 1
  BY FrontOf
<1>4. Total(Front(s)) \in Nat /\ Total(s) \in Nat
  BY <1>3, TotalOfNats
<1>5. Total(s) = Total(Front(s)) + Last(s)
  BY <1>2, <1>3, Zenon
<1> QED
  BY <1>3, <1>4, <1>5, SMTT(30)

LEMMA TotalWithOtherLast ==
    ASSUME NEW s \in Seq(Nat), s # <<>>, NEW k, k = Len(s),
           NEW x \in Nat, x <= s[k], NEW t, t = [s EXCEPT ![k] = x]
    PROVE  t \in Seq(Nat) /\ Len(t) = Len(s) /\ Total(t) <= Total(s)
<1>1. Len(s) \in Nat /\ Len(s) \in 1..Len(s) /\ Len(s) - 1 \in 0..Len(s)
  OBVIOUS
<1>2. t \in Seq(Nat) /\ Len(t) = Len(s) /\ t # <<>> /\ t[Len(s)] = x
  BY <1>1, ExceptSeq
<1>3. Front(t) = Front(s)
  <2>1. /\ Front(t) \in Seq(Nat) /\ Len(Front(t)) = Len(s) - 1
        /\ \A i \in 1..(Len(s) - 1) : Front(t)[i] = t[i]
    BY <1>2, FrontOf
  <2>2. /\ Front(s) \in Seq(Nat) /\ Len(Front(s)) = Len(s) - 1
        /\ \A i \in 1..(Len(s) - 1) : Front(s)[i] = s[i]
    BY FrontOf
  <2>3. \A i \in 1..(Len(s) - 1) : t[i] = s[i]
    BY <1>1
  <2>4. PICK a \in Seq(Nat), b \in Seq(Nat) : a = Front(t) /\ b = Front(s)
    BY <2>1, <2>2
  <2>5. Len(a) = Len(b) /\ \A i \in 1..Len(a) : a[i] = b[i]
    BY <2>1, <2>2, <2>3, <2>4
  <2>6. a = b
    BY <2>5, SeqEqual
  <2> QED
    BY <2>4, <2>6
<1>4. Last(t) = x /\ Last(s) = s[Len(s)]
  BY <1>2 DEF Last
<1>5. Total(Front(s)) = Total(t) - x /\ Total(t) \in Nat
  BY <1>2, <1>3, <1>4, TotalWithoutLast
<1>6. /\ Total(Front(s)) = Total(s) - s[Len(s)] /\ Total(s) \in Nat
      /\ s[Len(s)] \in Nat /\ Total(Front(s)) \in Nat
  BY <1>4, TotalWithoutLast
<1> QED
  BY <1>2, <1>5, <1>6

(* What is counted of evidence: hunks and lines of changes, lines of logs. *)
HunkCounts(changes) == [i \in DOMAIN changes |-> Len(changes[i].hunks)]

LineCounts(changes) == [i \in DOMAIN changes |-> HunkLines(changes[i].hunks)]

ByteCounts(changes) == [i \in DOMAIN changes |-> ChangeBytes(changes[i])]

LogCounts(logs) == [i \in DOMAIN logs |-> logs[i].lines]

LEMMA ChangeCounts ==
    ASSUME NEW c \in ChangeRecord
    PROVE  /\ c.hunks \in Seq(Nat) /\ Len(c.hunks) \in Nat
           /\ HunkLines(c.hunks) \in Nat /\ ChangeBytes(c) \in Nat
<1>1. c.hunks \in Seq(Nat) /\ Len(c.hunks) \in Nat
  BY DEF ChangeRecord
<1>2. HunkLines(c.hunks) \in Nat
  BY <1>1, TotalOfNats DEF HunkLines
<1> QED
  BY <1>1, <1>2 DEF ChangeBytes

LEMMA CountsOfChanges ==
    ASSUME NEW changes \in Seq(ChangeRecord)
    PROVE  /\ HunkCounts(changes) \in Seq(Nat) /\ Len(HunkCounts(changes)) = Len(changes)
           /\ LineCounts(changes) \in Seq(Nat) /\ Len(LineCounts(changes)) = Len(changes)
           /\ ByteCounts(changes) \in Seq(Nat) /\ Len(ByteCounts(changes)) = Len(changes)
           /\ Sum(changes, LAMBDA c : Len(c.hunks)) = Total(HunkCounts(changes))
           /\ Sum(changes, LAMBDA c : HunkLines(c.hunks)) = Total(LineCounts(changes))
           /\ Sum(changes, ChangeBytes) = Total(ByteCounts(changes))
           /\ Total(HunkCounts(changes)) \in Nat
           /\ Total(LineCounts(changes)) \in Nat
           /\ Total(ByteCounts(changes)) \in Nat
<1>1. Len(changes) \in Nat /\ DOMAIN changes = 1..Len(changes)
  OBVIOUS
<1>2. ASSUME NEW i \in 1..Len(changes)
      PROVE  /\ Len(changes[i].hunks) \in Nat /\ HunkLines(changes[i].hunks) \in Nat
             /\ ChangeBytes(changes[i]) \in Nat
  <2>1. changes[i] \in ChangeRecord
    BY <1>1, ElementOfSeq
  <2> QED
    BY <2>1, ChangeCounts
<1>3. /\ HunkCounts(changes) \in Seq(Nat) /\ Len(HunkCounts(changes)) = Len(changes)
      /\ LineCounts(changes) \in Seq(Nat) /\ Len(LineCounts(changes)) = Len(changes)
      /\ ByteCounts(changes) \in Seq(Nat) /\ Len(ByteCounts(changes)) = Len(changes)
  BY <1>1, <1>2 DEF HunkCounts, LineCounts, ByteCounts
<1>4. /\ Sum(changes, LAMBDA c : Len(c.hunks)) = Total(HunkCounts(changes))
      /\ Sum(changes, LAMBDA c : HunkLines(c.hunks)) = Total(LineCounts(changes))
      /\ Sum(changes, ChangeBytes) = Total(ByteCounts(changes))
  BY DEF Sum, HunkCounts, LineCounts, ByteCounts
<1> QED
  BY <1>3, <1>4, TotalOfNats

LEMMA CountsOfLogs ==
    ASSUME NEW logs \in Seq(LogRecord)
    PROVE  /\ LogCounts(logs) \in Seq(Nat) /\ Len(LogCounts(logs)) = Len(logs)
           /\ Sum(logs, LAMBDA l : l.lines) = Total(LogCounts(logs))
           /\ Total(LogCounts(logs)) \in Nat
<1>1. Len(logs) \in Nat /\ DOMAIN logs = 1..Len(logs)
  OBVIOUS
<1>2. ASSUME NEW i \in 1..Len(logs) PROVE logs[i].lines \in Nat
  <2>1. logs[i] \in LogRecord
    BY <1>1, ElementOfSeq
  <2> QED
    BY <2>1 DEF LogRecord
<1>3. LogCounts(logs) \in Seq(Nat) /\ Len(LogCounts(logs)) = Len(logs)
  BY <1>1, <1>2 DEF LogCounts
<1>4. Sum(logs, LAMBDA l : l.lines) = Total(LogCounts(logs))
  BY DEF Sum, LogCounts
<1> QED
  BY <1>3, <1>4, TotalOfNats

LEMMA CountsOfEvidence ==
    ASSUME NEW e \in EvidenceRecord
    PROVE  /\ e.logs \in Seq(LogRecord) /\ e.changes \in Seq(ChangeRecord)
           /\ e.signals \in Seq(SignalRecord)
           /\ EvidenceHunks(e) = Total(HunkCounts(e.changes))
           /\ EvidenceLines(e) = Total(LogCounts(e.logs)) + Total(LineCounts(e.changes))
           /\ Bytes(e) = Len(e.logs) + Total(ByteCounts(e.changes)) + Len(e.signals)
           /\ EvidenceHunks(e) \in Nat /\ EvidenceLines(e) \in Nat /\ Bytes(e) \in Nat
<1>1. e.logs \in Seq(LogRecord) /\ e.changes \in Seq(ChangeRecord) /\ e.signals \in Seq(SignalRecord)
  BY DEF EvidenceRecord
<1>2. Len(e.logs) \in Nat /\ Len(e.signals) \in Nat
  BY <1>1
<1>3. EvidenceHunks(e) = Total(HunkCounts(e.changes)) /\ Total(HunkCounts(e.changes)) \in Nat
  BY <1>1, CountsOfChanges DEF EvidenceHunks
<1>4. /\ EvidenceLines(e) = Total(LogCounts(e.logs)) + Total(LineCounts(e.changes))
      /\ Total(LogCounts(e.logs)) \in Nat /\ Total(LineCounts(e.changes)) \in Nat
  BY <1>1, CountsOfChanges, CountsOfLogs DEF EvidenceLines
<1>5. /\ Bytes(e) = Len(e.logs) + Total(ByteCounts(e.changes)) + Len(e.signals)
      /\ Total(ByteCounts(e.changes)) \in Nat
  BY <1>1, CountsOfChanges DEF Bytes
<1> QED
  BY <1>1, <1>2, <1>3, <1>4, <1>5, SMTT(30)

LEMMA ShorterLastHunk ==
    ASSUME NEW h \in Seq(Nat), h # <<>>, h[Len(h)] > 0,
           NEW t, t = [h EXCEPT ![Len(h)] = @ - 1]
    PROVE  t \in Seq(Nat) /\ Len(t) = Len(h) /\ Total(t) <= Total(h)
<1>1. PICK k \in Nat : k = Len(h) /\ h[k] \in Nat
  BY FrontOf
<1>2. PICK x \in Nat : x = h[k] - 1
  BY <1>1
<1>3. t = [h EXCEPT ![k] = x] /\ x <= h[k]
  BY <1>1, <1>2
<1> QED
  BY <1>1, <1>3, TotalWithOtherLast

LEMMA ShorterChangeOf ==
    ASSUME NEW c \in ChangeRecord, c.hunks # <<>>, NEW d, d = ShorterChange(c)
    PROVE  /\ d \in ChangeRecord
           /\ Len(d.hunks) <= Len(c.hunks)
           /\ HunkLines(d.hunks) <= HunkLines(c.hunks)
<1> DEFINE hunks == c.hunks
<1>1. hunks \in Seq(Nat) /\ hunks # <<>>
  BY DEF ChangeRecord
<1>2. /\ Front(hunks) \in Seq(Nat) /\ Len(Front(hunks)) = Len(hunks) - 1
      /\ Len(hunks) \in Nat \ {0} /\ Last(hunks) = hunks[Len(hunks)] /\ hunks[Len(hunks)] \in Nat
      /\ Total(Front(hunks)) = Total(hunks) - Last(hunks)
      /\ Total(Front(hunks)) \in Nat /\ Total(hunks) \in Nat
  BY <1>1, FrontOf, TotalWithoutLast
<1>3. CASE Last(hunks) > 0
  <2> DEFINE t == [hunks EXCEPT ![Len(hunks)] = @ - 1]
  <2>2. d = [c EXCEPT !.hunks = t]
    BY <1>3 DEF ShorterChange
  <2>3. t \in Seq(Nat) /\ Len(t) = Len(hunks) /\ Total(t) <= Total(hunks)
    <3>1. hunks[Len(hunks)] > 0
      BY <1>2, <1>3
    <3> HIDE DEF hunks
    <3> QED
      BY <1>1, <3>1, ShorterLastHunk
  <2> HIDE DEF hunks, t
  <2>5. d \in ChangeRecord /\ d.hunks = t
    BY <2>2, <2>3 DEF ChangeRecord
  <2> QED
    BY <1>2, <2>3, <2>5 DEF HunkLines, hunks
<1>4. CASE ~(Last(hunks) > 0)
  <2>1. d = [c EXCEPT !.hunks = Front(hunks)]
    BY <1>4 DEF ShorterChange
  <2> HIDE DEF hunks
  <2>2. d \in ChangeRecord /\ d.hunks = Front(hunks)
    BY <1>2, <2>1 DEF ChangeRecord
  <2> QED
    BY <1>2, <2>2 DEF HunkLines, hunks
<1> QED
  BY <1>3, <1>4

(* The changes are no more, and have no more hunks and lines. *)
NoMoreThan(few, many) ==
    /\ Len(few) <= Len(many)
    /\ Total(HunkCounts(few)) <= Total(HunkCounts(many))
    /\ Total(LineCounts(few)) <= Total(LineCounts(many))

LEMMA ShorterLastChange ==
    ASSUME NEW s \in Seq(ChangeRecord), s # <<>>,
           NEW d \in ChangeRecord, Len(d.hunks) <= Len(Last(s).hunks),
           HunkLines(d.hunks) <= HunkLines(Last(s).hunks),
           NEW t, t = [s EXCEPT ![Len(s)] = d]
    PROVE  t \in Seq(ChangeRecord) /\ NoMoreThan(t, s)
<1>1. /\ Len(s) \in Nat \ {0} /\ DOMAIN s = 1..Len(s) /\ Last(s) = s[Len(s)]
      /\ s[Len(s)] \in ChangeRecord
  BY FrontOf
<1>2. t \in Seq(ChangeRecord) /\ Len(t) = Len(s) /\ DOMAIN t = DOMAIN s
  BY <1>1, ExceptSeq
<1>3. PICK n \in Nat : n = Len(d.hunks)
  BY ChangeCounts, SMTT(30)
<1>4. PICK m \in Nat : m = HunkLines(d.hunks)
  BY ChangeCounts
<1>5. PICK k \in Nat : k = Len(s)
  BY <1>1
<1>6. HunkCounts(t) = [HunkCounts(s) EXCEPT ![k] = n]
  BY <1>1, <1>2, <1>3, <1>5 DEF HunkCounts
<1>7. LineCounts(t) = [LineCounts(s) EXCEPT ![k] = m]
  BY <1>1, <1>2, <1>4, <1>5 DEF LineCounts
<1>8. /\ HunkCounts(s) \in Seq(Nat) /\ Len(HunkCounts(s)) = k
      /\ LineCounts(s) \in Seq(Nat) /\ Len(LineCounts(s)) = k
  BY <1>5, CountsOfChanges
<1>9. HunkCounts(s) # <<>> /\ LineCounts(s) # <<>>
  BY <1>1, <1>5, <1>8
<1>10. /\ HunkCounts(s)[k] = Len(Last(s).hunks)
       /\ LineCounts(s)[k] = HunkLines(Last(s).hunks)
  BY <1>1, <1>5 DEF HunkCounts, LineCounts
<1>11. Total(HunkCounts(t)) <= Total(HunkCounts(s))
  <2>1. n <= HunkCounts(s)[k]
    BY <1>3, <1>10
  <2> QED
    BY <1>6, <1>8, <1>9, <2>1, TotalWithOtherLast
<1>12. Total(LineCounts(t)) <= Total(LineCounts(s))
  <2>1. m <= LineCounts(s)[k]
    BY <1>4, <1>10
  <2> QED
    BY <1>7, <1>8, <1>9, <2>1, TotalWithOtherLast
<1> QED
  BY <1>1, <1>2, <1>11, <1>12 DEF NoMoreThan

LEMMA WithoutLastChange ==
    ASSUME NEW s \in Seq(ChangeRecord), s # <<>>
    PROVE  Front(s) \in Seq(ChangeRecord) /\ NoMoreThan(Front(s), s)
<1>1. /\ Front(s) \in Seq(ChangeRecord) /\ Len(Front(s)) = Len(s) - 1 /\ Len(s) \in Nat \ {0}
      /\ \A i \in 1..(Len(s) - 1) : Front(s)[i] = s[i] /\ i \in 1..Len(s)
  BY FrontOf
<1>2. /\ HunkCounts(s) \in Seq(Nat) /\ Len(HunkCounts(s)) = Len(s) /\ HunkCounts(s) # <<>>
      /\ LineCounts(s) \in Seq(Nat) /\ Len(LineCounts(s)) = Len(s) /\ LineCounts(s) # <<>>
      /\ HunkCounts(Front(s)) \in Seq(Nat) /\ Len(HunkCounts(Front(s))) = Len(s) - 1
      /\ LineCounts(Front(s)) \in Seq(Nat) /\ Len(LineCounts(Front(s))) = Len(s) - 1
  BY <1>1, CountsOfChanges
<1>3. \A i \in 1..(Len(s) - 1) : i \in DOMAIN s /\ i \in DOMAIN Front(s)
  BY <1>1
<1>4. HunkCounts(Front(s)) = Front(HunkCounts(s))
  <2>1. \A i \in 1..(Len(s) - 1) : HunkCounts(Front(s))[i] = HunkCounts(s)[i]
    BY <1>1, <1>3 DEF HunkCounts
  <2>2. /\ Front(HunkCounts(s)) \in Seq(Nat) /\ Len(Front(HunkCounts(s))) = Len(s) - 1
        /\ \A i \in 1..(Len(s) - 1) : Front(HunkCounts(s))[i] = HunkCounts(s)[i]
    BY <1>2, FrontOf
  <2>3. \A i \in 1..Len(HunkCounts(Front(s))) : HunkCounts(Front(s))[i] = Front(HunkCounts(s))[i]
    BY <1>2, <2>1, <2>2
  <2>4. Len(HunkCounts(Front(s))) = Len(Front(HunkCounts(s)))
    BY <1>2, <2>2
  <2> QED
    BY <1>2, <2>2, <2>3, <2>4, SeqEqual
<1>5. LineCounts(Front(s)) = Front(LineCounts(s))
  <2>1. \A i \in 1..(Len(s) - 1) : LineCounts(Front(s))[i] = LineCounts(s)[i]
    BY <1>1, <1>3 DEF LineCounts
  <2>2. /\ Front(LineCounts(s)) \in Seq(Nat) /\ Len(Front(LineCounts(s))) = Len(s) - 1
        /\ \A i \in 1..(Len(s) - 1) : Front(LineCounts(s))[i] = LineCounts(s)[i]
    BY <1>2, FrontOf, SMTT(30)
  <2>3. \A i \in 1..Len(LineCounts(Front(s))) : LineCounts(Front(s))[i] = Front(LineCounts(s))[i]
    BY <1>2, <2>1, <2>2
  <2>4. Len(LineCounts(Front(s))) = Len(Front(LineCounts(s)))
    BY <1>2, <2>2
  <2> QED
    BY <1>2, <2>2, <2>3, <2>4, SeqEqual
<1>6. /\ Total(Front(HunkCounts(s))) = Total(HunkCounts(s)) - Last(HunkCounts(s))
      /\ Total(HunkCounts(s)) \in Nat /\ Last(HunkCounts(s)) \in Nat
  BY <1>2, TotalWithoutLast
<1>7. /\ Total(Front(LineCounts(s))) = Total(LineCounts(s)) - Last(LineCounts(s))
      /\ Total(LineCounts(s)) \in Nat /\ Last(LineCounts(s)) \in Nat
  BY <1>2, TotalWithoutLast
<1>8. Total(HunkCounts(Front(s))) <= Total(HunkCounts(s))
  BY <1>4, <1>6
<1>9. Total(LineCounts(Front(s))) <= Total(LineCounts(s))
  BY <1>5, <1>7
<1> QED
  BY <1>1, <1>8, <1>9 DEF NoMoreThan

LEMMA WithoutLastLog ==
    ASSUME NEW s \in Seq(LogRecord), s # <<>>
    PROVE  /\ Front(s) \in Seq(LogRecord) /\ Len(Front(s)) = Len(s) - 1 /\ Len(s) \in Nat \ {0}
           /\ Total(LogCounts(Front(s))) <= Total(LogCounts(s))
           /\ ToSet(Front(s)) \subseteq ToSet(s)
<1>1. /\ Front(s) \in Seq(LogRecord) /\ Len(Front(s)) = Len(s) - 1 /\ Len(s) \in Nat \ {0}
      /\ \A i \in 1..(Len(s) - 1) : Front(s)[i] = s[i] /\ i \in 1..Len(s)
  BY FrontOf
<1>2. /\ LogCounts(s) \in Seq(Nat) /\ Len(LogCounts(s)) = Len(s) /\ LogCounts(s) # <<>>
      /\ LogCounts(Front(s)) \in Seq(Nat) /\ Len(LogCounts(Front(s))) = Len(s) - 1
  BY <1>1, CountsOfLogs
<1>3. \A i \in 1..(Len(s) - 1) : i \in DOMAIN s /\ i \in DOMAIN Front(s)
  BY <1>1
<1>4. LogCounts(Front(s)) = Front(LogCounts(s))
  <2>1. \A i \in 1..(Len(s) - 1) : LogCounts(Front(s))[i] = LogCounts(s)[i]
    BY <1>1, <1>3 DEF LogCounts
  <2>2. /\ Front(LogCounts(s)) \in Seq(Nat) /\ Len(Front(LogCounts(s))) = Len(s) - 1
        /\ \A i \in 1..(Len(s) - 1) : Front(LogCounts(s))[i] = LogCounts(s)[i]
    BY <1>2, FrontOf
  <2> QED
    BY <1>2, <2>1, <2>2, SeqEqual
<1>5. /\ Total(Front(LogCounts(s))) = Total(LogCounts(s)) - Last(LogCounts(s))
      /\ Total(LogCounts(s)) \in Nat /\ Last(LogCounts(s)) \in Nat
  BY <1>2, TotalWithoutLast
<1>6. DOMAIN Front(s) = 1..(Len(s) - 1) /\ DOMAIN s = 1..Len(s)
  BY <1>1
<1>7. ToSet(Front(s)) \subseteq ToSet(s)
  BY <1>1, <1>6 DEF ToSet
<1>8. Total(LogCounts(Front(s))) <= Total(LogCounts(s))
  BY <1>4, <1>5
<1> QED
  BY <1>1, <1>7, <1>8

(* What one turn of fitEvidenceBudget takes.                               *)
CutOf(f, e) ==
    \/ /\ e.changes # <<>>
       /\ f.logs = e.logs /\ f.signals = e.signals
       /\ NoMoreThan(f.changes, e.changes)
    \/ /\ e.changes = <<>> /\ e.signals # <<>>
       /\ f.logs = e.logs /\ f.changes = <<>>
       /\ Len(f.signals) <= Len(e.signals)
       /\ Bytes(f) = Bytes(e) - 1
    \/ /\ e.changes = <<>> /\ e.signals = <<>>
       /\ f.changes = <<>> /\ f.signals = <<>>
       /\ ToSet(f.logs) \subseteq ToSet(e.logs)
       /\ Total(LogCounts(f.logs)) <= Total(LogCounts(e.logs))
       /\ Bytes(f) = Bytes(e) - 1

LEMMA BytesOfNoChanges ==
    ASSUME NEW e \in EvidenceRecord, e.changes = <<>>
    PROVE  Bytes(e) = Len(e.logs) + Len(e.signals) /\ Len(e.logs) \in Nat /\ Len(e.signals) \in Nat
<1>1. /\ e.logs \in Seq(LogRecord) /\ e.signals \in Seq(SignalRecord)
      /\ Bytes(e) = Len(e.logs) + Total(ByteCounts(e.changes)) + Len(e.signals)
  BY CountsOfEvidence
<1>2. ByteCounts(e.changes) \in Seq(Nat) /\ Len(ByteCounts(e.changes)) = 0
  <2>1. e.changes \in Seq(ChangeRecord) /\ Len(e.changes) = 0
    BY DEF EvidenceRecord
  <2> QED
    BY <2>1, CountsOfChanges
<1>3. ByteCounts(e.changes) = <<>>
  <2>1. PICK s \in Seq(Nat) : s = ByteCounts(e.changes)
    BY <1>2
  <2>2. s = <<>>
    BY <1>2, <2>1
  <2> QED
    BY <2>1, <2>2
<1>4. Total(ByteCounts(e.changes)) = 0
  BY <1>3, TotalOfNone, Zenon
<1>5. PICK l \in Nat, g \in Nat : l = Len(e.logs) /\ g = Len(e.signals)
  BY <1>1
<1>6. Bytes(e) = l + 0 + g
  BY <1>1, <1>4, <1>5, Zenon
<1> QED
  BY <1>5, <1>6

LEMMA Shortened ==
    ASSUME NEW e \in EvidenceRecord, NEW n \in Nat, Bytes(e) > n,
           NEW f, f = Shorten(e)
    PROVE  f \in EvidenceRecord /\ CutOf(f, e)
<1>1. /\ e.logs \in Seq(LogRecord) /\ e.changes \in Seq(ChangeRecord)
      /\ e.signals \in Seq(SignalRecord) /\ Bytes(e) \in Nat
  BY CountsOfEvidence
<1>2. CASE e.changes # <<>>
  <2>1. /\ Len(e.changes) \in Nat \ {0} /\ Last(e.changes) = e.changes[Len(e.changes)]
        /\ Last(e.changes) \in ChangeRecord
    BY <1>1, <1>2, FrontOf
  <2>2. CASE Last(e.changes).hunks # <<>>
    <3>1. PICK d \in ChangeRecord :
             /\ d = ShorterChange(Last(e.changes))
             /\ Len(d.hunks) <= Len(Last(e.changes).hunks)
             /\ HunkLines(d.hunks) <= HunkLines(Last(e.changes).hunks)
      BY <2>1, <2>2, ShorterChangeOf
    <3>2. PICK t : t = [e.changes EXCEPT ![Len(e.changes)] = d]
      OBVIOUS
    <3>3. t \in Seq(ChangeRecord) /\ NoMoreThan(t, e.changes)
      BY <1>1, <1>2, <3>1, <3>2, ShorterLastChange
    <3>4. f = [e EXCEPT !.changes = t]
      BY <1>1, <1>2, <2>1, <2>2, <3>1, <3>2 DEF Shorten, EvidenceRecord
    <3> QED
      BY <1>2, <3>3, <3>4 DEF CutOf, EvidenceRecord
  <2>3. CASE Last(e.changes).hunks = <<>>
    <3>1. f = [e EXCEPT !.changes = Front(e.changes)]
      BY <1>2, <2>3 DEF Shorten
    <3>2. Front(e.changes) \in Seq(ChangeRecord) /\ NoMoreThan(Front(e.changes), e.changes)
      BY <1>1, <1>2, WithoutLastChange
    <3> QED
      BY <1>2, <3>1, <3>2 DEF CutOf, EvidenceRecord
  <2> QED
    BY <2>2, <2>3
<1>3. CASE e.changes = <<>> /\ e.signals # <<>>
  <2>1. f = [e EXCEPT !.signals = Front(e.signals)]
    BY <1>3 DEF Shorten
  <2>2. /\ Front(e.signals) \in Seq(SignalRecord)
        /\ Len(Front(e.signals)) = Len(e.signals) - 1 /\ Len(e.signals) \in Nat
    BY <1>1, <1>3, FrontOf
  <2>3. /\ f \in EvidenceRecord /\ f.changes = <<>> /\ f.logs = e.logs
        /\ f.signals = Front(e.signals)
    BY <1>3, <2>1, <2>2 DEF EvidenceRecord
  <2>4. Bytes(f) = Len(f.logs) + Len(f.signals)
    BY <2>3, BytesOfNoChanges
  <2>5. Bytes(e) = Len(e.logs) + Len(e.signals) /\ Len(e.logs) \in Nat
    BY <1>3, BytesOfNoChanges
  <2> QED
    BY <1>3, <2>2, <2>3, <2>4, <2>5 DEF CutOf
<1>4. CASE e.changes = <<>> /\ e.signals = <<>>
  <2>1. f = [e EXCEPT !.logs = Front(e.logs)]
    BY <1>4 DEF Shorten
  <2>2. Bytes(e) = Len(e.logs) + Len(e.signals) /\ Len(e.logs) \in Nat
    BY <1>4, BytesOfNoChanges
  <2>3. e.logs # <<>>
    BY <1>4, <2>2
  <2>4. /\ Front(e.logs) \in Seq(LogRecord) /\ Len(Front(e.logs)) = Len(e.logs) - 1
        /\ Total(LogCounts(Front(e.logs))) <= Total(LogCounts(e.logs))
        /\ ToSet(Front(e.logs)) \subseteq ToSet(e.logs)
    BY <1>1, <2>3, WithoutLastLog
  <2>5. /\ f \in EvidenceRecord /\ f.changes = <<>> /\ f.signals = <<>>
        /\ f.logs = Front(e.logs)
    BY <1>4, <2>1, <2>4 DEF EvidenceRecord
  <2>6. Bytes(f) = Len(f.logs) + Len(f.signals)
    BY <2>5, BytesOfNoChanges
  <2> QED
    BY <1>4, <2>2, <2>4, <2>5, <2>6 DEF CutOf
<1> QED
  BY <1>2, <1>3, <1>4

LEMMA CutsGiveNothing ==
    ASSUME NEW e \in EvidenceRecord, NEW f \in EvidenceRecord, CutOf(f, e)
    PROVE  /\ EvidenceLines(f) <= EvidenceLines(e)
           /\ EvidenceHunks(f) <= EvidenceHunks(e)
           /\ Len(f.changes) <= Len(e.changes)
           /\ Len(f.signals) <= Len(e.signals)
           /\ ToSet(f.logs) \subseteq ToSet(e.logs)
           /\ {Len(f.changes), Len(f.signals)} \subseteq Nat
<1>1. /\ e.logs \in Seq(LogRecord) /\ e.changes \in Seq(ChangeRecord)
      /\ e.signals \in Seq(SignalRecord)
      /\ EvidenceHunks(e) = Total(HunkCounts(e.changes))
      /\ EvidenceLines(e) = Total(LogCounts(e.logs)) + Total(LineCounts(e.changes))
  BY CountsOfEvidence
<1>2. /\ f.logs \in Seq(LogRecord) /\ f.changes \in Seq(ChangeRecord)
      /\ f.signals \in Seq(SignalRecord)
      /\ EvidenceHunks(f) = Total(HunkCounts(f.changes))
      /\ EvidenceLines(f) = Total(LogCounts(f.logs)) + Total(LineCounts(f.changes))
  BY CountsOfEvidence
<1>3. /\ Total(HunkCounts(e.changes)) \in Nat /\ Total(LineCounts(e.changes)) \in Nat
      /\ Total(HunkCounts(f.changes)) \in Nat /\ Total(LineCounts(f.changes)) \in Nat
  BY <1>1, <1>2, CountsOfChanges
<1>4. Total(LogCounts(e.logs)) \in Nat /\ Total(LogCounts(f.logs)) \in Nat
  BY <1>1, <1>2, CountsOfLogs
<1>5. /\ {Len(e.changes), Len(f.changes), Len(e.signals), Len(f.signals)} \subseteq Nat
  BY <1>1, <1>2
<1>6. CASE /\ f.logs = e.logs /\ f.signals = e.signals
           /\ NoMoreThan(f.changes, e.changes)
  BY <1>1, <1>2, <1>3, <1>4, <1>5, <1>6 DEF NoMoreThan
<1>7. CASE /\ e.changes = <<>> /\ f.logs = e.logs /\ f.changes = <<>>
           /\ Len(f.signals) <= Len(e.signals)
  BY <1>1, <1>2, <1>3, <1>4, <1>5, <1>7
<1>8. CASE /\ e.changes = <<>> /\ e.signals = <<>> /\ f.changes = <<>> /\ f.signals = <<>>
           /\ ToSet(f.logs) \subseteq ToSet(e.logs)
           /\ Total(LogCounts(f.logs)) <= Total(LogCounts(e.logs))
  BY <1>1, <1>2, <1>3, <1>4, <1>5, <1>8
<1> QED
  BY <1>6, <1>7, <1>8 DEF CutOf

-----------------------------------------------------------------------------
(* The assembly and its caller *)

Caller == Answer \/ Settle \/ Deadline \/ GiveUp \/ Reply \/ Stop

LEMMA CallerIsLeft ==
    ASSUME Assemble
    PROVE  UNCHANGED <<input, result, late, advice, body>>
BY DEF Assemble, Status, Analysis, Remediation, Log, NoLogs, SCM, Telemetry, Fit

LEMMA AssemblyIsLeft ==
    ASSUME Caller \/ UNCHANGED vars
    PROVE  UNCHANGED <<input, assembly>>
BY DEF Caller, Answer, Settle, Deadline, GiveUp, Reply, Stop, Conclude, StartCallback,
       Return, vars, assembly, result, advice

(* What a step of the assembly changes: all of it.                         *)
LEMMA BudgetIsFixed ==
    ASSUME Next \/ UNCHANGED vars
    PROVE  input' = input /\ budget' = budget
<1>1. input' = input
  BY CallerIsLeft, AssemblyIsLeft DEF Next, Caller
<1> QED
  BY <1>1 DEF budget, contextBudgetFor

(* A log that was read.                                                    *)
LogShows(length, kept) ==
    /\ length \in Nat /\ kept \in Nat
    /\ kept <= length /\ kept <= budget.maxLines - lines
    /\ lines' = lines + kept
    /\ evidence' = [evidence EXCEPT !.logs = Append(@, [job |-> Head(jobs), lines |-> kept])]
    /\ had' = [had EXCEPT !.logs = Append(@, [job |-> Head(jobs), lines |-> length])]
    /\ truncated' = (truncated \/ length > kept)
    /\ provenance' = provenance \cup {Source("ci-log", Head(jobs), "available")}

LEMMA LogRead ==
    ASSUME TypeOK, lines < budget.maxLines, ReadLog
    PROVE  \E length, kept : LogShows(length, kept)
<1>1. PICK length \in LogLengths :
         /\ evidence' = [evidence EXCEPT !.logs = Append(@, [job |-> Head(jobs),
                lines |-> Min({length, input.maxLogLines, budget.maxLines - lines})])]
         /\ lines' = lines + Min({length, input.maxLogLines, budget.maxLines - lines})
         /\ Mark(length > Min({length, input.maxLogLines, budget.maxLines - lines}))
         /\ had' = [had EXCEPT !.logs = Append(@, [job |-> Head(jobs), lines |-> length])]
  BY DEF ReadLog
<1>2. PICK a \in Int, b \in Int : a = input.maxLogLines /\ b = budget.maxLines - lines
  <2>1. input.maxLogLines \in Nat /\ budget.maxLines \in Nat
    BY BudgetIsTyped DEF TypeOK
  <2> QED
    BY <2>1 DEF TypeOK
<1>3. length \in Nat /\ a \in Nat /\ b \in Nat
  <2>1. input.maxLogLines \in Nat /\ budget.maxLines \in Nat
    BY BudgetIsTyped DEF TypeOK
  <2> QED
    BY <1>2, <2>1, AnswerAssumption DEF TypeOK
<1>4. PICK kept : kept = Min({length, a, b})
  OBVIOUS
<1>5. kept \in Nat /\ kept <= length /\ kept <= b
  <2>1. PICK l \in Int : l = length
    BY <1>3
  <2>2. /\ Min({l, a, b}) \in {l, a, b}
        /\ Min({l, a, b}) <= l /\ Min({l, a, b}) <= b
    BY LeastOfThree, Zenon
  <2>3. kept \in {l, a, b} /\ kept <= l /\ kept <= b
    BY <1>4, <2>1, <2>2
  <2> QED
    BY <1>3, <2>1, <2>3
<1>6. /\ lines' = lines + kept
      /\ evidence' = [evidence EXCEPT !.logs = Append(@, [job |-> Head(jobs), lines |-> kept])]
      /\ Mark(length > kept)
  BY <1>1, <1>2, <1>4
<1>7. Record({Source("ci-log", Head(jobs), "available")})
  BY DEF ReadLog
<1>8. kept <= budget.maxLines - lines
  BY <1>2, <1>5
<1>9. LogShows(length, kept)
  BY <1>1, <1>3, <1>5, <1>6, <1>7, <1>8 DEF LogShows, Mark, Record
<1> QED
  BY <1>9

(* Changes that were read.                                                 *)
Files == Least(input.maxChanges, budget.maxFiles)

ChangesShow(changes, kept) ==
    /\ changes \in Seq(ChangeRecord) /\ kept \in Seq(ChangeRecord)
    /\ evidence' = [evidence EXCEPT !.changes = kept]
    /\ lines' = lines + Total(LineCounts(kept))
    /\ Total(LineCounts(kept)) <= budget.maxLines - lines
    /\ Total(HunkCounts(kept)) <= budget.maxHunks
    /\ Len(kept) <= Files
    /\ truncated' = (truncated \/ Len(changes) > Files)
    /\ had' = [had EXCEPT !.changes = ByPath(changes)]
    /\ ByPath(changes) \in Seq(ChangeRecord)
    /\ Len(changes) <= Files => Paths(kept) = Paths(ByPath(changes))

LEMMA ChangesRead ==
    ASSUME TypeOK, lines <= budget.maxLines, ReadChanges
    PROVE  \E changes, kept : ChangesShow(changes, kept)
<1>1. PICK changes \in ChangeAnswers :
         /\ evidence' = [evidence EXCEPT !.changes =
                SelectChanges(changes, Files, budget.maxHunks, input.maxHunkLines,
                              budget.maxLines - lines)]
         /\ lines' = lines + Sum(SelectChanges(changes, Files, budget.maxHunks,
                                    input.maxHunkLines, budget.maxLines - lines),
                                 LAMBDA c : HunkLines(c.hunks))
         /\ Mark(Len(changes) > Files)
         /\ had' = [had EXCEPT !.changes = ByPath(changes)]
  BY DEF ReadChanges, Files
<1>2. /\ input.maxChanges \in Nat /\ budget.maxFiles \in Nat /\ budget.maxHunks \in Nat
      /\ input.maxHunkLines \in Nat /\ budget.maxLines \in Nat
  BY BudgetIsTyped DEF TypeOK
<1>3. PICK m \in Nat : m = budget.maxLines - lines
  BY <1>2 DEF TypeOK
<1>4. PICK n \in Nat : n = Files
  <2>1. PICK a \in Nat, b \in Nat : a = input.maxChanges /\ b = budget.maxFiles
    BY <1>2
  <2>2. Least(a, b) \in Nat
    BY LeastOf
  <2> QED
    BY <2>1, <2>2 DEF Files
<1>5. changes \in Seq(ChangeRecord)
  BY AnswerAssumption
<1>6. PICK kept : kept = SelectChanges(changes, n, budget.maxHunks, input.maxHunkLines, m)
  OBVIOUS
<1>7. /\ kept \in Seq(ChangeRecord)
      /\ Len(kept) <= n
      /\ Sum(kept, LAMBDA c : Len(c.hunks)) <= budget.maxHunks
      /\ Sum(kept, LAMBDA c : HunkLines(c.hunks)) <= m
      /\ Len(changes) <= n => Paths(kept) = Paths(ByPath(changes))
  <2>1. PICK h \in Nat, p \in Nat : h = budget.maxHunks /\ p = input.maxHunkLines
    BY <1>2
  <2>2. kept = SelectChanges(changes, n, h, p, m)
    BY <1>6, <2>1
  <2> QED
    <3>1. kept \in Seq(ChangeRecord) /\ Len(kept) <= n
      BY <1>5, <2>2, SelectedChanges
    <3>2. Sum(kept, LAMBDA c : Len(c.hunks)) <= h
      BY <1>5, <2>2, SelectedChanges
    <3>3. Sum(kept, LAMBDA c : HunkLines(c.hunks)) <= m
      BY <1>5, <2>2, SelectedChanges
    <3>4. Len(changes) <= n => Paths(kept) = Paths(ByPath(changes))
      <4>1. Len(changes) <= n => SamePaths(kept, ByPath(changes))
        BY <1>5, <2>2, SelectedChanges
      <4> QED
        BY <4>1 DEF SamePaths
    <3> QED
      BY <2>1, <3>1, <3>2, <3>3, <3>4
<1>8. /\ Sum(kept, LAMBDA c : Len(c.hunks)) = Total(HunkCounts(kept))
      /\ Sum(kept, LAMBDA c : HunkLines(c.hunks)) = Total(LineCounts(kept))
  BY <1>7, CountsOfChanges
<1>9. ByPath(changes) \in Seq(ChangeRecord)
  BY <1>5, ByPathIsASeq
<1>10. evidence' = [evidence EXCEPT !.changes = kept]
  BY <1>1, <1>3, <1>4, <1>6
<1>11. lines' = lines + Total(LineCounts(kept))
  BY <1>1, <1>3, <1>4, <1>6, <1>8
<1>12. ChangesShow(changes, kept)
  BY <1>1, <1>3, <1>4, <1>5, <1>7, <1>8, <1>9, <1>10, <1>11, Zenon DEF ChangesShow, Mark
<1> QED
  BY <1>12

-----------------------------------------------------------------------------
(* Types *)

(* The lines left for the next log or change are never negative.           *)
TypeInv == TypeOK /\ lines <= budget.maxLines

LEMMA FirstState ==
    ASSUME Init
    PROVE  TypeInv /\ EvidenceLines(evidence) = 0 /\ EvidenceHunks(evidence) = 0
<1>1. evidence \in EvidenceRecord /\ evidence = NoEvidence
  BY DEF Init, NoEvidence, EvidenceRecord
<1>2. budget.maxLines \in Nat
  BY BudgetIsTyped DEF Init
<1>3. TypeInv
  <2>1. lines \in Nat /\ lines <= budget.maxLines /\ requests \in Nat
    BY <1>2 DEF Init
  <2>2. had \in [jobs : SUBSET Nat, logs : Seq(LogRecord),
                changes : Seq(ChangeRecord), signals : Seq(SignalRecord)]
    BY DEF Init, Nobody
  <2>3. jobs \in Seq(Nat) /\ plan \subseteq UNION Plans /\ provenance \subseteq SourceRecord
    BY DEF Init
  <2>4. {late, stopped} \subseteq BOOLEAN /\ truncated \in BOOLEAN
    BY DEF Init
  <2> QED
    BY <1>1, <2>1, <2>2, <2>3, <2>4 DEF Init, TypeInv, TypeOK, Places
<1>4. /\ EvidenceHunks(evidence) = Total(HunkCounts(<<>>))
      /\ EvidenceLines(evidence) = Total(LogCounts(<<>>)) + Total(LineCounts(<<>>))
  BY <1>1, CountsOfEvidence DEF NoEvidence
<1>5. /\ HunkCounts(<<>>) = <<>> /\ LogCounts(<<>>) = <<>> /\ LineCounts(<<>>) = <<>>
  BY DEF HunkCounts, LogCounts, LineCounts
<1>6. EvidenceHunks(evidence) = 0 /\ EvidenceLines(evidence) = 0 + 0
  BY <1>4, <1>5, TotalOfNone, Zenon
<1> QED
  BY <1>3, <1>6

LEMMA NextJobOf ==
    ASSUME TypeOK, jobs # <<>>, NextJob
    PROVE  /\ jobs' \in Seq(Nat) /\ place' \in Places /\ Head(jobs) \in Nat
           /\ jobs' = Tail(jobs) /\ place' \in {"logs", "scm"}
           /\ place' = "scm" => jobs' = <<>>
<1>1. jobs \in Seq(Nat) /\ jobs # <<>>
  BY DEF TypeOK
<1>2. jobs' = Tail(jobs) /\ place' = (IF Len(jobs) = 1 THEN "scm" ELSE "logs")
  BY DEF NextJob
<1>3. Tail(jobs) \in Seq(Nat) /\ Head(jobs) \in Nat
  BY <1>1
<1>4. Len(jobs) = 1 => Tail(jobs) = <<>>
  <2>1. SUFFICES ASSUME Len(jobs) = 1 PROVE Tail(jobs) = <<>>
    OBVIOUS
  <2>2. Len(Tail(jobs)) = 0
    BY <1>1, <2>1
  <2>3. \A seq \in Seq(Nat) : seq # <<>> => Len(seq) \in Nat \ {0}
    BY EmptySeq, Zenon
  <2>4. Tail(jobs) # <<>> => Len(Tail(jobs)) \in Nat \ {0}
    BY <1>3, <2>3, Zenon
  <2> QED
    BY <2>2, <2>4
<1>5. CASE Len(jobs) = 1
  BY <1>2, <1>3, <1>4, <1>5 DEF Places
<1>6. CASE Len(jobs) # 1
  BY <1>2, <1>3, <1>6 DEF Places
<1> QED
  BY <1>5, <1>6

(* The callers' steps change no type of the assembly.                      *)
LEMMA CallerKeepsTypes ==
    ASSUME TypeInv, Caller \/ UNCHANGED vars
    PROVE  TypeInv'
<1> USE DEF TypeInv, TypeOK
<1>0. UNCHANGED <<input, assembly>> /\ budget' = budget
  BY AssemblyIsLeft, BudgetIsFixed DEF Next, Caller
<1>1. CASE Answer
  BY <1>0, <1>1 DEF Answer, assembly, advice
<1>2. CASE Settle
  BY <1>0, <1>2 DEF Settle, Conclude, StartCallback, Return, BodyOf, assembly
<1>3. CASE Deadline
  BY <1>0, <1>3 DEF Deadline, result, advice, assembly
<1>4. CASE GiveUp
  BY <1>0, <1>4 DEF GiveUp, Conclude, Return, BodyOf, assembly
<1>5. CASE Reply
  BY <1>0, <1>5 DEF Reply, Return, BodyOf, Verdict, assembly
<1>6. CASE Stop
  BY <1>0, <1>6 DEF Stop, Return, BodyOf, Verdict, StoppedVerdict, assembly
<1>7. CASE UNCHANGED vars
  BY <1>0, <1>7 DEF vars, assembly, result, advice
<1> QED
  BY <1>1, <1>2, <1>3, <1>4, <1>5, <1>6, <1>7 DEF Caller

(* What the assembly does to the types is what it does to its own state.   *)
AssemblyTyped ==
    /\ place \in Places /\ requests \in Nat /\ lines \in Nat /\ plan \subseteq UNION Plans
    /\ jobs \in Seq(Nat) /\ evidence \in EvidenceRecord /\ provenance \subseteq SourceRecord
    /\ had \in [jobs : SUBSET Nat, logs : Seq(LogRecord),
                changes : Seq(ChangeRecord), signals : Seq(SignalRecord)]
    /\ truncated \in BOOLEAN
    /\ failure \in {"none", "status", "analysis", "no-such-method", "invalid-result"}
    /\ lines <= budget.maxLines

LEMMA AssembleKeepsTypes ==
    ASSUME TypeInv, Assemble, AssemblyTyped'
    PROVE  TypeInv'
<1>1. UNCHANGED <<input, result, late, advice, body>>
  BY CallerIsLeft
<1> QED
  BY <1>1 DEF TypeInv, TypeOK, AssemblyTyped, result, advice

LEMMA SourcesAreTyped ==
    ASSUME NEW job \in Nat, NEW reason \in Reasons
    PROVE  /\ Source("ci-remediation", 0, reason) \in SourceRecord
           /\ Source("ci-log", job, reason) \in SourceRecord
           /\ Source("scm", 0, reason) \in SourceRecord
           /\ Source("telemetry", 0, reason) \in SourceRecord
           /\ Source("ci-status", 0, reason) \in SourceRecord
           /\ Source("ci-analysis", 0, reason) \in SourceRecord
BY DEF Source, SourceRecord, MandatorySources

LEMMA StatusKeepsTypes ==
    ASSUME TypeInv, Status PROVE AssemblyTyped'
<1>1. budget' = budget
  BY BudgetIsFixed DEF Next, Assemble
<1> QED
  BY <1>1 DEF TypeInv, TypeOK, AssemblyTyped, Status, Fail, Places

LEMMA AnalysisKeepsTypes ==
    ASSUME TypeInv, Analysis PROVE AssemblyTyped'
<1>1. budget' = budget
  BY BudgetIsFixed DEF Next, Assemble
<1>2. CASE Fail(IF Inherited THEN "no-such-method" ELSE "analysis")
  BY <1>1, <1>2 DEF TypeInv, TypeOK, AssemblyTyped, Analysis, Fail, Places
<1>3. ASSUME NEW list \in JobLists,
             jobs' = SelectJobs(list, input.maxJobs),
             had' = [had EXCEPT !.jobs = ToSet(jobs')],
             Mark(Len(list) > input.maxJobs),
             Record({Source(name, 0, "available") : name \in MandatorySources}),
             place' = "remediation",
             UNCHANGED <<lines, plan, evidence, failure>>
      PROVE  AssemblyTyped'
  <2>1. jobs' \in Seq(Nat)
    BY <1>3, AnswerAssumption, SelectedJobs, BudgetIsTyped DEF TypeInv, TypeOK
  <2>2. ToSet(jobs') \subseteq Nat
    BY <2>1 DEF ToSet
  <2>3. provenance' \subseteq SourceRecord
    BY <1>3 DEF TypeInv, TypeOK, Record, Source, SourceRecord, MandatorySources, Reasons
  <2> QED
    <3>1. requests' \in Nat /\ lines' \in Nat /\ lines' <= budget'.maxLines
      BY <1>1, <1>3 DEF TypeInv, TypeOK, Analysis
    <3>2. truncated' \in BOOLEAN
      BY <1>3 DEF Mark
    <3>3. place' \in Places /\ plan' \subseteq UNION Plans /\ evidence' \in EvidenceRecord
          /\ failure' \in {"none", "status", "analysis", "no-such-method", "invalid-result"}
      BY <1>3 DEF TypeInv, TypeOK, Places
    <3>4. had' \in [jobs : SUBSET Nat, logs : Seq(LogRecord),
                    changes : Seq(ChangeRecord), signals : Seq(SignalRecord)]
      BY <1>3, <2>2 DEF TypeInv, TypeOK
    <3> QED
      BY <2>1, <2>3, <3>1, <3>2, <3>3, <3>4 DEF AssemblyTyped
<1> QED
  BY <1>2, <1>3 DEF Analysis

LEMMA RemediationKeepsTypes ==
    ASSUME TypeInv, Remediation PROVE AssemblyTyped'
<1>1. budget' = budget
  BY BudgetIsFixed DEF Next, Assemble
<1>2. provenance' \subseteq SourceRecord
  <2>1. \E reason \in Reasons : Record({Source("ci-remediation", 0, reason)})
    BY DEF Remediation, ErrorReasons, Reasons
  <2> QED
    BY <2>1, SourcesAreTyped DEF TypeInv, TypeOK, Record
<1>3. plan' \subseteq UNION Plans
  BY DEF TypeInv, TypeOK, Remediation
<1> QED
  <2>1. requests' \in Nat /\ lines' \in Nat /\ lines' <= budget'.maxLines
    <3>1. requests' \in {requests, requests + 1} /\ lines' = lines
      BY DEF Remediation
    <3> QED
      BY <1>1, <3>1 DEF TypeInv, TypeOK
  <2>2. truncated' \in BOOLEAN
    <3>1. truncated' = truncated \/ truncated' = (truncated \/ TRUE)
      BY DEF Remediation, Mark
    <3>2. truncated \in BOOLEAN
      BY DEF TypeInv, TypeOK
    <3> QED
      BY <3>1, <3>2
  <2> QED
    BY <1>2, <1>3, <2>1, <2>2 DEF TypeInv, TypeOK, AssemblyTyped, Remediation, Places

LEMMA LogKeepsTypes ==
    ASSUME TypeInv, Log PROVE AssemblyTyped'
<1>1. budget' = budget
  BY BudgetIsFixed DEF Next, Assemble
<1>2. /\ jobs' \in Seq(Nat) /\ place' \in Places /\ Head(jobs) \in Nat
  BY NextJobOf DEF Log, TypeInv
<1>3. provenance' \subseteq SourceRecord
  <2>1. \E reason \in Reasons : Record({Source("ci-log", Head(jobs), reason)})
    BY DEF Log, ReadLog, ErrorReasons, Reasons, BudgetReason
  <2> QED
    BY <1>2, <2>1, SourcesAreTyped DEF TypeInv, TypeOK, Record
<1>4. CASE lines < budget.maxLines /\ requests' = requests + 1 /\ ReadLog
  <2>1. PICK length, kept : LogShows(length, kept)
    BY <1>4, LogRead DEF TypeInv
  <2>2. [job |-> Head(jobs), lines |-> kept] \in LogRecord
    BY <1>2, <2>1 DEF LogShows, LogRecord
  <2>3. [job |-> Head(jobs), lines |-> length] \in LogRecord
    BY <1>2, <2>1 DEF LogShows, LogRecord
  <2>4. evidence' \in EvidenceRecord
    BY <2>1, <2>2, AppendProperties DEF LogShows, TypeInv, TypeOK, EvidenceRecord
  <2>5. had' \in [jobs : SUBSET Nat, logs : Seq(LogRecord),
                  changes : Seq(ChangeRecord), signals : Seq(SignalRecord)]
    BY <2>1, <2>3, AppendProperties DEF LogShows, TypeInv, TypeOK
  <2>6. lines' \in Nat /\ lines' <= budget.maxLines
    <3>1. budget.maxLines \in Nat
      BY BudgetIsTyped DEF TypeInv, TypeOK
    <3> QED
      BY <2>1, <3>1, SMTT(30) DEF LogShows, TypeInv, TypeOK
  <2> QED
    <3>1. requests' \in Nat /\ lines' \in Nat /\ lines' <= budget'.maxLines
      BY <1>1, <1>4, <2>6 DEF TypeInv, TypeOK
    <3>2. truncated' \in BOOLEAN
      BY <2>1 DEF LogShows
    <3>3. plan' = plan /\ failure' = failure
      BY DEF Log
    <3> QED
      BY <1>2, <1>3, <2>4, <2>5, <3>1, <3>2, <3>3 DEF TypeInv, TypeOK, AssemblyTyped
<1>5. CASE /\ requests' \in {requests, requests + 1}
           /\ UNCHANGED <<lines, evidence, had>> /\ truncated' \in BOOLEAN
  BY <1>1, <1>2, <1>3, <1>5 DEF TypeInv, TypeOK, AssemblyTyped, Log
<1> QED
  BY <1>4, <1>5 DEF Log, Mark, TypeInv, TypeOK

LEMMA SCMKeepsTypes ==
    ASSUME TypeInv, SCM PROVE AssemblyTyped'
<1>1. budget' = budget /\ budget.maxLines \in Nat
  BY BudgetIsFixed, BudgetIsTyped DEF Next, Assemble, TypeInv, TypeOK
<1>2. provenance' \subseteq SourceRecord
  <2>1. \E reason \in Reasons : Record({Source("scm", 0, reason)})
    BY DEF SCM, Refusals, Reasons, Unasked
  <2> QED
    BY <2>1, SourcesAreTyped DEF TypeInv, TypeOK, Record
<1>3. CASE requests' = requests + 1 /\ ReadChanges
  <2>1. PICK changes, kept : ChangesShow(changes, kept)
    BY <1>3, ChangesRead DEF TypeInv
  <2>2. Total(LineCounts(kept)) \in Nat
    BY <2>1, CountsOfChanges DEF ChangesShow
  <2>3. lines' \in Nat /\ lines' <= budget.maxLines
    BY <1>1, <2>1, <2>2 DEF ChangesShow, TypeInv, TypeOK
  <2>4. evidence' \in EvidenceRecord
    BY <2>1 DEF ChangesShow, TypeInv, TypeOK, EvidenceRecord
  <2>5. had' \in [jobs : SUBSET Nat, logs : Seq(LogRecord),
                  changes : Seq(ChangeRecord), signals : Seq(SignalRecord)]
    BY <2>1 DEF ChangesShow, TypeInv, TypeOK
  <2>6. truncated' \in BOOLEAN
    BY <2>1 DEF ChangesShow, TypeInv, TypeOK
  <2> QED
    BY <1>1, <1>2, <1>3, <2>3, <2>4, <2>5, <2>6
    DEF TypeInv, TypeOK, AssemblyTyped, SCM, Places
<1>4. CASE /\ requests' \in {requests, requests + 1}
           /\ UNCHANGED <<lines, evidence, truncated, had>>
  BY <1>1, <1>2, <1>4 DEF TypeInv, TypeOK, AssemblyTyped, SCM, Places
<1> QED
  BY <1>3, <1>4 DEF SCM

LEMMA TelemetryKeepsTypes ==
    ASSUME TypeInv, Telemetry PROVE AssemblyTyped'
<1>1. budget' = budget
  BY BudgetIsFixed DEF Next, Assemble
<1>2. provenance' \subseteq SourceRecord
  <2>1. \E reason \in Reasons : Record({Source("telemetry", 0, reason)})
    BY DEF Telemetry, Refusals, Reasons, Unasked
  <2> QED
    BY <2>1, SourcesAreTyped DEF TypeInv, TypeOK, Record
<1>3. ASSUME NEW signals \in SignalAnswers,
             requests' = requests + 1,
             evidence' = [evidence EXCEPT !.signals = InWindow(signals, input.maxSignals)],
             had' = [had EXCEPT !.signals = signals],
             truncated' \in BOOLEAN
      PROVE  AssemblyTyped'
  <2>1. signals \in Seq(SignalRecord) /\ input.maxSignals \in Nat
    BY AnswerAssumption, BudgetIsTyped DEF TypeInv, TypeOK
  <2>2. InWindow(signals, input.maxSignals) \in Seq(SignalRecord)
    BY <2>1, SignalsInWindow
  <2>3. evidence' \in EvidenceRecord
    BY <1>3, <2>2 DEF TypeInv, TypeOK, EvidenceRecord
  <2>4. had' \in [jobs : SUBSET Nat, logs : Seq(LogRecord),
                  changes : Seq(ChangeRecord), signals : Seq(SignalRecord)]
    BY <1>3, <2>1 DEF TypeInv, TypeOK
  <2> QED
    <3>1. requests' \in Nat /\ lines' \in Nat /\ lines' <= budget'.maxLines
      BY <1>1, <1>3 DEF TypeInv, TypeOK, Telemetry
    <3>2. jobs' = jobs /\ plan' = plan /\ failure' = failure /\ place' = "fitting"
      BY DEF Telemetry
    <3> QED
      BY <1>2, <1>3, <2>3, <2>4, <3>1, <3>2 DEF TypeInv, TypeOK, AssemblyTyped, Places
<1>4. CASE /\ requests' \in {requests, requests + 1}
           /\ UNCHANGED <<evidence, truncated, had>>
  BY <1>1, <1>2, <1>4 DEF TypeInv, TypeOK, AssemblyTyped, Telemetry, Places
<1> QED
  BY <1>3, <1>4 DEF Telemetry, Mark, TypeInv, TypeOK

LEMMA FitKeepsTypes ==
    ASSUME TypeInv, Fit PROVE AssemblyTyped'
<1>1. budget' = budget /\ budget.maxBytes \in Nat
  BY BudgetIsFixed, BudgetIsTyped DEF Next, Assemble, TypeInv, TypeOK
<1>2. evidence' \in EvidenceRecord
  BY <1>1, Shortened DEF Fit, TypeInv, TypeOK
<1> QED
  BY <1>1, <1>2 DEF TypeInv, TypeOK, AssemblyTyped, Fit, Mark, Places

LEMMA TypesAreKept ==
    ASSUME TypeInv, [Next]_vars
    PROVE  TypeInv'
<1>1. CASE Assemble
  <2>1. AssemblyTyped'
    <3>1. CASE NoLogs
      <4>1. budget' = budget
        BY <1>1, BudgetIsFixed DEF Next
      <4> QED
        BY <3>1, <4>1 DEF TypeInv, TypeOK, AssemblyTyped, NoLogs, Places
    <3> QED
      BY <1>1, <3>1, StatusKeepsTypes, AnalysisKeepsTypes, RemediationKeepsTypes,
         LogKeepsTypes, SCMKeepsTypes, TelemetryKeepsTypes, FitKeepsTypes DEF Assemble
  <2> QED
    BY <1>1, <2>1, AssembleKeepsTypes
<1>2. CASE Caller \/ UNCHANGED vars
  BY <1>2, CallerKeepsTypes
<1> QED
  BY <1>1, <1>2 DEF Next, Caller

(* The analysis is well typed, and the lines it has used are within the    *)
(* budget (forensics.ts 48-198).                                           *)
THEOREM AnalysisTypeCorrect == Spec => []TypeInv
<1>1. Init => TypeInv
  BY FirstState
<1>2. TypeInv /\ [Next]_vars => TypeInv'
  BY TypesAreKept
<1> QED
  BY <1>1, <1>2, PTL DEF Spec

-----------------------------------------------------------------------------
(* What the analysis spends *)

Early == {"status", "analysis", "remediation", "logs", "scm"}

(* Requests, lines, hunks, changes and signals: what the evidence holds is *)
(* within what was charged, and no source has been read before its place.  *)
SpendingInv ==
    /\ requests <= budget.maxRequests
    /\ place = "status" => requests = 0
    /\ place = "analysis" => requests <= 1
    /\ EvidenceLines(evidence) <= lines
    /\ EvidenceHunks(evidence) <= budget.maxHunks
    /\ Len(evidence.changes) <= Files
    /\ Len(evidence.signals) <= input.maxSignals
    /\ place \in Early => evidence.changes = <<>> /\ had.changes = <<>>
    /\ place \in Early \cup {"telemetry"} => evidence.signals = <<>> /\ had.signals = <<>>

LEMMA CountsOfNoChanges ==
    /\ Total(HunkCounts(<<>>)) = 0 /\ Total(LineCounts(<<>>)) = 0
<1>1. HunkCounts(<<>>) = <<>> /\ LineCounts(<<>>) = <<>>
  BY DEF HunkCounts, LineCounts
<1> QED
  BY <1>1, TotalOfNone, Zenon

LEMMA CountsOfOneMoreLog ==
    ASSUME NEW logs \in Seq(LogRecord), NEW log \in LogRecord
    PROVE  /\ Append(logs, log) \in Seq(LogRecord)
           /\ Len(Append(logs, log)) = Len(logs) + 1
           /\ Total(LogCounts(Append(logs, log))) = Total(LogCounts(logs)) + log.lines
<1>1. /\ Append(logs, log) \in Seq(LogRecord)
      /\ Len(Append(logs, log)) = Len(logs) + 1
      /\ \A i \in 1..Len(logs) : Append(logs, log)[i] = logs[i]
      /\ Append(logs, log)[Len(logs) + 1] = log
  BY AppendProperties
<1>2. LogCounts(logs) \in Seq(Nat) /\ Len(LogCounts(logs)) = Len(logs) /\ Len(logs) \in Nat
  <2>1. Len(logs) \in Nat
    OBVIOUS
  <2> QED
    BY <2>1, CountsOfLogs
<1>3. /\ LogCounts(Append(logs, log)) \in Seq(Nat)
      /\ Len(LogCounts(Append(logs, log))) = Len(logs) + 1
  BY <1>1, CountsOfLogs
<1>4. PICK n \in Nat : n = log.lines
  BY DEF LogRecord
<1>5. /\ Append(LogCounts(logs), n) \in Seq(Nat)
      /\ Len(Append(LogCounts(logs), n)) = Len(logs) + 1
      /\ \A i \in 1..Len(logs) : Append(LogCounts(logs), n)[i] = LogCounts(logs)[i]
      /\ Append(LogCounts(logs), n)[Len(logs) + 1] = n
  BY <1>2, AppendProperties
<1>6. \A i \in 1..(Len(logs) + 1) : LogCounts(Append(logs, log))[i] = Append(LogCounts(logs), n)[i]
  BY <1>1, <1>2, <1>4, <1>5 DEF LogCounts
<1>7. LogCounts(Append(logs, log)) = Append(LogCounts(logs), n)
  BY <1>2, <1>3, <1>5, <1>6, SeqEqual
<1>8. Total(Append(LogCounts(logs), n)) = Total(LogCounts(logs)) + n
  <2>1. LogCounts(logs) \in Seq(Int) /\ n \in Int
    BY <1>2
  <2> QED
    BY <2>1, TotalOfAppend
<1> QED
  BY <1>1, <1>4, <1>7, <1>8

LEMMA SpendingAtFirst ==
    ASSUME Init PROVE SpendingInv
<1>1. TypeInv /\ EvidenceLines(evidence) = 0 /\ EvidenceHunks(evidence) = 0
  BY FirstState
<1>2. /\ budget.maxRequests \in Nat /\ budget.maxHunks \in Nat /\ input.maxSignals \in Nat
      /\ input.maxChanges \in Nat /\ budget.maxFiles \in Nat
  BY BudgetIsTyped DEF Init
<1>3. Files \in Nat
  <2>1. PICK a \in Nat, b \in Nat : a = input.maxChanges /\ b = budget.maxFiles
    BY <1>2
  <2>2. Least(a, b) \in Nat
    BY LeastOf
  <2> QED
    BY <2>1, <2>2 DEF Files
<1>4. Len(evidence.changes) = 0 /\ Len(evidence.signals) = 0
  BY DEF Init, NoEvidence
<1>5. requests = 0 /\ lines = 0 /\ place = "status"
  BY DEF Init
<1>6. /\ evidence.changes = <<>> /\ had.changes = <<>>
      /\ evidence.signals = <<>> /\ had.signals = <<>>
  BY DEF Init, NoEvidence, Nobody
<1> QED
  BY <1>1, <1>2, <1>3, <1>4, <1>5, <1>6 DEF SpendingInv

(* A step of one request more at most, that leaves the evidence alone.     *)
LEMMA SpendingWithoutEvidence ==
    ASSUME TypeInv, SpendingInv, Assemble,
           UNCHANGED <<evidence, lines>>, had'.changes = had.changes, had'.signals = had.signals,
           requests' <= budget.maxRequests,
           place' # "status", place' = "analysis" => requests' <= 1,
           place' \in Early => place \in Early,
           place' \in Early \cup {"telemetry"} => place \in Early \cup {"telemetry"}
    PROVE  SpendingInv'
<1>1. input' = input /\ budget' = budget
  BY BudgetIsFixed DEF Next
<1>2. Files' = Files
  BY <1>1 DEF Files
<1> QED
  BY <1>1, <1>2 DEF SpendingInv

LEMMA SpendingOfALog ==
    ASSUME TypeInv, SpendingInv, Log
    PROVE  SpendingInv'
<1>1. input' = input /\ budget' = budget /\ budget.maxRequests \in Nat
  BY BudgetIsFixed, BudgetIsTyped DEF Next, Assemble, TypeInv, TypeOK
<1>2. Files' = Files
  BY <1>1 DEF Files
<1>3. place' \in {"logs", "scm"} /\ place = "logs" /\ Head(jobs) \in Nat
  BY NextJobOf DEF Log, TypeInv
<1>4. requests' <= budget.maxRequests
  <2>1. requests' = requests \/ (requests' = requests + 1 /\ requests < budget.maxRequests)
    BY DEF Log, MayRequest
  <2> QED
    BY <1>1, <2>1 DEF SpendingInv, TypeInv, TypeOK
<1>5. CASE lines < budget.maxLines /\ ReadLog
  <2>1. PICK length, kept : LogShows(length, kept)
    BY <1>5, LogRead DEF TypeInv
  <2>2. PICK log \in LogRecord : log = [job |-> Head(jobs), lines |-> kept]
    BY <1>3, <2>1 DEF LogShows, LogRecord
  <2>3. evidence \in EvidenceRecord /\ evidence' \in EvidenceRecord
    BY LogKeepsTypes DEF TypeInv, TypeOK, AssemblyTyped
  <2>4. /\ evidence'.logs = Append(evidence.logs, log)
        /\ evidence'.changes = evidence.changes /\ evidence'.signals = evidence.signals
        /\ had'.changes = had.changes /\ had'.signals = had.signals
    BY <2>1, <2>2, <2>3 DEF LogShows, EvidenceRecord, TypeInv, TypeOK
  <2>5. PICK a \in Nat : a = Total(LogCounts(evidence.logs))
    BY <2>3, CountsOfEvidence, CountsOfLogs
  <2>6. PICK b \in Nat : b = Total(LineCounts(evidence.changes))
    BY <2>3, CountsOfEvidence, CountsOfChanges
  <2>7. Total(LogCounts(evidence'.logs)) = a + kept
    <3>1. evidence.logs \in Seq(LogRecord)
      BY <2>3 DEF EvidenceRecord
    <3> QED
      BY <2>2, <2>4, <2>5, <3>1, CountsOfOneMoreLog
  <2>8. EvidenceLines(evidence) = a + b
    BY <2>3, <2>5, <2>6, CountsOfEvidence
  <2>9. EvidenceLines(evidence') = (a + kept) + b
    BY <2>3, <2>4, <2>6, <2>7, CountsOfEvidence
  <2>10. EvidenceLines(evidence') <= lines'
    BY <2>1, <2>8, <2>9 DEF LogShows, SpendingInv, TypeInv, TypeOK
  <2>11. EvidenceHunks(evidence') = EvidenceHunks(evidence)
    BY <2>3, <2>4, CountsOfEvidence
  <2> QED
    BY <1>1, <1>2, <1>3, <1>4, <2>4, <2>10, <2>11 DEF SpendingInv, Early
<1>6. CASE UNCHANGED <<lines, evidence, had>>
  BY <1>1, <1>2, <1>3, <1>4, <1>6 DEF SpendingInv, Early
<1> QED
  BY <1>5, <1>6 DEF Log

LEMMA SpendingOfChanges ==
    ASSUME TypeInv, SpendingInv, SCM
    PROVE  SpendingInv'
<1>1. input' = input /\ budget' = budget /\ budget.maxRequests \in Nat /\ budget.maxHunks \in Nat
  BY BudgetIsFixed, BudgetIsTyped DEF Next, Assemble, TypeInv, TypeOK
<1>2. Files' = Files
  BY <1>1 DEF Files
<1>3. place' = "telemetry" /\ place = "scm"
  BY DEF SCM
<1>4. requests' <= budget.maxRequests
  <2>1. requests' = requests \/ (requests' = requests + 1 /\ requests < budget.maxRequests)
    BY DEF SCM, Unasked, MayRequest
  <2> QED
    BY <1>1, <2>1 DEF SpendingInv, TypeInv, TypeOK
<1>5. CASE ReadChanges
  <2>1. PICK changes, kept : ChangesShow(changes, kept)
    BY <1>5, ChangesRead DEF TypeInv
  <2>2. evidence \in EvidenceRecord /\ evidence' \in EvidenceRecord
    BY SCMKeepsTypes DEF TypeInv, TypeOK, AssemblyTyped
  <2>3. /\ evidence'.logs = evidence.logs /\ evidence'.changes = kept
        /\ evidence'.signals = evidence.signals /\ had'.signals = had.signals
    BY <2>1, <2>2 DEF ChangesShow, EvidenceRecord, TypeInv, TypeOK
  <2>4. PICK a \in Nat : a = Total(LogCounts(evidence.logs))
    BY <2>2, CountsOfEvidence, CountsOfLogs
  <2>5. PICK b \in Nat : b = Total(LineCounts(kept))
    BY <2>1, CountsOfChanges DEF ChangesShow
  <2>6. EvidenceLines(evidence) = a + 0
    <3>1. evidence.changes = <<>>
      BY <1>3 DEF SpendingInv, Early
    <3> QED
      BY <2>2, <2>4, <3>1, CountsOfEvidence, CountsOfNoChanges
  <2>7. EvidenceLines(evidence') = a + b /\ EvidenceHunks(evidence') = Total(HunkCounts(kept))
    BY <2>2, <2>3, <2>4, <2>5, CountsOfEvidence
  <2>8. EvidenceLines(evidence') <= lines'
    BY <2>1, <2>5, <2>6, <2>7 DEF ChangesShow, SpendingInv, TypeInv, TypeOK
  <2>9. EvidenceHunks(evidence') <= budget.maxHunks /\ Len(evidence'.changes) <= Files
    BY <2>1, <2>3, <2>7 DEF ChangesShow
  <2> QED
    BY <1>1, <1>2, <1>3, <1>4, <2>3, <2>8, <2>9 DEF SpendingInv, Early
<1>6. CASE UNCHANGED <<lines, evidence, had>>
  BY <1>1, <1>2, <1>3, <1>4, <1>6 DEF SpendingInv, Early
<1> QED
  BY <1>5, <1>6 DEF SCM

LEMMA SpendingOfSignals ==
    ASSUME TypeInv, SpendingInv, Telemetry
    PROVE  SpendingInv'
<1>1. input' = input /\ budget' = budget /\ budget.maxRequests \in Nat /\ input.maxSignals \in Nat
  BY BudgetIsFixed, BudgetIsTyped DEF Next, Assemble, TypeInv, TypeOK
<1>2. Files' = Files
  BY <1>1 DEF Files
<1>3. place' = "fitting" /\ place = "telemetry" /\ lines' = lines
  BY DEF Telemetry
<1>4. requests' <= budget.maxRequests
  <2>1. requests' = requests \/ (requests' = requests + 1 /\ requests < budget.maxRequests)
    BY DEF Telemetry, Unasked, MayRequest
  <2> QED
    BY <1>1, <2>1 DEF SpendingInv, TypeInv, TypeOK
<1>5. ASSUME NEW signals \in SignalAnswers,
             evidence' = [evidence EXCEPT !.signals = InWindow(signals, input.maxSignals)]
      PROVE  SpendingInv'
  <2>1. signals \in Seq(SignalRecord)
    BY AnswerAssumption
  <2>2. Len(InWindow(signals, input.maxSignals)) <= input.maxSignals
    BY <1>1, <2>1, SignalsInWindow
  <2>3. evidence \in EvidenceRecord /\ evidence' \in EvidenceRecord
    BY TelemetryKeepsTypes DEF TypeInv, TypeOK, AssemblyTyped
  <2>4. /\ evidence'.logs = evidence.logs /\ evidence'.changes = evidence.changes
        /\ evidence'.signals = InWindow(signals, input.maxSignals)
    BY <1>5, <2>3 DEF EvidenceRecord
  <2>5. /\ EvidenceLines(evidence') = EvidenceLines(evidence)
        /\ EvidenceHunks(evidence') = EvidenceHunks(evidence)
    BY <2>3, <2>4, CountsOfEvidence
  <2> QED
    BY <1>1, <1>2, <1>3, <1>4, <2>2, <2>4, <2>5 DEF SpendingInv, Early
<1>6. CASE UNCHANGED <<evidence, had>>
  BY <1>1, <1>2, <1>3, <1>4, <1>6 DEF SpendingInv, Early
<1> QED
  BY <1>5, <1>6 DEF Telemetry

LEMMA SpendingOfFitting ==
    ASSUME TypeInv, SpendingInv, Fit
    PROVE  SpendingInv'
<1>1. input' = input /\ budget' = budget /\ budget.maxBytes \in Nat /\ budget.maxHunks \in Nat
  BY BudgetIsFixed, BudgetIsTyped DEF Next, Assemble, TypeInv, TypeOK
<1>2. Files' = Files /\ Files \in Nat /\ input.maxSignals \in Nat
  <2>1. PICK a \in Nat, b \in Nat : a = input.maxChanges /\ b = budget.maxFiles
    BY BudgetIsTyped DEF TypeInv, TypeOK
  <2>2. Least(a, b) \in Nat
    BY LeastOf
  <2> QED
    BY <1>1, <2>1, <2>2, BudgetIsTyped DEF Files, TypeInv, TypeOK
<1>3. place' \in {"fitting", "done", "failed"} /\ UNCHANGED <<lines, requests>>
  BY DEF Fit
<1>4. CASE Bytes(evidence) > budget.maxBytes /\ evidence' = Shorten(evidence)
  <2>1. evidence \in EvidenceRecord
    BY DEF TypeInv, TypeOK
  <2>2. evidence' \in EvidenceRecord /\ CutOf(evidence', evidence)
    BY <1>1, <1>4, <2>1, Shortened
  <2>3. /\ EvidenceLines(evidence') <= EvidenceLines(evidence)
        /\ EvidenceHunks(evidence') <= EvidenceHunks(evidence)
        /\ Len(evidence'.changes) <= Len(evidence.changes)
        /\ Len(evidence'.signals) <= Len(evidence.signals)
    BY <2>1, <2>2, CutsGiveNothing
  <2>4. /\ EvidenceLines(evidence') \in Nat /\ EvidenceLines(evidence) \in Nat
        /\ EvidenceHunks(evidence') \in Nat /\ EvidenceHunks(evidence) \in Nat
        /\ Len(evidence'.changes) \in Nat /\ Len(evidence.changes) \in Nat
        /\ Len(evidence'.signals) \in Nat /\ Len(evidence.signals) \in Nat
    BY <2>1, <2>2, CountsOfEvidence DEF EvidenceRecord
  <2>5. /\ EvidenceLines(evidence') <= lines' /\ EvidenceHunks(evidence') <= budget.maxHunks
        /\ Len(evidence'.changes) <= Files /\ Len(evidence'.signals) <= input.maxSignals
    <3>1. lines' = lines /\ lines \in Nat
      BY <1>3 DEF TypeInv, TypeOK
    <3>2. /\ EvidenceLines(evidence) <= lines /\ EvidenceHunks(evidence) <= budget.maxHunks
          /\ Len(evidence.changes) <= Files /\ Len(evidence.signals) <= input.maxSignals
      BY DEF SpendingInv
    <3>3. \A i, j, k \in Int : i <= j /\ j <= k => i <= k
      OBVIOUS
    <3>4. Nat \subseteq Int
      OBVIOUS
    <3> QED
      BY <1>1, <1>2, <2>3, <2>4, <3>1, <3>2, <3>3, <3>4, Zenon
  <2> QED
    BY <1>1, <1>2, <1>3, <2>5 DEF SpendingInv, Early
<1>5. CASE evidence' = evidence
  BY <1>1, <1>2, <1>3, <1>5 DEF SpendingInv, Early
<1> QED
  BY <1>4, <1>5 DEF Fit

LEMMA SpendingIsKept ==
    ASSUME TypeInv, SpendingInv, [Next]_vars
    PROVE  SpendingInv'
<1>1. CASE Assemble
  <2>1. /\ budget.maxRequests \in Nat /\ budget.maxRequests >= 2
    BY BudgetIsTyped DEF TypeInv, TypeOK
  <2>2. CASE Status
    <3>1. requests' = 1 /\ place' \in {"analysis", "failed"} /\ UNCHANGED <<evidence, lines, had>>
          /\ place = "status"
      BY <2>2 DEF Status, Fail, SpendingInv
    <3> QED
      BY <1>1, <2>1, <3>1, SpendingWithoutEvidence DEF Early
  <2>3. CASE Analysis
    <3>1. requests' = requests + 1 /\ place' \in {"remediation", "failed"}
          /\ UNCHANGED <<evidence, lines>> /\ place = "analysis"
      BY <2>3 DEF Analysis, Fail
    <3>2. had'.changes = had.changes /\ had'.signals = had.signals
      BY <2>3 DEF Analysis, Fail, TypeInv, TypeOK
    <3>3. requests' <= budget.maxRequests
      BY <2>1, <3>1 DEF SpendingInv, TypeInv, TypeOK
    <3> QED
      BY <1>1, <3>1, <3>2, <3>3, SpendingWithoutEvidence DEF Early
  <2>4. CASE Remediation
    <3>1. /\ place' = "logs" /\ UNCHANGED <<evidence, lines, had>> /\ place = "remediation"
      BY <2>4 DEF Remediation
    <3>2. requests' <= budget.maxRequests
      <4>1. requests' = requests \/ (requests' = requests + 1 /\ requests < budget.maxRequests)
        BY <2>4 DEF Remediation, MayRequest
      <4> QED
        BY <2>1, <4>1 DEF SpendingInv, TypeInv, TypeOK
    <3> QED
      BY <1>1, <3>1, <3>2, SpendingWithoutEvidence DEF Early
  <2>5. CASE NoLogs
    <3>1. /\ place' = "scm" /\ UNCHANGED <<evidence, lines, had, requests>> /\ place = "logs"
      BY <2>5 DEF NoLogs
    <3> QED
      BY <1>1, <3>1, SpendingWithoutEvidence DEF Early, SpendingInv
  <2> QED
    BY <1>1, <2>2, <2>3, <2>4, <2>5, SpendingOfALog, SpendingOfChanges, SpendingOfSignals,
       SpendingOfFitting DEF Assemble
<1>2. CASE Caller \/ UNCHANGED vars
  <2>1. UNCHANGED <<input, assembly>> /\ budget' = budget
    BY <1>2, AssemblyIsLeft, BudgetIsFixed DEF Next, Caller
  <2> QED
    BY <2>1 DEF assembly, SpendingInv, Files
<1> QED
  BY <1>1, <1>2 DEF Next, Caller

-----------------------------------------------------------------------------
(* What the callback is shown *)

InputRecord == [diff : Nat, logs : Nat, metrics : Nat, traces : Nat,
                optional : Nat, required : Nat \ 0..2]

SpareBefore(in, i) == Total([j \in 1..(i - 1) |-> Spare(in, j)])

LEMMA Spares ==
    ASSUME NEW in \in InputRecord
    PROVE  /\ Spare(in, 1) = in.logs /\ Spare(in, 2) = in.metrics
           /\ Spare(in, 3) = in.traces /\ Spare(in, 4) = in.diff
           /\ Spare(in, 5) = in.optional /\ Spare(in, 6) = in.required - 3
           /\ \A i \in 1..6 : Spare(in, i) \in Nat
<1>1. /\ Spare(in, 1) = in.logs - 0 /\ Spare(in, 2) = in.metrics - 0
      /\ Spare(in, 3) = in.traces - 0 /\ Spare(in, 4) = in.diff - 0
      /\ Spare(in, 5) = in.optional - 0 /\ Spare(in, 6) = in.required - 3
  BY DEF Spare, DropOrder, SmallestOf
<1>2. /\ in.logs \in Nat /\ in.metrics \in Nat /\ in.traces \in Nat /\ in.diff \in Nat
      /\ in.optional \in Nat /\ in.required \in Nat /\ in.required >= 3
  BY DEF InputRecord
<1>3. \A i \in 1..6 : i = 1 \/ i = 2 \/ i = 3 \/ i = 4 \/ i = 5 \/ i = 6
  OBVIOUS
<1> QED
  BY <1>1, <1>2, <1>3

LEMMA SpareBeforeTheNext ==
    ASSUME NEW in \in InputRecord, NEW i \in 1..5
    PROVE  /\ SpareBefore(in, 1) = 0
           /\ SpareBefore(in, i) \in Int
           /\ SpareBefore(in, i + 1) = SpareBefore(in, i) + Spare(in, i)
<1>1. \A j \in 1..6 : Spare(in, j) \in Nat
  BY Spares
<1> DEFINE s == [j \in 1..i |-> Spare(in, j)]
<1>2. s \in Seq(Int) /\ Len(s) = i /\ s # <<>> /\ s[i] = Spare(in, i)
  <2>1. s = [j \in 1..i |-> s[j]] /\ \A j \in 1..i : s[j] \in Int
    BY <1>1
  <2>2. i \in Nat /\ s[i] = Spare(in, i)
    OBVIOUS
  <2> HIDE DEF s
  <2>3. s \in Seq(Int) /\ Len(s) = i
    BY <2>1, <2>2, ListOf
  <2> QED
    BY <2>2, <2>3
<1>3. SubSeq(s, 1, i - 1) = [j \in 1..(i - 1) |-> Spare(in, j)]
  BY <1>2
<1>4. SpareBefore(in, i + 1) = Total(s)
  <2>1. (i + 1) - 1 = i
    OBVIOUS
  <2> QED
    BY <2>1 DEF SpareBefore
<1>5. SpareBefore(in, 1) = 0
  <2>1. [j \in 1..(1 - 1) |-> Spare(in, j)] = <<>>
    OBVIOUS
  <2> QED
    BY <2>1, TotalOfNone, Zenon DEF SpareBefore
<1> HIDE DEF s
<1>6. Total(s) = Total(SubSeq(s, 1, Len(s) - 1)) + s[Len(s)] /\ Total(SubSeq(s, 1, Len(s) - 1)) \in Int
  BY <1>2, TotalOfLast
<1> QED
  BY <1>2, <1>3, <1>4, <1>5, <1>6 DEF SpareBefore

(* A field gives what the fields before it could not.                      *)
LEMMA FieldGives ==
    ASSUME NEW in \in InputRecord, NEW max \in Nat, InputBytes(in) >= max, NEW i \in 1..6,
           NEW p \in Nat, p = SpareBefore(in, i), NEW m, m = InputBytes(in) - max
    PROVE  Least(Spare(in, i), Excess(in, i, max)) = Least(m, p + Spare(in, i)) - Least(m, p)
<1>1. InputBytes(in) \in Nat
  BY DEF InputBytes, InputRecord
<1>2. m \in Nat
  BY <1>1
<1>3. PICK c \in Nat : c = Spare(in, i)
  BY Spares
<1>4. Excess(in, i, max) = Rest(m, p)
  BY DEF Excess, SpareBefore
<1>5. Least(c, Rest(m, p)) = Least(m, p + c) - Least(m, p)
  <2>1. PICK k \in Nat, u \in Int : k = m /\ u = p
    BY <1>2
  <2>2. Least(c, Rest(k, u)) = Least(k, u + c) - Least(k, u)
    BY ShareOfTheRest
  <2> QED
    BY <2>1, <2>2
<1> QED
  BY <1>3, <1>4, <1>5

LEMMA FittedFields ==
    ASSUME NEW in \in InputRecord, NEW max \in Nat, NEW out, out = fitInputBytes(in, max)
    PROVE  /\ out.logs = in.logs - Least(Spare(in, 1), Excess(in, 1, max))
           /\ out.metrics = in.metrics - Least(Spare(in, 2), Excess(in, 2, max))
           /\ out.traces = in.traces - Least(Spare(in, 3), Excess(in, 3, max))
           /\ out.diff = in.diff - Least(Spare(in, 4), Excess(in, 4, max))
           /\ out.optional = in.optional - Least(Spare(in, 5), Excess(in, 5, max))
           /\ out.required = in.required - Least(Spare(in, 6), Excess(in, 6, max))
<1>1. DOMAIN DropOrder = {1, 2, 3, 4, 5, 6} /\ DOMAIN in = {"diff", "logs", "metrics", "traces", "optional", "required"}
  BY DEF DropOrder, InputRecord
<1>2. /\ DropOrder[1] = "logs" /\ DropOrder[2] = "metrics" /\ DropOrder[3] = "traces"
      /\ DropOrder[4] = "diff" /\ DropOrder[5] = "optional" /\ DropOrder[6] = "required"
  BY DEF DropOrder
<1>3. ASSUME NEW k \in DOMAIN DropOrder, NEW field \in DOMAIN in, DropOrder[k] = field
      PROVE  out[field] = in[field] - Least(Spare(in, k), Excess(in, k, max))
  <2>1. (CHOOSE j \in DOMAIN DropOrder : DropOrder[j] = field) = k
    BY <1>1, <1>2, <1>3
  <2> QED
    BY <2>1 DEF fitInputBytes
<1> QED
  BY <1>1, <1>2, <1>3

LEMMA InputFits ==
    ASSUME NEW in \in InputRecord, NEW max \in Nat, max >= 3
    PROVE  InputBytes(fitInputBytes(in, max)) <= max
<1>0. /\ in.logs \in Nat /\ in.metrics \in Nat /\ in.traces \in Nat /\ in.diff \in Nat
      /\ in.optional \in Nat /\ in.required \in Nat /\ in.required >= 3
  BY DEF InputRecord
<1>1. PICK out : out = fitInputBytes(in, max)
  OBVIOUS
<1>2. PICK x1 \in Nat, x2 \in Nat, x3 \in Nat, x4 \in Nat, x5 \in Nat :
        x1 = in.logs /\ x2 = in.metrics /\ x3 = in.traces /\ x4 = in.diff /\ x5 = in.optional
  BY <1>0
<1>3. PICK x6 \in Nat : x6 = in.required - 3
  BY <1>0
<1>4. /\ Spare(in, 1) = x1 /\ Spare(in, 2) = x2 /\ Spare(in, 3) = x3
      /\ Spare(in, 4) = x4 /\ Spare(in, 5) = x5 /\ Spare(in, 6) = x6
  BY <1>2, <1>3, Spares
<1>5. PICK p1 \in Nat : p1 = x1
  OBVIOUS
<1>6. PICK p2 \in Nat, p3 \in Nat : p2 = p1 + x2 /\ p3 = p2 + x3
  OBVIOUS
<1>7. PICK p4 \in Nat, p5 \in Nat : p4 = p3 + x4 /\ p5 = p4 + x5
  OBVIOUS
<1>8. PICK p6 \in Nat : p6 = p5 + x6
  OBVIOUS
<1>9. PICK total \in Nat : total = InputBytes(in) /\ total = p6 + 3
  BY <1>0, <1>2, <1>3, <1>5, <1>6, <1>7, <1>8 DEF InputBytes
<1>10. /\ SpareBefore(in, 1) = 0 /\ SpareBefore(in, 2) = p1 /\ SpareBefore(in, 3) = p2
       /\ SpareBefore(in, 4) = p3 /\ SpareBefore(in, 5) = p4 /\ SpareBefore(in, 6) = p5
  <2>1. \A i \in 1..5 : /\ SpareBefore(in, 1) = 0
                        /\ SpareBefore(in, i) \in Int
                        /\ SpareBefore(in, i + 1) = SpareBefore(in, i) + Spare(in, i)
    BY SpareBeforeTheNext
  <2>2. SpareBefore(in, 2) = 0 + x1
    BY <1>4, <2>1
  <2>3. SpareBefore(in, 3) = SpareBefore(in, 2) + x2
    BY <1>4, <2>1
  <2>4. SpareBefore(in, 4) = SpareBefore(in, 3) + x3
    BY <1>4, <2>1
  <2>5. SpareBefore(in, 5) = SpareBefore(in, 4) + x4
    BY <1>4, <2>1
  <2>6. SpareBefore(in, 6) = SpareBefore(in, 5) + x5
    BY <1>4, <2>1
  <2> QED
    BY <1>5, <1>6, <1>7, <2>1, <2>2, <2>3, <2>4, <2>5, <2>6
<1>11. /\ out.logs = in.logs - Least(Spare(in, 1), Excess(in, 1, max))
       /\ out.metrics = in.metrics - Least(Spare(in, 2), Excess(in, 2, max))
       /\ out.traces = in.traces - Least(Spare(in, 3), Excess(in, 3, max))
       /\ out.diff = in.diff - Least(Spare(in, 4), Excess(in, 4, max))
       /\ out.optional = in.optional - Least(Spare(in, 5), Excess(in, 5, max))
       /\ out.required = in.required - Least(Spare(in, 6), Excess(in, 6, max))
  BY <1>1, FittedFields
<1>12. CASE total >= max
  <2>1. PICK m \in Nat : m = total - max
    BY <1>12
  <2>2. ASSUME NEW i \in 1..6, NEW p \in Nat, p = SpareBefore(in, i)
        PROVE  Least(Spare(in, i), Excess(in, i, max)) = Least(m, p + Spare(in, i)) - Least(m, p)
    <3>1. InputBytes(in) >= max /\ m = InputBytes(in) - max
      BY <1>9, <1>12, <2>1
    <3> QED
      BY <2>2, <3>1, FieldGives
  <2>3. \A q \in Int : Least(m, q) \in Int /\ Least(m, q) = IF m <= q THEN m ELSE q
    BY LeastOf
  <2>4. PICK l0 \in Int, l1 \in Int, l2 \in Int, l3 \in Int :
           /\ l0 = Least(m, 0) /\ l1 = Least(m, p1) /\ l2 = Least(m, p2) /\ l3 = Least(m, p3)
    BY <2>3
  <2>5. PICK l4 \in Int, l5 \in Int, l6 \in Int :
           l4 = Least(m, p4) /\ l5 = Least(m, p5) /\ l6 = Least(m, p6)
    BY <2>3
  <2>6. l0 = 0 /\ l6 = IF m <= p6 THEN m ELSE p6
    BY <2>3, <2>4, <2>5
  <2>7. /\ 0 + x1 = p1 /\ p1 + x2 = p2 /\ p2 + x3 = p3 /\ p3 + x4 = p4
        /\ p4 + x5 = p5 /\ p5 + x6 = p6
    BY <1>5, <1>6, <1>7, <1>8
  <2>8. /\ Least(Spare(in, 1), Excess(in, 1, max)) = l1 - l0
        /\ Least(Spare(in, 2), Excess(in, 2, max)) = l2 - l1
        /\ Least(Spare(in, 3), Excess(in, 3, max)) = l3 - l2
    BY <1>4, <1>10, <2>2, <2>4, <2>7
  <2>9. /\ Least(Spare(in, 4), Excess(in, 4, max)) = l4 - l3
        /\ Least(Spare(in, 5), Excess(in, 5, max)) = l5 - l4
        /\ Least(Spare(in, 6), Excess(in, 6, max)) = l6 - l5
    BY <1>4, <1>10, <2>2, <2>4, <2>5, <2>7
  <2>10. /\ out.logs = in.logs - (l1 - l0) /\ out.metrics = in.metrics - (l2 - l1)
         /\ out.traces = in.traces - (l3 - l2) /\ out.diff = in.diff - (l4 - l3)
         /\ out.optional = in.optional - (l5 - l4) /\ out.required = in.required - (l6 - l5)
    BY <1>11, <2>8, <2>9, Zenon
  <2>11. InputBytes(out) = InputBytes(in) - (l6 - l0)
    BY <1>0, <2>10 DEF InputBytes
  <2> QED
    <3>1. total - (l6 - l0) <= max
      BY <1>9, <2>1, <2>6
    <3> QED
      BY <1>1, <1>9, <2>11, <3>1, Zenon
<1>13. CASE total < max
  <2>1. ASSUME NEW i \in 1..6, NEW p \in Nat, p = SpareBefore(in, i)
        PROVE  Least(Spare(in, i), Excess(in, i, max)) = 0
    <3>1. PICK m \in Int : m = total - max
      OBVIOUS
    <3>2. Excess(in, i, max) = Rest(m, p)
      BY <1>9, <2>1, <3>1 DEF Excess, SpareBefore
    <3>3. Rest(m, p) = 0
      BY <1>13, <3>1, RestOf
    <3>4. PICK x \in Nat : x = Spare(in, i)
      BY Spares
    <3>5. PICK z \in Int : z = 0
      OBVIOUS
    <3>6. Least(x, z) = 0
      BY <3>5, LeastOf
    <3> QED
      BY <3>2, <3>3, <3>4, <3>5, <3>6
  <2>2. PICK z \in Int : z = 0
    OBVIOUS
  <2>3. /\ Least(Spare(in, 1), Excess(in, 1, max)) = z
        /\ Least(Spare(in, 2), Excess(in, 2, max)) = z
        /\ Least(Spare(in, 3), Excess(in, 3, max)) = z
    BY <1>10, <2>1, <2>2
  <2>4. /\ Least(Spare(in, 4), Excess(in, 4, max)) = z
        /\ Least(Spare(in, 5), Excess(in, 5, max)) = z
        /\ Least(Spare(in, 6), Excess(in, 6, max)) = z
    BY <1>10, <2>1, <2>2
  <2>5. /\ out.logs = in.logs - z /\ out.metrics = in.metrics - z
        /\ out.traces = in.traces - z /\ out.diff = in.diff - z
        /\ out.optional = in.optional - z /\ out.required = in.required - z
    BY <1>11, <2>3, <2>4, Zenon
  <2>6. InputBytes(out) = InputBytes(in)
    BY <1>0, <2>2, <2>5 DEF InputBytes
  <2>7. total <= max
    BY <1>13
  <2> QED
    BY <1>1, <1>9, <2>6, <2>7, Zenon
<1> QED
  BY <1>9, <1>12, <1>13

LEMMA BoundedInputFits ==
    ASSUME NEW e \in EvidenceRecord
    PROVE  InputBytes(boundAnalysisInput(recommendationInputForAnalysis(e))) <= InputLimits.maxBytes
<1>1. /\ Len(e.changes) \in Nat /\ Len(e.logs) \in Nat
      /\ SignalsOf(e, "metric") \in Nat /\ SignalsOf(e, "trace") \in Nat
  <2>1. /\ e.changes \in Seq(ChangeRecord) /\ e.logs \in Seq(LogRecord)
        /\ e.signals \in Seq(SignalRecord)
    BY DEF EvidenceRecord
  <2>2. \A kind : SignalsOf(e, kind) \in Nat
    <3>1. SUFFICES ASSUME NEW kind PROVE SignalsOf(e, kind) \in Nat
      OBVIOUS
    <3>2. PICK places : places = {i \in DOMAIN e.signals : e.signals[i].kind = kind}
      OBVIOUS
    <3> QED
      BY <2>1, <3>2, PlacesAreFinite DEF SignalsOf
  <2> QED
    BY <2>1, <2>2
<1>2. PICK d \in Nat, l \in Nat, m \in Nat, t \in Nat :
         /\ d = Least(Len(e.changes), InputLimits.maxDiff)
         /\ l = Least(Len(e.logs), InputLimits.maxLogs)
         /\ m = Least(SignalsOf(e, "metric"), InputLimits.maxSignals)
         /\ t = Least(SignalsOf(e, "trace"), InputLimits.maxSignals)
  <2>1. /\ InputLimits.maxDiff \in Nat /\ InputLimits.maxLogs \in Nat
        /\ InputLimits.maxSignals \in Nat
    BY InputAssumption
  <2>2. \A a, b \in Nat : Least(a, b) \in Nat
    BY LeastOf
  <2> QED
    BY <1>1, <2>1, <2>2
<1>3. PICK r \in InputRecord : r = recommendationInputForAnalysis(e)
  <2>1. PICK a \in Nat, b \in Nat : a = Len(e.changes) /\ b = Len(e.logs)
    BY <1>1
  <2>2. PICK v \in Nat, w \in Nat : v = SignalsOf(e, "metric") /\ w = SignalsOf(e, "trace")
    BY <1>1
  <2>3. 1 \in Nat /\ 6 \in Nat \ 0..2
    OBVIOUS
  <2>4. [diff |-> a, logs |-> b, metrics |-> v, traces |-> w, optional |-> 1, required |-> 6]
          \in InputRecord
    BY <2>3 DEF InputRecord
  <2> QED
    BY <2>1, <2>2, <2>4, Zenon DEF recommendationInputForAnalysis
<1>4. PICK in \in InputRecord :
         boundAnalysisInput(recommendationInputForAnalysis(e)) = fitInputBytes(in, InputLimits.maxBytes)
  <2>1. [r EXCEPT !.diff = d, !.logs = l, !.metrics = m, !.traces = t] \in InputRecord
    BY DEF InputRecord
  <2>2. /\ r.diff = Len(e.changes) /\ r.logs = Len(e.logs)
        /\ r.metrics = SignalsOf(e, "metric") /\ r.traces = SignalsOf(e, "trace")
    BY <1>3 DEF recommendationInputForAnalysis
  <2>3. [r EXCEPT !.diff = d, !.logs = l, !.metrics = m, !.traces = t]
          = [r EXCEPT !.diff = Least(@, InputLimits.maxDiff),
                      !.logs = Least(@, InputLimits.maxLogs),
                      !.metrics = Least(@, InputLimits.maxSignals),
                      !.traces = Least(@, InputLimits.maxSignals)]
    BY <1>2, <2>2, Zenon
  <2> QED
    BY <1>3, <2>1, <2>3, Zenon DEF boundAnalysisInput
<1>5. InputLimits.maxBytes \in Nat /\ InputLimits.maxBytes >= 3
  BY InputAssumption
<1> QED
  BY <1>4, <1>5, InputFits

-----------------------------------------------------------------------------
(* What is given up for the bytes *)

Wanted == InWindow(had.signals, input.maxSignals)

(* Nothing is given up before the evidence is fitted; then a signal or a   *)
(* log only when what comes before it is all gone, and the size is still   *)
(* at the limit.                                                           *)
FittingInv ==
    /\ place \in Early \cup {"telemetry"} => Len(evidence.logs) = Len(had.logs)
    /\ place \in {"fitting", "done"} =>
          /\ evidence.signals # Wanted =>
                evidence.changes = <<>> /\ Bytes(evidence) >= budget.maxBytes
          /\ Len(evidence.logs) < Len(had.logs) =>
                /\ evidence.changes = <<>> /\ evidence.signals = <<>>
                /\ Bytes(evidence) >= budget.maxBytes
    /\ place = "done" => Bytes(evidence) <= budget.maxBytes

SeenInv == InputBytes(seen) <= InputLimits.maxBytes

BudgetInv == TypeInv /\ SpendingInv /\ FittingInv /\ SeenInv

LEMMA NothingInWindow ==
    ASSUME NEW n \in Nat
    PROVE  InWindow(<<>>, n) = <<>>
<1>0. <<>> \in Seq(SignalRecord)
  OBVIOUS
<1>1. PICK s \in Seq(SignalRecord) : s = <<>> /\ Len(s) = 0
  BY <1>0
<1>2. InWindow(s, n) \in Seq(SignalRecord) /\ Len(InWindow(s, n)) <= Len(s)
  BY SignalsInWindow
<1>3. InWindow(s, n) = <<>>
  BY <1>1, <1>2
<1> QED
  BY <1>1, <1>3

LEMMA FittingOfALog ==
    ASSUME TypeInv, FittingInv, Log
    PROVE  FittingInv'
<1>1. place' \in {"logs", "scm"} /\ place = "logs" /\ Head(jobs) \in Nat
  BY NextJobOf DEF Log, TypeInv
<1>2. CASE lines < budget.maxLines /\ ReadLog
  <2>1. PICK length, kept : LogShows(length, kept)
    BY <1>2, LogRead DEF TypeInv
  <2>2. PICK log \in LogRecord, seenLog \in LogRecord :
           /\ log = [job |-> Head(jobs), lines |-> kept]
           /\ seenLog = [job |-> Head(jobs), lines |-> length]
    BY <1>1, <2>1 DEF LogShows, LogRecord
  <2>3. evidence.logs \in Seq(LogRecord) /\ had.logs \in Seq(LogRecord)
    BY DEF TypeInv, TypeOK, EvidenceRecord
  <2>4. /\ evidence'.logs = Append(evidence.logs, log)
        /\ had'.logs = Append(had.logs, seenLog)
    BY <2>1, <2>2 DEF LogShows, EvidenceRecord, TypeInv, TypeOK
  <2>5. /\ Len(evidence'.logs) = Len(evidence.logs) + 1
        /\ Len(had'.logs) = Len(had.logs) + 1
    BY <2>2, <2>3, <2>4, CountsOfOneMoreLog
  <2> QED
    BY <1>1, <2>5 DEF FittingInv, Early
<1>3. CASE UNCHANGED <<evidence, had>>
  BY <1>1, <1>3 DEF FittingInv, Early
<1> QED
  BY <1>2, <1>3 DEF Log

LEMMA FittingOfChanges ==
    ASSUME TypeInv, FittingInv, SCM
    PROVE  FittingInv'
<1>1. place' = "telemetry" /\ place = "scm"
  BY DEF SCM
<1>2. CASE ReadChanges
  <2>1. PICK changes, kept : ChangesShow(changes, kept)
    BY <1>2, ChangesRead DEF TypeInv
  <2>2. evidence'.logs = evidence.logs /\ had'.logs = had.logs
    BY <2>1 DEF ChangesShow, TypeInv, TypeOK, EvidenceRecord
  <2> QED
    BY <1>1, <2>2 DEF FittingInv, Early
<1>3. CASE UNCHANGED <<evidence, had>>
  BY <1>1, <1>3 DEF FittingInv, Early
<1> QED
  BY <1>2, <1>3 DEF SCM

LEMMA FittingOfSignals ==
    ASSUME TypeInv, SpendingInv, FittingInv, Telemetry
    PROVE  FittingInv'
<1>1. place' = "fitting" /\ place = "telemetry"
  BY DEF Telemetry
<1>2. input' = input /\ budget' = budget /\ input.maxSignals \in Nat
  BY BudgetIsFixed, BudgetIsTyped DEF Next, Assemble, TypeInv, TypeOK
<1>3. Len(evidence.logs) = Len(had.logs) /\ Len(had.logs) \in Nat
  BY <1>1 DEF FittingInv, TypeInv, TypeOK
<1>4. ASSUME NEW signals \in SignalAnswers,
             evidence' = [evidence EXCEPT !.signals = InWindow(signals, input.maxSignals)],
             had' = [had EXCEPT !.signals = signals]
      PROVE  FittingInv'
  <2>1. /\ evidence'.logs = evidence.logs /\ had'.logs = had.logs /\ had'.signals = signals
        /\ evidence'.signals = InWindow(signals, input.maxSignals)
    BY <1>4 DEF TypeInv, TypeOK, EvidenceRecord
  <2>2. evidence'.signals = Wanted'
    BY <1>2, <2>1 DEF Wanted
  <2> QED
    BY <1>1, <1>3, <2>1, <2>2 DEF FittingInv, Early
<1>5. CASE UNCHANGED <<evidence, had>>
  <2>1. evidence.signals = <<>> /\ had.signals = <<>>
    BY <1>1 DEF SpendingInv
  <2>2. Wanted = <<>>
    BY <1>2, <2>1, NothingInWindow DEF Wanted
  <2>3. evidence'.signals = Wanted' /\ evidence'.logs = evidence.logs /\ had'.logs = had.logs
    BY <1>2, <1>5, <2>1, <2>2 DEF Wanted
  <2> QED
    BY <1>1, <1>3, <2>3 DEF FittingInv, Early
<1> QED
  BY <1>4, <1>5 DEF Telemetry

LEMMA FittingOfFitting ==
    ASSUME TypeInv, FittingInv, Fit
    PROVE  FittingInv'
<1>1. /\ input' = input /\ budget' = budget /\ budget.maxBytes \in Nat /\ had' = had
      /\ evidence \in EvidenceRecord /\ Bytes(evidence) \in Nat
  <2>1. evidence \in EvidenceRecord
    BY DEF TypeInv, TypeOK
  <2> QED
    BY <2>1, CountsOfEvidence, BudgetIsFixed, BudgetIsTyped DEF Next, Assemble, TypeInv, TypeOK, Fit
<1>2. Wanted' = Wanted
  BY <1>1 DEF Wanted
<1>3. place = "fitting"
  BY DEF Fit
<1>4. CASE Bytes(evidence) > budget.maxBytes /\ evidence' = Shorten(evidence) /\ place' = place
  <2>1. evidence' \in EvidenceRecord /\ CutOf(evidence', evidence)
    BY <1>1, <1>4, Shortened
  <2>2. Len(evidence.logs) \in Nat /\ Len(had.logs) \in Nat
    BY DEF TypeInv, TypeOK, EvidenceRecord
  <2>3. CASE /\ evidence.changes # <<>>
             /\ evidence'.logs = evidence.logs /\ evidence'.signals = evidence.signals
    BY <1>1, <1>2, <1>3, <1>4, <2>2, <2>3 DEF FittingInv, Early
  <2>4. CASE /\ evidence'.logs = evidence.logs /\ evidence'.changes = <<>>
             /\ evidence.signals # <<>> /\ Bytes(evidence') = Bytes(evidence) - 1
    BY <1>1, <1>2, <1>3, <1>4, <2>2, <2>4 DEF FittingInv, Early
  <2>5. CASE /\ evidence'.changes = <<>> /\ evidence'.signals = <<>>
             /\ Bytes(evidence') = Bytes(evidence) - 1
    BY <1>1, <1>2, <1>3, <1>4, <2>2, <2>5 DEF FittingInv, Early
  <2> QED
    BY <2>1, <2>3, <2>4, <2>5 DEF CutOf
<1>5. CASE /\ ~(Bytes(evidence) > budget.maxBytes) /\ evidence' = evidence
           /\ place' \in {"done", "failed"}
  <2>1. Bytes(evidence) <= budget.maxBytes
    BY <1>1, <1>5
  <2> QED
    BY <1>1, <1>2, <1>3, <1>5, <2>1 DEF FittingInv, Early
<1> QED
  BY <1>4, <1>5 DEF Fit

LEMMA FittingIsKept ==
    ASSUME TypeInv, SpendingInv, FittingInv, [Next]_vars
    PROVE  FittingInv'
<1>1. CASE Status
  BY <1>1 DEF Status, Fail, FittingInv, Early
<1>2. CASE Analysis
  <2>1. evidence' = evidence /\ had'.logs = had.logs /\ place' \in {"remediation", "failed"}
        /\ place = "analysis"
    BY <1>2 DEF Analysis, Fail, TypeInv, TypeOK
  <2> QED
    BY <2>1 DEF FittingInv, Early
<1>3. CASE Remediation
  <2>1. evidence' = evidence /\ had' = had /\ place' = "logs" /\ place = "remediation"
    BY <1>3 DEF Remediation
  <2> QED
    BY <2>1 DEF FittingInv, Early
<1>4. CASE NoLogs
  BY <1>4 DEF NoLogs, FittingInv, Early
<1>5. CASE Caller \/ UNCHANGED vars
  <2>1. UNCHANGED <<input, assembly>> /\ budget' = budget
    BY <1>5, AssemblyIsLeft, BudgetIsFixed DEF Next, Caller
  <2> QED
    BY <2>1 DEF assembly, FittingInv, Wanted
<1> QED
  BY <1>1, <1>2, <1>3, <1>4, <1>5, FittingOfALog, FittingOfChanges, FittingOfSignals,
     FittingOfFitting DEF Next, Assemble, Caller

LEMMA SeenIsKept ==
    ASSUME TypeInv, SeenInv, [Next]_vars
    PROVE  SeenInv'
<1>1. CASE UNCHANGED seen
  BY <1>1 DEF SeenInv
<1>2. ASSUME NEW a, NEW built, Settle, a = IF place = "done" THEN Assembled ELSE Nothing,
             StartCallback(a, built)
      PROVE  SeenInv'
  <2>1. a.evidence \in EvidenceRecord
    <3>1. evidence \in EvidenceRecord
      BY DEF TypeInv, TypeOK
    <3>2. NoEvidence \in EvidenceRecord
      BY DEF NoEvidence, EvidenceRecord
    <3> QED
      BY <1>2, <3>1, <3>2 DEF Assembled, Nothing
  <2>2. seen' = boundAnalysisInput(recommendationInputForAnalysis(a.evidence))
    BY <1>2 DEF StartCallback
  <2> QED
    BY <2>1, <2>2, BoundedInputFits DEF SeenInv
<1>3. CASE Assemble
  <2>1. UNCHANGED seen
    BY <1>3, CallerIsLeft DEF advice
  <2> QED
    BY <1>1, <2>1
<1>4. CASE Settle
  <2>1. ASSUME NEW a, NEW built, Conclude(a, built)
        PROVE  UNCHANGED seen
    BY <2>1 DEF Conclude
  <2> QED
    BY <1>1, <1>2, <1>4, <2>1 DEF Settle
<1>5. CASE Answer \/ Deadline \/ GiveUp \/ Reply \/ Stop \/ UNCHANGED vars
  <2>1. UNCHANGED seen
    BY <1>5 DEF Answer, Deadline, GiveUp, Reply, Stop, Conclude, vars, advice
  <2> QED
    BY <1>1, <2>1
<1> QED
  BY <1>3, <1>4, <1>5 DEF Next

LEMMA FittingAtFirst ==
    ASSUME Init
    PROVE  FittingInv /\ SeenInv
<1>1. place = "status" /\ Len(evidence.logs) = Len(had.logs)
  BY DEF Init, NoEvidence, Nobody
<1>2. InputBytes(seen) = 0
  BY DEF Init, NoInput, InputBytes
<1>3. InputLimits.maxBytes \in Nat
  BY InputAssumption
<1> QED
  BY <1>1, <1>2, <1>3 DEF FittingInv, SeenInv

(* The inductive invariant of BudgetsHold.                                 *)
THEOREM BudgetsAreConsistent == Spec => []BudgetInv
<1>1. Init => BudgetInv
  BY FirstState, SpendingAtFirst, FittingAtFirst DEF BudgetInv
<1>2. BudgetInv /\ [Next]_vars => BudgetInv'
  BY TypesAreKept, SpendingIsKept, FittingIsKept, SeenIsKept DEF BudgetInv
<1> QED
  BY <1>1, <1>2, PTL DEF Spec

(* Whatever the providers answer, and however long after its caller has    *)
(* given it up, an analysis makes no more requests and keeps no more       *)
(* files, hunks, lines and bytes than its budget; the bytes cost it its    *)
(* changes first, then signals, then logs; and the callback is shown no    *)
(* more than its limit (forensics.ts 48-198, 429-454, analysis-policy.ts   *)
(* 258-282).                                                               *)
THEOREM AnalysisBudgetsHold == Spec => []BudgetsHold
<1>1. ASSUME BudgetInv PROVE BudgetsHold
  <2>1. /\ lines <= budget.maxLines /\ EvidenceLines(evidence) <= lines
        /\ lines \in Nat /\ budget.maxLines \in Nat /\ evidence \in EvidenceRecord
    BY <1>1, BudgetIsTyped DEF BudgetInv, TypeInv, TypeOK, SpendingInv
  <2>2. EvidenceLines(evidence) \in Nat /\ Bytes(evidence) \in Nat /\ budget.maxBytes \in Nat
    BY <1>1, <2>1, CountsOfEvidence, BudgetIsTyped DEF BudgetInv, TypeInv, TypeOK
  <2>3. EvidenceLines(evidence) <= budget.maxLines
    BY <2>1, <2>2
  <2>4. CutInOrder
    BY <1>1, <2>2 DEF BudgetInv, FittingInv, CutInOrder, Wanted
  <2>5. /\ requests <= budget.maxRequests
        /\ EvidenceHunks(evidence) <= budget.maxHunks
        /\ Len(evidence.changes) <= Least(input.maxChanges, budget.maxFiles)
        /\ Len(evidence.signals) <= input.maxSignals
        /\ place = "done" => Bytes(evidence) <= budget.maxBytes
        /\ InputBytes(seen) <= InputLimits.maxBytes
    BY <1>1 DEF BudgetInv, SpendingInv, FittingInv, SeenInv, Files
  <2> QED
    BY <2>3, <2>4, <2>5 DEF BudgetsHold
<1> QED
  BY <1>1, BudgetsAreConsistent, PTL

-----------------------------------------------------------------------------
(* Who is listed as a source *)

LogsOf(sources) == {s \in sources : s.name = "ci-log"}

Names(sources) == {s.name : s \in sources \ LogsOf(sources)}

LogJobs(sources) == {s.job : s \in LogsOf(sources)}

LoggedJobs(sources) == {s.job : s \in {t \in LogsOf(sources) : t.reason = "available"}}

ListedOnce(sources) ==
    /\ \A s \in sources : s.name # "ci-log" => s.job = 0
    /\ \A s, t \in sources : s.name = t.name /\ s.job = t.job => s = t

ShownJobs(e) == {l.job : l \in ToSet(e.logs)}

(* Who has been listed by then.                                            *)
NamesAt(p) ==
    (IF p \in {"status", "analysis"} THEN {} ELSE MandatorySources)
    \cup (IF p \in {"status", "analysis", "remediation"} THEN {} ELSE {"ci-remediation"})
    \cup (IF p \in Early THEN {} ELSE {"scm"})
    \cup (IF p \in Early \cup {"telemetry"} THEN {} ELSE {"telemetry"})

SourcesInv ==
    /\ ListedOnce(provenance)
    /\ place # "failed" => Names(provenance) = NamesAt(place)

(* The jobs whose logs are still to come, and those that are listed.       *)
JobsInv ==
    /\ IsInjective(jobs)
    /\ place \notin {"remediation", "logs", "failed"} => jobs = <<>>
    /\ place # "failed" => had.jobs = ToSet(jobs) \cup LogJobs(provenance)
    /\ ToSet(jobs) \cap LogJobs(provenance) = {}
    /\ place \in {"status", "analysis", "remediation"} => LogJobs(provenance) = {}

(* What the evidence holds comes from those listed as available.           *)
ShownInv ==
    /\ place \in {"status", "analysis", "remediation"} => plan = {}
    /\ plan # {} => IsAvailable("ci-remediation")
    /\ evidence.changes # <<>> => IsAvailable("scm")
    /\ evidence.signals # <<>> => IsAvailable("telemetry")
    /\ ShownJobs(evidence) \subseteq LoggedJobs(provenance)
    /\ place \in Early \cup {"telemetry"} => ShownJobs(evidence) = LoggedJobs(provenance)
    /\ place \in {"fitting", "done"} /\ ShownJobs(evidence) # LoggedJobs(provenance) =>
          /\ evidence.changes = <<>> /\ evidence.signals = <<>>
          /\ Bytes(evidence) >= budget.maxBytes

AccountInv == TypeInv /\ SpendingInv /\ SourcesInv /\ JobsInv /\ ShownInv

LEMMA OneMoreName ==
    ASSUME NEW sources, ListedOnce(sources), NEW name, NEW reason,
           name # "ci-log", name \notin Names(sources),
           NEW more, more = sources \cup {Source(name, 0, reason)}
    PROVE  /\ ListedOnce(more)
           /\ Names(more) = Names(sources) \cup {name}
           /\ LogJobs(more) = LogJobs(sources)
           /\ LoggedJobs(more) = LoggedJobs(sources)
<1>1. PICK new : new = Source(name, 0, reason)
  OBVIOUS
<1>2. new.name = name /\ new.job = 0 /\ new.reason = reason
  BY <1>1 DEF Source
<1>3. more = sources \cup {new} /\ LogsOf(more) = LogsOf(sources)
  BY <1>1, <1>2 DEF LogsOf
<1>4. more \ LogsOf(more) = (sources \ LogsOf(sources)) \cup {new}
  BY <1>2, <1>3 DEF LogsOf
<1>5. Names(more) = Names(sources) \cup {name}
  BY <1>2, <1>4 DEF Names
<1>6. \A s \in sources : s.name # name
  BY DEF Names, LogsOf
<1>7. ListedOnce(more)
  BY <1>2, <1>3, <1>6 DEF ListedOnce
<1> QED
  BY <1>3, <1>5, <1>7 DEF LogJobs, LoggedJobs

LEMMA OneMoreLogSource ==
    ASSUME NEW sources, ListedOnce(sources), NEW job, NEW reason,
           job \notin LogJobs(sources),
           NEW more, more = sources \cup {Source("ci-log", job, reason)}
    PROVE  /\ ListedOnce(more)
           /\ Names(more) = Names(sources)
           /\ LogJobs(more) = LogJobs(sources) \cup {job}
           /\ reason = "available" => LoggedJobs(more) = LoggedJobs(sources) \cup {job}
           /\ reason # "available" => LoggedJobs(more) = LoggedJobs(sources)
<1>1. PICK new : new = Source("ci-log", job, reason)
  OBVIOUS
<1>2. new.name = "ci-log" /\ new.job = job /\ new.reason = reason
  BY <1>1 DEF Source
<1>3. more = sources \cup {new} /\ LogsOf(more) = LogsOf(sources) \cup {new}
  BY <1>1, <1>2 DEF LogsOf
<1>4. more \ LogsOf(more) = sources \ LogsOf(sources)
  BY <1>2, <1>3 DEF LogsOf
<1>5. Names(more) = Names(sources)
  BY <1>4 DEF Names
<1>6. \A s \in sources : s.name = "ci-log" => s.job # job
  BY DEF LogJobs, LogsOf
<1>7. ListedOnce(more)
  BY <1>2, <1>3, <1>6 DEF ListedOnce
<1>8. LogJobs(more) = LogJobs(sources) \cup {job}
  BY <1>2, <1>3 DEF LogJobs
<1>9. {t \in LogsOf(more) : t.reason = "available"} =
         {t \in LogsOf(sources) : t.reason = "available"} \cup (IF reason = "available" THEN {new} ELSE {})
  BY <1>2, <1>3
<1>10. reason = "available" => LoggedJobs(more) = LoggedJobs(sources) \cup {job}
  BY <1>2, <1>9 DEF LoggedJobs
<1>11. reason # "available" => LoggedJobs(more) = LoggedJobs(sources)
  BY <1>9 DEF LoggedJobs
<1> QED
  BY <1>5, <1>7, <1>8, <1>10, <1>11

LEMMA AvailableStays ==
    ASSUME provenance \subseteq provenance'
    PROVE  \A name : IsAvailable(name) => IsAvailable(name)'
BY DEF IsAvailable, Named

LEMMA AvailableNow ==
    ASSUME NEW name, NEW job, provenance' = provenance \cup {Source(name, job, "available")}
    PROVE  IsAvailable(name)'
<1>1. PICK new : new = Source(name, job, "available")
  OBVIOUS
<1>2. new \in provenance' /\ new.name = name /\ new.reason = "available"
  BY <1>1 DEF Source
<1> QED
  BY <1>2 DEF IsAvailable, Named

LEMMA NobodyShown ==
    ASSUME evidence = NoEvidence
    PROVE  ShownJobs(evidence) = {}
<1>1. evidence.logs = <<>>
  BY DEF NoEvidence
<1>2. ToSet(<<>>) = {}
  BY DEF ToSet
<1> QED
  BY <1>1, <1>2 DEF ShownJobs

LEMMA AccountAtFirst ==
    ASSUME Init
    PROVE  AccountInv
<1>1. TypeInv /\ SpendingInv
  BY FirstState, SpendingAtFirst
<1>2. /\ provenance = {} /\ place = "status" /\ plan = {} /\ evidence = NoEvidence
      /\ jobs = <<>> /\ had.jobs = {}
  BY DEF Init, Nobody
<1>3. /\ LogsOf({}) = {} /\ Names({}) = {} /\ LogJobs({}) = {} /\ LoggedJobs({}) = {}
  BY DEF LogsOf, Names, LogJobs, LoggedJobs
<1>4. SourcesInv
  BY <1>2, <1>3 DEF SourcesInv, ListedOnce, NamesAt, Early
<1>5. ToSet(jobs) = {} /\ IsInjective(jobs)
  BY <1>2 DEF ToSet, IsInjective
<1>6. JobsInv
  BY <1>2, <1>3, <1>5 DEF JobsInv
<1>7. ShownInv
  BY <1>2, <1>3, NobodyShown DEF ShownInv, Early, NoEvidence
<1> QED
  BY <1>1, <1>4, <1>6, <1>7 DEF AccountInv

LEMMA TailOfJobs ==
    ASSUME NEW list \in Seq(Nat), list # <<>>, IsInjective(list)
    PROVE  /\ Tail(list) \in Seq(Nat) /\ IsInjective(Tail(list))
           /\ ToSet(list) = {Head(list)} \cup ToSet(Tail(list))
           /\ Head(list) \notin ToSet(Tail(list))
<1>1. /\ Tail(list) \in Seq(Nat) /\ Len(Tail(list)) = Len(list) - 1 /\ Len(list) \in Nat \ {0}
      /\ \A i \in 1..Len(Tail(list)) : Tail(list)[i] = list[i + 1]
      /\ Head(list) = list[1]
  <2>1. Len(list) \in Nat
    OBVIOUS
  <2> QED
    BY <2>1
<1>2. DOMAIN list = 1..Len(list) /\ DOMAIN Tail(list) = 1..(Len(list) - 1)
  BY <1>1
<1>3. \A i, j \in 1..Len(list) : list[i] = list[j] => i = j
  BY <1>2 DEF IsInjective
<1>4. IsInjective(Tail(list))
  <2>1. SUFFICES ASSUME NEW i \in 1..(Len(list) - 1), NEW j \in 1..(Len(list) - 1),
                        Tail(list)[i] = Tail(list)[j]
                 PROVE  i = j
    BY <1>2 DEF IsInjective
  <2>2. list[i + 1] = list[j + 1] /\ i + 1 \in 1..Len(list) /\ j + 1 \in 1..Len(list)
    BY <1>1, <2>1
  <2>3. i + 1 = j + 1
    BY <1>3, <2>2
  <2> QED
    BY <2>3
<1>5. Head(list) \notin ToSet(Tail(list))
  <2>1. SUFFICES ASSUME NEW i \in 1..(Len(list) - 1), Tail(list)[i] = list[1]
                 PROVE  FALSE
    BY <1>1, <1>2 DEF ToSet
  <2>2. list[i + 1] = list[1] /\ i + 1 \in 1..Len(list) /\ 1 \in 1..Len(list)
    BY <1>1, <2>1
  <2>3. i + 1 = 1
    BY <1>3, <2>2
  <2> QED
    BY <2>3
<1>6. ToSet(list) = {Head(list)} \cup ToSet(Tail(list))
  <2>1. ToSet(list) \subseteq {Head(list)} \cup ToSet(Tail(list))
    <3>1. SUFFICES ASSUME NEW i \in 1..Len(list)
                   PROVE  list[i] = Head(list) \/ list[i] \in ToSet(Tail(list))
      BY <1>2 DEF ToSet
    <3>2. CASE i = 1
      BY <1>1, <3>2
    <3>3. CASE i # 1
      <4>1. i - 1 \in 1..(Len(list) - 1) /\ Tail(list)[i - 1] = list[i]
        BY <1>1, <3>3
      <4> QED
        BY <1>2, <4>1 DEF ToSet
    <3> QED
      BY <3>2, <3>3
  <2>2. {Head(list)} \cup ToSet(Tail(list)) \subseteq ToSet(list)
    <3>1. \A i \in 1..(Len(list) - 1) : Tail(list)[i] = list[i + 1] /\ i + 1 \in 1..Len(list)
      BY <1>1
    <3>2. 1 \in 1..Len(list)
      BY <1>1
    <3> QED
      BY <1>1, <1>2, <3>1, <3>2 DEF ToSet
  <2> QED
    BY <2>1, <2>2
<1> QED
  BY <1>1, <1>4, <1>5, <1>6

LEMMA OneMoreLogShown ==
    ASSUME NEW logs \in Seq(LogRecord), NEW log \in LogRecord
    PROVE  ToSet(Append(logs, log)) = ToSet(logs) \cup {log}
<1>1. /\ Append(logs, log) \in Seq(LogRecord)
      /\ Len(Append(logs, log)) = Len(logs) + 1 /\ Len(logs) \in Nat
      /\ \A i \in 1..Len(logs) : Append(logs, log)[i] = logs[i]
      /\ Append(logs, log)[Len(logs) + 1] = log
  <2>1. Len(logs) \in Nat
    OBVIOUS
  <2> QED
    BY <2>1, AppendProperties
<1>2. DOMAIN logs = 1..Len(logs) /\ DOMAIN Append(logs, log) = 1..(Len(logs) + 1)
  BY <1>1
<1>3. \A i \in 1..(Len(logs) + 1) : i \in 1..Len(logs) \/ i = Len(logs) + 1
  BY <1>1
<1>4. \A i \in 1..Len(logs) : i \in 1..(Len(logs) + 1)
  BY <1>1
<1>5. Len(logs) + 1 \in 1..(Len(logs) + 1)
  BY <1>1
<1> QED
  BY <1>1, <1>2, <1>3, <1>4, <1>5, Zenon DEF ToSet

Reading == Early \cup {"telemetry"}

(* A step that reads no evidence.                                          *)
LEMMA ShownWithoutEvidence ==
    ASSUME ShownInv, place \in Reading, UNCHANGED <<evidence, plan>>,
           provenance \subseteq provenance',
           LoggedJobs(provenance') = LoggedJobs(provenance),
           place' \in {"status", "analysis", "remediation"} =>
              place \in {"status", "analysis", "remediation"}
    PROVE  ShownInv'
<1>1. \A name : IsAvailable(name) => IsAvailable(name)'
  BY AvailableStays
<1>2. ShownJobs(evidence)' = LoggedJobs(provenance)'
  BY DEF ShownInv, Reading
<1> QED
  BY <1>1, <1>2 DEF ShownInv, Reading

LEMMA AccountOfStatus ==
    ASSUME AccountInv, Status
    PROVE  SourcesInv' /\ JobsInv' /\ ShownInv'
<1>1. /\ place = "status" /\ place' \in {"analysis", "failed"}
      /\ UNCHANGED <<provenance, evidence, plan, jobs, had>>
  BY DEF Status, Fail
<1>2. NamesAt("analysis") = NamesAt("status")
  BY DEF NamesAt, Early
<1>3. SourcesInv'
  BY <1>1, <1>2 DEF AccountInv, SourcesInv
<1>4. JobsInv'
  BY <1>1 DEF AccountInv, JobsInv
<1>5. ShownInv'
  BY <1>1, ShownWithoutEvidence DEF AccountInv, Reading, Early
<1> QED
  BY <1>3, <1>4, <1>5

LEMMA AccountOfAnalysis ==
    ASSUME AccountInv, Analysis
    PROVE  SourcesInv' /\ JobsInv' /\ ShownInv'
<1>1. /\ place = "analysis" /\ UNCHANGED <<evidence, plan>>
  BY DEF Analysis, Fail
<1>2. CASE Fail(IF Inherited THEN "no-such-method" ELSE "analysis")
  <2>1. place' = "failed" /\ UNCHANGED <<provenance, evidence, plan, jobs, had>>
    BY <1>2 DEF Fail
  <2>2. SourcesInv' /\ JobsInv'
    BY <1>1, <2>1 DEF AccountInv, SourcesInv, JobsInv
  <2>3. ShownInv'
    BY <1>1, <2>1, ShownWithoutEvidence DEF AccountInv, Reading, Early
  <2> QED
    BY <2>2, <2>3
<1>3. ASSUME NEW list \in JobLists,
             jobs' = SelectJobs(list, input.maxJobs),
             had' = [had EXCEPT !.jobs = ToSet(jobs')],
             Record({Source(name, 0, "available") : name \in MandatorySources}),
             place' = "remediation"
      PROVE  SourcesInv' /\ JobsInv' /\ ShownInv'
  <2>1. PICK one : one = provenance \cup {Source("ci-status", 0, "available")}
    OBVIOUS
  <2>2. provenance' = one \cup {Source("ci-analysis", 0, "available")}
    BY <1>3, <2>1 DEF Record, MandatorySources
  <2>3. Names(provenance) = {} /\ ListedOnce(provenance) /\ LogJobs(provenance) = {}
    BY <1>1 DEF AccountInv, SourcesInv, JobsInv, NamesAt, Early
  <2>4. /\ ListedOnce(one) /\ Names(one) = {"ci-status"}
        /\ LogJobs(one) = {} /\ LoggedJobs(one) = LoggedJobs(provenance)
    BY <2>1, <2>3, OneMoreName
  <2>5. /\ ListedOnce(provenance') /\ Names(provenance') = MandatorySources
        /\ LogJobs(provenance') = {} /\ LoggedJobs(provenance') = LoggedJobs(provenance)
    BY <2>2, <2>4, OneMoreName DEF MandatorySources
  <2>6. SourcesInv'
    BY <1>3, <2>5 DEF SourcesInv, NamesAt, Early
  <2>7. IsInjective(jobs')
    <3>1. input.maxJobs \in Nat
      BY BudgetIsTyped DEF AccountInv, TypeInv, TypeOK
    <3> QED
      BY <1>3, <3>1, AnswerAssumption, SelectedJobs
  <2>8. had'.jobs = ToSet(jobs')
    BY <1>3 DEF AccountInv, TypeInv, TypeOK
  <2>9. JobsInv'
    BY <1>3, <2>5, <2>7, <2>8 DEF JobsInv
  <2>10. ShownInv'
    <3>1. provenance \subseteq provenance'
      BY <2>1, <2>2
    <3> QED
      BY <1>1, <1>3, <2>5, <3>1, ShownWithoutEvidence DEF AccountInv, Reading, Early
  <2> QED
    BY <2>6, <2>9, <2>10
<1> QED
  BY <1>2, <1>3 DEF Analysis

LEMMA AccountOfRemediation ==
    ASSUME AccountInv, Remediation
    PROVE  SourcesInv' /\ JobsInv' /\ ShownInv'
<1>1. /\ place = "remediation" /\ place' = "logs" /\ UNCHANGED <<evidence, jobs, had>>
  BY DEF Remediation
<1>2. PICK reason \in Reasons :
         /\ Record({Source("ci-remediation", 0, reason)})
         /\ reason = "available" \/ plan' = plan
  BY DEF Remediation, ErrorReasons, Reasons
<1>3. Names(provenance) = MandatorySources /\ ListedOnce(provenance)
  BY <1>1 DEF AccountInv, SourcesInv, NamesAt, Early
<1>4. "ci-remediation" \notin MandatorySources
  BY DEF MandatorySources
<1>5. /\ ListedOnce(provenance') /\ Names(provenance') = MandatorySources \cup {"ci-remediation"}
      /\ LogJobs(provenance') = LogJobs(provenance)
      /\ LoggedJobs(provenance') = LoggedJobs(provenance)
  BY <1>2, <1>3, <1>4, OneMoreName DEF Record
<1>6. SourcesInv'
  BY <1>1, <1>5 DEF SourcesInv, NamesAt, Early
<1>7. JobsInv'
  BY <1>1, <1>5 DEF AccountInv, JobsInv
<1>8. ShownInv'
  <2>1. provenance \subseteq provenance'
    BY <1>2 DEF Record
  <2>2. CASE plan' = plan
    BY <1>1, <1>5, <2>1, <2>2, ShownWithoutEvidence DEF AccountInv, Reading, Early
  <2>3. CASE reason = "available"
    <3>1. IsAvailable("ci-remediation")'
      BY <1>2, <2>3, AvailableNow DEF Record
    <3>2. \A name : IsAvailable(name) => IsAvailable(name)'
      BY <2>1, AvailableStays
    <3>3. ShownJobs(evidence)' = LoggedJobs(provenance)'
      BY <1>1, <1>5 DEF AccountInv, ShownInv, Early
    <3> QED
      BY <1>1, <3>1, <3>2, <3>3 DEF AccountInv, ShownInv, Early
  <2> QED
    BY <1>2, <2>2, <2>3
<1> QED
  BY <1>6, <1>7, <1>8

LEMMA AccountOfNoLogs ==
    ASSUME AccountInv, NoLogs
    PROVE  SourcesInv' /\ JobsInv' /\ ShownInv'
<1>1. /\ place = "logs" /\ place' = "scm" /\ jobs = <<>>
      /\ UNCHANGED <<provenance, evidence, plan, jobs, had>>
  BY DEF NoLogs
<1>2. NamesAt("logs") = NamesAt("scm")
  BY DEF NamesAt, Early
<1>3. SourcesInv' /\ JobsInv'
  BY <1>1, <1>2 DEF AccountInv, SourcesInv, JobsInv
<1>4. ShownInv'
  BY <1>1, ShownWithoutEvidence DEF AccountInv, Reading, Early
<1> QED
  BY <1>3, <1>4

LEMMA AccountOfALog ==
    ASSUME AccountInv, Log
    PROVE  SourcesInv' /\ JobsInv' /\ ShownInv'
<1>1. /\ place = "logs" /\ place' \in {"logs", "scm"} /\ jobs' = Tail(jobs) /\ plan' = plan
      /\ place' = "scm" => jobs' = <<>>
      /\ Head(jobs) \in Nat
  BY NextJobOf DEF Log, AccountInv, TypeInv
<1>2. /\ IsInjective(jobs') /\ ToSet(jobs) = {Head(jobs)} \cup ToSet(jobs')
      /\ Head(jobs) \notin ToSet(jobs')
  BY <1>1, TailOfJobs DEF Log, AccountInv, JobsInv, TypeInv, TypeOK
<1>3. Head(jobs) \notin LogJobs(provenance)
  BY <1>1, <1>2 DEF AccountInv, JobsInv
<1>4. PICK reason \in Reasons :
         /\ Record({Source("ci-log", Head(jobs), reason)})
         /\ \/ reason = "available" /\ lines < budget.maxLines /\ ReadLog
            \/ reason # "available" /\ UNCHANGED <<evidence, had>>
  BY DEF Log, ReadLog, ErrorReasons, Reasons, BudgetReason
<1>5. /\ ListedOnce(provenance') /\ Names(provenance') = Names(provenance)
      /\ LogJobs(provenance') = LogJobs(provenance) \cup {Head(jobs)}
      /\ reason = "available" =>
            LoggedJobs(provenance') = LoggedJobs(provenance) \cup {Head(jobs)}
      /\ reason # "available" => LoggedJobs(provenance') = LoggedJobs(provenance)
  BY <1>3, <1>4, OneMoreLogSource DEF Record, AccountInv, SourcesInv
<1>6. NamesAt("logs") = NamesAt("scm")
  BY DEF NamesAt, Early
<1>7. SourcesInv'
  BY <1>1, <1>5, <1>6 DEF AccountInv, SourcesInv
<1>8. provenance \subseteq provenance'
  BY <1>4 DEF Record
<1>9. CASE reason = "available" /\ lines < budget.maxLines /\ ReadLog
  <2>1. PICK length, kept : LogShows(length, kept)
    BY <1>9, LogRead DEF AccountInv, TypeInv
  <2>2. PICK log \in LogRecord : log = [job |-> Head(jobs), lines |-> kept] /\ log.job = Head(jobs)
    BY <1>1, <2>1 DEF LogShows, LogRecord
  <2>3. evidence.logs \in Seq(LogRecord)
    BY DEF AccountInv, TypeInv, TypeOK, EvidenceRecord
  <2>4. /\ evidence'.logs = Append(evidence.logs, log)
        /\ evidence'.changes = evidence.changes /\ evidence'.signals = evidence.signals
        /\ had'.jobs = had.jobs
    BY <2>1, <2>2 DEF LogShows, EvidenceRecord, AccountInv, TypeInv, TypeOK
  <2>5. ToSet(evidence'.logs) = ToSet(evidence.logs) \cup {log}
    BY <2>2, <2>3, <2>4, OneMoreLogShown
  <2>6. ShownJobs(evidence') = ShownJobs(evidence) \cup {Head(jobs)}
    BY <2>2, <2>5 DEF ShownJobs
  <2>7. JobsInv'
    BY <1>1, <1>2, <1>5, <2>4 DEF AccountInv, JobsInv
  <2>8. ShownInv'
    <3>1. ShownJobs(evidence') = LoggedJobs(provenance')
      BY <1>1, <1>5, <1>9, <2>6 DEF AccountInv, ShownInv, Early
    <3>2. \A name : IsAvailable(name) => IsAvailable(name)'
      BY <1>8, AvailableStays
    <3> QED
      BY <1>1, <2>4, <3>1, <3>2 DEF AccountInv, ShownInv, Early
  <2> QED
    BY <1>7, <2>7, <2>8
<1>10. CASE reason # "available" /\ UNCHANGED <<evidence, had>>
  <2>1. JobsInv'
    BY <1>1, <1>2, <1>5, <1>10 DEF AccountInv, JobsInv
  <2>2. ShownInv'
    BY <1>1, <1>5, <1>8, <1>10, ShownWithoutEvidence DEF AccountInv, Reading, Early
  <2> QED
    BY <1>7, <2>1, <2>2
<1> QED
  BY <1>4, <1>9, <1>10

LEMMA AccountOfChanges ==
    ASSUME AccountInv, SCM
    PROVE  SourcesInv' /\ JobsInv' /\ ShownInv'
<1>1. /\ place = "scm" /\ place' = "telemetry" /\ UNCHANGED <<jobs, plan>>
  BY DEF SCM
<1>2. PICK reason \in Reasons :
         /\ Record({Source("scm", 0, reason)})
         /\ \/ reason = "available" /\ ReadChanges
            \/ UNCHANGED <<evidence, had>>
  BY DEF SCM, Refusals, Reasons, Unasked
<1>3. /\ Names(provenance) = MandatorySources \cup {"ci-remediation"}
      /\ ListedOnce(provenance)
  BY <1>1 DEF AccountInv, SourcesInv, NamesAt, Early
<1>4. "scm" \notin MandatorySources \cup {"ci-remediation"}
  BY DEF MandatorySources
<1>5. /\ ListedOnce(provenance')
      /\ Names(provenance') = MandatorySources \cup {"ci-remediation"} \cup {"scm"}
      /\ LogJobs(provenance') = LogJobs(provenance)
      /\ LoggedJobs(provenance') = LoggedJobs(provenance)
  BY <1>2, <1>3, <1>4, OneMoreName DEF Record
<1>6. SourcesInv'
  BY <1>1, <1>5 DEF SourcesInv, NamesAt, Early
<1>7. provenance \subseteq provenance'
  BY <1>2 DEF Record
<1>8. CASE reason = "available" /\ ReadChanges
  <2>1. PICK changes, kept : ChangesShow(changes, kept)
    BY <1>8, ChangesRead DEF AccountInv, TypeInv
  <2>2. /\ evidence'.logs = evidence.logs /\ evidence'.signals = evidence.signals
        /\ had'.jobs = had.jobs
    BY <2>1 DEF ChangesShow, EvidenceRecord, AccountInv, TypeInv, TypeOK
  <2>3. JobsInv'
    BY <1>1, <1>5, <2>2 DEF AccountInv, JobsInv
  <2>4. IsAvailable("scm")'
    BY <1>2, <1>8, AvailableNow DEF Record
  <2>5. \A name : IsAvailable(name) => IsAvailable(name)'
    BY <1>7, AvailableStays
  <2>6. ShownJobs(evidence') = LoggedJobs(provenance')
    BY <1>1, <1>5, <2>2 DEF AccountInv, ShownInv, Early, ShownJobs
  <2>7. ShownInv'
    BY <1>1, <2>2, <2>4, <2>5, <2>6 DEF AccountInv, ShownInv, Early
  <2> QED
    BY <1>6, <2>3, <2>7
<1>9. CASE UNCHANGED <<evidence, had>>
  <2>1. JobsInv'
    BY <1>1, <1>5, <1>9 DEF AccountInv, JobsInv
  <2>2. ShownInv'
    BY <1>1, <1>5, <1>7, <1>9, ShownWithoutEvidence DEF AccountInv, Reading, Early
  <2> QED
    BY <1>6, <2>1, <2>2
<1> QED
  BY <1>2, <1>8, <1>9

LEMMA AccountOfSignals ==
    ASSUME AccountInv, Telemetry
    PROVE  SourcesInv' /\ JobsInv' /\ ShownInv'
<1>1. /\ place = "telemetry" /\ place' = "fitting" /\ UNCHANGED <<jobs, plan>>
  BY DEF Telemetry
<1>2. PICK reason \in Reasons :
         /\ Record({Source("telemetry", 0, reason)})
         /\ \/ /\ reason = "available"
               /\ \E signals \in SignalAnswers :
                     /\ evidence' = [evidence EXCEPT !.signals = InWindow(signals, input.maxSignals)]
                     /\ had' = [had EXCEPT !.signals = signals]
            \/ UNCHANGED <<evidence, had>>
  BY DEF Telemetry, Refusals, Reasons, Unasked
<1>3. /\ Names(provenance) = MandatorySources \cup {"ci-remediation"} \cup {"scm"}
      /\ ListedOnce(provenance)
  BY <1>1 DEF AccountInv, SourcesInv, NamesAt, Early
<1>4. "telemetry" \notin MandatorySources \cup {"ci-remediation"} \cup {"scm"}
  BY DEF MandatorySources
<1>5. /\ ListedOnce(provenance')
      /\ Names(provenance') =
            MandatorySources \cup {"ci-remediation"} \cup {"scm"} \cup {"telemetry"}
      /\ LogJobs(provenance') = LogJobs(provenance)
      /\ LoggedJobs(provenance') = LoggedJobs(provenance)
  BY <1>2, <1>3, <1>4, OneMoreName DEF Record
<1>6. SourcesInv'
  BY <1>1, <1>5 DEF SourcesInv, NamesAt, Early
<1>7. provenance \subseteq provenance'
  BY <1>2 DEF Record
<1>8. ASSUME reason = "available", NEW signals,
             evidence' = [evidence EXCEPT !.signals = InWindow(signals, input.maxSignals)],
             had' = [had EXCEPT !.signals = signals]
      PROVE  JobsInv' /\ ShownInv'
  <2>1. /\ evidence'.logs = evidence.logs /\ evidence'.changes = evidence.changes
        /\ had'.jobs = had.jobs
    BY <1>8 DEF EvidenceRecord, AccountInv, TypeInv, TypeOK
  <2>2. JobsInv'
    BY <1>1, <1>5, <2>1 DEF AccountInv, JobsInv
  <2>3. IsAvailable("telemetry")'
    BY <1>2, <1>8, AvailableNow DEF Record
  <2>4. \A name : IsAvailable(name) => IsAvailable(name)'
    BY <1>7, AvailableStays
  <2>5. ShownJobs(evidence') = LoggedJobs(provenance')
    BY <1>1, <1>5, <2>1 DEF AccountInv, ShownInv, Early, ShownJobs
  <2>6. ShownInv'
    BY <1>1, <2>1, <2>3, <2>4, <2>5 DEF AccountInv, ShownInv, Early
  <2> QED
    BY <2>2, <2>6
<1>9. CASE UNCHANGED <<evidence, had>>
  <2>1. JobsInv'
    BY <1>1, <1>5, <1>9 DEF AccountInv, JobsInv
  <2>2. ShownInv'
    BY <1>1, <1>5, <1>7, <1>9, ShownWithoutEvidence DEF AccountInv, Reading, Early
  <2> QED
    BY <1>6, <2>1, <2>2
<1> QED
  BY <1>2, <1>6, <1>8, <1>9

LEMMA AccountOfFitting ==
    ASSUME AccountInv, FittingInv, Fit
    PROVE  SourcesInv' /\ JobsInv' /\ ShownInv'
<1>1. /\ place = "fitting" /\ UNCHANGED <<provenance, jobs, had, plan>> /\ budget' = budget
      /\ place' \in {"fitting", "done", "failed"}
      /\ budget.maxBytes \in Nat /\ evidence \in EvidenceRecord /\ Bytes(evidence) \in Nat
  <2>1. evidence \in EvidenceRecord
    BY DEF AccountInv, TypeInv, TypeOK
  <2> QED
    BY <2>1, CountsOfEvidence, BudgetIsFixed, BudgetIsTyped
    DEF Next, Assemble, AccountInv, TypeInv, TypeOK, Fit
<1>2. SourcesInv' /\ JobsInv'
  <2>1. NamesAt("fitting") = NamesAt("done")
    BY DEF NamesAt, Early
  <2> QED
    BY <1>1, <2>1 DEF AccountInv, SourcesInv, JobsInv
<1>3. /\ IsAvailable("ci-remediation")' = IsAvailable("ci-remediation")
      /\ IsAvailable("scm")' = IsAvailable("scm")
      /\ IsAvailable("telemetry")' = IsAvailable("telemetry")
  BY <1>1 DEF IsAvailable, Named
<1>6. /\ plan # {} => IsAvailable("ci-remediation")
      /\ evidence.changes # <<>> => IsAvailable("scm")
      /\ evidence.signals # <<>> => IsAvailable("telemetry")
      /\ ShownJobs(evidence) \subseteq LoggedJobs(provenance)
      /\ ShownJobs(evidence) # LoggedJobs(provenance) =>
            /\ evidence.changes = <<>> /\ evidence.signals = <<>>
            /\ Bytes(evidence) >= budget.maxBytes
  BY <1>1 DEF AccountInv, ShownInv
<1>7. SUFFICES ASSUME NEW e, e = evidence'
               PROVE  /\ e.changes # <<>> => IsAvailable("scm")
                      /\ e.signals # <<>> => IsAvailable("telemetry")
                      /\ ShownJobs(e) \subseteq LoggedJobs(provenance)
                      /\ ShownJobs(e) # LoggedJobs(provenance) =>
                            /\ e.changes = <<>> /\ e.signals = <<>>
                            /\ Bytes(e) >= budget.maxBytes
  <2>1. place' \notin Early \cup {"telemetry"}
    BY <1>1 DEF Early
  <2> QED
    BY <1>1, <1>2, <1>3, <1>6, <2>1 DEF ShownInv, Early
<1>4. CASE e = evidence
  BY <1>6, <1>4
<1>5. CASE Bytes(evidence) > budget.maxBytes /\ e = Shorten(evidence)
  <2>1. e \in EvidenceRecord /\ CutOf(e, evidence)
    BY <1>1, <1>5, Shortened
  <2>2. ShownJobs(e) \subseteq ShownJobs(evidence)
    BY <1>1, <2>1, CutsGiveNothing DEF ShownJobs
  <2>3. CASE /\ evidence.changes # <<>>
             /\ e.logs = evidence.logs /\ e.signals = evidence.signals
    <3>1. ShownJobs(e) = ShownJobs(evidence)
      BY <2>3 DEF ShownJobs
    <3> QED
      BY <1>6, <2>3, <3>1
  <2>4. CASE /\ e.logs = evidence.logs /\ e.changes = <<>>
             /\ evidence.changes = <<>> /\ evidence.signals # <<>>
    <3>1. ShownJobs(e) = ShownJobs(evidence)
      BY <2>4 DEF ShownJobs
    <3> QED
      BY <1>6, <2>4, <3>1
  <2>5. CASE /\ e.changes = <<>> /\ e.signals = <<>>
             /\ Bytes(e) = Bytes(evidence) - 1
    <3>1. Bytes(e) >= budget.maxBytes
      BY <1>1, <1>5, <2>5
    <3> QED
      BY <1>6, <2>2, <2>5, <3>1
  <2> QED
    BY <2>1, <2>3, <2>4, <2>5 DEF CutOf
<1> QED
  BY <1>7, <1>4, <1>5 DEF Fit

LEMMA AccountIsKept ==
    ASSUME AccountInv, FittingInv, [Next]_vars
    PROVE  AccountInv'
<1>1. TypeInv' /\ SpendingInv'
  BY TypesAreKept, SpendingIsKept DEF AccountInv
<1>2. SourcesInv' /\ JobsInv' /\ ShownInv'
  <2>1. CASE Assemble
    BY <2>1, AccountOfStatus, AccountOfAnalysis, AccountOfRemediation, AccountOfALog,
       AccountOfNoLogs, AccountOfChanges, AccountOfSignals, AccountOfFitting DEF Assemble
  <2>2. CASE Caller \/ UNCHANGED vars
    <3>1. UNCHANGED <<input, assembly>> /\ budget' = budget
      BY <2>2, AssemblyIsLeft, BudgetIsFixed DEF Next, Caller
    <3>2. \A name : IsAvailable(name)' = IsAvailable(name)
      BY <3>1 DEF assembly, IsAvailable, Named
    <3> QED
      BY <3>1, <3>2 DEF assembly, AccountInv, SourcesInv, JobsInv, ShownInv
  <2> QED
    BY <2>1, <2>2 DEF Next, Caller
<1> QED
  BY <1>1, <1>2 DEF AccountInv

(* The inductive invariant of EvidenceIsAccounted.                         *)
THEOREM SourcesAreConsistent == Spec => [](AccountInv /\ FittingInv)
<1>1. Init => AccountInv /\ FittingInv
  BY AccountAtFirst, FittingAtFirst
<1>2. AccountInv /\ FittingInv /\ [Next]_vars => (AccountInv /\ FittingInv)'
  BY AccountIsKept, FittingIsKept DEF AccountInv
<1> QED
  BY <1>1, <1>2, PTL DEF Spec

LEMMA FiveNames ==
    LET names == MandatorySources \cup {"ci-remediation", "scm", "telemetry"}
    IN  IsFiniteSet(names) /\ Cardinality(names) = 5
<1> DEFINE s1 == {"ci-status"}
           s2 == s1 \cup {"ci-analysis"}
           s3 == s2 \cup {"ci-remediation"}
           s4 == s3 \cup {"scm"}
           s5 == s4 \cup {"telemetry"}
<1>1. IsFiniteSet(s1) /\ Cardinality(s1) = 1
  BY FS_Singleton
<1>2. IsFiniteSet(s2) /\ Cardinality(s2) = Cardinality(s1) + 1
  BY <1>1, FS_AddElement
<1>3. IsFiniteSet(s3) /\ Cardinality(s3) = Cardinality(s2) + 1
  <2>1. "ci-remediation" \notin s2
    OBVIOUS
  <2> HIDE DEF s2
  <2> QED
    BY <1>2, <2>1, FS_AddElement
<1>4. IsFiniteSet(s4) /\ Cardinality(s4) = Cardinality(s3) + 1
  <2>1. "scm" \notin s3
    OBVIOUS
  <2> HIDE DEF s3
  <2> QED
    BY <1>3, <2>1, FS_AddElement
<1>5. IsFiniteSet(s5) /\ Cardinality(s5) = Cardinality(s4) + 1
  <2>1. "telemetry" \notin s4
    OBVIOUS
  <2> HIDE DEF s4
  <2> QED
    BY <1>4, <2>1, FS_AddElement
<1>6. MandatorySources \cup {"ci-remediation", "scm", "telemetry"} = s5
  BY DEF MandatorySources
<1> HIDE DEF s1, s2, s3, s4, s5
<1> QED
  BY <1>1, <1>2, <1>3, <1>4, <1>5, <1>6

(* Sources that are told apart by their names are as many as those.        *)
LEMMA AsManyAsNames ==
    ASSUME NEW sources, NEW names, names = {s.name : s \in sources}, IsFiniteSet(names),
           \A s, t \in sources : s.name = t.name => s = t
    PROVE  Cardinality(sources) = Cardinality(names)
<1> DEFINE f == [s \in sources |-> s.name]
<1>1. f \in Injection(sources, names) /\ f \in Surjection(sources, names)
  <2>1. f \in [sources -> names]
    OBVIOUS
  <2>2. \A s, t \in sources : f[s] = f[t] => s = t
    OBVIOUS
  <2>3. \A n \in names : \E s \in sources : f[s] = n
    OBVIOUS
  <2> HIDE DEF f
  <2> QED
    BY <2>1, <2>2, <2>3 DEF Injection, Surjection, IsInjective
<1> HIDE DEF f
<1> QED
  BY <1>1, FS_Injection

(* Whatever the sources do, one that could not be asked included: an       *)
(* analysis that ends lists each of them and each of its jobs once, with   *)
(* what became of it; it shows nothing of one that is not listed as        *)
(* available, and loses nothing of one that is, but to the byte budget     *)
(* (forensics.ts 59-140).                                                  *)
THEOREM EveryAnswerIsAccounted == Spec => []EvidenceIsAccounted
<1>1. ASSUME AccountInv PROVE EvidenceIsAccounted
  <2>1. SUFFICES ASSUME place = "done"
                 PROVE  EvidenceIsAccounted
    BY DEF EvidenceIsAccounted
  <2>2. \A name : Named(name) = {s \in provenance : s.name = name}
    BY DEF Named
  <2>3. Named("ci-log") = LogsOf(provenance)
    BY DEF Named, LogsOf
  <2> DEFINE names == MandatorySources \cup {"ci-remediation", "scm", "telemetry"}
             others == provenance \ LogsOf(provenance)
  <2>4. Names(provenance) = names
    BY <1>1, <2>1 DEF AccountInv, SourcesInv, NamesAt, Early
  <2>5. /\ \A s \in provenance : s.name # "ci-log" => s.job = 0
        /\ \A s, t \in provenance : s.name = t.name /\ s.job = t.job => s = t
    BY <1>1 DEF AccountInv, SourcesInv, ListedOnce
  <2>6. Cardinality(others) = 5
    <3>1. IsFiniteSet(names) /\ Cardinality(names) = 5
      BY FiveNames
    <3>2. names = {s.name : s \in others}
      BY <2>4 DEF Names
    <3>3. \A s, t \in others : s.name = t.name => s = t
      BY <2>5 DEF LogsOf
    <3> HIDE DEF names, others
    <3> QED
      BY <3>1, <3>2, <3>3, AsManyAsNames
  <2>7. LogJobs(provenance) = had.jobs
    <3>1. jobs = <<>> /\ had.jobs = ToSet(jobs) \cup LogJobs(provenance)
      BY <1>1, <2>1 DEF AccountInv, JobsInv
    <3>2. ToSet(<<>>) = {}
      BY DEF ToSet
    <3> QED
      BY <3>1, <3>2
  <2>8. /\ plan # {} => IsAvailable("ci-remediation")
        /\ evidence.changes # <<>> => IsAvailable("scm")
        /\ evidence.signals # <<>> => IsAvailable("telemetry")
    BY <1>1 DEF AccountInv, ShownInv
  <2>9. /\ ShownJobs(evidence) \subseteq LoggedJobs(provenance)
        /\ Bytes(evidence) < budget.maxBytes => ShownJobs(evidence) = LoggedJobs(provenance)
    <3>1. Bytes(evidence) \in Nat /\ budget.maxBytes \in Nat
      BY <1>1, CountsOfEvidence, BudgetIsTyped DEF AccountInv, TypeInv, TypeOK
    <3> QED
      BY <1>1, <2>1, <3>1 DEF AccountInv, ShownInv
  <2> HIDE DEF names
  <2>10. {s.name : s \in others} = names
    BY <2>4 DEF Names
  <2> QED
    BY <2>3, <2>5, <2>6, <2>7, <2>8, <2>9, <2>10, Zenon
    DEF EvidenceIsAccounted, LogJobs, LoggedJobs, ShownJobs, names, others
<1> QED
  BY <1>1, SourcesAreConsistent, PTL

-----------------------------------------------------------------------------
(* What goes without a mark *)

Complete ==
    /\ evidence.logs = had.logs
    /\ Paths(evidence.changes) = Paths(had.changes)
    /\ evidence.signals = SortedBy(had.signals, Ids(had.signals))

(* What is sent is of an assembly that is done, and has its mark.          *)
Sent(p) ==
    p.available => /\ place = "done"
                   /\ ~p.truncated => p.evidence = evidence /\ ~truncated

CompleteInv == ~truncated => Complete

MarkInv == CompleteInv /\ Sent(analysis) /\ Sent(payload)

LEMMA NothingSorted == SortedBy(<<>>, Ids(<<>>)) = <<>>
<1>1. PICK s \in Seq(SignalRecord) : s = <<>>
  BY EmptySeq
<1>2. Len(s) = 0
  BY <1>1, EmptySeq
<1>3. /\ SortedBy(s, Ids(s)) \in Seq(SignalRecord) /\ Len(SortedBy(s, Ids(s))) = Len(s)
  <2>1. DOMAIN s = 1..Len(s)
    BY <1>1
  <2>2. \A i \in DOMAIN s : FALSE
    BY <1>2, <2>1
  <2> QED
    BY <2>2, SortedByIsASeq
<1>4. SortedBy(s, Ids(s)) = <<>>
  BY <1>2, <1>3, EmptySeq
<1> QED
  BY <1>1, <1>4, Zenon

LEMMA MarkAtFirst ==
    ASSUME Init
    PROVE  MarkInv
<1>1. /\ evidence.logs = <<>> /\ evidence.changes = <<>> /\ evidence.signals = <<>>
      /\ had.logs = <<>> /\ had.changes = <<>> /\ had.signals = <<>>
      /\ analysis = Nothing /\ payload = Nothing
  BY DEF Init, NoEvidence, Nobody
<1>2. ~Nothing.available
  BY DEF Nothing
<1> QED
  BY <1>1, <1>2, NothingSorted DEF MarkInv, CompleteInv, Complete, Sent

LEMMA CompleteLogs ==
    ASSUME TypeInv, CompleteInv, Log
    PROVE  CompleteInv'
<1>1. CASE lines < budget.maxLines /\ ReadLog
  <2>1. PICK length, kept : LogShows(length, kept)
    BY <1>1, LogRead DEF TypeInv
  <2>2. /\ evidence'.logs = Append(evidence.logs, [job |-> Head(jobs), lines |-> kept])
        /\ had'.logs = Append(had.logs, [job |-> Head(jobs), lines |-> length])
        /\ evidence'.changes = evidence.changes /\ evidence'.signals = evidence.signals
        /\ had'.changes = had.changes /\ had'.signals = had.signals
    BY <2>1 DEF LogShows, EvidenceRecord, TypeInv, TypeOK
  <2>3. ~truncated' => ~truncated /\ length = kept
    <3>1. ~truncated' => ~truncated /\ ~(length > kept)
      BY <2>1, Zenon DEF LogShows
    <3>2. ~(length > kept) => length = kept
      BY <2>1 DEF LogShows
    <3> QED
      BY <3>1, <3>2, Zenon
  <2> QED
    BY <2>2, <2>3 DEF CompleteInv, Complete
<1>2. CASE /\ UNCHANGED <<evidence, had>> /\ truncated' = (truncated \/ TRUE)
  BY <1>2 DEF CompleteInv
<1>3. CASE UNCHANGED <<evidence, truncated, had>>
  BY <1>3 DEF CompleteInv, Complete
<1> QED
  BY <1>1, <1>2, <1>3 DEF Log, Mark

LEMMA CompleteChanges ==
    ASSUME TypeInv, CompleteInv, SCM
    PROVE  CompleteInv'
<1>1. CASE ReadChanges
  <2>1. PICK changes, kept : ChangesShow(changes, kept)
    BY <1>1, ChangesRead DEF TypeInv
  <2>2. /\ evidence'.changes = kept /\ had'.changes = ByPath(changes)
        /\ evidence'.logs = evidence.logs /\ evidence'.signals = evidence.signals
        /\ had'.logs = had.logs /\ had'.signals = had.signals
    BY <2>1 DEF ChangesShow, EvidenceRecord, TypeInv, TypeOK
  <2>3. Files \in Nat
    <3>1. PICK a \in Nat, b \in Nat : a = input.maxChanges /\ b = budget.maxFiles
      BY BudgetIsTyped DEF TypeInv, TypeOK
    <3>2. Least(a, b) \in Nat
      BY LeastOf
    <3> QED
      BY <3>1, <3>2 DEF Files
  <2>4. ~truncated' => ~truncated /\ Len(changes) <= Files
    <3>1. Len(changes) \in Nat
      BY <2>1 DEF ChangesShow
    <3>2. ~truncated' => ~truncated /\ ~(Len(changes) > Files)
      BY <2>1, Zenon DEF ChangesShow
    <3>3. ~(Len(changes) > Files) => Len(changes) <= Files
      BY <2>3, <3>1
    <3> QED
      BY <3>2, <3>3, Zenon
  <2>5. Len(changes) <= Files => Paths(kept) = Paths(ByPath(changes))
    BY <2>1 DEF ChangesShow
  <2> QED
    BY <2>2, <2>4, <2>5 DEF CompleteInv, Complete
<1>2. CASE UNCHANGED <<evidence, truncated, had>>
  BY <1>2 DEF CompleteInv, Complete
<1> QED
  BY <1>1, <1>2 DEF SCM

LEMMA CompleteSignals ==
    ASSUME TypeInv, CompleteInv, Telemetry
    PROVE  CompleteInv'
<1>1. ASSUME NEW signals \in SignalAnswers,
             evidence' = [evidence EXCEPT !.signals = InWindow(signals, input.maxSignals)],
             had' = [had EXCEPT !.signals = signals],
             Mark(Len(InWindow(signals, input.maxSignals)) < Len(signals))
      PROVE  CompleteInv'
  <2>1. signals \in Seq(SignalRecord) /\ input.maxSignals \in Nat /\ Len(signals) \in Nat
    <3>1. signals \in Seq(SignalRecord)
      BY AnswerAssumption
    <3> QED
      BY <3>1, BudgetIsTyped DEF TypeInv, TypeOK
  <2>2. /\ evidence'.signals = InWindow(signals, input.maxSignals) /\ had'.signals = signals
        /\ evidence'.logs = evidence.logs /\ evidence'.changes = evidence.changes
        /\ had'.logs = had.logs /\ had'.changes = had.changes
    BY <1>1 DEF EvidenceRecord, TypeInv, TypeOK
  <2>3. PICK kept \in Seq(SignalRecord) :
           /\ kept = InWindow(signals, input.maxSignals)
           /\ Len(kept) >= Len(signals) => kept = SortedBy(signals, Ids(signals))
    BY <2>1, SignalsInWindow
  <2>4. ~truncated' => ~truncated /\ ~(Len(kept) < Len(signals))
    BY <1>1, <2>3 DEF Mark
  <2>5. ~(Len(kept) < Len(signals)) => Len(kept) >= Len(signals)
    BY <2>1
  <2> QED
    BY <2>2, <2>3, <2>4, <2>5 DEF CompleteInv, Complete
<1>2. CASE UNCHANGED <<evidence, truncated, had>>
  BY <1>2 DEF CompleteInv, Complete
<1> QED
  BY <1>1, <1>2 DEF Telemetry

LEMMA CompleteIsKept ==
    ASSUME TypeInv, CompleteInv, [Next]_vars
    PROVE  CompleteInv'
<1>1. CASE Status
  BY <1>1 DEF Status, Fail, CompleteInv, Complete
<1>2. CASE Analysis
  <2>1. /\ evidence' = evidence /\ had'.logs = had.logs /\ had'.changes = had.changes
        /\ had'.signals = had.signals
    BY <1>2 DEF Analysis, Fail, TypeInv, TypeOK
  <2>2. ~truncated' => ~truncated
    BY <1>2 DEF Analysis, Fail, Mark
  <2> QED
    BY <2>1, <2>2 DEF CompleteInv, Complete
<1>3. CASE Remediation
  <2>1. evidence' = evidence /\ had' = had
    BY <1>3 DEF Remediation
  <2>2. ~truncated' => ~truncated
    BY <1>3 DEF Remediation, Mark
  <2> QED
    BY <2>1, <2>2 DEF CompleteInv, Complete
<1>4. CASE NoLogs
  BY <1>4 DEF NoLogs, CompleteInv, Complete
<1>5. CASE Fit
  <2>1. CASE Mark(TRUE)
    BY <2>1 DEF CompleteInv, Mark
  <2>2. CASE UNCHANGED <<evidence, truncated, had>>
    BY <2>2 DEF CompleteInv, Complete
  <2> QED
    BY <1>5, <2>1, <2>2 DEF Fit
<1>6. CASE Caller \/ UNCHANGED vars
  <2>1. UNCHANGED assembly
    BY <1>6, AssemblyIsLeft
  <2> QED
    BY <2>1 DEF assembly, CompleteInv, Complete
<1> QED
  BY <1>1, <1>2, <1>3, <1>4, <1>5, <1>6, CompleteLogs, CompleteChanges, CompleteSignals
  DEF Next, Assemble, Caller

(* What the payload is cut to is marked.                                   *)
LEMMA BuiltFrom ==
    ASSUME NEW a, {"available", "truncated", "evidence"} \subseteq DOMAIN a, a = [x \in DOMAIN a |-> a[x]],
           NEW max, NEW built, built = buildAgentNotificationPayload(a, max)
    PROVE  /\ built.analysis.available = a.available
           /\ ~built.analysis.truncated => built.analysis = a
<1> DEFINE compact == compactAnalysis(a)
           minimal == minimalAnalysis(compact)
<1>1. /\ compact.available = a.available /\ compact.truncated = TRUE
      /\ DOMAIN compact = DOMAIN a
  BY DEF compactAnalysis
<1>2. minimal.available = compact.available /\ minimal.truncated = TRUE
  <2> HIDE DEF compact
  <2> QED
    BY <1>1 DEF minimalAnalysis
<1>3. built.analysis \in {a, compact, minimal}
  <2>1. built \in {[fits |-> TRUE, analysis |-> a], [fits |-> TRUE, analysis |-> compact],
                   [fits |-> Size(minimal) <= max, analysis |-> minimal]}
    BY DEF buildAgentNotificationPayload
  <2> HIDE DEF compact, minimal
  <2> QED
    BY <2>1
<1> HIDE DEF compact, minimal
<1> QED
  BY <1>1, <1>2, <1>3

LEMMA ResultsAreBuilt ==
    ASSUME NEW a \in {Assembled, Nothing}, NEW built \in Payloads(a)
    PROVE  /\ built.analysis.available = a.available
           /\ ~built.analysis.truncated => built.analysis = a
<1>1. {"available", "truncated", "evidence"} \subseteq DOMAIN a /\ a = [x \in DOMAIN a |-> a[x]]
  BY DEF Assembled, Nothing
<1> QED
  BY <1>1, BuiltFrom DEF Payloads

LEMMA NothingIsSent ==
    /\ Nothing.available = FALSE /\ Assembled.available = TRUE
    /\ Assembled.truncated = truncated /\ Assembled.evidence = evidence
BY DEF Nothing, Assembled

LEMMA SentIsKept ==
    ASSUME TypeInv, MarkInv, [Next]_vars
    PROVE  Sent(analysis)' /\ Sent(payload)'
<1>1. CASE Assemble
  <2>1. place # "done" /\ UNCHANGED <<analysis, payload>>
    BY <1>1, CallerIsLeft DEF Assemble, Status, Analysis, Remediation, Log, NoLogs, SCM,
       Telemetry, Fit, result
  <2> QED
    BY <2>1 DEF MarkInv, Sent
<1>2. CASE Caller \/ UNCHANGED vars
  <2>1. UNCHANGED <<place, evidence, truncated>>
    BY <1>2, AssemblyIsLeft DEF assembly
  <2>2. CASE UNCHANGED <<analysis, payload>>
    BY <2>1, <2>2 DEF MarkInv, Sent
  <2>3. ASSUME NEW a, a = IF place = "done" THEN Assembled ELSE Nothing,
               NEW built \in Payloads(a), analysis' = a, payload' \in {payload, built.analysis}
        PROVE  Sent(analysis)' /\ Sent(payload)'
    <3>1. /\ a.available => place = "done" /\ a = Assembled
          /\ built.analysis.available = a.available
          /\ ~built.analysis.truncated => built.analysis = a
      BY <2>3, ResultsAreBuilt, NothingIsSent
    <3> QED
      BY <2>1, <2>3, <3>1, NothingIsSent DEF MarkInv, Sent
  <2>4. ASSUME NEW built \in Payloads(Nothing), analysis' = Nothing,
               payload' \in {payload, built.analysis}
        PROVE  Sent(analysis)' /\ Sent(payload)'
    <3>1. ~built.analysis.available /\ ~analysis'.available
      BY <2>4, ResultsAreBuilt, NothingIsSent
    <3> QED
      BY <2>1, <2>4, <3>1 DEF MarkInv, Sent
  <2>5. CASE Answer
    <3>1. CASE place = "done"
      <4>1. analysis' = Assembled /\ payload' = payload
        BY <2>5, <3>1 DEF Answer
      <4> QED
        BY <2>1, <3>1, <4>1, NothingIsSent DEF MarkInv, Sent
    <3>2. CASE place # "done"
      BY <2>2, <2>5, <3>2 DEF Answer
    <3> QED
      BY <3>1, <3>2
  <2>6. CASE Settle
    BY <2>3, <2>6 DEF Settle, Conclude, StartCallback, Return
  <2>7. CASE GiveUp
    BY <2>4, <2>7 DEF GiveUp, Conclude, Return
  <2>8. CASE Deadline \/ UNCHANGED vars
    BY <2>2, <2>8 DEF Deadline, vars, result
  <2>9. CASE Reply \/ Stop
    BY <2>2, <2>9 DEF Reply, Stop, Return
  <2> QED
    BY <1>2, <2>5, <2>6, <2>7, <2>8, <2>9 DEF Caller
<1> QED
  BY <1>1, <1>2 DEF Next, Caller

(* The inductive invariant of CutsAreMarked.                               *)
THEOREM MarksAreConsistent == Spec => [](TypeInv /\ MarkInv)
<1>1. Init => TypeInv /\ MarkInv
  BY FirstState, MarkAtFirst
<1>2. TypeInv /\ MarkInv /\ [Next]_vars => (TypeInv /\ MarkInv)'
  BY TypesAreKept, CompleteIsKept, SentIsKept DEF MarkInv
<1> QED
  BY <1>1, <1>2, PTL DEF Spec

(* Through every cut, from the line budget and the window of the signals   *)
(* to the compaction of the payload: a result without a mark shows every   *)
(* log line, changed path and signal its sources had                       *)
(* (forensics.ts 89-146, 284-299).                                         *)
THEOREM EveryCutIsMarked == Spec => []CutsAreMarked
<1>1. MarkInv => CutsAreMarked
  BY DEF MarkInv, CompleteInv, Complete, Sent, CutsAreMarked
<1> QED
  BY <1>1, MarksAreConsistent, PTL


-----------------------------------------------------------------------------
(* Why an analysis is missing *)

(* The entries EntriesAt and Take give are entries of the sequence.        *)
ShowsOnly(t, s, places) == \A x \in ToSet(t) : \E i \in places : x = s[i]

LEMMA SortedEntries ==
    ASSUME NEW S, NEW s \in Seq(S), NEW places, places \subseteq DOMAIN s,
           NEW key, \A i \in places : key[i] \in Int
    PROVE  /\ SortedAt(s, places, key) \in Seq(S)
           /\ ShowsOnly(SortedAt(s, places, key), s, places)
<1>1. places \subseteq Nat /\ IsFiniteSet(places) /\ Cardinality(places) \in Nat
  BY PlacesAreFinite
<1>2. PICK p \in Bijection(1..Cardinality(places), places) :
          SortedAt(s, places, key) = [n \in 1..Cardinality(places) |-> s[p[n]]]
  BY <1>1, SortedAtArranges DEF ComesFrom
<1>3. \A n \in 1..Cardinality(places) : p[n] \in places
  BY DEF Bijection, Injection
<1>4. SortedAt(s, places, key) \in Seq(S)
  BY SortedAtIsASeq
<1> QED
  BY <1>2, <1>3, <1>4 DEF ToSet, ShowsOnly

LEMMA EntriesAtOf ==
    ASSUME NEW S, NEW s \in Seq(S), NEW places, places \subseteq DOMAIN s
    PROVE  /\ EntriesAt(s, places) \in Seq(S)
           /\ \A x \in ToSet(EntriesAt(s, places)) : \E i \in places : x = s[i]
<1> DEFINE key == [i \in places |-> i]
<1>1. places \subseteq Nat
  BY PlacesAreFinite
<1>2. \A i \in places : key[i] \in Int
  BY <1>1
<1>3. EntriesAt(s, places) = SortedAt(s, places, key)
  BY DEF EntriesAt
<1> HIDE DEF key
<1>4. SortedAt(s, places, key) \in Seq(S) /\ ShowsOnly(SortedAt(s, places, key), s, places)
  BY <1>2, SortedEntries
<1> QED
  BY <1>3, <1>4 DEF ShowsOnly

LEMMA EntriesTaken ==
    ASSUME NEW S, NEW s \in Seq(S), NEW n \in Nat
    PROVE  ToSet(Take(s, n)) \subseteq ToSet(s)
<1>1. /\ Take(s, n) \in Seq(S)
      /\ \A i \in 1..Len(Take(s, n)) : Take(s, n)[i] = s[i] /\ i \in 1..Len(s)
  BY TakeOf
<1>2. DOMAIN Take(s, n) = 1..Len(Take(s, n)) /\ DOMAIN s = 1..Len(s)
  BY <1>1
<1> QED
  BY <1>1, <1>2 DEF ToSet

LEMMA EntriesOfBoth ==
    ASSUME NEW S, NEW s \in Seq(S), NEW t \in Seq(S)
    PROVE  s \o t \in Seq(S) /\ ToSet(s \o t) \subseteq ToSet(s) \cup ToSet(t)
<1>1. /\ s \o t \in Seq(S) /\ Len(s \o t) = Len(s) + Len(t)
      /\ \A i \in 1..(Len(s) + Len(t)) :
            (s \o t)[i] = IF i <= Len(s) THEN s[i] ELSE t[i - Len(s)]
  BY ConcatProperties
<1>2. DOMAIN s = 1..Len(s) /\ DOMAIN t = 1..Len(t) /\ Len(s) \in Nat /\ Len(t) \in Nat
      /\ DOMAIN (s \o t) = 1..(Len(s) + Len(t))
  BY <1>1
<1>3. ASSUME NEW i \in 1..(Len(s) + Len(t))
      PROVE  (s \o t)[i] \in ToSet(s) \cup ToSet(t)
  <2>1. CASE i <= Len(s)
    BY <1>1, <1>2, <1>3, <2>1 DEF ToSet
  <2>2. CASE ~(i <= Len(s))
    <3>1. i - Len(s) \in 1..Len(t)
      BY <1>2, <1>3, <2>2
    <3> QED
      BY <1>1, <1>2, <1>3, <2>2, <3>1 DEF ToSet
  <2> QED
    BY <2>1, <2>2
<1> QED
  BY <1>1, <1>2, <1>3 DEF ToSet

(* What a result refers to is of the jobs and the evidence it shows.       *)
RefersTo(r, analysed, e) ==
    \/ \E j \in analysed : r = <<"job", j>>
    \/ \E c \in ToSet(e.changes) : r = <<"scm", c.path>>
    \/ \E s \in ToSet(e.signals) : s.bad /\ r = <<"telemetry", s.id>>

LEMMA ReferencesOf ==
    ASSUME NEW e \in EvidenceRecord, NEW analysed, NEW r \in References(analysed, e)
    PROVE  RefersTo(r, analysed, e)
<1>1. e.changes \in Seq(ChangeRecord) /\ e.signals \in Seq(SignalRecord) /\ ListCap \in Nat
  BY InputAssumption DEF EvidenceRecord
<1> DEFINE places == {i \in DOMAIN e.signals : e.signals[i].bad}
           bad == EntriesAt(e.signals, places)
           paths == [i \in DOMAIN e.changes |-> <<"scm", e.changes[i].path>>]
           ids == [i \in DOMAIN bad |-> <<"telemetry", bad[i].id>>]
           refs == {<<"scm", c.path>> : c \in ToSet(e.changes)}
                      \cup {<<"telemetry", s.id>> : s \in ToSet(bad)}
<1>2. /\ bad \in Seq(SignalRecord)
      /\ \A s \in ToSet(bad) : s \in ToSet(e.signals) /\ s.bad
  <2>1. places \subseteq DOMAIN e.signals /\ \A i \in places : e.signals[i].bad
    OBVIOUS
  <2> HIDE DEF places
  <2>2. /\ bad \in Seq(SignalRecord)
        /\ \A x \in ToSet(bad) : \E i \in places : x = e.signals[i]
    BY <1>1, <2>1, EntriesAtOf
  <2> HIDE DEF bad
  <2> QED
    BY <2>1, <2>2 DEF ToSet
<1>3. correlationsFor(e) = Take(paths \o ids, ListCap)
  BY DEF correlationsFor
<1> HIDE DEF bad, places
<1>4. paths \in Seq(refs) /\ ids \in Seq(refs)
  <2>1. DOMAIN e.changes = 1..Len(e.changes) /\ Len(e.changes) \in Nat
        /\ DOMAIN bad = 1..Len(bad) /\ Len(bad) \in Nat
    BY <1>1, <1>2
  <2>2. \A i \in DOMAIN e.changes : e.changes[i] \in ToSet(e.changes)
    BY DEF ToSet
  <2>3. \A i \in DOMAIN bad : bad[i] \in ToSet(bad)
    BY DEF ToSet
  <2> QED
    BY <2>1, <2>2, <2>3
<1> HIDE DEF paths, ids, refs
<1>5. ToSet(correlationsFor(e)) \subseteq refs
  <2>1. paths \o ids \in Seq(refs)
    BY <1>4, EntriesOfBoth
  <2>2. Take(paths \o ids, ListCap) \in Seq(refs)
    BY <1>1, <2>1, TakeOf
  <2> QED
    BY <1>3, <2>2, ElementOfSeq DEF ToSet
<1>6. ToSet(locationsFor(e)) \subseteq ToSet(e.changes)
  <2> DEFINE shown == {i \in DOMAIN e.changes : e.changes[i].hunks # <<>>}
             first == EntriesAt(e.changes, shown)
             then == EntriesAt(e.changes, DOMAIN e.changes \ shown)
  <2>1. locationsFor(e) = Take(first \o then, ListCap)
    BY DEF locationsFor
  <2>2. shown \subseteq DOMAIN e.changes
    OBVIOUS
  <2> HIDE DEF shown
  <2>3. /\ first \in Seq(ChangeRecord)
        /\ \A x \in ToSet(first) : \E i \in shown : x = e.changes[i]
    BY <1>1, <2>2, EntriesAtOf
  <2>4. /\ then \in Seq(ChangeRecord)
        /\ \A x \in ToSet(then) : \E i \in DOMAIN e.changes \ shown : x = e.changes[i]
    <3>1. DOMAIN e.changes \ shown \subseteq DOMAIN e.changes
      OBVIOUS
    <3> QED
      BY <1>1, <3>1, EntriesAtOf
  <2> HIDE DEF first, then
  <2>5. ToSet(first) \cup ToSet(then) \subseteq ToSet(e.changes)
    BY <2>2, <2>3, <2>4 DEF ToSet
  <2>6. /\ first \o then \in Seq(ChangeRecord)
        /\ ToSet(first \o then) \subseteq ToSet(first) \cup ToSet(then)
    BY <2>3, <2>4, EntriesOfBoth
  <2>7. ToSet(Take(first \o then, ListCap)) \subseteq ToSet(first \o then)
    BY <1>1, <2>6, EntriesTaken
  <2> QED
    BY <2>1, <2>5, <2>6, <2>7
<1>7. CASE \E j \in analysed : r = <<"job", j>>
  BY <1>7 DEF RefersTo
<1>8. CASE r \in refs
  BY <1>2, <1>8 DEF RefersTo, refs
<1>9. CASE \E c \in ToSet(locationsFor(e)) : r = <<"scm", c.path>>
  BY <1>6, <1>9 DEF RefersTo
<1> QED
  BY <1>5, <1>7, <1>8, <1>9 DEF References

PathsOf(changes) == {c.path : c \in ToSet(changes)}

(* The paths kept are among those of the changes.                          *)
LEMMA PathsKept ==
    ASSUME NEW changes \in Seq(ChangeRecord), NEW maxChanges \in Nat,
           NEW maxHunks, NEW perHunk, NEW maxLines,
           NEW kept, kept = SelectChanges(changes, maxChanges, maxHunks, perHunk, maxLines)
    PROVE  PathsOf(kept) \subseteq PathsOf(ByPath(changes))
<1> DEFINE few == Take(ByPath(changes), maxChanges)
<1>1. PICK cut : kept = [i \in DOMAIN few |-> [few[i] EXCEPT !.hunks = cut[i]]]
  <2> DEFINE counts == [i \in DOMAIN few |-> Len(few[i].hunks)]
             capped == [i \in DOMAIN few |->
                          LET hunks == Take(few[i].hunks, Rest(maxHunks, Before(counts, i)))
                          IN [k \in DOMAIN hunks |-> Least(hunks[k], perHunk)]]
             wanted == [i \in DOMAIN few |-> HunkLines(capped[i])]
             given(i, k) == Rest(maxLines, Before(wanted, i) + Before(capped[i], k))
             Cut(i) == [k \in DOMAIN capped[i] |-> Least(capped[i][k], given(i, k))]
  <2>1. kept = [i \in DOMAIN few |-> [few[i] EXCEPT !.hunks = Cut(i)]]
    BY DEF SelectChanges
  <2> HIDE DEF Cut, few
  <2>2. kept = [i \in DOMAIN few |-> [few[i] EXCEPT !.hunks = [j \in DOMAIN few |-> Cut(j)][i]]]
    BY <2>1
  <2> QED
    BY <2>2
<1>2. few \in Seq(ChangeRecord) /\ ToSet(few) \subseteq ToSet(ByPath(changes))
  BY ByPathIsASeq, TakeOf, EntriesTaken
<1> HIDE DEF few
<1>3. \A i \in DOMAIN few : kept[i].path = few[i].path /\ few[i] \in ToSet(few)
  <2>1. \A i \in DOMAIN few : few[i] \in ChangeRecord
    BY <1>2, ElementOfSeq
  <2> QED
    BY <1>1, <2>1 DEF ChangeRecord, ToSet
<1>4. DOMAIN kept = DOMAIN few
  BY <1>1
<1> SUFFICES ASSUME NEW i \in DOMAIN kept
             PROVE  \E c \in ToSet(ByPath(changes)) : kept[i].path = c.path
  BY DEF PathsOf, ToSet
<1> QED
  BY <1>2, <1>3, <1>4

(* A signal kept is one of the signals, and in the window.                 *)
LEMMA SignalsKept ==
    ASSUME NEW signals \in Seq(SignalRecord), NEW n \in Nat
    PROVE  \A s \in ToSet(InWindow(signals, n)) : s \in ToSet(signals) /\ s.inWindow
<1> DEFINE places == {i \in DOMAIN signals : signals[i].inWindow}
           all == SortedAt(signals, places, Ids(signals))
<1>1. \A i \in places : Ids(signals)[i] \in Int
  <2> SUFFICES ASSUME NEW i \in DOMAIN signals PROVE Ids(signals)[i] \in Int
    OBVIOUS
  <2>1. signals[i] \in SignalRecord
    BY ElementOfSeq
  <2> QED
    BY <2>1 DEF Ids, SignalRecord
<1>2. InWindow(signals, n) = Take(all, n)
  BY DEF InWindow
<1>3. places \subseteq DOMAIN signals /\ \A i \in places : signals[i].inWindow
  OBVIOUS
<1> HIDE DEF places
<1> DEFINE key == Ids(signals)
<1>4. all = SortedAt(signals, places, key) /\ \A i \in places : key[i] \in Int
  BY <1>1
<1> HIDE DEF key, all
<1>5. /\ SortedAt(signals, places, key) \in Seq(SignalRecord)
      /\ ShowsOnly(SortedAt(signals, places, key), signals, places)
  BY <1>3, <1>4, SortedEntries
<1>6. ToSet(Take(all, n)) \subseteq ToSet(all)
  BY <1>4, <1>5, EntriesTaken
<1>7. \A i \in places : signals[i] \in ToSet(signals)
  BY <1>3 DEF ToSet
<1> QED
  BY <1>2, <1>3, <1>4, <1>5, <1>6, <1>7 DEF ShowsOnly

LEMMA FrontShows ==
    ASSUME NEW S, NEW s \in Seq(S), s # <<>>
    PROVE  ToSet(Front(s)) \subseteq ToSet(s)
<1>1. /\ Front(s) \in Seq(S) /\ Len(Front(s)) = Len(s) - 1
      /\ \A i \in 1..(Len(s) - 1) : Front(s)[i] = s[i] /\ i \in 1..Len(s)
  BY FrontOf
<1>2. DOMAIN Front(s) = 1..(Len(s) - 1) /\ DOMAIN s = 1..Len(s)
  BY <1>1
<1> QED
  BY <1>1, <1>2 DEF ToSet

LEMMA ShorterKeepsPath ==
    ASSUME NEW c \in ChangeRecord
    PROVE  ShorterChange(c).path = c.path
<1>1. \A h : [c EXCEPT !.hunks = h].path = c.path
  BY DEF ChangeRecord
<1>2. CASE Last(c.hunks) > 0
  <2>1. PICK h : ShorterChange(c) = [c EXCEPT !.hunks = h]
    BY <1>2 DEF ShorterChange, ChangeRecord
  <2> QED
    BY <1>1, <2>1
<1>3. CASE ~(Last(c.hunks) > 0)
  BY <1>1, <1>3 DEF ShorterChange
<1> QED
  BY <1>2, <1>3

LEMMA ShortenShows ==
    ASSUME NEW e \in EvidenceRecord, NEW n \in Nat, Bytes(e) > n,
           NEW f, f = Shorten(e)
    PROVE  /\ PathsOf(f.changes) \subseteq PathsOf(e.changes)
           /\ ToSet(f.signals) \subseteq ToSet(e.signals)
<1>1. e.changes \in Seq(ChangeRecord) /\ e.signals \in Seq(SignalRecord)
  BY DEF EvidenceRecord
<1>2. CASE e.changes # <<>>
  <2>1. /\ Len(e.changes) \in Nat \ {0} /\ Last(e.changes) = e.changes[Len(e.changes)]
        /\ Last(e.changes) \in ChangeRecord /\ DOMAIN e.changes = 1..Len(e.changes)
    BY <1>1, <1>2, FrontOf
  <2>2. CASE Last(e.changes).hunks # <<>>
    <3> DEFINE d == ShorterChange(Last(e.changes))
               t == [e.changes EXCEPT ![Len(e.changes)] = d]
    <3>1. f.changes = t /\ f.signals = e.signals
      BY <1>1, <1>2, <2>1, <2>2 DEF Shorten, EvidenceRecord
    <3>2. d.path = Last(e.changes).path
      BY <2>1, ShorterKeepsPath
    <3> HIDE DEF d
    <3>3. \A i \in DOMAIN t : t[i].path = e.changes[i].path /\ i \in DOMAIN e.changes
      BY <2>1, <3>2
    <3> QED
      BY <3>1, <3>3 DEF PathsOf, ToSet
  <2>3. CASE Last(e.changes).hunks = <<>>
    <3>1. f.changes = Front(e.changes) /\ f.signals = e.signals
      BY <1>2, <2>3 DEF Shorten, EvidenceRecord
    <3> QED
      BY <1>1, <1>2, <3>1, FrontShows DEF PathsOf
  <2> QED
    BY <2>2, <2>3
<1>3. CASE e.changes = <<>> /\ e.signals # <<>>
  <2>1. f.changes = e.changes /\ f.signals = Front(e.signals)
    BY <1>3 DEF Shorten, EvidenceRecord
  <2> QED
    BY <1>1, <1>3, <2>1, FrontShows
<1>4. CASE e.changes = <<>> /\ e.signals = <<>>
  BY <1>4 DEF Shorten, EvidenceRecord
<1> QED
  BY <1>2, <1>3, <1>4

(* What is shown is of what the sources had, through every cut.            *)
OriginInv ==
    /\ PathsOf(evidence.changes) \subseteq PathsOf(had.changes)
    /\ \A s \in ToSet(evidence.signals) : s \in ToSet(had.signals) /\ s.inWindow

LEMMA OriginOfChanges ==
    ASSUME TypeInv, OriginInv, ReadChanges
    PROVE  OriginInv'
<1>1. PICK changes \in ChangeAnswers :
         /\ evidence' = [evidence EXCEPT !.changes =
                SelectChanges(changes, Files, budget.maxHunks, input.maxHunkLines,
                              budget.maxLines - lines)]
         /\ had' = [had EXCEPT !.changes = ByPath(changes)]
  BY DEF ReadChanges, Files
<1>2. changes \in Seq(ChangeRecord) /\ Files \in Nat
  <2>1. PICK a \in Nat, b \in Nat : a = input.maxChanges /\ b = budget.maxFiles
    BY BudgetIsTyped DEF TypeInv, TypeOK
  <2>2. Least(a, b) \in Nat
    BY LeastOf
  <2> QED
    BY <2>1, <2>2, AnswerAssumption DEF Files
<1>3. PICK kept : /\ kept = SelectChanges(changes, Files, budget.maxHunks,
                                          input.maxHunkLines, budget.maxLines - lines)
                  /\ PathsOf(kept) \subseteq PathsOf(ByPath(changes))
  BY <1>2, PathsKept
<1>4. /\ evidence'.changes = kept /\ had'.changes = ByPath(changes)
      /\ evidence'.signals = evidence.signals /\ had'.signals = had.signals
  BY <1>1, <1>3 DEF EvidenceRecord, TypeInv, TypeOK
<1> QED
  BY <1>3, <1>4 DEF OriginInv

LEMMA OriginOfSignals ==
    ASSUME TypeInv, OriginInv, NEW signals \in SignalAnswers,
           evidence' = [evidence EXCEPT !.signals = InWindow(signals, input.maxSignals)],
           had' = [had EXCEPT !.signals = signals]
    PROVE  OriginInv'
<1>1. signals \in Seq(SignalRecord) /\ input.maxSignals \in Nat
  BY AnswerAssumption, BudgetIsTyped DEF TypeInv, TypeOK
<1>2. \A s \in ToSet(InWindow(signals, input.maxSignals)) : s \in ToSet(signals) /\ s.inWindow
  BY <1>1, SignalsKept
<1>3. /\ evidence'.signals = InWindow(signals, input.maxSignals) /\ had'.signals = signals
      /\ evidence'.changes = evidence.changes /\ had'.changes = had.changes
  BY DEF EvidenceRecord, TypeInv, TypeOK
<1> QED
  BY <1>2, <1>3 DEF OriginInv

LEMMA OriginIsKept ==
    ASSUME TypeInv, OriginInv, [Next]_vars
    PROVE  OriginInv'
<1>1. CASE UNCHANGED <<evidence, had>>
  BY <1>1 DEF OriginInv
<1>2. CASE Analysis
  <2>1. /\ evidence' = evidence /\ had'.changes = had.changes /\ had'.signals = had.signals
    BY <1>2 DEF Analysis, Fail, TypeInv, TypeOK
  <2> QED
    BY <2>1 DEF OriginInv
<1>3. CASE ReadLog
  <2>1. PICK l, m : /\ evidence' = [evidence EXCEPT !.logs = l]
                    /\ had' = [had EXCEPT !.logs = m]
    BY <1>3 DEF ReadLog, EvidenceRecord, TypeInv, TypeOK
  <2>2. /\ evidence'.changes = evidence.changes /\ evidence'.signals = evidence.signals
        /\ had'.changes = had.changes /\ had'.signals = had.signals
    BY <2>1 DEF EvidenceRecord, TypeInv, TypeOK
  <2> QED
    BY <2>2 DEF OriginInv
<1>4. CASE ReadChanges
  BY <1>4, OriginOfChanges
<1>5. CASE Telemetry
  BY <1>1, <1>5, OriginOfSignals DEF Telemetry
<1>6. CASE Fit
  <2>1. CASE Bytes(evidence) > budget.maxBytes /\ evidence' = Shorten(evidence) /\ had' = had
    <3>1. evidence \in EvidenceRecord /\ budget.maxBytes \in Nat
      BY BudgetIsTyped DEF TypeInv, TypeOK
    <3>2. /\ PathsOf(evidence'.changes) \subseteq PathsOf(evidence.changes)
          /\ ToSet(evidence'.signals) \subseteq ToSet(evidence.signals)
      BY <2>1, <3>1, ShortenShows
    <3> QED
      BY <2>1, <3>2 DEF OriginInv
  <2> QED
    BY <1>1, <1>6, <2>1 DEF Fit
<1>7. CASE Caller \/ UNCHANGED vars
  BY <1>1, <1>7, AssemblyIsLeft DEF assembly
<1> QED
  BY <1>1, <1>2, <1>3, <1>4, <1>5, <1>6, <1>7
  DEF Next, Assemble, Caller, Status, Fail, Remediation, Log, NoLogs, SCM

(* What no result carries comes from what the sources had.                 *)
LEMMA RefusedForCause ==
    ASSUME TypeInv, OriginInv, ~Parses
    PROVE  HadUnfit
<1>1. evidence \in EvidenceRecord
  BY DEF TypeInv, TypeOK
<1>2. CASE \E r \in References(had.jobs, evidence) : r \in TooLong
  <2>1. PICK r \in References(had.jobs, evidence) : r \in TooLong
    BY <1>2
  <2>2. RefersTo(r, had.jobs, evidence)
    BY <1>1, ReferencesOf
  <2>3. CASE \E j \in had.jobs : r = <<"job", j>>
    BY <2>1, <2>3 DEF HadUnfit
  <2>4. CASE \E c \in ToSet(evidence.changes) : r = <<"scm", c.path>>
    <3>1. PICK c \in ToSet(evidence.changes) : r = <<"scm", c.path>>
      BY <2>4
    <3>2. PICK d \in ToSet(had.changes) : d.path = c.path
      BY <3>1 DEF OriginInv, PathsOf
    <3> QED
      BY <2>1, <3>1, <3>2 DEF HadUnfit
  <2>5. CASE \E s \in ToSet(evidence.signals) : s.bad /\ r = <<"telemetry", s.id>>
    BY <2>1, <2>5 DEF HadUnfit, OriginInv
  <2> QED
    BY <2>2, <2>3, <2>4, <2>5 DEF RefersTo
<1>3. CASE \E t \in Texts(input.ref, had.jobs, plan, Warners) : t \in Marked
  <2>1. PICK t \in Texts(input.ref, had.jobs, plan, Warners) : t \in Marked
    BY <1>3
  <2>2. \/ t = <<"ref", input.ref>>
        \/ \E j \in had.jobs : t = <<"name", NameOf[j]>>
        \/ \E category \in plan : t = <<"action", category>>
        \/ t \in Warners
    <3>1. BasisJobs(had.jobs) \subseteq had.jobs
      BY DEF BasisJobs
    <3> QED
      BY <3>1 DEF Texts
  <2> QED
    BY <2>1, <2>2 DEF HadUnfit
<1> QED
  BY <1>2, <1>3 DEF Parses, ResultParses

(* An assembly that failed says why.                                       *)
FailureInv ==
    /\ place = "failed" <=> failure # "none"
    /\ failure = "no-such-method" => Inherited
    /\ failure = "invalid-result" => HadUnfit

(* What the caller has is of an assembly that ended, or of a time that is  *)
(* over.                                                                   *)
CauseInv ==
    /\ OriginInv
    /\ FailureInv
    /\ ~analysis.available /\ call \in {"recommending", "returned"}
          => late \/ place = "failed"
    /\ call = "threw" /\ ~Observed => place = "failed"

LEMMA FailuresAreKept ==
    ASSUME TypeInv, OriginInv, FailureInv, [Next]_vars
    PROVE  FailureInv'
<1> USE DEF FailureInv
<1>1. CASE Status
  BY <1>1 DEF Status, Fail
<1>2. CASE Analysis
  <2>1. Inherited' = Inherited
    BY <1>2 DEF Analysis, Inherited, Observed
  <2> QED
    BY <1>2, <2>1 DEF Analysis, Fail
<1>3. CASE Remediation
  BY <1>3 DEF Remediation
<1>4. CASE Log
  BY <1>4, NextJobOf DEF Log, TypeInv
<1>5. CASE NoLogs
  BY <1>5 DEF NoLogs
<1>6. CASE SCM
  BY <1>6 DEF SCM
<1>7. CASE Telemetry
  BY <1>7 DEF Telemetry
<1>8. CASE Fit
  <2>1. CASE UNCHANGED <<place, failure>>
    BY <1>8, <2>1 DEF Fit
  <2>2. CASE place' = "done" /\ failure' = failure
    BY <1>8, <2>2 DEF Fit
  <2>3. CASE place' = "failed" /\ failure' = "invalid-result" /\ ~Parses
    <3>1. HadUnfit
      BY <2>3, RefusedForCause
    <3>2. HadUnfit' = HadUnfit
      BY <1>8 DEF Fit, HadUnfit, Warners, Observed
    <3> QED
      BY <2>3, <3>1, <3>2
  <2> QED
    BY <1>8, <2>1, <2>2, <2>3 DEF Fit
<1>9. CASE Caller \/ UNCHANGED vars
  <2>1. UNCHANGED <<input, assembly>>
    BY <1>9, AssemblyIsLeft
  <2>2. HadUnfit' = HadUnfit /\ Inherited' = Inherited
    BY <2>1 DEF assembly, HadUnfit, Warners, Inherited, Observed
  <2> QED
    BY <2>1, <2>2 DEF assembly
<1> QED
  BY <1>1, <1>2, <1>3, <1>4, <1>5, <1>6, <1>7, <1>8, <1>9 DEF Next, Assemble, Caller

LEMMA CausesAreKept ==
    ASSUME TypeInv, CauseInv, [Next]_vars
    PROVE  CauseInv'
<1>1. OriginInv' /\ FailureInv'
  BY OriginIsKept, FailuresAreKept DEF CauseInv
<1>2. CASE Assemble
  <2>1. place # "failed"
    BY <1>2 DEF Assemble, Status, Analysis, Remediation, Log, NoLogs, SCM, Telemetry, Fit
  <2>2. UNCHANGED <<call, analysis, late, input>>
    BY <1>2, CallerIsLeft DEF result
  <2> QED
    BY <1>1, <2>1, <2>2 DEF CauseInv, Observed
<1>3. CASE Caller \/ UNCHANGED vars
  <2>1. UNCHANGED <<input, place>>
    BY <1>3, AssemblyIsLeft DEF assembly
  <2>2. Observed' = Observed
    BY <2>1 DEF Observed
  <2>3. CASE Answer
    BY <1>1, <2>1, <2>2, <2>3, NothingIsSent DEF Answer, Settled, CauseInv
  <2>4. CASE Settle
    <3>1. analysis' = (IF place = "done" THEN Assembled ELSE Nothing) /\ late' = late
      BY <2>4 DEF Settle, Conclude, StartCallback
    <3>2. ~analysis'.available => place = "failed"
      BY <2>4, <3>1, NothingIsSent DEF Settle, Settled
    <3> QED
      BY <1>1, <2>1, <2>2, <2>4, <3>2 DEF Settle, CauseInv
  <2>5. CASE Deadline
    BY <1>1, <2>1, <2>2, <2>5 DEF Deadline, result, CauseInv
  <2>6. CASE GiveUp
    BY <1>1, <2>1, <2>2, <2>6 DEF GiveUp, CauseInv
  <2>7. CASE Reply \/ Stop
    BY <1>1, <2>1, <2>2, <2>7 DEF Reply, Stop, Return, CauseInv
  <2>8. CASE UNCHANGED vars
    BY <1>1, <2>1, <2>2, <2>8 DEF vars, result, CauseInv
  <2> QED
    BY <1>3, <2>3, <2>4, <2>5, <2>6, <2>7, <2>8 DEF Caller
<1> QED
  BY <1>2, <1>3 DEF Next, Caller

(* The inductive invariant of AnalysisIsLostForCause.                      *)
THEOREM CausesAreConsistent == Spec => [](TypeInv /\ CauseInv)
<1>1. Init => TypeInv /\ CauseInv
  <2> SUFFICES ASSUME Init PROVE TypeInv /\ CauseInv
    OBVIOUS
  <2>1. OriginInv
    BY DEF Init, OriginInv, NoEvidence, Nobody, PathsOf, ToSet
  <2> QED
    BY <2>1, FirstState DEF Init, CauseInv, FailureInv
<1>2. TypeInv /\ CauseInv /\ [Next]_vars => (TypeInv /\ CauseInv)'
  BY TypesAreKept, CausesAreKept
<1> QED
  BY <1>1, <1>2, PTL DEF Spec

(* Whatever the providers, jobs, changes and signals are: an analysis is   *)
(* missing only when the CI did not show the run or its failed jobs, the   *)
(* time was over, the provider that buildEvent spreads is an instance of a *)
(* class, or a source had something that no result carries                 *)
(* (runtime.ts 612-645, forensics.ts 48-198).                              *)
THEOREM MissingAnalysisHasCause == Spec => []AnalysisIsLostForCause
<1>1. TypeInv /\ CauseInv => AnalysisIsLostForCause
  BY DEF TypeInv, TypeOK, CauseInv, FailureInv, AnalysisIsLostForCause, Missing
<1> QED
  BY <1>1, CausesAreConsistent, PTL

-----------------------------------------------------------------------------
(* What is said of the callback *)

(* A callback runs while the event waits for it, and a verdict comes with  *)
(* the end.                                                                *)
AdviceInv ==
    /\ call \in {"racing", "threw"} => recommendation = "none" /\ callback = "none"
    /\ call = "recommending" => recommendation = "none" /\ callback = "running"
    /\ stopped => call = "returned"
    /\ AdviceIsTruthful

LEMMA AdviceIsKept ==
    ASSUME TypeInv, AdviceInv, [Next]_vars
    PROVE  AdviceInv'
<1> USE DEF AdviceInv, AdviceIsTruthful
<1>1. CASE Assemble
  BY <1>1, CallerIsLeft DEF result, advice
<1>2. CASE Answer
  BY <1>2 DEF Answer, advice
<1>3. CASE Settle
  <2>1. PICK a, built : Conclude(a, built) \/ StartCallback(a, built)
    BY <1>3 DEF Settle
  <2>2. CASE Conclude(a, built)
    BY <1>3, <2>2 DEF Settle, Conclude, Return, TypeInv, TypeOK
  <2>3. CASE StartCallback(a, built)
    BY <1>3, <2>3 DEF Settle, StartCallback, TypeInv, TypeOK
  <2> QED
    BY <2>1, <2>2, <2>3
<1>4. CASE Deadline
  BY <1>4 DEF Deadline, result, advice
<1>5. CASE GiveUp
  <2>1. PICK built : Conclude(Nothing, built)
    BY <1>5 DEF GiveUp
  <2> QED
    BY <1>5, <2>1 DEF GiveUp, Conclude, Return, TypeInv, TypeOK
<1>6. CASE Reply
  BY <1>6 DEF Reply, Return, Verdict, TypeInv, TypeOK
<1>7. CASE Stop
  BY <1>7 DEF Stop, Return, Verdict, StoppedVerdict, TypeInv, TypeOK
<1>8. CASE UNCHANGED vars
  BY <1>8 DEF vars, result, advice
<1> QED
  BY <1>1, <1>2, <1>3, <1>4, <1>5, <1>6, <1>7, <1>8 DEF Next

(* Through every order of the deadline's timer, the end of the callback    *)
(* and its answer to the signal: the reason given for a recommendation is  *)
(* what happened to its callback (analysis-policy.ts 167-206, runtime.ts   *)
(* 650-666).                                                               *)
THEOREM RecommendationsAreTruthful == Spec => []AdviceIsTruthful
<1>1. Init => TypeInv /\ AdviceInv
  <2> SUFFICES ASSUME Init PROVE TypeInv /\ AdviceInv
    OBVIOUS
  <2> QED
    BY FirstState DEF Init, AdviceInv, AdviceIsTruthful
<1>2. TypeInv /\ AdviceInv /\ [Next]_vars => (TypeInv /\ AdviceInv)'
  BY TypesAreKept, AdviceIsKept
<1>3. TypeInv /\ AdviceInv => AdviceIsTruthful
  BY DEF AdviceInv
<1> QED
  BY <1>1, <1>2, <1>3, PTL DEF Spec
=============================================================================
