----------------------------- MODULE ShardProofs ------------------------------
(***************************************************************************)
(* What a game of several wards keeps, for any number of wards, Sparks,     *)
(* cycles and contracts, and what src/wire.h promises of names and places,  *)
(* for every ward and id.                                                   *)
(***************************************************************************)
EXTENDS Shard, SumsProofs, SequenceTheorems, FiniteSetTheorems

-------------------------------------------------------------------------------
(* Names and places.                                                        *)

\* A name gives back the ward and the local part it was made of.
LEMMA NameDecodes ==
  ASSUME NEW i \in Nat, NEW l \in Nat, l < WIRE_LOCAL_MAX
  PROVE  /\ wire_id(i, l) \in Nat
         /\ wire_id(i, l) \div WIRE_LOCAL_MAX = i
         /\ wire_id(i, l) % WIRE_LOCAL_MAX = l
BY SMT DEF wire_id, WIRE_LOCAL_MAX

\* Two names that fit are equal only when ward and local part are (wire.h 96-107: "exact",
\* where a hash would be probable).
THEOREM NamesAreExact ==
  ASSUME NEW i \in Nat, NEW j \in Nat, NEW l \in Nat, NEW m \in Nat,
         Fits(i, l), Fits(j, m), wire_id(i, l) = wire_id(j, m)
  PROVE  i = j /\ l = m
<1>1. l < WIRE_LOCAL_MAX /\ m < WIRE_LOCAL_MAX
  BY SMT DEF Fits, WIRE_LOCAL_MAX, WIRE_WARD_MAX
<1>2. wire_id(i, l) \div WIRE_LOCAL_MAX = i /\ wire_id(i, l) % WIRE_LOCAL_MAX = l
  BY NameDecodes, <1>1, SMT
<1>3. wire_id(j, m) \div WIRE_LOCAL_MAX = j /\ wire_id(j, m) % WIRE_LOCAL_MAX = m
  BY NameDecodes, <1>1, SMT
<1>4. QED
  BY <1>2, <1>3, SMT

\* The lattice puts no two ids of one period on one place (wire.h 118-121 and 152-153):
\* MAX_WARDS full wards are 11072 ids of its 11227.  Their difference is a multiple of
\* 103 because 39 * 37 is one more than 14 * 103, of 109 because 19 * 23 is one more than
\* 4 * 109, and of both because 18 * 103 is one more than 17 * 109.
THEOREM HomesAreApart ==
  ASSUME NEW a \in 0..11226, NEW b \in 0..11226, spark_home(a) = spark_home(b)
  PROVE  a = b
<1> DEFINE d == a - b
           k == (a * 37) \div 103 - (b * 37) \div 103
           m == (a * 23) \div 109 - (b * 23) \div 109
           p == 39 * k - 14 * d
           q == 19 * m - 4 * d
           t == 18 * q - 17 * p
<1>1. (a * 37) % 103 = (b * 37) % 103 /\ (a * 23) % 109 = (b * 23) % 109
  BY SMT DEF spark_home, Lattice
<1>2. d \in Int /\ k \in Int /\ m \in Int
  BY SMT
<1>3. 37 * d = 103 * k /\ 23 * d = 109 * m
  BY <1>1, SMT
<1>4. p \in Int /\ q \in Int /\ d = 103 * p /\ d = 109 * q
  <2> HIDE DEF d, k, m
  <2> QED BY <1>2, <1>3, SMT
<1>5. t \in Int /\ d = 11227 * t
  <2> HIDE DEF d, p, q
  <2> QED BY <1>4, <1>2, SMT
<1>6. -11227 < d /\ d < 11227
  BY SMTT(60)
<1>7. d = 0
  <2> HIDE DEF d, t
  <2> QED BY <1>2, <1>5, <1>6, SMT
<1>8. QED
  BY <1>7, SMT

-------------------------------------------------------------------------------
(* Numbers and sums.                                                        *)

\* The smaller of two numbers.
LEMMA SmallerOfTwo ==
  ASSUME NEW a \in Int, NEW b \in Int
  PROVE  Min({a, b}) = IF a <= b THEN a ELSE b
<1>1. \E x \in {a, b} : \A y \in {a, b} : x <= y OBVIOUS
<1>2. /\ Min({a, b}) \in {a, b}
      /\ \A y \in {a, b} : Min({a, b}) <= y
  BY <1>1 DEF Min
<1> QED BY <1>2

\* What a quotient says.
LEMMA QuotientIs ==
  ASSUME NEW x \in Nat, NEW s \in Nat \ {0}
  PROVE  /\ x \div s \in Nat
         /\ s * (x \div s) <= x /\ x < s * (x \div s) + s
BY SMT

\* The ward of a base is the ward it is the base of, and the wards before the last are full.
LEMMA BasesAre ==
  ASSUME NEW a \in Nat, NEW s \in Nat \ {0}, NEW n \in Nat,
         a < (n + s - 1) \div s
  PROVE  /\ (a * s) \div s = a
         /\ a * s \in Nat /\ a * s < n
<1>1. (a * s) \div s = a BY SMT
<1> DEFINE q == (n + s - 1) \div s
<1>2. q \in Nat /\ s * q <= n + s - 1
  <2>1. n + s - 1 \in Nat OBVIOUS
  <2> QED BY <2>1, QuotientIs
<1> HIDE DEF q
<1>3. a < q BY DEF q
<1>4. a * s + s <= s * q BY <1>2, <1>3, SMT
<1>5. a * s \in Nat BY SMT
<1> QED BY <1>1, <1>2, <1>4, <1>5

\* Adding one amount to some of the terms adds it as often as they are.
LEMMA AddToSome ==
  ASSUME NEW N \in Nat, NEW f \in [1..N -> Int], NEW g \in [1..N -> Int],
         NEW K \in SUBSET (1..N), NEW x \in Int,
         \A k \in K : g[k] = f[k] + x, \A k \in (1..N) \ K : g[k] = f[k]
  PROVE  Cardinality(K) \in Nat /\ Total(g, N) = Total(f, N) + x * Cardinality(K)
<1> DEFINE p == PrefixSums(f, N)
           q == PrefixSums(g, N)
           C(n) == Cardinality(K \cap (1..n))
           T == {n \in 0..N : C(n) \in Nat /\ q[n] = p[n] + x * C(n)}
<1>1. /\ p \in [0..N -> Int] /\ p[0] = 0
      /\ \A k \in 1..N : p[k] = p[k-1] + f[k]
  BY PrefixUnfold
<1>2. /\ q \in [0..N -> Int] /\ q[0] = 0
      /\ \A k \in 1..N : q[k] = q[k-1] + g[k]
  BY PrefixUnfold
<1> HIDE DEF p, q
<1>3. 0 \in T
  <2>1. K \cap (1..0) = {} OBVIOUS
  <2>2. C(0) = 0 BY <2>1, FS_EmptySet
  <2> HIDE DEF C
  <2> QED BY <1>1, <1>2, <2>2
<1>4. ASSUME NEW n \in 1..N, n - 1 \in T PROVE n \in T
  <2> DEFINE before == K \cap (1..(n-1))
  <2>1. IsFiniteSet(before) /\ n \notin before
    <3>1. IsFiniteSet(1..(n-1)) BY FS_Interval
    <3>2. before \in SUBSET (1..(n-1)) OBVIOUS
    <3>3. IsFiniteSet(before) BY <3>1, <3>2, FS_Subset
    <3> QED BY <3>3
  <2>2. C(n-1) \in Nat /\ q[n-1] = p[n-1] + x * C(n-1) BY <1>4
  <2>3. q[n] = q[n-1] + g[n] /\ p[n] = p[n-1] + f[n] BY <1>1, <1>2
  <2>4. p[n-1] \in Int /\ q[n-1] \in Int /\ f[n] \in Int /\ g[n] \in Int
    <3>1. n - 1 \in 0..N OBVIOUS
    <3> QED BY <3>1, <1>1, <1>2
  <2>5. (n \in K => g[n] = f[n] + x) /\ (n \notin K => g[n] = f[n]) OBVIOUS
  <2>6. CASE n \in K
    <3>1. K \cap (1..n) = before \cup {n} BY <2>6
    <3>2. C(n) = C(n-1) + 1 BY <2>1, <3>1, FS_AddElement
    <3> HIDE DEF C
    <3>3. x * C(n) = x * C(n-1) + x BY <2>2, <3>2
    <3>4. q[n] = p[n] + x * C(n)
      <4> DEFINE u == x * C(n-1)
                 v == x * C(n)
      <4>1. u \in Int /\ v = u + x BY <2>2, <3>3, SMT
      <4>2. q[n-1] = p[n-1] + u /\ g[n] = f[n] + x BY <2>2, <2>5, <2>6
      <4> HIDE DEF u, v
      <4>3. q[n] = p[n] + v BY <2>3, <2>4, <4>1, <4>2
      <4> QED BY <4>3 DEF v
    <3> QED BY <3>2, <3>4, <2>2
  <2>7. CASE n \notin K
    <3>1. K \cap (1..n) = before BY <2>7
    <3>2. C(n) = C(n-1) BY <3>1
    <3> HIDE DEF C
    <3>3. q[n] = p[n] + x * C(n)
      <4> DEFINE u == x * C(n-1)
      <4>1. u \in Int /\ x * C(n) = u BY <2>2, <3>2, SMT
      <4>2. q[n-1] = p[n-1] + u /\ g[n] = f[n] BY <2>2, <2>5, <2>7
      <4> HIDE DEF u
      <4>3. q[n] = p[n] + u BY <2>3, <2>4, <4>1, <4>2
      <4> QED BY <4>1, <4>3
    <3> QED BY <3>2, <3>3, <2>2
  <2> QED BY <2>6, <2>7
<1>5. \A n \in 0..N : n \in T
  <2> HIDE DEF T
  <2> QED BY <1>3, <1>4, StepByStep
<1>6. C(N) \in Nat /\ q[N] = p[N] + x * C(N) BY <1>5
<1>7. K \cap (1..N) = K OBVIOUS
<1> QED BY <1>6, <1>7 DEF Total, p, q

-------------------------------------------------------------------------------
(* The sum over a set of databases.                                         *)

\* What the databases F hold together in d.
PurseSum(d, F) == MapThenSumSet(LAMBDA f : d[f].purse, F)

\* The fold behind it, on the subsets of F and on the small ones of them.
OneOf(s) == CHOOSE x \in s : TRUE
FoldsOn(it, d, D) ==
  it = [s \in D |-> IF s = {} THEN 0 ELSE d[OneOf(s)].purse + it[s \ {OneOf(s)}]]
UpTo(F, n) == {s \in SUBSET F : Cardinality(s) <= n}

\* A subset of a finite set, and what is left of it without one element.
LEMMA OneLess ==
  ASSUME NEW F, IsFiniteSet(F), NEW s \in SUBSET F, NEW x \in s
  PROVE  /\ Cardinality(s) \in Nat \ {0} /\ s \ {x} \in SUBSET F
         /\ Cardinality(s \ {x}) = Cardinality(s) - 1
<1>1. IsFiniteSet(s) BY FS_Subset
<1>2. Cardinality(s) \in Nat /\ Cardinality(s \ {x}) = Cardinality(s) - 1
  BY <1>1, FS_CardinalityType, FS_RemoveElement
<1>3. s # {} OBVIOUS
<1>4. Cardinality(s) # 0 BY <1>1, <1>3, FS_EmptySet
<1> QED BY <1>2, <1>4

\* The fold's recursion has a solution.
LEMMA FoldExists ==
  ASSUME NEW d, NEW F, IsFiniteSet(F)
  PROVE  \E it : FoldsOn(it, d, SUBSET F)
<1> DEFINE N == Cardinality(F)
           T == {n \in 0..N : \E it : FoldsOn(it, d, UpTo(F, n))}
<1>1. N \in Nat BY FS_CardinalityType
<1>2. ASSUME NEW s \in SUBSET F
      PROVE  Cardinality(s) \in Nat /\ Cardinality(s) <= N /\ (Cardinality(s) = 0 <=> s = {})
  BY FS_Subset, FS_CardinalityType, FS_EmptySet
<1> HIDE DEF N
<1>3. 0 \in T
  <2> DEFINE z == [s \in UpTo(F, 0) |-> 0]
  <2>1. \A s \in UpTo(F, 0) : s = {} BY <1>2 DEF UpTo
  <2>2. FoldsOn(z, d, UpTo(F, 0)) BY <2>1 DEF FoldsOn
  <2> QED BY <1>1, <2>2
<1>4. ASSUME NEW n \in 1..N, n - 1 \in T PROVE n \in T
  <2>1. PICK it : FoldsOn(it, d, UpTo(F, n-1)) BY <1>4
  <2> DEFINE jt == [s \in UpTo(F, n) |->
                      IF s = {} THEN 0 ELSE d[OneOf(s)].purse + it[s \ {OneOf(s)}]]
  <2>2. ASSUME NEW t \in UpTo(F, n-1) PROVE jt[t] = it[t]
    <3>1. t \in UpTo(F, n) BY <1>1, <1>2 DEF UpTo
    <3>2. it[t] = IF t = {} THEN 0 ELSE d[OneOf(t)].purse + it[t \ {OneOf(t)}]
      BY <2>1 DEF FoldsOn
    <3> QED BY <3>1, <3>2
  <2>3. ASSUME NEW s \in UpTo(F, n), s # {} PROVE s \ {OneOf(s)} \in UpTo(F, n-1)
    <3>1. OneOf(s) \in s BY <2>3 DEF OneOf
    <3>2. s \in SUBSET F /\ Cardinality(s) <= n BY DEF UpTo
    <3>3. Cardinality(s) \in Nat \ {0} /\ s \ {OneOf(s)} \in SUBSET F
          /\ Cardinality(s \ {OneOf(s)}) = Cardinality(s) - 1
      BY <3>1, <3>2, OneLess
    <3> QED BY <1>1, <3>2, <3>3 DEF UpTo
  <2>4. \A s \in UpTo(F, n) :
          jt[s] = IF s = {} THEN 0 ELSE d[OneOf(s)].purse + jt[s \ {OneOf(s)}]
    BY <2>2, <2>3
  <2>5. jt = [s \in UpTo(F, n) |-> jt[s]] OBVIOUS
  <2> HIDE DEF jt
  <2>6. FoldsOn(jt, d, UpTo(F, n)) BY <2>4, <2>5 DEF FoldsOn
  <2> QED BY <1>1, <2>6
<1>5. \A n \in 0..N : n \in T
  <2> HIDE DEF T
  <2> QED BY <1>1, <1>3, <1>4, StepByStep
<1>6. UpTo(F, N) = SUBSET F BY <1>2 DEF UpTo
<1>7. N \in T BY <1>1, <1>5
<1> QED BY <1>6, <1>7

\* The sum is what a solution says of the whole set.
LEMMA SumIsFold ==
  ASSUME NEW d, NEW F, IsFiniteSet(F)
  PROVE  \E it : FoldsOn(it, d, SUBSET F) /\ PurseSum(d, F) = it[F]
<1>1. PurseSum(d, F) = (CHOOSE it : FoldsOn(it, d, SUBSET F))[F]
  BY DEF PurseSum, MapThenSumSet, MapThenFoldSet, FoldsOn, OneOf
<1> QED BY <1>1, FoldExists

\* The fold does not depend on which element it takes next.
LEMMA FoldAnyOrder ==
  ASSUME NEW d, NEW F, IsFiniteSet(F), \A f \in F : d[f].purse \in Int,
         NEW it, FoldsOn(it, d, SUBSET F)
  PROVE  /\ it[{}] = 0
         /\ \A s \in SUBSET F : it[s] \in Int
         /\ \A s \in SUBSET F : \A x \in s : it[s] = d[x].purse + it[s \ {x}]
<1> DEFINE N == Cardinality(F)
           Good(s) == it[s] \in Int /\ \A x \in s : it[s] = d[x].purse + it[s \ {x}]
           T == {n \in 0..N : \A s \in SUBSET F : Cardinality(s) <= n => Good(s)}
<1>1. N \in Nat BY FS_CardinalityType
<1>2. ASSUME NEW s \in SUBSET F
      PROVE  Cardinality(s) \in Nat /\ Cardinality(s) <= N /\ (Cardinality(s) = 0 <=> s = {})
  BY FS_Subset, FS_CardinalityType, FS_EmptySet
<1> HIDE DEF N
<1>3. it[{}] = 0 BY DEF FoldsOn
<1>4. 0 \in T
  <2>1. Good({}) BY <1>3
  <2>2. \A s \in SUBSET F : Cardinality(s) <= 0 => s = {} BY <1>2
  <2> HIDE DEF Good
  <2> QED BY <1>1, <2>1, <2>2
<1>5. ASSUME NEW n \in 1..N, n - 1 \in T PROVE n \in T
  <2>0. \A t \in SUBSET F : Cardinality(t) <= n - 1 => Good(t) BY <1>5
  <2> SUFFICES ASSUME NEW s \in SUBSET F, Cardinality(s) = n PROVE Good(s)
    <3>1. \A t \in SUBSET F : Cardinality(t) <= n => Cardinality(t) <= n - 1 \/ Cardinality(t) = n
      BY <1>2
    <3> HIDE DEF Good
    <3> QED BY <2>0, <3>1
  <2> DEFINE y == OneOf(s)
  <2>1. y \in s
    <3>1. s # {} BY <1>2
    <3> QED BY <3>1 DEF OneOf
  <2>2. it[s] = d[y].purse + it[s \ {y}] BY <2>1 DEF FoldsOn
  <2> HIDE DEF y
  <2>3. ASSUME NEW x \in s PROVE s \ {x} \in SUBSET F /\ Good(s \ {x})
    <3>1. s \ {x} \in SUBSET F /\ Cardinality(s \ {x}) = n - 1 BY OneLess
    <3>2. Cardinality(s \ {x}) <= n - 1 BY <3>1
    <3> HIDE DEF Good
    <3> QED BY <2>0, <3>1, <3>2
  <2>4. it[s] \in Int
    <3>1. it[s \ {y}] \in Int BY <2>1, <2>3
    <3> QED BY <2>1, <2>2, <3>1
  <2>5. ASSUME NEW x \in s PROVE it[s] = d[x].purse + it[s \ {x}]
    <3>1. CASE x = y BY <2>2, <3>1
    <3>2. CASE x # y
      <4>1. it[s \ {y}] = d[x].purse + it[(s \ {y}) \ {x}]
        <5>1. x \in s \ {y} BY <3>2
        <5> QED BY <2>1, <2>3, <5>1
      <4>2. it[s \ {x}] = d[y].purse + it[(s \ {x}) \ {y}]
        <5>1. y \in s \ {x} BY <2>1, <3>2
        <5> QED BY <2>3, <5>1
      <4>3. (s \ {y}) \ {x} = (s \ {x}) \ {y} OBVIOUS
      <4> DEFINE u == it[(s \ {x}) \ {y}]
                 a == d[x].purse
                 b == d[y].purse
      <4>4. u \in Int
        <5> DEFINE v == s \ {x}
        <5>1. v \in SUBSET F /\ Cardinality(v) = n - 1 BY OneLess
        <5>2. y \in v BY <2>1, <3>2
        <5> HIDE DEF v
        <5>3. v \ {y} \in SUBSET F /\ Cardinality(v \ {y}) = n - 2 BY <5>1, <5>2, OneLess
        <5>4. Cardinality(v \ {y}) <= n - 1 BY <5>3
        <5>5. it[v \ {y}] \in Int BY <2>0, <5>3, <5>4
        <5> QED BY <5>5 DEF v
      <4>5. a \in Int /\ b \in Int BY <2>1
      <4>6. it[s] = b + (a + u) /\ it[s \ {x}] = b + u BY <2>2, <4>1, <4>2, <4>3
      <4> HIDE DEF u, a, b
      <4>7. it[s] = a + it[s \ {x}] BY <4>4, <4>5, <4>6
      <4> QED BY <4>7 DEF a
    <3> QED BY <3>1, <3>2
  <2> QED BY <2>4, <2>5
<1>6. \A n \in 0..N : n \in T
  <2> HIDE DEF T
  <2> QED BY <1>1, <1>4, <1>5, StepByStep
<1>7. ASSUME NEW s \in SUBSET F PROVE Good(s)
  <2>1. Cardinality(s) \in 0..N BY <1>1, <1>2
  <2> QED BY <1>6, <2>1
<1> QED BY <1>3, <1>7
\* Two folds agree on the sets they both have.
LEMMA FoldsAgree ==
  ASSUME NEW d, NEW G, NEW F \in SUBSET G, IsFiniteSet(F),
         NEW it, FoldsOn(it, d, SUBSET F), NEW jt, FoldsOn(jt, d, SUBSET G)
  PROVE  it[F] = jt[F]
<1> DEFINE N == Cardinality(F)
           T == {n \in 0..N : \A s \in SUBSET F : Cardinality(s) = n => it[s] = jt[s]}
<1>1. N \in Nat BY FS_CardinalityType
<1>2. ASSUME NEW s \in SUBSET F
      PROVE  Cardinality(s) \in Nat /\ (Cardinality(s) = 0 <=> s = {})
  BY FS_Subset, FS_CardinalityType, FS_EmptySet
<1> HIDE DEF N
<1>3. 0 \in T
  <2>1. it[{}] = 0 /\ jt[{}] = 0 BY DEF FoldsOn
  <2> QED BY <1>1, <1>2, <2>1
<1>4. ASSUME NEW n \in 1..N, n - 1 \in T PROVE n \in T
  <2> SUFFICES ASSUME NEW s \in SUBSET F, Cardinality(s) = n PROVE it[s] = jt[s] OBVIOUS
  <2> DEFINE y == OneOf(s)
  <2>1. y \in s /\ s # {}
    <3>1. s # {} BY <1>2
    <3> QED BY <3>1 DEF OneOf
  <2>2. it[s] = d[y].purse + it[s \ {y}] BY <2>1 DEF FoldsOn
  <2>3. jt[s] = d[y].purse + jt[s \ {y}]
    <3>1. s \in SUBSET G OBVIOUS
    <3> QED BY <2>1, <3>1 DEF FoldsOn
  <2> HIDE DEF y
  <2>4. s \ {y} \in SUBSET F /\ Cardinality(s \ {y}) = n - 1 BY <2>1, OneLess
  <2>5. it[s \ {y}] = jt[s \ {y}] BY <1>4, <2>4
  <2> QED BY <2>2, <2>3, <2>5
<1>5. \A n \in 0..N : n \in T
  <2> HIDE DEF T
  <2> QED BY <1>1, <1>3, <1>4, StepByStep
<1>6. N \in T BY <1>1, <1>5
<1> QED BY <1>6 DEF N

\* One more database adds what it holds.
LEMMA SumWithOne ==
  ASSUME NEW d, NEW F, IsFiniteSet(F), NEW x, x \notin F,
         \A f \in F \cup {x} : d[f].purse \in Int
  PROVE  PurseSum(d, F) \in Int /\ PurseSum(d, F \cup {x}) = PurseSum(d, F) + d[x].purse
<1> DEFINE G == F \cup {x}
<1>1. IsFiniteSet(G) BY FS_AddElement
<1>2. x \in G /\ G \ {x} = F /\ F \subseteq G /\ F \in SUBSET F /\ G \in SUBSET G OBVIOUS
<1>3. \A f \in G : d[f].purse \in Int OBVIOUS
<1>3b. \A f \in F : d[f].purse \in Int BY <1>2, <1>3
<1> HIDE DEF G
<1>4. PICK it : FoldsOn(it, d, SUBSET F) /\ PurseSum(d, F) = it[F] BY SumIsFold
<1>5. PICK jt : FoldsOn(jt, d, SUBSET G) /\ PurseSum(d, G) = jt[G] BY <1>1, SumIsFold
<1>6. it[F] = jt[F]
  <2>1. F \in SUBSET G BY <1>2
  <2>2. FoldsOn(it, d, SUBSET F) BY <1>4
  <2>3. FoldsOn(jt, d, SUBSET G) BY <1>5
  <2> QED BY <2>1, <2>2, <2>3, FoldsAgree
<1>7. it[F] \in Int BY <1>2, <1>3b, <1>4, FoldAnyOrder
<1>8. jt[G] = d[x].purse + jt[G \ {x}] BY <1>1, <1>2, <1>3, <1>5, FoldAnyOrder
<1>9. d[x].purse \in Int BY <1>2, <1>3
<1>10. PurseSum(d, G) = d[x].purse + it[F] BY <1>2, <1>5, <1>6, <1>8
<1>11. PurseSum(d, F) = it[F] BY <1>4
<1>12. PurseSum(d, G) = PurseSum(d, F) + d[x].purse BY <1>7, <1>9, <1>10, <1>11
<1> QED BY <1>7, <1>11, <1>12 DEF G

\* The terms p count every database named in the sequence file once.
CountsOnce(d, file, p, N) ==
  /\ N \in Nat /\ p \in [1..N -> Int]
  /\ \A k \in 1..N : d[file[k]].purse \in Int
  /\ \A k \in 1..N : IF \E l \in 1..(k-1) : file[l] = file[k] THEN p[k] = 0
                                                       ELSE p[k] = d[file[k]].purse

\* What the databases of some Sparks hold is the total of the Sparks.
LEMMA SumIsTotal ==
  ASSUME NEW d, NEW file, NEW p, NEW N, CountsOnce(d, file, p, N)
  PROVE  PurseSum(d, {file[k] : k \in 1..N}) = Total(p, N)
<1> DEFINE q == PrefixSums(p, N)
           S(n) == {file[k] : k \in 1..n}
           T == {n \in 0..N : IsFiniteSet(S(n)) /\ PurseSum(d, S(n)) = q[n]}
<1>1. /\ N \in Nat /\ p \in [1..N -> Int]
      /\ \A k \in 1..N : d[file[k]].purse \in Int
      /\ \A k \in 1..N : IF \E l \in 1..(k-1) : file[l] = file[k] THEN p[k] = 0
                                                           ELSE p[k] = d[file[k]].purse
  BY DEF CountsOnce
<1>2. /\ q \in [0..N -> Int] /\ q[0] = 0
      /\ \A k \in 1..N : q[k] = q[k-1] + p[k]
  BY <1>1, PrefixUnfold
<1> HIDE DEF q
<1>3. 0 \in T
  <2>1. S(0) = {} /\ {} \in SUBSET {} OBVIOUS
  <2>2. IsFiniteSet({}) BY FS_EmptySet
  <2>3. PICK it : FoldsOn(it, d, SUBSET {}) /\ PurseSum(d, {}) = it[{}] BY <2>2, SumIsFold
  <2>4. it[{}] = 0 BY <2>1, <2>3 DEF FoldsOn
  <2> HIDE DEF S
  <2>5. IsFiniteSet(S(0)) /\ PurseSum(d, S(0)) = q[0] BY <1>2, <2>1, <2>2, <2>3, <2>4
  <2>6. 0 \in 0..N BY <1>1
  <2> QED BY <2>5, <2>6
<1>4. ASSUME NEW n \in 1..N, n - 1 \in T PROVE n \in T
  <2>1. IsFiniteSet(S(n-1)) /\ PurseSum(d, S(n-1)) = q[n-1] BY <1>4
  <2>2. q[n] = q[n-1] + p[n] /\ q[n-1] \in Int /\ n \in 0..N
    <3>1. n - 1 \in 0..N BY <1>1
    <3> QED BY <1>1, <1>2, <3>1
  <2>3. S(n) = S(n-1) \cup {file[n]}
    <3>1. 1..n = (1..(n-1)) \cup {n} BY <1>1
    <3> QED BY <3>1
  <2>4. \A f \in S(n) : d[f].purse \in Int
    <3>1. 1..n \subseteq 1..N BY <1>1
    <3> QED BY <1>1, <3>1
  <2>5. file[n] \in S(n-1) <=> \E l \in 1..(n-1) : file[l] = file[n] OBVIOUS
  <2>6. n \in 1..N /\ (IF \E l \in 1..(n-1) : file[l] = file[n] THEN p[n] = 0
                                                        ELSE p[n] = d[file[n]].purse)
    BY <1>1
  <2> HIDE DEF S
  <2>7. CASE file[n] \in S(n-1)
    <3>1. S(n) = S(n-1) BY <2>3, <2>7
    <3>2. p[n] = 0 BY <2>5, <2>6, <2>7
    <3>3. q[n] = q[n-1] BY <2>2, <3>2
    <3> QED BY <2>1, <2>2, <3>1, <3>3
  <2>8. CASE file[n] \notin S(n-1)
    <3> DEFINE F == S(n-1)
               x == file[n]
    <3>1. IsFiniteSet(F) /\ x \notin F /\ S(n) = F \cup {x} BY <2>1, <2>3, <2>8
    <3>2. p[n] = d[x].purse BY <2>5, <2>6, <2>8
    <3>3. \A f \in F \cup {x} : d[f].purse \in Int BY <2>4, <3>1
    <3> HIDE DEF F, x
    <3>4. PurseSum(d, S(n)) = PurseSum(d, F) + d[x].purse BY <3>1, <3>3, SumWithOne
    <3>5. PurseSum(d, S(n)) = q[n] BY <2>1, <2>2, <3>2, <3>4 DEF F
    <3>6. IsFiniteSet(S(n)) BY <3>1, FS_AddElement
    <3> QED BY <2>2, <3>5, <3>6
  <2> QED BY <2>7, <2>8
<1>5. \A n \in 0..N : n \in T
  <2> HIDE DEF T
  <2> QED BY <1>1, <1>3, <1>4, StepByStep
<1>6. PurseSum(d, S(N)) = q[N]
  <2>1. N \in T
    <3> HIDE DEF T
    <3> QED BY <1>1, <1>5
  <2> HIDE DEF S
  <2> QED BY <2>1
<1> QED BY <1>6 DEF Total, q

-------------------------------------------------------------------------------
(* Types.                                                                   *)

SparkRecord == [id : Id, home : Ward, opened : Nat, purse : Nat, items : Nat, wire : Nat]
WardRecord  == [ward_no : Nat, cycle : Nat, treasury : Nat, issued : Int, found : Int,
                retired : Nat, spent : Nat, built : SUBSET {"rails", "row"}, board : Nat,
                sparks : Seq(SparkRecord)]
FileRecord  == [opens : Nat, purse : Nat, items : Nat, wire : Int]
RowRecord   == [treasury : Nat, issued : Int, retired : Nat]

\* The state of shard() and of its databases.
ShardTypeOK ==
  /\ game \in Games
  /\ w \in [Ward -> WardRecord]
  /\ db \in [Ward \X Id -> FileRecord]
  /\ wardDb \in [Ward -> RowRecord]
  /\ pc \in {"start", "found", "play", "migrate", "end", "over"}
  /\ turn \in 0..MAX_WARDS /\ c \in 0..game.cycles /\ rc \in -1..2

\* Wards and ids are numbers.
LEMMA RangesAre ==
  /\ Ward \subseteq Nat /\ Id \subseteq Nat
  /\ MAX_WARDS * SPARKS_PER_WARD \in Nat
<1>1. MAX_WARDS \in Nat /\ SPARKS_PER_WARD \in Nat BY ShardConstants
<1>2. MAX_WARDS * SPARKS_PER_WARD \in Nat BY <1>1
<1> QED BY <1>1, <1>2 DEF Ward, Id

\* The name of a Spark is a number.
LEMMA SparkWireType ==
  ASSUME NEW no \in Nat, NEW id \in Nat
  PROVE  SparkWire(no, id) \in Nat
BY SMT DEF SparkWire, wire_id, WIRE_SPARK_BASE, WIRE_LOCAL_MAX

\* A ward with one field changed is a ward.
LEMMA WardFields ==
  ASSUME NEW g \in WardRecord
  PROVE  /\ \A n \in Nat : [g EXCEPT !.ward_no = n] \in WardRecord
         /\ \A n \in Nat : [g EXCEPT !.cycle = n] \in WardRecord
         /\ \A n \in Nat : [g EXCEPT !.treasury = n] \in WardRecord
         /\ \A n \in Int : [g EXCEPT !.issued = n] \in WardRecord
         /\ \A n \in Int : [g EXCEPT !.found = n] \in WardRecord
         /\ \A n \in Nat : [g EXCEPT !.retired = n] \in WardRecord
         /\ \A n \in Nat : [g EXCEPT !.spent = n] \in WardRecord
         /\ \A b \in SUBSET {"rails", "row"} : [g EXCEPT !.built = b] \in WardRecord
         /\ \A n \in Nat : [g EXCEPT !.board = n] \in WardRecord
         /\ \A s \in Seq(SparkRecord) : [g EXCEPT !.sparks = s] \in WardRecord
<1>1. ASSUME NEW n \in Nat PROVE [g EXCEPT !.ward_no = n] \in WardRecord BY DEF WardRecord
<1>2. ASSUME NEW n \in Nat PROVE [g EXCEPT !.cycle = n] \in WardRecord BY DEF WardRecord
<1>3. ASSUME NEW n \in Nat PROVE [g EXCEPT !.treasury = n] \in WardRecord BY DEF WardRecord
<1>4. ASSUME NEW n \in Int PROVE [g EXCEPT !.issued = n] \in WardRecord BY DEF WardRecord
<1>5. ASSUME NEW n \in Int PROVE [g EXCEPT !.found = n] \in WardRecord BY DEF WardRecord
<1>6. ASSUME NEW n \in Nat PROVE [g EXCEPT !.retired = n] \in WardRecord BY DEF WardRecord
<1>7. ASSUME NEW n \in Nat PROVE [g EXCEPT !.spent = n] \in WardRecord BY DEF WardRecord
<1>8. ASSUME NEW b \in SUBSET {"rails", "row"} PROVE [g EXCEPT !.built = b] \in WardRecord
  BY DEF WardRecord
<1>9. ASSUME NEW n \in Nat PROVE [g EXCEPT !.board = n] \in WardRecord BY DEF WardRecord
<1>10. ASSUME NEW s \in Seq(SparkRecord) PROVE [g EXCEPT !.sparks = s] \in WardRecord
  <2> DEFINE S == Seq(SparkRecord)
  <2> HIDE DEF S
  <2> QED BY DEF WardRecord, S
<1> QED BY <1>1, <1>2, <1>3, <1>4, <1>5, <1>6, <1>7, <1>8, <1>9, <1>10

\* The database of a Spark, and a Spark just made.
LEMMA NewSparkIs ==
  ASSUME ShardTypeOK, NEW no \in Ward, NEW id \in Id
  PROVE  /\ NewSpark(no, id) \in SparkRecord
         /\ NewSpark(no, id).id = id /\ NewSpark(no, id).home = no
         /\ NewSpark(no, id).purse = 0 /\ NewSpark(no, id).items = 0
         /\ NewSpark(no, id).wire = SparkWire(no, id)
         /\ NewSpark(no, id).opened = db[<< no, id >>].opens + 1
<1>1. db[<< no, id >>] \in FileRecord BY DEF ShardTypeOK
<1>2. db[<< no, id >>].opens \in Nat BY <1>1 DEF FileRecord
<1>3. SparkWire(no, id) \in Nat BY SparkWireType, RangesAre
<1> QED BY <1>2, <1>3 DEF NewSpark, SparkRecord

\* The databases after Sparks have joined.
LEMMA JoiningIs ==
  ASSUME ShardTypeOK, NEW no \in Ward, NEW ids
  PROVE  Joining(no, ids) \in [Ward \X Id -> FileRecord]
<1>1. DOMAIN db = Ward \X Id BY DEF ShardTypeOK
<1>2. ASSUME NEW f \in Ward \X Id
      PROVE  /\ db[f] \in FileRecord
             /\ [opens |-> db[f].opens + 1, purse |-> 0, items |-> 0,
                 wire |-> SparkWire(no, f[2])] \in FileRecord
  <2>1. db[f] \in FileRecord BY DEF ShardTypeOK
  <2>2. db[f].opens + 1 \in Nat BY <2>1 DEF FileRecord
  <2>3. f[2] \in Nat /\ no \in Nat BY RangesAre
  <2>4. SparkWire(no, f[2]) \in Int BY <2>3, SparkWireType
  <2> QED BY <2>1, <2>2, <2>4 DEF FileRecord
<1> QED BY <1>1, <1>2 DEF Joining

\* The databases after the handles of Sparks have committed.
LEMMA StoredIs ==
  ASSUME ShardTypeOK, NEW sparks \in Seq(SparkRecord)
  PROVE  Stored(sparks) \in [Ward \X Id -> FileRecord]
<1>1. DOMAIN db = Ward \X Id BY DEF ShardTypeOK
<1> DEFINE Fits2(s, f) == << s.home, s.id >> = f /\ MayWrite(s)
           New(f) == LET s == CHOOSE s \in Range(sparks) : Fits2(s, f)
                     IN  [db[f] EXCEPT !.purse = s.purse, !.items = s.items, !.wire = s.wire]
<1>2. ASSUME NEW f \in Ward \X Id, \E k \in DOMAIN sparks : Fits2(sparks[k], f)
      PROVE  New(f) \in FileRecord
  <2> DEFINE s == CHOOSE s \in Range(sparks) : Fits2(s, f)
  <2>1. \E t \in Range(sparks) : Fits2(t, f) BY <1>2 DEF Range
  <2>2. s \in Range(sparks) BY <2>1
  <2>3. Range(sparks) \subseteq SparkRecord BY DEF Range
  <2>4. s \in SparkRecord BY <2>2, <2>3
  <2> HIDE DEF s
  <2>5. db[f] \in FileRecord BY DEF ShardTypeOK
  <2>6. s.purse \in Nat /\ s.items \in Nat /\ s.wire \in Int BY <2>4 DEF SparkRecord
  <2>7. [db[f] EXCEPT !.purse = s.purse, !.items = s.items, !.wire = s.wire] \in FileRecord
    BY <2>5, <2>6 DEF FileRecord
  <2> QED BY <2>7 DEF s
<1>3. \A f \in Ward \X Id : db[f] \in FileRecord BY DEF ShardTypeOK
<1>4. Stored(sparks) = [f \in Ward \X Id |->
        IF \E k \in DOMAIN sparks : Fits2(sparks[k], f) THEN New(f) ELSE db[f]]
  BY <1>1 DEF Stored
<1> HIDE DEF New
<1> QED BY <1>2, <1>3, <1>4

-------------------------------------------------------------------------------
(* A cycle.                                                                 *)

\* The Queen buys.
LEMMA BoughtIs ==
  ASSUME NEW g \in WardRecord, NEW b \in {{}, {"rails"}, {"row"}},
         COST * Cardinality(b) <= g.treasury
  PROVE  /\ Bought(g, b) \in WardRecord
         /\ Bought(g, b).ward_no = g.ward_no /\ Bought(g, b).sparks = g.sparks
         /\ Bought(g, b).issued = g.issued /\ Bought(g, b).found = g.found
         /\ Bought(g, b).retired = g.retired
         /\ Bought(g, b).treasury + Bought(g, b).spent = g.treasury + g.spent
<1> DEFINE p == COST * Cardinality(b)
           S == Seq(SparkRecord)
<1>1. p \in Nat
  <2>1. Cardinality({}) = 0 BY FS_EmptySet
  <2>2. Cardinality({"rails"}) = 1 /\ Cardinality({"row"}) = 1 BY FS_Singleton
  <2>3. Cardinality(b) \in Nat
    <3>1. b = {} \/ b = {"rails"} \/ b = {"row"} OBVIOUS
    <3>2. Cardinality(b) = 0 \/ Cardinality(b) = 1 BY <2>1, <2>2, <3>1, Zenon
    <3> QED BY <3>2
  <2> QED BY <2>3, ShardConstants
<1>2. /\ g.treasury - p \in Nat /\ g.spent + p \in Nat /\ g.cycle + 1 \in Nat
      /\ g.built \cup b \in SUBSET {"rails", "row"}
      /\ (g.treasury - p) + (g.spent + p) = g.treasury + g.spent
  <2> HIDE DEF p
  <2> QED BY <1>1, SMTT(30) DEF WardRecord, p
<1> DEFINE r1 == [g EXCEPT !.cycle = @ + 1]
           r2 == [r1 EXCEPT !.built = @ \cup b]
           r3 == [r2 EXCEPT !.treasury = @ - p]
           r4 == [r3 EXCEPT !.spent = @ + p]
<1>3. Bought(g, b) = r4 BY DEF Bought
<1> HIDE DEF p
<1>4. /\ r1 \in WardRecord /\ r1.ward_no = g.ward_no /\ r1.sparks = g.sparks
      /\ r1.issued = g.issued /\ r1.found = g.found /\ r1.retired = g.retired
      /\ r1.treasury = g.treasury /\ r1.spent = g.spent /\ r1.built = g.built
  BY <1>2, WardFields, ZenonT(60) DEF WardRecord
<1>5. /\ r2 \in WardRecord /\ r2.ward_no = g.ward_no /\ r2.sparks = g.sparks
      /\ r2.issued = g.issued /\ r2.found = g.found /\ r2.retired = g.retired
      /\ r2.treasury = g.treasury /\ r2.spent = g.spent
  <2> HIDE DEF r1
  <2> QED BY <1>2, <1>4, WardFields, ZenonT(60) DEF WardRecord
<1>6. /\ r3 \in WardRecord /\ r3.ward_no = g.ward_no /\ r3.sparks = g.sparks
      /\ r3.issued = g.issued /\ r3.found = g.found /\ r3.retired = g.retired
      /\ r3.treasury = g.treasury - p /\ r3.spent = g.spent
  <2> HIDE DEF r2
  <2> QED BY <1>2, <1>5, WardFields, ZenonT(60) DEF WardRecord
<1>7. /\ r4 \in WardRecord /\ r4.ward_no = g.ward_no /\ r4.sparks = g.sparks
      /\ r4.issued = g.issued /\ r4.found = g.found /\ r4.retired = g.retired
      /\ r4.treasury = g.treasury - p /\ r4.spent = g.spent + p
  <2> HIDE DEF r3
  <2> QED BY <1>2, <1>6, WardFields, ZenonT(60) DEF WardRecord
<1> HIDE DEF r4
<1> QED BY <1>2, <1>3, <1>7

\* The sums of a ward that can be added up.
LEMMA SumsAreTyped ==
  ASSUME NEW g \in WardRecord
  PROVE  /\ Len(g.sparks) \in Nat /\ DOMAIN g.sparks = 1..Len(g.sparks)
         /\ \A k \in 1..Len(g.sparks) : g.sparks[k] \in SparkRecord
         /\ Purses(g) \in Int /\ Salvage(g) \in Int /\ Held(g) \in Int
<1> DEFINE N == Len(g.sparks)
<1>1. g.sparks \in Seq(SparkRecord) /\ g.treasury \in Nat /\ g.retired \in Nat /\ g.spent \in Nat
  <2> DEFINE S == Seq(SparkRecord)
  <2> HIDE DEF S
  <2>1. g.sparks \in S /\ g.treasury \in Nat /\ g.retired \in Nat /\ g.spent \in Nat
    BY DEF WardRecord, S
  <2> QED BY <2>1 DEF S
<1>2. N \in Nat /\ DOMAIN g.sparks = 1..N /\ \A k \in 1..N : g.sparks[k] \in SparkRecord
  BY <1>1
<1>3. \A k \in 1..N : g.sparks[k].purse \in Int /\ g.sparks[k].items \in Int
  BY <1>2 DEF SparkRecord
<1> HIDE DEF N
<1>4. Purses(g) \in Int
  <2> DEFINE f == [k \in 1..N |-> g.sparks[k].purse]
  <2>1. f \in [1..N -> Int] BY <1>3
  <2>2. Purses(g) = Total(f, N) BY <1>2 DEF Purses, N
  <2> HIDE DEF f
  <2> QED BY <1>2, <2>1, <2>2, TotalType
<1>5. Salvage(g) \in Int
  <2> DEFINE f == [k \in 1..N |-> g.sparks[k].items]
  <2>1. f \in [1..N -> Int] BY <1>3
  <2>2. Salvage(g) = Total(f, N) BY <1>2 DEF Salvage, N
  <2> HIDE DEF f
  <2> QED BY <1>2, <2>1, <2>2, TotalType
<1>6. Held(g) \in Int BY <1>1, <1>4 DEF Held
<1> QED BY <1>2, <1>4, <1>5, <1>6 DEF N

\* What a Spark is after it has worked: who it is does not change, and what it holds grows.
LEMMA PaidIs ==
  ASSUME NEW s \in SparkRecord, NEW a \in Nat, NEW b \in Nat
  PROVE  /\ Paid(s, a, b) \in SparkRecord
         /\ Paid(s, a, b).id = s.id /\ Paid(s, a, b).home = s.home
         /\ Paid(s, a, b).wire = s.wire /\ Paid(s, a, b).opened = s.opened
         /\ Paid(s, a, b).purse = s.purse + a /\ Paid(s, a, b).items = s.items + b
<1> DEFINE r1 == [s EXCEPT !.purse = @ + a]
           r2 == [r1 EXCEPT !.items = @ + b]
<1>1. Paid(s, a, b) = r2 BY DEF Paid
<1>2. /\ r1 \in SparkRecord /\ r1.id = s.id /\ r1.home = s.home /\ r1.wire = s.wire
      /\ r1.opened = s.opened /\ r1.purse = s.purse + a /\ r1.items = s.items
  BY DEF SparkRecord
<1> HIDE DEF r1
<1>3. /\ r2 \in SparkRecord /\ r2.id = r1.id /\ r2.home = r1.home /\ r2.wire = r1.wire
      /\ r2.opened = r1.opened /\ r2.purse = r1.purse /\ r2.items = r1.items + b
  BY <1>2 DEF SparkRecord
<1> QED BY <1>1, <1>2, <1>3

\* What a cycle makes of a ward g, when some kept their contract and some others were paid.
WorkedInto(g, r, kept, paid) ==
  /\ r \in WardRecord /\ Cardinality(kept) \in Nat /\ Cardinality(paid) \in Nat
  /\ r.ward_no = g.ward_no /\ r.retired = g.retired /\ r.spent = g.spent
  /\ r.issued = g.issued + PAYOUT * Cardinality(kept) /\ r.found = g.found + Cardinality(kept)
  /\ r.treasury = g.treasury + PAYOUT * Cardinality(kept) - (PAYOUT \div 2) * Cardinality(kept)
                    - LOSERS_WAGE * Cardinality(paid)
  /\ Len(r.sparks) = Len(g.sparks)
  /\ \A k \in 1..Len(g.sparks) :
       r.sparks[k] = Paid(g.sparks[k], Wage(k, kept, paid), IF k \in kept THEN 1 ELSE 0)

\* A cycle makes that of it.
LEMMA WorkedFields ==
  ASSUME NEW g \in WardRecord, NEW board \in Nat,
         NEW kept \in SUBSET (1..Len(g.sparks)),
         NEW paid \in SUBSET ((1..Len(g.sparks)) \ kept),
         Worked(g, board, kept, paid).treasury >= 0
  PROVE  WorkedInto(g, Worked(g, board, kept, paid), kept, paid)
<1> DEFINE N == Len(g.sparks)
           n == Cardinality(kept)
           m == Cardinality(paid)
           t == g.treasury + PAYOUT * n - (PAYOUT \div 2) * n - LOSERS_WAGE * m
           y(k) == Paid(g.sparks[k], Wage(k, kept, paid), IF k \in kept THEN 1 ELSE 0)
           z == [k \in DOMAIN g.sparks |-> y(k)]
           r1 == [g EXCEPT !.board = board]
           r2 == [r1 EXCEPT !.issued = @ + PAYOUT * n]
           r3 == [r2 EXCEPT !.found = @ + n]
           r4 == [r3 EXCEPT !.treasury = @ + PAYOUT * n - (PAYOUT \div 2) * n - LOSERS_WAGE * m]
           r5 == [r4 EXCEPT !.sparks = [k \in DOMAIN @ |->
                   Paid(@[k], Wage(k, kept, paid), IF k \in kept THEN 1 ELSE 0)]]
           S == Seq(SparkRecord)
<1>1. N \in Nat /\ DOMAIN g.sparks = 1..N /\ \A k \in 1..N : g.sparks[k] \in SparkRecord
  BY SumsAreTyped
<1>2. n \in Nat /\ m \in Nat
  <2>1. IsFiniteSet(1..N) BY <1>1, FS_Interval
  <2>2. IsFiniteSet(kept) /\ IsFiniteSet(paid) BY <2>1, FS_Subset
  <2> QED BY <2>2, FS_CardinalityType
<1>3. z \in S /\ Len(z) = N /\ \A k \in 1..N : z[k] = y(k)
  <2>1. PAYOUT \div 2 \in Nat /\ LOSERS_WAGE \in Nat BY ShardConstants
  <2>2. \A k \in 1..N : Wage(k, kept, paid) \in Nat BY <2>1 DEF Wage
  <2>3. \A k \in 1..N : y(k) \in SparkRecord BY <1>1, <2>2, PaidIs
  <2> HIDE DEF y
  <2>4. z \in [1..N -> SparkRecord] BY <1>1, <2>3
  <2> QED BY <1>1, <2>4 DEF S
<1>4. Worked(g, board, kept, paid) = r5 BY DEF Worked
<1> HIDE DEF N, n, m, S, y
<1>5. PAYOUT * n \in Nat /\ (PAYOUT \div 2) * n \in Nat /\ LOSERS_WAGE * m \in Nat
  BY <1>2, ShardConstants
<1>6. /\ r1 \in WardRecord /\ r1.ward_no = g.ward_no /\ r1.retired = g.retired /\ r1.spent = g.spent
      /\ r1.issued = g.issued /\ r1.found = g.found /\ r1.treasury = g.treasury
      /\ r1.sparks = g.sparks
  BY DEF WardRecord, S
<1> HIDE DEF r1
<1>7. /\ r2 \in WardRecord /\ r2.ward_no = g.ward_no /\ r2.retired = g.retired /\ r2.spent = g.spent
      /\ r2.issued = g.issued + PAYOUT * n /\ r2.found = g.found /\ r2.treasury = g.treasury
      /\ r2.sparks = g.sparks
  <2> DEFINE i == r1.issued + PAYOUT * n
  <2>0. g.issued \in Int BY DEF WardRecord
  <2>1. i \in Int /\ i = g.issued + PAYOUT * n
    <3> DEFINE v == PAYOUT * n
    <3>1. v \in Int BY <1>5
    <3> HIDE DEF v
    <3>2. r1.issued + v \in Int /\ r1.issued + v = g.issued + v BY <2>0, <3>1, <1>6
    <3> QED BY <3>2 DEF v
  <2>2. r2 = [r1 EXCEPT !.issued = i] OBVIOUS
  <2> HIDE DEF i, r2
  <2>3. r2 \in WardRecord BY <1>6, <2>1, <2>2, WardFields
  <2> QED BY <1>6, <2>1, <2>2, <2>3 DEF WardRecord, S
<1> HIDE DEF r2
<1>8. /\ r3 \in WardRecord /\ r3.ward_no = g.ward_no /\ r3.retired = g.retired /\ r3.spent = g.spent
      /\ r3.issued = g.issued + PAYOUT * n /\ r3.found = g.found + n /\ r3.treasury = g.treasury
      /\ r3.sparks = g.sparks
  <2> DEFINE i == r2.found + n
  <2>1. i \in Int /\ i = g.found + n BY <1>2, <1>7 DEF WardRecord
  <2>2. r3 = [r2 EXCEPT !.found = i] OBVIOUS
  <2> HIDE DEF i, r3
  <2>3. r3 \in WardRecord BY <1>7, <2>1, <2>2, WardFields
  <2> QED BY <1>7, <2>1, <2>2, <2>3 DEF WardRecord, S
<1> HIDE DEF r3
<1>9. /\ r4.ward_no = g.ward_no /\ r4.retired = g.retired /\ r4.spent = g.spent
      /\ r4.issued = g.issued + PAYOUT * n /\ r4.found = g.found + n /\ r4.treasury = t
      /\ r4.sparks = g.sparks
  BY <1>8 DEF WardRecord, S
<1>10. t \in Nat
  <2>1. r5.treasury = r4.treasury BY <1>8 DEF WardRecord, S
  <2>2. t >= 0 BY <1>4, <1>9, <2>1
  <2>3. g.treasury \in Nat BY DEF WardRecord
  <2> QED BY <1>5, <2>2, <2>3
<1>11. r4 \in WardRecord
  BY <1>8, <1>9, <1>10, WardFields
<1> HIDE DEF r4
<1>12. /\ r5 \in WardRecord /\ r5.ward_no = r4.ward_no /\ r5.retired = r4.retired
       /\ r5.spent = r4.spent /\ r5.issued = r4.issued /\ r5.found = r4.found
       /\ r5.treasury = r4.treasury /\ r5.sparks = z
  <2>1. r5 = [r4 EXCEPT !.sparks = z] BY <1>9 DEF y
  <2> HIDE DEF z, r5
  <2> QED BY <1>3, <1>11, <2>1 DEF WardRecord, S
<1> HIDE DEF z, r5
<1> QED BY <1>2, <1>3, <1>4, <1>9, <1>12 DEF WorkedInto, n, m, N, y

\* A ward's books are the difference between what it accounts for and what it holds.
Books(g) == Held(g) - g.issued
Finds(g) == Salvage(g) - g.found

\* The purses e are the purses f with the wages of one cycle.
Waged(f, e, N, kept, paid) ==
  /\ N \in Nat /\ f \in [1..N -> Int] /\ e \in [1..N -> Int]
  /\ kept \in SUBSET (1..N) /\ paid \in SUBSET ((1..N) \ kept)
  /\ \A k \in 1..N : e[k] = f[k] + Wage(k, kept, paid)

\* The wages of those who kept their contract and of the others who were paid, added up.
LEMMA WagesTotal ==
  ASSUME NEW f, NEW e, NEW N, NEW kept, NEW paid, Waged(f, e, N, kept, paid)
  PROVE  Total(e, N) = Total(f, N) + (PAYOUT \div 2) * Cardinality(kept)
                         + LOSERS_WAGE * Cardinality(paid)
<1>0. /\ N \in Nat /\ f \in [1..N -> Int] /\ e \in [1..N -> Int]
      /\ kept \in SUBSET (1..N) /\ paid \in SUBSET ((1..N) \ kept)
      /\ \A k \in 1..N : e[k] = f[k] + Wage(k, kept, paid)
  BY DEF Waged
<1>9. N \in Nat /\ f \in [1..N -> Int] /\ e \in [1..N -> Int] /\ kept \in SUBSET (1..N)
  BY <1>0
<1> DEFINE half == PAYOUT \div 2
           h == [k \in 1..N |-> f[k] + (IF k \in kept THEN half ELSE 0)]
<1>1. half \in Int /\ LOSERS_WAGE \in Int BY ShardConstants
<1> HIDE DEF half
<1>2. h \in [1..N -> Int] BY <1>0, <1>1
<1>3. (\A k \in kept : h[k] = f[k] + half) /\ (\A k \in (1..N) \ kept : h[k] = f[k])
  BY <1>0, <1>1
<1>4. /\ \A k \in paid : e[k] = h[k] + LOSERS_WAGE
      /\ \A k \in (1..N) \ paid : e[k] = h[k]
  BY <1>0, <1>1 DEF Wage, half
<1> HIDE DEF h
<1>5. Total(h, N) = Total(f, N) + half * Cardinality(kept)
  BY <1>9, <1>1, <1>2, <1>3, AddToSome, Zenon
<1>6. paid \in SUBSET (1..N) BY <1>0
<1>7. Total(e, N) = Total(h, N) + LOSERS_WAGE * Cardinality(paid)
  BY <1>9, <1>1, <1>2, <1>4, <1>6, AddToSome, Zenon
<1> QED BY <1>5, <1>7 DEF half

\* Work changes no ward's books: a kept contract brings in what it pays, and the wages are
\* as much as the treasury gives away.
LEMMA WorkBalances ==
  ASSUME NEW g \in WardRecord, NEW board \in Nat,
         NEW kept \in SUBSET (1..Len(g.sparks)),
         NEW paid \in SUBSET ((1..Len(g.sparks)) \ kept),
         Worked(g, board, kept, paid).treasury >= 0
  PROVE  /\ Books(Worked(g, board, kept, paid)) = Books(g)
         /\ Finds(Worked(g, board, kept, paid)) = Finds(g)
<1> DEFINE N == Len(g.sparks)
           r == Worked(g, board, kept, paid)
           n == Cardinality(kept)
           m == Cardinality(paid)
           half == PAYOUT \div 2
           f == [k \in 1..N |-> g.sparks[k].purse]
           e == [k \in 1..N |-> r.sparks[k].purse]
           a == [k \in 1..N |-> g.sparks[k].items]
           b == [k \in 1..N |-> r.sparks[k].items]
<1>1. /\ r \in WardRecord /\ n \in Nat /\ m \in Nat
      /\ r.retired = g.retired /\ r.spent = g.spent
      /\ r.issued = g.issued + PAYOUT * n /\ r.found = g.found + n
      /\ r.treasury = g.treasury + PAYOUT * n - half * n - LOSERS_WAGE * m
      /\ Len(r.sparks) = N
      /\ \A k \in 1..N :
           r.sparks[k] = Paid(g.sparks[k], Wage(k, kept, paid), IF k \in kept THEN 1 ELSE 0)
  <2>1. WorkedInto(g, r, kept, paid) BY WorkedFields
  <2> HIDE DEF r
  <2> QED BY <2>1 DEF WorkedInto
<1>2. N \in Nat /\ DOMAIN g.sparks = 1..N /\ DOMAIN r.sparks = 1..N
      /\ \A k \in 1..N : g.sparks[k] \in SparkRecord
  BY <1>1, SumsAreTyped
<1>3. /\ half \in Nat /\ LOSERS_WAGE \in Nat /\ PAYOUT \in Nat
      /\ half \in Int /\ LOSERS_WAGE \in Int /\ 1 \in Int
  BY ShardConstants
<1>4. ASSUME NEW k \in 1..N
      PROVE  /\ g.sparks[k].purse \in Nat /\ g.sparks[k].items \in Nat
             /\ r.sparks[k].purse = g.sparks[k].purse + Wage(k, kept, paid)
             /\ r.sparks[k].items = g.sparks[k].items + (IF k \in kept THEN 1 ELSE 0)
             /\ Wage(k, kept, paid) \in Nat
  <2>1. Wage(k, kept, paid) \in Nat BY <1>3 DEF Wage
  <2>2. (IF k \in kept THEN 1 ELSE 0) \in Nat OBVIOUS
  <2>3. g.sparks[k] \in SparkRecord BY <1>2
  <2>4. g.sparks[k].purse \in Nat /\ g.sparks[k].items \in Nat BY <2>3 DEF SparkRecord
  <2> DEFINE s == g.sparks[k]
             x == Wage(k, kept, paid)
             y == IF k \in kept THEN 1 ELSE 0
  <2>5. r.sparks[k] = Paid(s, x, y) BY <1>1
  <2> HIDE DEF s, x, y, r
  <2>6. r.sparks[k].purse = s.purse + x /\ r.sparks[k].items = s.items + y
    <3>1. s \in SparkRecord /\ x \in Nat /\ y \in Nat BY <2>1, <2>2, <2>3 DEF s, x, y
    <3>2. Paid(s, x, y).purse = s.purse + x /\ Paid(s, x, y).items = s.items + y
      BY <3>1, PaidIs
    <3> QED BY <3>2, <2>5
  <2> QED BY <2>1, <2>4, <2>6 DEF s, x, y
<1>5. kept \in SUBSET (1..N) /\ paid \in SUBSET (1..N) /\ kept \cap paid = {} OBVIOUS
<1>6. Purses(g) = Total(f, N) /\ Purses(r) = Total(e, N)
      /\ Salvage(g) = Total(a, N) /\ Salvage(r) = Total(b, N)
  BY <1>1, <1>2 DEF Purses, Salvage
<1> HIDE DEF N, r, n, m, half
<1>7. f \in [1..N -> Int] /\ e \in [1..N -> Int]
      /\ a \in [1..N -> Int] /\ b \in [1..N -> Int]
  BY <1>3, <1>4
<1>8. Total(e, N) = Total(f, N) + half * n + LOSERS_WAGE * m
  <2>1. \A k \in 1..N : e[k] = f[k] + Wage(k, kept, paid) BY <1>4
  <2>2. paid \in SUBSET ((1..N) \ kept) BY <1>5
  <2>3. f \in [1..N -> Int] /\ e \in [1..N -> Int] BY <1>7
  <2> HIDE DEF e, f
  <2>4. Waged(f, e, N, kept, paid) BY <1>2, <1>5, <2>1, <2>2, <2>3 DEF Waged
  <2> QED BY <2>4, WagesTotal DEF n, m, half
<1>10. Total(b, N) = Total(a, N) + n
  <2>0. \A k \in 1..N : b[k] = a[k] + (IF k \in kept THEN 1 ELSE 0) /\ a[k] \in Int
    BY <1>4, <1>7
  <2>1. (\A k \in kept : b[k] = a[k] + 1) /\ (\A k \in (1..N) \ kept : b[k] = a[k])
    <3> HIDE DEF a, b
    <3>1. kept \subseteq 1..N BY <1>5
    <3> QED BY <2>0, <3>1
  <2>2. Total(b, N) = Total(a, N) + 1 * n
    <3>1. a \in [1..N -> Int] /\ b \in [1..N -> Int] BY <1>7
    <3>2. N \in Nat /\ 1 \in Int /\ kept \in SUBSET (1..N) BY <1>2, <1>5
    <3> HIDE DEF a, b
    <3>3. Total(b, N) = Total(a, N) + 1 * Cardinality(kept)
      BY <3>1, <3>2, <2>1, AddToSome, ZenonT(30)
    <3> QED BY <3>3 DEF n
  <2> QED BY <2>2, <1>1
<1>11. /\ g.treasury \in Nat /\ g.retired \in Nat /\ g.spent \in Nat /\ g.issued \in Int
       /\ g.found \in Int
  BY DEF WardRecord
<1>12. Total(f, N) \in Int /\ Total(a, N) \in Int BY <1>2, <1>7, TotalType
<1> HIDE DEF f, e, a, b
<1>13. Finds(r) = Finds(g) BY <1>1, <1>6, <1>10, <1>11, <1>12 DEF Finds
<1> DEFINE pn == PAYOUT * n
           hn == half * n
           lm == LOSERS_WAGE * m
<1>14. pn \in Nat /\ hn \in Nat /\ lm \in Nat BY <1>1, <1>3
<1>15. /\ r.issued = g.issued + pn /\ r.treasury = g.treasury + pn - hn - lm
       /\ Purses(r) = Purses(g) + hn + lm
  BY <1>1, <1>6, <1>8
<1> HIDE DEF pn, hn, lm
<1>16. Held(r) = Held(g) + pn
  <2>1. Purses(g) \in Int BY SumsAreTyped
  <2>2. r.retired = g.retired /\ r.spent = g.spent BY <1>1
  <2> DEFINE tg == g.treasury
             ug == Purses(g)
             eg == g.retired
             sg == g.spent
  <2>3. (tg + pn - hn - lm) + (ug + hn + lm) + eg + sg = tg + ug + eg + sg + pn
    <3>1. tg \in Int /\ ug \in Int /\ eg \in Int /\ sg \in Int BY <2>1, <1>11
    <3> HIDE DEF tg, ug, eg, sg
    <3> QED BY <3>1, <1>14
  <2> QED BY <1>15, <2>2, <2>3 DEF Held
<1>17. Held(g) \in Int BY SumsAreTyped
<1>18. Books(r) = Books(g) BY <1>11, <1>14, <1>15, <1>16, <1>17 DEF Books
<1> QED BY <1>13, <1>18 DEF r

\* Who the Sparks of a ward are does not change with what they hold.
SameSparks(g, r) ==
  /\ Len(r.sparks) = Len(g.sparks)
  /\ \A k \in 1..Len(g.sparks) :
       /\ r.sparks[k].id = g.sparks[k].id /\ r.sparks[k].home = g.sparks[k].home
       /\ r.sparks[k].wire = g.sparks[k].wire /\ r.sparks[k].opened = g.sparks[k].opened

\* What the Sparks past the board's last contract hold does not change at all, and the board
\* has no more rows than post_board writes.
MOST_ROWS == BOARD_SIZE + RAILS_MORE
SameIdlers(g, r) ==
  /\ \A k \in 1..Len(g.sparks) :
       k > MOST_ROWS => /\ r.sparks[k].purse = g.sparks[k].purse
                        /\ r.sparks[k].items = g.sparks[k].items
  /\ g.board <= MOST_ROWS => r.board <= MOST_ROWS

\* What a cycle makes of a ward g, up to the arrival.
CycledInto(g, r) ==
  /\ r \in WardRecord /\ r.ward_no = g.ward_no
  /\ Books(r) = Books(g) /\ Finds(r) = Finds(g)
  /\ SameSparks(g, r) /\ SameIdlers(g, r)

\* The board of a ward after each part of a cycle.
LEMMA BoardsAre ==
  ASSUME NEW g \in WardRecord
  PROVE  /\ \A b : Bought(g, b).board = g.board
         /\ \A board, kept, paid : Worked(g, board, kept, paid).board = board
         /\ \A share : Clocked(g, share).board = g.board
<1>1. ASSUME NEW b PROVE Bought(g, b).board = g.board BY DEF Bought, WardRecord
<1>2. ASSUME NEW board, NEW kept, NEW paid PROVE Worked(g, board, kept, paid).board = board
  BY DEF Worked, WardRecord
<1>3. ASSUME NEW share PROVE Clocked(g, share).board = g.board BY DEF Clocked, WardRecord
<1> QED BY <1>1, <1>2, <1>3

\* The Queen's purchase moves scrip from the treasury to what is spent.
LEMMA BuyingCycles ==
  ASSUME NEW g \in WardRecord, NEW b \in {{}, {"rails"}, {"row"}},
         COST * Cardinality(b) <= g.treasury
  PROVE  CycledInto(g, Bought(g, b)) /\ Bought(g, b).sparks = g.sparks
<1> DEFINE r == Bought(g, b)
<1>1. /\ r \in WardRecord /\ r.ward_no = g.ward_no /\ r.sparks = g.sparks
      /\ r.issued = g.issued /\ r.found = g.found /\ r.retired = g.retired
      /\ r.treasury + r.spent = g.treasury + g.spent
  BY BoughtIs
<1> HIDE DEF r
<1>2. Purses(r) = Purses(g) /\ Salvage(r) = Salvage(g) BY <1>1 DEF Purses, Salvage
<1>3. Purses(g) \in Int BY SumsAreTyped
<1>4. /\ g.treasury \in Nat /\ g.retired \in Nat /\ g.spent \in Nat
      /\ r.treasury \in Nat /\ r.spent \in Nat
  BY <1>1 DEF WardRecord
<1>5. Held(r) = Held(g) BY <1>1, <1>2, <1>3, <1>4 DEF Held
<1>6. Books(r) = Books(g) /\ Finds(r) = Finds(g) BY <1>1, <1>2, <1>5 DEF Books, Finds
<1>7. SameSparks(g, r) BY <1>1 DEF SameSparks
<1>8. r.board = g.board BY BoardsAre DEF r
<1>9. SameIdlers(g, r) BY <1>1, <1>8 DEF SameIdlers
<1> QED BY <1>1, <1>6, <1>7, <1>9 DEF CycledInto, r

\* The work.
LEMMA WorkCycles ==
  ASSUME NEW g \in WardRecord, NEW board \in Nat,
         NEW kept \in SUBSET (1..Len(g.sparks)),
         NEW paid \in SUBSET ((1..Len(g.sparks)) \ kept),
         kept \subseteq 1..board, paid \subseteq 1..board, board <= MOST_ROWS,
         Worked(g, board, kept, paid).treasury >= 0
  PROVE  CycledInto(g, Worked(g, board, kept, paid))
<1> DEFINE r == Worked(g, board, kept, paid)
<1>1. WorkedInto(g, r, kept, paid) BY WorkedFields
<1>2. Books(r) = Books(g) /\ Finds(r) = Finds(g) BY WorkBalances
<1> HIDE DEF r
<1>3. ASSUME NEW k \in 1..Len(g.sparks)
      PROVE  /\ r.sparks[k].id = g.sparks[k].id /\ r.sparks[k].home = g.sparks[k].home
             /\ r.sparks[k].wire = g.sparks[k].wire /\ r.sparks[k].opened = g.sparks[k].opened
             /\ k > MOST_ROWS => /\ r.sparks[k].purse = g.sparks[k].purse
                                 /\ r.sparks[k].items = g.sparks[k].items
  <2> DEFINE s == g.sparks[k]
             x == Wage(k, kept, paid)
             y == IF k \in kept THEN 1 ELSE 0
  <2>1. r.sparks[k] = Paid(s, x, y) BY <1>1 DEF WorkedInto
  <2>2. s \in SparkRecord BY SumsAreTyped
  <2>3. x \in Nat
    <3>1. PAYOUT \div 2 \in Nat /\ LOSERS_WAGE \in Nat BY ShardConstants
    <3> QED BY <3>1 DEF Wage
  <2>4. y \in Nat OBVIOUS
  <2>5. k > MOST_ROWS => x = 0 /\ y = 0
    <3>1. MOST_ROWS \in Nat /\ k \in Nat BY ShardConstants DEF MOST_ROWS
    <3>2. k > MOST_ROWS => k \notin 1..board BY <3>1
    <3>3. k > MOST_ROWS => k \notin kept /\ k \notin paid BY <3>2
    <3> QED BY <3>3 DEF Wage
  <2> HIDE DEF s, x, y
  <2>6. /\ Paid(s, x, y).id = s.id /\ Paid(s, x, y).home = s.home /\ Paid(s, x, y).wire = s.wire
        /\ Paid(s, x, y).opened = s.opened
        /\ Paid(s, x, y).purse = s.purse + x /\ Paid(s, x, y).items = s.items + y
    BY <2>2, <2>3, <2>4, PaidIs, ZenonT(60)
  <2>7. s.purse \in Nat /\ s.items \in Nat BY <2>2 DEF SparkRecord
  <2>8. k > MOST_ROWS => s.purse + x = s.purse /\ s.items + y = s.items BY <2>5, <2>7
  <2> QED BY <2>1, <2>6, <2>8 DEF s
<1>4. r.board <= MOST_ROWS BY BoardsAre DEF r
<1>5. Len(r.sparks) = Len(g.sparks) /\ r \in WardRecord /\ r.ward_no = g.ward_no
  BY <1>1 DEF WorkedInto
<1>6. SameSparks(g, r) BY <1>3, <1>5 DEF SameSparks
<1>7. SameIdlers(g, r) BY <1>3, <1>4 DEF SameIdlers
<1> QED BY <1>2, <1>5, <1>6, <1>7 DEF CycledInto, r

\* The clock.
LEMMA ClockCycles ==
  ASSUME NEW g \in WardRecord, NEW share \in {0, g.treasury \div 6}
  PROVE  CycledInto(g, Clocked(g, share)) /\ Clocked(g, share).sparks = g.sparks
<1> DEFINE r1 == [g EXCEPT !.treasury = @ - share]
           r == [r1 EXCEPT !.retired = @ + share]
           S == Seq(SparkRecord)
<1>1. Clocked(g, share) = r BY DEF Clocked
<1> HIDE DEF S
<1>2. g.treasury \in Nat /\ g.retired \in Nat /\ g.spent \in Nat BY DEF WardRecord
<1>3. share \in Nat /\ share <= g.treasury /\ g.treasury - share \in Nat BY <1>2
<1>4. /\ r1 \in WardRecord /\ r1.ward_no = g.ward_no /\ r1.sparks = g.sparks
      /\ r1.issued = g.issued /\ r1.found = g.found /\ r1.retired = g.retired
      /\ r1.treasury = g.treasury - share /\ r1.spent = g.spent
  <2> HIDE DEF S
  <2>1. r1 \in WardRecord BY <1>3, WardFields
  <2> QED BY <2>1, <1>2, <1>3 DEF WardRecord, S
<1> HIDE DEF r1
<1>5. g.retired + share \in Nat BY <1>2, <1>3
<1>6. /\ r \in WardRecord /\ r.ward_no = g.ward_no /\ r.sparks = g.sparks
      /\ r.issued = g.issued /\ r.found = g.found /\ r.retired = g.retired + share
      /\ r.treasury = g.treasury - share /\ r.spent = g.spent
  <2>1. r = [r1 EXCEPT !.retired = g.retired + share] BY <1>4
  <2>2. r \in WardRecord BY <2>1, <1>4, <1>5, WardFields
  <2> HIDE DEF r
  <2> QED BY <2>1, <2>2, <1>4, <1>5 DEF WardRecord, S
<1> HIDE DEF r
<1>7. Purses(r) = Purses(g) /\ Salvage(r) = Salvage(g) BY <1>6 DEF Purses, Salvage
<1>8. Purses(g) \in Int BY SumsAreTyped
<1>9. Held(r) = Held(g) BY <1>2, <1>3, <1>6, <1>7, <1>8 DEF Held
<1>10. Books(r) = Books(g) /\ Finds(r) = Finds(g) BY <1>6, <1>7, <1>9 DEF Books, Finds
<1>11. SameSparks(g, r) BY <1>6 DEF SameSparks
<1>12. r.board = g.board BY <1>1, BoardsAre
<1>13. SameIdlers(g, r) BY <1>6, <1>12 DEF SameIdlers
<1> QED BY <1>1, <1>6, <1>10, <1>11, <1>13 DEF CycledInto

\* A Spark that brings nothing joins a ward.
LEMMA JoinBalances ==
  ASSUME NEW g \in WardRecord, NEW s \in SparkRecord
  PROVE  LET r == [g EXCEPT !.sparks = Append(@, s)]
         IN  /\ r \in WardRecord /\ r.ward_no = g.ward_no
             /\ r.treasury = g.treasury /\ r.issued = g.issued /\ r.retired = g.retired
             /\ r.found = g.found /\ r.spent = g.spent /\ r.board = g.board
             /\ r.sparks = Append(g.sparks, s)
             /\ Purses(r) = Purses(g) + s.purse /\ Salvage(r) = Salvage(g) + s.items
<1> DEFINE N == Len(g.sparks)
           z == Append(g.sparks, s)
           r == [g EXCEPT !.sparks = Append(@, s)]
           S == Seq(SparkRecord)
<1>1. N \in Nat /\ DOMAIN g.sparks = 1..N /\ \A k \in 1..N : g.sparks[k] \in SparkRecord
  BY SumsAreTyped
<1>2. g.sparks \in S
  <2> HIDE DEF S
  <2> QED BY DEF WardRecord, S
<1>3. /\ z \in S /\ Len(z) = N + 1 /\ DOMAIN z = 1..(N + 1)
      /\ z[N + 1] = s /\ \A k \in 1..N : z[k] = g.sparks[k]
  BY <1>2 DEF S
<1>4. r = [g EXCEPT !.sparks = z] OBVIOUS
<1> HIDE DEF z, r, S, N
<1>5. /\ r \in WardRecord /\ r.ward_no = g.ward_no
      /\ r.treasury = g.treasury /\ r.issued = g.issued /\ r.retired = g.retired
      /\ r.found = g.found /\ r.spent = g.spent /\ r.board = g.board /\ r.sparks = z
  BY <1>3, <1>4 DEF WardRecord, S
<1>6. /\ \A k \in 1..N : g.sparks[k].purse \in Int /\ g.sparks[k].items \in Int
      /\ s.purse \in Int /\ s.items \in Int
  BY <1>1 DEF SparkRecord
<1>7. Purses(r) = Purses(g) + s.purse
  <2> DEFINE f == [k \in 1..(N+1) |-> z[k].purse]
             h == [k \in 1..N |-> g.sparks[k].purse]
  <2>1. Purses(r) = Total(f, N + 1) /\ Purses(g) = Total(h, N)
    BY <1>1, <1>3, <1>5 DEF Purses, N
  <2>2. h \in [1..N -> Int] /\ (\A k \in 1..N : f[k] = h[k]) /\ f[N+1] = s.purse
    BY <1>1, <1>3, <1>6
  <2>3. f \in [1..(N+1) -> Int] BY <1>1, <1>3, <1>6
  <2> HIDE DEF f, h
  <2>4. Total(f, N + 1) = Total(h, N) + f[N + 1] BY <1>1, <2>2, <2>3, TotalExtend
  <2> QED BY <2>1, <2>2, <2>4
<1>8. Salvage(r) = Salvage(g) + s.items
  <2> DEFINE f == [k \in 1..(N+1) |-> z[k].items]
             h == [k \in 1..N |-> g.sparks[k].items]
  <2>1. Salvage(r) = Total(f, N + 1) /\ Salvage(g) = Total(h, N)
    BY <1>1, <1>3, <1>5 DEF Salvage, N
  <2>2. h \in [1..N -> Int] /\ (\A k \in 1..N : f[k] = h[k]) /\ f[N+1] = s.items
    BY <1>1, <1>3, <1>6
  <2>3. f \in [1..(N+1) -> Int] BY <1>1, <1>3, <1>6
  <2> HIDE DEF f, h
  <2>4. Total(f, N + 1) = Total(h, N) + f[N + 1] BY <1>1, <2>2, <2>3, TotalExtend
  <2> QED BY <2>1, <2>2, <2>4
<1> QED BY <1>5, <1>7, <1>8 DEF r, z

\* The first Spark of a ward leaves it.
LEMMA LeaveBalances ==
  ASSUME NEW g \in WardRecord, Len(g.sparks) >= 1
  PROVE  LET r == [g EXCEPT !.sparks = Tail(@)]
             s == Head(g.sparks)
         IN  /\ r \in WardRecord /\ r.ward_no = g.ward_no /\ s \in SparkRecord
             /\ r.treasury = g.treasury /\ r.issued = g.issued /\ r.retired = g.retired
             /\ r.found = g.found /\ r.spent = g.spent /\ r.board = g.board
             /\ s = g.sparks[1]
             /\ Len(r.sparks) = Len(g.sparks) - 1
             /\ \A k \in 1..(Len(g.sparks) - 1) : r.sparks[k] = g.sparks[k+1]
             /\ Purses(g) = s.purse + Purses(r) /\ Salvage(g) = s.items + Salvage(r)
<1> DEFINE N == Len(g.sparks) - 1
           s == Head(g.sparks)
           z == Tail(g.sparks)
           r == [g EXCEPT !.sparks = Tail(@)]
           S == Seq(SparkRecord)
<1>1. /\ N \in Nat /\ Len(g.sparks) = N + 1 /\ DOMAIN g.sparks = 1..(N+1)
      /\ \A k \in 1..(N+1) : g.sparks[k] \in SparkRecord
  BY SumsAreTyped
<1>2. g.sparks \in S
  <2> HIDE DEF S
  <2> QED BY DEF WardRecord, S
<1>3. /\ s = g.sparks[1] /\ s \in SparkRecord
      /\ z \in S /\ Len(z) = N /\ DOMAIN z = 1..N
      /\ \A k \in 1..N : z[k] = g.sparks[k+1]
  <2>1. g.sparks # << >> BY <1>1
  <2> QED BY <1>1, <1>2, <2>1 DEF S
<1>4. r = [g EXCEPT !.sparks = z] OBVIOUS
<1> HIDE DEF z, r, S, N, s
<1>5. /\ r \in WardRecord /\ r.ward_no = g.ward_no
      /\ r.treasury = g.treasury /\ r.issued = g.issued /\ r.retired = g.retired
      /\ r.found = g.found /\ r.spent = g.spent /\ r.board = g.board /\ r.sparks = z
  BY <1>3, <1>4 DEF WardRecord, S
<1>6. \A k \in 1..(N+1) : g.sparks[k].purse \in Int /\ g.sparks[k].items \in Int
  BY <1>1 DEF SparkRecord
<1>7. Purses(g) = s.purse + Purses(r)
  <2> DEFINE f == [k \in 1..(N+1) |-> g.sparks[k].purse]
             h == [k \in 1..N |-> z[k].purse]
  <2>1. Purses(g) = Total(f, N + 1) /\ Purses(r) = Total(h, N)
    BY <1>1, <1>3, <1>5 DEF Purses
  <2>2. f \in [1..(N+1) -> Int] /\ f[1] = s.purse BY <1>1, <1>3, <1>6
  <2>3. h \in [1..N -> Int] /\ \A k \in 1..N : h[k] = f[k+1]
    <3>1. \A k \in 1..N : k + 1 \in 1..(N+1) BY <1>1
    <3>2. \A k \in 1..N : h[k] = f[k+1] BY <1>3, <3>1
    <3>3. \A k \in 1..N : f[k+1] \in Int BY <2>2, <3>1
    <3> HIDE DEF f
    <3> QED BY <3>2, <3>3
  <2> HIDE DEF f, h
  <2>4. Total(f, N + 1) = f[1] + Total(h, N) BY <1>1, <2>2, <2>3, TotalShift
  <2> QED BY <2>1, <2>2, <2>4
<1>8. Salvage(g) = s.items + Salvage(r)
  <2> DEFINE f == [k \in 1..(N+1) |-> g.sparks[k].items]
             h == [k \in 1..N |-> z[k].items]
  <2>1. Salvage(g) = Total(f, N + 1) /\ Salvage(r) = Total(h, N)
    BY <1>1, <1>3, <1>5 DEF Salvage
  <2>2. f \in [1..(N+1) -> Int] /\ f[1] = s.items BY <1>1, <1>3, <1>6
  <2>3. h \in [1..N -> Int] /\ \A k \in 1..N : h[k] = f[k+1]
    <3>1. \A k \in 1..N : k + 1 \in 1..(N+1) BY <1>1
    <3>2. \A k \in 1..N : h[k] = f[k+1] BY <1>3, <3>1
    <3>3. \A k \in 1..N : f[k+1] \in Int BY <2>2, <3>1
    <3> HIDE DEF f
    <3> QED BY <3>2, <3>3
  <2> HIDE DEF f, h
  <2>4. Total(f, N + 1) = f[1] + Total(h, N) BY <1>1, <2>2, <2>3, TotalShift
  <2> QED BY <2>1, <2>2, <2>4
<1> QED BY <1>1, <1>3, <1>5, <1>7, <1>8 DEF r, s, z, N

-------------------------------------------------------------------------------
(* Where the game has got to, and what a ward is by then.                   *)

\* shard()'s loops stay within its wards and its cycles.
Control ==
  /\ pc # "over" => rc = -1
  /\ pc \in {"start", "found"} => c = 0
  /\ pc = "start" => turn = 0
  /\ pc = "found" => nwards \in 1..MAX_WARDS /\ turn < nwards
  /\ pc = "play" => nwards \in 0..MAX_WARDS /\ turn <= nwards /\ c < game.cycles
  /\ pc = "migrate" =>
       nwards \in 2..MAX_WARDS /\ turn = 0 /\ c = game.cycles \div 2 /\ c < game.cycles

\* The wards founded so far, and whether the migration is still to come.
Founded(i) == (pc = "found" /\ i < turn) \/ (pc \in {"play", "migrate", "end"} /\ i < nwards)
Before     == pc \in {"start", "found", "migrate"} \/ (pc = "play" /\ c <= game.cycles \div 2)

\* A Spark's name is drawn from the ward that holds it.
Named(g, i) == \A k \in 1..Len(g.sparks) : g.sparks[k].wire = SparkWire(i, g.sparks[k].id)

\* A ward holds no more than its zone, or one more and that is a migrant.
Zoned(g, i) ==
  \/ Len(g.sparks) <= SPARKS_PER_WARD
  \/ Len(g.sparks) <= SPARKS_PER_WARD + 1 /\ \E k \in 1..Len(g.sparks) : g.sparks[k].home # i

\* Before the migration every Spark is at home.
AtHome(g, i) ==
  Len(g.sparks) <= SPARKS_PER_WARD /\ \A k \in 1..Len(g.sparks) : g.sparks[k].home = i

WardsInv ==
  \A i \in Ward :
    /\ Named(w[i], i) /\ Zoned(w[i], i)
    /\ Before => AtHome(w[i], i)
    /\ Founded(i) => w[i].ward_no = i
    /\ Founded(i) /\ Before => Len(w[i].sparks) >= 1

ShardInv == ShardTypeOK /\ Control /\ WardsInv

\* The books of every ward balance.
BooksInv == Going => \A i \in Ward : Books(w[i]) = 0 /\ Finds(w[i]) = 0

\* A ward's row is behind only after the migration, until the ward's next cycle.
RowsInv ==
  Going /\ game.cycles > 2 =>
    \A i \in Ward : \/ wardDb[i] = RowOf(w[i])
                    \/ pc = "play" /\ c = game.cycles \div 2 + 1 /\ turn <= i /\ i < nwards

-------------------------------------------------------------------------------
(* What a cycle is.                                                         *)

\* One cycle after the other part of it.
LEMMA CyclesCompose ==
  ASSUME NEW g, NEW h, NEW r, CycledInto(g, h), CycledInto(h, r)
  PROVE  CycledInto(g, r)
BY DEF CycledInto, SameSparks, SameIdlers

\* The ward after the arrival.
Arrived(g) == [g EXCEPT !.sparks = Append(@, NewSpark(g.ward_no, ArrivalId(g)))]

\* What the commit and the arrival after it do, when the cycle made the ward g.
CommittedAs(g) ==
  /\ wardDb' = [wardDb EXCEPT ![turn] = RowOf(g)]
  /\ \/ ~Arriving(g) /\ NobodyArrives(g) /\ Asked
     \/ Arriving(g) /\ Arrives(g) /\ Asked
     \/ Arriving(g) /\ ArrivalFails(g)

\* A cycle makes a ward that its row says, and lets a Spark in when one arrives and nothing
\* fails.
LEMMA CycleIs ==
  ASSUME ShardTypeOK, Control, Cycle
  PROVE  /\ turn \in Ward /\ turn < nwards /\ nwards \in Nat
         /\ Asked \/ (Over(1) /\ UNCHANGED turn)
         /\ \E g :
              /\ CycledInto(w[turn], g)
              /\ wardDb' = [wardDb EXCEPT ![turn] = RowOf(g)]
              /\ \/ /\ Arriving(g)
                    /\ w' = [w EXCEPT ![turn] = Arrived(g)]
                    /\ db' = [Stored(g.sparks) EXCEPT ![<< g.ward_no, ArrivalId(g) >>] =
                                Joining(g.ward_no, {ArrivalId(g)})[<< g.ward_no, ArrivalId(g) >>]]
                 \/ w' = [w EXCEPT ![turn] = g] /\ db' = Stored(g.sparks)
                 \/ Arriving(g) /\ ArrivalFails(g)
<1>1. turn \in Ward /\ turn < nwards /\ nwards \in Nat
  <2>1. turn \in Nat /\ nwards \in 0..MAX_WARDS /\ turn < nwards
    BY DEF Cycle, Control, ShardTypeOK
  <2> QED BY <2>1, ShardConstants DEF Ward
<1>2. w[turn] \in WardRecord BY <1>1 DEF ShardTypeOK
<1>3. PICK b \in {{}, {"rails"}, {"row"}} :
       /\ b \cap w[turn].built = {} /\ COST * Cardinality(b) <= w[turn].treasury
       /\ LET g1    == Bought(w[turn], b)
              board == Rows(g1)
          IN  /\ \A k \in Workers(g1, board) : MayWrite(g1.sparks[k])
              /\ \E kept \in SUBSET Workers(g1, board) :
                 \E paid \in SUBSET (Workers(g1, board) \ kept) :
                   LET g2 == Worked(g1, board, kept, paid)
                   IN  /\ g2.treasury >= 0
                       /\ \E share \in {0, g2.treasury \div 6} :
                            CommittedAs(Clocked(g2, share))
  BY Zenon DEF Cycle, CommittedAs
<1> DEFINE g1 == Bought(w[turn], b)
           board == Rows(g1)
<1>4. CycledInto(w[turn], g1) BY <1>2, <1>3, BuyingCycles
<1>5. g1 \in WardRecord BY <1>4 DEF CycledInto
<1> HIDE DEF g1
<1>6. board \in Nat /\ board <= MOST_ROWS BY ShardConstants DEF Rows, MOST_ROWS
<1>7. Workers(g1, board) \subseteq 1..Len(g1.sparks) /\ Workers(g1, board) \subseteq 1..board
  <2>1. Len(g1.sparks) \in Nat BY <1>5, SumsAreTyped
  <2> HIDE DEF board
  <2>2. Min({board, Len(g1.sparks)}) = IF board <= Len(g1.sparks) THEN board ELSE Len(g1.sparks)
    BY <1>6, <2>1, SmallerOfTwo
  <2> QED BY <1>6, <2>1, <2>2, SMTT(30) DEF Workers
<1>8. PICK kept \in SUBSET Workers(g1, board) :
        \E paid \in SUBSET (Workers(g1, board) \ kept) :
          LET g2 == Worked(g1, board, kept, paid)
          IN  /\ g2.treasury >= 0
              /\ \E share \in {0, g2.treasury \div 6} :
                   CommittedAs(Clocked(g2, share))
  BY <1>3, Zenon DEF g1
<1>8b. PICK paid \in SUBSET (Workers(g1, board) \ kept) :
        LET g2 == Worked(g1, board, kept, paid)
        IN  /\ g2.treasury >= 0
            /\ \E share \in {0, g2.treasury \div 6} :
                 CommittedAs(Clocked(g2, share))
  BY <1>8, Zenon
<1> DEFINE g2 == Worked(g1, board, kept, paid)
<1>9. /\ kept \in SUBSET (1..Len(g1.sparks)) /\ paid \in SUBSET ((1..Len(g1.sparks)) \ kept)
      /\ kept \subseteq 1..board /\ paid \subseteq 1..board
  BY <1>7
<1>10. g2.treasury >= 0 BY <1>8b
<1>11. CycledInto(g1, g2)
  <2> HIDE DEF board
  <2> QED BY <1>5, <1>6, <1>9, <1>10, WorkCycles
<1>12. g2 \in WardRecord BY <1>11 DEF CycledInto
<1>13. PICK share \in {0, g2.treasury \div 6} :
         CommittedAs(Clocked(g2, share))
  BY <1>8b, Zenon
<1> HIDE DEF g2
<1> DEFINE g3 == Clocked(g2, share)
<1>14. CycledInto(g2, g3) BY <1>12, ClockCycles
<1>15. CycledInto(w[turn], g3)
  <2> HIDE DEF g3
  <2>1. CycledInto(w[turn], g2) BY <1>4, <1>11, CyclesCompose
  <2> QED BY <2>1, <1>14, CyclesCompose
<1>16. /\ wardDb' = [wardDb EXCEPT ![turn] = RowOf(g3)]
       /\ \/ /\ Arriving(g3)
             /\ w' = [w EXCEPT ![turn] = Arrived(g3)]
             /\ db' = [Stored(g3.sparks) EXCEPT ![<< g3.ward_no, ArrivalId(g3) >>] =
                         Joining(g3.ward_no, {ArrivalId(g3)})[<< g3.ward_no, ArrivalId(g3) >>]]
          \/ w' = [w EXCEPT ![turn] = g3] /\ db' = Stored(g3.sparks)
          \/ Arriving(g3) /\ ArrivalFails(g3)
  BY <1>13, Zenon DEF CommittedAs, NobodyArrives, Arrives, Arrived
<1>17. Asked \/ (Over(1) /\ UNCHANGED turn)
  <2>1. CommittedAs(g3) BY <1>13, Zenon
  <2> HIDE DEF g3
  <2> QED BY <2>1, Zenon DEF CommittedAs, ArrivalFails
<1> HIDE DEF g3
<1> QED BY <1>1, <1>15, <1>16, <1>17, Zenon

\* A cycle leaves a ward's Sparks who and where they were.
LEMMA CycledWard ==
  ASSUME NEW g, NEW r, NEW i, CycledInto(g, r)
  PROVE  /\ Len(r.sparks) = Len(g.sparks) /\ r.ward_no = g.ward_no
         /\ Named(g, i) => Named(r, i)
         /\ Zoned(g, i) => Zoned(r, i)
         /\ AtHome(g, i) => AtHome(r, i)
<1>1. /\ Len(r.sparks) = Len(g.sparks) /\ r.ward_no = g.ward_no
      /\ \A k \in 1..Len(g.sparks) :
           /\ r.sparks[k].id = g.sparks[k].id /\ r.sparks[k].home = g.sparks[k].home
           /\ r.sparks[k].wire = g.sparks[k].wire
  BY DEF CycledInto, SameSparks
<1>2. Named(g, i) => Named(r, i) BY <1>1 DEF Named
<1>3. Zoned(g, i) => Zoned(r, i) BY <1>1 DEF Zoned
<1>4. AtHome(g, i) => AtHome(r, i) BY <1>1 DEF AtHome
<1> QED BY <1>1, <1>2, <1>3, <1>4

\* The id of an arrival is one of the game's.
LEMMA ArrivalIdIs ==
  ASSUME NEW g \in WardRecord, NEW i \in Ward, g.ward_no = i, Arriving(g)
  PROVE  ArrivalId(g) \in Id /\ Len(g.sparks) \in Nat /\ Len(g.sparks) < SPARKS_PER_WARD
<1> DEFINE s == SPARKS_PER_WARD
           n == MAX_WARDS
           l == Len(g.sparks)
<1>1. s \in Nat \ {0} /\ n \in Nat BY ShardConstants
<1>2. l \in Nat /\ l < s
  <2>1. l \in Nat BY SumsAreTyped
  <2> QED BY <2>1 DEF Arriving
<1>3. i \in Nat /\ i + 1 <= n BY <1>1 DEF Ward
<1> HIDE DEF s, n, l
<1>4. (i + 1) * s <= n * s /\ n * s \in Nat /\ i * s \in Nat /\ (i + 1) * s = i * s + s
  BY <1>1, <1>3, SMT
<1> DEFINE a == i * s
           b == n * s
<1>5. a \in Nat /\ b \in Nat /\ a + s <= b BY <1>4
<1> HIDE DEF a, b
<1>6. a + l \in 0..(b - 1) BY <1>1, <1>2, <1>5
<1> QED BY <1>2, <1>6 DEF ArrivalId, Id, a, b, s, n, l

\* An arrival is named by its ward, is at home there, and brings nothing.
LEMMA ArrivedWard ==
  ASSUME ShardTypeOK, NEW g \in WardRecord, NEW i \in Ward, g.ward_no = i, Arriving(g)
  PROVE  LET r == Arrived(g)
         IN  /\ r \in WardRecord /\ r.ward_no = i
             /\ r.treasury = g.treasury /\ r.issued = g.issued /\ r.retired = g.retired
             /\ r.board = g.board /\ r.sparks = Append(g.sparks, NewSpark(i, ArrivalId(g)))
             /\ Len(r.sparks) = Len(g.sparks) + 1 /\ Len(r.sparks) <= SPARKS_PER_WARD
             /\ Named(g, i) => Named(r, i)
             /\ AtHome(g, i) => AtHome(r, i)
             /\ Books(r) = Books(g) /\ Finds(r) = Finds(g)
<1> DEFINE id == ArrivalId(g)
           s == NewSpark(i, id)
           r == [g EXCEPT !.sparks = Append(@, s)]
           N == Len(g.sparks)
<1>1. id \in Id /\ N \in Nat /\ N < SPARKS_PER_WARD BY ArrivalIdIs
<1>2. /\ s \in SparkRecord /\ s.id = id /\ s.home = i /\ s.purse = 0 /\ s.items = 0
      /\ s.wire = SparkWire(i, id)
  <2> HIDE DEF id
  <2> QED BY <1>1, NewSparkIs
<1>3. Arrived(g) = r BY DEF Arrived
<1> HIDE DEF s, id
<1>4. /\ r \in WardRecord /\ r.ward_no = i
      /\ r.treasury = g.treasury /\ r.issued = g.issued /\ r.retired = g.retired
      /\ r.found = g.found /\ r.spent = g.spent /\ r.board = g.board
      /\ r.sparks = Append(g.sparks, s)
      /\ Purses(r) = Purses(g) + s.purse /\ Salvage(r) = Salvage(g) + s.items
  BY <1>2, JoinBalances
<1> HIDE DEF r
<1>5. g.sparks \in Seq(SparkRecord) /\ Purses(g) \in Int /\ Salvage(g) \in Int
  <2> DEFINE S == Seq(SparkRecord)
  <2> HIDE DEF S
  <2>1. g.sparks \in S BY DEF WardRecord, S
  <2> QED BY <2>1, SumsAreTyped DEF S
<1>6. /\ Len(r.sparks) = N + 1 /\ r.sparks[N + 1] = s
      /\ \A k \in 1..N : r.sparks[k] = g.sparks[k]
  BY <1>2, <1>4, <1>5, <1>1
<1>7. \A k \in 1..(N + 1) : k \in 1..N \/ k = N + 1 BY <1>1
<1>8. Named(g, i) => Named(r, i)
  BY <1>2, <1>6, <1>7 DEF Named, N
<1>9. AtHome(g, i) => AtHome(r, i)
  <2>1. N + 1 <= SPARKS_PER_WARD BY <1>1, ShardConstants
  <2> QED BY <1>2, <1>6, <1>7, <2>1 DEF AtHome, N
<1>10. Books(r) = Books(g) /\ Finds(r) = Finds(g)
  BY <1>2, <1>4, <1>5 DEF Books, Finds, Held
<1>11. N + 1 <= SPARKS_PER_WARD BY <1>1, ShardConstants
<1> QED BY <1>3, <1>4, <1>6, <1>8, <1>9, <1>10, <1>11 DEF s, id

-------------------------------------------------------------------------------
(* Founding and migration.                                                  *)

\* The ward founded at this turn.
NewWard ==
  LET base == turn * SPARKS_PER_WARD
      take == Min({SPARKS_PER_WARD, game.nsparks - base})
      no   == base \div SPARKS_PER_WARD
  IN  [NoWard EXCEPT !.ward_no = no, !.treasury = START_TREASURY,
                     !.issued = START_TREASURY,
                     !.sparks = [k \in 1..take |-> NewSpark(no, base + k - 1)]]

\* A ward that is being founded is the ward of its turn, and its ids are the game's.
LEMMA FoundingIs ==
  ASSUME ShardTypeOK, Control, pc = "found"
  PROVE  LET base == turn * SPARKS_PER_WARD
             take == Min({SPARKS_PER_WARD, game.nsparks - base})
         IN  /\ turn \in Ward /\ turn < nwards
             /\ base \in Nat /\ base \div SPARKS_PER_WARD = turn
             /\ take \in 1..SPARKS_PER_WARD
             /\ \A k \in 1..take : base + k - 1 \in Id
<1> DEFINE s == SPARKS_PER_WARD
           n == game.nsparks
           m == MAX_WARDS
           base == turn * s
           take == Min({s, n - base})
<1>1. s \in Nat \ {0} /\ n \in Nat /\ m \in Nat BY ShardConstants DEF ShardTypeOK
<1>2. turn \in Nat /\ turn < nwards /\ nwards \in 1..m BY DEF ShardTypeOK, Control
<1>3. turn \in Ward /\ turn + 1 <= m BY <1>1, <1>2 DEF Ward
<1>4. nwards = (n + s - 1) \div s BY DEF nwards
<1> HIDE DEF s, n, m
<1>5. base \div s = turn /\ base \in Nat /\ base < n
  <2>1. turn < (n + s - 1) \div s BY <1>2, <1>4
  <2> QED BY <1>1, <1>2, <2>1, BasesAre
<1>6. base + s <= m * s /\ m * s \in Nat
  <2>1. (turn + 1) * s <= m * s /\ m * s \in Nat /\ (turn + 1) * s = turn * s + s
    BY <1>1, <1>2, <1>3, SMT
  <2> QED BY <2>1
<1>7. take \in 1..s /\ take \in Nat
  <2> HIDE DEF base
  <2>1. n - base \in Int BY <1>1, <1>5
  <2>2. take = IF s <= n - base THEN s ELSE n - base BY <1>1, <2>1, SmallerOfTwo
  <2> QED BY <1>1, <1>5, <2>2
<1>8. \A k \in 1..take : base + k - 1 \in 0..(m * s - 1)
  <2> DEFINE b == m * s
  <2>1. b \in Nat /\ base + s <= b BY <1>6
  <2> HIDE DEF base, b, take
  <2>2. \A k \in 1..take : base + k - 1 \in 0..(b - 1) BY <1>1, <1>5, <1>7, <2>1
  <2> QED BY <2>2 DEF b
<1>9. Id = 0..(m * s - 1) BY DEF Id, m, s
<1> QED BY <1>2, <1>3, <1>5, <1>7, <1>8, <1>9 DEF s, n

\* A founded ward holds the scrip it opened with, and its Sparks are at home.
LEMMA NewWardIs ==
  ASSUME ShardTypeOK, Control, pc = "found"
  PROVE  LET r == NewWard
         IN  /\ r \in WardRecord /\ r.ward_no = turn
             /\ r.treasury = START_TREASURY /\ r.issued = START_TREASURY /\ r.retired = 0
             /\ Len(r.sparks) \in 1..SPARKS_PER_WARD
             /\ Named(r, turn) /\ AtHome(r, turn)
             /\ Books(r) = 0 /\ Finds(r) = 0
<1> DEFINE base == turn * SPARKS_PER_WARD
           take == Min({SPARKS_PER_WARD, game.nsparks - base})
           z == [k \in 1..take |-> NewSpark(turn, base + k - 1)]
           S == Seq(SparkRecord)
           r == NewWard
<1>1. /\ turn \in Ward /\ base \in Nat /\ base \div SPARKS_PER_WARD = turn
      /\ take \in 1..SPARKS_PER_WARD /\ \A k \in 1..take : base + k - 1 \in Id
  BY FoundingIs
<1>2. r = [NoWard EXCEPT !.ward_no = turn, !.treasury = START_TREASURY,
                         !.issued = START_TREASURY, !.sparks = z]
  BY <1>1 DEF NewWard
<1>3. take \in Nat BY <1>1, ShardConstants
<1> HIDE DEF base, take
<1>4. \A k \in 1..take :
        /\ z[k] \in SparkRecord /\ z[k].home = turn /\ z[k].purse = 0 /\ z[k].items = 0
        /\ z[k].wire = SparkWire(turn, z[k].id)
  <2> SUFFICES ASSUME NEW k \in 1..take
               PROVE  /\ z[k] \in SparkRecord /\ z[k].home = turn /\ z[k].purse = 0
                      /\ z[k].items = 0 /\ z[k].wire = SparkWire(turn, z[k].id)
    OBVIOUS
  <2> DEFINE id == base + k - 1
  <2>1. id \in Id BY <1>1
  <2>2. z[k] = NewSpark(turn, id) OBVIOUS
  <2> HIDE DEF id, z
  <2>3. /\ NewSpark(turn, id) \in SparkRecord /\ NewSpark(turn, id).id = id
        /\ NewSpark(turn, id).home = turn /\ NewSpark(turn, id).purse = 0
        /\ NewSpark(turn, id).items = 0 /\ NewSpark(turn, id).wire = SparkWire(turn, id)
    BY <1>1, <2>1, NewSparkIs, ZenonT(30)
  <2> QED BY <2>2, <2>3
<1>5. z \in S /\ Len(z) = take /\ DOMAIN z = 1..take
  BY <1>3, <1>4
<1> HIDE DEF z
<1>6. turn \in Nat /\ START_TREASURY \in Nat BY <1>1, RangesAre, ShardConstants
<1>7. /\ r \in WardRecord /\ r.ward_no = turn /\ r.treasury = START_TREASURY
      /\ r.issued = START_TREASURY /\ r.retired = 0 /\ r.spent = 0 /\ r.found = 0 /\ r.sparks = z
  <2> HIDE DEF S, r
  <2>1. r = [ward_no |-> turn, cycle |-> 0, treasury |-> START_TREASURY,
             issued |-> START_TREASURY, found |-> 0, retired |-> 0,
             spent |-> 0, built |-> {}, board |-> 0, sparks |-> z]
    BY <1>2 DEF NoWard
  <2>2. {} \in SUBSET {"rails", "row"} OBVIOUS
  <2>3. r \in WardRecord BY <2>1, <2>2, <1>5, <1>6 DEF WardRecord, S
  <2> QED BY <2>1, <2>3
<1> HIDE DEF r
<1>8. Purses(r) = 0
  <2> DEFINE f == [k \in 1..take |-> z[k].purse]
  <2>1. f \in [1..take -> Int] /\ \A k \in 1..take : f[k] = 0 BY <1>4
  <2>2. Purses(r) = Total(f, take) BY <1>5, <1>7 DEF Purses
  <2> HIDE DEF f
  <2> QED BY <1>3, <2>1, <2>2, TotalZero
<1>9. Salvage(r) = 0
  <2> DEFINE f == [k \in 1..take |-> z[k].items]
  <2>1. f \in [1..take -> Int] /\ \A k \in 1..take : f[k] = 0 BY <1>4
  <2>2. Salvage(r) = Total(f, take) BY <1>5, <1>7 DEF Salvage
  <2> HIDE DEF f
  <2> QED BY <1>3, <2>1, <2>2, TotalZero
<1>10. Books(r) = 0 /\ Finds(r) = 0
  BY <1>6, <1>7, <1>8, <1>9 DEF Books, Finds, Held
<1>11. Named(r, turn) /\ AtHome(r, turn)
  BY <1>1, <1>3, <1>4, <1>5, <1>7, ShardConstants DEF Named, AtHome
<1> QED BY <1>1, <1>5, <1>7, <1>10, <1>11 DEF r

\* What a ward accounts for, with a purse and some salvage taken off or put on it.
Accounted(g, purse, items) == [[g EXCEPT !.issued = @ + purse] EXCEPT !.found = @ + items]

\* Moving the books changes nothing else.
LEMMA AccountedIs ==
  ASSUME NEW g \in WardRecord, NEW x \in Int, NEW y \in Int
  PROVE  LET r == Accounted(g, x, y)
         IN  /\ r \in WardRecord /\ r.ward_no = g.ward_no /\ r.sparks = g.sparks
             /\ r.treasury = g.treasury /\ r.retired = g.retired /\ r.spent = g.spent
             /\ r.board = g.board
             /\ r.issued = g.issued + x /\ r.found = g.found + y
             /\ Books(r) = Books(g) - x /\ Finds(r) = Finds(g) - y
<1> DEFINE r1 == [g EXCEPT !.issued = @ + x]
           r == [r1 EXCEPT !.found = @ + y]
           S == Seq(SparkRecord)
<1>1. Accounted(g, x, y) = r BY DEF Accounted
<1> HIDE DEF S
<1>2. g.issued \in Int /\ g.found \in Int BY DEF WardRecord
<1>3. /\ r1 \in WardRecord /\ r1.ward_no = g.ward_no /\ r1.sparks = g.sparks
      /\ r1.treasury = g.treasury /\ r1.retired = g.retired /\ r1.spent = g.spent
      /\ r1.issued = g.issued + x /\ r1.found = g.found /\ r1.board = g.board
  <2>1. r1 \in WardRecord BY <1>2, WardFields
  <2> QED BY <2>1 DEF WardRecord, S
<1> HIDE DEF r1
<1>4. /\ r \in WardRecord /\ r.ward_no = g.ward_no /\ r.sparks = g.sparks
      /\ r.treasury = g.treasury /\ r.retired = g.retired /\ r.spent = g.spent
      /\ r.issued = g.issued + x /\ r.found = g.found + y /\ r.board = g.board
  <2> DEFINE n == r1.found + y
  <2>1. n \in Int /\ n = g.found + y BY <1>2, <1>3
  <2>2. r = [r1 EXCEPT !.found = n] OBVIOUS
  <2> HIDE DEF n, r
  <2>3. r \in WardRecord BY <1>3, <2>1, <2>2, WardFields
  <2> QED BY <1>3, <2>1, <2>2, <2>3 DEF WardRecord, S
<1> HIDE DEF r
<1>5. Purses(r) = Purses(g) /\ Salvage(r) = Salvage(g) BY <1>4 DEF Purses, Salvage
<1>6. Held(g) \in Int /\ Salvage(g) \in Int BY SumsAreTyped
<1>7. Held(r) = Held(g) BY <1>4, <1>5 DEF Held
<1>8. Books(r) = Books(g) - x BY <1>2, <1>4, <1>6, <1>7 DEF Books
<1>9. Finds(r) = Finds(g) - y BY <1>2, <1>4, <1>5, <1>6 DEF Finds
<1> QED BY <1>1, <1>4, <1>8, <1>9

\* The ward a Spark has left, with its share of the books.
LEMMA LeftWard ==
  ASSUME NEW g \in WardRecord, NEW i \in Ward, Len(g.sparks) >= 1
  PROVE  LET s == Head(g.sparks)
             r == [Accounted(g, -s.purse, -s.items) EXCEPT !.sparks = Tail(@)]
         IN  /\ s \in SparkRecord /\ s = g.sparks[1]
             /\ r \in WardRecord /\ r.ward_no = g.ward_no /\ r.board = g.board
             /\ Len(r.sparks) = Len(g.sparks) - 1 /\ Len(g.sparks) \in Nat
             /\ \A k \in 1..Len(r.sparks) : r.sparks[k] = g.sparks[k+1]
             /\ Named(g, i) => Named(r, i)
             /\ Books(r) = Books(g) /\ Finds(r) = Finds(g)
<1> DEFINE s == Head(g.sparks)
           h == Accounted(g, -s.purse, -s.items)
           r == [h EXCEPT !.sparks = Tail(@)]
<1>1. s \in SparkRecord /\ s = g.sparks[1]
  BY LeaveBalances
<1> HIDE DEF s
<1>2. s.purse \in Nat /\ s.items \in Nat BY <1>1 DEF SparkRecord
<1>3. /\ h \in WardRecord /\ h.ward_no = g.ward_no /\ h.sparks = g.sparks /\ h.board = g.board
      /\ Books(h) = Books(g) - (-s.purse) /\ Finds(h) = Finds(g) - (-s.items)
  <2> DEFINE x == -s.purse
             y == -s.items
  <2>1. x \in Int /\ y \in Int BY <1>2
  <2> HIDE DEF x, y
  <2>2. LET f == Accounted(g, x, y)
        IN  /\ f \in WardRecord /\ f.ward_no = g.ward_no /\ f.sparks = g.sparks
            /\ f.board = g.board
            /\ Books(f) = Books(g) - x /\ Finds(f) = Finds(g) - y
    BY <2>1, AccountedIs
  <2> QED BY <2>2 DEF x, y
<1> HIDE DEF h
<1>4. /\ r \in WardRecord /\ r.ward_no = h.ward_no
      /\ r.treasury = h.treasury /\ r.issued = h.issued /\ r.retired = h.retired
      /\ r.found = h.found /\ r.spent = h.spent /\ r.board = h.board
      /\ Len(r.sparks) = Len(h.sparks) - 1
      /\ \A k \in 1..(Len(h.sparks) - 1) : r.sparks[k] = h.sparks[k+1]
      /\ Purses(h) = s.purse + Purses(r) /\ Salvage(h) = s.items + Salvage(r)
  <2>1. Len(h.sparks) >= 1 /\ Head(h.sparks) = s BY <1>3 DEF s
  <2> QED BY <1>3, <2>1, LeaveBalances
<1> HIDE DEF r
<1>5. Len(g.sparks) \in Nat BY SumsAreTyped
<1>6. Named(g, i) => Named(r, i)
  <2> SUFFICES ASSUME Named(g, i), NEW k \in 1..Len(r.sparks)
               PROVE  r.sparks[k].wire = SparkWire(i, r.sparks[k].id)
    BY DEF Named
  <2>1. k + 1 \in 1..Len(g.sparks) /\ r.sparks[k] = g.sparks[k+1] BY <1>3, <1>4, <1>5
  <2> QED BY <2>1 DEF Named
<1>7. Books(r) = Books(g) /\ Finds(r) = Finds(g)
  <2>1. Purses(r) \in Int /\ Salvage(r) \in Int /\ Purses(h) \in Int /\ Salvage(h) \in Int
    BY <1>3, <1>4, SumsAreTyped
  <2>2. /\ h.treasury \in Nat /\ h.retired \in Nat /\ h.spent \in Nat /\ h.issued \in Int
        /\ h.found \in Int
    BY <1>3 DEF WardRecord
  <2>3. g.issued \in Int /\ g.found \in Int /\ Held(g) \in Int /\ Salvage(g) \in Int
    BY SumsAreTyped DEF WardRecord
  <2>4. Books(g) \in Int /\ Finds(g) \in Int BY <2>3 DEF Books, Finds
  <2>5. Books(r) = Books(h) - s.purse
    <3>1. Held(r) = Held(h) - s.purse /\ Held(h) \in Int
      <4> DEFINE p == Purses(r)
                 q == Purses(h)
                 v == s.purse
      <4>1. p \in Int /\ q \in Int /\ v \in Int /\ p = q - v
        BY <1>2, <1>4, <2>1
      <4>2. Held(r) = h.treasury + p + h.retired + h.spent BY <1>4 DEF Held
      <4>3. Held(h) = h.treasury + q + h.retired + h.spent BY DEF Held
      <4> HIDE DEF p, q, v
      <4> DEFINE th == h.treasury
                 eh == h.retired
                 sh == h.spent
      <4>4. Held(r) = th + p + eh + sh /\ Held(h) = th + q + eh + sh BY <4>2, <4>3
      <4>5. th \in Int /\ eh \in Int /\ sh \in Int BY <2>2
      <4> HIDE DEF th, eh, sh
      <4>6. Held(r) = Held(h) - v /\ Held(h) \in Int BY <4>1, <4>4, <4>5
      <4> QED BY <4>6 DEF v
    <3> QED BY <1>2, <1>4, <2>2, <3>1 DEF Books
  <2>6. Finds(r) = Finds(h) - s.items BY <1>2, <1>4, <2>1, <2>2 DEF Finds
  <2> QED BY <1>2, <1>3, <2>4, <2>5, <2>6
<1> QED BY <1>1, <1>3, <1>4, <1>5, <1>6, <1>7 DEF r, h, s

\* The name a migrant is given.
LEMMA RenamedIs ==
  ASSUME NEW s \in SparkRecord, NEW to, NEW i \in Ward, to.ward_no = i
  PROVE  /\ Renamed(s, to) \in SparkRecord
         /\ Renamed(s, to).home = s.home /\ Renamed(s, to).purse = s.purse
         /\ Renamed(s, to).items = s.items
         /\ Renamed(s, to).id = s.id /\ Renamed(s, to).opened = s.opened
         /\ Renamed(s, to).wire = SparkWire(i, Renamed(s, to).id)
<1>1. s.id \in Nat /\ i \in Nat BY RangesAre DEF SparkRecord
<1>2. SparkWire(i, s.id) \in Nat BY <1>1, SparkWireType
<1> QED BY <1>2 DEF Renamed, SparkRecord

\* The ward a Spark has reached, with its share of the books.
LEMMA ReachedWard ==
  ASSUME NEW g \in WardRecord, NEW i \in Ward, NEW m \in SparkRecord,
         m.wire = SparkWire(i, m.id)
  PROVE  LET r == [Accounted(g, m.purse, m.items) EXCEPT !.sparks = Append(@, m)]
         IN  /\ r \in WardRecord /\ r.ward_no = g.ward_no /\ r.board = g.board
             /\ Len(r.sparks) = Len(g.sparks) + 1 /\ Len(g.sparks) \in Nat
             /\ r.sparks[Len(g.sparks) + 1] = m
             /\ \A k \in 1..Len(g.sparks) : r.sparks[k] = g.sparks[k]
             /\ Named(g, i) => Named(r, i)
             /\ Books(r) = Books(g) /\ Finds(r) = Finds(g)
<1> DEFINE h == Accounted(g, m.purse, m.items)
           r == [h EXCEPT !.sparks = Append(@, m)]
           N == Len(g.sparks)
<1>2. m.purse \in Nat /\ m.items \in Nat BY DEF SparkRecord
<1>3. /\ h \in WardRecord /\ h.ward_no = g.ward_no /\ h.sparks = g.sparks /\ h.board = g.board
      /\ Books(h) = Books(g) - m.purse /\ Finds(h) = Finds(g) - m.items
  <2>1. m.purse \in Int /\ m.items \in Int BY <1>2
  <2> QED BY <2>1, AccountedIs
<1> HIDE DEF h
<1>4. /\ r \in WardRecord /\ r.ward_no = h.ward_no
      /\ r.treasury = h.treasury /\ r.issued = h.issued /\ r.retired = h.retired
      /\ r.found = h.found /\ r.spent = h.spent /\ r.board = h.board
      /\ r.sparks = Append(h.sparks, m)
      /\ Purses(r) = Purses(h) + m.purse /\ Salvage(r) = Salvage(h) + m.items
  BY <1>3, JoinBalances
<1> HIDE DEF r
<1>5. N \in Nat /\ g.sparks \in Seq(SparkRecord)
  <2> DEFINE S == Seq(SparkRecord)
  <2> HIDE DEF S
  <2>1. g.sparks \in S BY DEF WardRecord, S
  <2> QED BY <2>1, SumsAreTyped DEF S
<1>6. /\ Len(r.sparks) = N + 1 /\ r.sparks[N + 1] = m
      /\ \A k \in 1..N : r.sparks[k] = g.sparks[k]
  BY <1>3, <1>4, <1>5
<1>7. Named(g, i) => Named(r, i)
  <2>1. \A k \in 1..(N + 1) : k \in 1..N \/ k = N + 1 BY <1>5
  <2> QED BY <1>6, <2>1 DEF Named, N
<1>8. Books(r) = Books(g) /\ Finds(r) = Finds(g)
  <2>1. Purses(h) \in Int /\ Salvage(h) \in Int
    BY <1>3, SumsAreTyped
  <2>2. /\ h.treasury \in Nat /\ h.retired \in Nat /\ h.spent \in Nat /\ h.issued \in Int
        /\ h.found \in Int
    BY <1>3 DEF WardRecord
  <2>3. g.issued \in Int /\ g.found \in Int /\ Held(g) \in Int /\ Salvage(g) \in Int
    BY SumsAreTyped DEF WardRecord
  <2>4. Books(g) \in Int /\ Finds(g) \in Int BY <2>3 DEF Books, Finds
  <2>5. Books(r) = Books(h) + m.purse
    <3>1. Held(r) = Held(h) + m.purse /\ Held(h) \in Int
      <4> DEFINE p == Purses(r)
                 q == Purses(h)
                 v == m.purse
      <4>1. p \in Int /\ q \in Int /\ v \in Int /\ p = q + v
        BY <1>2, <1>4, <2>1
      <4>2. Held(r) = h.treasury + p + h.retired + h.spent BY <1>4 DEF Held
      <4>3. Held(h) = h.treasury + q + h.retired + h.spent BY DEF Held
      <4> HIDE DEF p, q, v
      <4>4. Held(r) = Held(h) + v /\ Held(h) \in Int BY <2>2, <4>1, <4>2, <4>3
      <4> QED BY <4>4 DEF v
    <3> QED BY <1>2, <1>4, <2>2, <3>1 DEF Books
  <2>6. Finds(r) = Finds(h) + m.items BY <1>2, <1>4, <2>1, <2>2 DEF Finds
  <2> QED BY <1>2, <1>3, <2>4, <2>5, <2>6
<1> QED BY <1>3, <1>4, <1>5, <1>6, <1>7, <1>8 DEF r, h

\* The wards between which the Spark migrates.
LEMMA MigratingIs ==
  ASSUME ShardInv, pc = "migrate"
  PROVE  /\ 0 \in Ward /\ 1 \in Ward /\ w[0] \in WardRecord /\ w[1] \in WardRecord
         /\ w[0].ward_no = 0 /\ w[1].ward_no = 1
         /\ AtHome(w[0], 0) /\ AtHome(w[1], 1) /\ Len(w[0].sparks) >= 1
<1>1. nwards \in 2..MAX_WARDS /\ MAX_WARDS \in Nat BY ShardConstants DEF ShardInv, Control
<1>2. 0 \in Ward /\ 1 \in Ward BY <1>1 DEF Ward
<1>3. Before /\ Founded(0) /\ Founded(1) BY <1>1 DEF Before, Founded
<1>4. w[0] \in WardRecord /\ w[1] \in WardRecord BY <1>2 DEF ShardInv, ShardTypeOK
<1> QED BY <1>2, <1>3, <1>4 DEF ShardInv, WardsInv

\* The books between the two halves of migrate().
LEMMA BooksMovedIs ==
  ASSUME ShardInv, pc = "migrate", NEW s \in SparkRecord
  PROVE  BooksMoved(s) = [i \in Ward |-> IF i = 0 THEN Accounted(w[0], -s.purse, -s.items)
                                         ELSE IF i = 1 THEN Accounted(w[1], s.purse, s.items)
                                         ELSE w[i]]
<1>1. 0 \in Ward /\ 1 \in Ward /\ w \in [Ward -> WardRecord]
  BY MigratingIs DEF ShardInv, ShardTypeOK
<1> DEFINE n1 == w[0].issued - s.purse
           n2 == w[1].issued + s.purse
           n3 == w[0].found - s.items
           n4 == w[1].found + s.items
           a2 == [[w[0] EXCEPT !.issued = n1] EXCEPT !.found = n3]
           b2 == [[w[1] EXCEPT !.issued = n2] EXCEPT !.found = n4]
<1>3. BooksMoved(s) = [w EXCEPT ![0].issued = n1, ![1].issued = n2,
                                ![0].found = n3, ![1].found = n4]
  BY DEF BooksMoved
<1>4. a2 = Accounted(w[0], -s.purse, -s.items) /\ b2 = Accounted(w[1], s.purse, s.items)
  <2>1. /\ w[0] \in WardRecord /\ w[0].issued \in Int /\ w[0].found \in Int
        /\ s.purse \in Nat /\ s.items \in Nat
    BY <1>1 DEF WardRecord, SparkRecord
  <2>2. n1 = w[0].issued + (-s.purse) /\ n3 = w[0].found + (-s.items) BY <2>1
  <2>3. \A n : [w[0] EXCEPT !.issued = n].found = w[0].found
    BY <2>1 DEF WardRecord
  <2>4. \A n : [w[1] EXCEPT !.issued = n].found = w[1].found
    BY <1>1 DEF WardRecord
  <2>5. a2 = Accounted(w[0], -s.purse, -s.items)
    <3> HIDE DEF n1, n3
    <3> QED BY <2>2, <2>3 DEF Accounted
  <2>6. b2 = Accounted(w[1], s.purse, s.items) BY <2>4 DEF Accounted
  <2> QED BY <2>5, <2>6
<1> HIDE DEF n1, n2, n3, n4
<1>5. BooksMoved(s) = [i \in Ward |-> IF i = 0 THEN a2 ELSE IF i = 1 THEN b2 ELSE w[i]]
  <2> DEFINE a1 == [w[0] EXCEPT !.issued = n1]
             b1 == [w[1] EXCEPT !.issued = n2]
             u1 == [w EXCEPT ![0].issued = n1]
             u2 == [u1 EXCEPT ![1].issued = n2]
             u3 == [u2 EXCEPT ![0].found = n3]
             u4 == [u3 EXCEPT ![1].found = n4]
             v1 == [i \in Ward |-> IF i = 0 THEN a1 ELSE w[i]]
             v2 == [i \in Ward |-> IF i = 0 THEN a1 ELSE IF i = 1 THEN b1 ELSE w[i]]
             v3 == [i \in Ward |-> IF i = 0 THEN a2 ELSE IF i = 1 THEN b1 ELSE w[i]]
             v4 == [i \in Ward |-> IF i = 0 THEN a2 ELSE IF i = 1 THEN b2 ELSE w[i]]
  <2>1. BooksMoved(s) = u4 BY <1>3
  <2>2. u1 = v1 BY <1>1
  <2>3. u2 = v2
    <3>1. u2 = [v1 EXCEPT ![1].issued = n2] BY <2>2
    <3>2. v1[1] = w[1] BY <1>1
    <3>3. u2 = [v1 EXCEPT ![1] = b1] BY <3>1, <3>2
    <3> HIDE DEF u2, a1, b1
    <3>4. u2 = [i \in Ward |-> IF i = 1 THEN b1 ELSE v1[i]] BY <3>3, Zenon
    <3>5. \A i \in Ward : (IF i = 1 THEN b1 ELSE v1[i]) = v2[i] OBVIOUS
    <3>6. v2 = [i \in Ward |-> v2[i]] BY Zenon
    <3> HIDE DEF v1, v2
    <3> QED BY <3>4, <3>5, <3>6
  <2>4. u3 = v3
    <3>1. u3 = [v2 EXCEPT ![0].found = n3] BY <2>3
    <3> HIDE DEF u3, b1
    <3> QED BY <1>1, <3>1
  <2>5. u4 = v4
    <3>1. u4 = [v3 EXCEPT ![1].found = n4] BY <2>4
    <3>2. v3[1] = b1 BY <1>1
    <3>3. u4 = [v3 EXCEPT ![1] = b2] BY <3>1, <3>2
    <3> HIDE DEF u4, a2, b2
    <3>4. u4 = [i \in Ward |-> IF i = 1 THEN b2 ELSE v3[i]] BY <3>3, Zenon
    <3>5. \A i \in Ward : (IF i = 1 THEN b2 ELSE v3[i]) = v4[i] OBVIOUS
    <3>6. v4 = [i \in Ward |-> v4[i]] BY Zenon
    <3> HIDE DEF v3, v4
    <3> QED BY <3>4, <3>5, <3>6
  <2> HIDE DEF u4, v4
  <2> QED BY <2>1, <2>5 DEF v4
<1> HIDE DEF a2, b2
<1> QED BY <1>3, <1>4, <1>5

\* The first Spark of a ward has left it, and has reached another.
LeftBy(g, r) ==
  /\ Len(g.sparks) >= 1 /\ Len(r.sparks) = Len(g.sparks) - 1
  /\ \A k \in 1..Len(r.sparks) : r.sparks[k] = g.sparks[k+1]
ReachedBy(g, r, m) ==
  /\ Len(r.sparks) = Len(g.sparks) + 1 /\ r.sparks[Len(g.sparks) + 1] = m
  /\ \A k \in 1..Len(g.sparks) : r.sparks[k] = g.sparks[k]

\* The wards after the migration.
LEMMA MigratedIs ==
  ASSUME ShardInv, pc = "migrate"
  PROVE  LET s  == Head(w[0].sparks)
             m  == Renamed(s, w[1])
             w2 == [BooksMoved(s) EXCEPT ![0].sparks = Tail(@), ![1].sparks = Append(@, m)]
         IN  /\ s \in SparkRecord /\ m \in SparkRecord
             /\ s = w[0].sparks[1] /\ m.home = s.home /\ m.id = s.id /\ m.opened = s.opened
             /\ m.purse = s.purse /\ m.items = s.items
             /\ w2 \in [Ward -> WardRecord]
             /\ LeftBy(w[0], w2[0]) /\ ReachedBy(w[1], w2[1], m)
             /\ \A i \in Ward : /\ Named(w2[i], i) /\ Zoned(w2[i], i)
                                /\ w2[i].ward_no = w[i].ward_no /\ w2[i].board = w[i].board
                                /\ Books(w2[i]) = Books(w[i]) /\ Finds(w2[i]) = Finds(w[i])
             /\ \A i \in Ward : i > 1 => w2[i] = w[i]
<1> DEFINE s  == Head(w[0].sparks)
           m  == Renamed(s, w[1])
           h0 == Accounted(w[0], -s.purse, -s.items)
           h1 == Accounted(w[1], s.purse, s.items)
           v  == BooksMoved(s)
           w2 == [v EXCEPT ![0].sparks = Tail(@), ![1].sparks = Append(@, m)]
           r0 == [h0 EXCEPT !.sparks = Tail(@)]
           r1 == [h1 EXCEPT !.sparks = Append(@, m)]
<1>1. /\ 0 \in Ward /\ 1 \in Ward /\ w[0] \in WardRecord /\ w[1] \in WardRecord
      /\ w[0].ward_no = 0 /\ w[1].ward_no = 1
      /\ AtHome(w[0], 0) /\ AtHome(w[1], 1) /\ Len(w[0].sparks) >= 1
  BY MigratingIs
<1>2. Named(w[0], 0) /\ Named(w[1], 1) BY <1>1 DEF ShardInv, WardsInv
<1>3. /\ s \in SparkRecord /\ s = w[0].sparks[1]
      /\ r0 \in WardRecord /\ r0.ward_no = 0 /\ r0.board = w[0].board
      /\ Len(r0.sparks) = Len(w[0].sparks) - 1 /\ Len(w[0].sparks) \in Nat
      /\ \A k \in 1..Len(r0.sparks) : r0.sparks[k] = w[0].sparks[k+1]
      /\ Named(r0, 0)
      /\ Books(r0) = Books(w[0]) /\ Finds(r0) = Finds(w[0])
  BY <1>1, <1>2, LeftWard
<1>4. s.home = 0
  <2> DEFINE n == Len(w[0].sparks)
  <2>1. n \in Nat /\ n >= 1 BY <1>1, <1>3
  <2> HIDE DEF n
  <2>2. 1 \in 1..n BY <2>1
  <2>3. \A k \in 1..n : w[0].sparks[k].home = 0 BY <1>1, Zenon DEF AtHome, n
  <2> QED BY <2>2, <2>3, <1>3, Zenon
<1> HIDE DEF s
<1>5. /\ m \in SparkRecord /\ m.home = s.home /\ m.purse = s.purse /\ m.items = s.items
      /\ m.wire = SparkWire(1, m.id) /\ m.id = s.id /\ m.opened = s.opened
  BY <1>1, <1>3, RenamedIs
<1> HIDE DEF m
<1>6. /\ r1 \in WardRecord /\ r1.ward_no = 1 /\ r1.board = w[1].board
      /\ Len(r1.sparks) = Len(w[1].sparks) + 1 /\ Len(w[1].sparks) \in Nat
      /\ r1.sparks[Len(w[1].sparks) + 1] = m
      /\ \A k \in 1..Len(w[1].sparks) : r1.sparks[k] = w[1].sparks[k]
      /\ Named(r1, 1)
      /\ Books(r1) = Books(w[1]) /\ Finds(r1) = Finds(w[1])
  <2>1. h1 = Accounted(w[1], m.purse, m.items) BY <1>5
  <2>2. r1 = [Accounted(w[1], m.purse, m.items) EXCEPT !.sparks = Append(@, m)] BY <2>1
  <2> DEFINE q == [Accounted(w[1], m.purse, m.items) EXCEPT !.sparks = Append(@, m)]
  <2>3. /\ q \in WardRecord /\ q.ward_no = w[1].ward_no /\ q.board = w[1].board
        /\ Len(q.sparks) = Len(w[1].sparks) + 1 /\ Len(w[1].sparks) \in Nat
        /\ q.sparks[Len(w[1].sparks) + 1] = m
        /\ \A k \in 1..Len(w[1].sparks) : q.sparks[k] = w[1].sparks[k]
        /\ Named(w[1], 1) => Named(q, 1)
        /\ Books(q) = Books(w[1]) /\ Finds(q) = Finds(w[1])
    <3> DEFINE g == w[1]
               i == 1
    <3>1. g \in WardRecord /\ i \in Ward /\ m \in SparkRecord /\ m.wire = SparkWire(i, m.id)
      BY <1>1, <1>5
    <3> HIDE DEF g, i
    <3>2. LET r == [Accounted(g, m.purse, m.items) EXCEPT !.sparks = Append(@, m)]
          IN  /\ r \in WardRecord /\ r.ward_no = g.ward_no /\ r.board = g.board
              /\ Len(r.sparks) = Len(g.sparks) + 1 /\ Len(g.sparks) \in Nat
              /\ r.sparks[Len(g.sparks) + 1] = m
              /\ \A k \in 1..Len(g.sparks) : r.sparks[k] = g.sparks[k]
              /\ Named(g, i) => Named(r, i)
              /\ Books(r) = Books(g) /\ Finds(r) = Finds(g)
      BY <3>1, ReachedWard, ZenonT(60)
    <3> QED BY <3>2 DEF g, i
  <2> HIDE DEF r1, q
  <2>4. r1 = q BY <2>2 DEF q
  <2> QED BY <1>1, <1>2, <2>3, <2>4
<1>7. Zoned(r0, 0)
  <2> HIDE DEF r0
  <2>1. Len(w[0].sparks) <= SPARKS_PER_WARD BY <1>1 DEF AtHome
  <2>2. Len(r0.sparks) <= SPARKS_PER_WARD BY <1>3, <2>1, ShardConstants
  <2> QED BY <2>2 DEF Zoned
<1>8. Zoned(r1, 1)
  <2> HIDE DEF r1
  <2> DEFINE N == Len(w[1].sparks)
  <2>1. N \in Nat /\ N <= SPARKS_PER_WARD BY <1>1, <1>6 DEF AtHome
  <2>2. Len(r1.sparks) = N + 1 /\ r1.sparks[N + 1] = m BY <1>6
  <2> HIDE DEF N
  <2>3. Len(r1.sparks) <= SPARKS_PER_WARD + 1 /\ N + 1 \in 1..Len(r1.sparks)
    BY <2>1, <2>2, ShardConstants
  <2>4. r1.sparks[N + 1].home # 1 BY <2>2, <1>4, <1>5
  <2> QED BY <2>3, <2>4 DEF Zoned
<1>9. w2 = [i \in Ward |-> IF i = 0 THEN r0 ELSE IF i = 1 THEN r1 ELSE w[i]]
  <2> DEFINE v0 == [i \in Ward |-> IF i = 0 THEN h0 ELSE IF i = 1 THEN h1 ELSE w[i]]
             x1 == [v EXCEPT ![0] = r0]
             x2 == [x1 EXCEPT ![1] = r1]
             y  == [i \in Ward |-> IF i = 0 THEN r0 ELSE IF i = 1 THEN r1 ELSE w[i]]
  <2>1. v = v0 BY <1>3, BooksMovedIs
  <2>2. v[0] = h0 /\ v[1] = h1 /\ DOMAIN v = Ward
    <3> HIDE DEF v, h0, h1
    <3> QED BY <2>1, <1>1
  <2>3. w2 = [v EXCEPT ![0].sparks = Tail(h0.sparks), ![1].sparks = Append(h1.sparks, m)]
    BY <2>2
  <2>4. w2 = x2
    <3> DEFINE t0 == Tail(h0.sparks)
               t1 == Append(h1.sparks, m)
               z1 == [v EXCEPT ![0].sparks = t0]
               z2 == [z1 EXCEPT ![1].sparks = t1]
    <3>1. w2 = z2 BY <2>3
    <3>2. z1 = x1
      <4> HIDE DEF v, h0
      <4> QED BY <2>2
    <3>3. x1[1] = h1
      <4> HIDE DEF v, h1, r0
      <4> QED BY <2>2, <1>1
    <3>4. z2 = x2
      <4> HIDE DEF z1, x1, h1
      <4> QED BY <3>2, <3>3
    <3> HIDE DEF w2, z2, x2
    <3> QED BY <3>1, <3>4
  <2> HIDE DEF v, v0, r0, r1, h0, h1, w2
  <2>5. DOMAIN x2 = Ward BY <2>2
  <2>6. \A i \in Ward : x2[i] = y[i]
    <3>1. \A i \in Ward : i # 0 /\ i # 1 => v[i] = w[i] BY <2>1 DEF v0
    <3> QED BY <1>1, <2>2, <3>1
  <2>7. x2 = [i \in Ward |-> x2[i]] BY <2>5
  <2>8. y = [i \in Ward |-> y[i]] OBVIOUS
  <2> HIDE DEF x2, y
  <2> QED BY <2>4, <2>6, <2>7, <2>8 DEF y
<1> HIDE DEF r0, r1, w2
<1>9b. LeftBy(w[0], r0) /\ ReachedBy(w[1], r1, m)
  BY <1>1, <1>3, <1>6 DEF LeftBy, ReachedBy
<1>10. ASSUME NEW i \in Ward, i # 0, i # 1
       PROVE  w2[i] = w[i] /\ w[i] \in WardRecord /\ Named(w[i], i) /\ Zoned(w[i], i)
  BY <1>9, <1>10 DEF ShardInv, ShardTypeOK, WardsInv
<1>11. w2[0] = r0 /\ w2[1] = r1 BY <1>1, <1>9
<1>12. ASSUME NEW i \in Ward
       PROVE  /\ w2[i] \in WardRecord
              /\ Named(w2[i], i) /\ Zoned(w2[i], i)
              /\ w2[i].ward_no = w[i].ward_no /\ w2[i].board = w[i].board
              /\ Books(w2[i]) = Books(w[i]) /\ Finds(w2[i]) = Finds(w[i])
              /\ i > 1 => w2[i] = w[i]
  <2>1. CASE i = 0
    <3>1. ~(0 > 1) OBVIOUS
    <3> QED BY <2>1, <1>1, <1>3, <1>7, <1>11, <3>1
  <2>2. CASE i = 1
    <3>1. ~(1 > 1) OBVIOUS
    <3> QED BY <2>2, <1>1, <1>6, <1>8, <1>11, <3>1
  <2>3. CASE i # 0 /\ i # 1 BY <2>3, <1>10
  <2> QED BY <2>1, <2>2, <2>3
<1>13. w2 \in [Ward -> WardRecord]
  <2>1. DOMAIN w2 = Ward /\ w2 = [i \in Ward |-> w2[i]] BY <1>9
  <2> QED BY <2>1, <1>12
<1>14. LeftBy(w[0], w2[0]) /\ ReachedBy(w[1], w2[1], m) BY <1>9b, <1>11
<1> QED BY <1>3, <1>5, <1>12, <1>13, <1>14 DEF w2, m, s, v

-------------------------------------------------------------------------------
(* The inductive invariant.                                                 *)

\* A step that leaves the wards alone, founds none and does not go back before the migration.
Idle ==
  /\ UNCHANGED << game, w >>
  /\ Before' => Before
  /\ \A i \in Ward : Founded(i)' => Founded(i)
  /\ Going' => Going

\* Such a step keeps what the wards are.
LEMMA IdleStep ==
  ASSUME WardsInv, Idle
  PROVE  WardsInv' /\ (BooksInv => BooksInv')
<1>1. ASSUME NEW i \in Ward PROVE w'[i] = w[i] /\ (Founded(i)' => Founded(i))
  BY DEF Idle
<1>2. (Before' => Before) /\ (Going' => Going) BY DEF Idle
<1>3. WardsInv'
  <2> SUFFICES ASSUME NEW i \in Ward
               PROVE  /\ Named(w'[i], i) /\ Zoned(w'[i], i)
                      /\ Before' => AtHome(w'[i], i)
                      /\ Founded(i)' => w'[i].ward_no = i
                      /\ Founded(i)' /\ Before' => Len(w'[i].sparks) >= 1
    BY DEF WardsInv, Named, Zoned, AtHome, Ward
  <2> QED BY <1>1, <1>2 DEF WardsInv
<1>4. BooksInv => BooksInv'
  BY <1>1, <1>2 DEF BooksInv, Books, Finds, Held, Salvage, Purses, Idle
<1> QED BY <1>3, <1>4

\* The number of wards does not change during a game, and bounds what the state needs.
LEMMA CountsAre ==
  ASSUME ShardTypeOK
  PROVE  /\ nwards \in Nat /\ game.cycles \in Nat /\ game.cycles \div 2 \in Nat
         /\ MAX_WARDS \in Nat \ {0} /\ turn \in Nat /\ c \in Nat
         /\ game' = game => nwards' = nwards
<1>1. game.cycles \in Nat /\ game.nsparks \in Nat BY ShardConstants DEF ShardTypeOK
<1>2. SPARKS_PER_WARD \in Nat \ {0} /\ MAX_WARDS \in Nat \ {0} BY ShardConstants
<1>3. nwards \in Nat
  <2>1. game.nsparks + SPARKS_PER_WARD - 1 \in Nat BY <1>1, <1>2
  <2> QED BY <1>2, <2>1, QuotientIs DEF nwards
<1>4. game.cycles \div 2 \in Nat BY <1>1
<1>5. game' = game => nwards' = nwards BY DEF nwards
<1> QED BY <1>1, <1>2, <1>3, <1>4, <1>5 DEF ShardTypeOK

\* The start of the game founds nothing yet.
LEMMA StartStep ==
  ASSUME ShardInv, Start
  PROVE  Idle /\ ShardTypeOK' /\ Control'
<1>1. ShardTypeOK /\ Control BY DEF ShardInv
<1>2. nwards' = nwards /\ nwards \in Nat /\ game.cycles \in Nat /\ MAX_WARDS \in Nat
  BY <1>1, CountsAre DEF Start
<1>3. ShardTypeOK' BY <1>1 DEF Start, Over, ShardTypeOK
<1>4. turn = 0 /\ c = 0 /\ rc = -1 /\ pc = "start" BY <1>1 DEF Start, Control
<1>5. Control' BY <1>2, <1>4 DEF Start, Over, Control
<1>6. Idle
  <2>1. \A i \in Ward : ~Founded(i)'
    <3>1. \A i \in Ward : i \in Nat BY RangesAre
    <3> QED BY <1>2, <1>4, <3>1 DEF Start, Over, Founded
  <2>2. Before /\ Going BY <1>4 DEF Before, Going
  <2> QED BY <2>1, <2>2 DEF Start, Idle
<1> QED BY <1>3, <1>5, <1>6

\* A call that fails ends the game and nothing else.
LEMMA FailStep ==
  ASSUME ShardInv, FoundFails \/ CycleFails
  PROVE  Idle /\ ShardTypeOK' /\ Control'
<1>1. ShardTypeOK /\ Control BY DEF ShardInv
<1>2. ShardTypeOK' BY <1>1 DEF FoundFails, CycleFails, Over, ShardTypeOK
<1>3. Control' BY DEF FoundFails, CycleFails, Over, Control
<1>4. Idle BY DEF FoundFails, CycleFails, Over, Idle, Before, Founded, Going
<1> QED BY <1>2, <1>3, <1>4

\* The end of the loop's body counts the cycle or turns to the migration.
LEMMA AcrossStep ==
  ASSUME ShardInv, Across
  PROVE  Idle /\ ShardTypeOK' /\ Control'
<1>1. ShardTypeOK /\ Control BY DEF ShardInv
<1>2. /\ nwards' = nwards /\ nwards \in Nat /\ game.cycles \in Nat /\ game.cycles \div 2 \in Nat
      /\ MAX_WARDS \in Nat /\ c \in Nat /\ game' = game
  BY <1>1, CountsAre DEF Across
<1>3. /\ pc = "play" /\ turn = nwards /\ rc = -1 /\ nwards \in 0..MAX_WARDS /\ c < game.cycles
      /\ turn' = 0
  BY <1>1 DEF Across, Control
<1>4. \/ pc' = "over" /\ rc' = 1 /\ c' = c
      \/ pc' = "migrate" /\ c' = c /\ rc' = rc /\ nwards > 1 /\ c = game.cycles \div 2
      \/ pc' = "play" /\ c' = c + 1 /\ rc' = rc /\ c + 1 < game.cycles
      \/ pc' = "end" /\ c' = c + 1 /\ rc' = rc
  BY DEF Across, Over, NextCycle, Midpoint
<1>5. ShardTypeOK'
  <2>1. c' \in 0..game.cycles /\ turn' \in 0..MAX_WARDS /\ rc' \in -1..2 BY <1>2, <1>3, <1>4
  <2>2. pc' \in {"start", "found", "play", "migrate", "end", "over"} BY <1>4
  <2>3. UNCHANGED << game, w, db, wardDb >> BY DEF Across
  <2> QED BY <1>1, <2>1, <2>2, <2>3 DEF ShardTypeOK
<1>6. Control' BY <1>2, <1>3, <1>4 DEF Control
<1>7. Idle
  <2>1. Before' => Before BY <1>2, <1>3, <1>4 DEF Before
  <2>2. \A i \in Ward : Founded(i)' => Founded(i) BY <1>2, <1>3, <1>4 DEF Founded
  <2>3. Going BY <1>3 DEF Going
  <2> QED BY <2>1, <2>2, <2>3 DEF Across, Idle
<1> QED BY <1>5, <1>6, <1>7

\* The report changes nothing but what the run returns.
LEMMA ReportStep ==
  ASSUME ShardInv, Report
  PROVE  Idle /\ ShardTypeOK' /\ Control'
<1>1. ShardTypeOK /\ Control BY DEF ShardInv
<1>2. pc = "end" /\ pc' = "over" /\ rc' \in {0, 1} BY DEF Report, Over
<1>3. ShardTypeOK' BY <1>1, <1>2 DEF Report, ShardTypeOK
<1>4. Control' BY <1>2 DEF Control
<1>5. Idle BY <1>2 DEF Report, Idle, Before, Founded, Going
<1> QED BY <1>3, <1>4, <1>5

\* A step that changes the ward of its turn alone.
Turned(r) ==
  /\ turn \in Ward /\ w' = [w EXCEPT ![turn] = r] /\ r \in WardRecord
  /\ Named(r, turn) /\ Zoned(r, turn) /\ r.ward_no = turn
  /\ Before' => Before /\ AtHome(r, turn) /\ Len(r.sparks) >= 1
  /\ \A i \in Ward \ {turn} : Founded(i)' => Founded(i)
  /\ Going' => Going
  /\ BooksInv /\ Going => Books(r) = 0 /\ Finds(r) = 0

\* Such a step keeps what the wards are.
LEMMA TurnedStep ==
  ASSUME ShardTypeOK, WardsInv, NEW r, Turned(r)
  PROVE  WardsInv' /\ w' \in [Ward -> WardRecord] /\ (BooksInv => BooksInv')
<1>1. w \in [Ward -> WardRecord] BY DEF ShardTypeOK
<1>2. /\ turn \in Ward /\ w' = [w EXCEPT ![turn] = r] /\ r \in WardRecord
      /\ Named(r, turn) /\ Zoned(r, turn) /\ r.ward_no = turn
      /\ Before' => Before /\ AtHome(r, turn) /\ Len(r.sparks) >= 1
      /\ \A i \in Ward \ {turn} : Founded(i)' => Founded(i)
      /\ Going' => Going
      /\ BooksInv /\ Going => Books(r) = 0 /\ Finds(r) = 0
  BY DEF Turned
<1>3. w' \in [Ward -> WardRecord] /\ w'[turn] = r /\ \A i \in Ward : i # turn => w'[i] = w[i]
  BY <1>1, <1>2
<1>4. WardsInv'
  <2> SUFFICES ASSUME NEW i \in Ward
               PROVE  /\ Named(w'[i], i) /\ Zoned(w'[i], i)
                      /\ Before' => AtHome(w'[i], i)
                      /\ Founded(i)' => w'[i].ward_no = i
                      /\ Founded(i)' /\ Before' => Len(w'[i].sparks) >= 1
    BY DEF WardsInv, Named, Zoned, AtHome, Ward
  <2>1. CASE i = turn BY <2>1, <1>2, <1>3
  <2>2. CASE i # turn BY <2>2, <1>2, <1>3 DEF WardsInv
  <2> QED BY <2>1, <2>2
<1>5. ASSUME BooksInv PROVE BooksInv'
  <2> SUFFICES ASSUME Going', NEW i \in Ward
               PROVE  Books(w'[i]) = 0 /\ Finds(w'[i]) = 0
    BY DEF BooksInv, Books, Finds, Held, Salvage, Purses, Ward
  <2>1. CASE i = turn BY <2>1, <1>2, <1>3, <1>5
  <2>2. CASE i # turn BY <2>2, <1>2, <1>3, <1>5 DEF BooksInv
  <2> QED BY <2>1, <2>2
<1> QED BY <1>3, <1>4, <1>5

\* Founding a ward.
LEMMA FoundStep ==
  ASSUME ShardInv, Found
  PROVE  Turned(NewWard) /\ ShardTypeOK' /\ Control'
<1> DEFINE base == turn * SPARKS_PER_WARD
           take == Min({SPARKS_PER_WARD, game.nsparks - base})
           no   == base \div SPARKS_PER_WARD
<1>1. ShardTypeOK /\ Control /\ WardsInv /\ pc = "found" BY DEF ShardInv, Found
<1>2. /\ nwards' = nwards /\ nwards \in Nat /\ game.cycles \in Nat /\ game.cycles \div 2 \in Nat
      /\ MAX_WARDS \in Nat /\ c \in Nat /\ game' = game /\ turn \in Nat
  BY <1>1, CountsAre DEF Found
<1>3. turn \in Ward /\ turn < nwards /\ no = turn BY <1>1, FoundingIs
<1>4. /\ NewWard \in WardRecord /\ NewWard.ward_no = turn
      /\ Len(NewWard.sparks) \in 1..SPARKS_PER_WARD
      /\ Named(NewWard, turn) /\ AtHome(NewWard, turn)
      /\ Books(NewWard) = 0 /\ Finds(NewWard) = 0
  BY <1>1, NewWardIs
<1>5. w' = [w EXCEPT ![turn] = NewWard] BY DEF Found, NewWard
<1>6. db' \in [Ward \X Id -> FileRecord]
  <2>1. db' = Joining(no, base..(base + take - 1)) BY DEF Found
  <2> DEFINE ids == base..(base + take - 1)
  <2> HIDE DEF ids, no
  <2>2. db' = Joining(turn, ids) BY <2>1, <1>3 DEF ids
  <2> QED BY <2>2, <1>1, <1>3, JoiningIs
<1>7. wardDb' \in [Ward -> RowRecord]
  <2> DEFINE row == [NoRow EXCEPT !.treasury = START_TREASURY, !.issued = START_TREASURY]
  <2>1. row \in RowRecord
    <3> DEFINE row1 == [NoRow EXCEPT !.treasury = START_TREASURY]
    <3>1. START_TREASURY \in Nat BY ShardConstants
    <3>2. NoRow \in RowRecord BY DEF NoRow, RowRecord
    <3>3. row1 \in RowRecord BY <3>1, <3>2 DEF RowRecord
    <3>4. row = [row1 EXCEPT !.issued = START_TREASURY] OBVIOUS
    <3> HIDE DEF row, row1
    <3> QED BY <3>1, <3>3, <3>4 DEF RowRecord
  <2>2. wardDb' = [wardDb EXCEPT ![turn] = row] BY DEF Found
  <2> HIDE DEF row
  <2> QED BY <1>1, <2>1, <2>2 DEF ShardTypeOK
<1>8. /\ c' = c /\ rc' = rc /\ c = 0 /\ rc = -1 /\ nwards \in 1..MAX_WARDS
      /\ \/ turn + 1 < nwards /\ turn' = turn + 1 /\ pc' = "found"
         \/ turn + 1 >= nwards /\ turn' = 0 /\ pc' = "end" /\ game.cycles = 0
         \/ turn + 1 >= nwards /\ turn' = 0 /\ pc' = "play" /\ game.cycles > 0
  BY <1>1, <1>2 DEF Found, Control
<1>9. Control' BY <1>2, <1>8 DEF Control
<1> HIDE DEF base, take, no
<1>10. Zoned(NewWard, turn) /\ Len(NewWard.sparks) >= 1
  BY <1>4, ShardConstants DEF Zoned
<1>11. Turned(NewWard)
  <2>1. Before /\ Going BY <1>1 DEF Before, Going
  <2>2. \A i \in Ward \ {turn} : Founded(i)' => Founded(i)
    <3>1. \A i \in Ward : i \in Nat BY RangesAre
    <3> QED BY <1>1, <1>2, <1>8, <3>1 DEF Founded
  <2> QED BY <1>3, <1>4, <1>5, <1>10, <2>1, <2>2 DEF Turned
<1>12. ShardTypeOK'
  <2>1. w' \in [Ward -> WardRecord] BY <1>1, <1>11, TurnedStep
  <2>2. pc' \in {"start", "found", "play", "migrate", "end", "over"} BY <1>8
  <2>3. turn' \in 0..MAX_WARDS /\ c' \in 0..game.cycles /\ rc' \in -1..2
    BY <1>2, <1>8
  <2> QED BY <1>1, <1>2, <1>6, <1>7, <2>1, <2>2, <2>3 DEF ShardTypeOK
<1> QED BY <1>9, <1>11, <1>12

\* A ward that has been cycled, with the arrival or without it.
LEMMA CycledIs ==
  ASSUME ShardInv, NEW g, CycledInto(w[turn], g), turn \in Ward, pc = "play", turn < nwards,
         NEW r, r = g \/ (Arriving(g) /\ r = Arrived(g))
  PROVE  /\ r \in WardRecord /\ g \in WardRecord /\ g.ward_no = turn
         /\ Named(r, turn) /\ Zoned(r, turn) /\ r.ward_no = turn
         /\ Before => AtHome(r, turn) /\ Len(r.sparks) >= 1
         /\ Books(r) = Books(w[turn]) /\ Finds(r) = Finds(w[turn])
         /\ RowOf(r) = RowOf(g) /\ RowOf(g) \in RowRecord
<1>1. /\ Named(w[turn], turn) /\ Zoned(w[turn], turn) /\ w[turn].ward_no = turn
      /\ Before => AtHome(w[turn], turn) /\ Len(w[turn].sparks) >= 1
  <2>1. Founded(turn) BY DEF Founded
  <2> QED BY <2>1 DEF ShardInv, WardsInv
<1>2. /\ g \in WardRecord /\ g.ward_no = turn
      /\ Books(g) = Books(w[turn]) /\ Finds(g) = Finds(w[turn])
  BY <1>1 DEF CycledInto
<1>3. /\ Len(g.sparks) = Len(w[turn].sparks)
      /\ Named(g, turn) /\ Zoned(g, turn)
      /\ Before => AtHome(g, turn)
  BY <1>1, CycledWard
<1>4. RowOf(g) \in RowRecord
  <2>1. g.treasury \in Nat /\ g.issued \in Int /\ g.retired \in Nat BY <1>2 DEF WardRecord
  <2> QED BY <2>1 DEF RowOf, RowRecord
<1>5. CASE r = g BY <1>1, <1>2, <1>3, <1>4, <1>5
<1>6. CASE Arriving(g) /\ r = Arrived(g)
  <2>1. ShardTypeOK BY DEF ShardInv
  <2>2. /\ r \in WardRecord /\ r.ward_no = turn
        /\ r.treasury = g.treasury /\ r.issued = g.issued /\ r.retired = g.retired
        /\ Len(r.sparks) = Len(g.sparks) + 1 /\ Len(r.sparks) <= SPARKS_PER_WARD
        /\ Named(r, turn)
        /\ AtHome(g, turn) => AtHome(r, turn)
        /\ Books(r) = Books(g) /\ Finds(r) = Finds(g)
    BY <1>2, <1>3, <1>6, <2>1, ArrivedWard
  <2>3. Zoned(r, turn) BY <2>2 DEF Zoned
  <2>4. Len(g.sparks) \in Nat BY <1>2, SumsAreTyped
  <2>5. Len(r.sparks) >= 1 BY <2>2, <2>4
  <2>6. RowOf(r) = RowOf(g) BY <2>2 DEF RowOf
  <2> QED BY <1>2, <1>3, <1>4, <2>2, <2>3, <2>5, <2>6
<1> QED BY <1>5, <1>6

\* A cycle is followed by the next ward's, or it ends the game.
LEMMA CycleEnds ==
  ASSUME ShardTypeOK, Control, Cycle
  PROVE  /\ c' = c /\ game' = game
         /\ \/ pc' = "over" /\ rc' = 1 /\ turn' = turn
            \/ pc' = pc /\ rc' = rc /\ turn' = turn + 1
<1>1. c' = c /\ game' = game BY DEF Cycle
<1>2. Asked \/ (Over(1) /\ UNCHANGED turn) BY CycleIs
<1> QED BY <1>1, <1>2 DEF Asked, Over

\* A cycle of a ward, whatever honest() finds afterwards.
LEMMA CycleStep ==
  ASSUME ShardInv, Cycle
  PROVE  /\ ShardTypeOK' /\ Control'
         /\ pc = "play" /\ turn < nwards
         /\ \E r : Turned(r) /\ wardDb' = [wardDb EXCEPT ![turn] = RowOf(r)]
         /\ \/ pc' = "over" /\ rc' = 1
            \/ pc' = "play" /\ rc' = rc /\ turn' = turn + 1 /\ c' = c /\ game' = game
<1>1. ShardTypeOK /\ Control /\ WardsInv /\ pc = "play" BY DEF ShardInv, Cycle
<1>2. /\ nwards' = nwards /\ nwards \in Nat /\ game.cycles \in Nat /\ game.cycles \div 2 \in Nat
      /\ MAX_WARDS \in Nat /\ c \in Nat /\ game' = game /\ turn \in Nat
  BY <1>1, CountsAre DEF Cycle
<1>3. /\ turn \in Ward /\ turn < nwards
      /\ \E g :
           /\ CycledInto(w[turn], g)
           /\ wardDb' = [wardDb EXCEPT ![turn] = RowOf(g)]
           /\ \/ /\ Arriving(g)
                 /\ w' = [w EXCEPT ![turn] = Arrived(g)]
                 /\ db' = [Stored(g.sparks) EXCEPT ![<< g.ward_no, ArrivalId(g) >>] =
                             Joining(g.ward_no, {ArrivalId(g)})[<< g.ward_no, ArrivalId(g) >>]]
              \/ w' = [w EXCEPT ![turn] = g] /\ db' = Stored(g.sparks)
              \/ Arriving(g) /\ ArrivalFails(g)
  BY <1>1, CycleIs
<1>4. PICK g :
           /\ CycledInto(w[turn], g)
           /\ wardDb' = [wardDb EXCEPT ![turn] = RowOf(g)]
           /\ \/ /\ Arriving(g)
                 /\ w' = [w EXCEPT ![turn] = Arrived(g)]
                 /\ db' = [Stored(g.sparks) EXCEPT ![<< g.ward_no, ArrivalId(g) >>] =
                             Joining(g.ward_no, {ArrivalId(g)})[<< g.ward_no, ArrivalId(g) >>]]
              \/ w' = [w EXCEPT ![turn] = g] /\ db' = Stored(g.sparks)
              \/ Arriving(g) /\ ArrivalFails(g)
  BY <1>3, Zenon
<1>5. \E r : (r = g \/ (Arriving(g) /\ r = Arrived(g))) /\ w' = [w EXCEPT ![turn] = r]
  BY <1>4, Zenon DEF ArrivalFails
<1>6. PICK r : (r = g \/ (Arriving(g) /\ r = Arrived(g))) /\ w' = [w EXCEPT ![turn] = r]
  BY <1>5, Zenon
<1>7. /\ r \in WardRecord /\ g \in WardRecord /\ g.ward_no = turn
      /\ Named(r, turn) /\ Zoned(r, turn) /\ r.ward_no = turn
      /\ Before => AtHome(r, turn) /\ Len(r.sparks) >= 1
      /\ Books(r) = Books(w[turn]) /\ Finds(r) = Finds(w[turn])
      /\ RowOf(r) = RowOf(g) /\ RowOf(g) \in RowRecord
  BY <1>1, <1>3, <1>4, <1>6, CycledIs
<1>8. /\ c' = c /\ game' = game /\ rc = -1 /\ nwards \in 0..MAX_WARDS /\ c < game.cycles
      /\ \/ pc' = "over" /\ rc' = 1 /\ turn' = turn
         \/ pc' = "play" /\ rc' = rc /\ turn' = turn + 1
  BY <1>1, CycleEnds DEF Control
<1>9. Control' BY <1>2, <1>3, <1>8 DEF Control
<1>10. Turned(r)
  <2>1. (Before' => Before) /\ Going BY <1>1, <1>2, <1>8 DEF Before, Going
  <2>2. \A i \in Ward \ {turn} : Founded(i)' => Founded(i)
    BY <1>1, <1>2, <1>8 DEF Founded
  <2>3. BooksInv => Books(r) = 0 /\ Finds(r) = 0 BY <1>3, <1>7, <2>1 DEF BooksInv
  <2> QED BY <1>3, <1>6, <1>7, <2>1, <2>2, <2>3 DEF Turned
<1>11. db' \in [Ward \X Id -> FileRecord]
  <2>1. g.sparks \in Seq(SparkRecord)
    <3> DEFINE S == Seq(SparkRecord)
    <3> HIDE DEF S
    <3>1. g.sparks \in S BY <1>7 DEF WardRecord, S
    <3> QED BY <3>1 DEF S
  <2>2. Stored(g.sparks) \in [Ward \X Id -> FileRecord] BY <1>1, <2>1, StoredIs
  <2>3. CASE Arriving(g) /\ db' = [Stored(g.sparks) EXCEPT ![<< g.ward_no, ArrivalId(g) >>] =
                Joining(g.ward_no, {ArrivalId(g)})[<< g.ward_no, ArrivalId(g) >>]]
    <3> DEFINE f == << g.ward_no, ArrivalId(g) >>
               x == Joining(g.ward_no, {ArrivalId(g)})[f]
    <3>1. f \in Ward \X Id
      <4>1. ArrivalId(g) \in Id BY <1>3, <1>7, <2>3, ArrivalIdIs
      <4> QED BY <1>3, <1>7, <4>1
    <3>2. x \in FileRecord
      <4>1. Joining(g.ward_no, {ArrivalId(g)}) \in [Ward \X Id -> FileRecord]
        BY <1>1, <1>3, <1>7, JoiningIs
      <4> HIDE DEF f
      <4> QED BY <3>1, <4>1
    <3>3. db' = [Stored(g.sparks) EXCEPT ![f] = x] BY <2>3
    <3> HIDE DEF f, x
    <3> QED BY <2>2, <3>1, <3>2, <3>3
  <2>4. CASE db' = Stored(g.sparks) BY <2>2, <2>4
  <2>5. CASE Arriving(g) /\ ArrivalFails(g)
    <3> DEFINE f == << g.ward_no, ArrivalId(g) >>
               d == Stored(g.sparks)
    <3>1. f \in Ward \X Id
      <4>1. ArrivalId(g) \in Id BY <1>3, <1>7, <2>5, ArrivalIdIs
      <4> QED BY <1>3, <1>7, <4>1
    <3>2. PICK x \in {d[f], [d[f] EXCEPT !.opens = @ + 1],
                      [NoFile EXCEPT !.opens = d[f].opens + 1]} :
            db' = [d EXCEPT ![f] = x]
      BY <2>5 DEF ArrivalFails
    <3> HIDE DEF f, d
    <3>3. d[f] \in FileRecord BY <2>2, <3>1 DEF d
    <3>4. x \in FileRecord BY <3>2, <3>3 DEF FileRecord, NoFile
    <3> QED BY <2>2, <3>1, <3>2, <3>4 DEF d
  <2> QED BY <1>4, <2>3, <2>4, <2>5
<1>12. wardDb' = [wardDb EXCEPT ![turn] = RowOf(r)] /\ wardDb' \in [Ward -> RowRecord]
  BY <1>1, <1>3, <1>4, <1>7 DEF ShardTypeOK
<1>13. ShardTypeOK'
  <2>1. w' \in [Ward -> WardRecord] BY <1>1, <1>10, TurnedStep
  <2>2. pc' \in {"start", "found", "play", "migrate", "end", "over"} BY <1>8
  <2>3. turn' \in 0..MAX_WARDS /\ c' \in 0..game.cycles /\ rc' \in -1..2
    BY <1>2, <1>3, <1>8
  <2> QED BY <1>1, <1>2, <1>11, <1>12, <2>1, <2>2, <2>3 DEF ShardTypeOK
<1> QED BY <1>1, <1>3, <1>8, <1>9, <1>10, <1>12, <1>13

\* The migration: the two wards it is between stay named, zoned and balanced.
LEMMA MigrateStep ==
  ASSUME ShardInv, Migrate
  PROVE  /\ ShardInv' /\ (BooksInv => BooksInv')
         /\ nwards \in 2..MAX_WARDS /\ turn = 0 /\ c = game.cycles \div 2
         /\ \A i \in Ward : i > 1 => w'[i] = w[i]
         /\ \/ pc' = "over" /\ rc' = 1
            \/ pc' = NextCycle(c) /\ c' = c + 1 /\ rc' = rc
<1> DEFINE s  == Head(w[0].sparks)
           m  == Renamed(s, w[1])
           w2 == [BooksMoved(s) EXCEPT ![0].sparks = Tail(@), ![1].sparks = Append(@, m)]
<1>1. ShardTypeOK /\ Control /\ WardsInv /\ pc = "migrate" BY DEF ShardInv, Migrate
<1>2. /\ nwards' = nwards /\ nwards \in Nat /\ game.cycles \in Nat /\ game.cycles \div 2 \in Nat
      /\ MAX_WARDS \in Nat /\ c \in Nat /\ game' = game /\ turn \in Nat
  BY <1>1, CountsAre DEF Migrate
<1>3. /\ s \in SparkRecord /\ m \in SparkRecord
      /\ w2 \in [Ward -> WardRecord]
      /\ \A i \in Ward : /\ Named(w2[i], i) /\ Zoned(w2[i], i)
                         /\ w2[i].ward_no = w[i].ward_no
                         /\ Books(w2[i]) = Books(w[i]) /\ Finds(w2[i]) = Finds(w[i])
      /\ \A i \in Ward : i > 1 => w2[i] = w[i]
  BY <1>1, MigratedIs
<1>4. /\ w' = w2 /\ db' = [db EXCEPT ![<< s.home, s.id >>].wire = m.wire]
      /\ wardDb' = wardDb /\ turn' = turn
  BY DEF Migrate
<1>5. /\ nwards \in 2..MAX_WARDS /\ turn = 0 /\ c = game.cycles \div 2 /\ c < game.cycles
      /\ rc = -1
  BY <1>1 DEF Control
<1>6. \/ pc' = "over" /\ rc' = 1 /\ c' = c
      \/ pc' = NextCycle(c) /\ c' = c + 1 /\ rc' = rc
  BY DEF Migrate, Over
<1>7. \/ pc' = "over" /\ rc' = 1 /\ c' = c
      \/ pc' = "play" /\ c' = c + 1 /\ rc' = rc /\ c + 1 < game.cycles
      \/ pc' = "end" /\ c' = c + 1 /\ rc' = rc
  BY <1>6 DEF NextCycle
<1> HIDE DEF w2, m, s
<1>8. Control' BY <1>2, <1>4, <1>5, <1>7 DEF Control
<1>9. ~Before' /\ Going /\ \A i \in Ward : Founded(i)' => Founded(i)
  BY <1>1, <1>2, <1>5, <1>7 DEF Before, Going, Founded
<1>10. WardsInv'
  <2> SUFFICES ASSUME NEW i \in Ward
               PROVE  /\ Named(w'[i], i) /\ Zoned(w'[i], i)
                      /\ Before' => AtHome(w'[i], i)
                      /\ Founded(i)' => w'[i].ward_no = i
                      /\ Founded(i)' /\ Before' => Len(w'[i].sparks) >= 1
    BY DEF WardsInv, Named, Zoned, AtHome, Ward
  <2>1. Founded(i)' => w[i].ward_no = i BY <1>1, <1>9 DEF WardsInv
  <2> QED BY <1>3, <1>4, <1>9, <2>1
<1>11. ASSUME BooksInv PROVE BooksInv'
  <2> SUFFICES ASSUME NEW i \in Ward
               PROVE  Books(w'[i]) = 0 /\ Finds(w'[i]) = 0
    BY DEF BooksInv, Books, Finds, Held, Salvage, Purses, Ward
  <2>1. Books(w[i]) = 0 /\ Finds(w[i]) = 0 BY <1>9, <1>11 DEF BooksInv
  <2> QED BY <1>3, <1>4, <2>1
<1>12. db' \in [Ward \X Id -> FileRecord]
  <2> DEFINE f == << s.home, s.id >>
             x == m.wire
  <2>1. f \in Ward \X Id /\ x \in Int BY <1>3 DEF SparkRecord
  <2>2. db' = [db EXCEPT ![f].wire = x] BY <1>4
  <2>3. db \in [Ward \X Id -> FileRecord] /\ db[f] \in FileRecord BY <1>1, <2>1 DEF ShardTypeOK
  <2> HIDE DEF f, x
  <2>4. [db[f] EXCEPT !.wire = x] \in FileRecord BY <2>1, <2>3 DEF FileRecord
  <2>5. db' = [db EXCEPT ![f] = [db[f] EXCEPT !.wire = x]] BY <2>2
  <2> QED BY <2>1, <2>3, <2>4, <2>5
<1>13. ShardTypeOK'
  <2>1. c' \in 0..game.cycles /\ rc' \in -1..2 BY <1>2, <1>5, <1>7
  <2>2. pc' \in {"start", "found", "play", "migrate", "end", "over"} BY <1>7
  <2> QED BY <1>1, <1>2, <1>3, <1>4, <1>12, <2>1, <2>2 DEF ShardTypeOK
<1> QED BY <1>3, <1>4, <1>5, <1>6, <1>8, <1>10, <1>11, <1>13 DEF ShardInv

\* A migration that fails moves the books and not the Spark, and ends the game.
LEMMA MigrateFailsStep ==
  ASSUME ShardInv, MigrateFails
  PROVE  ShardInv' /\ ~Going'
<1> DEFINE s  == Head(w[0].sparks)
           h0 == Accounted(w[0], -s.purse, -s.items)
           h1 == Accounted(w[1], s.purse, s.items)
<1>1. ShardTypeOK /\ Control /\ WardsInv /\ pc = "migrate" BY DEF ShardInv, MigrateFails
<1>2. 0 \in Ward /\ 1 \in Ward /\ w[0] \in WardRecord /\ w[1] \in WardRecord /\ s \in SparkRecord
  BY <1>1, MigratingIs, LeaveBalances
<1> HIDE DEF s
<1>3. w' = [i \in Ward |-> IF i = 0 THEN h0 ELSE IF i = 1 THEN h1 ELSE w[i]]
  <2>1. w' = BooksMoved(s) BY DEF MigrateFails, s
  <2> QED BY <1>1, <1>2, <2>1, BooksMovedIs
<1>4. /\ h0 \in WardRecord /\ h0.sparks = w[0].sparks
      /\ h1 \in WardRecord /\ h1.sparks = w[1].sparks
  <2>1. s.purse \in Int /\ s.items \in Int /\ -s.purse \in Int /\ -s.items \in Int
    BY <1>2 DEF SparkRecord
  <2>2. h0 \in WardRecord /\ h0.sparks = w[0].sparks
    <3> DEFINE x == -s.purse
               y == -s.items
    <3>1. x \in Int /\ y \in Int BY <2>1
    <3> HIDE DEF x, y
    <3>2. Accounted(w[0], x, y) \in WardRecord /\ Accounted(w[0], x, y).sparks = w[0].sparks
      BY <1>2, <3>1, AccountedIs
    <3> QED BY <3>2 DEF x, y
  <2>3. h1 \in WardRecord /\ h1.sparks = w[1].sparks BY <1>2, <2>1, AccountedIs
  <2> QED BY <2>2, <2>3
<1> HIDE DEF h0, h1
<1>5. w' \in [Ward -> WardRecord] /\ \A i \in Ward : w'[i].sparks = w[i].sparks
  <2>1. \A i \in Ward : w[i] \in WardRecord BY <1>1 DEF ShardTypeOK
  <2>2. \A i \in Ward : w'[i] \in WardRecord /\ w'[i].sparks = w[i].sparks
    BY <1>3, <1>4, <2>1
  <2>3. w' = [i \in Ward |-> w'[i]] BY <1>3
  <2> QED BY <2>2, <2>3
<1>6. /\ pc' = "over" /\ rc' = 1 /\ UNCHANGED << game, db, wardDb, turn, c >>
  BY DEF MigrateFails, Over
<1>7. ShardTypeOK' BY <1>1, <1>5, <1>6 DEF ShardTypeOK
<1>8. Control' BY <1>6 DEF Control
<1>9. ~Before' /\ ~Going' /\ \A i \in Ward : ~Founded(i)' BY <1>6 DEF Before, Going, Founded
<1>10. WardsInv'
  <2> SUFFICES ASSUME NEW i \in Ward
               PROVE  Named(w'[i], i) /\ Zoned(w'[i], i)
    BY <1>9 DEF WardsInv, Named, Zoned, AtHome, Ward
  <2> QED BY <1>1, <1>5 DEF WardsInv, Named, Zoned
<1> QED BY <1>7, <1>8, <1>9, <1>10 DEF ShardInv

\* The game begins with nothing founded, and every step keeps what the game is by then.
LEMMA ShardInvHolds == Spec => [](ShardInv /\ BooksInv)
<1> DEFINE Inv == ShardInv /\ BooksInv
<1>1. Init => Inv
  <2> SUFFICES ASSUME Init PROVE Inv OBVIOUS
  <2>1. NoWard \in WardRecord
    <3> DEFINE S == Seq(SparkRecord)
    <3>1. << >> \in S OBVIOUS
    <3> HIDE DEF S
    <3> QED BY <3>1 DEF NoWard, WardRecord, S
  <2>2. NoWard.sparks = << >> /\ NoWard.treasury = 0 /\ NoWard.retired = 0 /\ NoWard.spent = 0
        /\ NoWard.issued = 0 /\ NoWard.found = 0
    BY DEF NoWard
  <2>3. NoFile \in FileRecord /\ NoRow \in RowRecord
    BY DEF NoFile, NoRow, FileRecord, RowRecord
  <2>4. game.cycles \in Nat /\ SPARKS_PER_WARD \in Nat /\ MAX_WARDS \in Nat
    BY ShardConstants DEF Init
  <2>5. ShardTypeOK
    <3>1. w \in [Ward -> WardRecord]
      <4> HIDE DEF Ward, WardRecord
      <4> QED BY <2>1 DEF Init
    <3>2. db \in [Ward \X Id -> FileRecord] BY <2>3 DEF Init
    <3>3. wardDb \in [Ward -> RowRecord] BY <2>3 DEF Init
    <3> QED BY <2>4, <3>1, <3>2, <3>3 DEF Init, ShardTypeOK
  <2>6. Control BY DEF Init, Control
  <2>7. ASSUME NEW i \in Ward PROVE w[i] = NoWard /\ Len(w[i].sparks) = 0 /\ ~Founded(i)
    <3>1. w[i] = NoWard BY DEF Init
    <3>2. ~Founded(i) BY DEF Init, Founded
    <3> QED BY <2>2, <3>1, <3>2
  <2>8. WardsInv
    <3> SUFFICES ASSUME NEW i \in Ward
                 PROVE  Named(w[i], i) /\ Zoned(w[i], i) /\ AtHome(w[i], i)
      BY <2>7 DEF WardsInv
    <3>1. Len(w[i].sparks) <= SPARKS_PER_WARD /\ 1..Len(w[i].sparks) = {} BY <2>4, <2>7
    <3> QED BY <3>1 DEF Named, Zoned, AtHome
  <2>9. BooksInv
    <3>1. Purses(NoWard) = 0 /\ Salvage(NoWard) = 0
      <4> DEFINE f == [k \in DOMAIN NoWard.sparks |-> NoWard.sparks[k].purse]
                 h == [k \in DOMAIN NoWard.sparks |-> NoWard.sparks[k].items]
      <4>1. DOMAIN NoWard.sparks = 1..0 /\ Len(NoWard.sparks) = 0 BY <2>2
      <4>2. f \in [1..0 -> Int] /\ h \in [1..0 -> Int] BY <4>1
      <4>3. \A k \in 1..0 : f[k] = 0 /\ h[k] = 0 OBVIOUS
      <4>4. Purses(NoWard) = Total(f, 0) /\ Salvage(NoWard) = Total(h, 0)
        BY <4>1 DEF Purses, Salvage
      <4> HIDE DEF f, h
      <4> QED BY <4>2, <4>3, <4>4, TotalZero
    <3>2. Books(NoWard) = 0 /\ Finds(NoWard) = 0 BY <2>2, <3>1 DEF Books, Finds, Held
    <3> QED BY <2>7, <3>2 DEF BooksInv
  <2> QED BY <2>5, <2>6, <2>8, <2>9 DEF ShardInv
<1>2. Inv /\ [Next]_vars => Inv'
  <2> SUFFICES ASSUME ShardInv, BooksInv, [Next]_vars PROVE ShardInv' /\ BooksInv' OBVIOUS
  <2> USE DEF ShardInv
  <2>1. CASE Start BY <2>1, StartStep, IdleStep
  <2>2. CASE Found BY <2>2, FoundStep, TurnedStep
  <2>3. CASE FoundFails BY <2>3, FailStep, IdleStep
  <2>4. CASE Cycle
    <3>1. PICK r : Turned(r) BY <2>4, CycleStep, Zenon
    <3> QED BY <2>4, <3>1, CycleStep, TurnedStep
  <2>5. CASE CycleFails BY <2>5, FailStep, IdleStep
  <2>6. CASE Across BY <2>6, AcrossStep, IdleStep
  <2>7. CASE Migrate BY <2>7, MigrateStep
  <2>8. CASE MigrateFails
    <3>1. ShardInv' /\ ~Going' BY <2>8, MigrateFailsStep
    <3> QED BY <3>1 DEF BooksInv
  <2>9. CASE Report BY <2>9, ReportStep, IdleStep
  <2>10. CASE UNCHANGED vars
    <3>1. ShardTypeOK' /\ Control' BY <2>10 DEF vars, ShardTypeOK, Control, nwards
    <3>2. Idle BY <2>10 DEF vars, Idle, Before, Founded, Going, nwards
    <3> QED BY <3>1, <3>2, IdleStep
  <2> QED BY <2>1, <2>2, <2>3, <2>4, <2>5, <2>6, <2>7, <2>8, <2>9, <2>10 DEF Next
<1> QED BY <1>1, <1>2, PTL DEF Spec

\* Type correctness, for every number of wards, Sparks and cycles: the array of a ward has
\* room for what founding, arrivals and the migration put into it (queen.c 858).
THEOREM ShardTypes == Spec => []TypeOK
<1>1. ShardInv => TypeOK
  <2> SUFFICES ASSUME ShardInv, NEW i \in Ward
               PROVE  Len(w[i].sparks) <= MAX_SPARKS /\ w[i].treasury \in Nat
    BY DEF TypeOK, ShardInv, ShardTypeOK
  <2>1. w[i] \in WardRecord BY DEF ShardInv, ShardTypeOK
  <2>2. Len(w[i].sparks) \in Nat /\ w[i].treasury \in Nat BY <2>1, SumsAreTyped DEF WardRecord
  <2>3. Zoned(w[i], i) BY DEF ShardInv, WardsInv
  <2>4. Len(w[i].sparks) <= SPARKS_PER_WARD + 1 BY <2>2, <2>3, ShardConstants DEF Zoned
  <2> QED BY <2>2, <2>4, ShardConstants
<1> QED BY <1>1, ShardInvHolds, PTL

\* A Spark's name says which ward holds it and is neither a venue's nor a contract's, for
\* every game the ranges of wire.h have room for: named_apart (queen.c 906-931) compares the
\* first CAP names, and the names it never compares are apart as well.
THEOREM NamesAreTheWards == Spec => []NamesSayTheirWard
<1>1. ShardInv => NamesSayTheirWard
  <2> SUFFICES ASSUME ShardInv, NEW i \in Ward, NEW s \in Sparks(i)
               PROVE  /\ s.wire \div WIRE_LOCAL_MAX = i
                      /\ s.wire % WIRE_LOCAL_MAX \in WIRE_SPARK_BASE..(WIRE_CONTRACT_BASE - 1)
    BY DEF NamesSayTheirWard
  <2>1. w[i] \in WardRecord /\ Named(w[i], i) BY DEF ShardInv, ShardTypeOK, WardsInv
  <2>2. PICK k \in 1..Len(w[i].sparks) : s = w[i].sparks[k]
    BY <2>1, SumsAreTyped DEF Sparks, Range
  <2>3. s \in SparkRecord BY <2>1, <2>2, SumsAreTyped
  <2>4. s.wire = SparkWire(i, s.id) BY <2>1, <2>2 DEF Named
  <2>5. s.id \in Id BY <2>3 DEF SparkRecord
  <2> DEFINE n == MAX_WARDS * SPARKS_PER_WARD
             id == s.id
             l == WIRE_SPARK_BASE + id
  <2>6. n \in Nat /\ id \in 0..(n - 1) /\ i \in Nat BY <2>5, RangesAre DEF Id
  <2>7. WIRE_SPARK_BASE + n <= WIRE_CONTRACT_BASE BY RangesHold
  <2> HIDE DEF n, id
  <2>8. /\ l \in Nat /\ l < WIRE_LOCAL_MAX
        /\ l \in WIRE_SPARK_BASE..(WIRE_CONTRACT_BASE - 1)
    <3>1. 256 + n <= 16384 /\ l = 256 + id BY <2>7 DEF WIRE_SPARK_BASE, WIRE_CONTRACT_BASE
    <3>2. id \in Nat /\ id < n BY <2>6
    <3> HIDE DEF l
    <3>3. l \in Nat /\ 256 <= l /\ l < 16384 BY <2>6, <3>1, <3>2
    <3> QED BY <3>3 DEF WIRE_SPARK_BASE, WIRE_CONTRACT_BASE, WIRE_LOCAL_MAX
  <2>9. s.wire = wire_id(i, l) BY <2>4 DEF SparkWire, id
  <2> HIDE DEF l
  <2> QED BY <2>6, <2>8, <2>9, NameDecodes
<1> QED BY <1>1, ShardInvHolds, PTL

\* Founding and arrivals keep a ward to its zone; a ward past it holds a migrant and is past
\* it by one.
THEOREM ZoneIsKept == Spec => []ZoneHoldsButOne
<1>1. ShardInv => ZoneHoldsButOne
  <2> SUFFICES ASSUME ShardInv, NEW i \in Ward
               PROVE  /\ Len(w[i].sparks) <=
                           SPARKS_PER_WARD + Cardinality({s \in Sparks(i) : s.home # i})
                      /\ Len(w[i].sparks) <= SPARKS_PER_WARD + 1
    BY DEF ZoneHoldsButOne
  <2> DEFINE N == Len(w[i].sparks)
             A == {s \in Sparks(i) : s.home # i}
  <2>1. w[i] \in WardRecord /\ Zoned(w[i], i) BY DEF ShardInv, ShardTypeOK, WardsInv
  <2>2. /\ N \in Nat /\ DOMAIN w[i].sparks = 1..N
        /\ w[i].sparks \in [1..N -> SparkRecord]
    <3>1. w[i].sparks \in Seq(SparkRecord)
      <4> DEFINE S == Seq(SparkRecord)
      <4> HIDE DEF S
      <4>1. w[i].sparks \in S BY <2>1 DEF WardRecord, S
      <4> QED BY <4>1 DEF S
    <3> QED BY <3>1
  <2>3. IsFiniteSet(Sparks(i))
    <3>1. w[i].sparks \in Surjection(1..N, Sparks(i))
      BY <2>2 DEF Surjection, Sparks, Range
    <3>2. IsFiniteSet(1..N) BY <2>2, FS_Interval
    <3> QED BY <3>1, <3>2, FS_Surjection
  <2>4. IsFiniteSet(A)
    <3>1. A \in SUBSET Sparks(i) OBVIOUS
    <3> QED BY <2>3, <3>1, FS_Subset
  <2>5. Cardinality(A) \in Nat /\ (A # {} => Cardinality(A) # 0)
    <3> HIDE DEF A
    <3> QED BY <2>4, FS_CardinalityType, FS_EmptySet
  <2>6. SPARKS_PER_WARD \in Nat BY ShardConstants
  <2>7. CASE N <= SPARKS_PER_WARD
    <3> HIDE DEF A, N
    <3>1. N <= SPARKS_PER_WARD + Cardinality(A) /\ N <= SPARKS_PER_WARD + 1
      BY <2>2, <2>5, <2>6, <2>7
    <3> QED BY <3>1 DEF A, N
  <2>8. CASE N <= SPARKS_PER_WARD + 1 /\ \E k \in 1..N : w[i].sparks[k].home # i
    <3>1. PICK k \in 1..N : w[i].sparks[k].home # i BY <2>8
    <3>2. w[i].sparks[k] \in A BY <2>2, <3>1 DEF Sparks, Range
    <3> HIDE DEF A, N
    <3>3. N <= SPARKS_PER_WARD + Cardinality(A) /\ N <= SPARKS_PER_WARD + 1
      BY <2>2, <2>5, <2>6, <2>8, <3>2
    <3> QED BY <3>3 DEF A, N
  <2> QED BY <2>1, <2>7, <2>8 DEF Zoned
<1> QED BY <1>1, ShardInvHolds, PTL

\* Every ward's own sums hold while the game goes on, through purchases, wages, the clock,
\* arrivals and the migration, also for a ward honest() has not been asked of since.
THEOREM WardsStayHonest == Spec => []EveryWardIsHonest
<1>1. ShardInv /\ BooksInv => EveryWardIsHonest
  <2> SUFFICES ASSUME ShardInv, BooksInv, Going, NEW i \in Ward
               PROVE  Held(w[i]) = w[i].issued /\ Salvage(w[i]) = w[i].found
    BY DEF EveryWardIsHonest
  <2>1. w[i] \in WardRecord BY DEF ShardInv, ShardTypeOK
  <2>2. Held(w[i]) \in Int /\ Salvage(w[i]) \in Int /\ w[i].issued \in Int /\ w[i].found \in Int
    BY <2>1, SumsAreTyped DEF WardRecord
  <2>3. Held(w[i]) - w[i].issued = 0 /\ Salvage(w[i]) - w[i].found = 0
    BY DEF BooksInv, Books, Finds
  <2> QED BY <2>2, <2>3
<1> QED BY <1>1, ShardInvHolds, PTL

\* honest() after a ward's cycle (queen.c 1035) never ends a game: the cycle that could
\* make it fail is none that cycle() takes.
THEOREM CyclesAreHonest == Spec => [][Cycle => honest(w'[turn])]_vars
<1>1. ShardInv /\ BooksInv /\ [Next]_vars => [Cycle => honest(w'[turn])]_vars
  <2> SUFFICES ASSUME ShardInv, BooksInv, Cycle PROVE honest(w'[turn])
    OBVIOUS
  <2>1. ShardTypeOK /\ WardsInv /\ pc = "play" BY CycleStep DEF ShardInv
  <2>2. PICK r : Turned(r) BY CycleStep, Zenon
  <2>3. Books(r) = 0 /\ Finds(r) = 0 /\ r \in WardRecord /\ turn \in Ward
    BY <2>1, <2>2 DEF Turned, Going
  <2>4. w'[turn] = r BY <2>1, <2>2 DEF Turned, ShardTypeOK
  <2>5. Held(r) \in Int /\ Salvage(r) \in Int /\ r.issued \in Int /\ r.found \in Int
    BY <2>3, SumsAreTyped DEF WardRecord
  <2>6. Held(r) - r.issued = 0 /\ Salvage(r) - r.found = 0 BY <2>3 DEF Books, Finds
  <2> QED BY <2>4, <2>5, <2>6 DEF honest
<1> QED BY <1>1, ShardInvHolds, PTL DEF Spec

\* A ward's row is written by its own cycles, so it is behind from the migration to the
\* ward's next cycle and at no other time.
LEMMA RowsStep ==
  ASSUME ShardInv, RowsInv, [Next]_vars
  PROVE  RowsInv'
<1> SUFFICES ASSUME Going', game'.cycles > 2, NEW i \in Ward
             PROVE  \/ wardDb'[i] = RowOf(w'[i])
                    \/ /\ pc' = "play" /\ c' = game'.cycles \div 2 + 1
                       /\ turn' <= i /\ i < nwards'
  BY DEF RowsInv, RowOf, Ward
<1>1. ShardTypeOK /\ Control BY DEF ShardInv
<1>2. /\ nwards \in Nat /\ game.cycles \in Nat /\ game.cycles \div 2 \in Nat
      /\ MAX_WARDS \in Nat /\ turn \in Nat /\ c \in Nat /\ i \in Nat
      /\ game' = game => nwards' = nwards
  BY <1>1, CountsAre, RangesAre
<1>3. game' = game
  BY DEF Next, Start, Found, FoundFails, Cycle, CycleFails, Across, Migrate, MigrateFails,
         Report, vars
<1>4. w \in [Ward -> WardRecord] /\ wardDb \in [Ward -> RowRecord] BY <1>1 DEF ShardTypeOK
<1>5. Going => \/ wardDb[i] = RowOf(w[i])
               \/ pc = "play" /\ c = game.cycles \div 2 + 1 /\ turn <= i /\ i < nwards
  BY <1>3 DEF RowsInv
<1>6. CASE Start \/ FoundFails \/ CycleFails \/ Report
  <2>1. w' = w /\ wardDb' = wardDb /\ (Going' => Going /\ pc # "play")
    BY <1>6 DEF Start, FoundFails, CycleFails, Report, Over, Going
  <2> QED BY <1>5, <2>1
<1>7. CASE Found
  <2> DEFINE row == [NoRow EXCEPT !.treasury = START_TREASURY, !.issued = START_TREASURY]
  <2>1. Turned(NewWard) BY <1>7, FoundStep
  <2>2. pc = "found" /\ wardDb' = [wardDb EXCEPT ![turn] = row] BY <1>7 DEF Found
  <2>3. RowOf(NewWard) = row
    <3>1. NewWard.treasury = START_TREASURY /\ NewWard.issued = START_TREASURY
          /\ NewWard.retired = 0
      BY <1>1, <2>2, NewWardIs
    <3> DEFINE row1 == [NoRow EXCEPT !.treasury = START_TREASURY]
    <3>2. row1 = [treasury |-> START_TREASURY, issued |-> 0, retired |-> 0] BY DEF NoRow
    <3>3. row = [row1 EXCEPT !.issued = START_TREASURY] OBVIOUS
    <3> HIDE DEF row1, row
    <3>4. row = [treasury |-> START_TREASURY, issued |-> START_TREASURY, retired |-> 0]
      BY <3>2, <3>3
    <3> QED BY <3>1, <3>4 DEF RowOf
  <2> HIDE DEF row
  <2>4. w' = [w EXCEPT ![turn] = NewWard] /\ turn \in Ward BY <2>1 DEF Turned
  <2>5. Going BY <2>2 DEF Going
  <2>6. CASE i = turn BY <1>4, <2>2, <2>3, <2>4, <2>6
  <2>7. CASE i # turn
    <3>1. w'[i] = w[i] /\ wardDb'[i] = wardDb[i] BY <1>4, <2>2, <2>4, <2>7
    <3> QED BY <1>5, <2>2, <2>5, <3>1
  <2> QED BY <2>6, <2>7
<1>8. CASE Cycle
  <2>1. /\ pc = "play" /\ turn < nwards
        /\ \E r : Turned(r) /\ wardDb' = [wardDb EXCEPT ![turn] = RowOf(r)]
        /\ \/ pc' = "over" /\ rc' = 1
           \/ pc' = "play" /\ rc' = rc /\ turn' = turn + 1 /\ c' = c /\ game' = game
    BY <1>8, CycleStep
  <2>2. pc' = "play" /\ turn' = turn + 1 /\ c' = c BY <2>1 DEF Going
  <2>3. PICK r : Turned(r) /\ wardDb' = [wardDb EXCEPT ![turn] = RowOf(r)] BY <2>1, Zenon
  <2>4. w' = [w EXCEPT ![turn] = r] /\ turn \in Ward BY <2>3 DEF Turned
  <2>5. CASE i = turn BY <1>4, <2>3, <2>4, <2>5
  <2>6. CASE i # turn
    <3>1. w'[i] = w[i] /\ wardDb'[i] = wardDb[i] BY <1>4, <2>3, <2>4, <2>6
    <3>2. Going BY <2>1 DEF Going
    <3>3. CASE wardDb[i] = RowOf(w[i]) BY <3>1, <3>3
    <3>4. CASE c = game.cycles \div 2 + 1 /\ turn <= i /\ i < nwards
      <4>1. turn + 1 <= i BY <1>2, <2>6, <3>4
      <4> QED BY <1>2, <1>3, <2>2, <3>4, <4>1
    <3> QED BY <1>5, <3>2, <3>3, <3>4
  <2> QED BY <2>5, <2>6
<1>9. CASE Across
  <2>1. pc = "play" /\ turn = nwards /\ w' = w /\ wardDb' = wardDb BY <1>9 DEF Across
  <2>2. Going BY <2>1 DEF Going
  <2>3. ~(turn <= i /\ i < nwards) BY <1>2, <2>1
  <2> QED BY <1>5, <2>1, <2>2, <2>3
<1>10. CASE Migrate
  <2>1. /\ nwards \in 2..MAX_WARDS /\ turn = 0 /\ c = game.cycles \div 2
        /\ i > 1 => w'[i] = w[i]
        /\ \/ pc' = "over" /\ rc' = 1
           \/ pc' = NextCycle(c) /\ c' = c + 1 /\ rc' = rc
    BY <1>10, MigrateStep
  <2>2. pc = "migrate" /\ wardDb' = wardDb /\ turn' = turn BY <1>10 DEF Migrate
  <2>3. pc' = NextCycle(c) /\ c' = c + 1 BY <2>1 DEF Going
  <2>4. CASE i > 1
    <3>1. Going BY <2>2 DEF Going
    <3> QED BY <1>5, <2>1, <2>2, <2>4, <3>1
  <2>5. CASE ~(i > 1)
    <3>1. game.cycles > 2 BY <1>3
    <3>2. c + 1 < game.cycles BY <1>2, <2>1, <3>1
    <3>3. pc' = "play" BY <2>3, <3>2 DEF NextCycle
    <3>4. turn' <= i /\ i < nwards BY <1>2, <2>1, <2>2, <2>5
    <3> QED BY <1>2, <1>3, <2>1, <2>3, <3>3, <3>4
  <2> QED BY <2>4, <2>5
<1>11. CASE MigrateFails BY <1>11, MigrateFailsStep
<1>12. CASE UNCHANGED vars
  <2>1. Going /\ pc' = pc /\ c' = c /\ turn' = turn /\ w' = w /\ wardDb' = wardDb
    BY <1>12 DEF vars, Going
  <2> QED BY <1>2, <1>3, <1>5, <2>1
<1> QED BY <1>6, <1>7, <1>8, <1>9, <1>10, <1>11, <1>12 DEF Next

\* When a game of more than two cycles reports, the ward's rows say what the wards account
\* for: the cycle after the migration has written it.
THEOREM RowsHaveCaughtUp == Spec => []RowsCatchUp
<1>1. Init => RowsInv
  <2> SUFFICES ASSUME Init, NEW i \in Ward PROVE wardDb[i] = RowOf(w[i])
    BY DEF RowsInv
  <2>1. w[i] = NoWard /\ wardDb[i] = NoRow BY DEF Init
  <2> QED BY <2>1 DEF NoWard, NoRow, RowOf
<1>2. ShardInv /\ RowsInv => RowsCatchUp
  <2> SUFFICES ASSUME ShardInv, RowsInv, rc = 0, game.cycles > 2, NEW i \in Ward
               PROVE  /\ wardDb[i].issued = w[i].issued
                      /\ wardDb[i].treasury = w[i].treasury
                      /\ wardDb[i].retired = w[i].retired
    BY DEF RowsCatchUp
  <2>1. pc = "over" BY DEF ShardInv, Control
  <2>2. Going BY DEF Going
  <2>3. wardDb[i] = RowOf(w[i]) BY <2>1, <2>2 DEF RowsInv
  <2> QED BY <2>3 DEF RowOf
<1>3. ShardInv /\ RowsInv /\ [Next]_vars => RowsInv' BY RowsStep
<1> QED BY <1>1, <1>2, <1>3, ShardInvHolds, PTL DEF Spec
-------------------------------------------------------------------------------
(* Whose database is whose.                                                 *)

\* The Sparks of a ward are told apart by where they stand: the founded and the arrived
\* carry the ward's number and their place, and the first ward's Sparks move up by one when
\* its first has left.  The arrival that takes the last place there is then given the id of
\* the Spark before it (queen.c 714-716): that one's handle is lost.
Moved == nwards > 1 /\ c > game.cycles \div 2
IdAt(i, k, moved) ==
  IF moved /\ i = 0 THEN (IF k < SPARKS_PER_WARD THEN k ELSE SPARKS_PER_WARD - 1)
                    ELSE i * SPARKS_PER_WARD + k - 1
Migrant(s, i, moved) == moved /\ i = 1 /\ s.home = 0 /\ s.id = 0
Native(s, i, k, moved) == s.home = i /\ s.id = IdAt(i, k, moved)
Placed(g, i, moved) ==
  /\ \A k \in 1..Len(g.sparks) : Migrant(g.sparks[k], i, moved) \/ Native(g.sparks[k], i, k, moved)
  /\ \A k, l \in 1..Len(g.sparks) :
       Migrant(g.sparks[k], i, moved) /\ Migrant(g.sparks[l], i, moved) => k = l
  /\ i = 0 => Len(g.sparks) <= SPARKS_PER_WARD

\* The Spark whose database an arrival has opened again.
Lost(g, i, k, moved) ==
  moved /\ i = 0 /\ k = SPARKS_PER_WARD - 1 /\ Len(g.sparks) = SPARKS_PER_WARD

\* A handle that can write and whose database says what it says, and one that cannot.
FileOf(s) == << s.home, s.id >>
Backed(s, d) ==
  /\ s.opened = d[FileOf(s)].opens /\ d[FileOf(s)].purse = s.purse
  /\ d[FileOf(s)].items = s.items /\ d[FileOf(s)].wire = s.wire
Stale(s, d) == s.opened # d[FileOf(s)].opens
Kept(g, i, d, moved) ==
  \A k \in 1..Len(g.sparks) : IF Lost(g, i, k, moved) THEN Stale(g.sparks[k], d)
                                                     ELSE Backed(g.sparks[k], d)

\* The wards of a game, each Spark in its place and each database up to date.
Settled(x, d, moved) ==
  \A i \in Ward : x[i] \in WardRecord /\ Placed(x[i], i, moved) /\ Kept(x[i], i, d, moved)

\* A zone holds two Sparks or more, and its last two are past the board.
LEMMA ZoneIs ==
  /\ SPARKS_PER_WARD \in Nat /\ SPARKS_PER_WARD >= 2
  /\ MOST_ROWS \in Nat /\ MOST_ROWS < SPARKS_PER_WARD - 1
BY ShardConstants, BoardIsShort DEF MOST_ROWS

\* The ward of a product, and places that are numbers.
LEMMA IdAtIs ==
  ASSUME NEW i \in Ward, NEW k \in Nat \ {0}, NEW l \in Nat \ {0}, NEW moved \in BOOLEAN
  PROVE  /\ IdAt(i, k, moved) \in Nat
         /\ moved /\ i = 0 => IdAt(i, k, moved) >= 1
         /\ ~(moved /\ i = 0) /\ IdAt(i, k, moved) = IdAt(i, l, moved) => k = l
<1>1. i \in Nat /\ SPARKS_PER_WARD \in Nat /\ SPARKS_PER_WARD >= 2 BY ZoneIs, RangesAre
<1> DEFINE b == i * SPARKS_PER_WARD
<1>2. b \in Nat BY <1>1
<1> HIDE DEF b
<1>3. IdAt(i, k, moved) = IF moved /\ i = 0
                            THEN (IF k < SPARKS_PER_WARD THEN k ELSE SPARKS_PER_WARD - 1)
                            ELSE b + k - 1
  BY DEF IdAt, b
<1>4. IdAt(i, l, moved) = IF moved /\ i = 0
                            THEN (IF l < SPARKS_PER_WARD THEN l ELSE SPARKS_PER_WARD - 1)
                            ELSE b + l - 1
  BY DEF IdAt, b
<1> QED BY <1>1, <1>2, <1>3, <1>4

\* Two Sparks of a game have one database only when the one is lost to the other.
LEMMA FilesApart ==
  ASSUME NEW x, NEW moved \in BOOLEAN,
         \A i \in Ward : x[i] \in WardRecord /\ Placed(x[i], i, moved),
         NEW i \in Ward, NEW j \in Ward,
         NEW k \in 1..Len(x[i].sparks), NEW l \in 1..Len(x[j].sparks),
         FileOf(x[i].sparks[k]) = FileOf(x[j].sparks[l])
  PROVE  /\ i = j
         /\ k # l => /\ moved /\ i = 0 /\ Len(x[i].sparks) = SPARKS_PER_WARD
                     /\ \/ k = SPARKS_PER_WARD - 1 /\ l = SPARKS_PER_WARD
                        \/ l = SPARKS_PER_WARD - 1 /\ k = SPARKS_PER_WARD
<1> DEFINE s == x[i].sparks[k]
           t == x[j].sparks[l]
           m == Len(x[i].sparks)
           n == Len(x[j].sparks)
<1>1. s.home = t.home /\ s.id = t.id BY DEF FileOf
<1>2. /\ m \in Nat /\ n \in Nat /\ k \in 1..m /\ l \in 1..n
      /\ SPARKS_PER_WARD \in Nat /\ SPARKS_PER_WARD >= 2
  BY SumsAreTyped, ZoneIs
<1>3. Migrant(s, i, moved) \/ Native(s, i, k, moved) BY DEF Placed
<1>4. Migrant(t, j, moved) \/ Native(t, j, l, moved) BY DEF Placed
<1>5. (i = 0 => m <= SPARKS_PER_WARD) /\ (j = 0 => n <= SPARKS_PER_WARD) BY DEF Placed
<1>6. i = j /\ Migrant(s, i, moved) /\ Migrant(t, j, moved) => k = l BY DEF Placed
<1>7. k \in Nat \ {0} /\ l \in Nat \ {0} BY <1>2
<1>8. moved /\ i = 0 => IdAt(i, k, moved) >= 1 BY <1>7, IdAtIs
<1>9. moved /\ j = 0 => IdAt(j, l, moved) >= 1 BY <1>7, IdAtIs
<1>10. ~(moved /\ i = 0) /\ IdAt(i, k, moved) = IdAt(i, l, moved) => k = l BY <1>7, IdAtIs
<1>11. i = j => m = n OBVIOUS
<1> HIDE DEF s, t, m, n
<1>12. CASE Migrant(s, i, moved) /\ Migrant(t, j, moved)
  BY <1>6, <1>12 DEF Migrant
<1>13. CASE Migrant(s, i, moved) /\ Native(t, j, l, moved)
  <2>1. j = 0 /\ moved /\ IdAt(j, l, moved) = 0 BY <1>1, <1>13 DEF Migrant, Native
  <2>2. IdAt(j, l, moved) >= 1 BY <1>9, <2>1, Zenon
  <2>3. 0 >= 1 BY <2>1, <2>2, Zenon
  <2> QED BY <2>3
<1>14. CASE Native(s, i, k, moved) /\ Migrant(t, j, moved)
  <2>1. i = 0 /\ moved /\ IdAt(i, k, moved) = 0 BY <1>1, <1>14 DEF Migrant, Native
  <2>2. IdAt(i, k, moved) >= 1 BY <1>8, <2>1, Zenon
  <2>3. 0 >= 1 BY <2>1, <2>2, Zenon
  <2> QED BY <2>3
<1>15. CASE Native(s, i, k, moved) /\ Native(t, j, l, moved)
  <2>1. i = j /\ IdAt(i, k, moved) = IdAt(i, l, moved) BY <1>1, <1>15 DEF Native
  <2>2. CASE ~(moved /\ i = 0) BY <1>10, <2>1, <2>2
  <2>3. CASE moved /\ i = 0
    <3>1. (IF k < SPARKS_PER_WARD THEN k ELSE SPARKS_PER_WARD - 1)
            = (IF l < SPARKS_PER_WARD THEN l ELSE SPARKS_PER_WARD - 1)
      BY <2>1, <2>3 DEF IdAt
    <3>2. k <= SPARKS_PER_WARD /\ l <= SPARKS_PER_WARD /\ m = n /\ m <= SPARKS_PER_WARD
      BY <1>2, <1>5, <1>11, <2>1, <2>3
    <3>3. k # l => /\ m = SPARKS_PER_WARD
                   /\ \/ k = SPARKS_PER_WARD - 1 /\ l = SPARKS_PER_WARD
                      \/ l = SPARKS_PER_WARD - 1 /\ k = SPARKS_PER_WARD
      BY <1>2, <3>1, <3>2
    <3> QED BY <2>1, <2>3, <3>3 DEF m
  <2> QED BY <2>2, <2>3
<1> QED BY <1>3, <1>4, <1>12, <1>13, <1>14, <1>15

\* What a commit leaves in a database: no fence is raised, a database none of the handles
\* can write stays as it is, and one that a single handle can write is up to date.
LEMMA StoredAt ==
  ASSUME ShardTypeOK, NEW sparks \in Seq(SparkRecord), NEW f \in Ward \X Id
  PROVE  /\ Stored(sparks)[f].opens = db[f].opens
         /\ (\A k \in 1..Len(sparks) : FileOf(sparks[k]) = f => ~MayWrite(sparks[k]))
              => Stored(sparks)[f] = db[f]
         /\ \A k \in 1..Len(sparks) :
              /\ FileOf(sparks[k]) = f /\ MayWrite(sparks[k])
              /\ \A l \in 1..Len(sparks) : FileOf(sparks[l]) = f /\ MayWrite(sparks[l]) => l = k
              => Backed(sparks[k], Stored(sparks))
<1> DEFINE Fits2(s) == FileOf(s) = f /\ MayWrite(s)
           c2 == CHOOSE s \in Range(sparks) : Fits2(s)
           New == [db[f] EXCEPT !.purse = c2.purse, !.items = c2.items, !.wire = c2.wire]
           N == Len(sparks)
<1>1. DOMAIN db = Ward \X Id /\ db[f] \in FileRecord BY DEF ShardTypeOK
<1>2. N \in Nat /\ DOMAIN sparks = 1..N /\ \A k \in 1..N : sparks[k] \in SparkRecord OBVIOUS
<1>3. Stored(sparks)[f] = IF \E k \in 1..N : Fits2(sparks[k]) THEN New ELSE db[f]
  BY <1>1, <1>2 DEF Stored, FileOf
<1>4. /\ New.opens = db[f].opens /\ New.purse = c2.purse /\ New.items = c2.items
      /\ New.wire = c2.wire
  <2> HIDE DEF c2
  <2> QED BY <1>1 DEF FileRecord
<1> HIDE DEF New, N
<1>5. Stored(sparks)[f].opens = db[f].opens
  <2> HIDE DEF Fits2
  <2> QED BY <1>3, <1>4
<1>6. (\A k \in 1..N : ~Fits2(sparks[k])) => Stored(sparks)[f] = db[f]
  <2> HIDE DEF Fits2
  <2> QED BY <1>3
<1>7. ASSUME NEW k \in 1..N, Fits2(sparks[k]), \A l \in 1..N : Fits2(sparks[l]) => l = k
      PROVE  Backed(sparks[k], Stored(sparks))
  <2>1. sparks[k] \in Range(sparks) BY <1>2 DEF Range
  <2>2. c2 \in Range(sparks) /\ Fits2(c2) BY <2>1, <1>7
  <2>3. PICK l \in 1..N : c2 = sparks[l] BY <1>2, <2>2 DEF Range
  <2>4. c2 = sparks[k] BY <1>7, <2>2, <2>3
  <2>5. Stored(sparks)[f] = New
    <3> HIDE DEF Fits2
    <3> QED BY <1>3, <1>7
  <2>6. sparks[k].opened = db[f].opens /\ FileOf(sparks[k]) = f
    BY <1>7 DEF MayWrite, File, FileOf
  <2> HIDE DEF c2, Fits2
  <2> QED BY <1>4, <2>4, <2>5, <2>6 DEF Backed
<1> QED BY <1>5, <1>6, <1>7 DEF N

\* Sparks in their places stay there when only what they hold changes.
LEMMA PlacedAlike ==
  ASSUME NEW g, NEW r, NEW i, NEW moved, SameSparks(g, r)
  PROVE  /\ Placed(g, i, moved) => Placed(r, i, moved)
         /\ \A k \in 1..Len(g.sparks) : FileOf(r.sparks[k]) = FileOf(g.sparks[k])
         /\ \A k : Lost(r, i, k, moved) <=> Lost(g, i, k, moved)
<1>1. /\ Len(r.sparks) = Len(g.sparks)
      /\ \A k \in 1..Len(g.sparks) :
           r.sparks[k].id = g.sparks[k].id /\ r.sparks[k].home = g.sparks[k].home
  BY DEF SameSparks
<1>2. \A k \in 1..Len(g.sparks) :
        /\ Migrant(r.sparks[k], i, moved) <=> Migrant(g.sparks[k], i, moved)
        /\ Native(r.sparks[k], i, k, moved) <=> Native(g.sparks[k], i, k, moved)
  BY <1>1 DEF Migrant, Native
<1>3. Placed(g, i, moved) => Placed(r, i, moved) BY <1>1, <1>2 DEF Placed
<1>4. \A k \in 1..Len(g.sparks) : FileOf(r.sparks[k]) = FileOf(g.sparks[k]) BY <1>1 DEF FileOf
<1>5. \A k : Lost(r, i, k, moved) <=> Lost(g, i, k, moved) BY <1>1 DEF Lost
<1> QED BY <1>3, <1>4, <1>5

\* A database is named by its founding ward and an id of the game.
LEMMA FileIs ==
  ASSUME NEW g \in WardRecord, NEW k \in 1..Len(g.sparks)
  PROVE  FileOf(g.sparks[k]) \in Ward \X Id /\ g.sparks[k] \in SparkRecord
<1>1. g.sparks[k] \in SparkRecord BY SumsAreTyped
<1> QED BY <1>1 DEF SparkRecord, FileOf

\* A committed cycle keeps every database up to date: the ward's own by the commit, the
\* others because no handle of this ward names them, and a lost handle writes nothing.
LEMMA CycledSettles ==
  ASSUME ShardTypeOK, NEW moved \in BOOLEAN, Settled(w, db, moved), turn \in Ward,
         NEW g, CycledInto(w[turn], g)
  PROVE  Settled([w EXCEPT ![turn] = g], Stored(g.sparks), moved)
<1> DEFINE y == [w EXCEPT ![turn] = g]
           e == Stored(g.sparks)
<1>1. g \in WardRecord /\ SameSparks(w[turn], g) BY DEF CycledInto
<1>2. g.sparks \in Seq(SparkRecord)
  <2> DEFINE S == Seq(SparkRecord)
  <2> HIDE DEF S
  <2>1. g.sparks \in S BY <1>1 DEF WardRecord, S
  <2> QED BY <2>1 DEF S
<1>3. y[turn] = g /\ \A i \in Ward : i # turn => y[i] = w[i] BY DEF ShardTypeOK
<1>4. ASSUME NEW i \in Ward
      PROVE  w[i] \in WardRecord /\ Placed(w[i], i, moved) /\ Kept(w[i], i, db, moved)
  BY DEF Settled
<1> HIDE DEF y
<1>5. ASSUME NEW i \in Ward
      PROVE  y[i] \in WardRecord /\ Placed(y[i], i, moved) /\ SameSparks(w[i], y[i])
  <2>1. CASE i = turn BY <1>1, <1>3, <1>4, <2>1, PlacedAlike
  <2>2. CASE i # turn BY <1>3, <1>4, <2>2 DEF SameSparks
  <2> QED BY <2>1, <2>2
<1>6. ASSUME NEW i \in Ward, NEW k \in 1..Len(y[i].sparks)
      PROVE  IF Lost(y[i], i, k, moved) THEN Stale(y[i].sparks[k], e) ELSE Backed(y[i].sparks[k], e)
  <2> DEFINE f == FileOf(y[i].sparks[k])
             s == y[i].sparks[k]
             o == w[i].sparks[k]
  <2>1. f \in Ward \X Id BY <1>5, FileIs
  <2>2. k \in 1..Len(w[i].sparks) /\ s.opened = o.opened /\ FileOf(o) = f
        /\ (Lost(y[i], i, k, moved) <=> Lost(w[i], i, k, moved))
    <3>1. SameSparks(w[i], y[i]) BY <1>5
    <3>2. k \in 1..Len(w[i].sparks) /\ s.opened = o.opened BY <3>1 DEF SameSparks
    <3>3. FileOf(y[i].sparks[k]) = FileOf(w[i].sparks[k]) BY <3>1, <3>2, PlacedAlike
    <3>4. Lost(y[i], i, k, moved) <=> Lost(w[i], i, k, moved) BY <3>1, PlacedAlike
    <3> QED BY <3>2, <3>3, <3>4
  <2>3. IF Lost(w[i], i, k, moved) THEN Stale(o, db) ELSE Backed(o, db)
    BY <1>4, <2>2 DEF Kept
  <2>4. e[f].opens = db[f].opens BY <1>2, <2>1, StoredAt
  <2>5. CASE Lost(y[i], i, k, moved)
    <3>1. Stale(o, db) BY <2>2, <2>3, <2>5
    <3>2. Stale(s, e) BY <2>2, <2>4, <3>1 DEF Stale
    <3> QED BY <2>5, <3>2
  <2>6. CASE ~Lost(y[i], i, k, moved) /\ i = turn
    <3>1. Backed(o, db) BY <2>2, <2>3, <2>6
    <3>2. y[i] = g /\ s = g.sparks[k] /\ k \in 1..Len(g.sparks) BY <1>3, <2>6
    <3>3. MayWrite(s) BY <2>2, <3>1 DEF MayWrite, File, FileOf, Backed
    <3>4. ASSUME NEW l \in 1..Len(g.sparks), FileOf(g.sparks[l]) = f, MayWrite(g.sparks[l])
          PROVE  l = k
      <4>1. ~Lost(y[i], i, l, moved)
        <5> SUFFICES ASSUME Lost(y[i], i, l, moved) PROVE FALSE OBVIOUS
        <5>1. /\ l \in 1..Len(w[i].sparks) /\ g.sparks[l].opened = w[i].sparks[l].opened
              /\ FileOf(w[i].sparks[l]) = FileOf(g.sparks[l])
              /\ Lost(w[i], i, l, moved)
          <6>1. SameSparks(w[i], y[i]) BY <1>5
          <6>2. l \in 1..Len(w[i].sparks) /\ g.sparks[l].opened = w[i].sparks[l].opened
            BY <3>2, <6>1 DEF SameSparks
          <6>3. FileOf(y[i].sparks[l]) = FileOf(w[i].sparks[l]) BY <6>1, <6>2, PlacedAlike
          <6>4. Lost(y[i], i, l, moved) <=> Lost(w[i], i, l, moved) BY <6>1, PlacedAlike
          <6> QED BY <3>2, <6>2, <6>3, <6>4
        <5>2. Stale(w[i].sparks[l], db) BY <1>4, <5>1 DEF Kept
        <5> QED BY <3>4, <5>1, <5>2 DEF Stale, MayWrite, File, FileOf
      <4>2. k # l => /\ moved /\ i = 0 /\ Len(y[i].sparks) = SPARKS_PER_WARD
                     /\ \/ k = SPARKS_PER_WARD - 1 /\ l = SPARKS_PER_WARD
                        \/ l = SPARKS_PER_WARD - 1 /\ k = SPARKS_PER_WARD
        <5>1. l \in 1..Len(y[i].sparks) /\ FileOf(y[i].sparks[k]) = FileOf(y[i].sparks[l])
          BY <3>2, <3>4
        <5> QED BY <1>5, <5>1, FilesApart
      <4> QED BY <2>6, <4>1, <4>2 DEF Lost
    <3>5. FileOf(g.sparks[k]) = f BY <3>2
    <3>6. Backed(g.sparks[k], e) BY <1>2, <2>1, <3>2, <3>3, <3>4, <3>5, StoredAt
    <3> QED BY <2>6, <3>2, <3>6
  <2>7. CASE ~Lost(y[i], i, k, moved) /\ i # turn
    <3>1. Backed(o, db) /\ s = o BY <1>3, <2>2, <2>3, <2>7
    <3>2. ASSUME NEW l \in 1..Len(g.sparks), FileOf(g.sparks[l]) = f PROVE FALSE
      <4>1. l \in 1..Len(y[turn].sparks) /\ FileOf(y[i].sparks[k]) = FileOf(y[turn].sparks[l])
        BY <1>3, <3>2
      <4>2. i = turn BY <1>5, <4>1, FilesApart
      <4> QED BY <2>7, <4>2
    <3>3. e[f] = db[f] BY <1>2, <2>1, <3>2, StoredAt
    <3>4. Backed(s, e) BY <2>2, <3>1, <3>3 DEF Backed
    <3> QED BY <2>7, <3>4
  <2> QED BY <2>5, <2>6, <2>7
<1>7. \A i \in Ward : Kept(y[i], i, e, moved) BY <1>6 DEF Kept
<1> QED BY <1>5, <1>7 DEF Settled, y

\* A Spark that joins a ward in the next place, and the database it opens.
Joins(y, e, j, s, r, moved) ==
  /\ j \in Ward /\ s \in SparkRecord /\ r \in WardRecord
  /\ r.sparks = Append(y[j].sparks, s)
  /\ Native(s, j, Len(y[j].sparks) + 1, moved)
  /\ s.opened = e[FileOf(s)].opens + 1 /\ s.purse = 0 /\ s.items = 0
  /\ j = 0 => Len(y[j].sparks) < SPARKS_PER_WARD
Opened(e, s) ==
  [e EXCEPT ![FileOf(s)] = [opens |-> s.opened, purse |-> 0, items |-> 0, wire |-> s.wire]]

\* It is in its place.
LEMMA JoinPlaces ==
  ASSUME NEW moved \in BOOLEAN, NEW y, NEW e, NEW j, NEW s, NEW r,
         Joins(y, e, j, s, r, moved), y[j] \in WardRecord, Placed(y[j], j, moved)
  PROVE  /\ Placed(r, j, moved)
         /\ Len(y[j].sparks) \in Nat /\ Len(r.sparks) = Len(y[j].sparks) + 1
         /\ r.sparks[Len(y[j].sparks) + 1] = s
         /\ \A k \in 1..Len(y[j].sparks) : r.sparks[k] = y[j].sparks[k]
<1> DEFINE N == Len(y[j].sparks)
<1>1. /\ s \in SparkRecord /\ r.sparks = Append(y[j].sparks, s) /\ Native(s, j, N + 1, moved)
      /\ j = 0 => N < SPARKS_PER_WARD
  BY DEF Joins
<1>2. y[j].sparks \in Seq(SparkRecord)
  <2> DEFINE S == Seq(SparkRecord)
  <2> HIDE DEF S
  <2>1. y[j].sparks \in S BY DEF WardRecord, S
  <2> QED BY <2>1 DEF S
<1>3. /\ N \in Nat /\ Len(r.sparks) = N + 1 /\ r.sparks[N + 1] = s
      /\ \A k \in 1..N : r.sparks[k] = y[j].sparks[k]
  BY <1>1, <1>2
<1>4. /\ \A k \in 1..N : \/ Migrant(y[j].sparks[k], j, moved)
                         \/ Native(y[j].sparks[k], j, k, moved)
      /\ \A k, l \in 1..N : Migrant(y[j].sparks[k], j, moved) /\ Migrant(y[j].sparks[l], j, moved)
                              => k = l
  BY DEF Placed
<1> HIDE DEF N
<1>5. \A k \in 1..(N + 1) : k \in 1..N \/ k = N + 1 BY <1>3
<1>6. ~Migrant(s, j, moved) BY <1>1 DEF Native, Migrant
<1>7. j = 0 => N + 1 <= SPARKS_PER_WARD BY <1>1, <1>3, ZoneIs
<1>8. \A k \in 1..(N + 1) : Migrant(r.sparks[k], j, moved) \/ Native(r.sparks[k], j, k, moved)
  BY <1>1, <1>3, <1>4, <1>5
<1>9. \A k, l \in 1..(N + 1) : Migrant(r.sparks[k], j, moved) /\ Migrant(r.sparks[l], j, moved)
                                 => k = l
  BY <1>3, <1>4, <1>5, <1>6
<1>10. Placed(r, j, moved) BY <1>3, <1>7, <1>8, <1>9 DEF Placed
<1> QED BY <1>3, <1>10 DEF N

\* The arrival's database is its own, or that of the Spark before it in the first ward, whose
\* handle is lost by it; every other database stays as it is.
LEMMA JoinSettles ==
  ASSUME NEW moved \in BOOLEAN, NEW y \in [Ward -> WardRecord],
         NEW e \in [Ward \X Id -> FileRecord], Settled(y, e, moved),
         NEW j, NEW s, NEW r, Joins(y, e, j, s, r, moved)
  PROVE  Settled([y EXCEPT ![j] = r], Opened(e, s), moved)
<1> DEFINE N == Len(y[j].sparks)
           z == [y EXCEPT ![j] = r]
           d == Opened(e, s)
           f == FileOf(s)
<1>1. /\ j \in Ward /\ s \in SparkRecord /\ r \in WardRecord
      /\ Native(s, j, N + 1, moved)
      /\ s.opened = e[f].opens + 1 /\ s.purse = 0 /\ s.items = 0
      /\ j = 0 => N < SPARKS_PER_WARD
  BY DEF Joins
<1>2. ASSUME NEW i \in Ward
      PROVE  y[i] \in WardRecord /\ Placed(y[i], i, moved) /\ Kept(y[i], i, e, moved)
  BY DEF Settled
<1>3. /\ Placed(r, j, moved) /\ N \in Nat /\ Len(r.sparks) = N + 1 /\ r.sparks[N + 1] = s
      /\ \A k \in 1..N : r.sparks[k] = y[j].sparks[k]
  BY <1>1, <1>2, JoinPlaces
<1>4. z[j] = r /\ \A i \in Ward : i # j => z[i] = y[i] BY <1>1
<1>5. f \in Ward \X Id BY <1>1 DEF FileOf, SparkRecord
<1>6. e[f].opens \in Nat /\ s.opened # e[f].opens BY <1>1, <1>5 DEF FileRecord
<1>7. /\ d[f] = [opens |-> s.opened, purse |-> 0, items |-> 0, wire |-> s.wire]
      /\ \A h \in Ward \X Id : h # f => d[h] = e[h]
  BY <1>5 DEF Opened
<1> HIDE DEF z, d, N
<1>8. ASSUME NEW i \in Ward PROVE z[i] \in WardRecord /\ Placed(z[i], i, moved)
  BY <1>1, <1>2, <1>3, <1>4
<1>9. ASSUME NEW i \in Ward, NEW k \in 1..Len(z[i].sparks)
      PROVE  IF Lost(z[i], i, k, moved) THEN Stale(z[i].sparks[k], d) ELSE Backed(z[i].sparks[k], d)
  <2> DEFINE t == z[i].sparks[k]
  <2>1. CASE i = j /\ k = N + 1
    <3>1. z[i] = r /\ t = s BY <1>3, <1>4, <2>1
    <3>2. ~Lost(z[i], i, k, moved) BY <1>3, <2>1, <3>1, ZoneIs DEF Lost
    <3>3. Backed(s, d) BY <1>1, <1>7 DEF Backed
    <3> QED BY <3>1, <3>2, <3>3
  <2>2. CASE ~(i = j /\ k = N + 1)
    <3>1. t = y[i].sparks[k] /\ k \in 1..Len(y[i].sparks)
      <4>1. CASE i # j BY <1>4, <4>1
      <4>2. CASE i = j
        <5>1. k \in 1..(N + 1) /\ k # N + 1 /\ z[i] = r BY <1>3, <1>4, <2>2, <4>2
        <5>2. k \in 1..N BY <1>3, <5>1
        <5> QED BY <1>3, <4>2, <5>1, <5>2 DEF N
      <4> QED BY <4>1, <4>2
    <3>2. FileOf(t) \in Ward \X Id BY <1>8, FileIs
    <3>3. IF Lost(y[i], i, k, moved) THEN Stale(t, e) ELSE Backed(t, e)
      BY <1>2, <3>1 DEF Kept
    <3>4. i = j => ~Lost(y[i], i, k, moved)
      <4>1. i = j /\ Lost(y[i], i, k, moved) => N = SPARKS_PER_WARD /\ j = 0 BY DEF Lost, N
      <4> QED BY <1>1, <1>3, <4>1, ZoneIs
    <3> HIDE DEF t
    <3>5. CASE FileOf(t) = f
      <4>1. N + 1 \in 1..Len(z[j].sparks) /\ z[j].sparks[N + 1] = s BY <1>3, <1>4
      <4>2. FileOf(z[i].sparks[k]) = FileOf(z[j].sparks[N + 1]) BY <3>5, <4>1 DEF t
      <4>3. /\ i = j
            /\ k # N + 1 => /\ moved /\ i = 0 /\ Len(z[i].sparks) = SPARKS_PER_WARD
                            /\ \/ k = SPARKS_PER_WARD - 1 /\ N + 1 = SPARKS_PER_WARD
                               \/ N + 1 = SPARKS_PER_WARD - 1 /\ k = SPARKS_PER_WARD
        BY <1>1, <1>8, <4>1, <4>2, FilesApart
      <4>4. moved /\ i = 0 /\ Len(z[i].sparks) = SPARKS_PER_WARD /\ N + 1 = SPARKS_PER_WARD
            /\ k = SPARKS_PER_WARD - 1
        BY <1>3, <1>4, <2>2, <4>3, ZoneIs
      <4>5. Lost(z[i], i, k, moved) BY <4>4 DEF Lost
      <4>6. Backed(t, e) BY <3>3, <3>4, <4>3
      <4>7. Stale(t, d) BY <1>6, <1>7, <3>5, <4>6 DEF Stale, Backed
      <4> QED BY <4>5, <4>7 DEF t
    <3>6. CASE FileOf(t) # f
      <4>1. d[FileOf(t)] = e[FileOf(t)] BY <1>7, <3>2, <3>6
      <4>2. Lost(z[i], i, k, moved) <=> Lost(y[i], i, k, moved)
        <5>1. CASE i # j BY <1>4, <5>1
        <5>2. CASE i = j
          <6> SUFFICES ASSUME Lost(z[i], i, k, moved) PROVE FALSE BY <3>4, <5>2
          <6>1. moved /\ i = 0 /\ k = SPARKS_PER_WARD - 1 /\ N + 1 = SPARKS_PER_WARD
            BY <1>3, <1>4, <5>2 DEF Lost
          <6>2. s.home = 0 /\ s.id = SPARKS_PER_WARD - 1
            <7>1. s.home = 0 /\ s.id = IdAt(0, SPARKS_PER_WARD, moved)
              BY <1>1, <5>2, <6>1 DEF Native
            <7>2. IdAt(0, SPARKS_PER_WARD, moved) = SPARKS_PER_WARD - 1 BY <6>1, ZoneIs DEF IdAt
            <7> QED BY <7>1, <7>2
          <6>3. t.home = 0 /\ t.id = SPARKS_PER_WARD - 1
            <7>1. Migrant(t, i, moved) \/ Native(t, i, k, moved) BY <1>8 DEF Placed, t
            <7>2. Native(t, 0, k, moved)
              <8>1. ~Migrant(t, i, moved) BY <6>1 DEF Migrant
              <8> QED BY <6>1, <7>1, <8>1
            <7>3. IdAt(0, k, moved) = k
              <8>1. k < SPARKS_PER_WARD BY <6>1, ZoneIs
              <8> QED BY <6>1, <8>1 DEF IdAt
            <7> QED BY <6>1, <7>2, <7>3 DEF Native
          <6> QED BY <3>6, <6>2, <6>3 DEF FileOf
        <5> QED BY <5>1, <5>2
      <4>3. CASE Lost(y[i], i, k, moved)
        <5>1. Stale(t, d) BY <3>3, <4>1, <4>3 DEF Stale
        <5> QED BY <4>2, <4>3, <5>1 DEF t
      <4>4. CASE ~Lost(y[i], i, k, moved)
        <5>1. Backed(t, d) BY <3>3, <4>1, <4>4 DEF Backed
        <5> QED BY <4>2, <4>4, <5>1 DEF t
      <4> QED BY <4>3, <4>4
    <3> QED BY <3>5, <3>6
  <2> QED BY <2>1, <2>2
<1>10. \A i \in Ward : Kept(z[i], i, d, moved) BY <1>9 DEF Kept
<1> QED BY <1>8, <1>10 DEF Settled, z, d

\* The Sparks of the ward founded at this turn: the first ward is full when it is not alone.
LEMMA NewSparksAre ==
  ASSUME ShardTypeOK, Control, pc = "found"
  PROVE  LET base == turn * SPARKS_PER_WARD
             take == Min({SPARKS_PER_WARD, game.nsparks - base})
         IN  /\ turn \in Ward /\ base \in Nat /\ take \in 1..SPARKS_PER_WARD
             /\ NewWard.board = 0 /\ Len(NewWard.sparks) = take
             /\ \A k \in 1..take : /\ NewWard.sparks[k] = NewSpark(turn, base + k - 1)
                                   /\ base + k - 1 \in Id
             /\ turn = 0 /\ nwards > 1 => take = SPARKS_PER_WARD
<1> DEFINE base == turn * SPARKS_PER_WARD
           take == Min({SPARKS_PER_WARD, game.nsparks - base})
           z == [k \in 1..take |-> NewSpark(turn, base + k - 1)]
           r == NewWard
<1>1. /\ turn \in Ward /\ base \in Nat /\ base \div SPARKS_PER_WARD = turn
      /\ take \in 1..SPARKS_PER_WARD /\ \A k \in 1..take : base + k - 1 \in Id
  BY FoundingIs
<1>2. r = [NoWard EXCEPT !.ward_no = turn, !.treasury = START_TREASURY,
                         !.issued = START_TREASURY, !.sparks = z]
  BY <1>1 DEF NewWard
<1>3. take \in Nat BY <1>1, ShardConstants
<1>4. turn = 0 /\ nwards > 1 => take = SPARKS_PER_WARD
  <2> SUFFICES ASSUME turn = 0, nwards > 1 PROVE take = SPARKS_PER_WARD OBVIOUS
  <2> DEFINE s == SPARKS_PER_WARD
             n == game.nsparks
             q == (n + s - 1) \div s
  <2>1. s \in Nat \ {0} /\ n \in Nat BY ShardConstants DEF ShardTypeOK
  <2>2. q > 1 BY DEF nwards
  <2>3. n - base = n
    <3>1. base = 0 BY <2>1
    <3> QED BY <2>1, <3>1
  <2>4. take = Min({s, n}) BY <2>3
  <2> HIDE DEF take, base
  <2>5. n + s - 1 \in Nat BY <2>1
  <2>6. q \in Nat /\ s * q <= n + s - 1
    <3> HIDE DEF s, n
    <3> QED BY <2>1, <2>5, QuotientIs
  <2> HIDE DEF q
  <2>7. 2 * s <= s * q
    <3> HIDE DEF s
    <3> QED BY <2>1, <2>2, <2>6, SMT
  <2>8. s <= n
    <3> DEFINE p == s * q
    <3>1. p \in Int BY <2>1, <2>6
    <3> HIDE DEF s, n, p
    <3> QED BY <2>1, <2>6, <2>7, <3>1 DEF p
  <2>9. Min({s, n}) = s
    <3> HIDE DEF s, n
    <3> QED BY <2>1, <2>8, SmallerOfTwo
  <2> QED BY <2>4, <2>9
<1> HIDE DEF base, take, z, r
<1>5. r = [ward_no |-> turn, cycle |-> 0, treasury |-> START_TREASURY,
           issued |-> START_TREASURY, found |-> 0, retired |-> 0,
           spent |-> 0, built |-> {}, board |-> 0, sparks |-> z]
  BY <1>2 DEF NoWard
<1>6. r.board = 0 /\ r.sparks = z BY <1>5
<1>7. Len(z) = take /\ \A k \in 1..take : z[k] = NewSpark(turn, base + k - 1)
  BY <1>3 DEF z
<1> QED BY <1>1, <1>4, <1>6, <1>7 DEF base, take, r

\* What joining Sparks leaves in a database.
LEMMA JoiningAt ==
  ASSUME ShardTypeOK, NEW no \in Ward, NEW ids, NEW i \in Ward, NEW n \in Id
  PROVE  /\ i = no /\ n \in ids =>
              Joining(no, ids)[<< i, n >>] =
                [opens |-> db[<< i, n >>].opens + 1, purse |-> 0, items |-> 0,
                 wire |-> SparkWire(no, n)]
         /\ ~(i = no /\ n \in ids) => Joining(no, ids)[<< i, n >>] = db[<< i, n >>]
<1> DEFINE f == << i, n >>
<1>1. f \in Ward \X Id /\ DOMAIN db = Ward \X Id BY DEF ShardTypeOK
<1>2. Joining(no, ids)[f] =
        IF f[1] = no /\ f[2] \in ids
          THEN [opens |-> db[f].opens + 1, purse |-> 0, items |-> 0, wire |-> SparkWire(no, f[2])]
          ELSE db[f]
  <2> HIDE DEF f
  <2> QED BY <1>1 DEF Joining
<1> QED BY <1>2

\* Founding opens the databases of the new ward alone.
LEMMA FoundSettles ==
  ASSUME ShardTypeOK, Control, pc = "found", Settled(w, db, FALSE)
  PROVE  LET base == turn * SPARKS_PER_WARD
             take == Min({SPARKS_PER_WARD, game.nsparks - base})
         IN  Settled([w EXCEPT ![turn] = NewWard], Joining(turn, base..(base + take - 1)), FALSE)
<1> DEFINE base == turn * SPARKS_PER_WARD
           take == Min({SPARKS_PER_WARD, game.nsparks - base})
           z == [w EXCEPT ![turn] = NewWard]
           ids == base..(base + take - 1)
           d == Joining(turn, ids)
<1>1. /\ turn \in Ward /\ base \in Nat /\ take \in 1..SPARKS_PER_WARD
      /\ Len(NewWard.sparks) = take
      /\ \A k \in 1..take : /\ NewWard.sparks[k] = NewSpark(turn, base + k - 1)
                            /\ base + k - 1 \in Id
  BY NewSparksAre
<1>2. NewWard \in WardRecord BY NewWardIs
<1>3. z[turn] = NewWard /\ \A i \in Ward : i # turn => z[i] = w[i]
  <2> HIDE DEF NewWard
  <2> QED BY <1>1 DEF ShardTypeOK
<1>4. take \in Nat /\ take <= SPARKS_PER_WARD BY <1>1, ZoneIs
<1>5. base = turn * SPARKS_PER_WARD OBVIOUS
<1> HIDE DEF base, take, z, ids, d, NewWard
<1>6. ASSUME NEW i \in Ward
      PROVE  w[i] \in WardRecord /\ Placed(w[i], i, FALSE) /\ Kept(w[i], i, db, FALSE)
  BY DEF Settled
<1>7. ASSUME NEW k \in 1..take
      PROVE  Native(NewWard.sparks[k], turn, k, FALSE) /\ Backed(NewWard.sparks[k], d)
  <2> DEFINE id == base + k - 1
             f == << turn, id >>
             s == NewSpark(turn, id)
  <2>1. id \in Id /\ NewWard.sparks[k] = s BY <1>1
  <2>2. id \in ids BY <1>1, <1>4 DEF ids
  <2>3. id = IdAt(turn, k, FALSE) BY <1>5 DEF IdAt
  <2> HIDE DEF id, s
  <2>4. /\ s.id = id /\ s.home = turn /\ s.purse = 0 /\ s.items = 0
        /\ s.wire = SparkWire(turn, id) /\ s.opened = db[f].opens + 1
    BY <1>1, <2>1, NewSparkIs DEF s
  <2>6. d[f] = [opens |-> db[f].opens + 1, purse |-> 0, items |-> 0, wire |-> SparkWire(turn, id)]
    BY <1>1, <2>1, <2>2, JoiningAt DEF d
  <2> HIDE DEF f
  <2>7. FileOf(s) = f BY <2>4 DEF FileOf, f
  <2>8. Native(s, turn, k, FALSE) BY <2>3, <2>4 DEF Native
  <2>9. Backed(s, d)
    <3>1. /\ d[f].opens = db[f].opens + 1 /\ d[f].purse = 0 /\ d[f].items = 0
          /\ d[f].wire = SparkWire(turn, id)
      BY <2>6
    <3> QED BY <2>4, <2>7, <3>1 DEF Backed
  <2> QED BY <2>1, <2>8, <2>9
<1>8. ASSUME NEW i \in Ward PROVE z[i] \in WardRecord /\ Placed(z[i], i, FALSE)
  <2>1. CASE i # turn BY <1>3, <1>6, <2>1
  <2>2. CASE i = turn
    <3>1. Placed(NewWard, turn, FALSE) BY <1>1, <1>4, <1>7 DEF Placed, Migrant
    <3> QED BY <1>2, <1>3, <2>2, <3>1
  <2> QED BY <2>1, <2>2
<1>9. ASSUME NEW i \in Ward, NEW k \in 1..Len(z[i].sparks)
      PROVE  ~Lost(z[i], i, k, FALSE) /\ Backed(z[i].sparks[k], d)
  <2>1. ~Lost(z[i], i, k, FALSE) BY DEF Lost
  <2>2. CASE i = turn BY <1>1, <1>3, <1>7, <2>1, <2>2
  <2>3. CASE i # turn
    <3> DEFINE s == w[i].sparks[k]
    <3>1. z[i] = w[i] /\ k \in 1..Len(w[i].sparks) BY <1>3, <2>3
    <3>2. Backed(s, db)
      <4>1. ~Lost(w[i], i, k, FALSE) BY DEF Lost
      <4> QED BY <1>6, <3>1, <4>1 DEF Kept
    <3>3. s.home = i
      <4>1. Migrant(s, i, FALSE) \/ Native(s, i, k, FALSE) BY <1>6, <3>1 DEF Placed
      <4> QED BY <4>1 DEF Migrant, Native
    <3>4. s.id \in Id
      <4>1. w[i] \in WardRecord BY <1>6
      <4>2. s \in SparkRecord BY <3>1, <4>1, FileIs
      <4> QED BY <4>2 DEF SparkRecord
    <3> HIDE DEF s
    <3>5. d[<< i, s.id >>] = db[<< i, s.id >>]
      <4> DEFINE n == s.id
      <4> HIDE DEF n
      <4>1. n \in Id /\ turn \in Ward BY <1>1, <3>4 DEF n
      <4>2. ~(i = turn /\ n \in ids) => Joining(turn, ids)[<< i, n >>] = db[<< i, n >>]
        BY <4>1, JoiningAt
      <4>3. Joining(turn, ids)[<< i, n >>] = db[<< i, n >>] BY <2>3, <4>2
      <4> QED BY <4>3 DEF d, n
    <3>6. FileOf(s) = << i, s.id >> BY <3>3 DEF FileOf
    <3>7. d[FileOf(s)] = db[FileOf(s)] BY <3>5, <3>6
    <3>8. Backed(s, d) BY <3>2, <3>7 DEF Backed
    <3> QED BY <2>1, <3>1, <3>8 DEF s
  <2> QED BY <2>2, <2>3
<1>10. \A i \in Ward : Kept(z[i], i, d, FALSE) BY <1>9 DEF Kept
<1>11. Settled(z, d, FALSE) BY <1>8, <1>10 DEF Settled
<1> QED BY <1>11 DEF z, d, ids, base, take

\* A Spark that stays where it is keeps its place when the migration is over.
LEMMA StaysNative ==
  ASSUME NEW i \in Ward, i # 0, NEW k, NEW s
  PROVE  Native(s, i, k, FALSE) => Native(s, i, k, TRUE)
BY DEF Native, IdAt

\* The migration renames its Spark in its database, and the first ward's Sparks move up.
LEMMA MigrateSettles ==
  ASSUME ShardInv, pc = "migrate", Settled(w, db, FALSE), Len(w[0].sparks) = SPARKS_PER_WARD
  PROVE  LET s  == Head(w[0].sparks)
             m  == Renamed(s, w[1])
             w2 == [BooksMoved(s) EXCEPT ![0].sparks = Tail(@), ![1].sparks = Append(@, m)]
         IN  Settled(w2, [db EXCEPT ![<< s.home, s.id >>].wire = m.wire], TRUE)
<1> DEFINE s  == Head(w[0].sparks)
           m  == Renamed(s, w[1])
           w2 == [BooksMoved(s) EXCEPT ![0].sparks = Tail(@), ![1].sparks = Append(@, m)]
           f  == << s.home, s.id >>
           d  == [db EXCEPT ![f].wire = m.wire]
           N  == Len(w[1].sparks)
<1>1. /\ s \in SparkRecord /\ m \in SparkRecord
      /\ s = w[0].sparks[1] /\ m.home = s.home /\ m.id = s.id /\ m.opened = s.opened
      /\ m.purse = s.purse /\ m.items = s.items
      /\ w2 \in [Ward -> WardRecord]
      /\ LeftBy(w[0], w2[0]) /\ ReachedBy(w[1], w2[1], m)
  BY MigratedIs
<1>2. \A i \in Ward : i > 1 => w2[i] = w[i] BY MigratedIs
<1>3. 0 \in Ward /\ 1 \in Ward BY MigratingIs
<1> HIDE DEF s, m, w2
<1>4. SPARKS_PER_WARD \in Nat /\ SPARKS_PER_WARD >= 2 BY ZoneIs
<1>5. ASSUME NEW i \in Ward
      PROVE  w[i] \in WardRecord /\ Placed(w[i], i, FALSE) /\ Kept(w[i], i, db, FALSE)
  BY DEF Settled
<1>6. ASSUME NEW i \in Ward, NEW k \in 1..Len(w[i].sparks)
      PROVE  /\ Native(w[i].sparks[k], i, k, FALSE) /\ Backed(w[i].sparks[k], db)
             /\ FileOf(w[i].sparks[k]) \in Ward \X Id
  <2>1. Native(w[i].sparks[k], i, k, FALSE) BY <1>5 DEF Placed, Migrant
  <2>2. Backed(w[i].sparks[k], db)
    <3>1. ~Lost(w[i], i, k, FALSE) BY DEF Lost
    <3> QED BY <1>5, <3>1 DEF Kept
  <2>3. FileOf(w[i].sparks[k]) \in Ward \X Id
    <3>1. w[i] \in WardRecord BY <1>5
    <3> QED BY <3>1, FileIs
  <2> QED BY <2>1, <2>2, <2>3
<1>7. N \in Nat
  <2>1. w[1] \in WardRecord BY <1>3, <1>5
  <2> QED BY <2>1, SumsAreTyped
<1>8. 1 \in 1..Len(w[0].sparks) BY <1>4
<1>9. f = FileOf(s) /\ f \in Ward \X Id BY <1>1, <1>3, <1>6, <1>8 DEF FileOf
<1>10. s.home = 0 /\ s.id = 0
  <2>1. Native(s, 0, 1, FALSE) BY <1>1, <1>3, <1>6, <1>8
  <2>2. IdAt(0, 1, FALSE) = 0 BY <1>4 DEF IdAt
  <2> QED BY <2>1, <2>2 DEF Native
<1>11. /\ d[f].opens = db[f].opens /\ d[f].purse = db[f].purse /\ d[f].items = db[f].items
       /\ d[f].wire = m.wire
       /\ \A h \in Ward \X Id : h # f => d[h] = db[h]
  <2>1. db[f] \in FileRecord /\ db \in [Ward \X Id -> FileRecord]
    BY <1>9 DEF ShardInv, ShardTypeOK
  <2> HIDE DEF f
  <2>2. d[f] = [db[f] EXCEPT !.wire = m.wire] BY <1>9, <2>1
  <2>3. \A h \in Ward \X Id : h # f => d[h] = db[h] BY <2>1
  <2> HIDE DEF d
  <2> QED BY <2>1, <2>2, <2>3 DEF FileRecord
<1> HIDE DEF f, d
<1>12. ASSUME NEW i \in Ward, NEW k \in 1..Len(w[i].sparks), ~(i = 0 /\ k = 1)
       PROVE  Backed(w[i].sparks[k], d)
  <2>1. FileOf(w[i].sparks[k]) # f
    <3> SUFFICES ASSUME FileOf(w[i].sparks[k]) = f PROVE FALSE OBVIOUS
    <3>1. FileOf(w[i].sparks[k]) = FileOf(w[0].sparks[1]) BY <1>1, <1>9
    <3>2. \A j \in Ward : w[j] \in WardRecord /\ Placed(w[j], j, FALSE) BY <1>5
    <3> DEFINE no == FALSE
    <3>3. no \in BOOLEAN OBVIOUS
    <3>4. i = 0 /\ (k # 1 => no) 
      <4> HIDE DEF no
      <4>1. \A j \in Ward : w[j] \in WardRecord /\ Placed(w[j], j, no) BY <3>2 DEF no
      <4> QED BY <1>3, <1>8, <3>1, <3>3, <4>1, FilesApart
    <3> QED BY <1>12, <3>4
  <2>2. Backed(w[i].sparks[k], db) /\ FileOf(w[i].sparks[k]) \in Ward \X Id BY <1>6
  <2>3. d[FileOf(w[i].sparks[k])] = db[FileOf(w[i].sparks[k])] BY <1>11, <2>1, <2>2
  <2> QED BY <2>2, <2>3 DEF Backed
<1>13. Backed(m, d) /\ Migrant(m, 1, TRUE)
  <2>1. Backed(s, db) BY <1>1, <1>3, <1>6, <1>8
  <2>2. FileOf(m) = f BY <1>1, <1>9 DEF FileOf
  <2>3. Backed(m, d) BY <1>1, <1>9, <1>11, <2>1, <2>2 DEF Backed
  <2>4. Migrant(m, 1, TRUE) BY <1>1, <1>10 DEF Migrant
  <2> QED BY <2>3, <2>4
<1>14. ASSUME NEW i \in Ward, i = 0
       PROVE  /\ Len(w2[i].sparks) = SPARKS_PER_WARD - 1
              /\ \A k \in 1..Len(w2[i].sparks) : /\ Native(w2[i].sparks[k], i, k, TRUE)
                                                 /\ Backed(w2[i].sparks[k], d)
  <2>1. /\ Len(w2[0].sparks) = SPARKS_PER_WARD - 1
        /\ \A k \in 1..(SPARKS_PER_WARD - 1) : w2[0].sparks[k] = w[0].sparks[k+1]
    BY <1>1 DEF LeftBy
  <2> SUFFICES ASSUME NEW k \in 1..(SPARKS_PER_WARD - 1)
               PROVE  Native(w2[0].sparks[k], 0, k, TRUE) /\ Backed(w2[0].sparks[k], d)
    BY <1>14, <2>1
  <2>2. k + 1 \in 1..Len(w[0].sparks) /\ k + 1 # 1 /\ k \in Nat /\ k < SPARKS_PER_WARD BY <1>4
  <2>3. Native(w[0].sparks[k+1], 0, k + 1, FALSE) BY <1>3, <1>6, <2>2
  <2>4. Backed(w[0].sparks[k+1], d) BY <1>3, <1>12, <2>2
  <2>5. IdAt(0, k + 1, FALSE) = k /\ IdAt(0, k, TRUE) = k BY <1>4, <2>2 DEF IdAt
  <2>6. Native(w[0].sparks[k+1], 0, k, TRUE) BY <2>3, <2>5 DEF Native
  <2> QED BY <2>1, <2>4, <2>6
<1>15. ASSUME NEW i \in Ward, i = 1
       PROVE  /\ Len(w2[i].sparks) = N + 1
              /\ \A k \in 1..N : /\ Native(w2[i].sparks[k], i, k, TRUE)
                                 /\ Backed(w2[i].sparks[k], d)
              /\ w2[i].sparks[N + 1] = m
  <2>1. /\ Len(w2[1].sparks) = N + 1 /\ w2[1].sparks[N + 1] = m
        /\ \A k \in 1..N : w2[1].sparks[k] = w[1].sparks[k]
    BY <1>1 DEF ReachedBy
  <2>2. ASSUME NEW k \in 1..N
        PROVE  Native(w[1].sparks[k], 1, k, TRUE) /\ Backed(w[1].sparks[k], d)
    <3>1. Native(w[1].sparks[k], 1, k, FALSE) BY <1>3, <1>6
    <3>2. Native(w[1].sparks[k], 1, k, TRUE)
      <4>1. 1 # 0 OBVIOUS
      <4> QED BY <1>3, <3>1, <4>1, StaysNative
    <3>3. Backed(w[1].sparks[k], d) BY <1>3, <1>12
    <3> QED BY <3>2, <3>3
  <2> QED BY <1>15, <2>1, <2>2
<1>16. ASSUME NEW i \in Ward, i # 0, i # 1
       PROVE  \A k \in 1..Len(w2[i].sparks) : /\ Native(w2[i].sparks[k], i, k, TRUE)
                                              /\ Backed(w2[i].sparks[k], d)
  <2>1. w2[i] = w[i]
    <3>1. i \in Nat BY RangesAre
    <3>2. i > 1 BY <1>16, <3>1
    <3> QED BY <1>2, <3>2
  <2> SUFFICES ASSUME NEW k \in 1..Len(w[i].sparks)
               PROVE  Native(w[i].sparks[k], i, k, TRUE) /\ Backed(w[i].sparks[k], d)
    BY <2>1
  <2>2. Native(w[i].sparks[k], i, k, FALSE) BY <1>6
  <2>3. Native(w[i].sparks[k], i, k, TRUE) BY <1>16, <2>2, StaysNative
  <2>4. Backed(w[i].sparks[k], d) BY <1>12, <1>16
  <2> QED BY <2>3, <2>4
<1>17. ASSUME NEW i \in Ward
       PROVE  w2[i] \in WardRecord /\ Placed(w2[i], i, TRUE) /\ Kept(w2[i], i, d, TRUE)
  <2>0. w2[i] \in WardRecord BY <1>1
  <2>1. CASE i # 1
    <3>1. \A k \in 1..Len(w2[i].sparks) : /\ Native(w2[i].sparks[k], i, k, TRUE)
                                          /\ Backed(w2[i].sparks[k], d)
      BY <1>14, <1>16, <2>1
    <3>2. i = 0 => Len(w2[i].sparks) = SPARKS_PER_WARD - 1 BY <1>14
    <3>3. Placed(w2[i], i, TRUE)
      <4>1. \A k : ~Migrant(w2[i].sparks[k], i, TRUE) BY <2>1 DEF Migrant
      <4>2. i = 0 => Len(w2[i].sparks) <= SPARKS_PER_WARD BY <1>4, <3>2
      <4> QED BY <3>1, <4>1, <4>2 DEF Placed
    <3>4. \A k : ~Lost(w2[i], i, k, TRUE) BY <1>4, <3>2 DEF Lost
    <3>5. Kept(w2[i], i, d, TRUE) BY <3>1, <3>4 DEF Kept
    <3> QED BY <2>0, <3>3, <3>5
  <2>2. CASE i = 1
    <3> DEFINE g == w2[i]
    <3>1. /\ Len(g.sparks) = N + 1 /\ g.sparks[N + 1] = m
          /\ \A k \in 1..N : Native(g.sparks[k], i, k, TRUE) /\ Backed(g.sparks[k], d)
      BY <1>15, <2>2
    <3> HIDE DEF g, N
    <3>2. \A k \in 1..(N + 1) : k \in 1..N \/ k = N + 1 BY <1>7
    <3>3. \A k \in 1..N : ~Migrant(g.sparks[k], i, TRUE)
      <4>1. \A k \in 1..N : g.sparks[k].home = 1 BY <2>2, <3>1 DEF Native
      <4> QED BY <4>1 DEF Migrant
    <3>4. \A k \in 1..(N + 1) : Migrant(g.sparks[k], i, TRUE) \/ Native(g.sparks[k], i, k, TRUE)
      BY <1>13, <2>2, <3>1, <3>2
    <3>5. \A k, l \in 1..(N + 1) : Migrant(g.sparks[k], i, TRUE) /\ Migrant(g.sparks[l], i, TRUE)
                                     => k = l
      BY <3>2, <3>3
    <3>6. Placed(g, i, TRUE)
      <4>1. i # 0 BY <2>2
      <4> QED BY <3>1, <3>4, <3>5, <4>1 DEF Placed
    <3>7. \A k : ~Lost(g, i, k, TRUE) BY <2>2 DEF Lost
    <3>8. \A k \in 1..(N + 1) : Backed(g.sparks[k], d) BY <1>13, <3>1, <3>2
    <3>9. Kept(g, i, d, TRUE) BY <3>1, <3>7, <3>8 DEF Kept
    <3> QED BY <2>0, <3>6, <3>9 DEF g
  <2> QED BY <2>1, <2>2
<1>18. Settled(w2, d, TRUE) BY <1>17 DEF Settled
<1> QED BY <1>18 DEF w2, d, f, m, s

-------------------------------------------------------------------------------
(* The databases of a game.                                                 *)

\* The wards there are by now, while the game goes on.
Stands(i) == pc # "start" /\ (pc = "found" => i < turn) /\ i < nwards

\* The first ward of several: it is full, or one short since the migration, and the Sparks
\* past the board have never worked.
Quiet(g) ==
  \A k \in 1..Len(g.sparks) : k > MOST_ROWS => g.sparks[k].purse = 0 /\ g.sparks[k].items = 0
Full(g, moved) ==
  /\ SPARKS_PER_WARD - 1 <= Len(g.sparks) /\ (~moved => Len(g.sparks) = SPARKS_PER_WARD)
  /\ Quiet(g)

Numbered(g, i) == g.ward_no = i
BoardFits(g)   == g.board <= MOST_ROWS

DbInv ==
  Going =>
    /\ pc # "start" => nwards <= MAX_WARDS
    /\ Settled(w, db, Moved)
    /\ \A i \in Ward : BoardFits(w[i]) /\ (Stands(i) => Numbered(w[i], i))
    /\ nwards > 1 /\ Stands(0) => Full(w[0], Moved)
    /\ rc = 0 => named_apart(w)

\* Whether the migration has been is one thing or the other.
LEMMA MovedIs == Moved \in BOOLEAN /\ (Moved => Moved = TRUE) /\ (~Moved => Moved = FALSE)
BY DEF Moved

\* A step that changes no ward and no database.
LEMMA DbIdle ==
  ASSUME DbInv, UNCHANGED << game, w, db >>, Going' => Going, Going' => (Moved' = Moved),
         Going' /\ pc' # "start" => nwards <= MAX_WARDS,
         \A i \in Ward : Going' /\ Stands(i)' => Stands(i), 0 \in Ward,
         rc' = 0 => named_apart(w)
  PROVE  DbInv'
<1> SUFFICES ASSUME Going'
             PROVE  /\ pc' # "start" => nwards' <= MAX_WARDS
                    /\ Settled(w, db, Moved)'
                    /\ \A i \in Ward : BoardFits(w[i])' /\ (Stands(i)' => Numbered(w[i], i)')
                    /\ nwards' > 1 /\ Stands(0)' => Full(w[0], Moved)'
                    /\ rc' = 0 => named_apart(w)'
  BY DEF DbInv, Ward
<1>1. /\ pc # "start" => nwards <= MAX_WARDS
      /\ Settled(w, db, Moved)
      /\ \A i \in Ward : BoardFits(w[i]) /\ (Stands(i) => Numbered(w[i], i))
      /\ nwards > 1 /\ Stands(0) => Full(w[0], Moved)
  BY DEF DbInv
<1>2. Moved' = Moved /\ w' = w /\ db' = db /\ nwards' = nwards BY DEF nwards
<1>3. Settled(w, db, Moved)' BY <1>1, <1>2 DEF Settled, Placed, Kept, Migrant, Native, Lost, Stale,
                                           Backed, FileOf, IdAt
<1>4. ASSUME NEW i \in Ward PROVE BoardFits(w[i])' /\ (Stands(i)' => Numbered(w[i], i)')
  BY <1>1, <1>2 DEF BoardFits, Numbered
<1>5. nwards' > 1 /\ Stands(0)' => Full(w[0], Moved)'
  <2>1. Full(w[0], Moved)' <=> Full(w[0], Moved) BY <1>2 DEF Full, Quiet
  <2> QED BY <1>1, <1>2, <2>1
<1>6. named_apart(w)' <=> named_apart(w) BY <1>2 DEF named_apart, gather_wires
<1> QED BY <1>2, <1>3, <1>4, <1>5, <1>6

\* What a step has to leave behind.
LEMMA DbNext ==
  ASSUME Going' => /\ pc' # "start" => nwards' <= MAX_WARDS
                   /\ Settled(w', db', Moved')
                   /\ \A i \in Ward : BoardFits(w'[i]) /\ (Stands(i)' => Numbered(w'[i], i))
                   /\ nwards' > 1 /\ Stands(0)' => Full(w'[0], Moved')
                   /\ rc' = 0 => named_apart(w)'
  PROVE  DbInv'
<1>1. Settled(w', db', Moved') => Settled(w, db, Moved)'
  BY DEF Settled, Placed, Kept, Migrant, Native, Lost, Stale, Backed, FileOf, IdAt
<1>2. \A i \in Ward : (BoardFits(w'[i]) <=> BoardFits(w[i])')
                      /\ (Numbered(w'[i], i) <=> Numbered(w[i], i)')
  BY DEF BoardFits, Numbered
<1>3. Full(w'[0], Moved') <=> Full(w[0], Moved)' BY DEF Full, Quiet
<1> QED BY <1>1, <1>2, <1>3 DEF DbInv

\* Founding a ward.
LEMMA DbFound ==
  ASSUME ShardInv, DbInv, Found
  PROVE  DbInv'
<1> DEFINE base == turn * SPARKS_PER_WARD
           take == Min({SPARKS_PER_WARD, game.nsparks - base})
           no   == base \div SPARKS_PER_WARD
           ids  == base..(base + take - 1)
<1>1. ShardTypeOK /\ Control /\ pc = "found" BY DEF ShardInv, Found
<1>2. /\ nwards' = nwards /\ nwards \in Nat /\ game.cycles \in Nat /\ game.cycles \div 2 \in Nat
      /\ game' = game /\ turn \in Nat /\ c = 0 /\ c' = 0 /\ rc' = -1 /\ nwards \in 1..MAX_WARDS
      /\ turn < nwards
  BY <1>1, CountsAre DEF Found, Control
<1>3. no = turn BY <1>1, FoundingIs
<1>4. /\ turn \in Ward /\ take \in 1..SPARKS_PER_WARD
      /\ NewWard.board = 0 /\ Len(NewWard.sparks) = take
      /\ \A k \in 1..take : /\ NewWard.sparks[k] = NewSpark(turn, base + k - 1)
                            /\ base + k - 1 \in Id
      /\ turn = 0 /\ nwards > 1 => take = SPARKS_PER_WARD
  BY <1>1, NewSparksAre
<1>5. ~Moved /\ ~Moved' /\ Moved = FALSE /\ Moved' = FALSE BY <1>2 DEF Moved
<1>6. Going BY <1>1 DEF Going
<1>7. /\ Settled(w, db, FALSE)
      /\ \A i \in Ward : BoardFits(w[i]) /\ (Stands(i) => Numbered(w[i], i))
      /\ nwards > 1 /\ Stands(0) => Full(w[0], FALSE)
  <2>1. Settled(w, db, Moved) /\ (nwards > 1 /\ Stands(0) => Full(w[0], Moved))
    BY <1>6 DEF DbInv
  <2>2. \A i \in Ward : BoardFits(w[i]) /\ (Stands(i) => Numbered(w[i], i)) BY <1>6 DEF DbInv
  <2> QED BY <1>5, <2>1, <2>2
<1>8. w' = [w EXCEPT ![turn] = NewWard] BY DEF Found, NewWard
<1>9. db' = Joining(turn, ids)
  <2>1. db' = Joining(no, ids) BY DEF Found
  <2> HIDE DEF no, ids
  <2> QED BY <1>3, <2>1
<1>10. Settled(w', db', FALSE) BY <1>1, <1>7, <1>8, <1>9, FoundSettles
<1>11. w'[turn] = NewWard /\ \A i \in Ward : i # turn => w'[i] = w[i]
  BY <1>1, <1>4, <1>8 DEF ShardTypeOK
<1>12. NewWard.ward_no = turn BY <1>1, NewWardIs
<1> HIDE DEF base, take, no, ids
<1>13. \A i \in Ward : Stands(i)' => Stands(i) \/ i = turn
  <2>1. \/ turn' = turn + 1 /\ pc' = "found"
        \/ turn + 1 >= nwards
    BY <1>2 DEF Found
  <2>2. \A i \in Ward : i \in Nat BY RangesAre
  <2> QED BY <1>1, <1>2, <2>1, <2>2 DEF Stands
<1>14. \A i \in Ward : BoardFits(w'[i]) /\ (Stands(i)' => Numbered(w'[i], i))
  <2> SUFFICES ASSUME NEW i \in Ward
               PROVE  BoardFits(w'[i]) /\ (Stands(i)' => Numbered(w'[i], i))
    OBVIOUS
  <2>1. CASE i = turn
    <3>1. w'[i] = NewWard BY <1>11, <2>1
    <3>2. BoardFits(NewWard) BY <1>4, ZoneIs DEF BoardFits
    <3>3. Numbered(NewWard, i) BY <1>12, <2>1 DEF Numbered
    <3> QED BY <3>1, <3>2, <3>3
  <2>2. CASE i # turn BY <1>7, <1>11, <1>13, <2>2
  <2> QED BY <2>1, <2>2
<1>15. nwards > 1 /\ Stands(0)' => Full(w'[0], FALSE)
  <2> SUFFICES ASSUME nwards > 1, Stands(0)' PROVE Full(w'[0], FALSE) OBVIOUS
  <2>0. 0 \in Ward BY ShardConstants DEF Ward
  <2>1. CASE turn = 0
    <3>1. take = SPARKS_PER_WARD /\ w'[0] = NewWard BY <1>4, <1>11, <2>1
    <3>2. ASSUME NEW k \in 1..take
          PROVE  NewWard.sparks[k].purse = 0 /\ NewWard.sparks[k].items = 0
      <4> DEFINE id == base + k - 1
      <4>1. id \in Id /\ NewWard.sparks[k] = NewSpark(turn, id) BY <1>4
      <4> HIDE DEF id
      <4>2. NewSpark(turn, id).purse = 0 /\ NewSpark(turn, id).items = 0
        BY <1>1, <1>4, <4>1, NewSparkIs
      <4> QED BY <4>1, <4>2
    <3>3. Quiet(NewWard) BY <1>4, <3>2 DEF Quiet
    <3>4. Len(NewWard.sparks) = SPARKS_PER_WARD BY <1>4, <3>1
    <3>5. Full(NewWard, FALSE) BY <3>3, <3>4, ZoneIs DEF Full
    <3> QED BY <3>1, <3>5
  <2>2. CASE turn # 0
    <3>1. Stands(0) /\ w'[0] = w[0] BY <1>11, <1>13, <2>0, <2>2
    <3> QED BY <1>7, <3>1
  <2> QED BY <2>1, <2>2
<1>16. nwards' <= MAX_WARDS /\ rc' # 0 BY <1>2, ShardConstants
<1> QED BY <1>2, <1>5, <1>10, <1>14, <1>15, <1>16, DbNext

\* The next arrival takes the next place: in the first ward there is none before the
\* migration, and after it there is the one the migrant has left.
LEMMA ArrivalIsNative ==
  ASSUME NEW moved \in BOOLEAN, NEW g \in WardRecord, NEW i \in Ward, g.ward_no = i, Arriving(g),
         moved /\ i = 0 => SPARKS_PER_WARD - 1 <= Len(g.sparks)
  PROVE  ArrivalId(g) = IdAt(i, Len(g.sparks) + 1, moved) /\ ArrivalId(g) \in Id
         /\ Len(g.sparks) < SPARKS_PER_WARD
<1> DEFINE n == Len(g.sparks)
           b == i * SPARKS_PER_WARD
<1>1. ArrivalId(g) \in Id /\ n \in Nat /\ n < SPARKS_PER_WARD BY ArrivalIdIs
<1>2. SPARKS_PER_WARD \in Nat /\ SPARKS_PER_WARD >= 2 /\ i \in Nat BY ZoneIs, RangesAre
<1>3. b \in Nat /\ (i = 0 => b = 0) BY <1>2
<1>4. ArrivalId(g) = b + n BY DEF ArrivalId
<1>5. IdAt(i, n + 1, moved) = IF moved /\ i = 0
                                THEN (IF n + 1 < SPARKS_PER_WARD THEN n + 1 ELSE SPARKS_PER_WARD - 1)
                                ELSE b + (n + 1) - 1
  BY DEF IdAt
<1> HIDE DEF n, b
<1>6. CASE moved /\ i = 0
  <2>1. SPARKS_PER_WARD - 1 <= n BY <1>6 DEF n
  <2>2. n = SPARKS_PER_WARD - 1 BY <1>1, <1>2, <2>1
  <2>3. IdAt(i, n + 1, moved)
          = IF n + 1 < SPARKS_PER_WARD THEN n + 1 ELSE SPARKS_PER_WARD - 1
    BY <1>5, <1>6, Zenon
  <2>4. IdAt(i, n + 1, moved) = n BY <1>2, <2>2, <2>3
  <2>5. b = 0 BY <1>3, <1>6
  <2>6. ArrivalId(g) = n BY <1>1, <1>4, <2>5
  <2> QED BY <1>1, <2>4, <2>6 DEF n
<1>7. CASE ~(moved /\ i = 0)
  <2>1. IdAt(i, n + 1, moved) = b + n BY <1>1, <1>3, <1>5, <1>7
  <2> QED BY <1>1, <1>4, <2>1 DEF n
<1> QED BY <1>6, <1>7

\* An arrival after a committed cycle.
LEMMA ArrivalSettles ==
  ASSUME ShardTypeOK, NEW moved \in BOOLEAN, turn \in Ward, NEW g \in WardRecord, g.ward_no = turn,
         Arriving(g), Settled([w EXCEPT ![turn] = g], Stored(g.sparks), moved),
         moved /\ turn = 0 => SPARKS_PER_WARD - 1 <= Len(g.sparks)
  PROVE  Settled([w EXCEPT ![turn] = Arrived(g)],
                 [Stored(g.sparks) EXCEPT ![<< g.ward_no, ArrivalId(g) >>] =
                    Joining(g.ward_no, {ArrivalId(g)})[<< g.ward_no, ArrivalId(g) >>]], moved)
<1> DEFINE id == ArrivalId(g)
           s == NewSpark(turn, id)
           r == Arrived(g)
           y == [w EXCEPT ![turn] = g]
           e == Stored(g.sparks)
           f == << turn, id >>
<1>1. /\ id = IdAt(turn, Len(g.sparks) + 1, moved) /\ id \in Id
      /\ Len(g.sparks) < SPARKS_PER_WARD
  BY ArrivalIsNative
<1>2. r \in WardRecord /\ r.sparks = Append(g.sparks, s) BY ArrivedWard
<1>3. g.sparks \in Seq(SparkRecord)
  <2> DEFINE S == Seq(SparkRecord)
  <2> HIDE DEF S
  <2>1. g.sparks \in S BY DEF WardRecord, S
  <2> QED BY <2>1 DEF S
<1> HIDE DEF id, s, r
<1>4. /\ s \in SparkRecord /\ s.id = id /\ s.home = turn /\ s.purse = 0 /\ s.items = 0
      /\ s.wire = SparkWire(turn, id) /\ s.opened = db[f].opens + 1
  BY <1>1, NewSparkIs DEF s
<1>5. f \in Ward \X Id /\ FileOf(s) = f BY <1>1, <1>4 DEF FileOf
<1>6. e \in [Ward \X Id -> FileRecord] BY <1>3, StoredIs
<1>7. e[f].opens = db[f].opens
  <2> HIDE DEF f
  <2> QED BY <1>3, <1>5, StoredAt
<1>8. y \in [Ward -> WardRecord] /\ y[turn] = g BY DEF ShardTypeOK
<1> HIDE DEF y, e
<1>9. Joins(y, e, turn, s, r, moved)
  <2>1. Native(s, turn, Len(g.sparks) + 1, moved) BY <1>1, <1>4 DEF Native
  <2> QED BY <1>1, <1>2, <1>4, <1>5, <1>7, <1>8, <2>1 DEF Joins
<1>10. Settled(y, e, moved) BY DEF y, e
<1>11. Settled([y EXCEPT ![turn] = r], Opened(e, s), moved) BY <1>6, <1>8, <1>9, <1>10, JoinSettles
<1>12. [y EXCEPT ![turn] = r] = [w EXCEPT ![turn] = r] BY DEF y, ShardTypeOK
<1>13. Joining(turn, {id})[f] = [opens |-> s.opened, purse |-> 0, items |-> 0, wire |-> s.wire]
  <2>1. id \in {id} OBVIOUS
  <2>2. Joining(turn, {id})[f] = [opens |-> db[f].opens + 1, purse |-> 0, items |-> 0,
                                  wire |-> SparkWire(turn, id)]
    BY <1>1, <2>1, JoiningAt
  <2> QED BY <1>4, <2>2
<1>14. Opened(e, s) = [e EXCEPT ![f] = Joining(turn, {id})[f]] BY <1>5, <1>13 DEF Opened
<1>15. Settled([w EXCEPT ![turn] = r], [e EXCEPT ![f] = Joining(turn, {id})[f]], moved)
  BY <1>11, <1>12, <1>14
<1> QED BY <1>15 DEF r, e, f, id

\* A ward the cycle has changed, as the databases need it.
LEMMA CycledKeeps ==
  ASSUME ShardTypeOK, NEW g, turn \in Ward, w[turn].ward_no = turn, BoardFits(w[turn]),
         CycledInto(w[turn], g),
         NEW r, r = g \/ (Arriving(g) /\ r = Arrived(g))
  PROVE  /\ BoardFits(r)
         /\ \A moved \in BOOLEAN :
              Full(w[turn], moved) /\ (moved \/ r = g) => Full(r, moved)
<1> DEFINE n == Len(g.sparks)
<1>1. /\ g \in WardRecord /\ g.ward_no = turn /\ SameSparks(w[turn], g) /\ SameIdlers(w[turn], g)
  BY DEF CycledInto
<1>2. BoardFits(g) BY <1>1 DEF BoardFits, SameIdlers
<1>3. n = Len(w[turn].sparks) /\ n \in Nat BY <1>1, SumsAreTyped DEF SameSparks
<1>4. Quiet(w[turn]) => Quiet(g) BY <1>1, <1>3 DEF Quiet, SameIdlers
<1>5. CASE r = g
  <2>1. ASSUME NEW moved \in BOOLEAN, Full(w[turn], moved) PROVE Full(g, moved)
    BY <1>3, <1>4, <2>1 DEF Full
  <2> QED BY <1>2, <1>5, <2>1
<1>6. CASE Arriving(g) /\ r = Arrived(g)
  <2> DEFINE id == ArrivalId(g)
             s == NewSpark(turn, id)
  <2>1. /\ r \in WardRecord /\ r.board = g.board /\ r.sparks = Append(g.sparks, s)
        /\ Len(r.sparks) = n + 1
    BY <1>1, <1>6, ArrivedWard
  <2>2. BoardFits(r) BY <1>2, <2>1 DEF BoardFits
  <2>3. id \in Id BY <1>1, <1>6, ArrivalIdIs
  <2> HIDE DEF id
  <2>4. s \in SparkRecord /\ s.purse = 0 /\ s.items = 0 BY <2>3, NewSparkIs
  <2>5. r.sparks[n + 1] = s /\ \A k \in 1..n : r.sparks[k] = g.sparks[k]
    <3>1. g.sparks \in Seq(SparkRecord)
      <4> DEFINE S == Seq(SparkRecord)
      <4> HIDE DEF S
      <4>1. g.sparks \in S BY <1>1 DEF WardRecord, S
      <4> QED BY <4>1 DEF S
    <3> HIDE DEF s
    <3> QED BY <2>1, <2>4, <3>1
  <2> HIDE DEF s
  <2>6. Quiet(g) => Quiet(r)
    <3>1. \A k \in 1..(n + 1) : k \in 1..n \/ k = n + 1 BY <1>3
    <3> QED BY <2>1, <2>4, <2>5, <3>1 DEF Quiet
  <2>7. ASSUME NEW moved \in BOOLEAN, Full(w[turn], moved), moved \/ r = g PROVE Full(r, moved)
    <3>1. SPARKS_PER_WARD - 1 <= n /\ Quiet(r) BY <1>3, <1>4, <2>6, <2>7 DEF Full
    <3>2. SPARKS_PER_WARD - 1 <= Len(r.sparks)
      <4> HIDE DEF n
      <4> QED BY <1>3, <2>1, <3>1, ZoneIs
    <3>3. moved
      <4>1. r # g
        <5>1. n + 1 # n BY <1>3
        <5> QED BY <2>1, <5>1
      <4> QED BY <2>7, <4>1
    <3> QED BY <3>1, <3>2, <3>3 DEF Full
  <2> QED BY <2>2, <2>7
<1> QED BY <1>5, <1>6

\* A cycle of a ward.
LEMMA DbCycle ==
  ASSUME ShardInv, DbInv, Cycle
  PROVE  DbInv'
<1> SUFFICES ASSUME Going' PROVE DbInv' BY DEF DbInv
<1>1. ShardTypeOK /\ Control /\ pc = "play" BY DEF ShardInv, Cycle
<1>2. /\ nwards' = nwards /\ nwards \in Nat /\ game' = game /\ c' = c /\ turn \in Nat
  BY <1>1, CountsAre DEF Cycle
<1>3. pc' = "play" /\ rc' = rc /\ turn' = turn + 1 /\ rc = -1 /\ nwards \in 0..MAX_WARDS
  <2>1. \/ pc' = "over" /\ rc' = 1
        \/ pc' = "play" /\ rc' = rc /\ turn' = turn + 1
    BY CycleStep
  <2> QED BY <1>1, <2>1 DEF Going, Control
<1>4. turn \in Ward /\ turn < nwards BY <1>1, CycleIs
<1>5. PICK g :
           /\ CycledInto(w[turn], g)
           /\ wardDb' = [wardDb EXCEPT ![turn] = RowOf(g)]
           /\ \/ /\ Arriving(g)
                 /\ w' = [w EXCEPT ![turn] = Arrived(g)]
                 /\ db' = [Stored(g.sparks) EXCEPT ![<< g.ward_no, ArrivalId(g) >>] =
                             Joining(g.ward_no, {ArrivalId(g)})[<< g.ward_no, ArrivalId(g) >>]]
              \/ w' = [w EXCEPT ![turn] = g] /\ db' = Stored(g.sparks)
              \/ Arriving(g) /\ ArrivalFails(g)
  BY <1>1, CycleIs, Zenon
<1>6. Going BY <1>1 DEF Going
<1> DEFINE moved == Moved
<1>7. moved \in BOOLEAN /\ Moved' = moved
  <2>1. Moved' = Moved BY <1>2 DEF Moved
  <2> QED BY <2>1, MovedIs
<1>8. /\ Settled(w, db, moved)
      /\ nwards > 1 /\ Stands(0) => Full(w[0], moved)
  BY <1>6 DEF DbInv
<1>9. \A i \in Ward : BoardFits(w[i]) /\ (Stands(i) => Numbered(w[i], i)) BY <1>6 DEF DbInv
<1>10. moved => nwards > 1 BY DEF Moved
<1> HIDE DEF moved
<1>11. \A i \in Ward : (Stands(i)' <=> i < nwards) /\ (Stands(i) <=> i < nwards)
  BY <1>1, <1>2, <1>3 DEF Stands
<1>12. w[turn].ward_no = turn /\ BoardFits(w[turn]) BY <1>4, <1>9, <1>11 DEF Numbered
<1>13. g \in WardRecord /\ g.ward_no = turn /\ Len(g.sparks) = Len(w[turn].sparks)
  BY <1>5, <1>12 DEF CycledInto, SameSparks
<1>14. turn = 0 /\ nwards > 1 => Full(w[turn], moved)
  BY <1>4, <1>8, <1>11
<1>15. Settled([w EXCEPT ![turn] = g], Stored(g.sparks), moved)
  BY <1>1, <1>4, <1>5, <1>7, <1>8, CycledSettles
<1>16. ASSUME Arriving(g), turn = 0, nwards > 1 PROVE moved
  <2>1. Len(g.sparks) < SPARKS_PER_WARD BY <1>16 DEF Arriving
  <2>2. ~moved => Len(g.sparks) = SPARKS_PER_WARD BY <1>13, <1>14, <1>16 DEF Full
  <2>3. ~(SPARKS_PER_WARD < SPARKS_PER_WARD) BY ZoneIs
  <2> QED BY <2>1, <2>2, <2>3
<1>17. PICK r : /\ (r = g \/ (Arriving(g) /\ r = Arrived(g))) /\ w' = [w EXCEPT ![turn] = r]
                /\ Settled(w', db', moved)
  <2>1. CASE w' = [w EXCEPT ![turn] = g] /\ db' = Stored(g.sparks) BY <1>15, <2>1, Zenon
  <2>2. CASE /\ Arriving(g)
             /\ w' = [w EXCEPT ![turn] = Arrived(g)]
             /\ db' = [Stored(g.sparks) EXCEPT ![<< g.ward_no, ArrivalId(g) >>] =
                         Joining(g.ward_no, {ArrivalId(g)})[<< g.ward_no, ArrivalId(g) >>]]
    <3>1. moved /\ turn = 0 => SPARKS_PER_WARD - 1 <= Len(g.sparks)
      BY <1>10, <1>13, <1>14 DEF Full
    <3>2. Settled(w', db', moved)
      BY <1>1, <1>4, <1>7, <1>13, <1>15, <2>2, <3>1, ArrivalSettles
    <3> QED BY <2>2, <3>2, Zenon
  <2>3. ~ArrivalFails(g) BY <1>3 DEF ArrivalFails, Over
  <2> QED BY <1>5, <2>1, <2>2, <2>3, Zenon
<1>18. /\ BoardFits(r)
       /\ \A m \in BOOLEAN : Full(w[turn], m) /\ (m \/ r = g) => Full(r, m)
  BY <1>1, <1>4, <1>5, <1>12, <1>17, CycledKeeps
<1>19. r.ward_no = turn BY <1>1, <1>4, <1>5, <1>17, CycledIs
<1>20. w'[turn] = r /\ \A i \in Ward : i # turn => w'[i] = w[i]
  BY <1>1, <1>4, <1>17 DEF ShardTypeOK
<1>21. \A i \in Ward : BoardFits(w'[i]) /\ (Stands(i)' => Numbered(w'[i], i))
  <2> SUFFICES ASSUME NEW i \in Ward
               PROVE  BoardFits(w'[i]) /\ (Stands(i)' => Numbered(w'[i], i))
    OBVIOUS
  <2>1. CASE i = turn BY <1>18, <1>19, <1>20, <2>1 DEF Numbered
  <2>2. CASE i # turn BY <1>9, <1>11, <1>20, <2>2
  <2> QED BY <2>1, <2>2
<1>22. nwards > 1 => Full(w'[0], moved)
  <2> SUFFICES ASSUME nwards > 1 PROVE Full(w'[0], moved) OBVIOUS
  <2>1. CASE turn = 0
    <3>1. moved \/ r = g BY <1>16, <1>17, <2>1
    <3>2. Full(r, moved) BY <1>7, <1>14, <1>18, <2>1, <3>1
    <3> QED BY <1>20, <2>1, <3>2
  <2>2. CASE turn # 0
    <3>1. 0 \in Ward /\ 0 < nwards BY <1>2, ShardConstants DEF Ward
    <3>2. w'[0] = w[0] /\ Stands(0) BY <1>11, <1>20, <2>2, <3>1
    <3> QED BY <1>8, <3>2
  <2> QED BY <2>1, <2>2
<1>23. nwards' <= MAX_WARDS /\ rc' # 0 BY <1>2, <1>3, ShardConstants
<1> QED BY <1>2, <1>7, <1>17, <1>21, <1>22, <1>23, DbNext

\* The migration.
LEMMA DbMigrate ==
  ASSUME ShardInv, DbInv, Migrate
  PROVE  DbInv'
<1> SUFFICES ASSUME Going' PROVE DbInv' BY DEF DbInv
<1> DEFINE s  == Head(w[0].sparks)
           m  == Renamed(s, w[1])
           w2 == [BooksMoved(s) EXCEPT ![0].sparks = Tail(@), ![1].sparks = Append(@, m)]
<1>1. ShardTypeOK /\ Control /\ pc = "migrate" BY DEF ShardInv, Migrate
<1>2. /\ nwards' = nwards /\ nwards \in Nat /\ game' = game /\ c \in Nat /\ MAX_WARDS \in Nat
      /\ game.cycles \div 2 \in Nat
  BY <1>1, CountsAre DEF Migrate
<1>3. /\ nwards \in 2..MAX_WARDS /\ c = game.cycles \div 2 /\ rc = -1
      /\ pc' \in {"play", "end"} /\ c' = c + 1 /\ rc' = rc
  <2>1. \/ pc' = "over" /\ rc' = 1
        \/ pc' = NextCycle(c) /\ c' = c + 1 /\ rc' = rc
    BY MigrateStep
  <2> QED BY <1>1, <2>1 DEF Going, Control, NextCycle
<1>4. Moved = FALSE /\ Moved' = TRUE BY <1>2, <1>3 DEF Moved
<1>5. Going /\ \A i \in Ward : (Stands(i)' <=> i < nwards) /\ (Stands(i) <=> i < nwards)
  BY <1>1, <1>2, <1>3 DEF Going, Stands
<1>6. 0 \in Ward /\ 1 \in Ward /\ 0 < nwards /\ nwards > 1 BY <1>1, <1>2, <1>3, MigratingIs
<1>7. Settled(w, db, FALSE) /\ Full(w[0], FALSE)
  <2>1. Settled(w, db, Moved) /\ (nwards > 1 /\ Stands(0) => Full(w[0], Moved)) BY <1>5 DEF DbInv
  <2> QED BY <1>4, <1>5, <1>6, <2>1
<1>8. \A i \in Ward : BoardFits(w[i]) /\ (Stands(i) => Numbered(w[i], i)) BY <1>5 DEF DbInv
<1>9. /\ \A i \in Ward : w2[i].ward_no = w[i].ward_no /\ w2[i].board = w[i].board
      /\ LeftBy(w[0], w2[0])
  BY <1>1, MigratedIs
<1>10. w' = w2 /\ db' = [db EXCEPT ![<< s.home, s.id >>].wire = m.wire] BY DEF Migrate
<1>11. Len(w[0].sparks) = SPARKS_PER_WARD /\ Quiet(w[0]) BY <1>7 DEF Full
<1>12. Settled(w', db', TRUE) BY <1>1, <1>7, <1>10, <1>11, MigrateSettles
<1> HIDE DEF s, m, w2
<1>13. \A i \in Ward : BoardFits(w'[i]) /\ (Stands(i)' => Numbered(w'[i], i))
  BY <1>5, <1>8, <1>9, <1>10 DEF BoardFits, Numbered
<1>14. Full(w'[0], TRUE)
  <2>1. /\ Len(w'[0].sparks) = SPARKS_PER_WARD - 1
        /\ \A k \in 1..(SPARKS_PER_WARD - 1) : w'[0].sparks[k] = w[0].sparks[k+1]
    BY <1>9, <1>10, <1>11 DEF LeftBy
  <2>2. SPARKS_PER_WARD - 1 <= Len(w'[0].sparks) BY <2>1, ZoneIs
  <2>3. Quiet(w'[0])
    <3> SUFFICES ASSUME NEW k \in 1..(SPARKS_PER_WARD - 1), k > MOST_ROWS
                 PROVE  w[0].sparks[k+1].purse = 0 /\ w[0].sparks[k+1].items = 0
      BY <2>1 DEF Quiet
    <3>1. k + 1 \in 1..SPARKS_PER_WARD /\ k + 1 > MOST_ROWS BY ZoneIs
    <3> QED BY <1>11, <3>1 DEF Quiet
  <2> QED BY <2>2, <2>3 DEF Full
<1>15. nwards' <= MAX_WARDS /\ rc' # 0 BY <1>2, <1>3
<1> QED BY <1>2, <1>4, <1>12, <1>13, <1>14, <1>15, DbNext

\* What the databases are holds from the start, and every step keeps it.
LEMMA DbInvHolds == Spec => [](ShardInv /\ BooksInv /\ DbInv)
<1>1. Init => DbInv
  <2> SUFFICES ASSUME Init PROVE DbInv OBVIOUS
  <2>1. /\ pc = "start" /\ rc = -1 /\ c = 0 /\ game \in Games /\ w = [i \in Ward |-> NoWard]
    BY DEF Init
  <2>2. NoWard \in WardRecord /\ NoWard.sparks = << >> /\ NoWard.board = 0
    <3> DEFINE S == Seq(SparkRecord)
    <3>1. << >> \in S OBVIOUS
    <3> HIDE DEF S
    <3> QED BY <3>1 DEF NoWard, WardRecord, S
  <2>3. ASSUME NEW i \in Ward
        PROVE  /\ w[i] \in WardRecord /\ Placed(w[i], i, Moved) /\ Kept(w[i], i, db, Moved)
               /\ BoardFits(w[i])
    <3>1. w[i] = NoWard BY <2>1
    <3>2. Len(w[i].sparks) = 0 /\ 1..0 = {} BY <2>2, <3>1
    <3>3. Placed(w[i], i, Moved) BY <3>2, ZoneIs DEF Placed
    <3>4. Kept(w[i], i, db, Moved) BY <3>2 DEF Kept
    <3>5. BoardFits(w[i]) BY <2>2, <3>1, ZoneIs DEF BoardFits
    <3> QED BY <2>2, <3>1, <3>3, <3>4, <3>5
  <2>4. Settled(w, db, Moved) BY <2>3 DEF Settled
  <2>5. \A i : ~Stands(i) BY <2>1 DEF Stands
  <2> QED BY <2>1, <2>3, <2>4, <2>5 DEF DbInv
<1>2. ShardInv /\ DbInv /\ [Next]_vars => DbInv'
  <2> SUFFICES ASSUME ShardInv, DbInv, [Next]_vars PROVE DbInv' OBVIOUS
  <2>0. ShardTypeOK /\ Control BY DEF ShardInv
  <2>1. /\ nwards \in Nat /\ game.cycles \in Nat /\ game.cycles \div 2 \in Nat
        /\ MAX_WARDS \in Nat \ {0} /\ turn \in Nat /\ c \in Nat
        /\ game' = game => nwards' = nwards
    BY <2>0, CountsAre
  <2>2. 0 \in Ward BY <2>1 DEF Ward
  <2>3. \A i \in Ward : i \in Nat BY RangesAre
  <2>4. CASE Start
    <3>1. /\ UNCHANGED << game, w, db >> /\ c' = c /\ turn' = turn /\ turn = 0 /\ rc = -1
          /\ pc = "start"
      BY <2>0, <2>4 DEF Start, Control
    <3>2. \/ pc' = "over" /\ rc' = 2
          \/ pc' = "found" /\ rc' = rc /\ nwards <= MAX_WARDS
          \/ nwards = 0 /\ rc' = rc
      BY <2>1, <2>4 DEF Start, Over
    <3>3. Moved' = Moved BY <2>1, <3>1 DEF Moved
    <3>4. Going /\ (Going' /\ pc' # "start" => nwards <= MAX_WARDS) /\ rc' # 0
      BY <2>1, <3>1, <3>2 DEF Going
    <3>5. \A i \in Ward : Going' /\ Stands(i)' => Stands(i)
      BY <2>1, <2>3, <3>1, <3>2 DEF Stands, Going
    <3> QED BY <2>2, <3>1, <3>3, <3>4, <3>5, DbIdle
  <2>5. CASE FoundFails \/ CycleFails
    <3>1. pc' = "over" /\ rc' = 1 BY <2>5 DEF FoundFails, CycleFails, Over
    <3> QED BY <3>1 DEF DbInv, Going
  <2>6. CASE MigrateFails
    <3>1. ~Going' BY <2>6, MigrateFailsStep
    <3> QED BY <3>1 DEF DbInv
  <2>7. CASE Found BY <2>7, DbFound
  <2>8. CASE Cycle BY <2>8, DbCycle
  <2>9. CASE Migrate BY <2>9, DbMigrate
  <2>10. CASE Across
    <3>1. /\ UNCHANGED << game, w, db >> /\ pc = "play" /\ rc = -1 /\ nwards \in 0..MAX_WARDS
      BY <2>0, <2>10 DEF Across, Control
    <3>2. \/ pc' = "over" /\ rc' = 1 /\ c' = c
          \/ pc' = "migrate" /\ c' = c /\ rc' = rc
          \/ /\ pc' \in {"play", "end"} /\ c' = c + 1 /\ rc' = rc
             /\ ~(nwards > 1 /\ c = game.cycles \div 2)
      BY <2>10 DEF Across, Over, NextCycle, Midpoint
    <3>3. Moved' = Moved BY <2>1, <3>1, <3>2 DEF Moved
    <3>4. Going /\ nwards <= MAX_WARDS /\ rc' # 0 BY <2>1, <3>1, <3>2 DEF Going
    <3>5. \A i \in Ward : Stands(i)' => Stands(i)
      BY <2>1, <3>1, <3>2 DEF Stands
    <3> QED BY <2>2, <3>1, <3>3, <3>4, <3>5, DbIdle
  <2>11. CASE Report
    <3>1. /\ UNCHANGED << game, w, db >> /\ c' = c /\ pc = "end" /\ pc' = "over"
          /\ rc' = 0 => named_apart(w)
      BY <2>11 DEF Report, Over
    <3>2. Going BY <3>1 DEF Going
    <3>3. nwards <= MAX_WARDS BY <3>1, <3>2 DEF DbInv
    <3>4. Moved' = Moved BY <2>1, <3>1 DEF Moved
    <3>5. \A i \in Ward : Stands(i)' => Stands(i) BY <2>1, <3>1 DEF Stands
    <3> QED BY <2>2, <3>1, <3>2, <3>3, <3>4, <3>5, DbIdle
  <2>12. CASE UNCHANGED vars
    <3>1. UNCHANGED << game, w, db, c, pc, turn, rc >> BY <2>12 DEF vars
    <3>2. Moved' = Moved /\ (Going' <=> Going) /\ \A i \in Ward : Stands(i)' <=> Stands(i)
      BY <2>1, <3>1 DEF Moved, Going, Stands
    <3>3. Going /\ pc # "start" => nwards <= MAX_WARDS BY DEF DbInv
    <3>4. rc = 0 => named_apart(w)
      <4>1. rc = 0 => Going BY DEF Going
      <4> QED BY <4>1 DEF DbInv
    <3> QED BY <2>2, <3>1, <3>2, <3>3, <3>4, DbIdle
  <2> QED BY <2>4, <2>5, <2>6, <2>7, <2>8, <2>9, <2>10, <2>11, <2>12 DEF Next
<1> QED BY <1>1, <1>2, ShardInvHolds, PTL DEF Spec

\* The last two places of the first ward, once the arrival has taken the last: one database,
\* and the Sparks of both have never worked.
LEMMA LostIs ==
  ASSUME ShardInv, DbInv, Going, NEW i \in Ward, Moved, i = 0,
         Len(w[i].sparks) = SPARKS_PER_WARD
  PROVE  LET s == w[i].sparks[SPARKS_PER_WARD - 1]
             t == w[i].sparks[SPARKS_PER_WARD]
         IN  /\ FileOf(s) = FileOf(t) /\ Backed(t, db) /\ s.id = t.id
             /\ s.purse = 0 /\ t.purse = 0
             /\ SPARKS_PER_WARD \in 1..SPARKS_PER_WARD
             /\ SPARKS_PER_WARD - 1 \in 1..SPARKS_PER_WARD
<1> DEFINE Z == SPARKS_PER_WARD
           s == w[i].sparks[Z - 1]
           t == w[i].sparks[Z]
           moved == Moved
<1>1. /\ Z \in Nat /\ Z >= 2 /\ MOST_ROWS \in Nat /\ MOST_ROWS < Z - 1
      /\ Z \in 1..Z /\ Z - 1 \in 1..Z
  BY ZoneIs
<1>2. moved \in BOOLEAN /\ moved BY MovedIs
<1>3. /\ Settled(w, db, moved)
      /\ nwards > 1 /\ Stands(0) => Full(w[0], moved)
  BY DEF DbInv
<1>4. nwards > 1 /\ Stands(0)
  <2>1. ShardTypeOK /\ Control BY DEF ShardInv
  <2>2. c \in Nat /\ game.cycles \div 2 \in Nat /\ nwards \in Nat BY <2>1, CountsAre
  <2>3. c > game.cycles \div 2 /\ nwards > 1 BY DEF Moved
  <2>4. pc # "start" /\ pc # "found" BY <2>1, <2>2, <2>3 DEF Control
  <2> QED BY <2>2, <2>3, <2>4 DEF Stands
<1> HIDE DEF moved, Z
<1>5. Placed(w[i], i, moved) /\ Kept(w[i], i, db, moved) BY <1>3 DEF Settled
<1>6. s.purse = 0 /\ t.purse = 0
  <2>1. Quiet(w[i]) BY <1>3, <1>4 DEF Full
  <2>2. Z > MOST_ROWS /\ Z - 1 > MOST_ROWS BY <1>1
  <2>3. Len(w[i].sparks) = Z BY DEF Z
  <2> QED BY <1>1, <2>1, <2>2, <2>3 DEF Quiet
<1>7. Native(s, i, Z - 1, moved) /\ Native(t, i, Z, moved)
  <2>1. ~Migrant(s, i, moved) /\ ~Migrant(t, i, moved) BY DEF Migrant
  <2>2. Len(w[i].sparks) = Z BY DEF Z
  <2> QED BY <1>1, <1>5, <2>1, <2>2 DEF Placed
<1>8. IdAt(i, Z - 1, moved) = Z - 1 /\ IdAt(i, Z, moved) = Z - 1
  <2>1. IdAt(i, Z - 1, moved) = IF Z - 1 < Z THEN Z - 1 ELSE Z - 1 BY <1>2 DEF IdAt, Z
  <2>2. IdAt(i, Z, moved) = IF Z < Z THEN Z ELSE Z - 1 BY <1>2 DEF IdAt, Z
  <2> QED BY <1>1, <2>1, <2>2
<1>9. s.home = t.home /\ s.id = t.id BY <1>7, <1>8 DEF Native
<1>10. Backed(t, db)
  <2>1. ~Lost(w[i], i, Z, moved) BY <1>1 DEF Lost, Z
  <2>2. Len(w[i].sparks) = Z BY DEF Z
  <2> QED BY <1>1, <1>5, <2>1, <2>2 DEF Kept
<1> QED BY <1>1, <1>6, <1>9, <1>10 DEF FileOf, Z

\* What the databases hold is what the wards account for: the database an arrival opens
\* again is that of a Spark which never worked, so what is dropped is nothing.
THEOREM StoreIsConserved == Spec => []StoreConserves
<1>1. ShardInv /\ BooksInv /\ DbInv => StoreConserves
  <2> SUFFICES ASSUME ShardInv, BooksInv, DbInv, Going, NEW i \in Ward
               PROVE  w[i].treasury
                        + MapThenSumSet(LAMBDA f : db[f].purse, {<< s.home, s.id >> : s \in Sparks(i)})
                        + w[i].retired + w[i].spent = w[i].issued
    BY DEF StoreConserves
  <2> DEFINE g == w[i]
             N == Len(g.sparks)
             file == [k \in 1..N |-> FileOf(g.sparks[k])]
             p == [k \in 1..N |-> g.sparks[k].purse]
             moved == Moved
             files == {<< s.home, s.id >> : s \in Sparks(i)}
  <2>1. g \in WardRecord /\ ShardTypeOK BY DEF ShardInv, ShardTypeOK
  <2>2. /\ N \in Nat /\ DOMAIN g.sparks = 1..N
        /\ \A k \in 1..N : g.sparks[k] \in SparkRecord
    BY <2>1, SumsAreTyped
  <2>3. moved \in BOOLEAN /\ Settled(w, db, moved) BY MovedIs DEF DbInv
  <2>4. ASSUME NEW j \in Ward
        PROVE  w[j] \in WardRecord /\ Placed(w[j], j, moved) /\ Kept(w[j], j, db, moved)
    BY <2>3 DEF Settled
  <2>5. ASSUME moved, i = 0, N = SPARKS_PER_WARD
        PROVE  /\ FileOf(g.sparks[N - 1]) = FileOf(g.sparks[N]) /\ Backed(g.sparks[N], db)
               /\ g.sparks[N - 1].purse = 0 /\ g.sparks[N].purse = 0
               /\ N \in 1..N /\ N - 1 \in 1..N
    BY <2>5, LostIs
  <2> HIDE DEF moved
  <2>6. CountsOnce(db, file, p, N)
    <3>1. p \in [1..N -> Int]
      <4>1. \A k \in 1..N : g.sparks[k].purse \in Int BY <2>2 DEF SparkRecord
      <4> QED BY <4>1
    <3>2. ASSUME NEW k \in 1..N PROVE db[file[k]].purse \in Int
      <4>1. FileOf(g.sparks[k]) \in Ward \X Id BY <2>1, FileIs
      <4>2. db[FileOf(g.sparks[k])] \in FileRecord BY <2>1, <4>1 DEF ShardTypeOK
      <4>3. file[k] = FileOf(g.sparks[k]) OBVIOUS
      <4> QED BY <4>2, <4>3 DEF FileRecord
    <3>3. ASSUME NEW k \in 1..N, NEW l \in 1..(k-1), file[l] = file[k] PROVE p[k] = 0
      <4>1. l \in 1..N /\ l # k /\ l < k BY <2>2
      <4>2. FileOf(w[i].sparks[l]) = FileOf(w[i].sparks[k]) BY <3>3, <4>1
      <4>3. /\ moved /\ i = 0 /\ N = SPARKS_PER_WARD
            /\ \/ l = SPARKS_PER_WARD - 1 /\ k = SPARKS_PER_WARD
               \/ k = SPARKS_PER_WARD - 1 /\ l = SPARKS_PER_WARD
        <5>1. \A j \in Ward : w[j] \in WardRecord /\ Placed(w[j], j, moved) BY <2>4
        <5>2. k \in 1..Len(w[i].sparks) /\ l \in 1..Len(w[i].sparks) BY <4>1
        <5> QED BY <2>3, <4>1, <4>2, <5>1, <5>2, FilesApart
      <4>4. k = N BY <4>1, <4>3, ZoneIs
      <4>5. g.sparks[N].purse = 0 BY <2>5, <4>3
      <4> QED BY <4>4, <4>5
    <3>4. ASSUME NEW k \in 1..N PROVE p[k] = db[file[k]].purse
      <4>1. p[k] = g.sparks[k].purse /\ file[k] = FileOf(g.sparks[k]) OBVIOUS
      <4>2. CASE Lost(g, i, k, moved)
        <5>1. moved /\ i = 0 /\ N = SPARKS_PER_WARD /\ k = N - 1 BY <4>2 DEF Lost
        <5>2. /\ FileOf(g.sparks[k]) = FileOf(g.sparks[N]) /\ Backed(g.sparks[N], db)
              /\ g.sparks[k].purse = 0 /\ g.sparks[N].purse = 0
          BY <2>5, <5>1
        <5> QED BY <4>1, <5>2 DEF Backed
      <4>3. CASE ~Lost(g, i, k, moved)
        <5>1. Backed(g.sparks[k], db) BY <2>4, <4>3 DEF Kept
        <5> QED BY <4>1, <5>1 DEF Backed
      <4> QED BY <4>2, <4>3
    <3> HIDE DEF p, file, N
    <3> QED BY <2>2, <3>1, <3>2, <3>3, <3>4 DEF CountsOnce
  <2>7. PurseSum(db, {file[k] : k \in 1..N}) = Total(p, N)
    <3> HIDE DEF p, file, N
    <3> QED BY <2>6, SumIsTotal
  <2>8. {file[k] : k \in 1..N} = files
    <3>1. \A k \in 1..N : file[k] = << g.sparks[k].home, g.sparks[k].id >> BY DEF FileOf
    <3>2. Sparks(i) = {g.sparks[k] : k \in 1..N} BY <2>2 DEF Sparks, Range
    <3> HIDE DEF file, N, g
    <3>3. files = {<< s.home, s.id >> : s \in {g.sparks[k] : k \in 1..N}} BY <3>2
    <3>4. files = {<< g.sparks[k].home, g.sparks[k].id >> : k \in 1..N}
      <4> HIDE DEF files
      <4> QED BY <3>3
    <3> HIDE DEF files
    <3> QED BY <3>1, <3>4
  <2>9. Purses(g) = Total(p, N) BY <2>2 DEF Purses
  <2>10. MapThenSumSet(LAMBDA f : db[f].purse, files) = PurseSum(db, files) BY DEF PurseSum
  <2> DEFINE q == MapThenSumSet(LAMBDA f : db[f].purse, files)
  <2>11. q = Purses(g)
    <3> HIDE DEF q, files, p, file, N, g
    <3>1. q = PurseSum(db, files) BY <2>10 DEF q
    <3> QED BY <2>7, <2>8, <2>9, <3>1
  <2> HIDE DEF q, files, p, file, N
  <2>12. Held(g) \in Int /\ g.issued \in Int BY <2>1, SumsAreTyped DEF WardRecord
  <2>13. Held(g) - g.issued = 0 BY DEF BooksInv, Books
  <2>14. Held(g) = g.issued BY <2>12, <2>13
  <2>15. g.treasury + q + g.retired + g.spent = g.issued BY <2>11, <2>14 DEF Held
  <2> QED BY <2>15 DEF q, files
<1> QED BY <1>1, DbInvHolds, PTL

-------------------------------------------------------------------------------
(* What the report says.                                                    *)

\* The running concatenation of sequences, and one after the other.
FlattensOn(fl, seqs, n) ==
  fl = [i \in 1..n |-> IF i = 1 THEN seqs[i] ELSE fl[i-1] \o seqs[i]]

\* The recursion that flattens has a solution.
LEMMA FlattenExists ==
  ASSUME NEW seqs, NEW N \in Nat
  PROVE  \E fl : FlattensOn(fl, seqs, N)
<1> DEFINE T == {n \in 0..N : \E fl : FlattensOn(fl, seqs, n)}
<1>1. 0 \in T
  <2> DEFINE z == [i \in 1..0 |-> seqs[i]]
  <2>1. FlattensOn(z, seqs, 0) BY DEF FlattensOn
  <2> QED BY <2>1
<1>2. ASSUME NEW n \in 1..N, n - 1 \in T PROVE n \in T
  <2>1. PICK fl : FlattensOn(fl, seqs, n - 1) BY <1>2
  <2> DEFINE gl == [i \in 1..n |-> IF i = 1 THEN seqs[i] ELSE fl[i-1] \o seqs[i]]
  <2>2. ASSUME NEW i \in 1..(n-1) PROVE gl[i] = fl[i]
    <3>1. i \in 1..n OBVIOUS
    <3>2. fl[i] = IF i = 1 THEN seqs[i] ELSE fl[i-1] \o seqs[i] BY <2>1 DEF FlattensOn
    <3> QED BY <3>1, <3>2
  <2>3. ASSUME NEW i \in 1..n PROVE gl[i] = IF i = 1 THEN seqs[i] ELSE gl[i-1] \o seqs[i]
    <3>1. CASE i = 1 BY <3>1
    <3>2. CASE i # 1
      <4>1. i - 1 \in 1..(n-1) BY <3>2
      <4>2. gl[i-1] = fl[i-1] BY <2>2, <4>1
      <4>3. gl[i] = fl[i-1] \o seqs[i] BY <3>2
      <4> QED BY <3>2, <4>2, <4>3
    <3> QED BY <3>1, <3>2
  <2>4. gl = [i \in 1..n |-> gl[i]] OBVIOUS
  <2> HIDE DEF gl
  <2>5. FlattensOn(gl, seqs, n) BY <2>3, <2>4 DEF FlattensOn
  <2> QED BY <2>5
<1>3. \A n \in 0..N : n \in T
  <2> HIDE DEF T
  <2> QED BY <1>1, <1>2, StepByStep
<1>4. N \in T BY <1>3
<1> QED BY <1>4

\* A sequence of sequences, flattened, begins with its first.
LEMMA FlattenBegins ==
  ASSUME NEW S, NEW N \in Nat \ {0}, NEW seqs, Len(seqs) = N, \A i \in 1..N : seqs[i] \in Seq(S)
  PROVE  /\ FlattenSeq(seqs) \in Seq(S) /\ Len(seqs[1]) <= Len(FlattenSeq(seqs))
         /\ \A j \in 1..Len(seqs[1]) : FlattenSeq(seqs)[j] = seqs[1][j]
<1> DEFINE fl == CHOOSE f : FlattensOn(f, seqs, N)
           Begins(s) == /\ s \in Seq(S) /\ Len(seqs[1]) <= Len(s)
                        /\ \A j \in 1..Len(seqs[1]) : s[j] = seqs[1][j]
           T == {n \in 0..N : n # 0 => Begins(fl[n])}
<1>1. FlattenSeq(seqs) = fl[N]
  BY DEF FlattenSeq, FlattensOn
<1>2. FlattensOn(fl, seqs, N) BY FlattenExists
<1> HIDE DEF fl
<1>3. \A i \in 1..N : fl[i] = IF i = 1 THEN seqs[i] ELSE fl[i-1] \o seqs[i]
  BY <1>2 DEF FlattensOn
<1>4. 1 \in 1..N /\ seqs[1] \in Seq(S) /\ Len(seqs[1]) \in Nat OBVIOUS
<1>5. 0 \in T OBVIOUS
<1>6. ASSUME NEW n \in 1..N, n - 1 \in T PROVE n \in T
  <2>1. CASE n = 1
    <3>1. fl[n] = seqs[1] BY <1>3, <2>1
    <3>2. Begins(fl[n]) BY <1>4, <3>1
    <3> HIDE DEF Begins
    <3> QED BY <3>2
  <2>2. CASE n # 1
    <3> DEFINE a == fl[n-1]
               b == seqs[n]
    <3>1. n - 1 # 0 BY <2>2
    <3>2. Begins(a)
      <4> HIDE DEF Begins
      <4> QED BY <1>6, <3>1
    <3>3. fl[n] = a \o b /\ b \in Seq(S) BY <1>3, <2>2
    <3> HIDE DEF a, b
    <3>4. /\ a \o b \in Seq(S) /\ Len(a \o b) = Len(a) + Len(b)
          /\ \A i \in 1..Len(a) + Len(b) : (a \o b)[i] = IF i <= Len(a) THEN a[i] ELSE b[i - Len(a)]
      BY <3>2, <3>3, ConcatProperties
    <3>5. Len(a) \in Nat /\ Len(b) \in Nat BY <3>2, <3>3
    <3>6. Len(seqs[1]) <= Len(a \o b) BY <1>4, <3>2, <3>4, <3>5
    <3>7. ASSUME NEW j \in 1..Len(seqs[1]) PROVE (a \o b)[j] = seqs[1][j]
      <4>1. j \in 1..Len(a) + Len(b) /\ j <= Len(a) BY <1>4, <3>2, <3>5
      <4> QED BY <3>2, <3>4, <4>1
    <3>8. Begins(fl[n]) BY <3>3, <3>4, <3>6, <3>7
    <3> HIDE DEF Begins
    <3> QED BY <3>8
  <2> QED BY <2>1, <2>2
<1>7. \A n \in 0..N : n \in T
  <2> HIDE DEF T
  <2> QED BY <1>5, <1>6, StepByStep
<1>8. Begins(fl[N])
  <2>1. N \in 0..N /\ N # 0 OBVIOUS
  <2>2. N \in T
    <3> HIDE DEF T
    <3> QED BY <1>7, <2>1
  <2> HIDE DEF Begins
  <2> QED BY <2>1, <2>2
<1> QED BY <1>1, <1>8

\* The names of a ward: its venues' come first, then its board's, then its Sparks'.
LEMMA GatherIs ==
  ASSUME NEW g \in WardRecord
  PROVE  LET a == gather_wires(g)
             V == NVENUES
             B == g.board
             N == Len(g.sparks)
         IN  /\ V \in Nat /\ B \in Nat /\ N \in Nat
             /\ a \in Seq(Nat) /\ Len(a) = V + B + N
             /\ \A j \in 1..V : a[j] = VenueWire(g.ward_no, j - 1)
             /\ \A j \in 1..B : a[V + j] = BoardWire(g.ward_no, j)
             /\ \A j \in 1..N : a[V + B + j] = g.sparks[j].wire
<1> DEFINE V == NVENUES
           B == g.board
           N == Len(g.sparks)
           x == [v \in 1..V |-> VenueWire(g.ward_no, v - 1)]
           y == [row \in 1..B |-> BoardWire(g.ward_no, row)]
           z == [k \in 1..N |-> g.sparks[k].wire]
<1>1. V \in Nat /\ B \in Nat /\ g.ward_no \in Nat BY ShardConstants DEF WardRecord
<1>2. /\ N \in Nat /\ DOMAIN g.sparks = 1..N
      /\ \A k \in 1..N : g.sparks[k] \in SparkRecord
  BY SumsAreTyped
<1>3. gather_wires(g) = (x \o y) \o z BY <1>2 DEF gather_wires
<1>4. \A v \in 1..V : VenueWire(g.ward_no, v - 1) \in Nat
  <2>1. \A v \in 1..V : v - 1 \in Nat BY <1>1
  <2>2. \A l \in Nat : wire_id(g.ward_no, 1 + l) \in Nat BY <1>1 DEF wire_id, WIRE_LOCAL_MAX
  <2> QED BY <2>1, <2>2 DEF VenueWire, WIRE_VENUE_BASE
<1>5. \A row \in 1..B : BoardWire(g.ward_no, row) \in Nat
  <2>1. \A v \in 1..B : v \in Nat BY <1>1
  <2>2. \A l \in Nat : wire_id(g.ward_no, 16384 + l) \in Nat BY <1>1 DEF wire_id, WIRE_LOCAL_MAX
  <2> QED BY <2>1, <2>2 DEF BoardWire, WIRE_CONTRACT_BASE
<1>6. \A k \in 1..N : g.sparks[k].wire \in Nat BY <1>2 DEF SparkRecord
<1>7. /\ x \in Seq(Nat) /\ Len(x) = V
      /\ \A v \in 1..V : x[v] = VenueWire(g.ward_no, v - 1)
  BY <1>1, <1>4
<1>8. /\ y \in Seq(Nat) /\ Len(y) = B
      /\ \A v \in 1..B : y[v] = BoardWire(g.ward_no, v)
  BY <1>1, <1>5
<1>9. /\ z \in Seq(Nat) /\ Len(z) = N
      /\ \A v \in 1..N : z[v] = g.sparks[v].wire
  BY <1>2, <1>6
<1> HIDE DEF x, y, z, V, B, N
<1>10. /\ x \o y \in Seq(Nat) /\ Len(x \o y) = V + B
       /\ \A i \in 1..V + B : (x \o y)[i] = IF i <= V THEN x[i] ELSE y[i - V]
  BY <1>7, <1>8, ConcatProperties
<1> DEFINE u == x \o y
<1>11. u \in Seq(Nat) /\ Len(u) = V + B BY <1>10
<1> HIDE DEF u
<1>12. /\ u \o z \in Seq(Nat) /\ Len(u \o z) = (V + B) + N
       /\ \A i \in 1..(V + B) + N : (u \o z)[i] = IF i <= V + B THEN u[i] ELSE z[i - (V + B)]
  <2>1. /\ u \o z \in Seq(Nat) /\ Len(u \o z) = Len(u) + Len(z)
        /\ \A i \in 1..Len(u) + Len(z) :
             (u \o z)[i] = IF i <= Len(u) THEN u[i] ELSE z[i - Len(u)]
    BY <1>9, <1>11, ConcatProperties
  <2> QED BY <1>9, <1>11, <2>1
<1>13. gather_wires(g) = u \o z BY <1>3 DEF u
<1> DEFINE a == u \o z
<1> HIDE DEF a
<1>14. ASSUME NEW j \in 1..V PROVE a[j] = VenueWire(g.ward_no, j - 1)
  <2>1. j \in 1..(V + B) + N /\ j <= V + B /\ j \in 1..V + B /\ j <= V BY <1>1, <1>2
  <2>2. a[j] = u[j] BY <1>12, <2>1 DEF a
  <2>3. u[j] = x[j] BY <1>10, <2>1 DEF u
  <2> QED BY <1>7, <2>2, <2>3
<1>15. ASSUME NEW j \in 1..B PROVE a[V + j] = BoardWire(g.ward_no, j)
  <2> DEFINE i == V + j
  <2>1. i \in 1..(V + B) + N /\ i <= V + B /\ i \in 1..V + B /\ ~(i <= V) /\ i - V = j
    BY <1>1, <1>2
  <2> HIDE DEF i
  <2>2. a[i] = u[i] BY <1>12, <2>1 DEF a
  <2>3. u[i] = y[j] BY <1>10, <2>1 DEF u
  <2> QED BY <1>8, <2>2, <2>3 DEF i
<1>16. ASSUME NEW j \in 1..N PROVE a[V + B + j] = g.sparks[j].wire
  <2> DEFINE i == V + B + j
  <2>1. i \in 1..(V + B) + N /\ ~(i <= V + B) /\ i - (V + B) = j BY <1>1, <1>2
  <2> HIDE DEF i
  <2>2. a[i] = z[j] BY <1>12, <2>1 DEF a
  <2> QED BY <1>9, <2>2 DEF i
<1>17. a \in Seq(Nat) /\ Len(a) = V + B + N BY <1>12 DEF a
<1> QED BY <1>1, <1>2, <1>13, <1>14, <1>15, <1>16, <1>17 DEF a, V, B, N

\* named_apart compares all the names of the first ward.
LEMMA FirstWardIsCompared ==
  ASSUME ShardTypeOK, nwards \in 1..MAX_WARDS, named_apart(w), BoardFits(w[0]),
         Len(w[0].sparks) <= SPARKS_PER_WARD,
         NEW a \in 1..Len(gather_wires(w[0])), NEW b \in 1..Len(gather_wires(w[0])),
         gather_wires(w[0])[a] = gather_wires(w[0])[b]
  PROVE  a = b
<1> DEFINE seqs == [i \in 1..nwards |-> gather_wires(w[i - 1])]
           all == FlattenSeq(seqs)
           m == Min({CAP, Len(all)})
           n == nwards
           L == Len(gather_wires(w[0]))
<1>1. n \in Nat \ {0} /\ MAX_WARDS \in Nat BY ShardConstants
<1>2. \A i \in 1..n : i - 1 \in Ward BY <1>1 DEF Ward
<1>3. 0 \in Ward /\ w[0] \in WardRecord BY <1>1 DEF Ward, ShardTypeOK
<1>4. /\ NVENUES \in Nat /\ w[0].board \in Nat /\ Len(w[0].sparks) \in Nat
      /\ L = NVENUES + w[0].board + Len(w[0].sparks)
  BY <1>3, GatherIs
<1>5. L \in Nat /\ L <= CAP /\ CAP \in Int
  <2>1. /\ BOARD_SIZE \in Nat /\ RAILS_MORE \in Nat /\ SPARKS_PER_WARD \in Nat
        /\ CAP \in Int
    BY ShardConstants, CapHoldsAWard
  <2>2. w[0].board <= BOARD_SIZE + RAILS_MORE BY DEF BoardFits, MOST_ROWS
  <2>3. /\ CAP \in Nat
        /\ NVENUES + BOARD_SIZE + RAILS_MORE + SPARKS_PER_WARD + 1 <= CAP
    BY CapHoldsAWard
  <2> DEFINE b0 == w[0].board
             n0 == Len(w[0].sparks)
  <2>4. /\ L = NVENUES + b0 + n0 /\ NVENUES \in Nat /\ b0 \in Nat /\ n0 \in Nat
        /\ b0 <= BOARD_SIZE + RAILS_MORE /\ n0 <= SPARKS_PER_WARD
    BY <1>4, <2>2
  <2> HIDE DEF L, b0, n0
  <2> QED BY <2>1, <2>3, <2>4
<1>6. Len(seqs) = n /\ \A i \in 1..n : seqs[i] \in Seq(Nat)
  <2>1. ASSUME NEW i \in 1..n PROVE gather_wires(w[i - 1]) \in Seq(Nat)
    <3>1. w[i - 1] \in WardRecord BY <1>2 DEF ShardTypeOK
    <3> QED BY <3>1, GatherIs
  <2> HIDE DEF n
  <2>2. seqs = [i \in 1..n |-> gather_wires(w[i - 1])] BY DEF n
  <2> HIDE DEF seqs
  <2> QED BY <1>1, <2>1, <2>2
<1>7. seqs[1] = gather_wires(w[0]) BY <1>1
<1> HIDE DEF seqs, n
<1>8. /\ all \in Seq(Nat) /\ Len(seqs[1]) <= Len(all)
      /\ \A j \in 1..Len(seqs[1]) : all[j] = seqs[1][j]
  <2> HIDE DEF m, L
  <2> QED BY <1>1, <1>6, FlattenBegins, SMTT(30)
<1>9. Len(all) \in Nat /\ L <= Len(all) /\ \A j \in 1..L : all[j] = gather_wires(w[0])[j]
  BY <1>7, <1>8
<1>10. IsInjective(SubSeq(all, 1, m)) BY DEF named_apart, seqs, n
<1> HIDE DEF all
<1>11. m = IF CAP <= Len(all) THEN CAP ELSE Len(all) BY <1>5, <1>9, SmallerOfTwo
<1>12. m \in Nat /\ L <= m /\ m <= Len(all) BY <1>5, <1>9, <1>11
<1> HIDE DEF m, L
<1>13. DOMAIN SubSeq(all, 1, m) = 1..m /\ \A j \in 1..m : SubSeq(all, 1, m)[j] = all[j]
  <2>1. all \in Seq(Nat) BY <1>8
  <2> QED BY <2>1, <1>12, SMTT(30)
<1>14. a \in 1..L /\ b \in 1..L BY DEF L
<1>15. a \in 1..m /\ b \in 1..m BY <1>5, <1>12, <1>14
<1>16. all[a] = all[b] BY <1>9, <1>14
<1> QED BY <1>10, <1>13, <1>15, <1>16 DEF IsInjective

\* When the run returns 0 no handle has been lost: the arrival that takes a Spark's database
\* takes its name as well, and named_apart would have refused the game.
LEMMA NoneIsLost ==
  ASSUME ShardInv, DbInv, rc = 0, NEW i \in Ward, NEW k
  PROVE  ~Lost(w[i], i, k, Moved)
<1> SUFFICES ASSUME Lost(w[i], i, k, Moved) PROVE FALSE OBVIOUS
<1> DEFINE Z == SPARKS_PER_WARD
           s == w[i].sparks[Z - 1]
           t == w[i].sparks[Z]
           x == gather_wires(w[i])
           o == NVENUES + w[i].board
<1>1. Going /\ ShardTypeOK /\ pc = "over" BY DEF Going, ShardInv, Control
<1>2. Moved /\ i = 0 /\ Len(w[i].sparks) = Z BY DEF Lost
<1>3. s.id = t.id /\ Z \in 1..Z /\ Z - 1 \in 1..Z BY <1>1, <1>2, LostIs
<1>4. s.wire = SparkWire(i, s.id) /\ t.wire = SparkWire(i, t.id)
  <2>1. Named(w[i], i) BY DEF ShardInv, WardsInv
  <2> QED BY <1>2, <1>3, <2>1 DEF Named
<1>5. s.wire = t.wire BY <1>3, <1>4
<1>6. /\ NVENUES \in Nat /\ w[i].board \in Nat /\ Len(x) = o + Z
      /\ \A j \in 1..Z : x[o + j] = w[i].sparks[j].wire
  <2>1. w[i] \in WardRecord BY <1>1 DEF ShardTypeOK
  <2> QED BY <1>2, <2>1, GatherIs
<1>7. Z \in Nat /\ Z >= 2 /\ o \in Nat BY <1>6, ZoneIs
<1>8. x[o + (Z - 1)] = x[o + Z] BY <1>3, <1>5, <1>6
<1>9. nwards > 1 BY <1>2 DEF Moved
<1>10. nwards \in 1..MAX_WARDS
  <2>1. nwards \in Nat /\ MAX_WARDS \in Nat BY <1>1, CountsAre
  <2>2. nwards <= MAX_WARDS BY <1>1 DEF DbInv
  <2> QED BY <1>9, <2>1, <2>2
<1>11. named_apart(w) /\ BoardFits(w[0]) BY <1>1, <1>2 DEF DbInv
<1>12. Len(w[0].sparks) <= SPARKS_PER_WARD BY <1>2, <1>7 DEF Z
<1> HIDE DEF Z, o, s, t
<1>13. o + (Z - 1) \in 1..Len(x) /\ o + Z \in 1..Len(x) /\ o + (Z - 1) # o + Z BY <1>6, <1>7
<1>14. x = gather_wires(w[0]) BY <1>2
<1> HIDE DEF x
<1>15. o + (Z - 1) = o + Z
  BY <1>1, <1>8, <1>10, <1>11, <1>12, <1>13, <1>14, FirstWardIsCompared
<1> QED BY <1>13, <1>15

\* Two Sparks of one ward with one id have one database: a migrant's id is none of the
\* ward's own.
LEMMA IdsOfAWard ==
  ASSUME NEW moved \in BOOLEAN, NEW g \in WardRecord, NEW i \in Ward, Placed(g, i, moved),
         NEW k \in 1..Len(g.sparks), NEW l \in 1..Len(g.sparks), g.sparks[k].id = g.sparks[l].id
  PROVE  FileOf(g.sparks[k]) = FileOf(g.sparks[l])
<1> DEFINE s == g.sparks[k]
           t == g.sparks[l]
<1>1. Migrant(s, i, moved) \/ Native(s, i, k, moved) BY DEF Placed
<1>2. Migrant(t, i, moved) \/ Native(t, i, l, moved) BY DEF Placed
<1>3. Len(g.sparks) \in Nat /\ k \in Nat /\ l \in Nat /\ k >= 1 /\ l >= 1 BY SumsAreTyped
<1>4. ASSUME NEW n \in Nat, n >= 1, i = 1 PROVE IdAt(i, n, moved) # 0
  <2>1. IdAt(i, n, moved) = 1 * SPARKS_PER_WARD + n - 1 BY <1>4 DEF IdAt
  <2> QED BY <1>4, <2>1, ZoneIs
<1>5. s.id = t.id OBVIOUS
<1> HIDE DEF s, t
<1>6. CASE Migrant(s, i, moved) /\ Native(t, i, l, moved)
  BY <1>3, <1>4, <1>5, <1>6 DEF Migrant, Native
<1>7. CASE Native(s, i, k, moved) /\ Migrant(t, i, moved)
  BY <1>3, <1>4, <1>5, <1>7 DEF Migrant, Native
<1>8. CASE Migrant(s, i, moved) /\ Migrant(t, i, moved)
  BY <1>8 DEF Migrant, FileOf, s, t
<1>9. CASE Native(s, i, k, moved) /\ Native(t, i, l, moved)
  BY <1>5, <1>9 DEF Native, FileOf, s, t
<1> QED BY <1>1, <1>2, <1>6, <1>7, <1>8, <1>9

\* The place a of gather_wires is the entity whose name has the local part l: a venue, an
\* offered contract or a Spark, each class in the range of its own.
LocalAt(g, a, l) ==
  \/ a \in 1..NVENUES /\ l = a /\ l < 256
  \/ \E j \in 1..g.board : a = NVENUES + j /\ l = 16384 + j
  \/ \E j \in 1..Len(g.sparks) :
       a = NVENUES + g.board + j /\ l = 256 + g.sparks[j].id /\ l < 16384

\* The local part of the name at each place of gather_wires, and which entity it is of.
LEMMA LocalsAre ==
  ASSUME NEW g \in WardRecord, NEW i \in Ward, g.ward_no = i, Named(g, i), BoardFits(g),
         NEW a \in 1..Len(gather_wires(g))
  PROVE  \E l \in Nat : gather_wires(g)[a] = wire_id(i, l) /\ LocalAt(g, a, l)
<1> DEFINE x == gather_wires(g)
           V == NVENUES
           B == g.board
           N == Len(g.sparks)
<1>1. /\ V \in Nat /\ B \in Nat /\ N \in Nat /\ Len(x) = V + B + N
      /\ \A j \in 1..V : x[j] = VenueWire(i, j - 1)
      /\ \A j \in 1..B : x[V + j] = BoardWire(i, j)
      /\ \A j \in 1..N : x[V + B + j] = g.sparks[j].wire
  BY GatherIs
<1>2. \A j \in 1..N : g.sparks[j] \in SparkRecord BY SumsAreTyped
<1> HIDE DEF x, V, B, N
<1>3. a \in 1..(V + B + N) BY <1>1 DEF x
<1>4. \/ a \in 1..V
      \/ \E j \in 1..B : a = V + j
      \/ \E j \in 1..N : a = V + B + j
  <2>1. CASE a <= V BY <1>1, <1>3, <2>1
  <2>2. CASE V < a /\ a <= V + B
    <3>1. a - V \in 1..B /\ a = V + (a - V) BY <1>1, <1>3, <2>2
    <3> QED BY <3>1
  <2>3. CASE V + B < a
    <3>1. a - (V + B) \in 1..N /\ a = V + B + (a - (V + B)) BY <1>1, <1>3, <2>3
    <3> QED BY <3>1
  <2> QED BY <1>1, <1>3, <2>1, <2>2, <2>3
<1>5. CASE a \in 1..V
  <2>1. a \in Nat /\ x[a] = VenueWire(i, a - 1) BY <1>1, <1>5
  <2>2. 1 + V <= 256 BY RangesHold DEF WIRE_VENUE_BASE, WIRE_SPARK_BASE, V
  <2>3. a < 256 /\ 1 + (a - 1) = a BY <1>1, <1>5, <2>2
  <2>4. x[a] = wire_id(i, a) BY <2>1, <2>3 DEF VenueWire, WIRE_VENUE_BASE
  <2> QED BY <1>5, <2>1, <2>3, <2>4 DEF x, V, LocalAt
<1>6. CASE \E j \in 1..B : a = V + j
  <2>1. PICK j \in 1..B : a = V + j BY <1>6
  <2> DEFINE l == 16384 + j
  <2>2. l \in Nat BY <1>1
  <2>3. x[a] = wire_id(i, l) BY <1>1, <2>1 DEF BoardWire, WIRE_CONTRACT_BASE
  <2>4. l = 16384 + j OBVIOUS
  <2> HIDE DEF l
  <2> QED BY <2>1, <2>2, <2>3, <2>4 DEF x, V, B, LocalAt
<1>7. CASE \E j \in 1..N : a = V + B + j
  <2>1. PICK j \in 1..N : a = V + B + j BY <1>7
  <2> DEFINE id == g.sparks[j].id
             l == 256 + id
             n == MAX_WARDS * SPARKS_PER_WARD
  <2>2. n \in Nat /\ id \in 0..(n - 1) BY <1>2, RangesAre DEF SparkRecord, Id
  <2>3. 256 + n <= 16384 BY RangesHold DEF WIRE_SPARK_BASE, WIRE_CONTRACT_BASE
  <2>4. x[a] = wire_id(i, l)
    <3>1. g.sparks[j].wire = SparkWire(i, g.sparks[j].id) BY DEF Named, N
    <3> QED BY <1>1, <2>1, <3>1 DEF SparkWire, WIRE_SPARK_BASE
  <2> HIDE DEF n, id
  <2>5. l \in Nat /\ l < 16384 BY <2>2, <2>3
  <2>6. l = 256 + g.sparks[j].id BY DEF id
  <2> HIDE DEF l
  <2> QED BY <2>1, <2>4, <2>5, <2>6 DEF x, V, B, N, LocalAt
<1> QED BY <1>4, <1>5, <1>6, <1>7

\* One local part is one place: the three ranges do not meet, and within each the local part
\* counts the places up, provided no two Sparks have one id.
LEMMA LocalsApart ==
  ASSUME NEW g, NVENUES \in Nat, g.board \in Nat, Len(g.sparks) \in Nat,
         \A j \in 1..Len(g.sparks) : g.sparks[j].id \in Nat,
         \A j, k \in 1..Len(g.sparks) : g.sparks[j].id = g.sparks[k].id => j = k,
         NEW a, NEW b, NEW l \in Nat, LocalAt(g, a, l), LocalAt(g, b, l)
  PROVE  a = b
<1> DEFINE V == NVENUES
           B == g.board
           N == Len(g.sparks)
           Id1(j) == g.sparks[j].id
<1>1. /\ \/ a \in 1..V /\ l = a /\ l < 256
         \/ \E j \in 1..B : a = V + j /\ l = 16384 + j
         \/ \E j \in 1..N : a = V + B + j /\ l = 256 + Id1(j) /\ l < 16384
      /\ \/ b \in 1..V /\ l = b /\ l < 256
         \/ \E j \in 1..B : b = V + j /\ l = 16384 + j
         \/ \E j \in 1..N : b = V + B + j /\ l = 256 + Id1(j) /\ l < 16384
  BY DEF LocalAt
<1>2. V \in Nat /\ B \in Nat /\ N \in Nat OBVIOUS
<1>3. \A j \in 1..N : Id1(j) \in Nat OBVIOUS
<1>4. \A j, k \in 1..N : Id1(j) = Id1(k) => j = k OBVIOUS
<1> HIDE DEF V, B, N, Id1
<1>5. CASE l < 256
  <2>1. a = l BY <1>1, <1>2, <1>3, <1>5
  <2>2. b = l BY <1>1, <1>2, <1>3, <1>5
  <2> QED BY <2>1, <2>2
<1>6. CASE l >= 256 /\ l < 16384
  <2>1. \E j \in 1..N : a = V + B + j /\ l = 256 + Id1(j) BY <1>1, <1>2, <1>6
  <2>2. \E j \in 1..N : b = V + B + j /\ l = 256 + Id1(j) BY <1>1, <1>2, <1>6
  <2>3. PICK j \in 1..N : a = V + B + j /\ l = 256 + Id1(j) BY <2>1
  <2>4. PICK k \in 1..N : b = V + B + k /\ l = 256 + Id1(k) BY <2>2
  <2>5. Id1(j) = Id1(k) BY <1>3, <2>3, <2>4
  <2>6. j = k BY <1>4, <2>5
  <2> QED BY <2>3, <2>4, <2>6
<1>7. CASE l >= 16384
  <2>1. \E j \in 1..B : a = V + j /\ l = 16384 + j BY <1>1, <1>2, <1>7
  <2>2. \E j \in 1..B : b = V + j /\ l = 16384 + j BY <1>1, <1>2, <1>7
  <2>3. PICK j \in 1..B : a = V + j /\ l = 16384 + j BY <2>1
  <2>4. PICK k \in 1..B : b = V + k /\ l = 16384 + k BY <2>2
  <2>5. j = k BY <1>2, <2>3, <2>4
  <2> QED BY <2>3, <2>4, <2>5
<1> QED BY <1>5, <1>6, <1>7

\* The classes of a ward's names have ranges of their own, and within a class a name is the
\* venue's, the contract's or the Spark's: so two names of a ward are equal only when two
\* Sparks of it share a database.
LEMMA WardNamesApart ==
  ASSUME NEW moved \in BOOLEAN, NEW x, NEW i \in Ward,
         \A j \in Ward : x[j] \in WardRecord /\ Placed(x[j], j, moved),
         x[i].ward_no = i, Named(x[i], i), BoardFits(x[i]), \A k : ~Lost(x[i], i, k, moved)
  PROVE  IsInjective(gather_wires(x[i]))
<1> DEFINE g == x[i]
           y == gather_wires(g)
           V == NVENUES
           B == g.board
           N == Len(g.sparks)
<1>1. g \in WardRecord /\ Placed(g, i, moved) OBVIOUS
<1>2. /\ V \in Nat /\ B \in Nat /\ N \in Nat /\ Len(y) = V + B + N /\ y \in Seq(Nat)
  BY <1>1, GatherIs
<1>3. DOMAIN y = 1..Len(y) BY <1>2
<1> SUFFICES ASSUME NEW a \in 1..Len(y), NEW b \in 1..Len(y), y[a] = y[b] PROVE a = b
  BY <1>3 DEF IsInjective
<1>4. \A p \in 1..Len(y) : \E l \in Nat : y[p] = wire_id(i, l) /\ LocalAt(g, p, l)
  <2> SUFFICES ASSUME NEW p \in 1..Len(y)
               PROVE  \E l \in Nat : y[p] = wire_id(i, l) /\ LocalAt(g, p, l)
    OBVIOUS
  <2> QED BY <1>1, LocalsAre
<1>5. \A j \in 1..N : g.sparks[j].id \in Nat
  <2>1. \A j \in 1..N : g.sparks[j] \in SparkRecord BY <1>1, SumsAreTyped
  <2> QED BY <2>1, RangesAre DEF SparkRecord
<1>6. ASSUME NEW j \in 1..N, NEW k \in 1..N, g.sparks[j].id = g.sparks[k].id PROVE j = k
  <2>1. FileOf(g.sparks[j]) = FileOf(g.sparks[k]) BY <1>1, <1>6, IdsOfAWard
  <2>2. j # k => /\ moved /\ i = 0 /\ Len(x[i].sparks) = SPARKS_PER_WARD
                 /\ \/ j = SPARKS_PER_WARD - 1 /\ k = SPARKS_PER_WARD
                    \/ k = SPARKS_PER_WARD - 1 /\ j = SPARKS_PER_WARD
    <3>1. j \in 1..Len(x[i].sparks) /\ k \in 1..Len(x[i].sparks)
          /\ FileOf(x[i].sparks[j]) = FileOf(x[i].sparks[k])
      BY <2>1
    <3> QED BY <3>1, FilesApart
  <2>3. ~Lost(x[i], i, SPARKS_PER_WARD - 1, moved) OBVIOUS
  <2> QED BY <2>2, <2>3 DEF Lost
<1>7. i \in Nat BY RangesAre
<1> HIDE DEF y
<1>8. PICK l \in Nat : y[a] = wire_id(i, l) /\ LocalAt(g, a, l) BY <1>4
<1>9. PICK m \in Nat : y[b] = wire_id(i, m) /\ LocalAt(g, b, m) BY <1>4
<1>10. l = m
  <2>1. wire_id(i, l) = wire_id(i, m) BY <1>8, <1>9
  <2> HIDE DEF g
  <2> QED BY <1>7, <2>1 DEF wire_id, WIRE_LOCAL_MAX
<1>11. LocalAt(g, a, l) /\ LocalAt(g, b, l) BY <1>8, <1>9, <1>10
<1> HIDE DEF g
<1>12. /\ \A j \in 1..N : g.sparks[j].id \in Nat
       /\ \A j, k \in 1..N : g.sparks[j].id = g.sparks[k].id => j = k
  BY <1>5, <1>6
<1> HIDE DEF V, B, N
<1> QED BY <1>2, <1>11, <1>12, LocalsApart DEF V, B, N

\* Two wards have no name in common: every local part is below WIRE_LOCAL_MAX.
LEMMA WardsNameApart ==
  ASSUME NEW i \in Ward, NEW j \in Ward, i # j,
         NEW g \in WardRecord, g.ward_no = i, Named(g, i), BoardFits(g),
         NEW h \in WardRecord, h.ward_no = j, Named(h, j), BoardFits(h)
  PROVE  Range(gather_wires(g)) \cap Range(gather_wires(h)) = {}
<1>1. ASSUME NEW k \in Ward, NEW f \in WardRecord, f.ward_no = k, Named(f, k), BoardFits(f),
             NEW y \in Range(gather_wires(f))
      PROVE  \E l \in Nat : l < WIRE_LOCAL_MAX /\ y = wire_id(k, l)
  <2> DEFINE z == gather_wires(f)
  <2>1. DOMAIN z = 1..Len(z) BY <1>1, GatherIs
  <2>2. PICK a \in 1..Len(z) : y = z[a] BY <1>1, <2>1 DEF Range
  <2> HIDE DEF z
  <2>3. \E l \in Nat : z[a] = wire_id(k, l) /\ LocalAt(f, a, l) BY <1>1, <2>2, LocalsAre DEF z
  <2>4. PICK l \in Nat : z[a] = wire_id(k, l) /\ LocalAt(f, a, l) BY <2>3
  <2>5. f.board \in Nat /\ f.board <= MOST_ROWS BY <1>1 DEF BoardFits, WardRecord
  <2>6. 16384 + MOST_ROWS < WIRE_LOCAL_MAX
    <3>1. BOARD_SIZE \in Nat /\ RAILS_MORE \in Nat BY ShardConstants
    <3> QED BY <3>1, RangesHold DEF MOST_ROWS, WIRE_CONTRACT_BASE
  <2>7. l < WIRE_LOCAL_MAX
    <3>1. l < 16384 \/ \E m \in 1..f.board : l = 16384 + m BY <2>4 DEF LocalAt
    <3>2. MOST_ROWS \in Nat BY ZoneIs
    <3> QED BY <2>5, <2>6, <3>1, <3>2 DEF WIRE_LOCAL_MAX
  <2> QED BY <2>2, <2>4, <2>7
<1> SUFFICES ASSUME NEW y \in Range(gather_wires(g)), y \in Range(gather_wires(h)) PROVE FALSE
  OBVIOUS
<1>2. PICK l \in Nat : l < WIRE_LOCAL_MAX /\ y = wire_id(i, l) BY <1>1
<1>3. PICK m \in Nat : m < WIRE_LOCAL_MAX /\ y = wire_id(j, m) BY <1>1
<1>4. i \in Nat /\ j \in Nat BY RangesAre
<1>5. y \div WIRE_LOCAL_MAX = i BY <1>2, <1>4, NameDecodes
<1>6. y \div WIRE_LOCAL_MAX = j BY <1>3, <1>4, NameDecodes
<1> QED BY <1>5, <1>6

\* What the run reports is true: the names of every ward are apart and apart from every other
\* ward's, the ones past CAP that named_apart never compared included, and every Spark's handle can write and reads what
\* its database says.
THEOREM ReportsAreTrue == Spec => []ReportIsTrue
<1>1. ShardInv /\ DbInv => ReportIsTrue
  <2> SUFFICES ASSUME ShardInv, DbInv, rc = 0 PROVE ReportIsTrue
    BY DEF ReportIsTrue
  <2> DEFINE moved == Moved
  <2>1. Going /\ ShardTypeOK /\ pc = "over" BY DEF Going, ShardInv, Control
  <2>2. /\ nwards <= MAX_WARDS /\ Settled(w, db, moved)
        /\ \A i \in Ward : BoardFits(w[i]) /\ (Stands(i) => Numbered(w[i], i))
    BY <2>1 DEF DbInv
  <2>3. moved \in BOOLEAN BY MovedIs
  <2>4. \A i \in Ward : \A k : ~Lost(w[i], i, k, moved) BY NoneIsLost
  <2> HIDE DEF moved
  <2>5. \A i \in Ward : w[i] \in WardRecord /\ Placed(w[i], i, moved) /\ Kept(w[i], i, db, moved)
    BY <2>2 DEF Settled
  <2>6a. ASSUME NEW i \in 0..(nwards - 1)
         PROVE  i \in Ward /\ w[i].ward_no = i /\ BoardFits(w[i]) /\ Named(w[i], i)
    <3>1. nwards \in Nat /\ MAX_WARDS \in Nat BY <2>1, CountsAre
    <3>2. i \in Ward /\ i < nwards BY <2>2, <3>1 DEF Ward
    <3>3. Stands(i) BY <2>1, <3>2 DEF Stands
    <3>4. w[i].ward_no = i /\ BoardFits(w[i]) BY <2>2, <3>2, <3>3 DEF Numbered
    <3>5. Named(w[i], i) BY <3>2 DEF ShardInv, WardsInv
    <3> QED BY <3>2, <3>4, <3>5
  <2>6b. ASSUME NEW i \in 0..(nwards - 1), NEW j \in 0..(nwards - 1), i # j
         PROVE  Range(gather_wires(w[i])) \cap Range(gather_wires(w[j])) = {}
    <3>1. w[i] \in WardRecord /\ w[j] \in WardRecord BY <2>5, <2>6a
    <3> QED BY <2>6a, <2>6b, <3>1, WardsNameApart
  <2>6. ASSUME NEW i \in 0..(nwards - 1) PROVE IsInjective(gather_wires(w[i]))
    <3>2. i \in Ward /\ w[i].ward_no = i /\ BoardFits(w[i]) BY <2>6a
    <3>5. Named(w[i], i) BY <2>6a
    <3>6. \A j \in Ward : w[j] \in WardRecord /\ Placed(w[j], j, moved) BY <2>5
    <3>7. \A k : ~Lost(w[i], i, k, moved) BY <2>4, <3>2
    <3> QED BY <2>3, <3>2, <3>5, <3>6, <3>7, WardNamesApart
  <2>7. ASSUME NEW i \in Ward, NEW s \in Sparks(i)
        PROVE  /\ MayWrite(s) /\ File(s).purse = s.purse /\ File(s).items = s.items
               /\ File(s).wire = s.wire
    <3>1. w[i] \in WardRecord BY <2>5
    <3>2. PICK k \in 1..Len(w[i].sparks) : s = w[i].sparks[k]
      BY <3>1, SumsAreTyped DEF Sparks, Range
    <3>3. Backed(s, db) BY <2>4, <2>5, <3>2 DEF Kept
    <3> QED BY <3>3 DEF Backed, MayWrite, File, FileOf
  <2> QED BY <2>6, <2>6b, <2>7 DEF ReportIsTrue
<1> QED BY <1>1, DbInvHolds, PTL

=============================================================================
