----------------------------- MODULE SumsProofs -----------------------------
(***************************************************************************)
(* Facts about sums.  Each is proved by looking at the least place where it *)
(* could fail, which the well-foundedness of < on Nat provides.             *)
(***************************************************************************)
EXTENDS Sums, WellFoundedInduction, TLAPS

\* A set of natural numbers that is not empty has a least element.
LEMMA LeastNatural ==
  ASSUME NEW T, T \subseteq Nat, T # {}
  PROVE  \E x \in T : \A y \in T : x <= y
<1>1. PICK x \in T : \A y \in T : ~(<<y, x>> \in OpToRel(<, Nat))
  BY WFMin, NatLessThanWellFounded
<1>2. \A y \in T : ~(y < x)
  BY <1>1 DEF OpToRel
<1> QED BY <1>2

\* What holds of 0 and goes on from one number to the next holds up to N.
LEMMA StepByStep ==
  ASSUME NEW N \in Nat, NEW T, 0 \in T,
         \A k \in 1..N : k - 1 \in T => k \in T
  PROVE  \A k \in 0..N : k \in T
<1> DEFINE F == {k \in 0..N : k \notin T}
<1> SUFFICES ASSUME F # {} PROVE FALSE OBVIOUS
<1>1. PICK m \in F : \A y \in F : m <= y
  <2>1. F \subseteq Nat OBVIOUS
  <2> HIDE DEF F
  <2> QED BY <2>1, LeastNatural
<1>2. m \in 1..N /\ m \notin T OBVIOUS
<1>3. m - 1 \in 0..N /\ ~(m <= m - 1) BY <1>2
<1>4. m - 1 \in T BY <1>1, <1>3
<1> QED BY <1>2, <1>4

\* s is the function of running totals of f.
RunningTotals(s, f, n) ==
  s = [k \in 0..n |-> IF k = 0 THEN 0 ELSE s[k-1] + f[k]]

\* The recursion that defines the running totals has a solution.
LEMMA PrefixExists ==
  ASSUME NEW N \in Nat, NEW f \in [1..N -> Int]
  PROVE  \E s \in [0..N -> Int] : RunningTotals(s, f, N)
<1> DEFINE T == {n \in 0..N : ~ \E s \in [0..n -> Int] : RunningTotals(s, f, n)}
<1> SUFFICES ASSUME T # {} PROVE FALSE
  OBVIOUS
<1>1. PICK m \in T : \A y \in T : m <= y
  <2>1. T \subseteq Nat OBVIOUS
  <2> HIDE DEF T
  <2> QED BY <2>1, LeastNatural
<1>2. m # 0
  <2> SUFFICES ASSUME m = 0 PROVE FALSE OBVIOUS
  <2> DEFINE z == [k \in 0..0 |-> 0]
  <2>1. z \in [0..0 -> Int] OBVIOUS
  <2>2. RunningTotals(z, f, 0) BY DEF RunningTotals
  <2> QED BY <2>1, <2>2
<1>3. m \in 1..N BY <1>2
<1>4. PICK s \in [0..(m-1) -> Int] : RunningTotals(s, f, m-1)
  <2>1. m - 1 \in 0..N /\ ~(m <= m-1) BY <1>3
  <2>2. m - 1 \notin T BY <1>1, <2>1
  <2> QED BY <2>1, <2>2
<1> DEFINE t == [k \in 0..m |-> IF k < m THEN s[k] ELSE s[m-1] + f[m]]
<1>5. t \in [0..m -> Int]
  BY <1>3
<1>6. RunningTotals(t, f, m)
  <2>1. ASSUME NEW k \in 0..m PROVE t[k] = IF k = 0 THEN 0 ELSE t[k-1] + f[k]
    <3>1. CASE k = 0 BY <3>1, <1>3, <1>4 DEF RunningTotals
    <3>2. CASE k \in 1..(m-1)
      <4>1. s[k] = s[k-1] + f[k] BY <3>2, <1>3, <1>4 DEF RunningTotals
      <4> QED BY <4>1, <3>2, <1>3
    <3>3. CASE k = m BY <3>3, <1>3
    <3> QED BY <3>1, <3>2, <3>3, <1>3
  <2> QED BY <2>1, <1>5 DEF RunningTotals
<1> QED BY <1>5, <1>6, <1>3

\* The running totals start at 0 and grow by one term at a time.
LEMMA PrefixUnfold ==
  ASSUME NEW N \in Nat, NEW f \in [1..N -> Int]
  PROVE  /\ PrefixSums(f, N) \in [0..N -> Int]
         /\ PrefixSums(f, N)[0] = 0
         /\ \A k \in 1..N : PrefixSums(f, N)[k] = PrefixSums(f, N)[k-1] + f[k]
<1>1. RunningTotals(PrefixSums(f, N), f, N)
  BY PrefixExists DEF PrefixSums, RunningTotals
<1> DEFINE p == PrefixSums(f, N)
<1>2. p[0] = 0 /\ \A k \in 1..N : p[k] = p[k-1] + f[k]
  <2>1. p = [k \in 0..N |-> IF k = 0 THEN 0 ELSE p[k-1] + f[k]]
    BY <1>1 DEF RunningTotals
  <2> HIDE DEF p
  <2> QED BY <2>1
<1>3. p \in [0..N -> Int]
  <2>1. p = [k \in 0..N |-> IF k = 0 THEN 0 ELSE p[k-1] + f[k]]
    BY <1>1 DEF RunningTotals
  <2> HIDE DEF p
  <2> DEFINE T == {n \in 0..N : p[n] \notin Int}
  <2> SUFFICES ASSUME T # {} PROVE FALSE
     BY <2>1
  <2>2. PICK m \in T : \A y \in T : m <= y
    <3>1. T \subseteq Nat OBVIOUS
    <3> HIDE DEF T
    <3> QED BY <3>1, LeastNatural
  <2>3. m \in 1..N BY <1>2
  <2>4. m - 1 \in 0..N /\ ~(m <= m-1) BY <2>3
  <2>5. m - 1 \notin T BY <2>2, <2>4
  <2> QED BY <1>2, <2>3, <2>4, <2>5
<1> QED BY <1>2, <1>3

\* Changing one term changes the total by as much: a wage is paid to one purse.
LEMMA TotalUpdate ==
  ASSUME NEW N \in Nat, NEW f \in [1..N -> Int], NEW g \in [1..N -> Int],
         NEW i \in 1..N, \A k \in 1..N : k # i => g[k] = f[k]
  PROVE  Total(g, N) = Total(f, N) + g[i] - f[i]
<1> DEFINE p == PrefixSums(f, N)
           q == PrefixSums(g, N)
<1>1. /\ p \in [0..N -> Int] /\ p[0] = 0
      /\ \A k \in 1..N : p[k] = p[k-1] + f[k]
  BY PrefixUnfold
<1>2. /\ q \in [0..N -> Int] /\ q[0] = 0
      /\ \A k \in 1..N : q[k] = q[k-1] + g[k]
  BY PrefixUnfold
<1> HIDE DEF p, q
<1> DEFINE d(k) == IF k < i THEN 0 ELSE g[i] - f[i]
           T == {k \in 0..N : q[k] # p[k] + d(k)}
<1>3. T = {}
  <2> SUFFICES ASSUME T # {} PROVE FALSE OBVIOUS
  <2>2. PICK m \in T : \A y \in T : m <= y
    <3>1. T \subseteq Nat OBVIOUS
    <3> HIDE DEF T
    <3> QED BY <3>1, LeastNatural
  <2>3. m \in 1..N BY <1>1, <1>2
  <2>4. m - 1 \in 0..N /\ ~(m <= m-1) BY <2>3
  <2>5. m - 1 \notin T BY <2>2, <2>4
  <2>6. q[m-1] = p[m-1] + d(m-1) BY <2>5, <2>4
  <2>7. p[m] = p[m-1] + f[m] /\ q[m] = q[m-1] + g[m] BY <1>1, <1>2, <2>3
  <2>8. p[m-1] \in Int /\ q[m-1] \in Int /\ f[m] \in Int /\ g[m] \in Int /\ f[i] \in Int /\ g[i] \in Int
    BY <1>1, <1>2, <2>3, <2>4
  <2>9. q[m] = p[m] + d(m)
    <3>1. CASE m = i
      <4>1. d(m-1) = 0 /\ d(m) = g[m] - f[m] BY <3>1, <2>3
      <4> HIDE DEF d
      <4> QED BY <4>1, <2>6, <2>7, <2>8
    <3>2. CASE m # i
      <4>0. (m < i <=> m - 1 < i) /\ g[i] - f[i] \in Int BY <3>2, <2>3, <2>8
      <4>1. d(m) = d(m-1) /\ d(m) \in Int BY <4>0
      <4>2. g[m] = f[m] BY <3>2, <2>3
      <4> HIDE DEF d
      <4> QED BY <4>1, <4>2, <2>6, <2>7, <2>8
    <3> QED BY <3>1, <3>2
  <2> QED BY <2>9
<1>4. q[N] = p[N] + d(N) BY <1>3
<1>5. p[N] \in Int BY <1>1
<1> QED BY <1>4, <1>5 DEF Total, p, q

\* A total of integers is an integer.
LEMMA TotalType ==
  ASSUME NEW N \in Nat, NEW f \in [1..N -> Int]
  PROVE  Total(f, N) \in Int
BY PrefixUnfold DEF Total

\* The running totals depend only on the terms so far.
LEMMA PrefixAgree ==
  ASSUME NEW N \in Nat, NEW M \in Nat, N <= M,
         NEW f \in [1..M -> Int], NEW g \in [1..N -> Int],
         \A k \in 1..N : f[k] = g[k]
  PROVE  \A k \in 0..N : PrefixSums(f, M)[k] = PrefixSums(g, N)[k]
<1> DEFINE p == PrefixSums(f, M)
           q == PrefixSums(g, N)
<1>1. /\ p \in [0..M -> Int] /\ p[0] = 0
      /\ \A k \in 1..M : p[k] = p[k-1] + f[k]
  BY PrefixUnfold
<1>2. /\ q \in [0..N -> Int] /\ q[0] = 0
      /\ \A k \in 1..N : q[k] = q[k-1] + g[k]
  BY PrefixUnfold
<1> HIDE DEF p, q
<1> DEFINE T == {k \in 0..N : p[k] # q[k]}
<1>3. T = {}
  <2> SUFFICES ASSUME T # {} PROVE FALSE OBVIOUS
  <2>1. PICK m \in T : \A y \in T : m <= y
    <3>1. T \subseteq Nat OBVIOUS
    <3> HIDE DEF T
    <3> QED BY <3>1, LeastNatural
  <2>2. m \in 1..N BY <1>1, <1>2
  <2>3. m - 1 \in 0..N /\ ~(m <= m-1) BY <2>2
  <2>4. p[m-1] = q[m-1] BY <2>1, <2>3
  <2>5. p[m] = p[m-1] + f[m] /\ q[m] = q[m-1] + g[m] BY <1>1, <1>2, <2>2
  <2> QED BY <2>2, <2>4, <2>5
<1> QED BY <1>3 DEF p, q

\* One more term adds itself to the total: a Spark joins a ward.
LEMMA TotalExtend ==
  ASSUME NEW N \in Nat, NEW f \in [1..N+1 -> Int], NEW g \in [1..N -> Int],
         \A k \in 1..N : f[k] = g[k]
  PROVE  Total(f, N+1) = Total(g, N) + f[N+1]
<1>1. PrefixSums(f, N+1)[N] = PrefixSums(g, N)[N]
  BY PrefixAgree, SMTT(60)
<1>2. PrefixSums(f, N+1)[N+1] = PrefixSums(f, N+1)[N] + f[N+1]
  <2>1. N+1 \in Nat /\ N+1 \in 1..N+1 OBVIOUS
  <2>2. \A k \in 1..N+1 : PrefixSums(f, N+1)[k] = PrefixSums(f, N+1)[k-1] + f[k]
    BY <2>1, PrefixUnfold
  <2> QED BY <2>1, <2>2
<1> QED BY <1>1, <1>2 DEF Total

\* Without its first term a total is smaller by it: a Spark leaves a ward.
LEMMA TotalShift ==
  ASSUME NEW N \in Nat, NEW f \in [1..N+1 -> Int], NEW g \in [1..N -> Int],
         \A k \in 1..N : g[k] = f[k+1]
  PROVE  Total(f, N+1) = f[1] + Total(g, N)
<1> DEFINE p == PrefixSums(f, N+1)
           q == PrefixSums(g, N)
           T == {k \in 0..N : p[k+1] = f[1] + q[k]}
<1>1. /\ p \in [0..N+1 -> Int] /\ p[0] = 0
      /\ \A k \in 1..N+1 : p[k] = p[k-1] + f[k]
  <2>1. N + 1 \in Nat OBVIOUS
  <2> QED BY <2>1, PrefixUnfold
<1>2. /\ q \in [0..N -> Int] /\ q[0] = 0
      /\ \A k \in 1..N : q[k] = q[k-1] + g[k]
  BY PrefixUnfold
<1> HIDE DEF p, q
<1>3. f[1] \in Int OBVIOUS
<1>4. 0 \in T
  <2>1. p[1] = p[0] + f[1] BY <1>1
  <2> QED BY <2>1, <1>1, <1>2, <1>3
<1>5. ASSUME NEW k \in 1..N, k - 1 \in T PROVE k \in T
  <2>1. p[k] = f[1] + q[k-1] BY <1>5
  <2>2. k + 1 \in 1..N+1 /\ (k + 1) - 1 = k OBVIOUS
  <2>3. p[k+1] = p[k] + f[k+1] BY <1>1, <2>2
  <2>4. q[k] = q[k-1] + g[k] /\ g[k] = f[k+1] BY <1>2
  <2>5. q[k-1] \in Int /\ g[k] \in Int
    <3>1. k - 1 \in 0..N OBVIOUS
    <3> QED BY <3>1, <1>2
  <2>6. p[k+1] = f[1] + q[k] BY <1>3, <2>1, <2>3, <2>4, <2>5
  <2> QED BY <2>6
<1>6. \A k \in 0..N : k \in T
  <2> HIDE DEF T
  <2> QED BY <1>4, <1>5, StepByStep
<1>7. p[N+1] = f[1] + q[N] BY <1>6
<1> QED BY <1>7 DEF Total, p, q

\* Nothing adds up to nothing: a new ward's purses.
LEMMA TotalZero ==
  ASSUME NEW N \in Nat, NEW f \in [1..N -> Int], \A k \in 1..N : f[k] = 0
  PROVE  Total(f, N) = 0
<1> DEFINE p == PrefixSums(f, N)
<1>1. /\ p \in [0..N -> Int] /\ p[0] = 0
      /\ \A k \in 1..N : p[k] = p[k-1] + f[k]
  BY PrefixUnfold
<1> HIDE DEF p
<1> DEFINE T == {k \in 0..N : p[k] # 0}
<1>2. T = {}
  <2> SUFFICES ASSUME T # {} PROVE FALSE OBVIOUS
  <2>1. PICK m \in T : \A y \in T : m <= y
    <3>1. T \subseteq Nat OBVIOUS
    <3> HIDE DEF T
    <3> QED BY <3>1, LeastNatural
  <2>2. m \in 1..N BY <1>1
  <2>3. m - 1 \in 0..N /\ ~(m <= m-1) BY <2>2
  <2>4. p[m-1] = 0 BY <2>1, <2>3
  <2> QED BY <1>1, <2>2, <2>4
<1> QED BY <1>2 DEF p, Total

\* Smaller terms have a smaller total.
LEMMA TotalMonotone ==
  ASSUME NEW N \in Nat, NEW f \in [1..N -> Int], NEW g \in [1..N -> Int],
         \A k \in 1..N : f[k] <= g[k]
  PROVE  Total(f, N) <= Total(g, N)
<1> DEFINE p == PrefixSums(f, N)
           q == PrefixSums(g, N)
           T == {k \in 0..N : p[k] <= q[k]}
<1>1. /\ p \in [0..N -> Int] /\ p[0] = 0
      /\ \A k \in 1..N : p[k] = p[k-1] + f[k]
  BY PrefixUnfold
<1>2. /\ q \in [0..N -> Int] /\ q[0] = 0
      /\ \A k \in 1..N : q[k] = q[k-1] + g[k]
  BY PrefixUnfold
<1> HIDE DEF p, q
<1>3. 0 \in T
  BY <1>1, <1>2
<1>4. ASSUME NEW k \in 1..N, k - 1 \in T PROVE k \in T
  <2>1. p[k] = p[k-1] + f[k] /\ q[k] = q[k-1] + g[k] /\ f[k] <= g[k] /\ p[k-1] <= q[k-1]
    BY <1>1, <1>2, <1>4
  <2>2. p[k-1] \in Int /\ q[k-1] \in Int /\ f[k] \in Int /\ g[k] \in Int
    BY <1>1, <1>2
  <2> QED BY <2>1, <2>2
<1>5. \A k \in 0..N : k \in T
  <2> HIDE DEF T
  <2> QED BY <1>3, <1>4, StepByStep
<1>6. p[N] <= q[N]
  BY <1>5
<1> QED BY <1>6 DEF p, q, Total
=============================================================================
