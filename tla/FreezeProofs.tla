----------------------------- MODULE FreezeProofs -----------------------------
(***************************************************************************)
(* What freezing and thawing keep of the things that are built, for any     *)
(* number of them, of geoms, of islands and of ticks.                       *)
(***************************************************************************)
EXTENDS Freeze, SumsProofs, SequenceTheorems, FiniteSetTheorems

-------------------------------------------------------------------------------
(* The bodies that are left.                                                *)

\* f is the sequence left after each of the first n bodies.
LeavesOver(f, s, gone, n) ==
  f = [k \in 0..n |-> IF k = 0 THEN << >>
                      ELSE IF s[k] \in gone THEN f[k-1] ELSE Append(f[k-1], s[k])]

\* The recursion that takes bodies away has a solution.
LEMMA WithoutExists ==
  ASSUME NEW S, NEW s \in Seq(S), NEW gone
  PROVE  \E f \in [0..Len(s) -> Seq(S)] : LeavesOver(f, s, gone, Len(s))
<1> DEFINE N == Len(s)
           T == {n \in 0..N : \E f \in [0..n -> Seq(S)] : LeavesOver(f, s, gone, n)}
<1>0. N \in Nat OBVIOUS
<1>1. 0 \in T
  <2> DEFINE z == [k \in 0..0 |-> << >>]
  <2>1. z \in [0..0 -> Seq(S)] OBVIOUS
  <2>2. LeavesOver(z, s, gone, 0) BY DEF LeavesOver
  <2> QED BY <2>1, <2>2, <1>0
<1>2. ASSUME NEW m \in 1..N, m - 1 \in T PROVE m \in T
  <2>1. PICK f \in [0..(m-1) -> Seq(S)] : LeavesOver(f, s, gone, m - 1)
    BY <1>2
  <2> DEFINE last == IF s[m] \in gone THEN f[m-1] ELSE Append(f[m-1], s[m])
             t == [k \in 0..m |-> IF k < m THEN f[k] ELSE last]
  <2>2. last \in Seq(S)
    <3>1. f[m-1] \in Seq(S) /\ s[m] \in S BY <1>0
    <3> QED BY <3>1
  <2>3. t \in [0..m -> Seq(S)]
    <3> HIDE DEF last
    <3> QED BY <2>2
  <2>4. ASSUME NEW k \in 0..m
        PROVE  t[k] = IF k = 0 THEN << >>
                      ELSE IF s[k] \in gone THEN t[k-1] ELSE Append(t[k-1], s[k])
    <3>1. CASE k = 0 BY <3>1, <2>1 DEF LeavesOver
    <3>2. CASE k \in 1..(m-1)
      <4>1. f[k] = IF s[k] \in gone THEN f[k-1] ELSE Append(f[k-1], s[k])
        <5>1. k \in 0..(m-1) /\ k # 0 BY <3>2
        <5> QED BY <5>1, <2>1, Zenon DEF LeavesOver
      <4>2. t[k] = f[k] /\ t[k-1] = f[k-1] BY <3>2
      <4> HIDE DEF t
      <4> QED BY <4>1, <4>2, <3>2
    <3>3. CASE k = m
      <4>1. t[m] = last /\ t[m-1] = f[m-1] OBVIOUS
      <4> HIDE DEF t
      <4> QED BY <4>1, <3>3
    <3> QED BY <3>1, <3>2, <3>3
  <2>5. LeavesOver(t, s, gone, m)
    <3> HIDE DEF last
    <3>1. t = [k \in 0..m |-> t[k]] OBVIOUS
    <3> HIDE DEF t
    <3> QED BY <3>1, <2>4 DEF LeavesOver
  <2> HIDE DEF t
  <2> QED BY <2>3, <2>5, <1>0
<1>3. \A k \in 0..N : k \in T
  <2> HIDE DEF T, N
  <2> QED BY <1>0, <1>1, <1>2, StepByStep
<1> QED BY <1>3, <1>0

\* Taking away leaves a sequence of the others, in which nothing is twice that was not.
LEMMA WithoutFacts ==
  ASSUME NEW S, NEW s \in Seq(S), NEW gone
  PROVE  /\ Without(s, gone) \in Seq(S)
         /\ Range(Without(s, gone)) = Range(s) \ gone
         /\ Len(Without(s, gone)) <= Len(s)
         /\ IsInjective(s) => IsInjective(Without(s, gone))
         /\ gone \cap Range(s) = {} => Without(s, gone) = s
<1> DEFINE N == Len(s)
           p == CHOOSE f : f = [k \in 0..N |-> IF k = 0 THEN << >>
                      ELSE IF s[k] \in gone THEN f[k-1] ELSE Append(f[k-1], s[k])]
<1>0. N \in Nat /\ DOMAIN s = 1..N /\ \A k \in 1..N : s[k] \in S OBVIOUS
<1>1. Without(s, gone) = p[N] BY DEF Without
<1>2. p = [k \in 0..N |-> IF k = 0 THEN << >>
                      ELSE IF s[k] \in gone THEN p[k-1] ELSE Append(p[k-1], s[k])]
  <2>1. \E f : f = [k \in 0..N |-> IF k = 0 THEN << >>
                      ELSE IF s[k] \in gone THEN f[k-1] ELSE Append(f[k-1], s[k])]
    <3>1. \E f \in [0..N -> Seq(S)] : LeavesOver(f, s, gone, N) BY WithoutExists
    <3> QED BY <3>1, Zenon DEF LeavesOver
  <2> QED BY <2>1, Zenon
<1> HIDE DEF p
<1>3. p[0] = << >> BY <1>2, <1>0
<1>4. ASSUME NEW k \in 1..N
      PROVE  p[k] = IF s[k] \in gone THEN p[k-1] ELSE Append(p[k-1], s[k])
  <2>1. k \in 0..N /\ k # 0 BY <1>0
  <2> QED BY <2>1, <1>2, Zenon
<1> HIDE DEF N
<1> DEFINE T == {k \in 0..N :
                   /\ p[k] \in Seq(S) /\ Len(p[k]) <= k
                   /\ \A j \in 1..Len(p[k]) : \E i \in 1..k : p[k][j] = s[i] /\ s[i] \notin gone
                   /\ \A i \in 1..k : s[i] \notin gone => \E j \in 1..Len(p[k]) : p[k][j] = s[i]}
<1>5. \A k \in 0..N : k \in T
  <2>1. 0 \in T
    <3>1. p[0] \in Seq(S) /\ Len(p[0]) = 0 BY <1>3, EmptySeq
    <3>2. \A j : j \notin 1..0 OBVIOUS
    <3> QED BY <3>1, <3>2, <1>0
  <2>2. ASSUME NEW k \in 1..N, k - 1 \in T PROVE k \in T
    <3> DEFINE q == p[k-1]
    <3>1. /\ q \in Seq(S) /\ Len(q) \in Nat /\ Len(q) <= k - 1
          /\ \A j \in 1..Len(q) : \E i \in 1..(k-1) : q[j] = s[i] /\ s[i] \notin gone
          /\ \A i \in 1..(k-1) : s[i] \notin gone => \E j \in 1..Len(q) : q[j] = s[i]
      BY <2>2
    <3>2. s[k] \in S BY <1>0
    <3>3. p[k] = IF s[k] \in gone THEN q ELSE Append(q, s[k]) BY <1>4
    <3>4. k \in Nat /\ \A i : i \in 1..k <=> i \in 1..(k-1) \/ i = k BY <1>0
    <3> HIDE DEF q
    <3>5. CASE s[k] \in gone
      <4>1. p[k] = q BY <3>5, <3>3
      <4>2. /\ q \in Seq(S) /\ Len(q) <= k
            /\ \A j \in 1..Len(q) : \E i \in 1..k : q[j] = s[i] /\ s[i] \notin gone
            /\ \A i \in 1..k : s[i] \notin gone => \E j \in 1..Len(q) : q[j] = s[i]
        BY <3>5, <3>1, <3>4
      <4> QED BY <4>1, <4>2, <1>0
    <3>6. CASE s[k] \notin gone
      <4> DEFINE r == Append(q, s[k])
      <4>1. p[k] = r BY <3>6, <3>3
      <4>2. /\ r \in Seq(S) /\ Len(r) = Len(q) + 1 /\ r[Len(q) + 1] = s[k]
            /\ \A j \in 1..Len(q) : r[j] = q[j]
        BY <3>1, <3>2
      <4> HIDE DEF r
      <4>3. \A j : j \in 1..Len(r) <=> j \in 1..Len(q) \/ j = Len(q) + 1 BY <4>2, <3>1
      <4>4. ASSUME NEW j \in 1..Len(r)
            PROVE  \E i \in 1..k : r[j] = s[i] /\ s[i] \notin gone
        <5>1. CASE j = Len(q) + 1 BY <5>1, <3>4, <3>6, <4>2
        <5>2. CASE j \in 1..Len(q)
          <6>1. PICK i \in 1..(k-1) : q[j] = s[i] /\ s[i] \notin gone BY <3>1, <5>2
          <6> QED BY <6>1, <5>2, <4>2, <3>4
        <5> QED BY <5>1, <5>2, <4>3
      <4>5. \A i \in 1..k : s[i] \notin gone => \E j \in 1..Len(r) : r[j] = s[i]
        BY <3>1, <3>4, <3>6, <4>2, <4>3
      <4>6. Len(r) <= k BY <4>2, <3>1, <3>4
      <4>7. /\ p[k] \in Seq(S) /\ Len(p[k]) <= k
            /\ \A j \in 1..Len(p[k]) : \E i \in 1..k : p[k][j] = s[i] /\ s[i] \notin gone
            /\ \A i \in 1..k : s[i] \notin gone => \E j \in 1..Len(p[k]) : p[k][j] = s[i]
        BY <4>1, <4>2, <4>4, <4>5, <4>6
      <4> QED BY <4>7, <1>0
    <3> QED BY <3>5, <3>6
  <2> HIDE DEF T
  <2> QED BY <1>0, <2>1, <2>2, StepByStep
<1>6. /\ p[N] \in Seq(S) /\ Len(p[N]) <= N
      /\ \A j \in 1..Len(p[N]) : \E i \in 1..N : p[N][j] = s[i] /\ s[i] \notin gone
      /\ \A i \in 1..N : s[i] \notin gone => \E j \in 1..Len(p[N]) : p[N][j] = s[i]
  <2>1. N \in T BY <1>5, <1>0
  <2> QED BY <2>1, Zenon
<1>7. Range(p[N]) = Range(s) \ gone
  <2>1. DOMAIN p[N] = 1..Len(p[N]) BY <1>6
  <2>2. \A x \in Range(p[N]) : x \in Range(s) \ gone BY <1>6, <1>0, <2>1 DEF Range
  <2>3. \A x \in Range(s) \ gone : x \in Range(p[N])
    <3> SUFFICES ASSUME NEW i \in 1..N, s[i] \notin gone PROVE s[i] \in Range(p[N])
      BY <1>0 DEF Range
    <3>1. PICK j \in 1..Len(p[N]) : p[N][j] = s[i] BY <1>6
    <3> QED BY <3>1, <2>1 DEF Range
  <2> QED BY <2>2, <2>3
<1>8. ASSUME IsInjective(s) PROVE IsInjective(p[N])
  <2> DEFINE U == {k \in 0..N : \A a, b \in 1..Len(p[k]) : p[k][a] = p[k][b] => a = b}
  <2>1. 0 \in U BY <1>3, <1>0
  <2>2. ASSUME NEW k \in 1..N, k - 1 \in U PROVE k \in U
    <3> DEFINE q == p[k-1]
    <3>1. /\ q \in Seq(S) /\ Len(q) \in Nat
          /\ \A j \in 1..Len(q) : \E i \in 1..(k-1) : q[j] = s[i]
      <4>1. k - 1 \in 0..N BY <1>0
      <4> QED BY <4>1, <1>5
    <3>2. \A a, b \in 1..Len(q) : q[a] = q[b] => a = b BY <2>2
    <3>3. s[k] \in S /\ k \in 1..N BY <1>0
    <3>4. p[k] = IF s[k] \in gone THEN q ELSE Append(q, s[k]) BY <1>4
    <3> HIDE DEF q
    <3>5. CASE s[k] \in gone BY <3>5, <3>4, <3>2, <1>0
    <3>6. CASE s[k] \notin gone
      <4> DEFINE r == Append(q, s[k])
      <4>1. p[k] = r BY <3>6, <3>4
      <4>2. /\ Len(r) = Len(q) + 1 /\ r[Len(q) + 1] = s[k]
            /\ \A j \in 1..Len(q) : r[j] = q[j]
        BY <3>1, <3>3
      <4> HIDE DEF r
      <4>3. \A j : j \in 1..Len(r) <=> j \in 1..Len(q) \/ j = Len(q) + 1 BY <4>2, <3>1
      <4>4. ASSUME NEW j \in 1..Len(q) PROVE q[j] # s[k]
        <5>1. PICK i \in 1..(k-1) : q[j] = s[i] BY <3>1
        <5>2. i \in 1..N /\ i # k BY <1>0, <3>3
        <5> QED BY <5>1, <5>2, <3>3, <1>8, <1>0 DEF IsInjective
      <4>5. \A a, b \in 1..Len(r) : r[a] = r[b] => a = b BY <4>2, <4>3, <4>4, <3>2
      <4> QED BY <4>1, <4>5, <1>0
    <3> QED BY <3>5, <3>6
  <2>3. \A k \in 0..N : k \in U
    <3> HIDE DEF U
    <3> QED BY <1>0, <2>1, <2>2, StepByStep
  <2>4. \A a, b \in 1..Len(p[N]) : p[N][a] = p[N][b] => a = b BY <2>3, <1>0
  <2>5. DOMAIN p[N] = 1..Len(p[N]) BY <1>6
  <2> QED BY <2>4, <2>5 DEF IsInjective
<1>9. ASSUME gone \cap Range(s) = {} PROVE p[N] = s
  <2> DEFINE V == {k \in 0..N : Len(p[k]) = k /\ \A j \in 1..k : p[k][j] = s[j]}
  <2>1. 0 \in V BY <1>3, <1>0
  <2>2. ASSUME NEW k \in 1..N, k - 1 \in V PROVE k \in V
    <3> DEFINE q == p[k-1]
    <3>1. q \in Seq(S) /\ Len(q) = k - 1 /\ \A j \in 1..(k-1) : q[j] = s[j]
      <4>1. k - 1 \in 0..N BY <1>0
      <4> QED BY <4>1, <1>5, <2>2
    <3>2. s[k] \in S /\ s[k] \notin gone BY <1>0, <1>9 DEF Range
    <3>3. p[k] = Append(q, s[k]) BY <1>4, <3>2
    <3> HIDE DEF q
    <3>4. Len(p[k]) = k /\ \A j \in 1..k : p[k][j] = s[j]
      <4>1. /\ Len(Append(q, s[k])) = Len(q) + 1 /\ Append(q, s[k])[Len(q) + 1] = s[k]
            /\ \A j \in 1..Len(q) : Append(q, s[k])[j] = q[j]
        BY <3>1, <3>2
      <4> QED BY <4>1, <3>1, <3>3, <1>0
    <3> QED BY <3>4, <1>0
  <2>3. \A k \in 0..N : k \in V
    <3> HIDE DEF V
    <3> QED BY <1>0, <2>1, <2>2, StepByStep
  <2>4. Len(p[N]) = N /\ \A j \in 1..N : p[N][j] = s[j] BY <2>3, <1>0
  <2> QED BY <2>4, <1>6, SeqEqual DEF N
<1> QED BY <1>1, <1>6, <1>7, <1>8, <1>9 DEF N

-------------------------------------------------------------------------------
(* The counters and a tick.                                                 *)

\* The smaller of two numbers.
LEMMA SmallerOfTwo ==
  ASSUME NEW a \in Int, NEW b \in Int
  PROVE  Min({a, b}) = IF a <= b THEN a ELSE b
<1>1. \E x \in {a, b} : \A y \in {a, b} : x <= y OBVIOUS
<1>2. /\ Min({a, b}) \in {a, b}
      /\ \A y \in {a, b} : Min({a, b}) <= y
  BY <1>1 DEF Min
<1> QED BY <1>2

\* A counter goes up by one until it is as long as it needs to be.
LEMMA LongerIs ==
  ASSUME NEW n \in Nat
  PROVE  /\ Longer(n) \in Nat
         /\ Longer(n) = IF n + 1 <= still_ticks THEN n + 1 ELSE still_ticks
<1>1. n + 1 \in Int /\ still_ticks \in Nat BY FreezeConstants
<1> QED BY <1>1, SmallerOfTwo DEF Longer

\* Counters that are all zero.
LEMMA ZerosAre ==
  ASSUME NEW n \in Nat
  PROVE  /\ Zeros(n) \in Seq(Nat) /\ Len(Zeros(n)) = n
         /\ \A b \in 1..n : Zeros(n)[b] = 0
BY DEF Zeros

\* The state of the model and of weft_freeze_t: nothing is a body twice.
FreezeTypeOK ==
  /\ bodies \in Seq(Name) /\ IsInjective(bodies)
  /\ geoms \in [Name -> Nat] /\ world \in [Name -> Nat]
  /\ still_for \in Seq(Nat)
  /\ moving \subseteq Name /\ island \in [Name -> 0..ISLANDS]
  /\ held \in [Name -> Nat] /\ thaws \in 0..MAX_THAWS

\* The counters of a tick are counters of the bodies there are.
LEMMA CountedIs ==
  ASSUME FreezeTypeOK, Len(still_for) = Len(bodies), NEW mv
  PROVE  /\ Counted(mv) \in Seq(Nat) /\ Len(Counted(mv)) = Len(bodies)
         /\ \A b \in 1..Len(bodies) :
              Counted(mv)[b] = IF bodies[b] \notin Keep /\ bodies[b] \notin mv
                                 THEN Longer(still_for[b]) ELSE 0
<1>1. Len(bodies) \in Nat /\ DOMAIN bodies = 1..Len(bodies) BY DEF FreezeTypeOK
<1>2. \A b \in 1..Len(bodies) : Longer(still_for[b]) \in Nat
  <2>1. \A b \in 1..Len(bodies) : still_for[b] \in Nat
    <3>1. still_for \in Seq(Nat) BY DEF FreezeTypeOK
    <3> QED BY <3>1
  <2> QED BY <2>1, LongerIs
<1>3. Counted(mv) = [b \in 1..Len(bodies) |->
        IF bodies[b] \notin Keep /\ bodies[b] \notin mv THEN Longer(still_for[b]) ELSE 0]
  BY <1>1 DEF Counted, Place, is_freezable
<1>4. Counted(mv) \in [1..Len(bodies) -> Nat] BY <1>2, <1>3
<1> HIDE DEF Counted
<1> QED BY <1>1, <1>3, <1>4

\* What is ripe may be frozen and has been still for long enough.
LEMMA RipeIsReady ==
  ASSUME NEW still, NEW isl, NEW b \in Ripe(Ready(still, isl), isl)
  PROVE  /\ b \in Place /\ b \in Ready(still, isl)
         /\ bodies[b] \notin Keep /\ still[b] >= still_ticks
<1>1. b \in Ready(still, isl) BY DEF Ripe
<1>2. b \in Place /\ b \in Island(b, isl) BY <1>1 DEF Ready, Island
<1> QED BY <1>1, <1>2 DEF Ready, is_freezable

\* The names of the ripe bodies of a tick that counts.
Gone(mv, isl) == {bodies[b] : b \in Ripe(Ready(Counted(mv), isl), isl)}

\* A tick either counts, moves the geoms of what is gone to the world and lets the bodies
\* that stay move up, or it leaves the model alone.
LEMMA TickIs ==
  ASSUME FreezeTypeOK, Tick
  PROVE  \E gone \in SUBSET Range(bodies) :
         /\ bodies' = Without(bodies, gone)
         /\ world' = [n \in Name |-> world[n] + IF n \in gone THEN geoms[n] ELSE 0]
         /\ geoms' = [n \in Name |-> IF n \in gone THEN 0 ELSE geoms[n]]
         /\ gone # {} => Len(still_for) = Len(bodies) /\ gone = Gone(moving', island')
         /\ \/ still_for' = Zeros(Len(bodies'))
            \/ gone = {} /\ Len(still_for) = Len(bodies) /\ still_for' = Counted(moving')
            \/ gone = {} /\ "alloc" \in Faults /\ still_for' = still_for
            \/ /\ Len(still_for) = Len(bodies) /\ "alloc" \in Faults
               /\ still_for' = Counted(moving')
<1>0. bodies \in Seq(Name) /\ geoms \in [Name -> Nat] /\ world \in [Name -> Nat]
  BY DEF FreezeTypeOK
<1>1. ASSUME UNCHANGED << bodies, geoms, world >>
      PROVE  /\ bodies' = Without(bodies, {})
             /\ world' = [n \in Name |-> world[n] + IF n \in {} THEN geoms[n] ELSE 0]
             /\ geoms' = [n \in Name |-> IF n \in {} THEN 0 ELSE geoms[n]]
  <2>1. Without(bodies, {}) = bodies BY <1>0, WithoutFacts
  <2>2. /\ world = [n \in Name |-> world[n] + 0]
        /\ geoms = [n \in Name |-> geoms[n]]
    BY <1>0
  <2> QED BY <1>1, <2>1, <2>2
<1>2. CASE Resize
  <2>1. UNCHANGED << bodies, geoms, world >> /\ still_for' = Zeros(Len(bodies'))
    BY <1>2 DEF Resize, Resized
  <2> QED BY <1>1, <2>1
<1>3. CASE Skip
  <2>1. UNCHANGED << bodies, geoms, world >> /\ "alloc" \in Faults /\ still_for' = still_for
    BY <1>3 DEF Skip
  <2> QED BY <1>1, <2>1
<1>4. CASE Promote(moving', island')
  <2> DEFINE gone == Gone(moving', island')
  <2>1. gone \in SUBSET Range(bodies)
    <3> SUFFICES ASSUME NEW b \in Ripe(Ready(Counted(moving'), island'), island')
                 PROVE  bodies[b] \in Range(bodies)
      BY DEF Gone
    <3>1. b \in DOMAIN bodies BY RipeIsReady DEF Place
    <3> QED BY <3>1 DEF Range
  <2>2. /\ Len(still_for) = Len(bodies)
        /\ bodies' = Without(bodies, gone)
        /\ world' = [n \in Name |-> world[n] + IF n \in gone THEN geoms[n] ELSE 0]
        /\ geoms' = [n \in Name |-> IF n \in gone THEN 0 ELSE geoms[n]]
        /\ \/ still_for' = IF gone = {} THEN Counted(moving')
                           ELSE Recounted(Counted(moving'), Without(bodies, gone))
           \/ "alloc" \in Faults /\ gone # {} /\ still_for' = Counted(moving')
    BY <1>4 DEF Promote, Gone
  <2> HIDE DEF gone
  <2>3. \/ gone = {} /\ still_for' = Counted(moving')
        \/ still_for' = Zeros(Len(bodies'))
        \/ "alloc" \in Faults /\ still_for' = Counted(moving')
    BY <2>2 DEF Recounted
  <2> QED BY <2>1, <2>2, <2>3 DEF gone
<1> QED BY <1>2, <1>3, <1>4 DEF Tick

\* Every state is a state of the model: freezing and thawing never make a thing a body twice.
LEMMA FreezeTypes == Spec => []FreezeTypeOK
<1>1. Init => FreezeTypeOK
  <2> SUFFICES ASSUME Init PROVE FreezeTypeOK OBVIOUS
  <2>1. Cardinality(Name) \in Nat BY FreezeConstants, FS_CardinalityType
  <2>2. bodies \in [1..Cardinality(Name) -> Name]
        /\ \A i, j \in 1..Cardinality(Name) : i # j => bodies[i] # bodies[j]
    BY FreezeConstants DEF Init, SetToSeqs
  <2>3. bodies \in Seq(Name) /\ IsInjective(bodies) BY <2>1, <2>2 DEF IsInjective
  <2>4. geoms \in [Name -> Nat] /\ world \in [Name -> Nat] BY FreezeConstants DEF Init
  <2>5. still_for \in Seq(Nat) BY <2>1, ZerosAre DEF Init
  <2>6. moving \subseteq Name /\ island \in [Name -> 0..ISLANDS] /\ held \in [Name -> Nat]
        /\ thaws \in 0..MAX_THAWS
    BY FreezeConstants DEF Init
  <2> QED BY <2>3, <2>4, <2>5, <2>6 DEF FreezeTypeOK
<1>2. FreezeTypeOK /\ [Next]_vars => FreezeTypeOK'
  <2> SUFFICES ASSUME FreezeTypeOK, [Next]_vars PROVE FreezeTypeOK' OBVIOUS
  <2>1. ASSUME Tick PROVE FreezeTypeOK'
    <3>1. bodies \in Seq(Name) /\ IsInjective(bodies) BY DEF FreezeTypeOK
    <3>2. bodies' \in Seq(Name) /\ IsInjective(bodies')
      BY <2>1, <3>1, TickIs, WithoutFacts
    <3>3. geoms' \in [Name -> Nat] /\ world' \in [Name -> Nat]
      <4>1. geoms \in [Name -> Nat] /\ world \in [Name -> Nat] BY DEF FreezeTypeOK
      <4> QED BY <2>1, <4>1, TickIs
    <3>4. still_for' \in Seq(Nat)
      <4>1. Len(bodies') \in Nat BY <3>2
      <4>2. Zeros(Len(bodies')) \in Seq(Nat) BY <4>1, ZerosAre
      <4>3. still_for \in Seq(Nat) BY DEF FreezeTypeOK
      <4> QED BY <2>1, <4>2, <4>3, TickIs, CountedIs
    <3>5. moving' \subseteq Name
      <4>1. Range(bodies) \subseteq Name BY <3>1 DEF Range
      <4> QED BY <4>1, <2>1 DEF Tick, Physics
    <3>6. island' \in [Name -> 0..ISLANDS] BY <2>1 DEF Tick, Physics, Leaning
    <3>7. held' \in [Name -> Nat]
      <4>1. held \in [Name -> Nat] BY DEF FreezeTypeOK
      <4>2. \A n \in Name : Longer(held[n]) \in Nat BY <4>1, LongerIs
      <4> QED BY <2>1, <4>1, <4>2 DEF Tick, Physics
    <3>8. thaws' \in 0..MAX_THAWS BY <2>1 DEF Tick, FreezeTypeOK
    <3> QED BY <3>2, <3>3, <3>4, <3>5, <3>6, <3>7, <3>8 DEF FreezeTypeOK
  <2>2. ASSUME NEW n \in Name, Thaw(n) PROVE FreezeTypeOK'
    <3>1. bodies \in Seq(Name) /\ IsInjective(bodies) /\ n \notin Range(bodies)
      BY <2>2 DEF FreezeTypeOK, Thaw
    <3>2. bodies' = Append(bodies, n) BY <2>2 DEF Thaw
    <3>3. bodies' \in Seq(Name) /\ IsInjective(bodies')
      <4>1. \A b \in 1..Len(bodies) : bodies[b] # n BY <3>1 DEF Range
      <4>2. /\ bodies' \in Seq(Name) /\ Len(bodies') = Len(bodies) + 1
            /\ \A b \in 1..Len(bodies) : bodies'[b] = bodies[b]
            /\ bodies'[Len(bodies) + 1] = n
        BY <3>1, <3>2
      <4>3. \A a, b \in 1..Len(bodies) : bodies[a] = bodies[b] => a = b
        BY <3>1 DEF IsInjective
      <4>4. \A b : b \in 1..Len(bodies') <=> b \in 1..Len(bodies) \/ b = Len(bodies) + 1
        BY <4>2, <3>1
      <4>5. DOMAIN bodies' = 1..Len(bodies') BY <4>2
      <4>6. \A a, b \in DOMAIN bodies' : bodies'[a] = bodies'[b] => a = b
        BY <4>1, <4>2, <4>3, <4>4, <4>5
      <4> QED BY <4>2, <4>6 DEF IsInjective
    <3>4. FoundGeoms(n) \in Nat /\ world[n] - FoundGeoms(n) \in Nat
      <4>1. world[n] \in Nat /\ MAX_IDS \in Nat BY FreezeConstants DEF FreezeTypeOK
      <4>2. FoundGeoms(n) = IF world[n] <= MAX_IDS THEN world[n] ELSE MAX_IDS
        BY <4>1, SmallerOfTwo DEF FoundGeoms
      <4> QED BY <4>1, <4>2
    <3>5. geoms' \in [Name -> Nat] /\ world' \in [Name -> Nat]
      BY <2>2, <3>4 DEF Thaw, FreezeTypeOK
    <3>6. held' \in [Name -> Nat] BY <2>2 DEF Thaw, FreezeTypeOK
    <3>7. thaws' \in 0..MAX_THAWS BY <2>2, FreezeConstants DEF Thaw, FreezeTypeOK
    <3>8. UNCHANGED << still_for, moving, island >> BY <2>2 DEF Thaw
    <3> QED BY <3>3, <3>5, <3>6, <3>7, <3>8 DEF FreezeTypeOK
  <2>3. CASE UNCHANGED vars BY <2>3 DEF vars, FreezeTypeOK
  <2> QED BY <2>1, <2>2, <2>3 DEF Next
<1> QED BY <1>1, <1>2, PTL DEF Spec

\* What a step of the tick froze is what is gone, or nothing.
LEMMA FrozenIsGone ==
  ASSUME FreezeTypeOK, Tick
  PROVE  \/ Frozen = {}
         \/ Len(still_for) = Len(bodies) /\ Frozen = Gone(moving', island')
<1>1. PICK gone \in SUBSET Range(bodies) :
        /\ bodies' = Without(bodies, gone)
        /\ gone # {} => Len(still_for) = Len(bodies) /\ gone = Gone(moving', island')
  BY TickIs
<1>2. Range(bodies') = Range(bodies) \ gone BY <1>1, WithoutFacts DEF FreezeTypeOK
<1>3. Frozen = gone BY <1>2 DEF Frozen
<1> QED BY <1>1, <1>3

\* A thaw freezes nothing.
LEMMA ThawFreezesNothing ==
  ASSUME FreezeTypeOK, NEW n \in Name, Thaw(n)
  PROVE  Frozen = {}
<1>1. bodies \in Seq(Name) /\ bodies' = Append(bodies, n) BY DEF Thaw, FreezeTypeOK
<1>2. /\ DOMAIN bodies = 1..Len(bodies) /\ DOMAIN bodies' = 1..(Len(bodies) + 1)
      /\ \A b \in 1..Len(bodies) : bodies'[b] = bodies[b] /\ b \in 1..(Len(bodies) + 1)
  BY <1>1
<1> QED BY <1>2 DEF Frozen, Range

-------------------------------------------------------------------------------
(* The theorems.                                                            *)

\* A thing is never lost, halved or doubled by freezing and thawing, when a thaw has room
\* for the geoms of every thing (ids[] of weft_thaw).
THEOREM NothingIsLost ==
  ASSUME \A n \in Name : PIECES[n] <= MAX_IDS
  PROVE  Spec => []ThingsAreWhole
<1>1. Init => ThingsAreWhole
  <2> SUFFICES ASSUME Init, NEW n \in Name
               PROVE  n \in Range(bodies) /\ geoms[n] = PIECES[n] /\ world[n] = 0
    BY DEF ThingsAreWhole
  <2>1. IsFiniteSet(Name) /\ Cardinality(Name) \in Nat BY FreezeConstants, FS_CardinalityType
  <2> DEFINE P == 1..Cardinality(Name)
  <2>2. bodies \in Injection(P, Name)
    <3>1. bodies \in [P -> Name] /\ \A i, j \in P : i # j => bodies[i] # bodies[j]
      BY FreezeConstants DEF Init, SetToSeqs
    <3> QED BY <3>1 DEF Injection, IsInjective
  <2>3. Cardinality(P) = Cardinality(Name) BY <2>1, FS_Interval
  <2>4. bodies \in Surjection(P, Name)
    <3> HIDE DEF P
    <3> QED BY <2>1, <2>2, <2>3, FS_Injection
  <2>5. n \in Range(bodies) BY <2>4 DEF Surjection, Range
  <2> QED BY <2>5 DEF Init
<1>2. FreezeTypeOK /\ ThingsAreWhole /\ [Next]_vars => ThingsAreWhole'
  <2> SUFFICES ASSUME FreezeTypeOK, ThingsAreWhole, [Next]_vars PROVE ThingsAreWhole'
    OBVIOUS
  <2>0. /\ bodies \in Seq(Name) /\ geoms \in [Name -> Nat] /\ world \in [Name -> Nat]
        /\ PIECES \in [Name -> Nat \ {0}] /\ MAX_IDS \in Nat
    BY FreezeConstants DEF FreezeTypeOK
  <2>1. ASSUME Tick PROVE ThingsAreWhole'
    <3>1. PICK gone \in SUBSET Range(bodies) :
            /\ bodies' = Without(bodies, gone)
            /\ world' = [n \in Name |-> world[n] + IF n \in gone THEN geoms[n] ELSE 0]
            /\ geoms' = [n \in Name |-> IF n \in gone THEN 0 ELSE geoms[n]]
      BY <2>1, TickIs
    <3>2. Range(bodies') = Range(bodies) \ gone BY <3>1, <2>0, WithoutFacts
    <3> SUFFICES ASSUME NEW n \in Name
                 PROVE  \/ n \in Range(bodies') /\ geoms'[n] = PIECES[n] /\ world'[n] = 0
                        \/ n \notin Range(bodies') /\ geoms'[n] = 0 /\ world'[n] = PIECES[n]
      BY DEF ThingsAreWhole
    <3>3. /\ world'[n] = world[n] + IF n \in gone THEN geoms[n] ELSE 0
          /\ geoms'[n] = IF n \in gone THEN 0 ELSE geoms[n]
      BY <3>1
    <3>4. \/ n \in Range(bodies) /\ geoms[n] = PIECES[n] /\ world[n] = 0
          \/ n \notin Range(bodies) /\ geoms[n] = 0 /\ world[n] = PIECES[n]
      BY DEF ThingsAreWhole
    <3>5. PIECES[n] \in Nat BY <2>0
    <3> QED BY <3>1, <3>2, <3>3, <3>4, <3>5
  <2>2. ASSUME NEW n \in Name, Thaw(n) PROVE ThingsAreWhole'
    <3>1. n \notin Range(bodies) /\ geoms[n] = 0 /\ world[n] = PIECES[n]
      BY <2>2 DEF Thaw, ThingsAreWhole
    <3>2. FoundGeoms(n) = PIECES[n]
      <4>1. PIECES[n] \in Nat /\ PIECES[n] <= MAX_IDS BY <2>0
      <4> QED BY <3>1, <4>1, <2>0, SmallerOfTwo DEF FoundGeoms
    <3>3. geoms'[n] = PIECES[n] /\ world'[n] = 0
      <4>1. PIECES[n] \in Nat BY <2>0
      <4> QED BY <2>2, <2>0, <3>1, <3>2, <4>1 DEF Thaw
    <3>4. \A m \in Name \ {n} : geoms'[m] = geoms[m] /\ world'[m] = world[m]
      BY <2>2, <2>0 DEF Thaw
    <3>5. Range(bodies') = Range(bodies) \cup {n}
      <4>1. bodies' = Append(bodies, n) BY <2>2 DEF Thaw
      <4>2. /\ DOMAIN bodies = 1..Len(bodies) /\ DOMAIN bodies' = 1..(Len(bodies) + 1)
            /\ \A b \in 1..Len(bodies) : bodies'[b] = bodies[b]
            /\ bodies'[Len(bodies) + 1] = n /\ Len(bodies) \in Nat
        BY <4>1, <2>0
      <4>3. \A b : b \in 1..(Len(bodies) + 1) <=> b \in 1..Len(bodies) \/ b = Len(bodies) + 1
        BY <4>2
      <4> QED BY <4>2, <4>3 DEF Range
    <3> QED BY <3>3, <3>4, <3>5 DEF ThingsAreWhole
  <2>3. CASE UNCHANGED vars BY <2>3 DEF vars, ThingsAreWhole
  <2> QED BY <2>1, <2>2, <2>3 DEF Next
<1> QED BY <1>1, <1>2, FreezeTypes, PTL DEF Spec

\* The counters never say more than the bodies at their places have held: as long as they
\* are as many as the bodies, and they never are more.
CountersAreTrue ==
  /\ Len(still_for) <= Len(bodies)
  /\ Len(still_for) = Len(bodies) =>
       \A b \in 1..Len(bodies) : still_for[b] <= held[bodies[b]]

\* A count that is behind another stays behind it.
LEMMA LongerKeepsOrder ==
  ASSUME NEW a \in Nat, NEW b \in Nat, a <= b
  PROVE  Longer(a) <= Longer(b)
<1>1. still_ticks \in Nat BY FreezeConstants
<1>2. /\ Longer(a) = IF a + 1 <= still_ticks THEN a + 1 ELSE still_ticks
      /\ Longer(b) = IF b + 1 <= still_ticks THEN b + 1 ELSE still_ticks
  BY LongerIs
<1> QED BY <1>1, <1>2

\* When a tick counts, what it counts is behind what the body has held after it.
LEMMA CountedIsHeld ==
  ASSUME FreezeTypeOK, CountersAreTrue, Len(still_for) = Len(bodies),
         Tick, NEW b \in 1..Len(bodies)
  PROVE  Counted(moving')[b] <= held'[bodies[b]]
<1> DEFINE n == bodies[b]
           mv == moving'
<1>1. n \in Name /\ n \in Range(bodies) /\ still_for[b] \in Nat /\ held[n] \in Nat
  <2>1. n \in Name BY DEF FreezeTypeOK
  <2>2. n \in Range(bodies)
    <3>1. b \in DOMAIN bodies BY DEF FreezeTypeOK
    <3> QED BY <3>1 DEF Range
  <2>3. still_for[b] \in Nat
    <3>1. still_for \in Seq(Nat) BY DEF FreezeTypeOK
    <3>2. b \in 1..Len(still_for) OBVIOUS
    <3> QED BY <3>1, <3>2
  <2> QED BY <2>1, <2>2, <2>3 DEF FreezeTypeOK
<1>2. still_for[b] <= held[n] BY DEF CountersAreTrue
<1>3. held'[n] = IF n \in mv THEN 0 ELSE Longer(held[n])
  BY <1>1 DEF Tick, Physics
<1>4. Counted(mv)[b] = IF n \notin Keep /\ n \notin mv THEN Longer(still_for[b]) ELSE 0
  BY CountedIs
<1>5. Longer(still_for[b]) <= Longer(held[n]) /\ Longer(held[n]) \in Nat
  BY <1>1, <1>2, LongerKeepsOrder, LongerIs
<1> HIDE DEF n, mv
<1>6. CASE n \in mv
  <2>1. Counted(mv)[b] = 0 /\ held'[n] = 0 BY <1>3, <1>4, <1>6
  <2> QED BY <2>1 DEF n, mv
<1>7. CASE n \notin mv /\ n \in Keep
  <2>1. Counted(mv)[b] = 0 /\ held'[n] = Longer(held[n]) BY <1>3, <1>4, <1>7
  <2> QED BY <2>1, <1>5 DEF n, mv
<1>8. CASE n \notin mv /\ n \notin Keep
  <2>1. Counted(mv)[b] = Longer(still_for[b]) /\ held'[n] = Longer(held[n])
    BY <1>3, <1>4, <1>8
  <2> QED BY <2>1, <1>5 DEF n, mv
<1> QED BY <1>6, <1>7, <1>8

\* Without a failed allocation the counters are true.
LEMMA CountersStayTrue ==
  ASSUME Faults = {}
  PROVE  Spec => []CountersAreTrue
<1>1. Init => CountersAreTrue
  <2> SUFFICES ASSUME Init PROVE CountersAreTrue OBVIOUS
  <2>1. Cardinality(Name) \in Nat BY FreezeConstants, FS_CardinalityType
  <2>2. bodies \in [1..Cardinality(Name) -> Name] BY FreezeConstants DEF Init, SetToSeqs
  <2>3. Len(bodies) = Cardinality(Name) BY <2>1, <2>2
  <2>4. Len(still_for) = Cardinality(Name) /\ \A b \in 1..Cardinality(Name) : still_for[b] = 0
    BY <2>1, ZerosAre DEF Init
  <2>5. \A b \in 1..Cardinality(Name) : held[bodies[b]] = 0 BY <2>2 DEF Init
  <2> QED BY <2>1, <2>3, <2>4, <2>5 DEF CountersAreTrue
<1>2. FreezeTypeOK /\ FreezeTypeOK' /\ CountersAreTrue /\ [Next]_vars => CountersAreTrue'
  <2> SUFFICES ASSUME FreezeTypeOK, FreezeTypeOK', CountersAreTrue, [Next]_vars
               PROVE  CountersAreTrue'
    OBVIOUS
  <2>0. bodies \in Seq(Name) /\ bodies' \in Seq(Name) /\ held' \in [Name -> Nat]
        /\ Len(bodies) \in Nat /\ Len(bodies') \in Nat
    BY DEF FreezeTypeOK
  <2>1. ASSUME Tick PROVE CountersAreTrue'
    <3>0. PICK gone \in SUBSET Range(bodies) :
            /\ bodies' = Without(bodies, gone)
            /\ \/ still_for' = Zeros(Len(bodies'))
               \/ /\ gone = {} /\ Len(still_for) = Len(bodies)
                  /\ still_for' = Counted(moving')
      BY <2>1, TickIs
    <3>1. CASE still_for' = Zeros(Len(bodies'))
      <4>1. Len(still_for') = Len(bodies') /\ \A b \in 1..Len(bodies') : still_for'[b] = 0
        BY <3>1, <2>0, ZerosAre
      <4>2. \A b \in 1..Len(bodies') : held'[bodies'[b]] \in Nat BY <2>0
      <4> QED BY <4>1, <4>2, <2>0 DEF CountersAreTrue
    <3>2. CASE /\ gone = {} /\ Len(still_for) = Len(bodies)
               /\ still_for' = Counted(moving')
      <4>1. bodies' = bodies
        <5>1. bodies' = Without(bodies, {}) BY <3>0, <3>2
        <5> QED BY <5>1, <2>0, WithoutFacts
      <4>2. Len(still_for') = Len(bodies) BY <3>2, CountedIs
      <4>3. \A b \in 1..Len(bodies) : still_for'[b] <= held'[bodies[b]]
        BY <2>1, <3>2, CountedIsHeld
      <4> QED BY <4>1, <4>2, <4>3, <2>0 DEF CountersAreTrue
    <3> QED BY <3>0, <3>1, <3>2
  <2>2. ASSUME NEW n \in Name, Thaw(n) PROVE CountersAreTrue'
    <3>1. Len(bodies') = Len(bodies) + 1 /\ still_for' = still_for
      BY <2>2, <2>0 DEF Thaw
    <3>2. Len(still_for) \in Nat /\ Len(still_for) <= Len(bodies)
      BY DEF CountersAreTrue, FreezeTypeOK
    <3> QED BY <3>1, <3>2, <2>0 DEF CountersAreTrue
  <2>3. CASE UNCHANGED vars BY <2>3 DEF vars, CountersAreTrue
  <2> QED BY <2>1, <2>2, <2>3 DEF Next
<1> QED BY <1>1, <1>2, FreezeTypes, PTL DEF Spec

\* Only what itself kept its place for still_ticks ticks is frozen, whatever the places its
\* counter had meanwhile, when the counters can always be allocated.
THEOREM OnlyTheStillFreeze ==
  ASSUME Faults = {}
  PROVE  Spec => FrozenWasStill
<1> DEFINE A == bodies' # bodies => \A n \in Frozen : held'[n] >= still_ticks /\ n \notin Keep
<1>1. ASSUME FreezeTypeOK, FreezeTypeOK', CountersAreTrue, [Next]_vars PROVE [A]_vars
  <2>0. bodies \in Seq(Name) /\ held' \in [Name -> Nat] /\ still_ticks \in Nat \ {0}
    BY <1>1, FreezeConstants DEF FreezeTypeOK
  <2>1. ASSUME Tick PROVE A
    <3> DEFINE mv == moving'
               isl == island'
    <3> SUFFICES ASSUME NEW n \in Frozen PROVE held'[n] >= still_ticks /\ n \notin Keep
      OBVIOUS
    <3>1. n \in Gone(mv, isl) /\ Len(still_for) = Len(bodies) BY <1>1, <2>1, FrozenIsGone
    <3> HIDE DEF mv, isl
    <3>4. PICK b \in Ripe(Ready(Counted(mv), isl), isl) : n = bodies[b] BY <3>1 DEF Gone
    <3>5. b \in 1..Len(bodies) /\ n \notin Keep /\ Counted(mv)[b] >= still_ticks
      BY <3>4, <2>0, RipeIsReady DEF Place
    <3>6. Counted(mv)[b] <= held'[n] BY <1>1, <2>1, <3>1, <3>4, <3>5, CountedIsHeld DEF mv
    <3>7. Counted(mv)[b] \in Nat BY <1>1, <3>1, <3>5, CountedIs
    <3>8. held'[n] \in Nat BY <2>0, <3>4, <3>5
    <3> QED BY <2>0, <3>5, <3>6, <3>7, <3>8
  <2>2. ASSUME NEW n \in Name, Thaw(n) PROVE A
    <3>1. Frozen = {} BY <1>1, <2>2, ThawFreezesNothing
    <3> QED BY <3>1
  <2> QED BY <1>1, <2>1, <2>2 DEF Next
<1> QED BY <1>1, FreezeTypes, CountersStayTrue, PTL DEF Spec, FrozenWasStill

-------------------------------------------------------------------------------
(* Whole stacks.                                                            *)

\* The first body of the island of a body.
First(x, isl) == Min(Island(x, isl))

\* The island of a body has a first one, and its bodies agree on which.
LEMMA FirstIs ==
  ASSUME FreezeTypeOK, NEW isl, NEW x \in Place
  PROVE  /\ x \in Nat /\ First(x, isl) \in Nat /\ First(x, isl) \in Island(x, isl)
<1>1. DOMAIN bodies = 1..Len(bodies) /\ Len(bodies) \in Nat BY DEF FreezeTypeOK
<1>2. Island(x, isl) \subseteq Nat /\ x \in Island(x, isl) BY <1>1 DEF Island, Place
<1>3. \E b \in Island(x, isl) : \A o \in Island(x, isl) : b <= o BY <1>2, LeastNatural
<1>4. First(x, isl) \in Island(x, isl) BY <1>3 DEF First, Min
<1> QED BY <1>2, <1>4

\* The loops come to one of two bodies before the other, and to none before itself.
LEMMA BeforeIsAnOrder ==
  ASSUME FreezeTypeOK, NEW isl, NEW a \in Place, NEW b \in Place
  PROVE  /\ ~Before(a, a, isl)
         /\ a = b \/ Before(a, b, isl) \/ Before(b, a, isl)
         /\ First(a, isl) < First(b, isl) => Before(a, b, isl)
         /\ \A c \in Place : Before(a, b, isl) /\ Before(b, c, isl) => Before(a, c, isl)
<1>1. \A x, y : Before(x, y, isl) <=> \/ First(x, isl) < First(y, isl)
                                      \/ First(x, isl) = First(y, isl) /\ x < y
  BY DEF Before, First
<1>2. \A x \in Place : x \in Nat /\ First(x, isl) \in Nat BY FirstIs
<1> HIDE DEF Before, First
<1>3. a \in Nat /\ b \in Nat /\ First(a, isl) \in Nat /\ First(b, isl) \in Nat BY <1>2
<1>4. ~Before(a, a, isl) BY <1>1, <1>3
<1>5. a = b \/ Before(a, b, isl) \/ Before(b, a, isl) BY <1>1, <1>3
<1>6. ASSUME NEW c \in Place, Before(a, b, isl), Before(b, c, isl)
      PROVE  Before(a, c, isl)
  <2>1. c \in Nat /\ First(c, isl) \in Nat BY <1>2
  <2> QED BY <1>1, <1>3, <1>6, <2>1
<1> QED BY <1>1, <1>4, <1>5, <1>6

\* How many of those ready the loops come to before b.
Ahead(ready, b, isl) == {o \in ready : Before(o, b, isl)}
Rank(ready, b, isl) == Cardinality(Ahead(ready, b, isl))

\* A body that is reached before another one has fewer ahead of it.
LEMMA RankGrows ==
  ASSUME FreezeTypeOK, NEW isl, NEW ready \in SUBSET Place, NEW a \in ready
  PROVE  /\ IsFiniteSet(ready) /\ Rank(ready, a, isl) \in Nat
         /\ \A b \in ready : Before(a, b, isl) => Rank(ready, a, isl) < Rank(ready, b, isl)
<1>1. IsFiniteSet(ready)
  <2>1. Place = 1..Len(bodies) /\ Len(bodies) \in Nat BY DEF FreezeTypeOK, Place
  <2>2. IsFiniteSet(1..Len(bodies)) BY <2>1, FS_Interval
  <2>3. IsFiniteSet(Place) BY <2>1, <2>2
  <2> QED BY <2>3, FS_Subset
<1>2. ASSUME NEW b \in ready
      PROVE  IsFiniteSet(Ahead(ready, b, isl)) /\ Rank(ready, b, isl) \in Nat
  <2>1. Ahead(ready, b, isl) \subseteq ready BY DEF Ahead
  <2> QED BY <1>1, <2>1, FS_Subset, FS_CardinalityType DEF Rank
<1>3. ASSUME NEW b \in ready, Before(a, b, isl)
      PROVE  Rank(ready, a, isl) < Rank(ready, b, isl)
  <2>1. Ahead(ready, a, isl) \subseteq Ahead(ready, b, isl) \ {a}
    BY <1>3, BeforeIsAnOrder DEF Ahead
  <2>2. a \in Ahead(ready, b, isl) BY <1>3 DEF Ahead
  <2>3. /\ IsFiniteSet(Ahead(ready, b, isl) \ {a})
        /\ Cardinality(Ahead(ready, b, isl) \ {a}) = Rank(ready, b, isl) - 1
    BY <1>2, <2>2, FS_RemoveElement DEF Rank
  <2>4. Rank(ready, a, isl) <= Cardinality(Ahead(ready, b, isl) \ {a})
    BY <2>1, <2>3, FS_Subset DEF Rank
  <2> QED BY <1>2, <2>3, <2>4
<1> QED BY <1>1, <1>2, <1>3

\* The ripe bodies are the first of those ready: never more than a tick may freeze, as many
\* when one that is ready has to wait, and none is taken before the ones ahead of it.
LEMMA RipeAreTheFirst ==
  ASSUME FreezeTypeOK, NEW isl, NEW ready \in SUBSET Place
  PROVE  LET ripe == Ripe(ready, isl)
         IN  /\ IsFiniteSet(ripe) /\ Cardinality(ripe) \in Nat
             /\ Cardinality(ripe) <= max_per_tick
             /\ ripe # ready => Cardinality(ripe) = max_per_tick
             /\ \A b \in ripe, o \in ready : Before(o, b, isl) => o \in ripe
<1> DEFINE ripe == Ripe(ready, isl)
           rank == [b \in ready |-> Rank(ready, b, isl)]
<1>0. max_per_tick \in Nat BY FreezeConstants
<1>1. /\ IsFiniteSet(ready) /\ \A b \in ready : rank[b] \in Nat
      /\ \A a, b \in ready : Before(a, b, isl) => rank[a] < rank[b]
  <2>1. CASE ready = {} BY <2>1, FS_EmptySet
  <2>2. CASE ready # {} BY <2>2, RankGrows
  <2> QED BY <2>1, <2>2
<1>2. /\ ripe \subseteq ready /\ \A b \in ready : b \in ripe <=> rank[b] < max_per_tick
  BY DEF Ripe, Rank, Ahead
<1>3. \A b \in ready : IsFiniteSet(Ahead(ready, b, isl))
                       /\ rank[b] = Cardinality(Ahead(ready, b, isl))
  <2>1. \A b \in ready : Ahead(ready, b, isl) \subseteq ready BY DEF Ahead
  <2> QED BY <1>1, <2>1, FS_Subset DEF Rank
<1> HIDE DEF ripe, rank
<1>4. IsFiniteSet(ripe) /\ Cardinality(ripe) \in Nat BY <1>1, <1>2, FS_Subset, FS_CardinalityType
<1>5. \A b \in ripe, o \in ready : Before(o, b, isl) => o \in ripe
  BY <1>0, <1>1, <1>2
<1>6. Cardinality(ripe) <= max_per_tick
  <2>1. CASE ripe = {} BY <1>0, <2>1, FS_EmptySet
  <2>2. CASE ripe # {}
    <3> DEFINE T == {max_per_tick - rank[b] : b \in ripe}
    <3>1. T \subseteq Nat /\ T # {} BY <1>0, <1>1, <1>2, <2>2
    <3>2. PICK t \in T : \A y \in T : t <= y BY <3>1, LeastNatural
    <3>3. PICK b \in ripe : t = max_per_tick - rank[b] BY <3>2
    <3>4. \A o \in ripe : rank[o] <= rank[b]
      <4> SUFFICES ASSUME NEW o \in ripe PROVE rank[o] <= rank[b] OBVIOUS
      <4>1. max_per_tick - rank[b] <= max_per_tick - rank[o] BY <3>2, <3>3
      <4>2. rank[o] \in Nat /\ rank[b] \in Nat BY <1>1, <1>2
      <4> QED BY <1>0, <4>1, <4>2
    <3> HIDE DEF T
    <3>5. ripe \ {b} \subseteq Ahead(ready, b, isl)
      <4> SUFFICES ASSUME NEW o \in ripe, o # b PROVE o \in Ahead(ready, b, isl) OBVIOUS
      <4>1. o \in ready /\ b \in ready /\ o \in Place /\ b \in Place BY <1>2
      <4>2. ~Before(b, o, isl)
        <5>1. rank[o] <= rank[b] /\ rank[o] \in Nat /\ rank[b] \in Nat BY <3>4, <4>1, <1>1
        <5> QED BY <5>1, <4>1, <1>1
      <4>3. Before(o, b, isl) BY <4>1, <4>2, BeforeIsAnOrder
      <4> QED BY <4>1, <4>3 DEF Ahead
    <3>6. Cardinality(ripe \ {b}) = Cardinality(ripe) - 1 BY <1>4, FS_RemoveElement
    <3>7. Cardinality(ripe \ {b}) <= rank[b] BY <1>2, <1>3, <3>5, FS_Subset
    <3>8. rank[b] \in Nat /\ rank[b] < max_per_tick BY <1>1, <1>2
    <3> QED BY <1>0, <1>4, <3>6, <3>7, <3>8
  <2> QED BY <2>1, <2>2
<1>7. ASSUME ripe # ready PROVE Cardinality(ripe) = max_per_tick
  <2> DEFINE T == {rank[b] : b \in ready \ ripe}
  <2>1. T \subseteq Nat /\ T # {} BY <1>1, <1>2, <1>7
  <2>2. PICK t \in T : \A y \in T : t <= y BY <2>1, LeastNatural
  <2>3. PICK b \in ready \ ripe : t = rank[b] BY <2>2
  <2>4. \A o \in ready \ ripe : rank[b] <= rank[o] BY <2>2, <2>3
  <2> HIDE DEF T
  <2>5. Ahead(ready, b, isl) \subseteq ripe
    <3> SUFFICES ASSUME NEW o \in ready, Before(o, b, isl), o \notin ripe PROVE FALSE
      BY DEF Ahead
    <3>1. rank[o] < rank[b] /\ rank[b] <= rank[o] /\ rank[o] \in Nat /\ rank[b] \in Nat
      BY <1>1, <2>4
    <3> QED BY <3>1
  <2>6. rank[b] <= Cardinality(ripe) BY <1>3, <1>4, <2>5, FS_Subset
  <2>7. rank[b] \in Nat /\ ~(rank[b] < max_per_tick) BY <1>1, <1>2
  <2> QED BY <1>0, <1>4, <1>6, <2>6, <2>7
<1> QED BY <1>4, <1>5, <1>6, <1>7 DEF ripe

\* The names of the ripe bodies of what is ready, of which there are as many.
LEMMA AsManyNames ==
  ASSUME FreezeTypeOK, NEW ripe \in SUBSET Place, IsFiniteSet(ripe)
  PROVE  Cardinality({bodies[b] : b \in ripe}) = Cardinality(ripe)
<1> DEFINE f == [b \in ripe |-> bodies[b]]
           names == {bodies[b] : b \in ripe}
<1>1. f \in [ripe -> names] OBVIOUS
<1>2. \A a, b \in ripe : f[a] = f[b] => a = b BY DEF FreezeTypeOK, IsInjective, Place
<1>3. \A n \in names : \E b \in ripe : f[b] = n OBVIOUS
<1> HIDE DEF f, names
<1>4. f \in Injection(ripe, names) BY <1>1, <1>2 DEF Injection, IsInjective
<1>5. f \in Surjection(ripe, names) BY <1>1, <1>3 DEF Surjection
<1>6. IsFiniteSet(names) BY <1>5, FS_Surjection
<1>7. Cardinality(names) <= Cardinality(ripe) BY <1>5, FS_Surjection
<1>8. Cardinality(ripe) <= Cardinality(names) BY <1>4, <1>6, FS_Injection
<1>9. Cardinality(names) \in Nat /\ Cardinality(ripe) \in Nat BY <1>6, FS_CardinalityType
<1> QED BY <1>7, <1>8, <1>9 DEF names

\* A body of an island that is cut was ready and had to wait: one of the island is ripe, so
\* all of it is ready.
LEMMA CutHadToWait ==
  ASSUME FreezeTypeOK, NEW still, NEW isl, NEW i \in 1..ISLANDS,
         NEW gone, gone = {bodies[b] : b \in Ripe(Ready(still, isl), isl)},
         i \in Cut(gone, isl)
  PROVE  \E b \in Ripe(Ready(still, isl), isl), c \in Ready(still, isl) :
           /\ isl[bodies[b]] = i /\ isl[bodies[c]] = i
           /\ c \notin Ripe(Ready(still, isl), isl)
<1> DEFINE ready == Ready(still, isl)
           ripe == Ripe(ready, isl)
<1>1. PICK b \in ripe : isl[bodies[b]] = i BY DEF Cut
<1>2. PICK c \in Place : isl[bodies[c]] = i /\ bodies[c] \notin gone
  <2>1. PICK o \in Range(bodies) \ gone : isl[o] = i BY DEF Cut
  <2> QED BY <2>1 DEF Range, Place
<1>3. c \notin ripe BY <1>2
<1>4. b \in Place /\ b \in ready BY <1>1, RipeIsReady
<1>5. i # 0 OBVIOUS
<1>6. Island(c, isl) = Island(b, isl)
  <2>1. b \in Island(c, isl) /\ c \in Island(b, isl) BY <1>1, <1>2, <1>4, <1>5 DEF Island
  <2> QED BY <1>1, <1>2, <1>4, <1>5, <2>1 DEF Island
<1>7. c \in ready BY <1>2, <1>4, <1>6 DEF Ready
<1> QED BY <1>1, <1>2, <1>3, <1>7

\* The bodies of an island agree on which is its first.
LEMMA SameIslandSameFirst ==
  ASSUME NEW isl, NEW a \in Place, NEW b \in Place,
         isl[bodies[a]] # 0, isl[bodies[a]] = isl[bodies[b]]
  PROVE  First(b, isl) = First(a, isl)
<1>1. a \in Island(b, isl) /\ b \in Island(a, isl) BY DEF Island
<1>2. Island(a, isl) = Island(b, isl) BY <1>1 DEF Island
<1> QED BY <1>2 DEF First

\* Two islands do not begin with the same body.
LEMMA IslandsBeginApart ==
  ASSUME FreezeTypeOK, NEW isl, NEW a \in Place, NEW b \in Place,
         isl[bodies[a]] # 0, isl[bodies[b]] # 0, isl[bodies[a]] # isl[bodies[b]]
  PROVE  First(a, isl) < First(b, isl) \/ First(b, isl) < First(a, isl)
<1>1. First(a, isl) \in Nat /\ First(b, isl) \in Nat BY FirstIs
<1>2. First(a, isl) \in Island(a, isl) /\ First(b, isl) \in Island(b, isl) BY FirstIs
<1> HIDE DEF First
<1>3. isl[bodies[First(a, isl)]] = isl[bodies[a]] BY <1>2 DEF Island
<1>4. isl[bodies[First(b, isl)]] = isl[bodies[b]] BY <1>2 DEF Island
<1>5. First(a, isl) # First(b, isl) BY <1>3, <1>4
<1> QED BY <1>1, <1>5

\* Only the budget of a tick cuts a stack, and it cuts one at most, for any number of
\* bodies, of islands and for any budget.
THEOREM OnlyTheBudgetCuts == Spec => StacksFreezeWhole
<1> DEFINE A == LET cut == Cut(Frozen, island')
                IN  /\ Cardinality(Frozen) <= max_per_tick
                    /\ cut # {} => Cardinality(Frozen) = max_per_tick
                    /\ \A i, j \in cut : i = j
<1>1. ASSUME FreezeTypeOK, [Next]_vars PROVE [A]_vars
  <2>0. max_per_tick \in Nat /\ ISLANDS \in Nat BY FreezeConstants
  <2>1. ASSUME Frozen = {} PROVE A
    <3>1. Cut({}, island') = {} BY DEF Cut
    <3>2. Cardinality(Frozen) = 0 BY <2>1, FS_EmptySet
    <3> QED BY <2>0, <2>1, <3>1, <3>2
  <2>2. ASSUME Tick, Frozen = Gone(moving', island') PROVE A
    <3> DEFINE isl == island'
               still == Counted(moving')
               gone == Frozen
               ready == Ready(still, isl)
               ripe == Ripe(ready, isl)
    <3>1. gone = {bodies[b] : b \in ripe} BY <2>2 DEF Gone
    <3> HIDE DEF isl, still, gone
    <3>2. ready \in SUBSET Place BY DEF Ready
    <3>3. /\ IsFiniteSet(ripe) /\ Cardinality(ripe) \in Nat
          /\ Cardinality(ripe) <= max_per_tick
          /\ ripe # ready => Cardinality(ripe) = max_per_tick
          /\ \A b \in ripe, o \in ready : Before(o, b, isl) => o \in ripe
      <4> HIDE DEF ready
      <4> QED BY <1>1, <3>2, RipeAreTheFirst
    <3>4. ripe \in SUBSET Place BY <3>2 DEF Ripe
    <3>5. Cardinality(gone) = Cardinality(ripe)
      <4> HIDE DEF ripe
      <4> QED BY <1>1, <3>1, <3>3, <3>4, AsManyNames
    <3>6. ASSUME NEW i \in Cut(gone, isl)
          PROVE  i \in 1..ISLANDS
                 /\ \E b \in ripe, c \in ready :
                      isl[bodies[b]] = i /\ isl[bodies[c]] = i /\ c \notin ripe
      <4>1. i \in 1..ISLANDS BY DEF Cut
      <4> QED BY <1>1, <3>1, <4>1, CutHadToWait
    <3>7. Cut(gone, isl) # {} => Cardinality(gone) = max_per_tick
      <4> HIDE DEF ready, ripe
      <4> QED BY <3>3, <3>5, <3>6
    <3>8. ASSUME NEW i \in Cut(gone, isl), NEW j \in Cut(gone, isl), i # j PROVE FALSE
      <4> HIDE DEF ready, ripe
      <4>1. PICK b \in ripe, c \in ready :
              isl[bodies[b]] = i /\ isl[bodies[c]] = i /\ c \notin ripe
        BY <3>6
      <4>2. PICK d \in ripe, e \in ready :
              isl[bodies[d]] = j /\ isl[bodies[e]] = j /\ e \notin ripe
        BY <3>6
      <4>3. i # 0 /\ j # 0
        <5>1. i \in 1..ISLANDS /\ j \in 1..ISLANDS BY <3>6
        <5> QED BY <5>1
      <4>4. b \in Place /\ c \in Place /\ d \in Place /\ e \in Place BY <3>2, <3>4
      <4>5. First(c, isl) = First(b, isl) /\ First(e, isl) = First(d, isl)
        BY <4>1, <4>2, <4>3, <4>4, SameIslandSameFirst
      <4>6. First(b, isl) < First(d, isl) \/ First(d, isl) < First(b, isl)
        BY <1>1, <3>8, <4>1, <4>2, <4>3, <4>4, IslandsBeginApart
      <4>7. Before(c, d, isl) \/ Before(e, b, isl)
        BY <1>1, <4>4, <4>5, <4>6, BeforeIsAnOrder
      <4> QED BY <3>3, <4>1, <4>2, <4>7
    <3>9. /\ Cardinality(gone) <= max_per_tick
          /\ \A i, j \in Cut(gone, isl) : i = j
      BY <3>3, <3>5, <3>8
    <3> QED BY <3>7, <3>9 DEF gone, isl
  <2>3. CASE Tick
    <3>1. Frozen = {} \/ Frozen = Gone(moving', island') BY <1>1, <2>3, FrozenIsGone
    <3> QED BY <2>1, <2>2, <2>3, <3>1
  <2>4. ASSUME NEW n \in Name, Thaw(n) PROVE A
    <3>1. Frozen = {} BY <1>1, <2>4, ThawFreezesNothing
    <3> QED BY <2>1, <3>1
  <2> QED BY <1>1, <2>3, <2>4 DEF Next
<1> QED BY <1>1, FreezeTypes, PTL DEF Spec, StacksFreezeWhole
===============================================================================
