------------------------------ MODULE PageProofs ------------------------------
(***************************************************************************)
(* What the page store keeps, for any number of processes, pages, commits   *)
(* and opens: its counts, and every commit SQLite was told of.              *)
(***************************************************************************)
EXTENDS PageStore, SumsProofs, FiniteSetTheorems

-------------------------------------------------------------------------------
(* Handles and processes, field by field.                                  *)

\* A handle has the fields of an FdbFile.
HandleFields == {"fence", "head", "as_of", "base", "log", "due", "size", "sent", "dirty", "trunc", "win"}
HandleShape(h) == h = [f \in HandleFields |-> h[f]]

\* A process has a place in the code and the fields of a fold_ctx.
ProcShape(s) ==
  s = [pc |-> s.pc, todo |-> s.todo, kept |-> s.kept, buf |-> s.buf, closing |-> s.closing]

HandleOK(h) ==
  /\ HandleShape(h)
  /\ h.fence \in Nat /\ h.head \in Nat /\ h.as_of \in Nat /\ h.log \in Nat
  /\ h.size \in Nat /\ h.trunc \in Int
  /\ DOMAIN h.dirty \subseteq Page

Places == {"down", "open", "idle", "commit", "stage", "head", "fold", "fold_write", "finish"}

ProcOK(s) == ProcShape(s) /\ s.pc \in Places

\* A handle that is closed, and a process that waits.
LEMMA ClosedFields ==
  /\ HandleOK(Closed)
  /\ Closed.fence = 0 /\ Closed.head = 0 /\ Closed.due = FALSE /\ Closed.dirty = << >>
<1>1. Closed = [f \in HandleFields |-> Closed[f]]
  BY DEF Closed, HandleFields
<1>2. /\ Closed.fence = 0 /\ Closed.head = 0 /\ Closed.as_of = 0 /\ Closed.log = 0
      /\ Closed.size = 0 /\ Closed.trunc = -1 /\ Closed.due = FALSE /\ Closed.dirty = << >>
  BY DEF Closed
<1>3. DOMAIN << >> = {}
  OBVIOUS
<1> QED
  BY <1>1, <1>2, <1>3 DEF HandleOK, HandleShape

\* A process that is down.
LEMMA DownFields == ProcOK(Down) /\ Down.pc = "down" /\ Down.closing = FALSE
BY DEF ProcOK, ProcShape, Down, Places

\* A process at another place, or with other work.
LEMMA PcEdit ==
  ASSUME NEW s, ProcOK(s), NEW at \in Places
  PROVE  /\ ProcOK([s EXCEPT !.pc = at]) /\ [s EXCEPT !.pc = at].pc = at
         /\ [s EXCEPT !.pc = at].todo = s.todo
         /\ [s EXCEPT !.pc = at].kept = s.kept
         /\ [s EXCEPT !.pc = at].buf = s.buf
         /\ [s EXCEPT !.pc = at].closing = s.closing
BY DEF ProcOK, ProcShape

\* The same for its pages still to do,
LEMMA TodoEdit ==
  ASSUME NEW s, ProcOK(s), NEW v
  PROVE  /\ ProcOK([s EXCEPT !.todo = v]) /\ [s EXCEPT !.todo = v].todo = v
         /\ [s EXCEPT !.todo = v].pc = s.pc
         /\ [s EXCEPT !.todo = v].kept = s.kept
         /\ [s EXCEPT !.todo = v].buf = s.buf
         /\ [s EXCEPT !.todo = v].closing = s.closing
BY DEF ProcOK, ProcShape

\* for the pages a fold has kept,
LEMMA KeptEdit ==
  ASSUME NEW s, ProcOK(s), NEW v
  PROVE  /\ ProcOK([s EXCEPT !.kept = v]) /\ [s EXCEPT !.kept = v].kept = v
         /\ [s EXCEPT !.kept = v].pc = s.pc
         /\ [s EXCEPT !.kept = v].todo = s.todo
         /\ [s EXCEPT !.kept = v].buf = s.buf
         /\ [s EXCEPT !.kept = v].closing = s.closing
BY DEF ProcOK, ProcShape

\* for its buffer,
LEMMA BufEdit ==
  ASSUME NEW s, ProcOK(s), NEW v
  PROVE  /\ ProcOK([s EXCEPT !.buf = v]) /\ [s EXCEPT !.buf = v].buf = v
         /\ [s EXCEPT !.buf = v].pc = s.pc
         /\ [s EXCEPT !.buf = v].todo = s.todo
         /\ [s EXCEPT !.buf = v].kept = s.kept
         /\ [s EXCEPT !.buf = v].closing = s.closing
BY DEF ProcOK, ProcShape

\* and for whether the file is being closed.
LEMMA ClosingEdit ==
  ASSUME NEW s, ProcOK(s), NEW v
  PROVE  /\ ProcOK([s EXCEPT !.closing = v]) /\ [s EXCEPT !.closing = v].closing = v
         /\ [s EXCEPT !.closing = v].pc = s.pc
         /\ [s EXCEPT !.closing = v].todo = s.todo
         /\ [s EXCEPT !.closing = v].kept = s.kept
         /\ [s EXCEPT !.closing = v].buf = s.buf
BY DEF ProcOK, ProcShape

\* A process at rest.
LEMMA IdleFields == ProcOK(Idle) /\ Idle.pc = "idle" /\ Idle.closing = FALSE
<1>1. "idle" \in Places
  BY DEF Places
<1> QED BY <1>1, DownFields, PcEdit DEF Idle

\* One field of a handle is written, and the others stay.
LEMMA Edit ==
  ASSUME NEW h, HandleShape(h), NEW f \in HandleFields, NEW v
  PROVE  /\ HandleShape([h EXCEPT ![f] = v])
         /\ [h EXCEPT ![f] = v][f] = v
         /\ \A e \in HandleFields \ {f} : [h EXCEPT ![f] = v][e] = h[e]
BY DEF HandleShape

\* Two handles that differ in a few fields.
Differ(g, h, F) == HandleShape(g) /\ \A e \in HandleFields \ F : g[e] = h[e]

\* What fdb_write leaves in the handle.
LEMMA WriteFields ==
  ASSUME NEW h, HandleOK(h), NEW d, DOMAIN d \subseteq Page, NEW n \in Nat
  PROVE  LET g == [h EXCEPT !.dirty = d, !.size = n] IN
         HandleOK(g) /\ g.dirty = d /\ g.size = n /\ Differ(g, h, {"dirty", "size"})
<1> DEFINE a == [h EXCEPT !["dirty"] = d]
           b == [a EXCEPT !["size"] = n]
<1>1. "dirty" \in HandleFields /\ "size" \in HandleFields /\ "dirty" # "size"
  BY DEF HandleFields
<1>2. HandleShape(a) /\ a["dirty"] = d /\ \A e \in HandleFields \ {"dirty"} : a[e] = h[e]
  BY <1>1, Edit DEF HandleOK
<1>3. [h EXCEPT !.dirty = d, !.size = n] = b
  OBVIOUS
<1> HIDE DEF a
<1>4. HandleShape(b) /\ b["size"] = n /\ \A e \in HandleFields \ {"size"} : b[e] = a[e]
  BY <1>1, <1>2, Edit
<1> HIDE DEF b
<1>5. b.dirty = d /\ b.size = n /\ Differ(b, h, {"dirty", "size"})
  BY <1>1, <1>2, <1>4 DEF Differ
<1>6. HandleOK(b)
  BY <1>5 DEF HandleOK, Differ, HandleFields
<1> QED
  BY <1>3, <1>5, <1>6

\* A prefetch writes the window alone.
LEMMA WindowFields ==
  ASSUME NEW h, HandleOK(h), NEW w
  PROVE  LET g == [h EXCEPT !.win = w] IN HandleOK(g) /\ g.win = w /\ Differ(g, h, {"win"})
<1> DEFINE g == [h EXCEPT !["win"] = w]
<1>1. "win" \in HandleFields
  BY DEF HandleFields
<1>2. HandleShape(g) /\ g["win"] = w /\ \A e \in HandleFields \ {"win"} : g[e] = h[e]
  BY <1>1, Edit DEF HandleOK
<1>3. [h EXCEPT !.win = w] = g
  OBVIOUS
<1> HIDE DEF g
<1>4. HandleOK(g)
  BY <1>2 DEF HandleOK, HandleFields
<1> QED
  BY <1>2, <1>3, <1>4 DEF Differ

\* The start of a fold takes the debt off the handle.
LEMMA DueFields ==
  ASSUME NEW h, HandleOK(h), NEW v
  PROVE  LET g == [h EXCEPT !.due = v] IN HandleOK(g) /\ g.due = v /\ Differ(g, h, {"due"})
<1> DEFINE g == [h EXCEPT !["due"] = v]
<1>1. "due" \in HandleFields
  BY DEF HandleFields
<1>2. HandleShape(g) /\ g["due"] = v /\ \A e \in HandleFields \ {"due"} : g[e] = h[e]
  BY <1>1, Edit DEF HandleOK
<1>3. [h EXCEPT !.due = v] = g
  OBVIOUS
<1> HIDE DEF g
<1>4. HandleOK(g)
  BY <1>2 DEF HandleOK, HandleFields
<1> QED
  BY <1>2, <1>3, <1>4 DEF Differ

\* The end of a fold.
LEMMA FinishFields ==
  ASSUME NEW h, HandleOK(h), NEW k
  PROVE  LET g == [h EXCEPT !.as_of = h.head, !.base = k, !.log = 0, !.win = << >>] IN
         /\ HandleOK(g) /\ g.as_of = h.head /\ g.base = k /\ g.log = 0 /\ g.win = << >>
         /\ Differ(g, h, {"as_of", "base", "log", "win"})
<1> DEFINE none == << >>
<1> HIDE DEF none
<1> DEFINE a == [h EXCEPT !["as_of"] = h.head]
           b == [a EXCEPT !["base"] = k]
           c == [b EXCEPT !["log"] = 0]
           d == [c EXCEPT !["win"] = none]
<1>1. {"as_of", "base", "log", "win"} \subseteq HandleFields
  BY DEF HandleFields
<1>2. HandleShape(a) /\ a["as_of"] = h.head /\ \A e \in HandleFields \ {"as_of"} : a[e] = h[e]
  BY <1>1, Edit DEF HandleOK
<1>3. [h EXCEPT !.as_of = h.head, !.base = k, !.log = 0, !.win = << >>] = d
  BY DEF none
<1> HIDE DEF a
<1>4. HandleShape(b) /\ b["base"] = k /\ \A e \in HandleFields \ {"base"} : b[e] = a[e]
  BY <1>1, <1>2, Edit
<1> HIDE DEF b
<1>5. HandleShape(c) /\ c["log"] = 0 /\ \A e \in HandleFields \ {"log"} : c[e] = b[e]
  BY <1>1, <1>4, Edit
<1> HIDE DEF c
<1>6. HandleShape(d) /\ d["win"] = none /\ \A e \in HandleFields \ {"win"} : d[e] = c[e]
  BY <1>1, <1>5, Edit
<1> HIDE DEF d
<1>7. /\ d.as_of = h.head /\ d.base = k /\ d.log = 0 /\ d.win = << >>
      /\ Differ(d, h, {"as_of", "base", "log", "win"})
  BY <1>1, <1>2, <1>4, <1>5, <1>6 DEF Differ, none
<1>8. HandleOK(d)
  BY <1>7 DEF HandleOK, Differ, HandleFields
<1> QED
  BY <1>3, <1>7, <1>8

\* The smaller of two numbers, and the larger.
LEMMA OfTwo ==
  ASSUME NEW a \in Int, NEW b \in Int
  PROVE  /\ Min({a, b}) = IF a <= b THEN a ELSE b
         /\ Max({a, b}) = IF a >= b THEN a ELSE b
<1>1. \E x \in {a, b} : \A y \in {a, b} : x <= y OBVIOUS
<1>2. \E x \in {a, b} : \A y \in {a, b} : x >= y OBVIOUS
<1>3. Min({a, b}) \in {a, b} /\ \A y \in {a, b} : Min({a, b}) <= y
  BY <1>1 DEF Min
<1>4. Max({a, b}) \in {a, b} /\ \A y \in {a, b} : Max({a, b}) >= y
  BY <1>2 DEF Max
<1> QED BY <1>3, <1>4

\* What fdb_truncate leaves in the handle.
LEMMA TruncatedFields ==
  ASSUME NEW h, HandleOK(h), NEW n \in Nat
  PROVE  LET g == Truncated(h, n) IN
         /\ HandleOK(g) /\ g.size = n /\ g.win = << >>
         /\ g.trunc = (IF h.trunc < 0 \/ n < h.trunc THEN n ELSE h.trunc)
         /\ g.dirty = Only(h.dirty, 0..(n - 1))
         /\ Differ(g, h, {"dirty", "trunc", "size", "win"})
<1> DEFINE pages == Only(h.dirty, 0..(n - 1))
           t == IF h.trunc < 0 THEN n ELSE Min({h.trunc, n})
<1>1. t = (IF h.trunc < 0 \/ n < h.trunc THEN n ELSE h.trunc) /\ t \in Int
  BY OfTwo DEF HandleOK
<1>2. DOMAIN pages \subseteq Page
  BY DEF Only, HandleOK
<1>3. Truncated(h, n) = [h EXCEPT !.dirty = pages, !.trunc = t, !.size = n, !.win = << >>]
  BY DEF Truncated
<1> HIDE DEF pages, t
<1> DEFINE none == << >>
<1> HIDE DEF none
<1> DEFINE a == [h EXCEPT !["dirty"] = pages]
           b == [a EXCEPT !["trunc"] = t]
           c == [b EXCEPT !["size"] = n]
           d == [c EXCEPT !["win"] = none]
<1>4. {"dirty", "trunc", "size", "win"} \subseteq HandleFields
  BY DEF HandleFields
<1>5. HandleShape(a) /\ a["dirty"] = pages /\ \A e \in HandleFields \ {"dirty"} : a[e] = h[e]
  BY <1>4, Edit DEF HandleOK
<1>6. [h EXCEPT !.dirty = pages, !.trunc = t, !.size = n, !.win = << >>] = d
  BY DEF none
<1> HIDE DEF a
<1>7. HandleShape(b) /\ b["trunc"] = t /\ \A e \in HandleFields \ {"trunc"} : b[e] = a[e]
  BY <1>4, <1>5, Edit
<1> HIDE DEF b
<1>8. HandleShape(c) /\ c["size"] = n /\ \A e \in HandleFields \ {"size"} : c[e] = b[e]
  BY <1>4, <1>7, Edit
<1> HIDE DEF c
<1>9. HandleShape(d) /\ d["win"] = none /\ \A e \in HandleFields \ {"win"} : d[e] = c[e]
  BY <1>4, <1>8, Edit
<1> HIDE DEF d
<1>10. /\ d.dirty = pages /\ d.trunc = t /\ d.size = n /\ d.win = << >>
       /\ Differ(d, h, {"dirty", "trunc", "size", "win"})
  BY <1>4, <1>5, <1>7, <1>8, <1>9 DEF Differ, none
<1>11. HandleOK(d)
  BY <1>1, <1>2, <1>10 DEF HandleOK, Differ, HandleFields
<1> QED
  BY <1>1, <1>3, <1>6, <1>10, <1>11 DEF pages

\* A file has finitely many pages.
LEMMA PagesAreFinite == IsFiniteSet(Page)
<1>1. 0 \in Int /\ MAX_PAGES - 1 \in Int
  BY PageConstants
<1> QED BY <1>1, FS_Interval DEF Page

\* The pages of a buffer can be counted.
LEMMA DirtyCount ==
  ASSUME NEW h, HandleOK(h)
  PROVE  IsFiniteSet(DOMAIN h.dirty) /\ Cardinality(DOMAIN h.dirty) \in Nat
<1>2. IsFiniteSet(DOMAIN h.dirty)
  BY PagesAreFinite, FS_Subset DEF HandleOK
<1> QED
  BY <1>2, FS_CardinalityType

\* What a flush leaves in the handle.
LEMMA FlushedFields ==
  ASSUME NEW h, HandleOK(h)
  PROVE  LET f == Flushed(h) IN
         /\ HandleOK(f) /\ f.head = h.head + 1 /\ f.log = h.log + Cardinality(DOMAIN h.dirty)
         /\ f.dirty = << >> /\ f.trunc = -1 /\ f.win = << >>
         /\ Differ(f, h, {"head", "sent", "log", "dirty", "trunc", "win", "due"})
<1> DEFINE none == << >>
           minus == -1
<1> HIDE DEF none, minus
<1> DEFINE n == Cardinality(DOMAIN h.dirty)
           a1 == [h EXCEPT !["head"] = h.head + 1]
           a2 == [a1 EXCEPT !["sent"] = h.size]
           a3 == [a2 EXCEPT !["log"] = h.log + n]
           a4 == [a3 EXCEPT !["dirty"] = none]
           a5 == [a4 EXCEPT !["trunc"] = minus]
           a6 == [a5 EXCEPT !["win"] = none]
           g == [h EXCEPT !.head = @ + 1, !.sent = h.size, !.log = @ + n,
                          !.dirty = << >>, !.trunc = -1, !.win = << >>]
           due == g.due \/ ShouldCompact(g)
<1>1. n \in Nat
  BY DirtyCount
<1>2. Flushed(h) = [g EXCEPT !.due = due]
  BY DEF Flushed
<1> HIDE DEF n, due
<1>3. g = a6
  BY DEF none, minus
<1>4. {"head", "sent", "log", "dirty", "trunc", "win"} \subseteq HandleFields
  BY DEF HandleFields
<1> HIDE DEF g
<1>5. HandleShape(a1) /\ a1["head"] = h.head + 1 /\ \A e \in HandleFields \ {"head"} : a1[e] = h[e]
  BY <1>4, Edit DEF HandleOK
<1> HIDE DEF a1
<1>6. HandleShape(a2) /\ a2["sent"] = h.size /\ \A e \in HandleFields \ {"sent"} : a2[e] = a1[e]
  BY <1>4, <1>5, Edit
<1> HIDE DEF a2
<1>7. HandleShape(a3) /\ a3["log"] = h.log + n /\ \A e \in HandleFields \ {"log"} : a3[e] = a2[e]
  BY <1>4, <1>6, Edit
<1> HIDE DEF a3
<1>8. HandleShape(a4) /\ a4["dirty"] = none /\ \A e \in HandleFields \ {"dirty"} : a4[e] = a3[e]
  BY <1>4, <1>7, Edit
<1> HIDE DEF a4
<1>9. HandleShape(a5) /\ a5["trunc"] = minus /\ \A e \in HandleFields \ {"trunc"} : a5[e] = a4[e]
  BY <1>4, <1>8, Edit
<1> HIDE DEF a5
<1>10. HandleShape(a6) /\ a6["win"] = none /\ \A e \in HandleFields \ {"win"} : a6[e] = a5[e]
  BY <1>4, <1>9, Edit
<1> HIDE DEF a6
<1>11. /\ g.head = h.head + 1 /\ g.log = h.log + n /\ g.dirty = << >> /\ g.trunc = -1
       /\ g.win = << >> /\ Differ(g, h, {"head", "sent", "log", "dirty", "trunc", "win"})
  BY <1>3, <1>4, <1>5, <1>6, <1>7, <1>8, <1>9, <1>10 DEF Differ, none, minus
<1>12. g.size = h.size /\ g.fence = h.fence /\ g.as_of = h.as_of
  BY <1>11 DEF Differ, HandleFields
<1>13. HandleOK(g)
  BY <1>1, <1>11, <1>12 DEF HandleOK, Differ
<1>14. HandleOK(Flushed(h)) /\ Differ(Flushed(h), g, {"due"})
  BY <1>2, <1>13, DueFields
<1> QED
  BY <1>11, <1>14 DEF Differ, HandleFields, n

\* The largest of a set that has one.
LEMMA MaxIs ==
  ASSUME NEW S, S \subseteq Int, NEW m \in S, \A x \in S : x <= m
  PROVE  Max(S) = m
<1>1. \E x \in S : \A y \in S : x >= y
  <2>1. \A y \in S : m >= y OBVIOUS
  <2> QED BY <2>1
<1>2. Max(S) \in S /\ \A y \in S : Max(S) >= y
  BY <1>1 DEF Max
<1> DEFINE k == Max(S)
<1>3. k \in Int /\ m \in Int /\ k >= m /\ k <= m
  BY <1>2
<1> HIDE DEF k
<1>4. k = m BY <1>3
<1> QED BY <1>4 DEF k

\* A bounded set of numbers has a largest.
LEMMA MaxExists ==
  ASSUME NEW n \in Nat, NEW S, S \subseteq 1..n, S # {}
  PROVE  Max(S) \in S /\ \A y \in S : Max(S) >= y
<1> DEFINE T == {n - x : x \in S}
<1>1. T \subseteq Nat /\ T # {}
  <2>1. \A x \in S : n - x \in Nat
    <3> SUFFICES ASSUME NEW x \in S PROVE n - x \in Nat OBVIOUS
    <3>1. x \in 1..n OBVIOUS
    <3> QED BY <3>1
  <2>2. T # {}
    <3>1. PICK x : x \in S OBVIOUS
    <3>2. n - x \in T BY <3>1
    <3> HIDE DEF T
    <3> QED BY <3>2
  <2> QED BY <2>1, <2>2
<1>2. PICK t \in T : \A u \in T : t <= u
  <2> HIDE DEF T
  <2> QED BY <1>1, LeastNatural
<1>3. PICK x \in S : t = n - x
  OBVIOUS
<1>4. \A y \in S : x >= y
  <2> SUFFICES ASSUME NEW y \in S PROVE x >= y OBVIOUS
  <2>1. n - x <= n - y BY <1>2, <1>3
  <2> QED BY <2>1
<1> QED BY <1>4 DEF Max

-------------------------------------------------------------------------------
(* Types, and how a step moves one process.                                *)

\* The newest version is one that has its marker.
Markers == DOMAIN shardn \subseteq 1..head

Types ==
  /\ head \in Nat /\ size \in Nat /\ fence \in Nat /\ logn \in Nat
  /\ DOMAIN pidx \subseteq Page
  /\ Markers
  /\ handle = [p \in Proc |-> handle[p]] /\ \A p \in Proc : HandleOK(handle[p])
  /\ proc = [p \in Proc |-> proc[p]] /\ \A p \in Proc : ProcOK(proc[p])

\* A version that load_newest_shard finds is no newer than the head.
LEMMA NewestType ==
  ASSUME Types
  PROVE  NewestShard \in 0..head
<1> DEFINE V == {v \in DOMAIN shardn : v <= head}
<1>1. V \subseteq 1..head /\ head \in Nat
  BY DEF Types, Markers
<1>2. NewestShard = IF V = {} THEN 0 ELSE Max(V)
  BY DEF NewestShard
<1> HIDE DEF V
<1>3. V # {} => Max(V) \in V
  BY <1>1, MaxExists
<1> QED BY <1>1, <1>2, <1>3

\* The step of a process: its new handle and its new place.
Moves(p, h, s) ==
  /\ HandleOK(h) /\ ProcOK(s)
  /\ handle' = [handle EXCEPT ![p] = h] /\ proc' = [proc EXCEPT ![p] = s]

\* What such a step leaves: the other processes are where they were.
LEMMA MovesMeans ==
  ASSUME Types, NEW p \in Proc, NEW h, NEW s, Moves(p, h, s)
  PROVE  /\ handle'[p] = h /\ proc'[p] = s
         /\ \A q \in Proc : q # p => handle'[q] = handle[q] /\ proc'[q] = proc[q]
         /\ handle' = [q \in Proc |-> handle'[q]] /\ \A q \in Proc : HandleOK(handle'[q])
         /\ proc' = [q \in Proc |-> proc'[q]] /\ \A q \in Proc : ProcOK(proc'[q])
<1>1. /\ handle = [q \in Proc |-> handle[q]] /\ \A q \in Proc : HandleOK(handle[q])
      /\ proc = [q \in Proc |-> proc[q]] /\ \A q \in Proc : ProcOK(proc[q])
  BY DEF Types
<1>2. /\ HandleOK(h) /\ ProcOK(s)
      /\ handle' = [handle EXCEPT ![p] = h] /\ proc' = [proc EXCEPT ![p] = s]
  BY DEF Moves
<1>3. DOMAIN handle = Proc /\ DOMAIN proc = Proc
  BY <1>1
<1>4. /\ handle'[p] = h /\ \A q \in Proc : q # p => handle'[q] = handle[q]
      /\ proc'[p] = s /\ \A q \in Proc : q # p => proc'[q] = proc[q]
  BY <1>2, <1>3
<1>5. handle' = [q \in Proc |-> handle'[q]] /\ proc' = [q \in Proc |-> proc'[q]]
  BY <1>2, <1>3
<1>6. \A q \in Proc : HandleOK(handle'[q]) /\ ProcOK(proc'[q])
  <2> SUFFICES ASSUME NEW q \in Proc PROVE HandleOK(handle'[q]) /\ ProcOK(proc'[q]) OBVIOUS
  <2> QED BY <1>1, <1>2, <1>4
<1> QED BY <1>4, <1>5, <1>6

\* A process that nothing happened to moves nowhere.
LEMMA MovesNowhere ==
  ASSUME Types, NEW p \in Proc, UNCHANGED << handle, proc >>
  PROVE  Moves(p, handle[p], proc[p])
<1>1. handle = [q \in Proc |-> handle[q]] /\ proc = [q \in Proc |-> proc[q]]
  BY DEF Types
<1>2. handle = [handle EXCEPT ![p] = handle[p]] /\ proc = [proc EXCEPT ![p] = proc[p]]
  BY <1>1
<1> QED BY <1>2 DEF Moves, Types

\* A write transaction that was answered, and one whose answer was lost.
LEMMA AnswerMoves ==
  ASSUME Types, NEW p \in Proc, NEW next, NEW h, HandleOK(h), ProcOK(next), Answer(p, next, h)
  PROVE  Moves(p, h, next) \/ Moves(p, handle[p], proc[p])
BY MovesNowhere DEF Answer, Moves

\* What open_body leaves in the handle.
LEMMA LoadedFields ==
  ASSUME Types
  PROVE  /\ HandleOK(Loaded) /\ Loaded.fence = fence + 1 /\ Loaded.head = head
         /\ Loaded.size = size /\ Loaded.as_of = NewestShard /\ Loaded.log = logn
         /\ Loaded.base = (IF NewestShard = 0 THEN 0 ELSE shardn[NewestShard])
         /\ Loaded.due = FALSE /\ Loaded.dirty = << >> /\ Loaded.trunc = -1 /\ Loaded.win = << >>
<1> DEFINE base == IF NewestShard = 0 THEN 0 ELSE shardn[NewestShard]
           none == << >>
           minus == -1
<1>0. Closed.due = FALSE /\ Closed.dirty = none /\ Closed.trunc = minus /\ Closed.win = none
  BY DEF Closed
<1>1. fence + 1 \in Nat /\ head \in Nat /\ size \in Nat /\ NewestShard \in Nat /\ logn \in Nat
  BY NewestType DEF Types
<1>2. HandleShape(Closed) /\ DOMAIN none \subseteq Page /\ minus \in Int
  BY ClosedFields DEF HandleOK
<1>3. Loaded = [Closed EXCEPT !.fence = fence + 1, !.head = head, !.size = size, !.sent = size,
                              !.as_of = NewestShard, !.log = logn, !.base = base]
  BY DEF Loaded
<1> HIDE DEF base, none, minus
<1> DEFINE a1 == [Closed EXCEPT !["fence"] = fence + 1]
           a2 == [a1 EXCEPT !["head"] = head]
           a3 == [a2 EXCEPT !["size"] = size]
           a4 == [a3 EXCEPT !["sent"] = size]
           a5 == [a4 EXCEPT !["as_of"] = NewestShard]
           a6 == [a5 EXCEPT !["log"] = logn]
           a7 == [a6 EXCEPT !["base"] = base]
<1>4. Loaded = a7
  BY <1>3
<1>5. {"fence", "head", "size", "sent", "as_of", "log", "base"} \subseteq HandleFields
  BY DEF HandleFields
<1>6. HandleShape(a1) /\ a1["fence"] = fence + 1
      /\ \A e \in HandleFields \ {"fence"} : a1[e] = Closed[e]
  BY <1>2, <1>5, Edit
<1> HIDE DEF a1
<1>7. HandleShape(a2) /\ a2["head"] = head /\ \A e \in HandleFields \ {"head"} : a2[e] = a1[e]
  BY <1>5, <1>6, Edit
<1> HIDE DEF a2
<1>8. HandleShape(a3) /\ a3["size"] = size /\ \A e \in HandleFields \ {"size"} : a3[e] = a2[e]
  BY <1>5, <1>7, Edit
<1> HIDE DEF a3
<1>9. HandleShape(a4) /\ a4["sent"] = size /\ \A e \in HandleFields \ {"sent"} : a4[e] = a3[e]
  BY <1>5, <1>8, Edit
<1> HIDE DEF a4
<1>10. HandleShape(a5) /\ a5["as_of"] = NewestShard
       /\ \A e \in HandleFields \ {"as_of"} : a5[e] = a4[e]
  BY <1>5, <1>9, Edit
<1> HIDE DEF a5
<1>11. HandleShape(a6) /\ a6["log"] = logn /\ \A e \in HandleFields \ {"log"} : a6[e] = a5[e]
  BY <1>5, <1>10, Edit
<1> HIDE DEF a6
<1>12. HandleShape(a7) /\ a7["base"] = base /\ \A e \in HandleFields \ {"base"} : a7[e] = a6[e]
  BY <1>5, <1>11, Edit
<1> HIDE DEF a7
<1>13. /\ a7.fence = fence + 1 /\ a7.head = head /\ a7.size = size /\ a7.as_of = NewestShard
       /\ a7.log = logn /\ a7.base = base
  BY <1>5, <1>6, <1>7, <1>8, <1>9, <1>10, <1>11, <1>12
<1>14. a7.due = Closed.due /\ a7.dirty = Closed.dirty /\ a7.trunc = Closed.trunc
       /\ a7.win = Closed.win
  BY <1>6, <1>7, <1>8, <1>9, <1>10, <1>11, <1>12 DEF HandleFields
<1>15. HandleOK(a7)
  BY <1>0, <1>1, <1>2, <1>12, <1>13, <1>14 DEF HandleOK
<1> QED
  BY <1>0, <1>4, <1>13, <1>14, <1>15 DEF base, none, minus

\* The handle that goes with what comes next.
LEMMA KeptFields ==
  ASSUME NEW next, NEW h, HandleOK(h)
  PROVE  /\ HandleOK(Kept(next, h))
         /\ next.pc = "down" => Kept(next, h) = Closed
         /\ next.pc # "down" => Differ(Kept(next, h), h, {"due"}) /\ (Kept(next, h).due => h.due)
         /\ next.pc = "fold" => ~ Kept(next, h).due
         /\ next.pc \notin {"down", "fold"} => Kept(next, h) = h
<1>1. CASE next.pc = "down"
  BY <1>1, ClosedFields DEF Kept
<1>2. CASE next.pc = "fold"
  BY <1>2, DueFields DEF Kept
<1>3. CASE next.pc \notin {"down", "fold"}
  BY <1>3 DEF Kept, Differ, HandleOK
<1> QED BY <1>1, <1>2, <1>3

\* Where flush begins.
LEMMA FlushingFields ==
  ASSUME NEW h
  PROVE  /\ ProcOK(Flushing(h)) /\ Flushing(h).pc \in {"commit", "stage"}
         /\ Flushing(h).todo = DOMAIN h.dirty
<1> DEFINE at == IF Cardinality(DOMAIN h.dirty) <= ONE_TXN_PAGES THEN "commit" ELSE "stage"
           todo == DOMAIN h.dirty
<1>1. at \in Places /\ at \in {"commit", "stage"}
  BY DEF Places
<1>2. Flushing(h) = [Idle EXCEPT !.pc = at, !.todo = todo]
  BY DEF Flushing
<1> HIDE DEF at, todo
<1> DEFINE s == [Idle EXCEPT !.pc = at]
<1>3. ProcOK(s) /\ s.pc = at
  BY <1>1, IdleFields, PcEdit
<1>4. Flushing(h) = [s EXCEPT !.todo = todo]
  BY <1>2
<1> HIDE DEF s
<1>5. ProcOK(Flushing(h)) /\ Flushing(h).pc = at /\ Flushing(h).todo = todo
  BY <1>3, <1>4, TodoEdit
<1> QED BY <1>1, <1>5 DEF todo

\* The start of a fold.
LEMMA FoldFields ==
  ASSUME NEW t, NEW c
  PROVE  /\ ProcOK([Idle EXCEPT !.pc = "fold", !.todo = t])
         /\ [Idle EXCEPT !.pc = "fold", !.todo = t].pc = "fold"
         /\ [Idle EXCEPT !.pc = "fold", !.todo = t].todo = t
         /\ ProcOK([Idle EXCEPT !.pc = "fold", !.todo = t, !.closing = c])
         /\ [Idle EXCEPT !.pc = "fold", !.todo = t, !.closing = c].pc = "fold"
         /\ [Idle EXCEPT !.pc = "fold", !.todo = t, !.closing = c].todo = t
<1> DEFINE a == [Idle EXCEPT !.pc = "fold"]
           b == [a EXCEPT !.todo = t]
           d == [b EXCEPT !.closing = c]
<1>0. "fold" \in Places
  BY DEF Places
<1>1. ProcOK(a) /\ a.pc = "fold"
  BY <1>0, IdleFields, PcEdit
<1>2. /\ [Idle EXCEPT !.pc = "fold", !.todo = t] = b
      /\ [Idle EXCEPT !.pc = "fold", !.todo = t, !.closing = c] = d
  OBVIOUS
<1> HIDE DEF a
<1>3. ProcOK(b) /\ b.pc = "fold" /\ b.todo = t
  BY <1>1, TodoEdit
<1> HIDE DEF b
<1>4. ProcOK(d) /\ d.pc = "fold" /\ d.todo = t
  BY <1>3, ClosingEdit
<1> QED BY <1>2, <1>3, <1>4

\* Where a flush ends.
LEMMA AfterFlushFields ==
  ASSUME NEW p, NEW h
  PROVE  /\ ProcOK(AfterFlush(p, h)) /\ AfterFlush(p, h).pc \in {"idle", "fold", "down"}
         /\ AfterFlush(p, h).pc = "fold" => h.due /\ AfterFlush(p, h).todo = 0..(h.size - 1)
<1> DEFINE t == 0..(h.size - 1)
           f == [Idle EXCEPT !.pc = "fold", !.todo = t, !.closing = TRUE]
<1>1. ProcOK(f) /\ f.pc = "fold" /\ f.todo = t
  <2> HIDE DEF t
  <2>1. ProcOK(f) BY FoldFields
  <2>2. f.pc = "fold" BY FoldFields
  <2>3. f.todo = t BY FoldFields
  <2> QED BY <2>1, <2>2, <2>3
<1>2. \/ AfterFlush(p, h) = Idle \/ AfterFlush(p, h) = Down
      \/ h.due /\ AfterFlush(p, h) = f
  BY DEF AfterFlush
<1> HIDE DEF f
<1> QED BY <1>1, <1>2, IdleFields, DownFields
-------------------------------------------------------------------------------
(* The counts.                                                             *)

\* The page count of the newest version, from its marker.
RowBase(sn) == IF DOMAIN sn = {} THEN 0 ELSE sn[Max(DOMAIN sn)]

\* With every marker at or below the head, load_newest_shard finds the last one.
LEMMA NewestIsLast ==
  ASSUME Types
  PROVE  /\ NewestShard = (IF DOMAIN shardn = {} THEN 0 ELSE Max(DOMAIN shardn))
         /\ (IF NewestShard = 0 THEN 0 ELSE shardn[NewestShard]) = RowBase(shardn)
<1>1. head \in Nat /\ DOMAIN shardn \subseteq 1..head
  BY DEF Types, Markers
<1>2. {v \in DOMAIN shardn : v <= head} = DOMAIN shardn
  BY <1>1
<1>3. NewestShard = (IF DOMAIN shardn = {} THEN 0 ELSE Max(DOMAIN shardn))
  BY <1>2 DEF NewestShard
<1>4. DOMAIN shardn # {} => Max(DOMAIN shardn) \in 1..head
  BY <1>1, MaxExists
<1>5. DOMAIN shardn # {} => Max(DOMAIN shardn) # 0
  BY <1>1, <1>4
<1> QED BY <1>3, <1>5 DEF RowBase

\* A flush of handle h landed and its answer was lost: the store has the head, the
\* count and the index rows that the retry will write again.
FlushLanded(h, s, hd, ln, P) ==
  /\ s.pc \in {"commit", "head"}
  /\ hd = h.head + 1 /\ ln = h.log + Cardinality(DOMAIN h.dirty)
  /\ \A x \in DOMAIN h.dirty : (h.trunc < 0 \/ x < h.trunc) => x \in P

\* A fold landed and its answer was lost.
FoldLanded(h, s, hd, ln, sn) ==
  /\ s.pc = "finish" /\ hd = h.head /\ ln = 0
  /\ hd \in DOMAIN sn /\ RowBase(sn) = s.kept

\* The handle of the owner knows the store's counts, or is about to write what the
\* store has.
Knows(h, s, hd, ln, P, sn) ==
  /\ \/ hd = h.head /\ ln = h.log /\ h.base = RowBase(sn)
     \/ FlushLanded(h, s, hd, ln, P) /\ h.base = RowBase(sn)
     \/ FoldLanded(h, s, hd, ln, sn)
  /\ h.due \/ s.pc \in {"fold", "fold_write", "finish"} => h.head >= 1

\* Whether a handle holds the fence.
Holds(h, fn) == h.fence # 0 /\ h.fence = fn

\* Every open has a fence of its own, and a file that is not open has none.
Fences ==
  /\ \A p \in Proc : handle[p].fence <= fence
  /\ \A p, q \in Proc : p # q /\ handle[p].fence = handle[q].fence => handle[p].fence = 0
  /\ \A p \in Proc : proc[p].pc \in {"down", "open"} => handle[p].fence = 0

\* The log's count is no smaller than its index.
Counted == Cardinality(DOMAIN pidx) <= logn

StepInv ==
  /\ Types /\ Fences /\ Counted
  /\ \A p \in Proc : Holds(handle[p], fence) =>
       Knows(handle[p], proc[p], head, logn, DOMAIN pidx, shardn)

\* The types after a step of one process.
LEMMA MovesTypes ==
  ASSUME Types, NEW p \in Proc, NEW h, NEW s, Moves(p, h, s),
         head' \in Nat, size' \in Nat, fence' \in Nat, logn' \in Nat,
         DOMAIN pidx' \subseteq Page, Markers'
  PROVE  Types'
BY MovesMeans DEF Types

\* A step under one fence: the process that takes it owns the database, or the
\* counts of the store stay.
LEMMA KeepStep ==
  ASSUME StepInv, NEW p \in Proc, NEW h, NEW s, Moves(p, h, s),
         head' \in Nat, size' \in Nat, fence' = fence, logn' \in Nat,
         DOMAIN pidx' \subseteq Page, Markers', Counted',
         h.fence \in {0, handle[p].fence}, s.pc \in {"down", "open"} => h.fence = 0,
         Owns(p) \/ UNCHANGED << head, logn, pidx, shardn >>,
         Holds(h, fence) => Knows(h, s, head', logn', DOMAIN pidx', shardn')
  PROVE  StepInv'
<1>1. Types /\ Fences /\ fence \in Nat
  BY DEF StepInv, Types
<1>2. Types'
  BY <1>1, MovesTypes
<1>3. /\ handle'[p] = h /\ proc'[p] = s
      /\ \A q \in Proc : q # p => handle'[q] = handle[q] /\ proc'[q] = proc[q]
  BY <1>1, MovesMeans
<1>4. \A q \in Proc : handle'[q].fence \in {0, handle[q].fence}
  BY <1>3
<1>5. \A q \in Proc : handle'[q].fence <= fence
  BY <1>1, <1>4 DEF Fences
<1>6. \A q, r \in Proc : q # r /\ handle'[q].fence = handle'[r].fence => handle'[q].fence = 0
  BY <1>1, <1>4 DEF Fences
<1>7. \A q \in Proc : proc'[q].pc \in {"down", "open"} => handle'[q].fence = 0
  BY <1>1, <1>3 DEF Fences
<1>8. Fences'
  BY <1>5, <1>6, <1>7 DEF Fences
<1>9. ASSUME NEW q \in Proc, Holds(handle'[q], fence')
      PROVE  Knows(handle'[q], proc'[q], head', logn', DOMAIN pidx', shardn')
  <2>1. CASE q = p
    BY <1>3, <1>9, <2>1
  <2>2. CASE q # p
    <3>1. handle'[q] = handle[q] /\ proc'[q] = proc[q]
      BY <1>3, <2>2
    <3>2. ~ Owns(p)
      BY <1>1, <1>9, <2>2, <3>1 DEF Fences, Holds, Owns
    <3>3. UNCHANGED << head, logn, pidx, shardn >>
      BY <3>2
    <3>4. Knows(handle[q], proc[q], head, logn, DOMAIN pidx, shardn)
      BY <1>9, <3>1 DEF StepInv
    <3> QED BY <3>1, <3>3, <3>4
  <2> QED BY <2>1, <2>2
<1> QED BY <1>2, <1>8, <1>9 DEF StepInv

\* A step that leaves the store's counts alone.
LEMMA QuietStep ==
  ASSUME StepInv, NEW p \in Proc, NEW h, NEW s, Moves(p, h, s),
         UNCHANGED << head, size, fence, logn, pidx, shardn >>,
         h.fence \in {0, handle[p].fence}, s.pc \in {"down", "open"} => h.fence = 0,
         Holds(h, fence) => Knows(h, s, head, logn, DOMAIN pidx, shardn)
  PROVE  StepInv'
<1>1. /\ head' \in Nat /\ size' \in Nat /\ logn' \in Nat /\ DOMAIN pidx' \subseteq Page
      /\ Markers' /\ Counted'
  BY DEF StepInv, Types, Markers, Counted
<1>2. Holds(h, fence) => Knows(h, s, head', logn', DOMAIN pidx', shardn')
  OBVIOUS
<1>3. fence' = fence /\ UNCHANGED << head, logn, pidx, shardn >>
  OBVIOUS
<1> QED BY <1>1, <1>2, <1>3, KeepStep
\* The handle of an owner that is not at a write whose answer may have been lost.
Level(h, hd, ln, sn) == hd = h.head /\ ln = h.log /\ h.base = RowBase(sn)

\* An owner that is not at such a write knows the store's counts.
LEMMA AtRest ==
  ASSUME NEW h, NEW s, NEW hd, NEW ln, NEW P, NEW sn, Knows(h, s, hd, ln, P, sn),
         s.pc \notin {"commit", "head", "finish"}
  PROVE  Level(h, hd, ln, sn)
BY DEF Knows, Level, FlushLanded, FoldLanded

\* A process that is not at such a write goes somewhere else, and the counts of its
\* handle stay.
LEMMA RestStep ==
  ASSUME StepInv, NEW p \in Proc, NEW h, NEW s, Moves(p, h, s),
         UNCHANGED << head, size, fence, logn, pidx, shardn >>,
         proc[p].pc \notin {"commit", "head", "finish"},
         s.pc \notin {"down", "open"} \/ h.fence = 0,
         h.fence = handle[p].fence, h.head = handle[p].head, h.log = handle[p].log,
         h.base = handle[p].base,
         h.due \/ s.pc \in {"fold", "fold_write", "finish"} =>
           handle[p].due \/ proc[p].pc \in {"fold", "fold_write", "finish"}
  PROVE  StepInv'
<1>1. ASSUME Holds(h, fence)
      PROVE  Knows(h, s, head, logn, DOMAIN pidx, shardn)
  <2>1. Knows(handle[p], proc[p], head, logn, DOMAIN pidx, shardn)
    BY <1>1 DEF StepInv, Holds
  <2>2. Level(handle[p], head, logn, shardn)
    BY <2>1, AtRest
  <2>3. Level(h, head, logn, shardn)
    BY <2>2 DEF Level
  <2>4. h.due \/ s.pc \in {"fold", "fold_write", "finish"} => h.head >= 1
    BY <2>1 DEF Knows
  <2> QED BY <2>3, <2>4 DEF Knows, Level
<1>2. h.fence \in {0, handle[p].fence} /\ (s.pc \in {"down", "open"} => h.fence = 0)
  OBVIOUS
<1> QED BY <1>1, <1>2, QuietStep

\* A handle that is given up holds no fence.
LEMMA CloseStep ==
  ASSUME StepInv, NEW p \in Proc, NEW s, Moves(p, Closed, s),
         UNCHANGED << head, size, fence, logn, pidx, shardn >>
  PROVE  StepInv'
<1>1. Closed.fence = 0
  BY ClosedFields
<1>2. Closed.fence \in {0, handle[p].fence} /\ (s.pc \in {"down", "open"} => Closed.fence = 0)
  BY <1>1
<1>3. ~ Holds(Closed, fence)
  BY <1>1 DEF Holds
<1> QED BY <1>2, <1>3, QuietStep

\* One handle or one place is written, and the other stays.
LEMMA HandleMoves ==
  ASSUME Types, NEW p \in Proc, NEW h, HandleOK(h), handle' = [handle EXCEPT ![p] = h], proc' = proc
  PROVE  Moves(p, h, proc[p])
<1>1. proc = [q \in Proc |-> proc[q]] /\ ProcOK(proc[p])
  BY DEF Types
<1>2. proc = [proc EXCEPT ![p] = proc[p]]
  BY <1>1
<1> QED BY <1>1, <1>2 DEF Moves

\* A step that changes the place of a process and not its handle.
LEMMA ProcMoves ==
  ASSUME Types, NEW p \in Proc, NEW s, ProcOK(s), proc' = [proc EXCEPT ![p] = s], handle' = handle
  PROVE  Moves(p, handle[p], s)
<1>1. handle = [q \in Proc |-> handle[q]] /\ HandleOK(handle[p])
  BY DEF Types
<1>2. handle = [handle EXCEPT ![p] = handle[p]]
  BY <1>1
<1> QED BY <1>1, <1>2 DEF Moves

\* vfs_open.
LEMMA StartStep ==
  ASSUME StepInv, NEW p \in Proc, Start(p)
  PROVE  StepInv'
<1> DEFINE s == [proc[p] EXCEPT !.pc = "open"]
<1>0. Types /\ ProcOK(proc[p]) /\ "open" \in Places
  BY DEF StepInv, Types, Places
<1>1. ProcOK(s) /\ s.pc = "open"
  BY <1>0, PcEdit
<1>2. proc' = [proc EXCEPT ![p] = s] /\ handle' = handle /\ proc[p].pc = "down"
  BY DEF Start
<1>3. UNCHANGED << head, size, fence, logn, pidx, shardn >>
  BY DEF Start, store
<1>4. handle[p].fence = 0
  BY <1>2 DEF StepInv, Fences
<1> HIDE DEF s
<1>5. Moves(p, handle[p], s)
  BY <1>0, <1>1, <1>2, ProcMoves
<1>6. ~ Holds(handle[p], fence)
  BY <1>4 DEF Holds
<1> QED BY <1>3, <1>4, <1>5, <1>6, QuietStep

\* ra_fill.
LEMMA PrefetchStep ==
  ASSUME StepInv, NEW p \in Proc, Prefetch(p)
  PROVE  StepInv'
<1>1. PICK w : handle' = [handle EXCEPT ![p].win = w]
  BY DEF Prefetch
<1> DEFINE h == [handle[p] EXCEPT !.win = w]
<1>2. Types /\ HandleOK(handle[p])
  BY DEF StepInv, Types
<1>3. HandleOK(h) /\ Differ(h, handle[p], {"win"})
  BY <1>2, WindowFields
<1>4. handle' = [handle EXCEPT ![p] = h] /\ proc' = proc
  BY <1>1 DEF Prefetch
<1>5. UNCHANGED << head, size, fence, logn, pidx, shardn >> /\ proc[p].pc \in {"idle", "fold"}
  BY DEF Prefetch, store
<1> HIDE DEF h
<1>6. Moves(p, h, proc[p])
  BY <1>2, <1>3, <1>4, HandleMoves
<1>7. /\ h.fence = handle[p].fence /\ h.head = handle[p].head /\ h.log = handle[p].log
      /\ h.base = handle[p].base /\ h.due = handle[p].due
  BY <1>3 DEF Differ, HandleFields
<1> QED BY <1>5, <1>6, <1>7, RestStep

\* fdb_write.
LEMMA WriteMoves ==
  ASSUME Types, NEW p \in Proc, Write(p)
  PROVE  \E pg, h :
           /\ pg \in Page /\ Moves(p, h, proc[p]) /\ Differ(h, handle[p], {"dirty", "size"})
           /\ h.dirty = Over([x \in {pg} |-> << handle[p].fence, handle[p].head + 1 >>], handle[p].dirty)
           /\ h.size = IF handle[p].size >= pg + 1 THEN handle[p].size ELSE pg + 1
           /\ pg <= handle[p].size /\ handle[p].head < MAX_HEAD
           /\ handle[p].trunc < 0 \/ pg < handle[p].trunc \/ "truncate" \in Faults
<1>1. PICK pg \in Page :
        /\ pg <= handle[p].size /\ handle[p].head < MAX_HEAD
        /\ handle[p].trunc < 0 \/ pg < handle[p].trunc \/ "truncate" \in Faults
        /\ handle' = [handle EXCEPT
             ![p].dirty = Over([x \in {pg} |-> << handle[p].fence, handle[p].head + 1 >>], @),
             ![p].size = Max({@, pg + 1})]
  BY DEF Write
<1> DEFINE d == Over([x \in {pg} |-> << handle[p].fence, handle[p].head + 1 >>], handle[p].dirty)
           n == Max({handle[p].size, pg + 1})
           h == [handle[p] EXCEPT !.dirty = d, !.size = n]
<1>2. HandleOK(handle[p]) /\ DOMAIN handle = Proc
  BY DEF Types
<1>3. DOMAIN d \subseteq Page
  BY <1>2 DEF HandleOK, Over
<1>4. (n \in Nat) /\ (n = IF handle[p].size >= pg + 1 THEN handle[p].size ELSE pg + 1)
  <2>1. handle[p].size \in Nat /\ pg + 1 \in Nat
    BY <1>2, PageConstants DEF HandleOK, Page
  <2> DEFINE a == handle[p].size
             b == pg + 1
  <2> HIDE DEF a, b
  <2>2. a \in Nat /\ b \in Nat /\ a \in Int /\ b \in Int BY <2>1 DEF a, b
  <2>3. Max({a, b}) = IF a >= b THEN a ELSE b BY <2>2, OfTwo
  <2>4. Max({a, b}) \in Nat BY <2>2, <2>3
  <2> QED BY <2>3, <2>4 DEF a, b
<1>5. handle' = [handle EXCEPT ![p] = h]
  <2>1. handle' = [handle EXCEPT ![p].dirty = d, ![p].size = n]
    BY <1>1, <1>2 DEF HandleOK, HandleShape, HandleFields
  <2> HIDE DEF d, n
  <2> QED BY <1>2, <2>1
<1>6. HandleOK(h) /\ Differ(h, handle[p], {"dirty", "size"}) /\ h.dirty = d /\ h.size = n
  <2>1. n \in Nat
    BY <1>4
  <2>2. DOMAIN handle[p] = HandleFields
    BY <1>2 DEF HandleOK, HandleShape
  <2> HIDE DEF d, n
  <2>3. HandleOK(h) /\ Differ(h, handle[p], {"dirty", "size"})
    BY <1>2, <1>3, <2>1, WriteFields
  <2>4. h.dirty = d /\ h.size = n
    BY <2>2 DEF HandleFields
  <2> QED BY <2>3, <2>4
<1>7. proc' = proc
  BY DEF Write
<1> HIDE DEF h, n
<1>8. Moves(p, h, proc[p])
  BY <1>2, <1>5, <1>6, <1>7, HandleMoves
<1> QED BY <1>1, <1>4, <1>6, <1>8

\* A write touches no count.
LEMMA WriteStep ==
  ASSUME StepInv, NEW p \in Proc, Write(p)
  PROVE  StepInv'
<1>1. PICK pg, h : Moves(p, h, proc[p]) /\ Differ(h, handle[p], {"dirty", "size"})
  BY WriteMoves DEF StepInv
<1>2. UNCHANGED << head, size, fence, logn, pidx, shardn >> /\ proc[p].pc = "idle"
  BY DEF Write, store
<1>3. /\ h.fence = handle[p].fence /\ h.head = handle[p].head /\ h.log = handle[p].log
      /\ h.base = handle[p].base /\ h.due = handle[p].due
  BY <1>1 DEF Differ, HandleFields
<1> QED BY <1>1, <1>2, <1>3, RestStep

\* fdb_truncate.
LEMMA TruncateStep ==
  ASSUME StepInv, NEW p \in Proc, Truncate(p)
  PROVE  StepInv'
<1>1. PICK n \in 0..(handle[p].size - 1) : handle' = [handle EXCEPT ![p] = Truncated(handle[p], n)]
  BY DEF Truncate
<1> DEFINE h == Truncated(handle[p], n)
<1>2. Types /\ HandleOK(handle[p])
  BY DEF StepInv, Types
<1>3. n \in Nat
  BY <1>2 DEF HandleOK
<1>4. HandleOK(h) /\ Differ(h, handle[p], {"dirty", "trunc", "size", "win"})
  BY <1>2, <1>3, TruncatedFields
<1>5. UNCHANGED << head, size, fence, logn, pidx, shardn >> /\ proc[p].pc = "idle" /\ proc' = proc
  BY DEF Truncate, store
<1> HIDE DEF h
<1>6. Moves(p, h, proc[p])
  BY <1>1, <1>2, <1>4, <1>5, HandleMoves DEF h
<1>7. /\ h.fence = handle[p].fence /\ h.head = handle[p].head /\ h.log = handle[p].log
      /\ h.base = handle[p].base /\ h.due = handle[p].due
  BY <1>4 DEF Differ, HandleFields
<1> QED BY <1>5, <1>6, <1>7, RestStep

\* xSync.
LEMMA SyncStep ==
  ASSUME StepInv, NEW p \in Proc, Sync(p)
  PROVE  StepInv'
<1>1. Types /\ HandleOK(handle[p])
  BY DEF StepInv, Types
<1>2. UNCHANGED << head, size, fence, logn, pidx, shardn >> /\ proc[p].pc = "idle"
      /\ proc' = [proc EXCEPT ![p] = Flushing(handle[p])] /\ handle' = handle
  BY DEF Sync, store
<1>3. ProcOK(Flushing(handle[p])) /\ Flushing(handle[p]).pc \in {"commit", "stage"}
  BY FlushingFields
<1>4. Moves(p, handle[p], Flushing(handle[p]))
  BY <1>1, <1>2, <1>3, ProcMoves
<1> QED BY <1>2, <1>3, <1>4, RestStep
\* open_body: the new fence is above every other, and the handle has the store's counts.
LEMMA OpenStep ==
  ASSUME StepInv, NEW p \in Proc, Open(p)
  PROVE  StepInv'
<1>1. Types /\ Fences /\ Counted /\ fence \in Nat
  BY DEF StepInv, Types
<1>2. proc[p].pc = "open" /\ fence' = fence + 1 /\ UNCHANGED << head, size, logn, pidx, shardn >>
      /\ Answer(p, Idle, Loaded)
  BY DEF Open
<1>3. /\ HandleOK(Loaded) /\ Loaded.fence = fence + 1 /\ Loaded.due = FALSE
      /\ Level(Loaded, head, logn, shardn)
  BY <1>1, LoadedFields, NewestIsLast DEF Level
<1>4. ProcOK(Idle) /\ Idle.pc = "idle"
  BY IdleFields
<1>5. Moves(p, Loaded, Idle) \/ Moves(p, handle[p], proc[p])
  BY <1>1, <1>2, <1>3, <1>4, AnswerMoves
<1>6. PICK h, s : /\ Moves(p, h, s)
                  /\ (h = Loaded /\ s = Idle) \/ (h = handle[p] /\ s = proc[p])
  BY <1>5
<1>7. /\ handle'[p] = h /\ proc'[p] = s
      /\ \A q \in Proc : q # p => handle'[q] = handle[q] /\ proc'[q] = proc[q]
  BY <1>1, <1>6, MovesMeans
<1>8. h.fence = 0 \/ (h.fence = fence + 1 /\ s.pc = "idle")
  BY <1>1, <1>2, <1>3, <1>4, <1>6 DEF Fences
<1>9. Types'
  <2>1. head' \in Nat /\ size' \in Nat /\ fence' \in Nat /\ logn' \in Nat /\ DOMAIN pidx' \subseteq Page
        /\ Markers'
    BY <1>1, <1>2 DEF Types, Markers
  <2> QED BY <1>1, <1>6, <2>1, MovesTypes
<1>10. Fences'
  <2>1. \A q \in Proc : handle[q].fence \in Nat /\ handle[q].fence <= fence
    BY <1>1 DEF Types, HandleOK, Fences
  <2>2. \A q \in Proc : handle'[q].fence <= fence'
    BY <1>1, <1>2, <1>7, <1>8, <2>1
  <2>3. \A q, r \in Proc : q # r /\ handle'[q].fence = handle'[r].fence => handle'[q].fence = 0
    <3> SUFFICES ASSUME NEW q \in Proc, NEW r \in Proc, q # r,
                        handle'[q].fence = handle'[r].fence
                 PROVE  handle'[q].fence = 0
      OBVIOUS
    <3>1. CASE q = p
      BY <1>1, <1>7, <1>8, <2>1, <3>1
    <3>2. CASE r = p
      BY <1>1, <1>7, <1>8, <2>1, <3>2
    <3>3. CASE q # p /\ r # p
      BY <1>1, <1>7, <3>3 DEF Fences
    <3> QED BY <3>1, <3>2, <3>3
  <2>4. \A q \in Proc : proc'[q].pc \in {"down", "open"} => handle'[q].fence = 0
    BY <1>1, <1>7, <1>8 DEF Fences
  <2> QED BY <2>2, <2>3, <2>4 DEF Fences
<1>11. Counted'
  BY <1>1, <1>2 DEF Counted
<1>12. ASSUME NEW q \in Proc, Holds(handle'[q], fence')
       PROVE  Knows(handle'[q], proc'[q], head', logn', DOMAIN pidx', shardn')
  <2>1. q = p
    <3>1. handle[q].fence \in Nat /\ handle[q].fence <= fence
      BY <1>1 DEF Types, HandleOK, Fences
    <3> QED BY <1>1, <1>2, <1>7, <1>12, <3>1 DEF Holds
  <2>2. h = Loaded /\ s = Idle
    BY <1>1, <1>2, <1>6, <1>7, <1>12, <2>1 DEF Holds, Fences
  <2> QED BY <1>2, <1>3, <1>4, <1>7, <2>1, <2>2 DEF Knows, Level
<1> QED BY <1>9, <1>10, <1>11, <1>12 DEF StepInv

\* put_head, by the owner: the first time, or again after the answer was lost.
LEMMA FlushStep ==
  ASSUME StepInv, NEW p \in Proc, Owns(p), proc[p].pc \in {"commit", "head"}, PutHead(handle[p]),
         UNCHANGED << fence, shardn >>,
         Answer(p, AfterFlush(p, Flushed(handle[p])),
                Kept(AfterFlush(p, Flushed(handle[p])), Flushed(handle[p])))
  PROVE  StepInv'
<1> DEFINE h == handle[p]
           f == Flushed(h)
           next == AfterFlush(p, f)
           k == Kept(next, f)
           n == Cardinality(DOMAIN h.dirty)
<1>1. Types /\ HandleOK(h) /\ ProcOK(proc[p]) /\ Counted /\ Holds(h, fence)
  BY DEF StepInv, Types, Owns, Holds
<1>2. Knows(h, proc[p], head, logn, DOMAIN pidx, shardn)
  BY <1>1 DEF StepInv
<1>3. n \in Nat /\ IsFiniteSet(DOMAIN h.dirty)
  BY <1>1, DirtyCount
<1>4. head \in Nat /\ logn \in Nat /\ h.head \in Nat /\ h.log \in Nat /\ h.size \in Nat /\ h.trunc \in Int
  BY <1>1 DEF Types, HandleOK
<1>5. head' = h.head + 1 /\ logn' = h.log + n /\ size' = h.size
  BY DEF PutHead
<1>6. DOMAIN pidx' = {x \in DOMAIN pidx \cup DOMAIN h.dirty : h.trunc < 0 \/ x < h.trunc}
  BY DEF PutHead, Index
<1>7. DOMAIN pidx' \subseteq Page /\ IsFiniteSet(DOMAIN pidx)
  <2>1. DOMAIN pidx \subseteq Page /\ DOMAIN h.dirty \subseteq Page
    BY <1>1 DEF Types, HandleOK
  <2>2. DOMAIN pidx' \subseteq Page
    BY <1>6, <2>1
  <2>3. IsFiniteSet(DOMAIN pidx)
    BY <2>1, PagesAreFinite, FS_Subset
  <2> QED BY <2>2, <2>3
<1>8. h.base = RowBase(shardn)
  BY <1>2 DEF Knows, FoldLanded
<1>9. \/ head = h.head /\ logn = h.log
      \/ FlushLanded(h, proc[p], head, logn, DOMAIN pidx)
  BY <1>2 DEF Knows, FoldLanded
<1>10. head <= head'
  BY <1>4, <1>5, <1>9 DEF FlushLanded
<1>11. Markers'
  BY <1>1, <1>4, <1>5, <1>10 DEF Types, Markers
<1>12. Counted'
  <2>1. CASE head = h.head /\ logn = h.log
    <3> DEFINE U == DOMAIN pidx \cup DOMAIN h.dirty
    <3>1. IsFiniteSet(U) /\ Cardinality(U) <= Cardinality(DOMAIN pidx) + n
          /\ Cardinality(DOMAIN pidx) \in Nat /\ Cardinality(U) \in Nat
      <4>1. IsFiniteSet(U)
        BY <1>3, <1>7, FS_Union
      <4>2. Cardinality(U) = Cardinality(DOMAIN pidx) + n - Cardinality(DOMAIN pidx \cap DOMAIN h.dirty)
        BY <1>3, <1>7, FS_Union
      <4>3. IsFiniteSet(DOMAIN pidx \cap DOMAIN h.dirty)
        BY <1>7, FS_Subset
      <4>4. Cardinality(DOMAIN pidx \cap DOMAIN h.dirty) \in Nat
        BY <4>3, FS_CardinalityType
      <4>5. Cardinality(DOMAIN pidx) \in Nat /\ Cardinality(U) \in Nat
        BY <1>7, <4>1, FS_CardinalityType
      <4> QED BY <1>3, <4>1, <4>2, <4>4, <4>5
    <3>2. DOMAIN pidx' \subseteq U
      BY <1>6
    <3> HIDE DEF U
    <3>3. Cardinality(DOMAIN pidx') <= Cardinality(U) /\ Cardinality(DOMAIN pidx') \in Nat
      BY <3>1, <3>2, FS_Subset, FS_CardinalityType
    <3>4. Cardinality(DOMAIN pidx) <= h.log
      BY <1>1, <2>1 DEF Counted
    <3> HIDE DEF n, h
    <3>5. Cardinality(DOMAIN pidx') <= h.log + n
      BY <1>3, <1>4, <3>1, <3>3, <3>4
    <3> QED BY <1>5, <3>5 DEF Counted
  <2>2. CASE FlushLanded(h, proc[p], head, logn, DOMAIN pidx)
    <3>1. DOMAIN pidx' \subseteq DOMAIN pidx
      BY <1>6, <2>2 DEF FlushLanded
    <3>2. Cardinality(DOMAIN pidx') <= Cardinality(DOMAIN pidx) /\ Cardinality(DOMAIN pidx') \in Nat
          /\ Cardinality(DOMAIN pidx) \in Nat
      BY <1>7, <3>1, FS_Subset, FS_CardinalityType
    <3>3. logn' = logn
      BY <1>5, <2>2 DEF FlushLanded
    <3> QED BY <1>1, <1>4, <3>2, <3>3 DEF Counted
  <2> QED BY <1>9, <2>1, <2>2
<1>13. head' \in Nat /\ size' \in Nat /\ logn' \in Nat /\ fence' = fence
  BY <1>3, <1>4, <1>5
<1>14. /\ HandleOK(f) /\ f.head = head' /\ f.log = logn'
       /\ f.fence = h.fence /\ f.base = h.base
  BY <1>1, <1>5, FlushedFields DEF Differ, HandleFields
<1>15. ProcOK(next) /\ next.pc \in {"idle", "fold", "down"}
  BY AfterFlushFields
<1>16. Answer(p, next, k)
  OBVIOUS
<1> HIDE DEF f, next, k, n, h
<1>17. /\ HandleOK(k)
       /\ next.pc = "down" => k.fence = 0
       /\ next.pc # "down" => /\ k.fence = h.fence /\ k.head = head' /\ k.log = logn'
                              /\ k.base = h.base
  BY <1>14, KeptFields, ClosedFields DEF k, Differ, HandleFields
<1>18. CASE Moves(p, k, next)
  <2>1. k.fence \in {0, handle[p].fence} /\ (next.pc \in {"down", "open"} => k.fence = 0)
    BY <1>15, <1>17 DEF h
  <2>2. Holds(k, fence) => Knows(k, next, head', logn', DOMAIN pidx', shardn')
    <3> SUFFICES ASSUME Holds(k, fence)
                 PROVE  Knows(k, next, head', logn', DOMAIN pidx', shardn')
      OBVIOUS
    <3>1. next.pc # "down"
      BY <1>17 DEF Holds
    <3>2. k.head = head' /\ k.log = logn' /\ k.base = RowBase(shardn') /\ k.head >= 1
      BY <1>4, <1>5, <1>8, <1>17, <3>1
    <3> QED BY <3>2 DEF Knows
  <2> QED BY <1>7, <1>11, <1>12, <1>13, <1>18, <2>1, <2>2, KeepStep
<1>19. CASE Moves(p, h, proc[p])
  <2>1. Knows(h, proc[p], head', logn', DOMAIN pidx', shardn')
    <3>1. FlushLanded(h, proc[p], head', logn', DOMAIN pidx')
      BY <1>5, <1>6 DEF FlushLanded, n
    <3>2. h.base = RowBase(shardn')
      BY <1>8
    <3> QED BY <1>2, <3>1, <3>2 DEF Knows
  <2>2. h.fence \in {0, handle[p].fence} /\ proc[p].pc \notin {"down", "open"}
    BY DEF h
  <2> QED BY <1>7, <1>11, <1>12, <1>13, <1>19, <2>1, <2>2, KeepStep
<1> QED BY <1>1, <1>15, <1>16, <1>17, <1>18, <1>19, AnswerMoves DEF h
\* commit_body and head_body move the head in the same way.
LEMMA CommitStep ==
  ASSUME StepInv, NEW p \in Proc, Commit(p)
  PROVE  StepInv'
BY FlushStep DEF Commit

\* head_body.
LEMMA MoveHeadStep ==
  ASSUME StepInv, NEW p \in Proc, MoveHead(p)
  PROVE  StepInv'
BY FlushStep DEF MoveHead

\* A process that stays where it is.
LEMMA StayStep ==
  ASSUME StepInv, NEW p \in Proc, Moves(p, handle[p], proc[p]),
         UNCHANGED << head, size, fence, logn, pidx, shardn >>
  PROVE  StepInv'
<1>1. proc[p].pc \in {"down", "open"} => handle[p].fence = 0
  BY DEF StepInv, Fences
<1>2. Holds(handle[p], fence) => Knows(handle[p], proc[p], head, logn, DOMAIN pidx, shardn)
  BY DEF StepInv
<1> QED BY <1>1, <1>2, QuietStep

\* delta_body.
LEMMA StageStep ==
  ASSUME StepInv, NEW p \in Proc, Stage(p)
  PROVE  StepInv'
<1> DEFINE left == proc[p].todo \ Lowest(proc[p].todo, STAGE_TXN_PAGES)
           at == IF left = {} THEN "head" ELSE "stage"
           s == [proc[p] EXCEPT !.todo = left, !.pc = at]
<1>1. Types /\ HandleOK(handle[p]) /\ ProcOK(proc[p])
  BY DEF StepInv, Types
<1>2. Answer(p, s, handle[p]) /\ proc[p].pc = "stage"
      /\ UNCHANGED << head, size, fence, logn, pidx, shardn >>
  BY DEF Stage
<1>3. at \in Places /\ at \in {"head", "stage"}
  BY DEF Places
<1> HIDE DEF left, at
<1>4. ProcOK(s) /\ s.pc = at
  <2> DEFINE t == [proc[p] EXCEPT !.todo = left]
  <2>1. ProcOK(t)
    BY <1>1, TodoEdit
  <2>2. s = [t EXCEPT !.pc = at]
    OBVIOUS
  <2> HIDE DEF t, s
  <2> QED BY <1>3, <2>1, <2>2, PcEdit
<1> HIDE DEF s
<1>5. Moves(p, handle[p], s) \/ Moves(p, handle[p], proc[p])
  BY <1>1, <1>2, <1>4, AnswerMoves
<1>6. CASE Moves(p, handle[p], s)
  BY <1>2, <1>3, <1>4, <1>6, RestStep
<1>7. CASE Moves(p, handle[p], proc[p])
  BY <1>2, <1>7, StayStep
<1> QED BY <1>5, <1>6, <1>7

\* weft_compact_due.
LEMMA CompactDueStep ==
  ASSUME StepInv, NEW p \in Proc, CompactDue(p)
  PROVE  StepInv'
<1> DEFINE h == [handle[p] EXCEPT !.due = FALSE]
           t == 0..(handle[p].size - 1)
           s == [Idle EXCEPT !.pc = "fold", !.todo = t]
<1>1. Types /\ HandleOK(handle[p]) /\ ProcOK(proc[p])
  BY DEF StepInv, Types
<1>2. /\ proc[p].pc = "idle" /\ handle[p].due /\ handle' = [handle EXCEPT ![p] = h]
      /\ UNCHANGED << head, size, fence, logn, pidx, shardn >>
      /\ proc' = proc \/ proc' = [proc EXCEPT ![p] = s]
  BY DEF CompactDue, store
<1>3. HandleOK(h) /\ Differ(h, handle[p], {"due"}) /\ h.due = FALSE
  <2> DEFINE v == FALSE
  <2> HIDE DEF v
  <2>1. LET g == [handle[p] EXCEPT !.due = v] IN
        HandleOK(g) /\ g.due = v /\ Differ(g, handle[p], {"due"})
    BY <1>1, DueFields
  <2> QED BY <2>1 DEF v
<1> HIDE DEF t
<1>4. ProcOK(s) /\ s.pc = "fold"
  BY FoldFields
<1> HIDE DEF h, s
<1>5. /\ h.fence = handle[p].fence /\ h.head = handle[p].head /\ h.log = handle[p].log
      /\ h.base = handle[p].base
  BY <1>3 DEF Differ, HandleFields
<1>6. CASE proc' = proc
  <2>1. Moves(p, h, proc[p])
    BY <1>1, <1>2, <1>3, <1>6, HandleMoves
  <2> QED BY <1>2, <1>3, <1>5, <2>1, RestStep
<1>7. CASE proc' = [proc EXCEPT ![p] = s]
  <2>1. Moves(p, h, s)
    BY <1>2, <1>3, <1>4, <1>7 DEF Moves
  <2> QED BY <1>2, <1>3, <1>4, <1>5, <2>1, RestStep
<1> QED BY <1>2, <1>6, <1>7

\* fold_read_body.
LEMMA FoldReadStep ==
  ASSUME StepInv, NEW p \in Proc, FoldRead(p)
  PROVE  StepInv'
<1>1. PICK b : proc' = [proc EXCEPT ![p].pc = "fold_write", ![p].buf = b]
  BY DEF FoldRead
<1> DEFINE r == [proc[p] EXCEPT !.pc = "fold_write"]
           s == [r EXCEPT !.buf = b]
<1>2. Types /\ HandleOK(handle[p]) /\ ProcOK(proc[p]) /\ DOMAIN proc = Proc
  BY DEF StepInv, Types
<1>3. handle' = handle /\ proc[p].pc = "fold" /\ UNCHANGED << head, size, fence, logn, pidx, shardn >>
  BY DEF FoldRead, store
<1>4. proc' = [proc EXCEPT ![p] = s]
  BY <1>1, <1>2
<1>5. ProcOK(r) /\ r.pc = "fold_write"
  <2>1. "fold_write" \in Places BY DEF Places
  <2> QED BY <1>2, <2>1, PcEdit
<1> HIDE DEF r
<1>6. ProcOK(s) /\ s.pc = "fold_write"
  BY <1>5, BufEdit
<1> HIDE DEF s
<1>7. Moves(p, handle[p], s)
  BY <1>2, <1>3, <1>4, <1>6, ProcMoves
<1> QED BY <1>3, <1>6, <1>7, RestStep

\* fold_write_body.
LEMMA FoldWriteStep ==
  ASSUME StepInv, NEW p \in Proc, FoldWrite(p)
  PROVE  StepInv'
<1> DEFINE left == proc[p].todo \ Lowest(proc[p].todo, STAGE_TXN_PAGES)
           at == IF left = {} THEN "finish" ELSE "fold"
           n == proc[p].kept + Cardinality(DOMAIN proc[p].buf)
           none == << >>
           s == [proc[p] EXCEPT !.todo = left, !.kept = n, !.buf = none, !.pc = at]
<1>1. Types /\ HandleOK(handle[p]) /\ ProcOK(proc[p])
  BY DEF StepInv, Types
<1>2. Answer(p, s, handle[p]) /\ proc[p].pc = "fold_write"
      /\ UNCHANGED << head, size, fence, logn, pidx, shardn >>
  BY <1>1 DEF FoldWrite, ProcOK, ProcShape
<1>3. at \in Places /\ at \in {"finish", "fold"}
  BY DEF Places
<1> HIDE DEF left, at, n, none
<1>4. ProcOK(s) /\ s.pc = at
  <2> DEFINE a == [proc[p] EXCEPT !.todo = left]
             b == [a EXCEPT !.kept = n]
             c == [b EXCEPT !.buf = none]
             d == [c EXCEPT !.pc = at]
  <2>1. s = d
    OBVIOUS
  <2>2. ProcOK(a)
    BY <1>1, TodoEdit
  <2> HIDE DEF a
  <2>3. ProcOK(b)
    BY <2>2, KeptEdit
  <2> HIDE DEF b
  <2>4. ProcOK(c)
    BY <2>3, BufEdit
  <2> HIDE DEF c
  <2>5. ProcOK(d) /\ d.pc = at
    BY <1>3, <2>4, PcEdit
  <2> QED BY <2>1, <2>5
<1> HIDE DEF s
<1>5. Moves(p, handle[p], s) \/ Moves(p, handle[p], proc[p])
  BY <1>1, <1>2, <1>4, AnswerMoves
<1>6. CASE Moves(p, handle[p], s)
  BY <1>2, <1>3, <1>4, <1>6, RestStep
<1>7. CASE Moves(p, handle[p], proc[p])
  BY <1>2, <1>7, StayStep
<1> QED BY <1>5, <1>6, <1>7
\* finish_body: one marker is left, with the pages that were kept, and no log.
LEMMA FinishStep ==
  ASSUME StepInv, NEW p \in Proc, Finish(p)
  PROVE  StepInv'
<1> DEFINE h == handle[p]
           f == [h EXCEPT !.as_of = h.head, !.base = proc[p].kept, !.log = 0, !.win = << >>]
           next == IF proc[p].closing THEN Down ELSE Idle
           k == Kept(next, f)
<1>1. Types /\ HandleOK(h) /\ ProcOK(proc[p]) /\ Counted /\ Holds(h, fence) /\ proc[p].pc = "finish"
      /\ Owns(p)
  BY DEF StepInv, Types, Owns, Holds, Finish
<1>2. Knows(h, proc[p], head, logn, DOMAIN pidx, shardn)
  BY <1>1 DEF StepInv
<1>3. head = h.head /\ h.head >= 1 /\ head \in Nat
  BY <1>1, <1>2 DEF Knows, FlushLanded, FoldLanded, Types
<1>4. /\ UNCHANGED << head, size, fence >> /\ logn' = 0 /\ pidx' = << >> /\ Answer(p, next, k)
      /\ shardn' = [v \in {x \in DOMAIN shardn : x > h.head} \cup {h.head} |->
                      IF v = h.head THEN proc[p].kept ELSE shardn[v]]
  BY DEF Finish, FinishRows
<1>5. DOMAIN shardn' = {head} /\ shardn'[head] = proc[p].kept
  <2>1. {x \in DOMAIN shardn : x > h.head} = {}
    BY <1>1, <1>3 DEF Types, Markers
  <2> HIDE DEF h
  <2> QED BY <1>3, <1>4, <2>1
<1>6. RowBase(shardn') = proc[p].kept
  <2>1. Max({head}) = head
    <3>1. {head} \subseteq Int /\ head \in {head} /\ \A x \in {head} : x <= head
      BY <1>3
    <3> QED BY <3>1, MaxIs
  <2> QED BY <1>5, <2>1 DEF RowBase
<1>7. Markers' /\ Counted' /\ DOMAIN pidx' \subseteq Page
  <2>1. DOMAIN pidx' = {}
    BY <1>4
  <2>2. Cardinality({}) = 0
    BY FS_EmptySet
  <2>3. Counted'
    BY <1>4, <2>1, <2>2 DEF Counted
  <2> QED BY <1>3, <1>4, <1>5, <2>1, <2>3 DEF Markers
<1>8. head' \in Nat /\ size' \in Nat /\ logn' \in Nat /\ fence' = fence
  BY <1>1, <1>4 DEF Types
<1>9. /\ HandleOK(f) /\ f.head = h.head /\ f.log = 0 /\ f.base = proc[p].kept /\ f.fence = h.fence
  <2> DEFINE n == proc[p].kept
             g == [h EXCEPT !.as_of = h.head, !.base = n, !.log = 0, !.win = << >>]
  <2> HIDE DEF n, h
  <2>1. HandleOK(g) /\ g.log = 0 /\ g.base = n /\ Differ(g, h, {"as_of", "base", "log", "win"})
    BY <1>1, FinishFields
  <2>2. g.head = h.head /\ g.fence = h.fence
    BY <2>1 DEF Differ, HandleFields
  <2> QED BY <2>1, <2>2 DEF n
<1>10. ProcOK(next) /\ next.pc \in {"down", "idle"}
  BY IdleFields, DownFields
<1> HIDE DEF h, f, next, k
<1>11. /\ HandleOK(k)
       /\ next.pc = "down" => k.fence = 0
       /\ next.pc # "down" => /\ k.fence = h.fence /\ k.head = h.head /\ k.log = 0
                              /\ k.base = proc[p].kept
  BY <1>9, KeptFields, ClosedFields DEF k, Differ, HandleFields
<1>12. CASE Moves(p, k, next)
  <2>1. k.fence \in {0, handle[p].fence} /\ (next.pc \in {"down", "open"} => k.fence = 0)
    BY <1>10, <1>11 DEF h
  <2>2. Holds(k, fence) => Knows(k, next, head', logn', DOMAIN pidx', shardn')
    BY <1>3, <1>4, <1>6, <1>11 DEF Holds, Knows
  <2> QED BY <1>1, <1>7, <1>8, <1>12, <2>1, <2>2, KeepStep
<1>13. CASE Moves(p, h, proc[p])
  <2>1. h.fence \in {0, handle[p].fence} /\ proc[p].pc \notin {"down", "open"}
    BY <1>1 DEF h
  <2>2. FoldLanded(h, proc[p], head', logn', shardn')
    BY <1>1, <1>3, <1>4, <1>5, <1>6 DEF FoldLanded
  <2>3. Knows(h, proc[p], head', logn', DOMAIN pidx', shardn')
    BY <1>3, <2>2 DEF Knows
  <2> QED BY <1>1, <1>7, <1>8, <1>13, <2>1, <2>3, KeepStep
<1> QED BY <1>1, <1>4, <1>10, <1>11, <1>12, <1>13, AnswerMoves DEF h

\* A flush or a fold that is given up, by a process that does not own the database or
\* whose write has not landed.
LEMMA GiveUpStep ==
  ASSUME StepInv, NEW p \in Proc, GiveUp(p), proc[p].pc \notin {"down", "open"},
         Owns(p) => Level(handle[p], head, logn, shardn)
  PROVE  StepInv'
<1>1. Types /\ HandleOK(handle[p]) /\ ProcOK(proc[p])
  BY DEF StepInv, Types
<1>2. UNCHANGED << head, size, fence, logn, pidx, shardn >>
  BY DEF GiveUp, store
<1>3. CASE proc[p].closing
  <2>1. Moves(p, Closed, Down)
    BY <1>3, ClosedFields, DownFields DEF GiveUp, Moves
  <2> QED BY <1>2, <2>1, CloseStep
<1>4. CASE ~ proc[p].closing
  <2>1. Moves(p, handle[p], Idle)
    BY <1>1, <1>4, IdleFields DEF GiveUp, Moves
  <2>2. Holds(handle[p], fence) => Knows(handle[p], Idle, head, logn, DOMAIN pidx, shardn)
    <3>1. Holds(handle[p], fence) => /\ Owns(p)
                                     /\ Knows(handle[p], proc[p], head, logn, DOMAIN pidx, shardn)
      BY DEF StepInv, Holds, Owns
    <3> QED BY <3>1, IdleFields DEF Knows, Level
  <2> QED BY <1>2, <2>1, <2>2, IdleFields, QuietStep
<1> QED BY <1>3, <1>4

\* A process that is refused does not own the database.
LEMMA RefusedStep ==
  ASSUME StepInv, NEW p \in Proc, Refused(p)
  PROVE  StepInv'
BY GiveUpStep DEF Refused

\* An error that is not retried, before the write has landed, loses no count.
LEMMA FailsStep ==
  ASSUME StepInv, NEW p \in Proc, Fails(p), "late" \notin Faults
  PROVE  StepInv'
<1>1. GiveUp(p) /\ ~ Landed(p) /\ proc[p].pc \notin {"down", "open"}
  BY DEF Fails
<1>2. head \in Nat /\ handle[p].head \in Nat
  BY DEF StepInv, Types, HandleOK
<1>3. ASSUME Owns(p) PROVE Level(handle[p], head, logn, shardn)
  <2>1. Knows(handle[p], proc[p], head, logn, DOMAIN pidx, shardn)
    BY <1>3 DEF StepInv, Owns, Holds
  <2>2. ~ FlushLanded(handle[p], proc[p], head, logn, DOMAIN pidx)
    BY <1>1, <1>2 DEF FlushLanded, Landed
  <2>3. ~ FoldLanded(handle[p], proc[p], head, logn, shardn)
    BY <1>1, <1>2 DEF FoldLanded, Landed
  <2> QED BY <2>1, <2>2, <2>3 DEF Knows, Level
<1> QED BY <1>1, <1>3, GiveUpStep

\* fdb_close.
LEMMA ClosingStep ==
  ASSUME StepInv, NEW p \in Proc, Close(p)
  PROVE  StepInv'
<1> DEFINE h == handle[p]
           t == 0..(h.size - 1)
           fold == [Idle EXCEPT !.pc = "fold", !.todo = t]
           next == IF ToFlush(h) THEN Flushing(h) ELSE IF h.due /\ h.size > 0 THEN fold ELSE Down
           c == (next.pc # "down")
           s == [next EXCEPT !.closing = c]
           k == Kept(next, h)
<1>1. Types /\ HandleOK(h) /\ ProcOK(proc[p])
  BY DEF StepInv, Types
<1>2. /\ proc[p].pc = "idle" /\ UNCHANGED << head, size, fence, logn, pidx, shardn >>
      /\ proc' = [proc EXCEPT ![p] = s] /\ handle' = [handle EXCEPT ![p] = k]
  BY DEF Close, store
<1> HIDE DEF t
<1>3. ProcOK(fold) /\ fold.pc = "fold"
  BY FoldFields
<1> HIDE DEF fold
<1>4. /\ ProcOK(next) /\ next.pc \in {"commit", "stage", "fold", "down"}
      /\ next.pc = "fold" => h.due
  BY <1>3, FlushingFields, DownFields
<1> HIDE DEF next, c
<1>5. ProcOK(s) /\ s.pc = next.pc
  BY <1>4, ClosingEdit
<1>6. /\ HandleOK(k)
      /\ next.pc = "down" => k = Closed
      /\ next.pc # "down" => Differ(k, h, {"due"}) /\ (k.due => h.due)
  BY <1>1, KeptFields
<1> HIDE DEF s, k
<1>7. Moves(p, k, s)
  BY <1>2, <1>5, <1>6 DEF Moves
<1>8. CASE next.pc = "down"
  BY <1>2, <1>6, <1>7, <1>8, CloseStep
<1>9. CASE next.pc # "down"
  <2>1. /\ k.fence = handle[p].fence /\ k.head = handle[p].head /\ k.log = handle[p].log
        /\ k.base = handle[p].base
    BY <1>6, <1>9 DEF Differ, HandleFields
  <2>2. k.due \/ s.pc \in {"fold", "fold_write", "finish"} => handle[p].due
    BY <1>4, <1>5, <1>6, <1>9
  <2> QED BY <1>2, <1>4, <1>5, <1>7, <1>9, <2>1, <2>2, RestStep
<1> QED BY <1>8, <1>9

\* A process that dies leaves a handle nobody has.
LEMMA CrashStep ==
  ASSUME StepInv, NEW p \in Proc, Crash(p)
  PROVE  StepInv'
<1>1. UNCHANGED << head, size, fence, logn, pidx, shardn >>
  BY DEF Crash, store
<1>2. Moves(p, Closed, Down)
  BY ClosedFields, DownFields DEF Crash, Moves
<1> QED BY <1>1, <1>2, CloseStep

\* The database is empty and nobody has opened it.
LEMMA StepInit == Init => StepInv
<1> SUFFICES ASSUME Init PROVE StepInv OBVIOUS
<1>1. /\ head = 0 /\ size = 0 /\ fence = 0 /\ logn = 0 /\ pidx = << >> /\ shardn = << >>
      /\ handle = [p \in Proc |-> Closed] /\ proc = [p \in Proc |-> Down]
  BY DEF Init
<1>2. DOMAIN pidx = {} /\ DOMAIN shardn = {} /\ Cardinality({}) = 0
  BY <1>1, FS_EmptySet
<1>3. \A p \in Proc : HandleOK(handle[p]) /\ ProcOK(proc[p]) /\ handle[p].fence = 0
  BY <1>1, ClosedFields, DownFields
<1>4. Types
  BY <1>1, <1>2, <1>3 DEF Types, Markers
<1>5. Fences /\ Counted /\ \A p \in Proc : ~ Holds(handle[p], fence)
  BY <1>1, <1>2, <1>3 DEF Fences, Counted, Holds
<1> QED BY <1>4, <1>5 DEF StepInv

\* Every step of every process keeps the counts, where an error that is not retried
\* does not follow a write that landed.
LEMMA StepNext ==
  ASSUME "late" \notin Faults, StepInv, [Next]_vars
  PROVE  StepInv'
<1>1. CASE UNCHANGED vars
  <2>1. UNCHANGED << head, size, fence, logn, pidx, shardn, handle, proc >>
    BY <1>1 DEF vars, store
  <2> QED BY <2>1 DEF StepInv, Types, Markers, Fences, Counted
<1>2. ASSUME NEW p \in Proc,
             \/ Start(p) \/ Open(p) \/ Prefetch(p) \/ Write(p) \/ Truncate(p) \/ Sync(p)
             \/ Commit(p) \/ Stage(p) \/ MoveHead(p)
             \/ CompactDue(p) \/ FoldRead(p) \/ FoldWrite(p) \/ Finish(p)
             \/ Refused(p) \/ Fails(p) \/ Close(p) \/ Crash(p)
      PROVE  StepInv'
  <2>1. CASE Start(p) BY <2>1, StartStep
  <2>2. CASE Open(p) BY <2>2, OpenStep
  <2>3. CASE Prefetch(p) BY <2>3, PrefetchStep
  <2>4. CASE Write(p) BY <2>4, WriteStep
  <2>5. CASE Truncate(p) BY <2>5, TruncateStep
  <2>6. CASE Sync(p) BY <2>6, SyncStep
  <2>7. CASE Commit(p) BY <2>7, CommitStep
  <2>8. CASE Stage(p) BY <2>8, StageStep
  <2>9. CASE MoveHead(p) BY <2>9, MoveHeadStep
  <2>10. CASE CompactDue(p) BY <2>10, CompactDueStep
  <2>11. CASE FoldRead(p) BY <2>11, FoldReadStep
  <2>12. CASE FoldWrite(p) BY <2>12, FoldWriteStep
  <2>13. CASE Finish(p) BY <2>13, FinishStep
  <2>14. CASE Refused(p) BY <2>14, RefusedStep
  <2>15. CASE Fails(p) BY <2>15, FailsStep
  <2>16. CASE Close(p) BY <2>16, ClosingStep
  <2>17. CASE Crash(p) BY <2>17, CrashStep
  <2> QED BY <1>2, <2>1, <2>2, <2>3, <2>4, <2>5, <2>6, <2>7, <2>8, <2>9, <2>10, <2>11, <2>12,
             <2>13, <2>14, <2>15, <2>16, <2>17
<1> QED BY <1>1, <1>2 DEF Next

\* The page counts an owner keeps between two transactions are the store's, for any
\* number of processes and opens, whatever crash, refusal, lost answer or error that
\* comes before the write lands.
THEOREM CountsAreKept ==
  ASSUME "late" \notin Faults
  PROVE  Spec => []CountsInStep
<1>1. StepInv => CountsInStep
  <2> SUFFICES ASSUME StepInv, NEW p \in Proc, Owns(p), proc[p].pc = "idle"
               PROVE  /\ handle[p].log = logn
                      /\ handle[p].base = IF NewestShard = 0 THEN 0 ELSE shardn[NewestShard]
                      /\ Cardinality(DOMAIN pidx) <= logn
    BY DEF CountsInStep
  <2>1. Types /\ Counted
    BY DEF StepInv
  <2>2. Knows(handle[p], proc[p], head, logn, DOMAIN pidx, shardn)
    BY DEF StepInv, Owns, Holds
  <2>3. Level(handle[p], head, logn, shardn)
    BY <2>2, AtRest
  <2> QED BY <2>1, <2>3, NewestIsLast DEF Level, Counted
<1> QED BY <1>1, StepInit, StepNext, PTL DEF Spec
-------------------------------------------------------------------------------
(* The file, and what the owner reads.                                     *)

\* The newest version that has its marker, and the copy of a page in a version.
Newest(sn) == IF DOMAIN sn = {} THEN 0 ELSE Max(DOMAIN sn)
Row(sh, v, pg) == IF << v, pg >> \in DOMAIN sh THEN sh[<< v, pg >>] ELSE Zero

\* The pages a process reads: those of its buffer, over those of the file.
Text(h, F) == [pg \in 0..(h.size - 1) |-> IF pg \in DOMAIN h.dirty THEN h.dirty[pg] ELSE F[pg]]

\* Every page of the draft is in the file or in the buffer, a truncate is in force, and
\* the window says of a page what the store says, but for a page of the buffer when the
\* flush has landed.
Draftable(h, hd, sz, F, P) ==
  /\ h.trunc >= 0 => h.size <= h.trunc
  /\ h.trunc < 0 => sz <= h.size
  /\ DOMAIN h.dirty \subseteq 0..(h.size - 1)
  /\ \A pg \in 0..(h.size - 1) : pg < sz \/ pg \in DOMAIN h.dirty
  /\ \A pg \in DOMAIN h.win : hd = h.head \/ pg \notin DOMAIN h.dirty =>
       pg \notin P /\ (pg \in 0..(sz - 1) => h.win[pg] = F[pg])

\* The owner reads the newest version, unless it is about to hear that its fold landed,
\* and a fold makes a version above it.
Based(h, s, hd, sn) ==
  /\ s.pc \in {"fold", "fold_write", "finish"} => ~ h.due
  /\ ~ (s.pc = "finish" /\ hd \in DOMAIN sn) =>
       /\ h.as_of = Newest(sn) /\ h.as_of <= h.head
       /\ h.due \/ s.pc \in {"fold", "fold_write", "finish"} => h.as_of < h.head

\* The pages a fold is through with are in the new version.
Folded(s, hd, sz, F, sh) ==
  s.pc \in {"fold", "fold_write", "finish"} =>
    /\ \A pg \in (0..(sz - 1)) \ s.todo : Row(sh, hd, pg) = F[pg]
    /\ s.pc = "finish" => s.todo = {}
    /\ s.pc = "fold_write" =>
         /\ \A pg \in DOMAIN s.buf \cap 0..(sz - 1) : s.buf[pg] = F[pg]
         /\ \A pg \in (Lowest(s.todo, STAGE_TXN_PAGES) \cap 0..(sz - 1)) \ DOMAIN s.buf : F[pg] = Zero

\* The pages a commit in several transactions is through with are staged, and a flush that
\* landed made the draft the file.
Staged(h, s, hd, F, dl) ==
  /\ s.pc \in {"stage", "head"} =>
       \A pg \in DOMAIN h.dirty \ s.todo :
         << h.head + 1, pg >> \in DOMAIN dl /\ dl[<< h.head + 1, pg >>] = h.dirty[pg]
  /\ s.pc = "head" => s.todo = {}
  /\ s.pc \in {"commit", "head"} /\ hd # h.head => F = Text(h, F)

View(h, s, hd, sz, F, P, sn, sh, dl) ==
  Draftable(h, hd, sz, F, P) /\ Based(h, s, hd, sn) /\ Folded(s, hd, sz, F, sh) /\ Staged(h, s, hd, F, dl)

\* No version is above the head, the rows of one at the head are the file's pages, and
\* the index names no txid above the head.
RowsInv ==
  /\ fence <= MAX_FENCE
  /\ \A r \in DOMAIN shard : r[1] \in 0..head
  /\ \A pg \in 0..(size - 1) : << head, pg >> \in DOMAIN shard => shard[<< head, pg >>] = File[pg]
  /\ \A pg \in DOMAIN pidx : pidx[pg] \in 0..head

ViewInv ==
  /\ RowsInv
  /\ \A p \in Proc : Holds(handle[p], fence) =>
       View(handle[p], proc[p], head, size, File, DOMAIN pidx, shardn, shard, delta)

\* The pages of the file: the log's, and under them the newest version's.
Pages(sz, pd, dl, sh, sn) ==
  [pg \in 0..(sz - 1) |-> IF pg \in DOMAIN pd THEN Row(dl, pd[pg], pg) ELSE Row(sh, Newest(sn), pg)]

\* The file, from the store's rows.
LEMMA FileIs ==
  ASSUME Types
  PROVE  NewestShard = Newest(shardn) /\ File = Pages(size, pidx, delta, shard, shardn)
<1>1. NewestShard = Newest(shardn)
  BY NewestIsLast DEF Newest
<1> QED BY <1>1 DEF File, StorePage, Row, Pages

\* And so after a step.
LEMMA FileIsNext == Types' => File' = Pages(size', pidx', delta', shard', shardn')
<1>1. Types => File = Pages(size, pidx, delta, shard, shardn)
  BY FileIs
<1>2. (Types => File = Pages(size, pidx, delta, shard, shardn))'
  BY <1>1, PTL
<1> QED BY <1>2

\* A store that nothing is written to holds the same file.
LEMMA FileStays ==
  ASSUME UNCHANGED << head, size, pidx, delta, shard, shardn >>
  PROVE  File' = File
BY DEF File, StorePage, NewestShard

\* The landed version is the newest one.
LEMMA LandedIsNewest ==
  ASSUME Types, head \in DOMAIN shardn
  PROVE  Newest(shardn) = head
<1>1. head \in Nat /\ DOMAIN shardn \subseteq 1..head
  BY DEF Types, Markers
<1>2. DOMAIN shardn \subseteq Int /\ \A x \in DOMAIN shardn : x <= head
  BY <1>1
<1>3. Max(DOMAIN shardn) = head
  BY <1>2, MaxIs
<1> QED BY <1>3 DEF Newest

\* And so after a step.
LEMMA LandedNext == Types' /\ head' \in DOMAIN shardn' => Newest(shardn') = head'
<1>1. Types /\ head \in DOMAIN shardn => Newest(shardn) = head
  BY LandedIsNewest
<1>2. (Types /\ head \in DOMAIN shardn => Newest(shardn) = head)'
  BY <1>1, PTL
<1> QED BY <1>2

\* The owner reads its buffer over the file.
LEMMA DraftIs ==
  ASSUME StepInv, ViewInv, NEW p \in Proc, Owns(p)
  PROVE  Draft(p) = Text(handle[p], File)
<1> DEFINE h == handle[p]
<1>1. Types /\ HandleOK(h) /\ size \in Nat
  BY DEF StepInv, Types
<1>2. Knows(h, proc[p], head, logn, DOMAIN pidx, shardn)
  BY DEF StepInv, Owns, Holds
<1>3. Draftable(h, head, size, File, DOMAIN pidx) /\ Based(h, proc[p], head, shardn)
  BY DEF ViewInv, Owns, Holds, View
<1>4. BaseOf(p) = NewestShard
  <2>1. CASE proc[p].pc = "finish" /\ Landed(p)
    <3>1. head = h.head /\ h.head \in DOMAIN shardn
      BY <1>2, <2>1 DEF Knows, FlushLanded, FoldLanded, Landed
    <3> QED BY <1>1, <2>1, <3>1, LandedIsNewest, FileIs DEF BaseOf
  <2>2. CASE ~ (proc[p].pc = "finish" /\ Landed(p))
    <3>1. ~ (proc[p].pc = "finish" /\ head \in DOMAIN shardn)
      BY <1>2, <2>2 DEF Knows, FlushLanded, FoldLanded, Landed
    <3> QED BY <1>1, <1>3, <2>2, <3>1, FileIs DEF BaseOf, Based
  <2> QED BY <2>1, <2>2
<1>5. ASSUME NEW pg \in 0..(h.size - 1)
      PROVE  ReadPage(p, BaseOf(p), pg) = IF pg \in DOMAIN h.dirty THEN h.dirty[pg] ELSE File[pg]
  <2>1. CASE pg \in DOMAIN h.dirty
    BY <2>1 DEF ReadPage
  <2>2. CASE pg \notin DOMAIN h.dirty
    <3>1. pg \in 0..(size - 1)
      BY <1>1, <1>3, <2>2 DEF Draftable, HandleOK
    <3>2. File[pg] = StorePage(NewestShard, pg)
      BY <3>1 DEF File
    <3>3. pg \in DOMAIN h.win => h.win[pg] = File[pg]
      BY <1>3, <2>2, <3>1 DEF Draftable
    <3> QED BY <1>4, <2>2, <3>2, <3>3 DEF ReadPage, PageFromStore
  <2> QED BY <2>1, <2>2
<1> QED BY <1>5 DEF Draft, Text

\* What a step under one fence has to keep: the rows, and the view of the process that
\* takes it.
LEMMA KeepView ==
  ASSUME StepInv, ViewInv, NEW p \in Proc, NEW h, NEW s, Moves(p, h, s),
         fence' = fence, RowsInv', h.fence \in {0, handle[p].fence},
         Owns(p) \/ UNCHANGED << head, size, pidx, delta, shard, shardn >>,
         Holds(h, fence) => View(h, s, head', size', File', DOMAIN pidx', shardn', shard', delta')
  PROVE  ViewInv'
<1>1. Types /\ Fences
  BY DEF StepInv
<1>2. /\ handle'[p] = h /\ proc'[p] = s
      /\ \A q \in Proc : q # p => handle'[q] = handle[q] /\ proc'[q] = proc[q]
  BY <1>1, MovesMeans
<1>3. ASSUME NEW q \in Proc, Holds(handle'[q], fence')
      PROVE  View(handle'[q], proc'[q], head', size', File', DOMAIN pidx', shardn', shard', delta')
  <2>1. CASE q = p
    BY <1>2, <1>3, <2>1
  <2>2. CASE q # p
    <3>1. handle'[q] = handle[q] /\ proc'[q] = proc[q] /\ Holds(handle[q], fence)
      BY <1>2, <1>3, <2>2
    <3>2. ~ Owns(p)
      BY <1>1, <2>2, <3>1 DEF Fences, Holds, Owns
    <3>3. UNCHANGED << head, size, pidx, delta, shard, shardn >>
      BY <3>2
    <3>4. File' = File
      BY <3>3, FileStays
    <3>5. View(handle[q], proc[q], head, size, File, DOMAIN pidx, shardn, shard, delta)
      BY <3>1 DEF ViewInv
    <3> QED BY <3>1, <3>3, <3>4, <3>5
  <2> QED BY <2>1, <2>2
<1> QED BY <1>3 DEF ViewInv

\* A step that leaves the store alone leaves the file.
LEMMA RowsStay ==
  ASSUME ViewInv, UNCHANGED store
  PROVE  RowsInv' /\ File' = File /\ fence' = fence
<1>1. UNCHANGED << head, size, fence, pidx, delta, shard, shardn >>
  BY DEF store
<1>2. File' = File
  BY <1>1, FileStays
<1> QED BY <1>1, <1>2 DEF ViewInv, RowsInv

\* A step that leaves the store alone.
LEMMA QuietView ==
  ASSUME StepInv, ViewInv, NEW p \in Proc, NEW h, NEW s, Moves(p, h, s), UNCHANGED store,
         h.fence \in {0, handle[p].fence},
         Holds(h, fence) => View(h, s, head, size, File, DOMAIN pidx, shardn, shard, delta)
  PROVE  ViewInv'
<1>1. UNCHANGED << head, size, fence, pidx, delta, shard, shardn >>
  BY DEF store
<1>2. RowsInv' /\ File' = File
  BY RowsStay
<1>3. Holds(h, fence) => View(h, s, head', size', File', DOMAIN pidx', shardn', shard', delta')
  BY <1>1, <1>2
<1>4. fence' = fence /\ UNCHANGED << head, size, pidx, delta, shard, shardn >>
  BY <1>1
<1> QED BY <1>2, <1>3, <1>4, KeepView
\* A file with a page written, and the beginning of a file.
Put(T, pg, v) == [x \in DOMAIN T \cup {pg} |-> IF x = pg THEN v ELSE T[x]]
Begin(T, n) == [x \in 0..(n - 1) |-> T[x]]

\* What a step of process p that ends with handle h is to the file: nothing, with the
\* file kept or given up; its draft lands, with the file kept or given up; a page of the
\* draft is written; the draft is cut.
Unseen(p, h) ==
  File' = File /\ (Owns(p) /\ h.fence # 0 => Text(h, File) = Text(handle[p], File))
Lands(p, h) ==
  Owns(p) /\ File' = Text(handle[p], File) /\ (h.fence # 0 => Text(h, File') = File')
Written(p, h) ==
  /\ Owns(p) /\ File' = File /\ h.fence # 0
  /\ \E pg \in 0..handle[p].size, v \in Val : Text(h, File) = Put(Text(handle[p], File), pg, v)
Cut(p, h) ==
  /\ Owns(p) /\ File' = File /\ h.fence # 0
  /\ \E n \in 0..handle[p].size : Text(h, File) = Begin(Text(handle[p], File), n)

Effect(p) ==
  /\ fence' = fence
  /\ \E h, s : /\ Moves(p, h, s) /\ h.fence \in {0, handle[p].fence}
               /\ Unseen(p, h) \/ Lands(p, h) \/ Written(p, h) \/ Cut(p, h)

\* A step that leaves the store alone, and the draft.
LEMMA QuietEffect ==
  ASSUME StepInv, ViewInv, NEW p \in Proc, NEW h, NEW s, Moves(p, h, s), UNCHANGED store,
         h.fence \in {0, handle[p].fence},
         Holds(h, fence) =>
           /\ View(h, s, head, size, File, DOMAIN pidx, shardn, shard, delta)
           /\ Text(h, File) = Text(handle[p], File)
  PROVE  ViewInv' /\ Effect(p)
<1>1. ViewInv'
  BY QuietView
<1>2. fence' = fence /\ File' = File
  BY RowsStay
<1>3. Unseen(p, h)
  BY <1>2 DEF Unseen, Owns, Holds
<1> QED BY <1>1, <1>2, <1>3 DEF Effect

\* The view of the owner.
LEMMA OwnView ==
  ASSUME StepInv, ViewInv, NEW p \in Proc, Holds(handle[p], fence)
  PROVE  /\ View(handle[p], proc[p], head, size, File, DOMAIN pidx, shardn, shard, delta)
         /\ Knows(handle[p], proc[p], head, logn, DOMAIN pidx, shardn)
BY DEF StepInv, ViewInv

\* The buffer, the window and the version of a handle stay.
LEMMA SameDraft ==
  ASSUME NEW g, NEW h, Differ(h, g, {"due"}), NEW hd, NEW sz, NEW F, NEW P
  PROVE  Text(h, F) = Text(g, F) /\ (Draftable(g, hd, sz, F, P) => Draftable(h, hd, sz, F, P))
<1>1. /\ h.size = g.size /\ h.dirty = g.dirty /\ h.trunc = g.trunc /\ h.win = g.win /\ h.head = g.head
  BY DEF Differ, HandleFields
<1> QED BY <1>1 DEF Text, Draftable

\* A process that keeps its buffer goes to another place.
LEMMA PlaceEffect ==
  ASSUME StepInv, ViewInv, NEW p \in Proc, NEW h, NEW s, Moves(p, h, s), UNCHANGED store,
         Differ(h, handle[p], {"due"}),
         Holds(handle[p], fence) =>
           Based(h, s, head, shardn) /\ Folded(s, head, size, File, shard) /\ Staged(h, s, head, File, delta)
  PROVE  ViewInv' /\ Effect(p)
<1>1. h.fence = handle[p].fence
  BY DEF Differ, HandleFields
<1>2. ASSUME Holds(h, fence)
      PROVE  /\ View(h, s, head, size, File, DOMAIN pidx, shardn, shard, delta)
             /\ Text(h, File) = Text(handle[p], File)
  <2>1. Holds(handle[p], fence)
    BY <1>1, <1>2 DEF Holds
  <2>2. Draftable(handle[p], head, size, File, DOMAIN pidx)
    BY <2>1, OwnView DEF View
  <2>3. Draftable(h, head, size, File, DOMAIN pidx) /\ Text(h, File) = Text(handle[p], File)
    BY <2>2, SameDraft
  <2> QED BY <2>1, <2>3 DEF View
<1> QED BY <1>1, <1>2, QuietEffect

\* A handle differs from itself in nothing.
LEMMA DiffersNot == ASSUME NEW h, HandleOK(h) PROVE Differ(h, h, {"due"})
BY DEF Differ, HandleOK

\* A process that is closed or that does not own the database.
LEMMA CloseEffect ==
  ASSUME StepInv, ViewInv, NEW p \in Proc, NEW s, Moves(p, Closed, s), UNCHANGED store
  PROVE  ViewInv' /\ Effect(p)
<1>1. Closed.fence = 0
  BY ClosedFields
<1>2. Closed.fence \in {0, handle[p].fence} /\ ~ Holds(Closed, fence)
  BY <1>1 DEF Holds
<1> QED BY <1>2, QuietEffect

\* vfs_open is called: nothing is to be seen of it.
LEMMA StartEffect ==
  ASSUME StepInv, ViewInv, NEW p \in Proc, Start(p)
  PROVE  ViewInv' /\ Effect(p)
<1> DEFINE s == [proc[p] EXCEPT !.pc = "open"]
<1>0. Types /\ ProcOK(proc[p]) /\ HandleOK(handle[p]) /\ "open" \in Places
  BY DEF StepInv, Types, Places
<1>1. ProcOK(s)
  BY <1>0, PcEdit
<1>2. proc' = [proc EXCEPT ![p] = s] /\ handle' = handle /\ UNCHANGED store /\ proc[p].pc = "down"
  BY DEF Start
<1>3. ~ Holds(handle[p], fence)
  BY <1>2 DEF StepInv, Fences, Holds
<1> HIDE DEF s
<1>4. Moves(p, handle[p], s)
  BY <1>0, <1>1, <1>2, ProcMoves
<1> QED BY <1>0, <1>2, <1>3, <1>4, DiffersNot, PlaceEffect

\* A window filled from the store repeats the file.
LEMMA PrefetchEffect ==
  ASSUME StepInv, ViewInv, NEW p \in Proc, Prefetch(p), "range" \notin Faults
  PROVE  ViewInv' /\ Effect(p)
<1>1. PICK P \in SUBSET Page : handle' = [handle EXCEPT ![p].win = Filled(p, P)]
  <2>1. PICK first \in Page, n \in 0..RA_MAX_PAGES :
          handle' = [handle EXCEPT ![p].win = Filled(p, Page \cap first..(first + n - 1))]
    BY DEF Prefetch
  <2> QED BY <2>1
<1> DEFINE w == Filled(p, P)
           h == [handle[p] EXCEPT !.win = w]
<1>2. Types /\ HandleOK(handle[p])
  BY DEF StepInv, Types
<1>3. handle' = [handle EXCEPT ![p] = h] /\ proc' = proc /\ UNCHANGED store
      /\ proc[p].pc \in {"idle", "fold"}
  BY <1>1 DEF Prefetch
<1>4. \A pg \in DOMAIN w : pg \notin DOMAIN pidx /\ w[pg] = Row(shard, handle[p].as_of, pg)
  BY DEF Filled, Row
<1> HIDE DEF w
<1>5. HandleOK(h) /\ Differ(h, handle[p], {"win"}) /\ h.win = w
  BY <1>2, WindowFields
<1> HIDE DEF h
<1>6. Moves(p, h, proc[p])
  BY <1>2, <1>3, <1>5, HandleMoves
<1>7. /\ h.fence = handle[p].fence /\ h.head = handle[p].head /\ h.due = handle[p].due
      /\ h.size = handle[p].size /\ h.dirty = handle[p].dirty /\ h.trunc = handle[p].trunc
      /\ h.as_of = handle[p].as_of
  BY <1>5 DEF Differ, HandleFields
<1>8. ASSUME Holds(h, fence)
      PROVE  /\ View(h, proc[p], head, size, File, DOMAIN pidx, shardn, shard, delta)
             /\ Text(h, File) = Text(handle[p], File)
  <2>1. View(handle[p], proc[p], head, size, File, DOMAIN pidx, shardn, shard, delta)
    BY <1>7, <1>8, OwnView DEF Holds
  <2>2. Based(h, proc[p], head, shardn) /\ Staged(h, proc[p], head, File, delta)
        /\ Folded(proc[p], head, size, File, shard)
    BY <1>7, <2>1 DEF View, Based, Staged, Text
  <2>3. handle[p].as_of = Newest(shardn)
    BY <1>3, <2>1 DEF View, Based
  <2>4. \A pg \in DOMAIN w : pg \notin DOMAIN pidx /\ (pg \in 0..(size - 1) => w[pg] = File[pg])
    BY <1>2, <1>4, <2>3, FileIs DEF Pages
  <2>5. Draftable(h, head, size, File, DOMAIN pidx)
    BY <1>5, <1>7, <2>1, <2>4 DEF View, Draftable
  <2> QED BY <1>7, <2>2, <2>5 DEF View, Text
<1> QED BY <1>3, <1>6, <1>7, <1>8, QuietEffect
\* The buffer of g with one page more, in place or at the end of the draft.
Grown(g, h, pg) ==
  /\ pg \in Nat /\ g.size \in Nat /\ pg <= g.size /\ DOMAIN g.dirty \subseteq 0..(g.size - 1)
  /\ DOMAIN h.dirty = DOMAIN g.dirty \cup {pg}
  /\ \A x \in DOMAIN g.dirty : x # pg => h.dirty[x] = g.dirty[x]
  /\ h.size = IF g.size >= pg + 1 THEN g.size ELSE pg + 1

\* The draft is written where the buffer is.
LEMMA TextWritten ==
  ASSUME NEW g, NEW h, NEW F, NEW pg, Grown(g, h, pg)
  PROVE  Text(h, F) = Put(Text(g, F), pg, h.dirty[pg]) /\ DOMAIN h.dirty \subseteq 0..(h.size - 1)
<1>1. 0..(h.size - 1) = 0..(g.size - 1) \cup {pg}
  BY DEF Grown
<1>4. DOMAIN Text(g, F) = 0..(g.size - 1)
  BY DEF Text
<1>5. \A x \in 0..(g.size - 1) : Text(g, F)[x] = IF x \in DOMAIN g.dirty THEN g.dirty[x] ELSE F[x]
  BY DEF Text
<1> DEFINE T == Text(g, F)
<1> HIDE DEF T
<1>6. Text(h, F) = [x \in 0..(g.size - 1) \cup {pg} |-> IF x = pg THEN h.dirty[pg] ELSE T[x]]
  <2>1. Text(h, F) = [x \in 0..(g.size - 1) \cup {pg} |-> IF x \in DOMAIN h.dirty THEN h.dirty[x] ELSE F[x]]
    BY <1>1 DEF Text
  <2>2. \A x \in 0..(g.size - 1) \cup {pg} :
          (IF x \in DOMAIN h.dirty THEN h.dirty[x] ELSE F[x]) = IF x = pg THEN h.dirty[pg] ELSE T[x]
    BY <1>5 DEF T, Grown
  <2> QED BY <2>1, <2>2
<1>7. DOMAIN h.dirty \subseteq 0..(h.size - 1)
  BY <1>1 DEF Grown
<1> QED BY <1>4, <1>6, <1>7 DEF T, Put

\* A write puts one page into the draft.
LEMMA WriteEffect ==
  ASSUME StepInv, ViewInv, NEW p \in Proc, Write(p), "truncate" \notin Faults
  PROVE  ViewInv' /\ Effect(p)
<1>1. Types /\ HandleOK(handle[p])
  BY DEF StepInv, Types
<1>2. PICK pg, h :
        /\ pg \in Page /\ Moves(p, h, proc[p]) /\ Differ(h, handle[p], {"dirty", "size"})
        /\ h.dirty = Over([x \in {pg} |-> << handle[p].fence, handle[p].head + 1 >>], handle[p].dirty)
        /\ h.size = IF handle[p].size >= pg + 1 THEN handle[p].size ELSE pg + 1
        /\ pg <= handle[p].size /\ handle[p].head < MAX_HEAD
        /\ handle[p].trunc < 0 \/ pg < handle[p].trunc
  BY <1>1, WriteMoves
<1> DEFINE g == handle[p]
           v == << g.fence, g.head + 1 >>
<1>3. UNCHANGED store /\ proc[p].pc = "idle"
  BY DEF Write
<1>4. /\ h.fence = g.fence /\ h.head = g.head /\ h.due = g.due /\ h.trunc = g.trunc
      /\ h.as_of = g.as_of /\ h.win = g.win
  BY <1>2 DEF Differ, HandleFields
<1>5. fence' = fence /\ File' = File
  BY <1>3, RowsStay
<1>6. CASE ~ Holds(g, fence)
  <2>1. ~ Holds(h, fence) /\ h.fence \in {0, handle[p].fence}
    BY <1>4, <1>6 DEF Holds
  <2> QED BY <1>2, <1>3, <2>1, QuietEffect
<1>7. CASE Holds(g, fence)
  <2>1. /\ View(g, proc[p], head, size, File, DOMAIN pidx, shardn, shard, delta)
        /\ Knows(g, proc[p], head, logn, DOMAIN pidx, shardn)
    BY <1>7, OwnView
  <2>2. Draftable(g, head, size, File, DOMAIN pidx) /\ Based(g, proc[p], head, shardn)
    BY <2>1 DEF View
  <2>3. head = g.head
    BY <1>3, <2>1, AtRest DEF Level
  <2>4. pg \in Nat /\ g.size \in Nat /\ size \in Nat /\ g.trunc \in Int /\ g.fence \in Nat /\ g.head \in Nat
        /\ fence \in Nat
    BY <1>1, <1>2, PageConstants DEF Page, HandleOK, Types
  <2>5. /\ Text(h, File) = Put(Text(g, File), pg, v)
        /\ DOMAIN h.dirty = DOMAIN g.dirty \cup {pg} /\ DOMAIN h.dirty \subseteq 0..(h.size - 1)
    <3>0. DOMAIN g.dirty \subseteq 0..(g.size - 1) /\ h.dirty = Over([x \in {pg} |-> v], g.dirty)
      BY <1>2, <2>2 DEF Draftable
    <3>1. /\ DOMAIN h.dirty = DOMAIN g.dirty \cup {pg}
          /\ \A x \in DOMAIN g.dirty : x # pg => h.dirty[x] = g.dirty[x]
          /\ h.dirty[pg] = v
      <4> HIDE DEF v, g
      <4> QED BY <3>0 DEF Over
    <3>2. (h.size = IF g.size >= pg + 1 THEN g.size ELSE pg + 1) /\ pg <= g.size
      BY <1>2
    <3>3. pg \in Nat /\ g.size \in Nat
      BY <2>4
    <3> HIDE DEF v, g
    <3> DEFINE F == File
    <3>4. F = File OBVIOUS
    <3> HIDE DEF F
    <3>6. Grown(g, h, pg)
      BY <3>0, <3>1, <3>2, <3>3 DEF Grown
    <3>5. Text(h, F) = Put(Text(g, F), pg, h.dirty[pg])
      BY <3>6, TextWritten
    <3>7. DOMAIN h.dirty \subseteq 0..(h.size - 1)
      BY <3>6, TextWritten
    <3> QED BY <3>1, <3>4, <3>5, <3>7
  <2>6. Draftable(h, head, size, File, DOMAIN pidx)
    <3> HIDE DEF g
    <3>1. h.trunc >= 0 => h.size <= h.trunc
      BY <1>2, <1>4, <2>2, <2>4 DEF Draftable, g
    <3>2. h.trunc < 0 => size <= h.size
      BY <1>2, <1>4, <2>2, <2>4 DEF Draftable, g
    <3>3. \A x \in 0..(h.size - 1) : x < size \/ x \in DOMAIN h.dirty
      BY <1>2, <2>2, <2>4, <2>5 DEF Draftable, g
    <3>4. \A x \in DOMAIN h.win : x \notin DOMAIN pidx /\ (x \in 0..(size - 1) => h.win[x] = File[x])
      BY <1>4, <2>2, <2>3 DEF Draftable
    <3> QED BY <2>5, <3>1, <3>2, <3>3, <3>4 DEF Draftable
  <2>7. View(h, proc[p], head, size, File, DOMAIN pidx, shardn, shard, delta)
    BY <1>3, <1>4, <2>2, <2>6 DEF View, Based, Folded, Staged
  <2>8. ViewInv'
    BY <1>2, <1>3, <1>4, <2>7, QuietView
  <2>9. v \in Val
    <3>1. g.fence \in 1..MAX_FENCE
      BY <1>7, <2>4, PageConstants DEF Holds, ViewInv, RowsInv
    <3>2. g.head + 1 \in 1..MAX_HEAD
      BY <1>2, <2>4, PageConstants
    <3> HIDE DEF g
    <3> QED BY <3>1, <3>2 DEF Val
  <2>10. pg \in 0..handle[p].size
    BY <1>2, <2>4
  <2>11. Written(p, h)
    <3>1. Owns(p) /\ h.fence # 0
      BY <1>4, <1>7 DEF Holds, Owns
    <3> HIDE DEF v
    <3> QED BY <1>5, <2>5, <2>9, <2>10, <3>1 DEF Written
  <2> QED BY <1>2, <1>4, <1>5, <2>8, <2>11 DEF Effect
<1> QED BY <1>6, <1>7

\* A draft that is cut.
LEMMA TextCut ==
  ASSUME NEW g, NEW h, NEW F, NEW n \in Nat, g.size \in Nat, n <= g.size,
         h.dirty = Only(g.dirty, 0..(n - 1)), h.size = n
  PROVE  /\ Text(h, F) = Begin(Text(g, F), n)
         /\ DOMAIN h.dirty = DOMAIN g.dirty \cap 0..(n - 1)
<1>1. DOMAIN h.dirty = DOMAIN g.dirty \cap 0..(n - 1)
  BY DEF Only
<1>2. \A x \in DOMAIN h.dirty : h.dirty[x] = g.dirty[x]
  BY <1>1 DEF Only
<1>3. \A x \in 0..(n - 1) : Text(g, F)[x] = IF x \in DOMAIN g.dirty THEN g.dirty[x] ELSE F[x]
  BY DEF Text
<1>4. Text(h, F) = [x \in 0..(n - 1) |-> IF x \in DOMAIN h.dirty THEN h.dirty[x] ELSE F[x]]
  BY DEF Text
<1>5. \A x \in 0..(n - 1) : (IF x \in DOMAIN h.dirty THEN h.dirty[x] ELSE F[x]) = Text(g, F)[x]
  BY <1>1, <1>2, <1>3
<1> QED BY <1>1, <1>4, <1>5 DEF Begin

\* A truncate cuts the draft.
LEMMA TruncateEffect ==
  ASSUME StepInv, ViewInv, NEW p \in Proc, Truncate(p)
  PROVE  ViewInv' /\ Effect(p)
<1>1. PICK n \in 0..(handle[p].size - 1) : handle' = [handle EXCEPT ![p] = Truncated(handle[p], n)]
  BY DEF Truncate
<1> DEFINE g == handle[p]
           h == Truncated(g, n)
<1>2. Types /\ HandleOK(g) /\ g.size \in Nat /\ size \in Nat /\ g.trunc \in Int
  BY DEF StepInv, Types, HandleOK
<1>3. n \in Nat /\ n < g.size
  BY <1>2
<1>4. /\ HandleOK(h) /\ h.size = n /\ h.win = << >>
      /\ h.trunc = (IF g.trunc < 0 \/ n < g.trunc THEN n ELSE g.trunc)
      /\ h.dirty = Only(g.dirty, 0..(n - 1))
      /\ Differ(h, g, {"dirty", "trunc", "size", "win"})
  BY <1>2, <1>3, TruncatedFields
<1>5. UNCHANGED store /\ proc[p].pc = "idle" /\ proc' = proc
  BY DEF Truncate
<1>6. handle' = [handle EXCEPT ![p] = h]
  BY <1>1
<1> HIDE DEF h
<1>7. Moves(p, h, proc[p])
  BY <1>2, <1>4, <1>5, <1>6, HandleMoves
<1>8. h.fence = g.fence /\ h.head = g.head /\ h.due = g.due /\ h.as_of = g.as_of
  BY <1>4 DEF Differ, HandleFields
<1>9. fence' = fence /\ File' = File
  BY <1>5, RowsStay
<1>10. CASE ~ Holds(g, fence)
  <2>1. ~ Holds(h, fence) /\ h.fence \in {0, handle[p].fence}
    BY <1>8, <1>10 DEF Holds
  <2> QED BY <1>5, <1>7, <2>1, QuietEffect
<1>11. CASE Holds(g, fence)
  <2>1. View(g, proc[p], head, size, File, DOMAIN pidx, shardn, shard, delta)
    BY <1>11, OwnView
  <2>2. Draftable(g, head, size, File, DOMAIN pidx) /\ Based(g, proc[p], head, shardn)
    BY <2>1 DEF View
  <2>3. /\ Text(h, File) = Begin(Text(g, File), n)
        /\ DOMAIN h.dirty = DOMAIN g.dirty \cap 0..(n - 1)
    <3>1. h.dirty = Only(g.dirty, 0..(n - 1)) /\ h.size = n /\ n <= g.size /\ g.size \in Nat /\ n \in Nat
      BY <1>2, <1>3, <1>4
    <3> HIDE DEF g
    <3> DEFINE F == File
    <3>2. F = File OBVIOUS
    <3> HIDE DEF F
    <3>3. Text(h, F) = Begin(Text(g, F), n)
      BY <3>1, TextCut
    <3>4. DOMAIN h.dirty = DOMAIN g.dirty \cap 0..(n - 1)
      BY <3>1, TextCut
    <3> QED BY <3>2, <3>3, <3>4
  <2>4. Draftable(h, head, size, File, DOMAIN pidx)
    <3>1. h.trunc >= 0 /\ h.size <= h.trunc
      BY <1>2, <1>3, <1>4, <2>2 DEF Draftable
    <3>2. DOMAIN h.dirty \subseteq 0..(h.size - 1)
      BY <1>4, <2>3
    <3>3. \A x \in 0..(h.size - 1) : x < size \/ x \in DOMAIN h.dirty
      BY <1>2, <1>3, <1>4, <2>2, <2>3 DEF Draftable
    <3>4. DOMAIN h.win = {}
      BY <1>4
    <3>5. h.trunc \in Int
      BY <1>4 DEF HandleOK
    <3> QED BY <3>1, <3>2, <3>3, <3>4, <3>5 DEF Draftable
  <2>5. View(h, proc[p], head, size, File, DOMAIN pidx, shardn, shard, delta)
    BY <1>5, <1>8, <2>2, <2>4 DEF View, Based, Folded, Staged
  <2>6. ViewInv'
    BY <1>5, <1>7, <1>8, <2>5, QuietView
  <2>7. Cut(p, h)
    <3>1. Owns(p) /\ h.fence # 0
      BY <1>8, <1>11 DEF Holds, Owns
    <3>2. n \in 0..handle[p].size
      BY <1>2, <1>3
    <3> QED BY <1>9, <2>3, <3>1, <3>2 DEF Cut
  <2> QED BY <1>7, <1>8, <1>9, <2>6, <2>7 DEF Effect
<1> QED BY <1>10, <1>11
\* A flush begins with nothing staged and nothing landed.
LEMMA FlushBegins ==
  ASSUME StepInv, ViewInv, NEW p \in Proc, Holds(handle[p], fence), proc[p].pc = "idle",
         NEW s, s.pc \in {"commit", "stage"}, s.todo = DOMAIN handle[p].dirty
  PROVE  /\ Based(handle[p], s, head, shardn) /\ Folded(s, head, size, File, shard)
         /\ Staged(handle[p], s, head, File, delta)
<1>1. Based(handle[p], proc[p], head, shardn)
  BY OwnView DEF View
<1>2. Knows(handle[p], proc[p], head, logn, DOMAIN pidx, shardn)
  BY OwnView
<1>3. head = handle[p].head
  BY <1>2, AtRest DEF Level
<1>4. Based(handle[p], s, head, shardn)
  BY <1>1 DEF Based
<1>5. Folded(s, head, size, File, shard)
  BY DEF Folded
<1>6. Staged(handle[p], s, head, File, delta)
  BY <1>3 DEF Staged
<1> QED BY <1>4, <1>5, <1>6

\* The start of a flush is not to be seen.
LEMMA SyncEffect ==
  ASSUME StepInv, ViewInv, NEW p \in Proc, Sync(p)
  PROVE  ViewInv' /\ Effect(p)
<1> DEFINE s == Flushing(handle[p])
<1>1. Types /\ HandleOK(handle[p])
  BY DEF StepInv, Types
<1>2. UNCHANGED store /\ proc[p].pc = "idle" /\ proc' = [proc EXCEPT ![p] = s] /\ handle' = handle
  BY DEF Sync
<1>3. ProcOK(s) /\ s.pc \in {"commit", "stage"} /\ s.todo = DOMAIN handle[p].dirty
  BY FlushingFields
<1> HIDE DEF s
<1>4. Moves(p, handle[p], s)
  BY <1>1, <1>2, <1>3, ProcMoves
<1>5. Differ(handle[p], handle[p], {"due"})
  BY <1>1, DiffersNot
<1>6. Holds(handle[p], fence) =>
        /\ Based(handle[p], s, head, shardn) /\ Folded(s, head, size, File, shard)
        /\ Staged(handle[p], s, head, File, delta)
  BY <1>2, <1>3, FlushBegins
<1> QED BY <1>2, <1>4, <1>5, <1>6, PlaceEffect

\* A fold begins with every page of the file to do, as of the head.
LEMMA FoldBegins ==
  ASSUME StepInv, ViewInv, NEW p \in Proc, Holds(handle[p], fence), proc[p].pc = "idle",
         handle[p].due, handle[p].trunc < 0,
         NEW h, Differ(h, handle[p], {"due"}), ~ h.due,
         NEW s, s.pc = "fold", s.todo = 0..(handle[p].size - 1)
  PROVE  /\ Based(h, s, head, shardn) /\ Folded(s, head, size, File, shard)
         /\ Staged(h, s, head, File, delta)
<1>1. Based(handle[p], proc[p], head, shardn) /\ Draftable(handle[p], head, size, File, DOMAIN pidx)
  BY OwnView DEF View
<1>2. h.as_of = handle[p].as_of /\ h.head = handle[p].head
  BY DEF Differ, HandleFields
<1>3. Based(h, s, head, shardn)
  BY <1>1, <1>2 DEF Based
<1>4. size \in Nat /\ handle[p].size \in Nat /\ size <= handle[p].size
  BY <1>1 DEF StepInv, Types, HandleOK, Draftable
<1>5. (0..(size - 1)) \ s.todo = {}
  BY <1>4
<1>6. Folded(s, head, size, File, shard)
  BY <1>5 DEF Folded
<1>7. Staged(h, s, head, File, delta)
  BY DEF Staged
<1> QED BY <1>3, <1>6, <1>7

\* Nor is the start of a fold.
LEMMA CompactDueEffect ==
  ASSUME StepInv, ViewInv, NEW p \in Proc, CompactDue(p), "truncate" \notin Faults
  PROVE  ViewInv' /\ Effect(p)
<1> DEFINE h == [handle[p] EXCEPT !.due = FALSE]
           t == 0..(handle[p].size - 1)
           s == [Idle EXCEPT !.pc = "fold", !.todo = t]
<1>1. Types /\ HandleOK(handle[p]) /\ ProcOK(proc[p])
  BY DEF StepInv, Types
<1>2. /\ proc[p].pc = "idle" /\ handle[p].due /\ handle[p].trunc < 0
      /\ handle' = [handle EXCEPT ![p] = h] /\ UNCHANGED store
      /\ proc' = proc \/ proc' = [proc EXCEPT ![p] = s]
  BY DEF CompactDue
<1>3. HandleOK(h) /\ Differ(h, handle[p], {"due"}) /\ h.due = FALSE
  <2> DEFINE v == FALSE
  <2> HIDE DEF v
  <2>1. LET g == [handle[p] EXCEPT !.due = v] IN
        HandleOK(g) /\ g.due = v /\ Differ(g, handle[p], {"due"})
    BY <1>1, DueFields
  <2> QED BY <2>1 DEF v
<1> HIDE DEF t
<1>4. ProcOK(s) /\ s.pc = "fold" /\ s.todo = t
  BY FoldFields
<1> HIDE DEF h, s
<1>5. CASE proc' = proc
  <2>1. Moves(p, h, proc[p])
    BY <1>1, <1>2, <1>3, <1>5, HandleMoves
  <2>2. h.as_of = handle[p].as_of /\ h.head = handle[p].head
    BY <1>3 DEF Differ, HandleFields
  <2>3. ASSUME Holds(handle[p], fence)
        PROVE  /\ Based(h, proc[p], head, shardn) /\ Folded(proc[p], head, size, File, shard)
               /\ Staged(h, proc[p], head, File, delta)
    <3>1. Based(handle[p], proc[p], head, shardn)
      BY <2>3, OwnView DEF View
    <3> QED BY <1>2, <1>3, <2>2, <3>1 DEF Based, Folded, Staged
  <2> QED BY <1>2, <1>3, <2>1, <2>3, PlaceEffect
<1>6. CASE proc' = [proc EXCEPT ![p] = s]
  <2>1. Moves(p, h, s)
    BY <1>2, <1>3, <1>4, <1>6 DEF Moves
  <2>2. Holds(handle[p], fence) =>
          /\ Based(h, s, head, shardn) /\ Folded(s, head, size, File, shard)
          /\ Staged(h, s, head, File, delta)
    <3>1. s.todo = 0..(handle[p].size - 1) /\ ~ h.due
      BY <1>3, <1>4 DEF t
    <3> QED BY <1>2, <1>3, <1>4, <3>1, FoldBegins
  <2> QED BY <1>2, <1>3, <2>1, <2>2, PlaceEffect
<1> QED BY <1>2, <1>5, <1>6

\* A flush or a fold that is given up, and has not landed.
LEMMA GiveUpEffect ==
  ASSUME StepInv, ViewInv, NEW p \in Proc, GiveUp(p),
         Holds(handle[p], fence) => ~ (proc[p].pc = "finish" /\ head \in DOMAIN shardn)
  PROVE  ViewInv' /\ Effect(p)
<1>1. Types /\ HandleOK(handle[p]) /\ ProcOK(proc[p]) /\ UNCHANGED store
  BY DEF StepInv, Types, GiveUp
<1>2. CASE proc[p].closing
  <2>1. Moves(p, Closed, Down)
    BY <1>2, ClosedFields, DownFields DEF GiveUp, Moves
  <2> QED BY <1>1, <2>1, CloseEffect
<1>3. CASE ~ proc[p].closing
  <2>1. Moves(p, handle[p], Idle)
    BY <1>1, <1>3, IdleFields DEF GiveUp, Moves
  <2>2. Differ(handle[p], handle[p], {"due"})
    BY <1>1, DiffersNot
  <2>3. ASSUME Holds(handle[p], fence)
        PROVE  /\ Based(handle[p], Idle, head, shardn) /\ Folded(Idle, head, size, File, shard)
               /\ Staged(handle[p], Idle, head, File, delta)
    <3>1. Based(handle[p], proc[p], head, shardn)
      BY <2>3, OwnView DEF View
    <3>2. Idle.pc = "idle"
      BY IdleFields
    <3> QED BY <2>3, <3>1, <3>2 DEF Based, Folded, Staged
  <2> QED BY <1>1, <2>1, <2>2, <2>3, PlaceEffect
<1> QED BY <1>2, <1>3

\* A process that does not own the database is refused.
LEMMA RefusedEffect ==
  ASSUME StepInv, ViewInv, NEW p \in Proc, Refused(p)
  PROVE  ViewInv' /\ Effect(p)
<1>1. GiveUp(p) /\ ~ Holds(handle[p], fence)
  BY DEF Refused, Owns, Holds
<1> QED BY <1>1, GiveUpEffect

\* An error that is not retried: the buffer stays, or the file is closed without it.
LEMMA FailsEffect ==
  ASSUME StepInv, ViewInv, NEW p \in Proc, Fails(p), "late" \notin Faults
  PROVE  ViewInv' /\ Effect(p)
<1>1. GiveUp(p) /\ ~ Landed(p)
  BY DEF Fails
<1>2. ASSUME Holds(handle[p], fence) PROVE ~ (proc[p].pc = "finish" /\ head \in DOMAIN shardn)
  <2>1. Knows(handle[p], proc[p], head, logn, DOMAIN pidx, shardn)
    BY <1>2, OwnView
  <2> QED BY <1>1, <2>1 DEF Knows, FlushLanded, FoldLanded, Landed
<1> QED BY <1>1, <1>2, GiveUpEffect

\* fdb_close begins its flush, or its fold, or gives the file up.
LEMMA ClosingEffect ==
  ASSUME StepInv, ViewInv, NEW p \in Proc, Close(p)
  PROVE  ViewInv' /\ Effect(p)
<1> DEFINE h == handle[p]
           t == 0..(h.size - 1)
           fold == [Idle EXCEPT !.pc = "fold", !.todo = t]
           next == IF ToFlush(h) THEN Flushing(h) ELSE IF h.due /\ h.size > 0 THEN fold ELSE Down
           c == (next.pc # "down")
           s == [next EXCEPT !.closing = c]
           k == Kept(next, h)
<1>1. Types /\ HandleOK(h) /\ ProcOK(proc[p])
  BY DEF StepInv, Types
<1>2. /\ proc[p].pc = "idle" /\ UNCHANGED store
      /\ proc' = [proc EXCEPT ![p] = s] /\ handle' = [handle EXCEPT ![p] = k]
  BY DEF Close
<1> HIDE DEF t
<1>3. ProcOK(fold) /\ fold.pc = "fold" /\ fold.todo = t
  BY FoldFields
<1> HIDE DEF fold
<1>4. /\ ProcOK(next) /\ next.pc \in {"commit", "stage", "fold", "down"}
      /\ next.pc = "fold" => h.due /\ ~ ToFlush(h) /\ next.todo = t
      /\ next.pc \in {"commit", "stage"} => next.todo = DOMAIN h.dirty
  BY <1>3, FlushingFields, DownFields
<1> HIDE DEF next, c
<1>5. ProcOK(s) /\ s.pc = next.pc /\ s.todo = next.todo
  BY <1>4, ClosingEdit
<1>6. /\ HandleOK(k)
      /\ next.pc = "down" => k = Closed
      /\ next.pc # "down" => Differ(k, h, {"due"})
      /\ next.pc = "fold" => ~ k.due
      /\ next.pc \in {"commit", "stage"} => k = h
  BY <1>1, KeptFields
<1> HIDE DEF s, k
<1>7. Moves(p, k, s)
  BY <1>2, <1>5, <1>6 DEF Moves
<1>8. CASE next.pc = "down"
  BY <1>2, <1>6, <1>7, <1>8, CloseEffect
<1>9. CASE next.pc # "down"
  <2>1. Differ(k, handle[p], {"due"})
    BY <1>6, <1>9
  <2>2. ASSUME Holds(handle[p], fence)
        PROVE  /\ Based(k, s, head, shardn) /\ Folded(s, head, size, File, shard)
               /\ Staged(k, s, head, File, delta)
    <3>1. CASE next.pc = "fold"
      <4>1. handle[p].trunc < 0 /\ handle[p].due /\ s.todo = 0..(handle[p].size - 1) /\ s.pc = "fold"
        BY <1>1, <1>4, <1>5, <3>1 DEF ToFlush, HandleOK, t
      <4> QED BY <1>2, <1>6, <2>1, <2>2, <3>1, <4>1, FoldBegins
    <3>2. CASE next.pc \in {"commit", "stage"}
      <4>1. k = handle[p] /\ s.pc \in {"commit", "stage"} /\ s.todo = DOMAIN handle[p].dirty
        BY <1>4, <1>5, <1>6, <3>2
      <4> QED BY <1>2, <2>2, <4>1, FlushBegins
    <3> QED BY <1>4, <1>9, <3>1, <3>2
  <2> QED BY <1>2, <1>7, <2>1, <2>2, PlaceEffect
<1> QED BY <1>8, <1>9

\* A process that dies gives the file up.
LEMMA CrashEffect ==
  ASSUME StepInv, ViewInv, NEW p \in Proc, Crash(p)
  PROVE  ViewInv' /\ Effect(p)
<1>1. UNCHANGED store
  BY DEF Crash
<1>2. Moves(p, Closed, Down)
  BY ClosedFields, DownFields DEF Crash, Moves
<1> QED BY <1>1, <1>2, CloseEffect
\* fold_read_body reads the pages of the file: the fold is as of the head, and the
\* owner's buffer is not looked at.
LEMMA FoldReadEffect ==
  ASSUME StepInv, ViewInv, NEW p \in Proc, FoldRead(p)
  PROVE  ViewInv' /\ Effect(p)
<1> DEFINE h == handle[p]
           Got(pg) == PageFromStore(p, h.as_of, pg)
           L == Lowest(proc[p].todo, STAGE_TXN_PAGES)
           b == [pg \in {x \in L : Got(x) # Zero} |-> Got(pg)]
           r == [proc[p] EXCEPT !.pc = "fold_write"]
           s == [r EXCEPT !.buf = b]
<1>1. Types /\ HandleOK(h) /\ ProcOK(proc[p]) /\ DOMAIN proc = Proc
  BY DEF StepInv, Types
<1>2. handle' = handle /\ proc[p].pc = "fold" /\ UNCHANGED store
      /\ proc' = [proc EXCEPT ![p].pc = "fold_write", ![p].buf = b]
  BY DEF FoldRead
<1>3. \A x \in DOMAIN b : b[x] = Got(x)
  OBVIOUS
<1>4. \A x \in L \ DOMAIN b : Got(x) = Zero
  OBVIOUS
<1> HIDE DEF b
<1>5. proc' = [proc EXCEPT ![p] = s]
  BY <1>1, <1>2
<1>6. ProcOK(r) /\ r.pc = "fold_write" /\ r.todo = proc[p].todo
  <2>1. "fold_write" \in Places BY DEF Places
  <2> QED BY <1>1, <2>1, PcEdit
<1> HIDE DEF r
<1>7. ProcOK(s) /\ s.pc = "fold_write" /\ s.todo = proc[p].todo /\ s.buf = b
  BY <1>6, BufEdit
<1> HIDE DEF s
<1>8. Moves(p, h, s)
  BY <1>1, <1>2, <1>5, <1>7, ProcMoves
<1>9. Differ(h, h, {"due"})
  BY <1>1, DiffersNot
<1>10. ASSUME Holds(h, fence)
       PROVE  /\ Based(h, s, head, shardn) /\ Folded(s, head, size, File, shard)
              /\ Staged(h, s, head, File, delta)
  <2>1. /\ Draftable(h, head, size, File, DOMAIN pidx) /\ Based(h, proc[p], head, shardn)
        /\ Folded(proc[p], head, size, File, shard)
    BY <1>10, OwnView DEF View
  <2>2. Knows(h, proc[p], head, logn, DOMAIN pidx, shardn)
    BY <1>10, OwnView
  <2>3. head = h.head
    BY <1>2, <2>2, AtRest DEF Level
  <2>4. h.as_of = NewestShard
    BY <1>1, <1>2, <2>1, FileIs DEF Based
  <2>5. \A x \in 0..(size - 1) : Got(x) = File[x]
    <3> SUFFICES ASSUME NEW x \in 0..(size - 1) PROVE Got(x) = File[x]
      OBVIOUS
    <3>1. File[x] = StorePage(NewestShard, x)
      BY DEF File
    <3>2. x \in DOMAIN h.win => h.win[x] = File[x]
      BY <2>1, <2>3 DEF Draftable
    <3> QED BY <2>4, <3>1, <3>2 DEF PageFromStore
  <2> HIDE DEF Got
  <2>6. \A x \in DOMAIN s.buf \cap 0..(size - 1) : s.buf[x] = File[x]
    BY <1>3, <1>7, <2>5
  <2>7. \A x \in (Lowest(s.todo, STAGE_TXN_PAGES) \cap 0..(size - 1)) \ DOMAIN s.buf : File[x] = Zero
    BY <1>4, <1>7, <2>5
  <2>8. Folded(s, head, size, File, shard)
    BY <1>2, <1>7, <2>1, <2>6, <2>7 DEF Folded
  <2>9. Based(h, s, head, shardn) /\ Staged(h, s, head, File, delta)
    BY <1>2, <1>7, <2>1 DEF Based, Staged
  <2> QED BY <2>8, <2>9
<1> QED BY <1>2, <1>8, <1>9, <1>10, PlaceEffect

\* put_delta_pages: rows of the txid above the head, for those pages, and no other.
LEMMA DeltaRows ==
  ASSUME NEW h, NEW P, PutDelta(h, P)
  PROVE  /\ \A pg \in P : << h.head + 1, pg >> \in DOMAIN delta'
                          /\ delta'[<< h.head + 1, pg >>] = h.dirty[pg]
         /\ \A v, pg : v # h.head + 1 \/ pg \notin P => Row(delta', v, pg) = Row(delta, v, pg)
         /\ \A r \in DOMAIN delta : r \in DOMAIN delta'
<1> DEFINE t == h.head + 1
           new == [r \in {t} \X P |-> h.dirty[r[2]]]
<1>1. delta' = Over(new, delta)
  BY DEF PutDelta
<1>2. /\ DOMAIN delta' = ({t} \X P) \cup DOMAIN delta
      /\ \A r \in {t} \X P : delta'[r] = h.dirty[r[2]]
      /\ \A r \in DOMAIN delta \ ({t} \X P) : delta'[r] = delta[r]
  BY <1>1 DEF Over
<1> HIDE DEF t
<1>3. \A pg \in P : << t, pg >> \in {t} \X P /\ << t, pg >>[2] = pg
  OBVIOUS
<1>4. \A v, pg : v # t \/ pg \notin P => << v, pg >> \notin {t} \X P
  OBVIOUS
<1>5. \A pg \in P : << t, pg >> \in DOMAIN delta' /\ delta'[<< t, pg >>] = h.dirty[pg]
  BY <1>2, <1>3
<1>6. \A v, pg : v # t \/ pg \notin P => Row(delta', v, pg) = Row(delta, v, pg)
  BY <1>2, <1>4 DEF Row
<1> QED BY <1>2, <1>5, <1>6 DEF t

\* Rows above the head are no part of the file.
LEMMA FileUnstaged ==
  ASSUME Types, RowsInv, UNCHANGED << head, size, pidx, shard, shardn >>, Types',
         \A v, pg : v <= head => Row(delta', v, pg) = Row(delta, v, pg)
  PROVE  File' = File
<1>1. File = Pages(size, pidx, delta, shard, shardn)
  BY FileIs
<1>2. File' = Pages(size, pidx, delta', shard, shardn)
  BY FileIsNext
<1>3. \A pg \in DOMAIN pidx : Row(delta', pidx[pg], pg) = Row(delta, pidx[pg], pg)
  BY DEF RowsInv
<1> QED BY <1>1, <1>2, <1>3 DEF Pages

\* delta_body writes under a txid above the head, which the index does not name.
LEMMA StageEffect ==
  ASSUME StepInv, ViewInv, StepInv', NEW p \in Proc, Stage(p)
  PROVE  ViewInv' /\ Effect(p)
<1> DEFINE h == handle[p]
           L == Lowest(proc[p].todo, STAGE_TXN_PAGES)
           left == proc[p].todo \ L
           at == IF left = {} THEN "head" ELSE "stage"
           s == [proc[p] EXCEPT !.todo = left, !.pc = at]
<1>1. Types /\ HandleOK(h) /\ ProcOK(proc[p]) /\ head \in Nat
  BY DEF StepInv, Types
<1>2. Answer(p, s, h) /\ proc[p].pc = "stage" /\ Owns(p) /\ PutDelta(h, L)
      /\ UNCHANGED << head, size, fence, logn, pidx, shard, shardn >>
  BY DEF Stage
<1>3. at \in Places /\ at \in {"head", "stage"} /\ (at = "head" => left = {})
  BY DEF Places
<1> HIDE DEF at
<1>4. ProcOK(s) /\ s.pc = at /\ s.todo = left
  <2> HIDE DEF left
  <2> DEFINE t == [proc[p] EXCEPT !.todo = left]
  <2>1. ProcOK(t) /\ t.todo = left
    BY <1>1, TodoEdit
  <2>2. s = [t EXCEPT !.pc = at]
    OBVIOUS
  <2> HIDE DEF t, s
  <2> QED BY <1>3, <2>1, <2>2, PcEdit
<1> HIDE DEF s
<1>5. Holds(h, fence) /\ h.fence # 0
  BY <1>2 DEF Owns, Holds
<1>6. /\ Draftable(h, head, size, File, DOMAIN pidx) /\ Based(h, proc[p], head, shardn)
      /\ Staged(h, proc[p], head, File, delta)
  BY <1>5, OwnView DEF View
<1>7. Knows(h, proc[p], head, logn, DOMAIN pidx, shardn)
  BY <1>5, OwnView
<1>8. head = h.head
  BY <1>2, <1>7, AtRest DEF Level
<1>9. /\ \A pg \in L : << h.head + 1, pg >> \in DOMAIN delta'
                       /\ delta'[<< h.head + 1, pg >>] = h.dirty[pg]
      /\ \A v, pg : v # h.head + 1 \/ pg \notin L => Row(delta', v, pg) = Row(delta, v, pg)
      /\ \A r \in DOMAIN delta : r \in DOMAIN delta'
  <2> HIDE DEF L, h
  <2> QED BY <1>2, DeltaRows
<1>10. File' = File
  <2>1. \A v, pg : v <= head => Row(delta', v, pg) = Row(delta, v, pg)
    <3> SUFFICES ASSUME NEW v, NEW pg, v <= head PROVE Row(delta', v, pg) = Row(delta, v, pg)
      OBVIOUS
    <3>1. v # head + 1
      BY <1>1
    <3> QED BY <1>8, <1>9, <3>1
  <2>2. Types' /\ RowsInv
    BY DEF StepInv, ViewInv
  <2> QED BY <1>1, <1>2, <2>1, <2>2, FileUnstaged
<1>11. RowsInv'
  BY <1>2, <1>10 DEF ViewInv, RowsInv
<1>12. L \subseteq proc[p].todo
  BY DEF Lowest
<1>13. \A pg \in DOMAIN h.dirty \ left :
         << h.head + 1, pg >> \in DOMAIN delta' /\ delta'[<< h.head + 1, pg >>] = h.dirty[pg]
  <2> SUFFICES ASSUME NEW pg \in DOMAIN h.dirty \ left
               PROVE  << h.head + 1, pg >> \in DOMAIN delta' /\ delta'[<< h.head + 1, pg >>] = h.dirty[pg]
    OBVIOUS
  <2>1. CASE pg \in L
    BY <1>9, <2>1
  <2>2. CASE pg \notin L
    <3>1. pg \notin proc[p].todo
      BY <2>2
    <3>2. << h.head + 1, pg >> \in DOMAIN delta /\ delta[<< h.head + 1, pg >>] = h.dirty[pg]
      BY <1>2, <1>6, <3>1 DEF Staged
    <3>3. << h.head + 1, pg >> \in DOMAIN delta' /\ Row(delta', h.head + 1, pg) = Row(delta, h.head + 1, pg)
      BY <1>9, <2>2, <3>2
    <3> QED BY <3>2, <3>3 DEF Row
  <2> QED BY <2>1, <2>2
<1>14. Moves(p, h, s) \/ Moves(p, h, proc[p])
  BY <1>1, <1>2, <1>4, AnswerMoves
<1>15. Unseen(p, h)
  BY <1>10 DEF Unseen
<1>16. Draftable(h, head', size', File', DOMAIN pidx')
  BY <1>2, <1>6, <1>10
<1>17. CASE Moves(p, h, s)
  <2>1. Staged(h, s, head', File', delta')
    BY <1>2, <1>3, <1>4, <1>8, <1>13 DEF Staged
  <2>2. Based(h, s, head', shardn') /\ Folded(s, head', size', File', shard')
    BY <1>2, <1>3, <1>4, <1>6 DEF Based, Folded
  <2>3. View(h, s, head', size', File', DOMAIN pidx', shardn', shard', delta')
    BY <1>16, <2>1, <2>2 DEF View
  <2>4. ViewInv'
    BY <1>2, <1>11, <1>17, <2>3, KeepView
  <2> QED BY <1>2, <1>15, <1>17, <2>4 DEF Effect
<1>18. CASE Moves(p, h, proc[p])
  <2>1. Staged(h, proc[p], head', File', delta')
    <3>1. DOMAIN h.dirty \ proc[p].todo \subseteq DOMAIN h.dirty \ left
      OBVIOUS
    <3> QED BY <1>2, <1>13, <3>1 DEF Staged
  <2>2. Based(h, proc[p], head', shardn') /\ Folded(proc[p], head', size', File', shard')
    BY <1>2, <1>6 DEF Folded
  <2>3. View(h, proc[p], head', size', File', DOMAIN pidx', shardn', shard', delta')
    BY <1>16, <2>1, <2>2 DEF View
  <2>4. ViewInv'
    BY <1>2, <1>11, <1>18, <2>3, KeepView
  <2> QED BY <1>2, <1>15, <1>18, <2>4 DEF Effect
<1> QED BY <1>14, <1>17, <1>18
\* fold_write_body's rows, for some pages of the version at the head, and no other.
AddRows(v, b) == shard' = Over([r \in {v} \X DOMAIN b |-> b[r[2]]], shard)

\* What those rows are afterwards.
LEMMA ShardRows ==
  ASSUME NEW v, NEW b, AddRows(v, b)
  PROVE  /\ \A pg \in DOMAIN b : Row(shard', v, pg) = b[pg]
         /\ \A u, pg : u # v \/ pg \notin DOMAIN b =>
              /\ << u, pg >> \in DOMAIN shard' <=> << u, pg >> \in DOMAIN shard
              /\ Row(shard', u, pg) = Row(shard, u, pg)
         /\ \A r \in DOMAIN shard' : r[1] = v \/ r \in DOMAIN shard
<1> DEFINE P == DOMAIN b
           new == [r \in {v} \X P |-> b[r[2]]]
<1>1. shard' = Over(new, shard)
  BY DEF AddRows
<1>2. /\ DOMAIN shard' = ({v} \X P) \cup DOMAIN shard
      /\ \A r \in {v} \X P : shard'[r] = b[r[2]]
      /\ \A r \in DOMAIN shard \ ({v} \X P) : shard'[r] = shard[r]
  BY <1>1 DEF Over
<1> HIDE DEF P, new
<1>3. \A pg \in P : << v, pg >> \in {v} \X P /\ << v, pg >>[2] = pg
  OBVIOUS
<1>4. \A u, pg : u # v \/ pg \notin P => << u, pg >> \notin {v} \X P
  OBVIOUS
<1>5. \A pg \in P : Row(shard', v, pg) = b[pg]
  BY <1>2, <1>3 DEF Row
<1>6. \A u, pg : u # v \/ pg \notin P =>
        /\ << u, pg >> \in DOMAIN shard' <=> << u, pg >> \in DOMAIN shard
        /\ Row(shard', u, pg) = Row(shard, u, pg)
  BY <1>2, <1>4 DEF Row
<1>7. \A r \in DOMAIN shard' : r[1] = v \/ r \in DOMAIN shard
  BY <1>2
<1> QED BY <1>5, <1>6, <1>7 DEF P

\* fold_write_body writes to a version above the newest, which nobody reads yet.
LEMMA FoldWriteEffect ==
  ASSUME StepInv, ViewInv, StepInv', NEW p \in Proc, FoldWrite(p)
  PROVE  ViewInv' /\ Effect(p)
<1> DEFINE h == handle[p]
           buf == proc[p].buf
           L == Lowest(proc[p].todo, STAGE_TXN_PAGES)
           left == proc[p].todo \ L
           at == IF left = {} THEN "finish" ELSE "fold"
           n == proc[p].kept + Cardinality(DOMAIN buf)
           none == << >>
           s == [proc[p] EXCEPT !.todo = left, !.kept = n, !.buf = none, !.pc = at]
<1>1. Types /\ HandleOK(h) /\ ProcOK(proc[p]) /\ head \in Nat /\ RowsInv
  BY DEF StepInv, Types, ViewInv
<1>2. Answer(p, s, h) /\ proc[p].pc = "fold_write" /\ Owns(p)
      /\ UNCHANGED << head, size, fence, logn, pidx, delta, shardn >>
      /\ shard' = Over([r \in {h.head} \X DOMAIN buf |-> buf[r[2]]], shard)
  BY <1>1 DEF FoldWrite, ProcOK, ProcShape
<1>3. at \in Places /\ at \in {"finish", "fold"} /\ (at = "finish" => left = {})
  BY DEF Places
<1> HIDE DEF at, n, none
<1>4. ProcOK(s) /\ s.pc = at /\ s.todo = left
  <2> HIDE DEF left
  <2> DEFINE a == [proc[p] EXCEPT !.todo = left]
             b == [a EXCEPT !.kept = n]
             c == [b EXCEPT !.buf = none]
             d == [c EXCEPT !.pc = at]
  <2>1. s = d
    OBVIOUS
  <2>2. ProcOK(a) /\ a.todo = left
    BY <1>1, TodoEdit
  <2> HIDE DEF a
  <2>3. ProcOK(b) /\ b.todo = left
    BY <2>2, KeptEdit
  <2> HIDE DEF b
  <2>4. ProcOK(c) /\ c.todo = left
    BY <2>3, BufEdit
  <2> HIDE DEF c
  <2>5. ProcOK(d) /\ d.pc = at /\ d.todo = left
    BY <1>3, <2>4, PcEdit
  <2> QED BY <2>1, <2>5
<1> HIDE DEF s
<1>5. Holds(h, fence) /\ h.fence # 0
  BY <1>2 DEF Owns, Holds
<1>6. /\ Draftable(h, head, size, File, DOMAIN pidx) /\ Based(h, proc[p], head, shardn)
      /\ Folded(proc[p], head, size, File, shard)
  BY <1>5, OwnView DEF View
<1>7. Knows(h, proc[p], head, logn, DOMAIN pidx, shardn)
  BY <1>5, OwnView
<1>8. head = h.head
  BY <1>2, <1>7, AtRest DEF Level
<1>9. h.as_of = Newest(shardn) /\ h.as_of # head
  BY <1>1, <1>2, <1>6, <1>8 DEF Based, HandleOK
<1>10. /\ \A pg \in DOMAIN buf : Row(shard', head, pg) = buf[pg]
       /\ \A u, pg : u # head \/ pg \notin DOMAIN buf =>
            /\ << u, pg >> \in DOMAIN shard' <=> << u, pg >> \in DOMAIN shard
            /\ Row(shard', u, pg) = Row(shard, u, pg)
       /\ \A r \in DOMAIN shard' : r[1] = head \/ r \in DOMAIN shard
  <2>1. AddRows(head, buf)
    BY <1>2, <1>8 DEF AddRows
  <2> HIDE DEF buf
  <2>2. \A pg \in DOMAIN buf : Row(shard', head, pg) = buf[pg]
    BY <2>1, ShardRows
  <2>3. \A u, pg : u # head \/ pg \notin DOMAIN buf =>
          /\ << u, pg >> \in DOMAIN shard' <=> << u, pg >> \in DOMAIN shard
          /\ Row(shard', u, pg) = Row(shard, u, pg)
    BY <2>1, ShardRows
  <2>4. \A r \in DOMAIN shard' : r[1] = head \/ r \in DOMAIN shard
    BY <2>1, ShardRows
  <2> QED BY <2>2, <2>3, <2>4
<1>11. \A pg \in DOMAIN buf \cap 0..(size - 1) : buf[pg] = File[pg]
  BY <1>2, <1>6 DEF Folded
<1>12. \A pg \in (L \cap 0..(size - 1)) \ DOMAIN buf : File[pg] = Zero
  BY <1>2, <1>6 DEF Folded
<1>13. File' = File
  <2>1. Types'
    BY DEF StepInv
  <2>2. File' = Pages(size, pidx, delta, shard', shardn)
    BY <1>2, <2>1, FileIsNext
  <2>3. \A pg : Row(shard', Newest(shardn), pg) = Row(shard, Newest(shardn), pg)
    BY <1>9, <1>10
  <2>4. File = Pages(size, pidx, delta, shard, shardn)
    BY <1>1, FileIs
  <2> QED BY <2>2, <2>3, <2>4 DEF Pages
<1> HIDE DEF L, buf
<1>14. \A pg \in 0..(size - 1) : << head, pg >> \in DOMAIN shard' => shard'[<< head, pg >>] = File[pg]
  <2> SUFFICES ASSUME NEW pg \in 0..(size - 1), << head, pg >> \in DOMAIN shard'
               PROVE  Row(shard', head, pg) = File[pg]
    BY DEF Row
  <2>1. CASE pg \in DOMAIN buf
    BY <1>10, <1>11, <2>1
  <2>2. CASE pg \notin DOMAIN buf
    <3>1. << head, pg >> \in DOMAIN shard /\ Row(shard', head, pg) = Row(shard, head, pg)
      BY <1>10, <2>2
    <3>2. shard[<< head, pg >>] = File[pg]
      BY <1>1, <3>1 DEF RowsInv
    <3> QED BY <3>1, <3>2 DEF Row
  <2> QED BY <2>1, <2>2
<1>15. RowsInv'
  <2>1. \A r \in DOMAIN shard' : r[1] \in 0..head
    BY <1>1, <1>10 DEF RowsInv
  <2> QED BY <1>1, <1>2, <1>13, <1>14, <2>1 DEF RowsInv
<1>16. \A pg \in (0..(size - 1)) \ left : Row(shard', head, pg) = File[pg]
  <2> SUFFICES ASSUME NEW pg \in (0..(size - 1)) \ left PROVE Row(shard', head, pg) = File[pg]
    OBVIOUS
  <2>1. CASE << head, pg >> \in DOMAIN shard'
    BY <1>14, <2>1 DEF Row
  <2>2. CASE << head, pg >> \notin DOMAIN shard'
    <3>1. Row(shard', head, pg) = Zero
      BY <2>2 DEF Row
    <3>2. CASE pg \in DOMAIN buf
      BY <1>10, <1>11, <3>2
    <3>3. CASE pg \notin DOMAIN buf /\ pg \in L
      BY <1>12, <3>1, <3>3
    <3>4. CASE pg \notin DOMAIN buf /\ pg \notin L
      <4>1. Row(shard, head, pg) = File[pg]
        BY <1>2, <1>6, <3>4 DEF Folded
      <4> QED BY <1>10, <3>4, <4>1
    <3> QED BY <3>2, <3>3, <3>4
  <2> QED BY <2>1, <2>2
<1>17. Moves(p, h, s) \/ Moves(p, h, proc[p])
  BY <1>1, <1>2, <1>4, AnswerMoves
<1>18. Unseen(p, h)
  BY <1>13 DEF Unseen
<1>19. Draftable(h, head', size', File', DOMAIN pidx')
  BY <1>2, <1>6, <1>13
<1>20. CASE Moves(p, h, s)
  <2>1. Folded(s, head', size', File', shard')
    BY <1>2, <1>3, <1>4, <1>13, <1>16 DEF Folded
  <2>2. Based(h, s, head', shardn') /\ Staged(h, s, head', File', delta')
    BY <1>2, <1>3, <1>4, <1>6 DEF Based, Staged
  <2>3. View(h, s, head', size', File', DOMAIN pidx', shardn', shard', delta')
    BY <1>19, <2>1, <2>2 DEF View
  <2>4. ViewInv'
    BY <1>2, <1>15, <1>20, <2>3, KeepView
  <2> QED BY <1>2, <1>18, <1>20, <2>4 DEF Effect
<1>21. CASE Moves(p, h, proc[p])
  <2>1. \A pg \in (0..(size - 1)) \ proc[p].todo : Row(shard', head, pg) = File[pg]
    BY <1>16
  <2>2. Folded(proc[p], head', size', File', shard')
    BY <1>2, <1>6, <1>13, <2>1 DEF Folded
  <2>3. Based(h, proc[p], head', shardn') /\ Staged(h, proc[p], head', File', delta')
    BY <1>2, <1>6 DEF Staged
  <2>4. View(h, proc[p], head', size', File', DOMAIN pidx', shardn', shard', delta')
    BY <1>19, <2>2, <2>3 DEF View
  <2>5. ViewInv'
    BY <1>2, <1>15, <1>21, <2>4, KeepView
  <2> QED BY <1>2, <1>18, <1>21, <2>5 DEF Effect
<1> QED BY <1>17, <1>20, <1>21

\* finish_body makes the new version the newest, which holds what the log held over the
\* old one.
LEMMA FinishEffect ==
  ASSUME StepInv, ViewInv, StepInv', NEW p \in Proc, Finish(p)
  PROVE  ViewInv' /\ Effect(p)
<1> DEFINE h == handle[p]
           m == proc[p].kept
           f == [h EXCEPT !.as_of = h.head, !.base = m, !.log = 0, !.win = << >>]
           next == IF proc[p].closing THEN Down ELSE Idle
           k == Kept(next, f)
<1>1. Types /\ HandleOK(h) /\ ProcOK(proc[p]) /\ proc[p].pc = "finish" /\ Owns(p) /\ RowsInv
  BY DEF StepInv, Types, ViewInv, Finish
<1>2. Holds(h, fence) /\ h.fence # 0
  BY <1>1 DEF Owns, Holds
<1>3. /\ Draftable(h, head, size, File, DOMAIN pidx) /\ Based(h, proc[p], head, shardn)
      /\ Folded(proc[p], head, size, File, shard)
  BY <1>2, OwnView DEF View
<1>4. Knows(h, proc[p], head, logn, DOMAIN pidx, shardn)
  BY <1>2, OwnView
<1>5. head = h.head /\ head \in Nat
  BY <1>1, <1>4 DEF Knows, FlushLanded, FoldLanded, Types
<1>6. /\ UNCHANGED << head, size, fence >> /\ pidx' = << >> /\ delta' = << >> /\ Answer(p, next, k)
      /\ head \in DOMAIN shardn'
      /\ shard' = Only(shard, {r \in DOMAIN shard : r[1] >= head})
  BY <1>5 DEF Finish, FinishRows
<1>7. DOMAIN pidx' = {}
  BY <1>6
<1>8. Newest(shardn') = head
  <2>1. Types' /\ head' \in DOMAIN shardn'
    BY <1>6 DEF StepInv
  <2> QED BY <1>6, <2>1, LandedNext
<1>9. /\ \A pg : << head, pg >> \in DOMAIN shard' <=> << head, pg >> \in DOMAIN shard
      /\ \A pg : Row(shard', head, pg) = Row(shard, head, pg)
      /\ \A r \in DOMAIN shard' : r \in DOMAIN shard
  <2>1. \A pg : << head, pg >>[1] >= head
    BY <1>5
  <2> QED BY <1>6, <2>1 DEF Only, Row
<1>10. \A pg \in 0..(size - 1) : Row(shard', head, pg) = File[pg]
  <2>1. proc[p].todo = {}
    BY <1>1, <1>3 DEF Folded
  <2> QED BY <1>1, <1>3, <1>9, <2>1 DEF Folded
<1>11. File' = File
  <2>1. Types'
    BY DEF StepInv
  <2>2. File' = Pages(size, pidx', delta', shard', shardn')
    BY <1>6, <2>1, FileIsNext
  <2>3. File' = [pg \in 0..(size - 1) |-> File[pg]]
    BY <1>7, <1>8, <1>10, <2>2 DEF Pages
  <2>4. File = [pg \in 0..(size - 1) |-> File[pg]]
    BY DEF File
  <2> QED BY <2>3, <2>4
<1>12. RowsInv'
  <2>1. \A r \in DOMAIN shard' : r[1] \in 0..head
    BY <1>1, <1>9 DEF RowsInv
  <2>2. \A pg \in 0..(size - 1) : << head, pg >> \in DOMAIN shard' => shard'[<< head, pg >>] = File[pg]
    BY <1>10 DEF Row
  <2> QED BY <1>1, <1>6, <1>7, <1>11, <2>1, <2>2 DEF RowsInv
<1>13. /\ HandleOK(f) /\ f.as_of = h.head /\ f.win = << >>
       /\ Differ(f, h, {"as_of", "base", "log", "win"})
  <2> HIDE DEF m, h
  <2> QED BY <1>1, FinishFields
<1>14. ProcOK(next) /\ next.pc \in {"down", "idle"}
  BY IdleFields, DownFields
<1> HIDE DEF f, next, k, m
<1>15. /\ f.fence = h.fence /\ f.head = h.head /\ f.due = h.due /\ f.size = h.size
       /\ f.dirty = h.dirty /\ f.trunc = h.trunc
  BY <1>13 DEF Differ, HandleFields
<1>16. /\ HandleOK(k)
       /\ next.pc = "down" => k.fence = 0
       /\ next.pc = "idle" => k = f
  BY <1>13, KeptFields, ClosedFields DEF k
<1>17. Moves(p, k, next) \/ Moves(p, h, proc[p])
  BY <1>1, <1>6, <1>14, <1>16, AnswerMoves
<1>18. ~ h.due
  BY <1>1, <1>3 DEF Based
<1>19. CASE Moves(p, k, next)
  <2>1. k.fence \in {0, handle[p].fence}
    BY <1>14, <1>15, <1>16
  <2>2. ASSUME k.fence # 0
        PROVE  /\ View(k, next, head', size', File', DOMAIN pidx', shardn', shard', delta')
               /\ Text(k, File) = Text(h, File)
    <3>1. k = f /\ next.pc = "idle"
      BY <1>14, <1>16, <2>2
    <3>2. DOMAIN f.win = {}
      BY <1>13
    <3>3. Draftable(f, head', size', File', DOMAIN pidx')
      BY <1>3, <1>6, <1>11, <1>15, <3>2 DEF Draftable
    <3>4. Based(f, next, head', shardn')
      BY <1>5, <1>8, <1>13, <1>15, <1>18, <3>1 DEF Based
    <3>5. Folded(next, head', size', File', shard') /\ Staged(f, next, head', File', delta')
      BY <3>1 DEF Folded, Staged
    <3>6. Text(f, File) = Text(h, File)
      BY <1>15 DEF Text
    <3> QED BY <3>1, <3>3, <3>4, <3>5, <3>6 DEF View
  <2>3. Holds(k, fence) => View(k, next, head', size', File', DOMAIN pidx', shardn', shard', delta')
    BY <2>2 DEF Holds
  <2>4. ViewInv'
    BY <1>1, <1>6, <1>12, <1>19, <2>1, <2>3, KeepView
  <2>5. Unseen(p, k)
    BY <1>11, <2>2 DEF Unseen
  <2> QED BY <1>6, <1>19, <2>1, <2>4, <2>5 DEF Effect
<1>20. CASE Moves(p, h, proc[p])
  <2>1. Draftable(h, head', size', File', DOMAIN pidx')
    BY <1>3, <1>5, <1>6, <1>7, <1>11 DEF Draftable
  <2>2. Based(h, proc[p], head', shardn') /\ Staged(h, proc[p], head', File', delta')
    BY <1>1, <1>6, <1>18 DEF Based, Staged
  <2>3. Folded(proc[p], head', size', File', shard')
    BY <1>1, <1>3, <1>6, <1>10, <1>11 DEF Folded
  <2>4. View(h, proc[p], head', size', File', DOMAIN pidx', shardn', shard', delta')
    BY <2>1, <2>2, <2>3 DEF View
  <2>5. h.fence \in {0, handle[p].fence}
    OBVIOUS
  <2>6. ViewInv'
    BY <1>1, <1>6, <1>12, <1>20, <2>4, <2>5, KeepView
  <2>7. Unseen(p, h)
    BY <1>11 DEF Unseen
  <2> QED BY <1>6, <1>20, <2>5, <2>6, <2>7 DEF Effect
<1> QED BY <1>17, <1>19, <1>20
\* put_head makes the draft the file, the first time and again.
LEMMA HeadMoves ==
  ASSUME StepInv, ViewInv, StepInv', NEW p \in Proc, Owns(p), proc[p].pc \in {"commit", "head"},
         PutHead(handle[p]), UNCHANGED << fence, shard, shardn >>,
         \A pg \in DOMAIN handle[p].dirty :
           Row(delta', handle[p].head + 1, pg) = handle[p].dirty[pg],
         \A v, pg : pg \notin DOMAIN handle[p].dirty => Row(delta', v, pg) = Row(delta, v, pg)
  PROVE  File' = Text(handle[p], File) /\ RowsInv'
<1> DEFINE h == handle[p]
<1>1. Types /\ HandleOK(h) /\ RowsInv /\ Types'
  BY DEF StepInv, Types, ViewInv
<1>2. Holds(h, fence)
  BY DEF Owns, Holds
<1>3. Draftable(h, head, size, File, DOMAIN pidx) /\ Staged(h, proc[p], head, File, delta)
  BY <1>2, OwnView DEF View
<1>4. Knows(h, proc[p], head, logn, DOMAIN pidx, shardn)
  BY <1>2, OwnView
<1>5. head \in Nat /\ size \in Nat /\ h.head \in Nat /\ h.size \in Nat /\ h.trunc \in Int
  BY <1>1 DEF Types, HandleOK
<1>6. head' = h.head + 1 /\ size' = h.size /\ pidx' = Index(h)
  BY DEF PutHead
<1>7. head = h.head \/ head = h.head + 1
  BY <1>4 DEF Knows, FlushLanded, FoldLanded
<1>8. /\ DOMAIN pidx' = {x \in DOMAIN pidx \cup DOMAIN h.dirty : h.trunc < 0 \/ x < h.trunc}
      /\ \A x \in DOMAIN pidx' : pidx'[x] = IF x \in DOMAIN h.dirty THEN h.head + 1 ELSE pidx[x]
  BY <1>6 DEF Index
<1>9. File = Pages(size, pidx, delta, shard, shardn)
  BY <1>1, FileIs
<1>10. File' = Pages(h.size, pidx', delta', shard, shardn)
  BY <1>1, <1>6, FileIsNext
<1>11. ASSUME NEW pg \in 0..(h.size - 1)
       PROVE  (IF pg \in DOMAIN pidx' THEN Row(delta', pidx'[pg], pg) ELSE Row(shard, Newest(shardn), pg))
              = IF pg \in DOMAIN h.dirty THEN h.dirty[pg] ELSE File[pg]
  <2>1. h.trunc < 0 \/ pg < h.trunc
    BY <1>3, <1>5 DEF Draftable
  <2>2. pg \in DOMAIN pidx' <=> pg \in DOMAIN pidx \cup DOMAIN h.dirty
    BY <1>8, <2>1
  <2>3. CASE pg \in DOMAIN h.dirty
    <3>1. pg \in DOMAIN pidx' /\ pidx'[pg] = h.head + 1
      BY <1>8, <2>2, <2>3
    <3> QED BY <2>3, <3>1
  <2>4. CASE pg \notin DOMAIN h.dirty
    <3>1. pg \in 0..(size - 1)
      BY <1>3, <1>5, <2>4 DEF Draftable
    <3>2. File[pg] = IF pg \in DOMAIN pidx THEN Row(delta, pidx[pg], pg) ELSE Row(shard, Newest(shardn), pg)
      BY <1>9, <3>1 DEF Pages
    <3>3. pg \in DOMAIN pidx => pidx'[pg] = pidx[pg]
      BY <1>8, <2>2, <2>4
    <3>4. pg \in DOMAIN pidx => Row(delta', pidx[pg], pg) = Row(delta, pidx[pg], pg)
      BY <2>4
    <3>5. CASE pg \in DOMAIN pidx
      BY <2>2, <2>4, <3>2, <3>3, <3>4, <3>5
    <3>6. CASE pg \notin DOMAIN pidx
      BY <2>2, <2>4, <3>2, <3>6
    <3> QED BY <3>5, <3>6
  <2> QED BY <2>3, <2>4
<1>12. File' = Text(h, File)
  BY <1>10, <1>11 DEF Pages, Text
<1>13. RowsInv'
  <2>1. head <= head' /\ fence' <= MAX_FENCE
    BY <1>1, <1>5, <1>6, <1>7 DEF RowsInv
  <2>2. \A r \in DOMAIN shard : r[1] \in 0..head
    BY <1>1 DEF RowsInv
  <2>3. \A r \in DOMAIN shard' : r[1] \in 0..head'
    BY <1>5, <1>6, <1>7, <2>1, <2>2
  <2>4. \A pg \in 0..(size' - 1) : << head', pg >> \in DOMAIN shard' => shard'[<< head', pg >>] = File'[pg]
    <3>1. CASE head = h.head
      <4>1. \A pg : << head', pg >> \notin DOMAIN shard
        <5> SUFFICES ASSUME NEW pg, << head', pg >> \in DOMAIN shard PROVE FALSE
          OBVIOUS
        <5>1. << head', pg >>[1] \in 0..head
          BY <2>2
        <5> QED BY <1>5, <1>6, <3>1, <5>1
      <4> QED BY <4>1
    <3>2. CASE head # h.head
      <4>1. File = Text(h, File) /\ head' = head
        BY <1>3, <1>6, <1>7, <3>2 DEF Staged
      <4>2. File' = File
        BY <1>12, <4>1
      <4>3. size' = size
        <5>1. DOMAIN File = 0..(size - 1) /\ DOMAIN File' = 0..(size' - 1)
          BY DEF File
        <5>2. size \in Nat /\ size' \in Nat /\ 0..(size - 1) = 0..(size' - 1)
          BY <1>5, <1>6, <4>2, <5>1
        <5> QED BY <5>2
      <4> QED BY <1>1, <4>1, <4>2, <4>3 DEF RowsInv
    <3> QED BY <3>1, <3>2
  <2>5. \A pg \in DOMAIN pidx' : pidx'[pg] \in 0..head'
    <3>1. \A pg \in DOMAIN pidx : pidx[pg] \in 0..head
      BY <1>1 DEF RowsInv
    <3> QED BY <1>5, <1>6, <1>7, <1>8, <2>1, <3>1
  <2> QED BY <2>1, <2>3, <2>4, <2>5 DEF RowsInv
<1> QED BY <1>12, <1>13
\* A draft over itself, and a draft with nothing in the buffer.
LEMMA TextTwice ==
  ASSUME NEW h, NEW F
  PROVE  /\ Text(h, Text(h, F)) = Text(h, F)
         /\ \A pg \in (0..(h.size - 1)) \ DOMAIN h.dirty : Text(h, F)[pg] = F[pg]
BY DEF Text

\* A draft with an empty buffer is the file.
LEMMA TextClean ==
  ASSUME NEW k, NEW h, NEW F, k.dirty = << >>, k.size = h.size
  PROVE  Text(k, Text(h, F)) = Text(h, F)
<1>1. DOMAIN k.dirty = {}
  OBVIOUS
<1>2. Text(k, Text(h, F)) = [pg \in 0..(h.size - 1) |-> Text(h, F)[pg]]
  BY <1>1 DEF Text
<1>3. Text(h, F) = [pg \in 0..(h.size - 1) |-> Text(h, F)[pg]]
  BY DEF Text
<1> QED BY <1>2, <1>3

\* The head moves: the draft is the file, whether or not the process is told.
LEMMA FlushEffect ==
  ASSUME StepInv, ViewInv, StepInv', NEW p \in Proc, Owns(p), proc[p].pc \in {"commit", "head"},
         PutHead(handle[p]), UNCHANGED << fence, shard, shardn >>,
         \A pg \in DOMAIN handle[p].dirty :
           /\ << handle[p].head + 1, pg >> \in DOMAIN delta'
           /\ delta'[<< handle[p].head + 1, pg >>] = handle[p].dirty[pg],
         \A v, pg : pg \notin DOMAIN handle[p].dirty => Row(delta', v, pg) = Row(delta, v, pg),
         Answer(p, AfterFlush(p, Flushed(handle[p])),
                Kept(AfterFlush(p, Flushed(handle[p])), Flushed(handle[p])))
  PROVE  ViewInv' /\ Effect(p) /\ File' = Text(handle[p], File)
<1> DEFINE h == handle[p]
           f == Flushed(h)
           next == AfterFlush(p, f)
           k == Kept(next, f)
<1>1. Types /\ HandleOK(h) /\ ProcOK(proc[p]) /\ Holds(h, fence) /\ h.fence # 0
  BY DEF StepInv, Types, Owns, Holds
<1>2. \A pg \in DOMAIN h.dirty : Row(delta', h.head + 1, pg) = h.dirty[pg]
  BY DEF Row
<1>3. File' = Text(h, File) /\ RowsInv'
  BY <1>2, HeadMoves
<1>4. /\ Draftable(h, head, size, File, DOMAIN pidx) /\ Based(h, proc[p], head, shardn)
      /\ Staged(h, proc[p], head, File, delta)
  BY <1>1, OwnView DEF View
<1>5. size \in Nat /\ h.head \in Nat /\ h.size \in Nat /\ h.as_of \in Nat /\ h.trunc \in Int
  BY <1>1 DEF Types, HandleOK
<1>6. head' = h.head + 1 /\ size' = h.size /\ DOMAIN pidx' \subseteq DOMAIN pidx \cup DOMAIN h.dirty
  BY DEF PutHead, Index
<1>7. h.as_of = Newest(shardn) /\ h.as_of <= h.head
  BY <1>4 DEF Based
<1>8. /\ HandleOK(f) /\ f.head = h.head + 1 /\ f.dirty = << >> /\ f.trunc = -1 /\ f.win = << >>
      /\ Differ(f, h, {"head", "sent", "log", "dirty", "trunc", "win", "due"})
  BY <1>1, FlushedFields
<1>9. f.size = h.size /\ f.as_of = h.as_of /\ f.fence = h.fence
  BY <1>8 DEF Differ, HandleFields
<1>10. /\ ProcOK(next) /\ next.pc \in {"idle", "fold", "down"}
       /\ next.pc = "fold" => next.todo = 0..(f.size - 1)
  BY AfterFlushFields
<1>11. Answer(p, next, k)
  OBVIOUS
<1> HIDE DEF f, next, k, h
<1>12. /\ HandleOK(k)
       /\ next.pc = "down" => k = Closed
       /\ next.pc # "down" => Differ(k, f, {"due"})
       /\ next.pc = "fold" => ~ k.due
  BY <1>8, KeptFields DEF k
<1>13. next.pc = "down" => k.fence = 0
  BY <1>12, ClosedFields
<1>14. next.pc # "down" => /\ k.fence = h.fence /\ k.head = h.head + 1 /\ k.dirty = << >>
                           /\ k.trunc = -1 /\ k.win = << >> /\ k.size = h.size /\ k.as_of = h.as_of
  BY <1>8, <1>9, <1>12 DEF Differ, HandleFields
<1>15. Moves(p, k, next) \/ Moves(p, h, proc[p])
  BY <1>1, <1>10, <1>11, <1>12, AnswerMoves DEF h
<1>16. CASE Moves(p, k, next)
  <2>1. k.fence \in {0, handle[p].fence}
    BY <1>13, <1>14 DEF h
  <2>2. ASSUME k.fence # 0
        PROVE  /\ View(k, next, head', size', File', DOMAIN pidx', shardn', shard', delta')
               /\ Text(k, File') = File'
    <3>1. /\ next.pc \in {"idle", "fold"} /\ k.head = h.head + 1 /\ k.dirty = << >>
          /\ k.trunc = -1 /\ k.win = << >> /\ k.size = h.size /\ k.as_of = h.as_of
      BY <1>10, <1>13, <1>14, <2>2
    <3>2. DOMAIN k.dirty = {} /\ DOMAIN k.win = {}
      BY <3>1
    <3>3. Draftable(k, head', size', File', DOMAIN pidx')
      BY <1>5, <1>6, <3>1, <3>2 DEF Draftable
    <3>4. Based(k, next, head', shardn')
      BY <1>5, <1>7, <1>12, <3>1 DEF Based
    <3>5. Folded(next, head', size', File', shard')
      BY <1>6, <1>9, <1>10, <3>1 DEF Folded
    <3>6. Staged(k, next, head', File', delta')
      BY <3>1 DEF Staged
    <3>7. Text(k, File') = File'
      BY <1>3, <3>1, TextClean
    <3> QED BY <3>3, <3>4, <3>5, <3>6, <3>7 DEF View
  <2>3. Holds(k, fence) => View(k, next, head', size', File', DOMAIN pidx', shardn', shard', delta')
    BY <2>2 DEF Holds
  <2>4. ViewInv'
    BY <1>3, <1>16, <2>1, <2>3, KeepView
  <2>5. Lands(p, k)
    BY <1>3, <2>2 DEF Lands, h
  <2> QED BY <1>3, <1>16, <2>1, <2>4, <2>5 DEF Effect, h
<1>17. CASE Moves(p, h, proc[p])
  <2>1. Text(h, File') = File'
    BY <1>3, TextTwice
  <2>2. Draftable(h, head', size', File', DOMAIN pidx')
    <3>1. \A pg \in DOMAIN h.win : pg \notin DOMAIN h.dirty =>
            pg \notin DOMAIN pidx' /\ (pg \in 0..(size' - 1) => h.win[pg] = File'[pg])
      <4> SUFFICES ASSUME NEW pg \in DOMAIN h.win, pg \notin DOMAIN h.dirty
                   PROVE  pg \notin DOMAIN pidx' /\ (pg \in 0..(size' - 1) => h.win[pg] = File'[pg])
        OBVIOUS
      <4>1. pg \notin DOMAIN pidx /\ (pg \in 0..(size - 1) => h.win[pg] = File[pg])
        BY <1>4 DEF Draftable
      <4>2. pg \in 0..(h.size - 1) => pg \in 0..(size - 1)
        BY <1>4, <1>5 DEF Draftable
      <4>3. pg \in 0..(h.size - 1) => Text(h, File)[pg] = File[pg]
        BY TextTwice
      <4> QED BY <1>3, <1>6, <4>1, <4>2, <4>3
    <3>2. head' # h.head
      BY <1>5, <1>6
    <3> QED BY <1>4, <1>5, <1>6, <3>1, <3>2 DEF Draftable
  <2>3. Based(h, proc[p], head', shardn') /\ Folded(proc[p], head', size', File', shard')
    BY <1>4 DEF Based, Folded
  <2>4. Staged(h, proc[p], head', File', delta')
    BY <1>4, <2>1 DEF Staged, h
  <2>5. View(h, proc[p], head', size', File', DOMAIN pidx', shardn', shard', delta')
    BY <2>2, <2>3, <2>4 DEF View
  <2>6. h.fence \in {0, handle[p].fence}
    BY DEF h
  <2>7. ViewInv'
    BY <1>3, <1>17, <2>5, <2>6, KeepView
  <2>8. Lands(p, h)
    BY <1>3, <2>1 DEF Lands, h
  <2> QED BY <1>3, <1>17, <2>6, <2>7, <2>8 DEF Effect, h
<1> QED BY <1>15, <1>16, <1>17

\* commit_body writes the pages, and head_body finds them staged.
LEMMA CommitEffect ==
  ASSUME StepInv, ViewInv, StepInv', NEW p \in Proc, Commit(p)
  PROVE  ViewInv' /\ Effect(p) /\ File' = Text(handle[p], File)
<1> DEFINE h == handle[p]
           P == DOMAIN h.dirty
<1>1. /\ Owns(p) /\ proc[p].pc = "commit" /\ PutHead(h) /\ UNCHANGED << fence, shard, shardn >>
      /\ Answer(p, AfterFlush(p, Flushed(h)), Kept(AfterFlush(p, Flushed(h)), Flushed(h)))
      /\ PutDelta(h, P)
  BY DEF Commit
<1>2. \A pg \in P : << h.head + 1, pg >> \in DOMAIN delta' /\ delta'[<< h.head + 1, pg >>] = h.dirty[pg]
  <2> HIDE DEF h, P
  <2> QED BY <1>1, DeltaRows
<1>3. \A v, pg : pg \notin P => Row(delta', v, pg) = Row(delta, v, pg)
  <2> HIDE DEF h, P
  <2> QED BY <1>1, DeltaRows
<1> QED BY <1>1, <1>2, <1>3, FlushEffect

\* head_body finds the pages staged.
LEMMA MoveHeadEffect ==
  ASSUME StepInv, ViewInv, StepInv', NEW p \in Proc, MoveHead(p)
  PROVE  ViewInv' /\ Effect(p) /\ File' = Text(handle[p], File)
<1> DEFINE h == handle[p]
<1>1. /\ Owns(p) /\ proc[p].pc = "head" /\ PutHead(h) /\ UNCHANGED << fence, shard, shardn, delta >>
      /\ Answer(p, AfterFlush(p, Flushed(h)), Kept(AfterFlush(p, Flushed(h)), Flushed(h)))
  BY DEF MoveHead
<1>2. Holds(h, fence)
  BY <1>1 DEF Owns, Holds
<1>3. Staged(h, proc[p], head, File, delta)
  BY <1>2, OwnView DEF View
<1>4. \A pg \in DOMAIN h.dirty :
        << h.head + 1, pg >> \in DOMAIN delta' /\ delta'[<< h.head + 1, pg >>] = h.dirty[pg]
  BY <1>1, <1>3 DEF Staged
<1>5. \A v, pg : pg \notin DOMAIN h.dirty => Row(delta', v, pg) = Row(delta, v, pg)
  BY <1>1
<1> QED BY <1>1, <1>4, <1>5, FlushEffect

\* An open leaves the file, and whoever holds the fence after it reads that file.
LEMMA OpenEffect ==
  ASSUME StepInv, ViewInv, StepInv', NEW p \in Proc, Open(p)
  PROVE  /\ ViewInv' /\ File' = File
         /\ \A q \in Proc : Holds(handle'[q], fence') => Text(handle'[q], File') = File'
<1>1. Types /\ Fences /\ fence \in Nat /\ Types' /\ RowsInv /\ head \in Nat /\ size \in Nat
  BY DEF StepInv, Types, ViewInv
<1>2. /\ proc[p].pc = "open" /\ fence < MAX_FENCE /\ fence' = fence + 1
      /\ UNCHANGED << head, size, logn, pidx, shard, shardn >>
      /\ delta' = Only(delta, {r \in DOMAIN delta : r[1] <= head}) /\ Answer(p, Idle, Loaded)
  BY DEF Open
<1>3. /\ HandleOK(Loaded) /\ Loaded.fence = fence + 1 /\ Loaded.head = head
      /\ Loaded.size = size /\ Loaded.as_of = NewestShard /\ Loaded.due = FALSE
      /\ Loaded.dirty = << >> /\ Loaded.trunc = -1 /\ Loaded.win = << >>
  BY <1>1, LoadedFields
<1>4. ProcOK(Idle) /\ Idle.pc = "idle"
  BY IdleFields
<1>5. Moves(p, Loaded, Idle) \/ Moves(p, handle[p], proc[p])
  BY <1>1, <1>2, <1>3, <1>4, AnswerMoves
<1>6. \A v, pg : v <= head => Row(delta', v, pg) = Row(delta, v, pg)
  <2> SUFFICES ASSUME NEW v, NEW pg, v <= head PROVE Row(delta', v, pg) = Row(delta, v, pg)
    OBVIOUS
  <2>1. << v, pg >>[1] <= head
    OBVIOUS
  <2> QED BY <1>2, <2>1 DEF Row, Only
<1>7. File' = File
  BY <1>1, <1>2, <1>6, FileUnstaged
<1>8. RowsInv'
  <2>1. fence' <= MAX_FENCE
    BY <1>1, <1>2, PageConstants
  <2> QED BY <1>1, <1>2, <1>7, <2>1 DEF RowsInv
<1>9. ASSUME NEW q \in Proc, Holds(handle'[q], fence')
      PROVE  handle'[q] = Loaded /\ proc'[q] = Idle
  <2>1. handle[q].fence \in Nat /\ handle[q].fence <= fence
    BY <1>1 DEF Types, HandleOK, Fences
  <2>2. handle'[q] # handle[q]
    BY <1>1, <1>2, <1>9, <2>1 DEF Holds
  <2>3. CASE Moves(p, Loaded, Idle)
    BY <1>1, <2>2, <2>3, MovesMeans
  <2>4. CASE Moves(p, handle[p], proc[p])
    <3>1. handle'[q] = handle[q]
      BY <1>1, <2>4, MovesMeans
    <3> QED BY <2>2, <3>1
  <2> QED BY <1>5, <2>3, <2>4
<1>10. View(Loaded, Idle, head', size', File', DOMAIN pidx', shardn', shard', delta')
  <2>1. DOMAIN Loaded.dirty = {} /\ DOMAIN Loaded.win = {}
    BY <1>3
  <2>2. Draftable(Loaded, head', size', File', DOMAIN pidx')
    BY <1>1, <1>2, <1>3, <2>1 DEF Draftable
  <2>3. NewestShard = Newest(shardn) /\ NewestShard <= head
    BY <1>1, FileIs, NewestType
  <2>4. Based(Loaded, Idle, head', shardn')
    BY <1>2, <1>3, <1>4, <2>3 DEF Based
  <2>5. Folded(Idle, head', size', File', shard') /\ Staged(Loaded, Idle, head', File', delta')
    BY <1>4 DEF Folded, Staged
  <2> QED BY <2>2, <2>4, <2>5 DEF View
<1>11. Text(Loaded, File') = File'
  <2>1. DOMAIN Loaded.dirty = {}
    BY <1>3
  <2>2. Text(Loaded, File') = [pg \in 0..(size - 1) |-> File'[pg]]
    BY <1>3, <2>1 DEF Text
  <2>3. File = [pg \in 0..(size - 1) |-> File[pg]]
    BY DEF File
  <2> QED BY <1>7, <2>2, <2>3
<1>12. ViewInv'
  BY <1>8, <1>9, <1>10 DEF ViewInv
<1> QED BY <1>7, <1>9, <1>11, <1>12

\* An empty store, and nobody has it open.
LEMMA ViewInit == Init => ViewInv
<1> SUFFICES ASSUME Init PROVE ViewInv OBVIOUS
<1>1. /\ fence = 0 /\ size = 0 /\ pidx = << >> /\ shard = << >>
      /\ handle = [p \in Proc |-> Closed]
  BY DEF Init
<1>2. DOMAIN pidx = {} /\ DOMAIN shard = {} /\ fence <= MAX_FENCE
  BY <1>1, PageConstants
<1>3. RowsInv
  BY <1>1, <1>2 DEF RowsInv
<1>4. \A p \in Proc : ~ Holds(handle[p], fence)
  BY <1>1, ClosedFields DEF Holds
<1> QED BY <1>3, <1>4 DEF ViewInv

\* What any step of a process is to the file.
Opens == File' = File /\ \A q \in Proc : Holds(handle'[q], fence') => Text(handle'[q], File') = File'
Seen == \/ File' = File /\ UNCHANGED << handle, fence >>
        \/ Opens
        \/ \E p \in Proc : Effect(p)

\* A step of process p.
Acts(p) == \/ Start(p) \/ Open(p) \/ Prefetch(p) \/ Write(p) \/ Truncate(p) \/ Sync(p)
           \/ Commit(p) \/ Stage(p) \/ MoveHead(p)
           \/ CompactDue(p) \/ FoldRead(p) \/ FoldWrite(p) \/ Finish(p)
           \/ Refused(p) \/ Fails(p) \/ Close(p) \/ Crash(p)

\* One step of one process, where a prefetch's second read does not fail and nothing is
\* built upon a truncate left pending.
LEMMA ActionEffect ==
  ASSUME Faults \cap {"late", "range", "truncate"} = {}, StepInv, ViewInv, StepInv', NEW p \in Proc,
         Acts(p)
  PROVE  ViewInv' /\ ((Opens /\ Open(p)) \/ Effect(p))
<1>0. "late" \notin Faults /\ "range" \notin Faults /\ "truncate" \notin Faults
  OBVIOUS
<1>1. CASE Start(p) BY <1>1, StartEffect
<1>2. CASE Open(p) BY <1>2, OpenEffect DEF Opens
<1>3. CASE Prefetch(p) BY <1>0, <1>3, PrefetchEffect
<1>4. CASE Write(p) BY <1>0, <1>4, WriteEffect
<1>5. CASE Truncate(p) BY <1>5, TruncateEffect
<1>6. CASE Sync(p) BY <1>6, SyncEffect
<1>7. CASE Commit(p) BY <1>7, CommitEffect
<1>8. CASE Stage(p) BY <1>8, StageEffect
<1>9. CASE MoveHead(p) BY <1>9, MoveHeadEffect
<1>10. CASE CompactDue(p) BY <1>0, <1>10, CompactDueEffect
<1>11. CASE FoldRead(p) BY <1>11, FoldReadEffect
<1>12. CASE FoldWrite(p) BY <1>12, FoldWriteEffect
<1>13. CASE Finish(p) BY <1>13, FinishEffect
<1>14. CASE Refused(p) BY <1>14, RefusedEffect
<1>15. CASE Fails(p) BY <1>0, <1>15, FailsEffect
<1>16. CASE Close(p) BY <1>16, ClosingEffect
<1>17. CASE Crash(p) BY <1>17, CrashEffect
<1> QED BY <1>1, <1>2, <1>3, <1>4, <1>5, <1>6, <1>7, <1>8, <1>9, <1>10, <1>11, <1>12,
           <1>13, <1>14, <1>15, <1>16, <1>17 DEF Acts

\* The view is kept, and every step is one of those, where a prefetch's second read does
\* not fail and nothing is built upon a truncate left pending.
LEMMA ViewNext ==
  ASSUME Faults \cap {"late", "range", "truncate"} = {}, StepInv, ViewInv, [Next]_vars
  PROVE  ViewInv' /\ Seen
<1>0. "late" \notin Faults /\ "range" \notin Faults /\ "truncate" \notin Faults
  OBVIOUS
<1>1. StepInv'
  BY <1>0, StepNext
<1>2. CASE UNCHANGED vars
  <2>1. UNCHANGED store /\ UNCHANGED << head, size, fence, logn, pidx, delta, shard, shardn, handle, proc >>
    BY <1>2 DEF vars, store
  <2>2. RowsInv' /\ File' = File
    BY <2>1, RowsStay
  <2>3. ViewInv'
    BY <2>1, <2>2 DEF ViewInv
  <2> QED BY <2>1, <2>2, <2>3 DEF Seen
<1>3. ASSUME NEW p \in Proc, Acts(p)
      PROVE  ViewInv' /\ (Opens \/ Effect(p))
  BY <1>1, <1>3, ActionEffect
<1> QED BY <1>2, <1>3 DEF Next, Seen, Acts

\* The draft of the owner, if there is one.
Shown == IF Owner = NoOne THEN << >> ELSE Draft(Owner)

\* Whoever holds the fence is the owner, and reads its buffer over the file.
Shows ==
  /\ \A p \in Proc : Holds(handle[p], fence) => Owner = p /\ Shown = Text(handle[p], File)
  /\ (\A p \in Proc : ~ Holds(handle[p], fence)) => Owner = NoOne /\ Shown = << >>

\* The fences are distinct, so the owner is whoever holds it.
LEMMA OwnerShows == StepInv /\ ViewInv => Shows
<1> SUFFICES ASSUME StepInv, ViewInv PROVE Shows OBVIOUS
<1>1. Fences /\ NoOne \notin Proc
  BY PageConstants DEF StepInv
<1>2. ASSUME NEW p \in Proc, Holds(handle[p], fence)
      PROVE  Owner = p /\ Shown = Text(handle[p], File)
  <2>1. Owns(p)
    BY <1>2 DEF Owns, Holds
  <2>2. \A q \in Proc : Owns(q) => q = p
    BY <1>1, <2>1 DEF Fences, Owns
  <2>3. Owner = p
    BY <2>1, <2>2 DEF Owner
  <2>4. Draft(p) = Text(handle[p], File)
    BY <2>1, DraftIs
  <2> QED BY <1>1, <2>3, <2>4 DEF Shown
<1>3. ASSUME \A p \in Proc : ~ Holds(handle[p], fence)
      PROVE  Owner = NoOne /\ Shown = << >>
  BY <1>3 DEF Owner, Owns, Holds, Shown
<1> QED BY <1>2, <1>3 DEF Shows

\* And so after a step.
LEMMA OwnerShowsNext == StepInv' /\ ViewInv' => Shows'
<1>1. (StepInv /\ ViewInv => Shows)'
  BY OwnerShows, PTL
<1> QED BY <1>1

\* A step of a process under its fence is a step of the atomic file, or none.
LEMMA EffectIsAtomic ==
  ASSUME StepInv, Shows, Shows', NEW p \in Proc, Effect(p)
  PROVE  Atomic!Next \/ UNCHANGED << File, Owner, Shown >>
<1>1. PICK h, s : /\ Moves(p, h, s) /\ h.fence \in {0, handle[p].fence}
                  /\ Unseen(p, h) \/ Lands(p, h) \/ Written(p, h) \/ Cut(p, h)
  BY DEF Effect
<1>2. Types /\ Fences /\ fence' = fence /\ NoOne \notin Proc
  BY PageConstants DEF StepInv, Effect
<1>3. handle'[p] = h /\ \A q \in Proc : q # p => handle'[q] = handle[q]
  BY <1>1, <1>2, MovesMeans
<1>4. CASE ~ Holds(handle[p], fence)
  <2>1. File' = File
    BY <1>1, <1>4 DEF Unseen, Lands, Written, Cut, Owns, Holds
  <2>2. ~ Holds(h, fence)
    BY <1>1, <1>4 DEF Holds
  <2>3. CASE \A q \in Proc : ~ Holds(handle[q], fence)
    <3>1. \A q \in Proc : ~ Holds(handle'[q], fence')
      BY <1>2, <1>3, <2>2, <2>3
    <3> QED BY <2>1, <2>3, <3>1 DEF Shows
  <2>4. ASSUME NEW q \in Proc, Holds(handle[q], fence) PROVE UNCHANGED << File, Owner, Shown >>
    <3>1. q # p /\ handle'[q] = handle[q] /\ Holds(handle'[q], fence')
      BY <1>2, <1>3, <1>4, <2>4
    <3>2. Owner = q /\ Shown = Text(handle[q], File)
      BY <2>4 DEF Shows
    <3>3. Owner' = q /\ Shown' = Text(handle'[q], File')
      BY <3>1 DEF Shows
    <3> QED BY <2>1, <3>1, <3>2, <3>3
  <2> QED BY <2>3, <2>4
<1>5. CASE Holds(handle[p], fence)
  <2>1. Owner = p /\ Owner # NoOne /\ Shown = Text(handle[p], File) /\ Owns(p)
    BY <1>2, <1>5 DEF Shows, Owns, Holds
  <2>2. CASE h.fence = 0
    <3>1. \A q \in Proc : q # p => ~ Holds(handle[q], fence)
      BY <1>2, <1>5 DEF Fences, Holds
    <3>2. \A q \in Proc : ~ Holds(handle'[q], fence')
      BY <1>2, <1>3, <2>2, <3>1 DEF Holds
    <3>3. Owner' = NoOne /\ Shown' = << >>
      BY <3>2 DEF Shows
    <3>4. CASE Unseen(p, h)
      <4>1. Atomic!Lose
        BY <3>3, <3>4 DEF Atomic!Lose, Unseen, Shown
      <4> QED BY <4>1 DEF Atomic!Next
    <3>5. CASE Lands(p, h)
      <4>1. Atomic!Close
        BY <2>1, <3>3, <3>5 DEF Atomic!Close, Lands, Shown
      <4> QED BY <4>1 DEF Atomic!Next
    <3> QED BY <1>1, <2>2, <3>4, <3>5 DEF Written, Cut
  <2>3. CASE h.fence # 0
    <3>1. Holds(handle'[p], fence')
      BY <1>1, <1>2, <1>3, <1>5, <2>3 DEF Holds
    <3>2. Owner' = p /\ Shown' = Text(h, File')
      BY <1>3, <3>1 DEF Shows
    <3>3. CASE Unseen(p, h)
      BY <2>1, <2>3, <3>2, <3>3 DEF Unseen
    <3>4. CASE Lands(p, h)
      <4>1. File' = Shown /\ Shown' = Shown /\ Owner' = Owner
        BY <2>1, <2>3, <3>2, <3>4 DEF Lands
      <4>2. Atomic!Commit
        BY <2>1, <4>1 DEF Atomic!Commit, Shown
      <4> QED BY <4>2 DEF Atomic!Next
    <3>5. handle[p].size \in Nat /\ DOMAIN Shown = 0..(handle[p].size - 1)
      BY <1>2, <2>1 DEF Types, HandleOK, Text
    <3>6. Atomic!Places(Shown) = {0} \cup {x + 1 : x \in 0..(handle[p].size - 1)}
      BY <3>5 DEF Atomic!Places
    <3>7. Atomic!Places(Shown) = 0..handle[p].size
      <4>1. ASSUME NEW n \in Nat PROVE {0} \cup {x + 1 : x \in 0..(n - 1)} = 0..n
        <5>1. ASSUME NEW y \in 0..n, y # 0 PROVE \E x \in 0..(n - 1) : y = x + 1
          <6>1. y - 1 \in 0..(n - 1) /\ y = (y - 1) + 1
            BY <4>1, <5>1
          <6> QED BY <6>1
        <5> QED BY <5>1
      <4> QED BY <3>5, <3>6, <4>1
    <3>8. CASE Written(p, h)
      <4>1. PICK pg \in 0..handle[p].size, v \in Val : Text(h, File) = Put(Text(handle[p], File), pg, v)
        BY <3>8 DEF Written
      <4>2. File' = File /\ Owner' = Owner /\ Shown' = Put(Shown, pg, v)
        BY <2>1, <3>2, <3>8, <4>1 DEF Written
      <4>3. Atomic!Write(pg, v)
        BY <2>1, <4>2 DEF Atomic!Write, Shown, Put
      <4>4. pg \in Atomic!Places(Shown)
        BY <3>7
      <4> QED BY <4>3, <4>4 DEF Atomic!Next, Shown
    <3>9. CASE Cut(p, h)
      <4>1. PICK n \in 0..handle[p].size : Text(h, File) = Begin(Text(handle[p], File), n)
        BY <3>9 DEF Cut
      <4>2. File' = File /\ Owner' = Owner /\ Shown' = Begin(Shown, n)
        BY <2>1, <3>2, <3>9, <4>1 DEF Cut
      <4>3. Atomic!Truncate(n)
        BY <2>1, <4>2 DEF Atomic!Truncate, Shown, Begin
      <4>4. n \in Atomic!Places(Shown)
        BY <3>7
      <4> QED BY <4>3, <4>4 DEF Atomic!Next, Shown
    <3> QED BY <1>1, <3>3, <3>4, <3>8, <3>9
  <2> QED BY <2>2, <2>3
<1> QED BY <1>4, <1>5

\* And so is an open, and a step that touches neither the file nor a handle.
LEMMA SeenIsAtomic ==
  ASSUME StepInv, Shows, Shows', Seen
  PROVE  Atomic!Next \/ UNCHANGED << File, Owner, Shown >>
<1>1. CASE File' = File /\ UNCHANGED << handle, fence >>
  <2>1. CASE \A q \in Proc : ~ Holds(handle[q], fence)
    BY <1>1, <2>1 DEF Shows
  <2>2. ASSUME NEW q \in Proc, Holds(handle[q], fence) PROVE UNCHANGED << File, Owner, Shown >>
    <3>1. Holds(handle'[q], fence')
      BY <1>1, <2>2
    <3> QED BY <1>1, <2>2, <3>1 DEF Shows
  <2> QED BY <2>1, <2>2
<1>2. CASE Opens
  <2>0. NoOne \notin Proc
    BY PageConstants
  <2>1. CASE \A q \in Proc : ~ Holds(handle'[q], fence')
    <3>1. Owner' = NoOne /\ Shown' = << >> /\ File' = File
      BY <1>2, <2>1 DEF Shows, Opens
    <3>2. Atomic!Lose
      BY <3>1 DEF Atomic!Lose, Shown
    <3> QED BY <3>2 DEF Atomic!Next
  <2>2. ASSUME NEW q \in Proc, Holds(handle'[q], fence') PROVE Atomic!Next
    <3>1. Owner' = q /\ Shown' = File /\ File' = File
      BY <1>2, <2>2 DEF Shows, Opens
    <3>2. Atomic!Take
      BY <3>1 DEF Atomic!Take, Shown
    <3> QED BY <3>2 DEF Atomic!Next
  <2> QED BY <2>1, <2>2
<1>3. CASE \E p \in Proc : Effect(p)
  BY <1>3, EffectIsAtomic
<1> QED BY <1>1, <1>2, <1>3 DEF Seen

\* The page store implements the atomic file: whatever is staged, folded, fetched ahead,
\* refused, lost or retried, and wherever a process dies, the file goes from one commit of
\* its owner to the next in one step, for any number of processes, pages and commits.
THEOREM StoreIsAnAtomicFile ==
  ASSUME Faults \cap {"late", "range", "truncate"} = {}
  PROVE  Spec => FileIsAtomic
<1>0. "late" \notin Faults
  OBVIOUS
<1>1. Init => StepInv /\ ViewInv
  BY StepInit, ViewInit
<1>2. StepInv /\ ViewInv /\ [Next]_vars => (StepInv /\ ViewInv)'
  BY <1>0, StepNext, ViewNext
<1>3. Init => Atomic!Init
  <2> SUFFICES ASSUME Init PROVE Atomic!Init OBVIOUS
  <2>1. fence = 0 /\ size = 0 /\ Shows
    BY <1>1, OwnerShows DEF Init
  <2>2. \A p \in Proc : ~ Holds(handle[p], fence)
    BY <2>1 DEF Holds
  <2>3. Owner = NoOne /\ Shown = << >>
    BY <2>1, <2>2 DEF Shows
  <2>4. 0..(size - 1) = {}
    BY <2>1
  <2>5. File = << >>
    BY <2>4 DEF File
  <2> QED BY <2>3, <2>5 DEF Atomic!Init, Shown
<1>4. StepInv /\ ViewInv /\ [Next]_vars => [Atomic!Next]_(Atomic!vars)
  <2> SUFFICES ASSUME StepInv, ViewInv, [Next]_vars
               PROVE  Atomic!Next \/ UNCHANGED Atomic!vars
    OBVIOUS
  <2>1. Shows /\ Shows' /\ Seen
    BY <1>2, OwnerShows, OwnerShowsNext, ViewNext
  <2>2. Atomic!Next \/ UNCHANGED << File, Owner, Shown >>
    BY <2>1, SeenIsAtomic
  <2> QED BY <2>2 DEF Atomic!vars, Shown
<1> QED BY <1>1, <1>2, <1>3, <1>4, PTL DEF Spec, FileIsAtomic, Atomic!Spec

\* Only the transaction that moves the head ends a flush with success.
LEMMA OnlyHeadAdvances ==
  ASSUME StepInv, NEW p \in Proc, NEW q \in Proc, proc[p].pc \in {"commit", "head"},
         handle'[p].head = handle[p].head + 1, Effect(q) \/ Open(q),
         Acts(q)
  PROVE  Commit(p) \/ MoveHead(p)
<1>1. Types /\ handle[p].head \in Nat /\ DOMAIN handle = Proc
  BY DEF StepInv, Types, HandleOK
<1>2. handle'[p] # handle[p]
  BY <1>1
<1>3. q = p
  <2>1. CASE Effect(q)
    <3>1. PICK h, s : Moves(q, h, s)
      BY <2>1 DEF Effect
    <3> QED BY <1>1, <1>2, <3>1, MovesMeans
  <2>2. CASE Open(q)
    BY <1>1, <1>2, <2>2 DEF Open, Answer
  <2> QED BY <2>1, <2>2
<1>4. ~ GiveUp(p)
  <2> SUFFICES ASSUME GiveUp(p) PROVE FALSE OBVIOUS
  <2>1. handle'[p] = Closed \/ handle'[p] = handle[p]
    BY <1>1 DEF GiveUp
  <2> QED BY <1>1, <1>2, <2>1, ClosedFields
<1>5. ~ Crash(p)
  <2> SUFFICES ASSUME Crash(p) PROVE FALSE OBVIOUS
  <2>1. handle'[p] = Closed
    BY <1>1 DEF Crash
  <2> QED BY <1>1, <2>1, ClosedFields
<1>6. ~ Refused(p) /\ ~ Fails(p)
  BY <1>4 DEF Refused, Fails
<1>7. ~ Start(p) /\ ~ Open(p) /\ ~ Prefetch(p) /\ ~ Write(p) /\ ~ Truncate(p) /\ ~ Sync(p)
  BY DEF Start, Open, Prefetch, Write, Truncate, Sync
<1>8. ~ Stage(p) /\ ~ CompactDue(p) /\ ~ FoldRead(p) /\ ~ FoldWrite(p) /\ ~ Finish(p) /\ ~ Close(p)
  BY DEF Stage, CompactDue, FoldRead, FoldWrite, Finish, Close
<1> QED BY <1>3, <1>5, <1>6, <1>7, <1>8 DEF Acts

\* A commit that SQLite is told of is in the store, however often its answer was lost and
\* whoever opened the database meanwhile: the step that ends the flush leaves the file as
\* the process reads it, for any number of processes, pages and commits.
THEOREM AcceptedIsNotDropped ==
  ASSUME Faults \cap {"late", "range", "truncate"} = {}
  PROVE  Spec => AcceptedIsStored
<1> DEFINE A == \A p \in Proc : proc[p].pc \in {"commit", "head"} /\ handle'[p].head = handle[p].head + 1
                                  => File' = Draft(p)
<1>0. "late" \notin Faults /\ "range" \notin Faults /\ "truncate" \notin Faults
  OBVIOUS
<1>1. Init => StepInv /\ ViewInv
  BY StepInit, ViewInit
<1>2. StepInv /\ ViewInv /\ [Next]_vars => (StepInv /\ ViewInv)'
  BY <1>0, StepNext, ViewNext
<1>3. StepInv /\ ViewInv /\ [Next]_vars => [A]_vars
  <2> SUFFICES ASSUME StepInv, ViewInv, Next, NEW p \in Proc, proc[p].pc \in {"commit", "head"},
                      handle'[p].head = handle[p].head + 1
               PROVE  File' = Draft(p)
    OBVIOUS
  <2>1. StepInv'
    BY <1>2
  <2>2. PICK q \in Proc : Acts(q)
    BY DEF Next, Acts
  <2>3. Effect(q) \/ Open(q)
    BY <1>0, <2>1, <2>2, ActionEffect
  <2>4. Commit(p) \/ MoveHead(p)
    BY <2>2, <2>3, OnlyHeadAdvances
  <2>5. File' = Text(handle[p], File)
    BY <2>1, <2>4, CommitEffect, MoveHeadEffect
  <2>6. Owns(p)
    BY <2>4 DEF Commit, MoveHead
  <2> QED BY <2>5, <2>6, DraftIs
<1> QED BY <1>1, <1>2, <1>3, PTL DEF Spec, AcceptedIsStored

=============================================================================
