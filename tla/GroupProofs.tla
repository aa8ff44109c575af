----------------------------- MODULE GroupProofs -----------------------------
(***************************************************************************)
(* GroupCommit for any number of processes, databases and groups.  However  *)
(* many run, at most one handle on a database can write it.  One process at *)
(* a time, dying anywhere, commits a group as AtomicGroups does.            *)
(***************************************************************************)
EXTENDS GroupCommit, FiniteSetTheorems, TLAPS

\* Handles whose fence is a number; the other fields, of any type, are not looked
\* at here.
Handles(H, M) == [Proc -> [Db -> [fence: Nat, head: H, mem: M]]]

FenceTypes ==
  /\ fence \in [Db -> Nat]
  /\ \E H, M : handle \in Handles(H, M)

\* No handle is ahead of its database's fence, and two handles hold the same one
\* only when neither is open.
FencesAreTickets ==
  /\ \A p \in Proc, d \in Db : handle[p][d].fence <= fence[d]
  /\ \A p, q \in Proc, d \in Db :
       handle[p][d].fence = handle[q][d].fence /\ handle[p][d].fence # 0 => p = q

FenceInv == FenceTypes /\ FencesAreTickets

\* A handle's fence is a number.
LEMMA HandleFence ==
  ASSUME NEW h, NEW H, NEW M, h \in Handles(H, M), NEW p \in Proc, NEW d \in Db
  PROVE  h[p][d].fence \in Nat
<1>1. h[p] \in [Db -> [fence: Nat, head: H, mem: M]]
  BY DEF Handles
<1>2. h[p][d] \in [fence: Nat, head: H, mem: M]
  BY <1>1
<1> QED
  BY <1>2

\* A step that gives no handle a new fence and lowers no database's.
LEMMA FencesKept ==
  ASSUME FenceInv,
         fence' \in [Db -> Nat], \A d \in Db : fence[d] <= fence'[d],
         NEW H, NEW M, handle' \in Handles(H, M),
         \A p \in Proc, d \in Db : handle'[p][d].fence \in {handle[p][d].fence, 0}
  PROVE  FenceInv'
<1>1. FenceTypes'
  BY DEF FenceTypes
<1>2. \A p \in Proc, d \in Db : handle[p][d].fence \in Nat /\ handle'[p][d].fence \in Nat
  BY HandleFence DEF FenceInv, FenceTypes
<1>3. \A d \in Db : fence[d] \in Nat /\ fence'[d] \in Nat
  BY DEF FenceInv, FenceTypes
<1>4. \A p \in Proc, d \in Db : handle[p][d].fence <= fence[d]
  BY DEF FenceInv, FencesAreTickets
<1>5. \A p \in Proc, d \in Db : handle'[p][d].fence <= fence'[d]
  BY <1>2, <1>3, <1>4
<1>6. \A p, q \in Proc, d \in Db :
        handle'[p][d].fence = handle'[q][d].fence /\ handle'[p][d].fence # 0 => p = q
  BY DEF FenceInv, FencesAreTickets
<1> QED
  BY <1>1, <1>5, <1>6 DEF FenceInv, FencesAreTickets

\* A step that writes no handle, or the page or the head of one.
HandleWrite(p, e, x) ==
  \/ handle' = handle
  \/ handle' = [handle EXCEPT ![p][e].mem = x]
  \/ handle' = [handle EXCEPT ![p][e].head = x]

\* One field of one handle is written, and not its fence; or no handle at all.
LEMMA HandleField ==
  ASSUME FenceInv, NEW p \in Proc, NEW e, NEW x,
         HandleWrite(p, e, x)
  PROVE  /\ \E H, M : handle' \in Handles(H, M)
         /\ \A q \in Proc, d \in Db : handle'[q][d].fence = handle[q][d].fence
<1>1. PICK H, M : handle \in Handles(H, M)
  BY DEF FenceInv, FenceTypes
<1>2. handle \in [Proc -> [Db -> [fence: Nat, head: H \cup {x}, mem: M \cup {x}]]]
  BY <1>1 DEF Handles
<1> DEFINE R == [fence: Nat, head: H \cup {x}, mem: M \cup {x}]
<1>3. \A r \in R : /\ [r EXCEPT !.mem = x] \in R /\ [r EXCEPT !.mem = x].fence = r.fence
                   /\ [r EXCEPT !.head = x] \in R /\ [r EXCEPT !.head = x].fence = r.fence
  OBVIOUS
<1>4. \A q \in Proc, d \in Db : handle[q][d] \in R
  BY <1>2
<1>5. handle' \in [Proc -> [Db -> R]]
      /\ \A q \in Proc, d \in Db : handle'[q][d].fence = handle[q][d].fence
  <2> HIDE DEF R
  <2>1. CASE handle' = handle
    BY <2>1, <1>2 DEF R
  <2>2. CASE handle' = [handle EXCEPT ![p][e].mem = x]
    BY <2>2, <1>2, <1>3, <1>4 DEF R
  <2>3. CASE handle' = [handle EXCEPT ![p][e].head = x]
    BY <2>3, <1>2, <1>3, <1>4 DEF R
  <2> QED
    BY <2>1, <2>2, <2>3 DEF HandleWrite
<1> QED
  BY <1>5 DEF Handles

\* A step that leaves the fences alone and writes no handle's fence.
LEMMA QuietStep ==
  ASSUME FenceInv, NEW p \in Proc, NEW e, NEW x, fence' = fence,
         HandleWrite(p, e, x)
  PROVE  FenceInv'
<1>0. /\ \E H, M : handle' \in Handles(H, M)
      /\ \A q \in Proc, d \in Db : handle'[q][d].fence = handle[q][d].fence
  BY HandleField
<1>1. PICK H, M : handle' \in Handles(H, M)
  BY <1>0
<1>2. \A q \in Proc, d \in Db : handle'[q][d].fence = handle[q][d].fence
  BY <1>0
<1>3. fence' \in [Db -> Nat] /\ \A d \in Db : fence[d] <= fence'[d]
  BY DEF FenceInv, FenceTypes
<1> QED
  BY <1>1, <1>2, <1>3, FencesKept

\* open_body hands out a fence that nobody holds.
LEMMA OpenTakesFence ==
  ASSUME FenceInv, NEW p \in Proc, Open(p)
  PROVE  FenceInv'
<1> DEFINE e == proc[p].opening
           f == fence[e] + 1
           r == [fence |-> f, head |-> LoadHead(e), mem |-> Visible(e)]
<1>1. fence' = [fence EXCEPT ![e] = f] /\ handle' = [handle EXCEPT ![p][e] = r]
  BY DEF Open, RaisedFence
<1>2. fence \in [Db -> Nat]
  BY DEF FenceInv, FenceTypes
<1>3. PICK H, M : handle \in Handles(H, M)
  BY DEF FenceInv, FenceTypes
<1>4. \A q \in Proc, d \in Db : handle[q][d].fence \in Nat /\ handle[q][d].fence <= fence[d]
  BY <1>3, HandleFence DEF FenceInv, FencesAreTickets
<1>5. CASE e \in Db
  <2>1. f \in Nat /\ f > fence[e]
    BY <1>2, <1>5
  <2> DEFINE HH == H \cup {LoadHead(e)}
             MM == M \cup {Visible(e)}
  <2>2. r \in [fence: Nat, head: HH, mem: MM] /\ r.fence = f
    BY <2>1
  <2>3. handle \in [Proc -> [Db -> [fence: Nat, head: HH, mem: MM]]]
    BY <1>3 DEF Handles
  <2> HIDE DEF f, r, HH, MM, e
  <2>4. handle' \in Handles(HH, MM)
    BY <1>1, <2>2, <2>3 DEF Handles
  <2>5. fence' \in [Db -> Nat] /\ fence'[e] = f /\ \A d \in Db : d # e => fence'[d] = fence[d]
    BY <1>1, <1>2, <1>5, <2>1
  <2>6. \A q \in Proc, d \in Db :
          handle'[q][d].fence = IF q = p /\ d = e THEN f ELSE handle[q][d].fence
    BY <1>1, <1>5, <2>2, <2>3
  <2>7. FenceTypes'
    BY <2>4, <2>5 DEF FenceTypes
  <2>8. \A q \in Proc, d \in Db : handle'[q][d].fence <= fence'[d]
    BY <1>2, <1>4, <2>1, <2>5, <2>6
  <2>9. \A q \in Proc : handle[q][e].fence # f
    BY <1>2, <1>4, <1>5, <2>1
  <2>10. ASSUME NEW q \in Proc, NEW o \in Proc, NEW d \in Db,
                handle'[q][d].fence = handle'[o][d].fence, handle'[q][d].fence # 0
         PROVE  q = o
    <3>1. CASE d = e /\ (q = p \/ o = p)
      BY <2>6, <2>9, <2>10, <3>1
    <3>2. CASE ~ (d = e /\ (q = p \/ o = p))
      <4>1. handle'[q][d].fence = handle[q][d].fence /\ handle'[o][d].fence = handle[o][d].fence
        BY <2>6, <3>2
      <4> QED
        BY <2>10, <4>1 DEF FenceInv, FencesAreTickets
    <3> QED
      BY <3>1, <3>2
  <2> QED
    BY <2>7, <2>8, <2>10 DEF FenceInv, FencesAreTickets
<1>6. CASE e \notin Db
  <2> HIDE DEF f, r, e
  <2>1. fence' = fence
    BY <1>1, <1>2, <1>6
  <2>2. handle' \in Handles(H, M) /\ \A q \in Proc, d \in Db : handle'[q][d] = handle[q][d]
    BY <1>1, <1>3, <1>6 DEF Handles
  <2> QED
    BY <1>2, <2>1, <2>2, FencesKept
<1> QED
  BY <1>5, <1>6

\* Every step keeps the fences.
LEMMA NextFences == FenceInv /\ [Next]_vars => FenceInv'
<1> SUFFICES ASSUME FenceInv, [Next]_vars PROVE FenceInv'
  OBVIOUS
<1>1. CASE UNCHANGED vars
  BY <1>1 DEF vars, store, FenceInv, FenceTypes, FencesAreTickets
<1>2. ASSUME NEW p \in Proc,
             \/ Start(p) \/ Recovering(p) \/ Begin(p) \/ Committing(p) \/ Flush(p) \/ Crash(p)
      PROVE  FenceInv'
  <2>1. CASE fence' = fence /\ handle' = handle
    BY <2>1, QuietStep DEF HandleWrite
  <2>2. CASE Open(p)
    BY <2>2, OpenTakesFence
  <2>3. CASE Prevent(p)
    <3>1. handle' = handle
          /\ (fence' = fence \/ fence' = [fence EXCEPT ![proc[p].i] = fence[proc[p].i] + 1])
      BY <2>3 DEF Prevent
    <3>2. fence \in [Db -> Nat]
      BY DEF FenceInv, FenceTypes
    <3>3. fence' \in [Db -> Nat] /\ \A d \in Db : fence[d] <= fence'[d]
      BY <3>1, <3>2
    <3>4. PICK H, M : handle' \in Handles(H, M)
      BY <3>1 DEF FenceInv, FenceTypes
    <3> QED
      BY <3>1, <3>3, <3>4, FencesKept
  <2>4. CASE Stage(p)
    <3>1. fence' = fence /\ \E e, x : handle' = [handle EXCEPT ![p][e].mem = x]
      BY <2>4 DEF Stage
    <3> QED
      BY <3>1, QuietStep DEF HandleWrite
  <2>5. CASE ResolvePart(p)
    <3>1. fence' = fence
      BY <2>5 DEF ResolvePart
    <3>2. handle' = handle \/ \E e, x : handle' = [handle EXCEPT ![p][e].head = x]
      BY <2>5, Zenon DEF ResolvePart
    <3> QED
      BY <3>1, <3>2, QuietStep DEF HandleWrite
  <2>6. CASE Flush(p)
    <3>1. fence' = fence /\ \E e, x : handle' = [handle EXCEPT ![p][e].head = x]
      BY <2>6 DEF Flush
    <3> QED
      BY <3>1, QuietStep DEF HandleWrite
  <2>7. CASE Crash(p)
    <3>1. fence' = fence /\ handle' = [handle EXCEPT ![p] = [d \in Db |-> Closed]]
      BY <2>7 DEF Crash, store
    <3>2. PICK H, M : handle \in Handles(H, M)
      BY DEF FenceInv, FenceTypes
    <3>3. Closed \in [fence: Nat, head: H \cup {0}, mem: M \cup {{}}] /\ Closed.fence = 0
      BY DEF Closed
    <3>4. handle \in [Proc -> [Db -> [fence: Nat, head: H \cup {0}, mem: M \cup {{}}]]]
      BY <3>2 DEF Handles
    <3>5. handle' \in Handles(H \cup {0}, M \cup {{}})
      BY <3>1, <3>3, <3>4 DEF Handles
    <3>6. \A q \in Proc, d \in Db : handle'[q][d].fence \in {handle[q][d].fence, 0}
      BY <3>1, <3>3, <3>4
    <3>7. fence' \in [Db -> Nat] /\ \A d \in Db : fence[d] <= fence'[d]
      BY <3>1 DEF FenceInv, FenceTypes
    <3> QED
      BY <3>5, <3>6, <3>7, FencesKept
  <2>8. ASSUME \/ Start(p) \/ Begin(p) \/ Sweep(p) \/ ReadParts(p) \/ Query(p) \/ Settle(p)
               \/ SayOutcome(p) \/ DropRecord(p) \/ StageNothing(p) \/ StageRefused(p)
               \/ WriteRecord(p) \/ RecordRefused(p) \/ ResolveFails(p)
               \/ SayCommitted(p) \/ ForgetRecord(p)
        PROVE  fence' = fence /\ handle' = handle
    BY <2>8, Zenon DEF Start, Begin, Sweep, ReadParts, Query, Settle, SayOutcome, DropRecord, Dropped,
                StageNothing, StageRefused, WriteRecord, RecordRefused, ResolveFails,
                SayCommitted, ForgetRecord, store
  <2> QED
    BY <1>2, <2>1, <2>2, <2>3, <2>4, <2>5, <2>6, <2>7, <2>8 DEF Recovering, Committing
<1> QED
  BY <1>1, <1>2 DEF Next

\* Before anybody has opened anything, no handle holds a fence.
LEMMA InitFences == Init => FenceInv
<1> SUFFICES ASSUME Init PROVE FenceInv
  OBVIOUS
<1>1. Closed \in [fence: Nat, head: {0}, mem: {{}}] /\ Closed.fence = 0
  BY DEF Closed
<1>2. handle = [p \in Proc |-> [d \in Db |-> Closed]] /\ fence = [d \in Db |-> 0]
  BY DEF Init
<1>3. handle \in Handles({0}, {{}})
  BY <1>1, <1>2 DEF Handles
<1>4. \A p \in Proc, d \in Db : handle[p][d].fence = 0 /\ fence[d] = 0
  BY <1>1, <1>2
<1>5. FenceTypes
  BY <1>2, <1>3 DEF FenceTypes
<1> QED
  BY <1>4, <1>5 DEF FenceInv, FencesAreTickets

\* A database has one writer at most, however many processes open, recover, crash
\* and come back: check_fence passes for one handle (fdb_vfs.c 912-948).
THEOREM DatabaseHasOneWriter == Spec => []OneWriter
<1>1. FenceInv => OneWriter
  BY DEF FenceInv, FencesAreTickets, OneWriter, Owns
<1> QED
  BY <1>1, InitFences, NextFences, PTL DEF Spec

-------------------------------------------------------------------------------
(* One process at a time: what is in the store, and what the process holds. *)

\* Where a process can be when no other runs: never in `prevent`, because every record
\* it finds has all its intents.
Where == {"down", "sweep", "parts", "query", "settle", "settled", "drop", "open",
          "idle", "stage", "record", "resolve", "explicit", "forget"}
Loops == {"query", "settle", "stage", "resolve"}

FoundRecord  == [head : Nat, present : BOOLEAN]
ProcRecord   == [pc : Where, opening : Db, i : Db, txn : 0..MAX_GROUPS, writes : SUBSET Db,
                 txids : [Db -> Nat], todo : SUBSET Txn, again : BOOLEAN,
                 found : [Db -> FoundRecord]]
HandleRecord == [fence : Nat, head : Nat, mem : SUBSET Txn]

GroupTypes ==
  /\ head \in [Db -> Nat] /\ fence \in [Db -> Nat] /\ delta = [d \in Db |-> delta[d]]
  /\ status \in [Txn -> {"none", "staging", "committed", "aborted"}]
  /\ rows \in [Txn -> [Db -> Nat]] /\ next \in 0..MAX_GROUPS
  /\ proc \in [Proc -> ProcRecord] /\ handle \in [Proc -> [Db -> HandleRecord]]
  /\ landed \in SUBSET Txn

Live(p) == proc[p].pc # "down"
Alone   == \A p, q \in Proc : Live(p) /\ Live(q) => p = q

\* What a record says of a database: the head has moved to the staged page, or the page
\* is there and is the visible one with the group added.
Intent(t, d) ==
  \/ rows[t][d] = head[d]
  \/ /\ rows[t][d] = head[d] + 1 /\ rows[t][d] \in DOMAIN delta[d]
     /\ Page(d, rows[t][d]) = Visible(d) \cup {t}

\* There is one record to be resolved at most, and all its intents are there.
Records ==
  /\ \A t, u \in Staging : t = u
  /\ \A t \in Staging : t \in landed /\ rows[t] # NoRows /\ \A d \in Db : Intent(t, d)

\* What is visible has landed, and what has landed was begun.
Shown == OnlyLandedIsVisible /\ \A t \in landed : t <= next

\* What a process is in: a group, or between groups, or an opening that got past d.
Grouping(p) == proc[p].pc \in {"stage", "record", "resolve", "explicit", "forget"}
Has(p, d)   == \/ proc[p].pc = "idle" \/ Grouping(p)
               \/ proc[p].pc \in {"sweep", "open"} /\ d < proc[p].opening

\* A database the process has opened is its own, and its buffer holds the page it will commit.
Owned(p) ==
  \A d \in Db : Has(p, d) =>
    /\ Owns(p, d) /\ handle[p][d].head = head[d]
    /\ handle[p][d].mem = Page(d, IF Grouping(p) THEN proc[p].txids[d] ELSE head[d])

\* Before its record is written a group has staged what it wrote so far, and nobody sees it.
Done(p, d) == d \in proc[p].writes /\ (proc[p].pc = "stage" => d < proc[p].i)
Drafted(p) ==
  proc[p].pc \in {"stage", "record"} =>
    /\ proc[p].writes # {} /\ proc[p].txn = next /\ proc[p].txn \in Txn \ landed
    /\ \A d \in Db :
         \/ /\ Done(p, d) /\ proc[p].txids[d] = head[d] + 1 /\ head[d] + 1 \in DOMAIN delta[d]
            /\ Page(d, head[d] + 1) = Visible(d) \cup {proc[p].txn}
         \/ ~Done(p, d) /\ proc[p].txids[d] = head[d]

\* How far the process is with the one record there is.
Resolving(p) ==
  /\ proc[p].pc \in {"open", "idle", "stage", "record", "forget", "drop"} => Staging = {}
  /\ proc[p].pc = "sweep" /\ proc[p].opening > 1 => Staging = {}
  /\ proc[p].pc \in {"parts", "query", "settle", "settled", "drop"} => proc[p].opening = 1
  /\ proc[p].pc = "parts" => proc[p].todo = Staging /\ Staging # {}
  /\ proc[p].pc \in {"query", "settle", "settled", "drop"} => proc[p].todo = {proc[p].txn}
  /\ proc[p].pc \in {"query", "settle", "settled", "resolve", "explicit"} =>
       Staging = {proc[p].txn} /\ proc[p].txids = rows[proc[p].txn]
  /\ proc[p].pc = "query" => \A e \in Db : e < proc[p].i =>
       proc[p].found[e].present /\ proc[p].found[e].head = head[e]
  /\ proc[p].pc = "settle" => \A e \in Db : e >= proc[p].i => proc[p].found[e].head = head[e]
  /\ proc[p].pc \in {"settle", "resolve"} =>
       \A e \in Db : e < proc[p].i => proc[p].txids[e] = head[e]
  /\ proc[p].pc \in {"settled", "explicit", "forget"} =>
       \A e \in Db : proc[p].txids[e] = head[e]
  /\ proc[p].pc \notin Loops => proc[p].i = 1
  /\ proc[p].pc = "down" => proc[p].opening = 1

Process(p) == Owned(p) /\ Drafted(p) /\ Resolving(p)
GroupInv   == GroupTypes /\ Alone /\ Records /\ Shown /\ \A p \in Proc : Process(p)

\* A record of a process with one field changed.
LEMMA ProcFields ==
  ASSUME NEW r \in ProcRecord
  PROVE  /\ \A x \in Where : [r EXCEPT !.pc = x] \in ProcRecord
         /\ \A x \in Db : [r EXCEPT !.opening = x] \in ProcRecord
         /\ \A x \in Db : [r EXCEPT !.i = x] \in ProcRecord
         /\ \A x \in 0..MAX_GROUPS : [r EXCEPT !.txn = x] \in ProcRecord
         /\ \A x \in SUBSET Db : [r EXCEPT !.writes = x] \in ProcRecord
         /\ \A x \in [Db -> Nat] : [r EXCEPT !.txids = x] \in ProcRecord
         /\ \A x \in SUBSET Txn : [r EXCEPT !.todo = x] \in ProcRecord
         /\ \A x \in BOOLEAN : [r EXCEPT !.again = x] \in ProcRecord
         /\ \A x \in [Db -> FoundRecord] : [r EXCEPT !.found = x] \in ProcRecord
<1> DEFINE F == [Db -> FoundRecord]
           N == [Db -> Nat]
           T == SUBSET Txn
           D == SUBSET Db
           M == 0..MAX_GROUPS
<1>1. ProcRecord = [pc : Where, opening : Db, i : Db, txn : M, writes : D,
                    txids : N, todo : T, again : BOOLEAN, found : F]
  BY DEF ProcRecord
<1> HIDE DEF F, N, T, D, M
<1>2. ASSUME NEW x \in Where PROVE [r EXCEPT !.pc = x] \in ProcRecord BY <1>1
<1>3. ASSUME NEW x \in Db PROVE [r EXCEPT !.opening = x] \in ProcRecord BY <1>1
<1>4. ASSUME NEW x \in Db PROVE [r EXCEPT !.i = x] \in ProcRecord BY <1>1
<1>5. ASSUME NEW x \in M PROVE [r EXCEPT !.txn = x] \in ProcRecord BY <1>1
<1>6. ASSUME NEW x \in D PROVE [r EXCEPT !.writes = x] \in ProcRecord BY <1>1
<1>7. ASSUME NEW x \in N PROVE [r EXCEPT !.txids = x] \in ProcRecord BY <1>1
<1>8. ASSUME NEW x \in T PROVE [r EXCEPT !.todo = x] \in ProcRecord BY <1>1
<1>9. ASSUME NEW x \in BOOLEAN PROVE [r EXCEPT !.again = x] \in ProcRecord BY <1>1
<1>10. ASSUME NEW x \in F PROVE [r EXCEPT !.found = x] \in ProcRecord BY <1>1
<1> QED BY <1>2, <1>3, <1>4, <1>5, <1>6, <1>7, <1>8, <1>9, <1>10 DEF F, N, T, D, M

\* A record of a process is its fields.
LEMMA ProcShape ==
  ASSUME NEW r \in ProcRecord
  PROVE  r = [pc |-> r.pc, opening |-> r.opening, i |-> r.i, txn |-> r.txn, writes |-> r.writes,
              txids |-> r.txids, todo |-> r.todo, again |-> r.again, found |-> r.found]
<1> DEFINE F == [Db -> FoundRecord]
           N == [Db -> Nat]
           T == SUBSET Txn
           D == SUBSET Db
           M == 0..MAX_GROUPS
<1>1. ProcRecord = [pc : Where, opening : Db, i : Db, txn : M, writes : D,
                    txids : N, todo : T, again : BOOLEAN, found : F]
  BY DEF ProcRecord
<1> HIDE DEF F, N, T, D, M
<1> QED BY <1>1

\* The databases are 1..NDBS, and a process that is down is at the first.
LEMMA DownIs ==
  /\ NDBS \in Nat \ {0} /\ MAX_GROUPS \in Nat /\ 1 \in Db
  /\ Down \in ProcRecord /\ NoRows \in [Db -> Nat]
  /\ Down.pc = "down" /\ Down.opening = 1 /\ Down.i = 1 /\ Down.todo = {} /\ Down.txn = 0
<1>1. NDBS \in Nat \ {0} /\ MAX_GROUPS \in Nat /\ 1 \in Db BY GroupConstants DEF Db
<1>2. NoRows \in [Db -> Nat] BY DEF NoRows
<1>3. [d \in Db |-> [head |-> 0, present |-> FALSE]] \in [Db -> FoundRecord] BY DEF FoundRecord
<1>4. 0 \in 0..MAX_GROUPS BY <1>1
<1>5. Down \in ProcRecord
  <2> DEFINE F == [Db -> FoundRecord]
             N == [Db -> Nat]
             f == [d \in Db |-> [head |-> 0, present |-> FALSE]]
  <2>1. f \in F /\ NoRows \in N BY <1>2, <1>3
  <2> HIDE DEF F, N, f
  <2>2. Down = [pc |-> "down", opening |-> 1, i |-> 1, txn |-> 0, writes |-> {},
                txids |-> NoRows, todo |-> {}, again |-> FALSE, found |-> f]
    BY DEF Down, f
  <2> QED BY <1>1, <1>4, <2>1, <2>2 DEF ProcRecord, Where, F, N
<1> QED BY <1>1, <1>2, <1>5 DEF Down

\* What is read of a process.
LEMMA ProcIs ==
  ASSUME GroupTypes, NEW p \in Proc
  PROVE  /\ proc[p] \in ProcRecord
         /\ proc[p].pc \in Where /\ proc[p].opening \in Db /\ proc[p].i \in Db
         /\ proc[p].txn \in 0..MAX_GROUPS /\ proc[p].writes \in SUBSET Db
         /\ proc[p].txids \in [Db -> Nat] /\ proc[p].todo \in SUBSET Txn
         /\ proc[p].again \in BOOLEAN /\ proc[p].found \in [Db -> FoundRecord]
<1>1. proc[p] \in ProcRecord BY DEF GroupTypes
<1> DEFINE r == proc[p]
           F == [Db -> FoundRecord]
           N == [Db -> Nat]
<1>2. r \in [pc : Where, opening : Db, i : Db, txn : 0..MAX_GROUPS, writes : SUBSET Db,
             txids : N, todo : SUBSET Txn, again : BOOLEAN, found : F]
  BY <1>1 DEF ProcRecord
<1> HIDE DEF r, F, N
<1>3. /\ r.pc \in Where /\ r.opening \in Db /\ r.i \in Db
      /\ r.txn \in 0..MAX_GROUPS /\ r.writes \in SUBSET Db
      /\ r.txids \in N /\ r.todo \in SUBSET Txn
      /\ r.again \in BOOLEAN /\ r.found \in F
  BY <1>2
<1> QED BY <1>1, <1>3 DEF r, F, N

\* What is read of a handle.
LEMMA HandleIs ==
  ASSUME GroupTypes, NEW p \in Proc, NEW d \in Db
  PROVE  /\ handle[p] \in [Db -> HandleRecord] /\ handle[p][d] \in HandleRecord
         /\ handle[p][d].fence \in Nat /\ handle[p][d].head \in Nat /\ handle[p][d].mem \in SUBSET Txn
<1> DEFINE H == [Db -> HandleRecord]
<1>1. handle \in [Proc -> H] BY DEF GroupTypes
<1>2. handle[p] \in H BY <1>1
<1>3. handle[p] \in [Db -> HandleRecord] BY <1>2
<1>4. handle[p][d] \in HandleRecord BY <1>3
<1> QED BY <1>3, <1>4 DEF HandleRecord

\* Another process is never disturbed.
Others(p) == \A q \in Proc : q # p => proc[q].pc = "down" /\ proc'[q] = proc[q]

\* The process that takes the step is the only one there is.
LEMMA Solo ==
  ASSUME GroupInv, NEW p \in Proc, Live(p) \/ \A q \in Proc : proc[q].pc = "down",
         NEW r, proc' = [proc EXCEPT ![p] = r]
  PROVE  Others(p) /\ proc'[p] = r
<1>1. proc \in [Proc -> ProcRecord] BY DEF GroupInv, GroupTypes
<1>2. \A q \in Proc : q # p => proc[q].pc = "down" BY DEF GroupInv, Alone, Live
<1> QED BY <1>1, <1>2 DEF Others

\* The next database of a loop, or what is after it.
LEMMA StepIs ==
  ASSUME GroupInv, NEW p \in Proc, Live(p), NEW r \in ProcRecord, NEW after, Step(p, r, after)
  PROVE  /\ Others(p)
         /\ r.i < NDBS \/ r.i = NDBS
         /\ r.i < NDBS => proc'[p].i = r.i + 1 /\ proc'[p].pc = r.pc
         /\ r.i = NDBS => proc'[p].i = 1 /\ proc'[p].pc = after
         /\ proc'[p].opening = r.opening /\ proc'[p].txn = r.txn /\ proc'[p].writes = r.writes
         /\ proc'[p].txids = r.txids /\ proc'[p].todo = r.todo /\ proc'[p].again = r.again
         /\ proc'[p].found = r.found
         /\ (r.i = NDBS => after \in Where) => proc'[p] \in ProcRecord /\ proc' \in [Proc -> ProcRecord]
<1> DEFINE F == [Db -> FoundRecord]
           N == [Db -> Nat]
           s == IF r.i < NDBS THEN [r EXCEPT !.i = r.i + 1] ELSE [r EXCEPT !.i = 1, !.pc = after]
<1>1. r \in [pc : Where, opening : Db, i : Db, txn : 0..MAX_GROUPS, writes : SUBSET Db,
             txids : N, todo : SUBSET Txn, again : BOOLEAN, found : F]
  BY DEF ProcRecord
<1>2. Others(p) /\ proc'[p] = s
  <2>1. proc' = [proc EXCEPT ![p] = s] BY DEF Step
  <2> QED BY <2>1, Solo
<1> HIDE DEF F, N
<1>3. r.i \in Db BY <1>1
<1>4. r.i \in Nat /\ (r.i < NDBS \/ r.i = NDBS) /\ NDBS \in Nat BY <1>3, GroupConstants DEF Db
<1>5. r.i < NDBS => r.i + 1 \in Db BY <1>3, <1>4 DEF Db
<1>6. CASE r.i < NDBS
  <2>1. s = [r EXCEPT !.i = r.i + 1] BY <1>6
  <2>2. s \in ProcRecord BY <2>1, <1>5, <1>6, ProcFields
  <2>3. proc' \in [Proc -> ProcRecord] BY <1>2, <2>2 DEF Step, GroupInv, GroupTypes
  <2> QED BY <1>1, <1>2, <1>4, <1>6, <2>1, <2>2, <2>3
<1>7. CASE r.i = NDBS
  <2> DEFINE r1 == [r EXCEPT !.i = 1]
  <2>1. s = [r1 EXCEPT !.pc = after] BY <1>1, <1>4, <1>7
  <2>2. r1 \in ProcRecord BY ProcFields, DownIs
  <2>3. after \in Where => s \in ProcRecord
    <3> HIDE DEF r1, s
    <3> QED BY <2>1, <2>2, ProcFields
  <2>4. after \in Where => proc' \in [Proc -> ProcRecord]
    BY <1>2, <2>3 DEF Step, GroupInv, GroupTypes
  <2> QED BY <1>1, <1>2, <1>4, <1>7, <2>3, <2>4
<1> QED BY <1>4, <1>6, <1>7

\* The invariant of the whole from that of the store and that of the process at work.
LEMMA Assemble ==
  ASSUME GroupInv, NEW p \in Proc, Others(p), GroupTypes', Records', Shown', Process(p)'
  PROVE  GroupInv'
<1>1. ASSUME NEW q \in Proc, q # p PROVE Process(q)'
  <2>1. proc[q].pc = "down" /\ proc'[q] = proc[q] BY <1>1 DEF Others
  <2>2. proc[q].i = 1 /\ proc[q].opening = 1 BY <2>1 DEF GroupInv, Process, Resolving, Loops
  <2> QED BY <2>1, <2>2 DEF Process, Owned, Drafted, Resolving, Has, Grouping
<1>2. Alone' BY DEF Alone, Live, Others
<1> QED BY <1>1, <1>2 DEF GroupInv

\* The groups a database holds: what is visible, and what a record will make visible.
Holds(d) == Visible(d) \cup {t \in Staging : rows[t][d] > head[d]}

\* A step keeps the invariant, moves no head back and changes nothing a reader will find.
Keeps == GroupInv' /\ \A d \in Db : head'[d] >= head[d] /\ Holds(d)' = Holds(d)

\* A step of a process that leaves the store alone.
LEMMA StoreSame ==
  ASSUME GroupInv, NEW p \in Proc, Others(p), GroupTypes', Process(p)',
         head' = head, delta' = delta, status' = status, rows' = rows, landed' = landed,
         next' >= next
  PROVE  Keeps
<1>1. Staging' = Staging BY DEF Staging
<1>2. \A d \in Db : Visible(d)' = Visible(d) BY DEF Visible, Page
<1>3. \A d \in Db : \A t : Page(d, t)' = Page(d, t) BY DEF Page
<1>4. Records' BY <1>1, <1>2, <1>3 DEF Records, Intent, GroupInv
<1>5. next \in Nat /\ next' \in Nat /\ landed \subseteq Nat BY GroupConstants DEF GroupInv, GroupTypes, Txn
<1>6. Shown' BY <1>2, <1>5 DEF Shown, OnlyLandedIsVisible, GroupInv
<1>7. GroupInv' BY <1>4, <1>6, Assemble
<1>8. \A d \in Db : head[d] \in Nat BY DEF GroupInv, GroupTypes
<1> QED BY <1>1, <1>2, <1>7, <1>8 DEF Keeps, Holds

\* A process starts.
LEMMA StartKeeps ==
  ASSUME GroupInv, Exclusive = TRUE, NEW p \in Proc, Start(p)
  PROVE  Keeps
<1> DEFINE r == [proc[p] EXCEPT !.pc = "sweep"]
<1>1. /\ proc' = [proc EXCEPT ![p] = r] /\ proc[p].pc = "down" /\ \A q \in Proc : proc[q].pc = "down"
      /\ head' = head /\ fence' = fence /\ delta' = delta /\ status' = status /\ rows' = rows
      /\ next' = next /\ handle' = handle /\ landed' = landed
  BY DEF Start, Goto, store
<1>2. proc[p] \in ProcRecord /\ r.pc = "sweep" /\ r.opening = proc[p].opening /\ r.i = proc[p].i
  BY ProcIs DEF GroupInv, ProcRecord
<1>3. r \in ProcRecord BY <1>2, ProcFields DEF Where
<1>4. Others(p) /\ proc'[p] = r BY <1>1, Solo
<1>5. GroupTypes' BY <1>1, <1>3 DEF GroupInv, GroupTypes
<1>6. next' >= next BY <1>1, GroupConstants DEF GroupInv, GroupTypes
<1>7. r.opening = 1 /\ r.i = 1 BY <1>1, <1>2 DEF GroupInv, Process, Resolving, Loops
<1>8. Process(p)'
  <2>1. \A d \in Db : ~(d < 1) BY DEF Db
  <2> HIDE DEF r
  <2> QED BY <1>2, <1>4, <1>7, <2>1 DEF Process, Owned, Has, Grouping, Drafted, Resolving, Loops
<1> QED BY <1>1, <1>4, <1>5, <1>6, <1>8, StoreSame

\* One record at most is staging, so a sweep takes all there are.
LEMMA SweepIs ==
  ASSUME GroupInv
  PROVE  {t \in Staging : Cardinality({u \in Staging : u < t}) < TXN_MAX_RECOVER} = Staging
<1>1. ASSUME NEW t \in Staging PROVE Cardinality({u \in Staging : u < t}) < TXN_MAX_RECOVER
  <2>1. \A u \in Staging : u = t BY DEF GroupInv, Records
  <2>2. t \in Nat BY GroupConstants DEF Staging, Txn
  <2>3. \A u \in Staging : ~(u < t)
    <3>1. ~(t < t) BY <2>2
    <3> QED BY <2>1, <3>1, Zenon
  <2>4. {u \in Staging : u < t} = {} BY <2>3, Zenon
  <2> QED BY <2>4, FS_EmptySet, GroupConstants
<1> QED BY <1>1

\* weft_txn_recover sees the one record there is.
LEMMA SweepKeeps ==
  ASSUME GroupInv, NEW p \in Proc, Sweep(p)
  PROVE  Keeps
<1> DEFINE r0 == proc[p]
           w == IF Staging = {} THEN "open" ELSE "parts"
           a == Cardinality(Staging) >= TXN_MAX_RECOVER
           r1 == [r0 EXCEPT !.pc = w]
           r2 == [r1 EXCEPT !.todo = Staging]
           r == [r2 EXCEPT !.again = a]
<1>1. /\ proc[p].pc = "sweep"
      /\ head' = head /\ fence' = fence /\ delta' = delta /\ status' = status /\ rows' = rows
      /\ next' = next /\ handle' = handle /\ landed' = landed
  BY DEF Sweep, store
<1>2. r0 \in ProcRecord BY ProcIs DEF GroupInv
<1>3. Staging \in SUBSET Txn /\ w \in Where /\ a \in BOOLEAN BY DEF Staging, Where
<1>4. proc' = [proc EXCEPT ![p] = [proc[p] EXCEPT !.pc = w, !.todo = Staging, !.again = a]]
  BY SweepIs DEF Sweep
<1>5. proc' = [proc EXCEPT ![p] = r]
  <2> HIDE DEF w, a
  <2> QED BY <1>2, <1>4 DEF ProcRecord
<1>6. r1 \in ProcRecord /\ r1.pc = w /\ r1.opening = r0.opening /\ r1.i = r0.i
  <2> HIDE DEF w, r0
  <2>1. r1 \in ProcRecord BY <1>2, <1>3, ProcFields, Zenon
  <2> QED BY <1>2, <2>1, ProcShape
<1>7. r2 \in ProcRecord /\ r2.pc = w /\ r2.opening = r0.opening /\ r2.i = r0.i /\ r2.todo = Staging
  <2> HIDE DEF w, r0, r1
  <2>1. r2 \in ProcRecord BY <1>6, <1>3, ProcFields, Zenon
  <2> QED BY <1>6, <2>1, ProcShape
<1>8. r \in ProcRecord /\ r.pc = w /\ r.opening = r0.opening /\ r.i = r0.i /\ r.todo = Staging
  <2> HIDE DEF w, r0, r1, r2, a
  <2>1. r \in ProcRecord BY <1>7, <1>3, ProcFields, Zenon
  <2> QED BY <1>7, <2>1, ProcShape
<1> HIDE DEF r
<1>9. Others(p) /\ proc'[p] = r BY <1>1, <1>5, Solo DEF Live
<1>10. GroupTypes' BY <1>1, <1>5, <1>8 DEF GroupInv, GroupTypes
<1>11. next' >= next BY <1>1, GroupConstants DEF GroupInv, GroupTypes
<1>12. Process(p)'
  <2>1. r0.opening \in Db BY <1>2 DEF ProcRecord
  <2>2. r0.opening = 1 \/ r0.opening > 1 BY <2>1 DEF Db
  <2>3. Staging' = Staging BY <1>1 DEF Staging
  <2>4. r0.i = 1 /\ (r0.opening > 1 => Staging = {})
    BY <1>1 DEF GroupInv, Process, Resolving, Loops
  <2>5. Resolving(p)' BY <1>8, <1>9, <2>2, <2>3, <2>4 DEF Resolving, Loops
  <2>6. Drafted(p)' BY <1>8, <1>9 DEF Drafted
  <2>7. Owned(p)'
    <3>1. \A d \in Db : Has(p, d)' => Has(p, d) BY <1>1, <1>8, <1>9 DEF Has, Grouping
    <3>2. ~Grouping(p) /\ ~Grouping(p)' BY <1>1, <1>8, <1>9 DEF Grouping
    <3> QED BY <1>1, <3>1, <3>2 DEF GroupInv, Process, Owned, Owns, Page
  <2> QED BY <2>5, <2>6, <2>7 DEF Process
<1> QED BY <1>1, <1>9, <1>10, <1>11, <1>12, StoreSame

\* read_parts_body: the record is there, and it has rows.
LEMMA ReadPartsKeeps ==
  ASSUME GroupInv, NEW p \in Proc, ReadParts(p)
  PROVE  Keeps
<1> DEFINE r0 == proc[p]
<1>1. /\ r0.pc = "parts"
      /\ head' = head /\ fence' = fence /\ delta' = delta /\ status' = status /\ rows' = rows
      /\ next' = next /\ handle' = handle /\ landed' = landed
  BY DEF ReadParts, store
<1>2. r0.todo = Staging /\ Staging # {} /\ r0.i = 1 /\ r0.opening = 1
  BY <1>1 DEF GroupInv, Process, Resolving, Loops
<1>3. PICK t \in Staging : Staging = {t} BY <1>2 DEF GroupInv, Records
<1>4. t \in Txn /\ t \in Nat /\ t \in 0..MAX_GROUPS BY GroupConstants DEF Staging, Txn
<1>5. Min(r0.todo) = t BY <1>2, <1>3, <1>4 DEF Min
<1>6. rows[t] # NoRows BY DEF GroupInv, Records
<1> DEFINE r1 == [r0 EXCEPT !.pc = "query"]
           r2 == [r1 EXCEPT !.txn = t]
           R == rows[t]
           r == [r2 EXCEPT !.txids = R]
<1>7. r0 \in ProcRecord /\ R \in [Db -> Nat] BY <1>4, ProcIs DEF GroupInv, GroupTypes
<1>8. proc' = [proc EXCEPT ![p] = [proc[p] EXCEPT !.pc = "query", !.txn = t, !.txids = R]]
  BY <1>5, <1>6 DEF ReadParts
<1>9. proc' = [proc EXCEPT ![p] = r]
  <2> HIDE DEF R
  <2> QED BY <1>7, <1>8 DEF ProcRecord
<1>10. r1 \in ProcRecord /\ r1.pc = "query" /\ r1.opening = 1 /\ r1.i = 1 /\ r1.todo = {t}
  <2> HIDE DEF r0, R
  <2>1. "query" \in Where BY DEF Where
  <2>2. r1 \in ProcRecord BY <1>7, <2>1, ProcFields, Zenon
  <2> QED BY <1>2, <1>3, <1>7, <2>2, ProcShape
<1>11. r2 \in ProcRecord /\ r2.pc = "query" /\ r2.opening = 1 /\ r2.i = 1 /\ r2.todo = {t} /\ r2.txn = t
  <2> HIDE DEF r0, r1, R
  <2>1. r2 \in ProcRecord BY <1>10, <1>4, ProcFields, Zenon
  <2> QED BY <1>10, <2>1, ProcShape
<1>12. r \in ProcRecord /\ r.pc = "query" /\ r.opening = 1 /\ r.i = 1 /\ r.todo = {t} /\ r.txn = t
       /\ r.txids = R
  <2> HIDE DEF r0, r1, r2, R
  <2>1. r \in ProcRecord BY <1>11, <1>7, ProcFields, Zenon
  <2> QED BY <1>11, <2>1, ProcShape
<1> HIDE DEF r
<1>13. Others(p) /\ proc'[p] = r BY <1>1, <1>9, Solo DEF Live
<1>14. GroupTypes' BY <1>1, <1>9, <1>12 DEF GroupInv, GroupTypes
<1>15. next' >= next BY <1>1, GroupConstants DEF GroupInv, GroupTypes
<1>16. Process(p)'
  <2>1. \A d \in Db : ~(d < 1) BY DEF Db
  <2>2. Staging' = Staging BY <1>1 DEF Staging
  <2> QED BY <1>1, <1>3, <1>12, <1>13, <2>1, <2>2
          DEF Process, Owned, Has, Grouping, Drafted, Resolving, Loops
<1> QED BY <1>1, <1>13, <1>14, <1>15, <1>16, StoreSame

\* query_intent_body: the intent is there, whichever database is asked.
LEMMA QueryKeeps ==
  ASSUME GroupInv, NEW p \in Proc, Query(p)
  PROVE  Keeps
<1> DEFINE r0 == proc[p]
           d == r0.i
           Q == QueryIntent(d, r0.txids[d])
           f == [r0.found EXCEPT ![d] = Q]
           r == [r0 EXCEPT !.found = f]
           after == IF \A e \in Db : r.found[e].present THEN "settle" ELSE "prevent"
<1>1. /\ r0.pc = "query" /\ Step(p, r, after)
      /\ head' = head /\ fence' = fence /\ delta' = delta /\ status' = status /\ rows' = rows
      /\ next' = next /\ handle' = handle /\ landed' = landed
  BY DEF Query, store
<1>2. /\ r0 \in ProcRecord /\ d \in Db /\ r0.found \in [Db -> FoundRecord]
      /\ r0.txids \in [Db -> Nat]
  BY ProcIs DEF GroupInv
<1>3. /\ r0.opening = 1 /\ r0.todo = {r0.txn} /\ Staging = {r0.txn} /\ r0.txids = rows[r0.txn]
      /\ \A e \in Db : e < d => r0.found[e].present /\ r0.found[e].head = head[e]
  BY <1>1 DEF GroupInv, Process, Resolving
<1>4. head \in [Db -> Nat] /\ head[d] \in Nat BY <1>2 DEF GroupInv, GroupTypes
<1>5. Intent(r0.txn, d) BY <1>2, <1>3 DEF GroupInv, Records
<1>6. Q.present = TRUE /\ Q.head = head[d] /\ Q \in FoundRecord
  <2>1. r0.txids[d] <= head[d] \/ r0.txids[d] \in DOMAIN delta[d] BY <1>3, <1>4, <1>5 DEF Intent
  <2> QED BY <2>1, <1>4 DEF QueryIntent, FoundRecord
<1> HIDE DEF Q
<1>7. f \in [Db -> FoundRecord] /\ f[d] = Q /\ \A e \in Db : e # d => f[e] = r0.found[e]
  BY <1>2, <1>6
<1> HIDE DEF f
<1>8. r \in ProcRecord
  <2> HIDE DEF r0
  <2> QED BY <1>2, <1>7, ProcFields, Zenon
<1>9. /\ r.pc = "query" /\ r.opening = 1 /\ r.i = d /\ r.txn = r0.txn /\ r.txids = r0.txids
      /\ r.todo = r0.todo /\ r.found = f
  <2> HIDE DEF r0
  <2> QED BY <1>1, <1>2, <1>3, ProcShape DEF r0
<1>10. \A e \in Db : e < d \/ e = d => f[e].present /\ f[e].head = head[e]
  <2>1. \A e \in Db : e < d => e # d BY DEF Db
  <2> QED BY <2>1, <1>3, <1>6, <1>7
<1>11. d = NDBS => after = "settle"
  <2>1. d = NDBS => \A e \in Db : e < d \/ e = d BY GroupConstants DEF Db
  <2> HIDE DEF r
  <2> QED BY <1>9, <1>10, <2>1
<1> HIDE DEF r, after
<1> DEFINE s == proc'[p]
<1>12. /\ Others(p) /\ (d < NDBS \/ d = NDBS)
       /\ d < NDBS => s.i = d + 1 /\ s.pc = "query"
       /\ d = NDBS => s.i = 1 /\ s.pc = "settle"
       /\ s.opening = 1 /\ s.txn = r0.txn /\ s.txids = r0.txids /\ s.todo = r0.todo /\ s.found = f
       /\ proc' \in [Proc -> ProcRecord]
  <2>1. after \in Where \/ d # NDBS BY <1>11 DEF Where
  <2> QED BY <1>1, <1>8, <1>9, <1>11, <2>1, StepIs DEF Live
<1>13. GroupTypes' BY <1>1, <1>12 DEF GroupInv, GroupTypes
<1>14. next' >= next BY <1>1, GroupConstants DEF GroupInv, GroupTypes
<1>15. Staging' = Staging BY <1>1 DEF Staging
<1>16. Process(p)'
  <2>1. s.pc \in {"query", "settle"} BY <1>12
  <2>2. Owned(p)' BY <2>1 DEF Owned, Has, Grouping
  <2>3. Drafted(p)' BY <2>1 DEF Drafted
  <2>4. s.pc = "query" => \A e \in Db : e < s.i => s.found[e].present /\ s.found[e].head = head[e]
    <3>1. s.pc = "query" => s.i = d + 1 BY <1>12
    <3>2. \A e \in Db : e < d + 1 => e < d \/ e = d BY <1>2 DEF Db
    <3> QED BY <1>10, <1>12, <3>1, <3>2
  <2>5. s.pc = "settle" => s.i = 1 /\ \A e \in Db : ~(e < s.i) /\ s.found[e].head = head[e]
    <3>1. s.pc = "settle" => s.i = 1 /\ d = NDBS BY <1>12
    <3>2. d = NDBS => \A e \in Db : e < d \/ e = d BY GroupConstants DEF Db
    <3>3. \A e \in Db : ~(e < 1) BY DEF Db
    <3> QED BY <1>10, <1>12, <3>1, <3>2, <3>3
  <2> HIDE DEF s
  <2>6. Resolving(p)' BY <1>1, <1>3, <1>12, <1>15, <2>1, <2>4, <2>5 DEF Resolving, Loops, s
  <2> QED BY <2>2, <2>3, <2>6 DEF Process
<1> QED BY <1>1, <1>12, <1>13, <1>14, <1>16, StoreSame

\* weft_txn_begin, and the joins.
LEMMA BeginKeeps ==
  ASSUME GroupInv, NEW p \in Proc, Begin(p)
  PROVE  Keeps
<1> DEFINE r0 == proc[p]
           X == [d \in Db |-> handle[p][d].head]
<1>1. /\ r0.pc = "idle" /\ next < MAX_GROUPS /\ next' = next + 1
      /\ head' = head /\ fence' = fence /\ delta' = delta /\ status' = status /\ rows' = rows
      /\ handle' = handle /\ landed' = landed
  BY DEF Begin
<1>2. PICK W \in (SUBSET Db) \ {{}} :
        proc' = [proc EXCEPT ![p] = [proc[p] EXCEPT !.pc = "stage", !.txn = next + 1, !.writes = W,
                                                    !.txids = X]]
  BY DEF Begin
<1>3. next \in Nat /\ next <= MAX_GROUPS /\ MAX_GROUPS \in Nat BY GroupConstants DEF GroupInv, GroupTypes
<1> DEFINE g == next + 1
<1>4. g \in Txn /\ g \in 0..MAX_GROUPS /\ g \notin landed /\ next' \in 0..MAX_GROUPS /\ next' >= next
  <2>1. \A t \in landed : t <= next BY DEF GroupInv, Shown
  <2>2. ~(next + 1 <= next) BY <1>3
  <2> QED BY <1>1, <1>3, <2>1, <2>2 DEF Txn
<1>5. /\ r0 \in ProcRecord /\ r0.i = 1 /\ Staging = {} /\ r0.pc # "down"
  BY <1>1, ProcIs DEF GroupInv, Process, Resolving, Loops
<1>6. \A d \in Db : /\ Owns(p, d) /\ handle[p][d].head = head[d] /\ X[d] = head[d]
                    /\ handle[p][d].mem = Page(d, head[d])
  BY <1>1 DEF GroupInv, Process, Owned, Has, Grouping
<1>7. X \in [Db -> Nat] BY <1>6 DEF GroupInv, GroupTypes
<1> HIDE DEF X, g
<1> DEFINE r1 == [r0 EXCEPT !.pc = "stage"]
           r2 == [r1 EXCEPT !.txn = g]
           r3 == [r2 EXCEPT !.writes = W]
           r == [r3 EXCEPT !.txids = X]
<1>8. proc' = [proc EXCEPT ![p] = r] BY <1>2, <1>5, ProcShape DEF g
<1>9. r1 \in ProcRecord /\ r1.pc = "stage" /\ r1.i = 1
  <2> HIDE DEF r0
  <2>1. "stage" \in Where BY DEF Where
  <2>2. r1 \in ProcRecord BY <1>5, <2>1, ProcFields, Zenon
  <2> QED BY <1>5, <2>2, ProcShape
<1>10. r2 \in ProcRecord /\ r2.pc = "stage" /\ r2.i = 1 /\ r2.txn = g
  <2> HIDE DEF r0, r1
  <2>1. r2 \in ProcRecord BY <1>4, <1>9, ProcFields, Zenon
  <2> QED BY <1>9, <2>1, ProcShape
<1>11. r3 \in ProcRecord /\ r3.pc = "stage" /\ r3.i = 1 /\ r3.txn = g /\ r3.writes = W
  <2> HIDE DEF r0, r1, r2
  <2>0. W \in SUBSET Db BY <1>2
  <2>1. r3 \in ProcRecord BY <2>0, <1>10, ProcFields, Zenon
  <2> QED BY <1>10, <2>1, ProcShape
<1>12. r \in ProcRecord /\ r.pc = "stage" /\ r.i = 1 /\ r.txn = g /\ r.writes = W /\ r.txids = X
  <2> HIDE DEF r0, r1, r2, r3
  <2>1. r \in ProcRecord BY <1>7, <1>11, ProcFields, Zenon
  <2> QED BY <1>11, <2>1, ProcShape
<1> HIDE DEF r
<1>13. Others(p) /\ proc'[p] = r BY <1>5, <1>8, Solo DEF Live
<1>14. GroupTypes' BY <1>1, <1>4, <1>8, <1>12 DEF GroupInv, GroupTypes
<1>15. Process(p)'
  <2>1. \A d \in Db : ~(d < 1) BY DEF Db
  <2>2. Staging' = Staging BY <1>1 DEF Staging
  <2>3. Resolving(p)' BY <1>5, <1>12, <1>13, <2>1, <2>2 DEF Resolving, Loops
  <2>4. Owned(p)' BY <1>1, <1>6, <1>12, <1>13 DEF Owned, Owns, Page, Grouping
  <2>5. Drafted(p)'
    <3>1. \A d \in Db : ~Done(p, d)' BY <1>12, <1>13, <2>1 DEF Done
    <3>2. next' = g /\ W # {} BY <1>1, <1>2 DEF g
    <3> QED BY <1>1, <1>4, <1>6, <1>12, <1>13, <3>1, <3>2 DEF Drafted
  <2> QED BY <2>3, <2>4, <2>5 DEF Process
<1> QED BY <1>1, <1>4, <1>13, <1>14, <1>15, StoreSame

\* A participant that wrote nothing.
LEMMA StageNothingKeeps ==
  ASSUME GroupInv, NEW p \in Proc, StageNothing(p)
  PROVE  Keeps
<1> DEFINE r0 == proc[p]
           s == proc'[p]
<1>1. /\ r0.pc = "stage" /\ r0.i \notin r0.writes /\ Step(p, r0, "record")
      /\ head' = head /\ fence' = fence /\ delta' = delta /\ status' = status /\ rows' = rows
      /\ next' = next /\ handle' = handle /\ landed' = landed
  BY DEF StageNothing, store
<1>2. r0 \in ProcRecord /\ r0.i \in Db BY ProcIs DEF GroupInv
<1>3. /\ Others(p) /\ (r0.i < NDBS \/ r0.i = NDBS)
      /\ r0.i < NDBS => s.i = r0.i + 1 /\ s.pc = "stage"
      /\ r0.i = NDBS => s.i = 1 /\ s.pc = "record"
      /\ s.txn = r0.txn /\ s.writes = r0.writes /\ s.txids = r0.txids
      /\ proc' \in [Proc -> ProcRecord]
  <2>1. "record" \in Where BY DEF Where
  <2> QED BY <1>1, <1>2, <2>1, StepIs DEF Live
<1>4. GroupTypes' BY <1>1, <1>3 DEF GroupInv, GroupTypes
<1>5. next' >= next BY <1>1, GroupConstants DEF GroupInv, GroupTypes
<1>6. Staging' = Staging /\ Staging = {} BY <1>1 DEF Staging, GroupInv, Process, Resolving
<1>7. Process(p)'
  <2>1. s.pc \in {"stage", "record"} BY <1>3
  <2>2. Owned(p)'
    <3>1. \A d \in Db : Has(p, d) BY <1>1 DEF Has, Grouping
    <3> QED BY <1>1, <1>3, <2>1, <3>1 DEF GroupInv, Process, Owned, Owns, Page, Grouping
  <2>3. \A d \in Db : Done(p, d)' <=> Done(p, d)
    <3>1. CASE r0.i < NDBS
      <4>1. \A d \in Db : d < r0.i + 1 <=> d < r0.i \/ d = r0.i BY <1>2 DEF Db
      <4> QED BY <3>1, <4>1, <1>1, <1>3 DEF Done
    <3>2. CASE r0.i = NDBS
      <4>1. \A d \in Db : d < r0.i \/ d = r0.i BY <3>2, GroupConstants DEF Db
      <4> QED BY <3>2, <4>1, <1>1, <1>3 DEF Done
    <3> QED BY <3>1, <3>2, <1>3
  <2>4. Drafted(p)' BY <1>1, <1>3, <2>3 DEF GroupInv, Process, Drafted, Visible, Page
  <2>5. Resolving(p)' BY <1>3, <1>6, <2>1 DEF Resolving, Loops
  <2> QED BY <2>2, <2>4, <2>5 DEF Process
<1> QED BY <1>1, <1>3, <1>4, <1>5, <1>7, StoreSame

\* A process dies.
LEMMA CrashKeeps ==
  ASSUME GroupInv, NEW p \in Proc, Crash(p)
  PROVE  Keeps
<1>1. /\ proc[p].pc # "down" /\ proc' = [proc EXCEPT ![p] = Down]
      /\ head' = head /\ fence' = fence /\ delta' = delta /\ status' = status /\ rows' = rows
      /\ next' = next /\ landed' = landed
      /\ handle' = [handle EXCEPT ![p] = [d \in Db |-> Closed]]
  BY DEF Crash, store
<1>2. Others(p) /\ proc'[p] = Down BY <1>1, Solo DEF Live
<1>3. GroupTypes'
  <2> DEFINE H == [Db -> HandleRecord]
             c == [d \in Db |-> Closed]
  <2>1. Closed \in HandleRecord BY DEF Closed, HandleRecord
  <2>2. c \in H BY <2>1
  <2>3. handle \in [Proc -> H] BY DEF GroupInv, GroupTypes
  <2> HIDE DEF H, c
  <2>4. handle' \in [Proc -> H] BY <1>1, <2>2, <2>3 DEF c
  <2>5. proc' \in [Proc -> ProcRecord] BY <1>1, DownIs DEF GroupInv, GroupTypes
  <2> QED BY <1>1, <2>4, <2>5 DEF GroupInv, GroupTypes, H
<1>4. next' >= next BY <1>1, GroupConstants DEF GroupInv, GroupTypes
<1>5. Process(p)'
  <2>1. proc'[p].pc = "down" /\ proc'[p].i = 1 /\ proc'[p].opening = 1 BY <1>2, DownIs
  <2> QED BY <2>1 DEF Process, Owned, Has, Grouping, Drafted, Resolving
<1> QED BY <1>1, <1>2, <1>3, <1>4, <1>5, StoreSame

\* With its databases its own, a process is refused nothing.
LEMMA Unrefused ==
  ASSUME GroupInv, Faults = {}, NEW p \in Proc
  PROVE  ~StageRefused(p) /\ ~RecordRefused(p) /\ ~ResolveFails(p) /\ ~Prevent(p)
<1>1. Grouping(p) => \A d \in Db : Owns(p, d) BY DEF GroupInv, Process, Owned, Has
<1>2. proc[p].i \in Db /\ proc[p].pc \in Where BY ProcIs DEF GroupInv
<1>3. ~StageRefused(p) BY <1>1, <1>2 DEF StageRefused, Grouping
<1>4. ~RecordRefused(p) BY <1>1 DEF RecordRefused, Grouping
<1>5. ~ResolveFails(p) BY <1>1, <1>2 DEF ResolveFails, Grouping
<1>6. ~Prevent(p) BY <1>2 DEF Prevent, Where
<1> QED BY <1>3, <1>4, <1>5, <1>6

\* One head moves to what its record says, or is there already.
LEMMA HeadMoves ==
  ASSUME GroupInv, NEW t, Staging = {t}, NEW d \in Db,
         \/ head' = head /\ rows[t][d] = head[d]
         \/ head' = [head EXCEPT ![d] = rows[t][d]] /\ rows[t][d] = head[d] + 1,
         delta' = delta, status' = status, rows' = rows, landed' = landed, next' = next
  PROVE  /\ head' \in [Db -> Nat] /\ head'[d] = rows[t][d]
         /\ \A e \in Db : e # d => head'[e] = head[e]
         /\ Staging' = Staging /\ Records' /\ Shown'
         /\ \A e \in Db : head'[e] >= head[e] /\ Holds(e)' = Holds(e)
<1>1. head \in [Db -> Nat] /\ \A e \in Db : head[e] \in Nat BY DEF GroupInv, GroupTypes
<1>2. /\ head' \in [Db -> Nat] /\ head'[d] = rows[t][d] /\ \A e \in Db : e # d => head'[e] = head[e]
  BY <1>1
<1>3. Staging' = Staging BY DEF Staging
<1>4. /\ \A e \in Db : \A x : Page(e, x)' = Page(e, x)
      /\ \A e \in Db : e # d => Visible(e)' = Visible(e)
  BY <1>2 DEF Visible, Page
<1>5. t \in landed /\ rows[t] # NoRows /\ \A e \in Db : Intent(t, e) BY DEF GroupInv, Records
<1>6. Visible(d)' = Visible(d) \/ (Visible(d)' = Visible(d) \cup {t} /\ rows[t][d] = head[d] + 1)
  <2>1. CASE head' = head
    <3>1. Visible(d)' = Visible(d) BY <2>1 DEF Visible, Page
    <3> QED BY <3>1
  <2>2. CASE head' = [head EXCEPT ![d] = rows[t][d]] /\ rows[t][d] = head[d] + 1
    <3>1. Page(d, rows[t][d]) = Visible(d) \cup {t}
      <4>1. rows[t][d] # head[d] BY <1>1, <2>2
      <4> QED BY <1>5, <4>1 DEF Intent
    <3>2. Visible(d)' = Page(d, rows[t][d]) BY <1>2 DEF Visible, Page
    <3> QED BY <2>2, <3>1, <3>2
  <2> QED BY <2>1, <2>2
<1>7. Records'
  <2>1. \A e \in Db : Intent(t, e)'
    <3>1. Intent(t, d)' BY <1>2 DEF Intent
    <3>2. \A e \in Db : e # d => Intent(t, e)' BY <1>2, <1>4, <1>5 DEF Intent
    <3> QED BY <3>1, <3>2
  <2> QED BY <1>3, <1>5, <2>1 DEF Records
<1>8. Shown'
  <2>1. \A e \in Db : Visible(e)' \subseteq landed
    BY <1>4, <1>5, <1>6 DEF GroupInv, Shown, OnlyLandedIsVisible
  <2> QED BY <2>1 DEF GroupInv, Shown, OnlyLandedIsVisible
<1>9. \A e \in Db : head'[e] >= head[e] BY <1>1, <1>2
<1>10. ASSUME NEW e \in Db PROVE Holds(e)' = Holds(e)
  <2>1. CASE e # d BY <2>1, <1>2, <1>3, <1>4 DEF Holds
  <2>2. CASE e = d
    <3>1. CASE head' = head /\ rows[t][d] = head[d]
      <4>1. Visible(d)' = Visible(d) BY <3>1 DEF Visible, Page
      <4> QED BY <2>2, <3>1, <4>1, <1>3 DEF Holds
    <3>2. CASE head' = [head EXCEPT ![d] = rows[t][d]] /\ rows[t][d] = head[d] + 1
      <4>1. Visible(d)' = Visible(d) \cup {t}
        <5>1. rows[t][d] # head[d] BY <1>1, <3>2
        <5>2. Page(d, rows[t][d]) = Visible(d) \cup {t} BY <1>5, <5>1 DEF Intent
        <5>3. Visible(d)' = Page(d, rows[t][d]) BY <1>2 DEF Visible, Page
        <5> QED BY <5>2, <5>3
      <4>2. {u \in Staging : rows[u][d] > head[d]} = {t} BY <1>1, <3>2
      <4>3. {u \in Staging : rows[u][d] > head'[d]} = {}
        <5>1. ~(rows[t][d] > rows[t][d]) BY <1>1, <3>2
        <5> QED BY <5>1, <1>2
      <4> QED BY <2>2, <4>1, <4>2, <4>3, <1>3 DEF Holds
    <3> QED BY <3>1, <3>2
  <2> QED BY <2>1, <2>2
<1> QED BY <1>2, <1>3, <1>7, <1>8, <1>9, <1>10

\* resolve_body, in recovery.
LEMMA SettleKeeps ==
  ASSUME GroupInv, NEW p \in Proc, Settle(p)
  PROVE  Keeps
<1> DEFINE r0 == proc[p]
           s == proc'[p]
           d == r0.i
           t == r0.txn
<1>1. /\ r0.pc = "settle" /\ Step(p, r0, "settled")
      /\ head' = IF r0.txids[d] <= r0.found[d].head THEN head ELSE [head EXCEPT ![d] = r0.txids[d]]
      /\ fence' = fence /\ delta' = delta /\ status' = status /\ rows' = rows
      /\ next' = next /\ handle' = handle /\ landed' = landed
  BY DEF Settle
<1>2. r0 \in ProcRecord /\ d \in Db BY ProcIs DEF GroupInv
<1>3. /\ r0.opening = 1 /\ r0.todo = {t} /\ Staging = {t} /\ r0.txids = rows[t]
      /\ \A e \in Db : e >= d => r0.found[e].head = head[e]
      /\ \A e \in Db : e < d => r0.txids[e] = head[e]
  BY <1>1 DEF GroupInv, Process, Resolving
<1>4. /\ Others(p) /\ (d < NDBS \/ d = NDBS)
      /\ d < NDBS => s.i = d + 1 /\ s.pc = "settle"
      /\ d = NDBS => s.i = 1 /\ s.pc = "settled"
      /\ s.opening = 1 /\ s.txn = t /\ s.txids = rows[t] /\ s.todo = {t} /\ s.found = r0.found
      /\ proc' \in [Proc -> ProcRecord]
  <2>1. "settled" \in Where BY DEF Where
  <2> QED BY <1>1, <1>2, <1>3, <2>1, StepIs DEF Live
<1>5. \/ head' = head /\ rows[t][d] = head[d]
      \/ head' = [head EXCEPT ![d] = rows[t][d]] /\ rows[t][d] = head[d] + 1
  <2>1. r0.found[d].head = head[d] /\ head[d] \in Nat
    BY <1>2, <1>3 DEF Db, GroupInv, GroupTypes
  <2>2. rows[t][d] = head[d] \/ rows[t][d] = head[d] + 1
    BY <1>2, <1>3 DEF GroupInv, Records, Intent
  <2> QED BY <1>1, <1>3, <2>1, <2>2
<1> HIDE DEF t, s
<1>6. /\ head' \in [Db -> Nat] /\ head'[d] = rows[t][d]
      /\ \A e \in Db : e # d => head'[e] = head[e]
      /\ Staging' = Staging /\ Records' /\ Shown'
      /\ \A e \in Db : head'[e] >= head[e] /\ Holds(e)' = Holds(e)
  BY <1>1, <1>2, <1>3, <1>5, HeadMoves
<1>7. GroupTypes' BY <1>1, <1>4, <1>6 DEF GroupInv, GroupTypes
<1>8. \A e \in Db : e < d \/ e = d => head'[e] = rows[t][e]
  <2>1. \A e \in Db : e < d => e # d BY DEF Db
  <2> QED BY <2>1, <1>3, <1>6
<1>9. Process(p)'
  <2>1. s.pc \in {"settle", "settled"} BY <1>4
  <2>2. Owned(p)' BY <2>1 DEF Owned, Has, Grouping, s
  <2>3. Drafted(p)' BY <2>1 DEF Drafted, s
  <2>4. s.pc = "settle" =>
          \A e \in Db : /\ e < s.i => s.txids[e] = head'[e]
                        /\ e >= s.i => s.found[e].head = head'[e]
    <3>1. s.pc = "settle" => s.i = d + 1 BY <1>4
    <3>2. \A e \in Db : e < d + 1 => e < d \/ e = d BY <1>2 DEF Db
    <3>3. \A e \in Db : e >= d + 1 => e >= d /\ e # d BY <1>2 DEF Db
    <3> QED BY <1>3, <1>4, <1>6, <1>8, <3>1, <3>2, <3>3
  <2>5. s.pc = "settled" => s.i = 1 /\ \A e \in Db : s.txids[e] = head'[e]
    <3>1. s.pc = "settled" => s.i = 1 /\ d = NDBS BY <1>4
    <3>2. d = NDBS => \A e \in Db : e < d \/ e = d BY GroupConstants DEF Db
    <3> QED BY <1>4, <1>8, <3>1, <3>2
  <2>6. Resolving(p)' BY <1>1, <1>3, <1>4, <1>6, <2>1, <2>4, <2>5 DEF Resolving, Loops, s
  <2> QED BY <2>2, <2>3, <2>6 DEF Process
<1> QED BY <1>4, <1>6, <1>7, <1>9, Assemble DEF Keeps

\* txn_resolve_part, in the commit.
LEMMA ResolvePartKeeps ==
  ASSUME GroupInv, NEW p \in Proc, ResolvePart(p)
  PROVE  Keeps
<1> DEFINE r0 == proc[p]
           s == proc'[p]
           d == r0.i
           t == r0.txn
<1>1. /\ r0.pc = "resolve" /\ Step(p, r0, "explicit")
      /\ IF r0.txids[d] > handle[p][d].head
         THEN /\ head' = [head EXCEPT ![d] = r0.txids[d]]
              /\ handle' = [handle EXCEPT ![p][d].head = r0.txids[d]]
         ELSE head' = head /\ handle' = handle
      /\ fence' = fence /\ delta' = delta /\ status' = status /\ rows' = rows
      /\ next' = next /\ landed' = landed
  BY DEF ResolvePart
<1>2. r0 \in ProcRecord /\ d \in Db /\ r0.txids \in [Db -> Nat] BY ProcIs DEF GroupInv
<1>3. /\ Staging = {t} /\ r0.txids = rows[t]
      /\ \A e \in Db : e < d => r0.txids[e] = head[e]
  BY <1>1 DEF GroupInv, Process, Resolving
<1>4. /\ Others(p) /\ (d < NDBS \/ d = NDBS)
      /\ d < NDBS => s.i = d + 1 /\ s.pc = "resolve"
      /\ d = NDBS => s.i = 1 /\ s.pc = "explicit"
      /\ s.txn = t /\ s.txids = rows[t]
      /\ proc' \in [Proc -> ProcRecord]
  <2>1. "explicit" \in Where BY DEF Where
  <2> QED BY <1>1, <1>2, <1>3, <2>1, StepIs DEF Live
<1>5. \A e \in Db : Owns(p, e) /\ handle[p][e].head = head[e] /\ handle[p][e].mem = Page(e, rows[t][e])
  <2>1. Grouping(p) BY <1>1 DEF Grouping
  <2> QED BY <1>3, <2>1 DEF GroupInv, Process, Owned, Has
<1>6. \/ head' = head /\ rows[t][d] = head[d] /\ handle' = handle
      \/ /\ head' = [head EXCEPT ![d] = rows[t][d]] /\ rows[t][d] = head[d] + 1
         /\ handle' = [handle EXCEPT ![p][d].head = rows[t][d]]
  <2>1. handle[p][d].head = head[d] /\ head[d] \in Nat
    BY <1>2, <1>5 DEF GroupInv, GroupTypes
  <2>2. rows[t][d] = head[d] \/ rows[t][d] = head[d] + 1
    BY <1>2, <1>3 DEF GroupInv, Records, Intent
  <2> QED BY <1>1, <1>3, <2>1, <2>2
<1>7. rows[t][d] \in Nat BY <1>2, <1>3
<1> HIDE DEF t, s
<1>8. /\ head' \in [Db -> Nat] /\ head'[d] = rows[t][d]
      /\ \A e \in Db : e # d => head'[e] = head[e]
      /\ Staging' = Staging /\ Records' /\ Shown'
      /\ \A e \in Db : head'[e] >= head[e] /\ Holds(e)' = Holds(e)
  BY <1>1, <1>2, <1>3, <1>6, HeadMoves
<1>9. /\ handle' \in [Proc -> [Db -> HandleRecord]]
      /\ \A e \in Db : /\ handle'[p][e].fence = handle[p][e].fence /\ handle'[p][e].mem = handle[p][e].mem
                       /\ handle'[p][e].head = head'[e]
  <2>0. handle \in [Proc -> [Db -> HandleRecord]] BY DEF GroupInv, GroupTypes
  <2>1. CASE handle' = handle /\ head' = head BY <2>0, <2>1, <1>5
  <2>2. CASE handle' = [handle EXCEPT ![p][d].head = rows[t][d]]
    <3> DEFINE h0 == handle[p]
               h1 == h0[d]
               h2 == [h1 EXCEPT !.head = rows[t][d]]
               h3 == [h0 EXCEPT ![d] = h2]
               H == [Db -> HandleRecord]
    <3>1. h0 \in H /\ h1 \in HandleRecord BY <1>2, HandleIs DEF GroupInv
    <3>2. h2 \in HandleRecord /\ h2.fence = h1.fence /\ h2.mem = h1.mem /\ h2.head = rows[t][d]
      <4> HIDE DEF h1
      <4> QED BY <3>1, <1>7 DEF HandleRecord
    <3>3. handle' = [handle EXCEPT ![p] = h3] BY <2>2
    <3> HIDE DEF h1, h2
    <3>4. h3 \in H /\ h3[d] = h2 /\ \A e \in Db : e # d => h3[e] = h0[e] BY <1>2, <3>1, <3>2
    <3> HIDE DEF h3, H, h0
    <3>5. handle' \in [Proc -> H] /\ handle'[p] = h3 BY <2>0, <3>3, <3>4 DEF H
    <3> QED BY <3>2, <3>4, <3>5, <1>5, <1>8 DEF H, h0, h1
  <2> QED BY <2>1, <2>2, <1>6
<1>10. GroupTypes' BY <1>1, <1>4, <1>8, <1>9 DEF GroupInv, GroupTypes
<1>11. \A e \in Db : e < d \/ e = d => head'[e] = rows[t][e]
  <2>1. \A e \in Db : e < d => e # d BY DEF Db
  <2> QED BY <2>1, <1>3, <1>8
<1>12. Process(p)'
  <2>1. s.pc \in {"resolve", "explicit"} BY <1>4
  <2>2. Owned(p)'
    <3>1. Grouping(p)' BY <2>1 DEF Grouping, s
    <3> QED BY <1>1, <1>4, <1>5, <1>9, <3>1 DEF Owned, Owns, Page, s
  <2>3. Drafted(p)' BY <2>1 DEF Drafted, s
  <2>4. s.pc = "resolve" => \A e \in Db : e < s.i => s.txids[e] = head'[e]
    <3>1. s.pc = "resolve" => s.i = d + 1 BY <1>4
    <3>2. \A e \in Db : e < d + 1 => e < d \/ e = d BY <1>2 DEF Db
    <3> QED BY <1>4, <1>11, <3>1, <3>2
  <2>5. s.pc = "explicit" => s.i = 1 /\ \A e \in Db : s.txids[e] = head'[e]
    <3>1. s.pc = "explicit" => s.i = 1 /\ d = NDBS BY <1>4
    <3>2. d = NDBS => \A e \in Db : e < d \/ e = d BY GroupConstants DEF Db
    <3> QED BY <1>4, <1>11, <3>1, <3>2
  <2>6. Resolving(p)' BY <1>1, <1>3, <1>4, <1>8, <2>1, <2>4, <2>5 DEF Resolving, Loops, s
  <2> QED BY <2>2, <2>3, <2>6 DEF Process
<1> QED BY <1>4, <1>8, <1>10, <1>12, Assemble DEF Keeps

\* No record is left to resolve, and everybody sees what was seen.
LEMMA CleanStep ==
  ASSUME GroupInv, Staging' = {}, \A d \in Db : Visible(d)' = Visible(d),
         \A t \in Staging, d \in Db : rows[t][d] = head[d],
         landed' = landed, next' = next
  PROVE  Records' /\ Shown' /\ \A d \in Db : Holds(d)' = Holds(d)
<1>1. Records' BY DEF Records
<1>2. Shown' BY DEF GroupInv, Shown, OnlyLandedIsVisible
<1>3. \A d \in Db : {t \in Staging : rows[t][d] > head[d]} = {}
  <2>1. \A d \in Db : ~(head[d] > head[d]) BY DEF GroupInv, GroupTypes
  <2> QED BY <2>1
<1>4. \A d \in Db : {t \in Staging' : rows'[t][d] > head'[d]} = {} OBVIOUS
<1> QED BY <1>1, <1>2, <1>3, <1>4 DEF Holds

\* A status that says no longer staging.
LEMMA StatusEnds ==
  ASSUME GroupInv, NEW t, Staging \subseteq {t}, NEW x \in {"none", "committed"},
         status' = [status EXCEPT ![t] = x]
  PROVE  Staging' = {} /\ status' \in [Txn -> {"none", "staging", "committed", "aborted"}]
<1>1. status \in [Txn -> {"none", "staging", "committed", "aborted"}] BY DEF GroupInv, GroupTypes
<1>2. \A u \in Txn : status'[u] # "staging"
  <2>1. \A u \in Txn : u # t => status[u] # "staging" BY DEF Staging
  <2> QED BY <1>1, <2>1
<1> QED BY <1>1, <1>2 DEF Staging

\* set_status_body.
LEMMA SayOutcomeKeeps ==
  ASSUME GroupInv, NEW p \in Proc, SayOutcome(p)
  PROVE  Keeps
<1> DEFINE r0 == proc[p]
           t == r0.txn
           r == [r0 EXCEPT !.pc = "drop"]
<1>0. r0.pc = "settled"
  <2>1. r0.pc \in Where /\ r0.pc \in {"settled", "prevented"} BY ProcIs DEF GroupInv, SayOutcome
  <2> QED BY <2>1 DEF Where
<1>1. /\ status' = [status EXCEPT ![t] = "committed"] /\ proc' = [proc EXCEPT ![p] = r]
      /\ head' = head /\ fence' = fence /\ delta' = delta /\ rows' = rows
      /\ next' = next /\ handle' = handle /\ landed' = landed
  BY <1>0 DEF SayOutcome, Goto
<1>2. /\ r0.opening = 1 /\ r0.todo = {t} /\ Staging = {t} /\ r0.txids = rows[t] /\ r0.i = 1
      /\ \A e \in Db : r0.txids[e] = head[e]
  BY <1>0 DEF GroupInv, Process, Resolving, Loops
<1>3. r0 \in ProcRecord BY ProcIs DEF GroupInv
<1>4. r \in ProcRecord /\ r.pc = "drop" /\ r.opening = 1 /\ r.todo = {t} /\ r.txn = t /\ r.i = 1
  <2> HIDE DEF r0
  <2>1. "drop" \in Where BY DEF Where
  <2>2. r \in ProcRecord BY <1>3, <2>1, ProcFields, Zenon
  <2> QED BY <1>2, <1>3, <2>2, ProcShape
<1> HIDE DEF r
<1>5. Others(p) /\ proc'[p] = r BY <1>0, <1>1, Solo DEF Live
<1>6. Staging' = {} /\ status' \in [Txn -> {"none", "staging", "committed", "aborted"}]
  <2> HIDE DEF t
  <2> QED BY <1>1, <1>2, StatusEnds
<1>7. GroupTypes' BY <1>1, <1>4, <1>6 DEF GroupInv, GroupTypes
<1>8. \A d \in Db : Visible(d)' = Visible(d) BY <1>1 DEF Visible, Page
<1>9. Records' /\ Shown' /\ \A d \in Db : Holds(d)' = Holds(d) BY <1>1, <1>2, <1>6, <1>8, CleanStep
<1>10. Process(p)' BY <1>4, <1>5, <1>6 DEF Process, Owned, Has, Grouping, Drafted, Resolving, Loops
<1>11. \A d \in Db : head'[d] >= head[d] BY <1>1 DEF GroupInv, GroupTypes
<1> QED BY <1>5, <1>7, <1>9, <1>10, <1>11, Assemble DEF Keeps

\* set_status_body, in the commit.
LEMMA SayCommittedKeeps ==
  ASSUME GroupInv, NEW p \in Proc, SayCommitted(p)
  PROVE  Keeps
<1> DEFINE r0 == proc[p]
           t == r0.txn
           r == [r0 EXCEPT !.pc = "forget"]
<1>1. /\ r0.pc = "explicit"
      /\ status' = [status EXCEPT ![t] = "committed"] /\ proc' = [proc EXCEPT ![p] = r]
      /\ head' = head /\ fence' = fence /\ delta' = delta /\ rows' = rows
      /\ next' = next /\ handle' = handle /\ landed' = landed
  BY DEF SayCommitted, Goto
<1>2. /\ Staging = {t} /\ r0.txids = rows[t] /\ r0.i = 1
      /\ \A e \in Db : r0.txids[e] = head[e]
  BY <1>1 DEF GroupInv, Process, Resolving, Loops
<1>3. r0 \in ProcRecord BY ProcIs DEF GroupInv
<1>4. r \in ProcRecord /\ r.pc = "forget" /\ r.txids = r0.txids /\ r.txn = t /\ r.i = 1
  <2> HIDE DEF r0
  <2>1. "forget" \in Where BY DEF Where
  <2>2. r \in ProcRecord BY <1>3, <2>1, ProcFields, Zenon
  <2> QED BY <1>2, <1>3, <2>2, ProcShape
<1> HIDE DEF r
<1>5. Others(p) /\ proc'[p] = r BY <1>1, Solo DEF Live
<1>6. Staging' = {} /\ status' \in [Txn -> {"none", "staging", "committed", "aborted"}]
  <2> HIDE DEF t
  <2> QED BY <1>1, <1>2, StatusEnds
<1>7. GroupTypes' BY <1>1, <1>4, <1>6 DEF GroupInv, GroupTypes
<1>8. \A d \in Db : Visible(d)' = Visible(d) BY <1>1 DEF Visible, Page
<1>9. Records' /\ Shown' /\ \A d \in Db : Holds(d)' = Holds(d) BY <1>1, <1>2, <1>6, <1>8, CleanStep
<1>10. Process(p)'
  <2>1. Owned(p)'
    <3>1. Grouping(p) /\ Grouping(p)' BY <1>1, <1>4, <1>5 DEF Grouping
    <3> QED BY <1>1, <1>4, <1>5, <3>1 DEF GroupInv, Process, Owned, Has, Owns, Page
  <2>2. Resolving(p)' BY <1>1, <1>2, <1>4, <1>5, <1>6 DEF Resolving, Loops
  <2> QED BY <1>4, <1>5, <2>1, <2>2 DEF Process, Drafted
<1>11. \A d \in Db : head'[d] >= head[d] BY <1>1 DEF GroupInv, GroupTypes
<1> QED BY <1>5, <1>7, <1>9, <1>10, <1>11, Assemble DEF Keeps

\* drop_record_body, whoever calls it once the record is resolved.
LEMMA DroppedIs ==
  ASSUME GroupInv, Staging = {}, NEW t, Dropped(t), landed' = landed
  PROVE  /\ Staging' = {} /\ status' \in [Txn -> {"none", "staging", "committed", "aborted"}]
         /\ rows' \in [Txn -> [Db -> Nat]]
         /\ head' = head /\ fence' = fence /\ delta' = delta /\ next' = next
         /\ Records' /\ Shown' /\ \A d \in Db : head'[d] >= head[d] /\ Holds(d)' = Holds(d)
<1>1. /\ status' = [status EXCEPT ![t] = "none"] /\ rows' = [rows EXCEPT ![t] = NoRows]
      /\ head' = head /\ fence' = fence /\ delta' = delta /\ next' = next
  BY DEF Dropped
<1>2. Staging' = {} /\ status' \in [Txn -> {"none", "staging", "committed", "aborted"}]
  BY <1>1, StatusEnds
<1>3. rows' \in [Txn -> [Db -> Nat]]
  <2> DEFINE N == [Db -> Nat]
  <2>1. rows \in [Txn -> N] /\ NoRows \in N BY DownIs DEF GroupInv, GroupTypes
  <2> HIDE DEF N
  <2>2. rows' \in [Txn -> N] BY <1>1, <2>1
  <2> QED BY <2>2 DEF N
<1>4. \A d \in Db : Visible(d)' = Visible(d) BY <1>1 DEF Visible, Page
<1>5. Records' /\ Shown' /\ \A d \in Db : Holds(d)' = Holds(d) BY <1>1, <1>2, <1>4, CleanStep
<1>6. \A d \in Db : head'[d] >= head[d] BY <1>1 DEF GroupInv, GroupTypes
<1> QED BY <1>1, <1>2, <1>3, <1>5, <1>6

\* The record goes, and there is no other.
LEMMA DropRecordKeeps ==
  ASSUME GroupInv, NEW p \in Proc, DropRecord(p)
  PROVE  Keeps
<1> DEFINE r0 == proc[p]
           t == r0.txn
           a == r0.again
           w == IF a THEN "sweep" ELSE "open"
<1>1. /\ r0.pc = "drop" /\ Dropped(t) /\ handle' = handle /\ landed' = landed
  BY DEF DropRecord
<1>2. r0.opening = 1 /\ r0.todo = {t} /\ Staging = {}
  BY <1>1 DEF GroupInv, Process, Resolving
<1>3. proc' = [proc EXCEPT ![p] = [Down EXCEPT !.pc = w, !.opening = 1, !.todo = {}, !.again = a]]
  <2>1. r0.todo \ {t} = {} BY <1>2
  <2> QED BY <1>2, <2>1 DEF DropRecord
<1>4. a \in BOOLEAN /\ w \in Where BY ProcIs DEF GroupInv, Where
<1> HIDE DEF a
<1> DEFINE r1 == [Down EXCEPT !.pc = w]
           r2 == [r1 EXCEPT !.opening = 1]
           r3 == [r2 EXCEPT !.todo = {}]
           r == [r3 EXCEPT !.again = a]
<1>5. proc' = [proc EXCEPT ![p] = r]
  <2> HIDE DEF w
  <2> QED BY <1>3, DownIs, ProcShape
<1>6. r1 \in ProcRecord /\ r1.pc = w /\ r1.i = 1
  <2> HIDE DEF w
  <2>1. r1 \in ProcRecord BY <1>4, DownIs, ProcFields, Zenon
  <2> QED BY <2>1, DownIs, ProcShape
<1>7. r2 \in ProcRecord /\ r2.pc = w /\ r2.i = 1 /\ r2.opening = 1
  <2> HIDE DEF w, r1
  <2>0. 1 \in Db BY DownIs
  <2>1. r2 \in ProcRecord BY <1>6, <2>0, ProcFields, Zenon
  <2> QED BY <1>6, <2>1, ProcShape
<1>8. r3 \in ProcRecord /\ r3.pc = w /\ r3.i = 1 /\ r3.opening = 1
  <2> HIDE DEF w, r2
  <2>0. {} \in SUBSET Txn OBVIOUS
  <2>1. r3 \in ProcRecord BY <1>7, <2>0, ProcFields, Zenon
  <2> QED BY <1>7, <2>1, ProcShape
<1>9. r \in ProcRecord /\ r.pc = w /\ r.i = 1 /\ r.opening = 1
  <2> HIDE DEF w, r3
  <2>1. r \in ProcRecord BY <1>8, <1>4, ProcFields, Zenon
  <2> QED BY <1>8, <2>1, ProcShape
<1> HIDE DEF r
<1>10. Others(p) /\ proc'[p] = r BY <1>1, <1>5, Solo DEF Live
<1>11. /\ Staging' = {} /\ status' \in [Txn -> {"none", "staging", "committed", "aborted"}]
       /\ rows' \in [Txn -> [Db -> Nat]]
       /\ head' = head /\ fence' = fence /\ delta' = delta /\ next' = next
       /\ Records' /\ Shown' /\ \A d \in Db : head'[d] >= head[d] /\ Holds(d)' = Holds(d)
  <2> HIDE DEF t
  <2> QED BY <1>1, <1>2, DroppedIs
<1>12. GroupTypes' BY <1>1, <1>5, <1>9, <1>11 DEF GroupInv, GroupTypes
<1>13. Process(p)'
  <2>1. \A d \in Db : ~(d < 1) BY DEF Db
  <2>2. w \in {"sweep", "open"} OBVIOUS
  <2> HIDE DEF w
  <2> QED BY <1>9, <1>10, <1>11, <2>1, <2>2
          DEF Process, Owned, Has, Grouping, Drafted, Resolving, Loops
<1> QED BY <1>10, <1>11, <1>12, <1>13, Assemble DEF Keeps

\* The process is done with a group, or with opening: it goes back to idle.
LEMMA IdleIs ==
  LET r == [Down EXCEPT !.pc = "idle"]
  IN  r \in ProcRecord /\ r.pc = "idle" /\ r.i = 1
<1> DEFINE r == [Down EXCEPT !.pc = "idle"]
<1>1. "idle" \in Where BY DEF Where
<1>2. r \in ProcRecord BY <1>1, DownIs, ProcFields, Zenon
<1>3. r.pc = "idle" /\ r.i = 1 BY <1>2, DownIs, ProcShape
<1> QED BY <1>2, <1>3

\* drop_record_body, in the commit.
LEMMA ForgetRecordKeeps ==
  ASSUME GroupInv, NEW p \in Proc, ForgetRecord(p)
  PROVE  Keeps
<1> DEFINE r0 == proc[p]
           t == r0.txn
           r == [Down EXCEPT !.pc = "idle"]
<1>1. /\ r0.pc = "forget" /\ Dropped(t) /\ handle' = handle /\ landed' = landed
      /\ proc' = [proc EXCEPT ![p] = r]
  BY DEF ForgetRecord
<1>2. Staging = {} /\ \A e \in Db : r0.txids[e] = head[e]
  BY <1>1 DEF GroupInv, Process, Resolving
<1>3. r \in ProcRecord /\ r.pc = "idle" /\ r.i = 1 BY IdleIs
<1> HIDE DEF r
<1>4. Others(p) /\ proc'[p] = r BY <1>1, Solo DEF Live
<1>5. /\ Staging' = {} /\ status' \in [Txn -> {"none", "staging", "committed", "aborted"}]
      /\ rows' \in [Txn -> [Db -> Nat]]
      /\ head' = head /\ fence' = fence /\ delta' = delta /\ next' = next
      /\ Records' /\ Shown' /\ \A d \in Db : head'[d] >= head[d] /\ Holds(d)' = Holds(d)
  <2> HIDE DEF t
  <2> QED BY <1>1, <1>2, DroppedIs
<1>6. GroupTypes' BY <1>1, <1>3, <1>5 DEF GroupInv, GroupTypes
<1>7. Process(p)'
  <2>1. Owned(p)'
    <3>1. Grouping(p) /\ ~Grouping(p)' BY <1>1, <1>3, <1>4 DEF Grouping
    <3>2. \A d \in Db : /\ Owns(p, d) /\ handle[p][d].head = head[d]
                        /\ handle[p][d].mem = Page(d, head[d])
      BY <1>2, <3>1 DEF GroupInv, Process, Owned, Has
    <3> QED BY <1>1, <1>5, <3>1, <3>2 DEF Owned, Owns, Page
  <2> QED BY <1>3, <1>4, <1>5, <2>1 DEF Process, Drafted, Resolving, Loops
<1> QED BY <1>4, <1>5, <1>6, <1>7, Assemble DEF Keeps

\* open_body: what is above the head goes, and the database is the process's.
LEMMA OpenKeeps ==
  ASSUME GroupInv, NEW p \in Proc, Open(p)
  PROVE  Keeps
<1> DEFINE r0 == proc[p]
           d == r0.opening
           f == fence[d] + 1
           D == DOMAIN delta[d]
           hr == [fence |-> f, head |-> head[d], mem |-> Visible(d)]
           r == IF d < NDBS THEN [Down EXCEPT !.pc = "sweep", !.opening = d + 1]
                ELSE [Down EXCEPT !.pc = "idle"]
<1>1. /\ r0.pc = "open" /\ fence' = [fence EXCEPT ![d] = f]
      /\ delta' = [delta EXCEPT ![d] = Clear(delta[d], {t \in D : t > head[d]})]
      /\ handle' = [handle EXCEPT ![p][d] = hr] /\ proc' = [proc EXCEPT ![p] = r]
      /\ head' = head /\ status' = status /\ rows' = rows /\ next' = next /\ landed' = landed
  BY DEF Open, RaisedFence, LoadHead
<1>2. r0 \in ProcRecord /\ d \in Db BY ProcIs DEF GroupInv
<1>3. d \in Nat /\ (d < NDBS => d + 1 \in Db) /\ (~(d < NDBS) => d = NDBS)
  BY <1>2, GroupConstants DEF Db
<1>4. head[d] \in Nat /\ fence \in [Db -> Nat] /\ f \in Nat BY <1>2 DEF GroupInv, GroupTypes
<1>5. Staging = {} BY <1>1 DEF GroupInv, Process, Resolving
<1>6. /\ r \in ProcRecord /\ r.i = 1
      /\ d < NDBS => r.pc = "sweep" /\ r.opening = d + 1
      /\ ~(d < NDBS) => r.pc = "idle"
  <2>1. CASE d < NDBS
    <3> HIDE DEF d
    <3> DEFINE r1 == [Down EXCEPT !.pc = "sweep"]
               r2 == [r1 EXCEPT !.opening = d + 1]
    <3>1. r = r2 BY <2>1, DownIs, ProcShape
    <3>2. "sweep" \in Where BY DEF Where
    <3>3. r1 \in ProcRecord BY <3>2, DownIs, ProcFields, Zenon
    <3>4. r1.pc = "sweep" /\ r1.i = 1 BY DownIs, ProcShape
    <3> HIDE DEF r1
    <3>5. r2 \in ProcRecord BY <1>3, <2>1, <3>3, ProcFields
    <3>6. r2.pc = "sweep" /\ r2.i = 1 /\ r2.opening = d + 1 BY <3>3, <3>4, ProcShape
    <3> HIDE DEF r2, r
    <3> QED BY <2>1, <3>1, <3>5, <3>6
  <2>2. CASE ~(d < NDBS) BY <2>2, IdleIs
  <2> QED BY <2>1, <2>2
<1> HIDE DEF r
<1>7. Others(p) /\ proc'[p] = r BY <1>1, Solo DEF Live
<1>8. /\ \A e \in Db : Visible(e)' = Visible(e)
      /\ delta' = [e \in Db |-> delta'[e]]
  <2>1. delta = [e \in Db |-> delta[e]] BY DEF GroupInv, GroupTypes
  <2> DEFINE c == Clear(delta[d], {t \in D : t > head[d]})
  <2>2. /\ DOMAIN c = {t \in D : ~(t > head[d])} /\ \A t \in DOMAIN c : c[t] = delta[d][t]
    BY DEF Clear
  <2>3. head[d] \in DOMAIN c <=> head[d] \in D BY <2>2, <1>4
  <2> HIDE DEF c
  <2>4. delta' = [e \in Db |-> IF e = d THEN c ELSE delta[e]] BY <1>1, <1>2, <2>1 DEF c
  <2>5. delta'[d] = c /\ \A e \in Db : e # d => delta'[e] = delta[e] BY <1>2, <2>4
  <2>6. \A e \in Db : e = d => Visible(e)' = Visible(e) BY <1>1, <2>2, <2>3, <2>5 DEF Visible, Page
  <2>7. \A e \in Db : e # d => Visible(e)' = Visible(e) BY <1>1, <2>5 DEF Visible, Page
  <2> QED BY <2>4, <2>6, <2>7
<1>9. /\ handle' \in [Proc -> [Db -> HandleRecord]] /\ handle'[p][d] = hr
      /\ \A e \in Db : e # d => handle'[p][e] = handle[p][e]
  <2> DEFINE h0 == handle[p]
             h3 == [h0 EXCEPT ![d] = hr]
             H == [Db -> HandleRecord]
  <2>1. handle \in [Proc -> H] /\ h0 \in H BY HandleIs, <1>2 DEF GroupInv, GroupTypes
  <2>2. hr \in HandleRecord
    <3>1. Visible(d) \in SUBSET Txn
      BY <1>2 DEF GroupInv, GroupTypes, Shown, OnlyLandedIsVisible
    <3> QED BY <1>4, <3>1 DEF HandleRecord
  <2>3. handle' = [handle EXCEPT ![p] = h3] BY <1>1
  <2> HIDE DEF hr
  <2>4. h3 \in H /\ h3[d] = hr /\ \A e \in Db : e # d => h3[e] = h0[e] BY <1>2, <2>1, <2>2
  <2> HIDE DEF h3, H, h0
  <2>5. handle' \in [Proc -> H] /\ handle'[p] = h3 BY <2>1, <2>3, <2>4
  <2> QED BY <2>4, <2>5 DEF H, h0
<1>10. fence' \in [Db -> Nat] /\ fence'[d] = f /\ \A e \in Db : e # d => fence'[e] = fence[e]
  <2> HIDE DEF f
  <2> QED BY <1>1, <1>2, <1>4
<1>11. Staging' = {} BY <1>1, <1>5 DEF Staging
<1>12. GroupTypes' BY <1>1, <1>6, <1>8, <1>9, <1>10 DEF GroupInv, GroupTypes
<1>13. Records' /\ Shown' /\ \A e \in Db : Holds(e)' = Holds(e)
  BY <1>1, <1>5, <1>8, <1>11, CleanStep
<1>14. Process(p)'
  <2>1. r.pc \in {"sweep", "idle"} BY <1>6
  <2>2. Drafted(p)' /\ Resolving(p)' BY <1>6, <1>7, <1>11, <2>1 DEF Drafted, Resolving, Loops
  <2>3. ASSUME NEW e \in Db, Has(p, e)' PROVE e < d \/ e = d
    <3>1. CASE d < NDBS
      <4>1. e < d + 1 BY <3>1, <2>3, <1>6, <1>7 DEF Has, Grouping
      <4> QED BY <4>1, <1>3 DEF Db
    <3>2. CASE ~(d < NDBS)
      <4>1. d = NDBS BY <3>2, <1>3
      <4> QED BY <4>1, GroupConstants DEF Db
    <3> QED BY <3>1, <3>2
  <2>4. ~Grouping(p)' /\ ~Grouping(p) BY <1>1, <1>7, <2>1 DEF Grouping
  <2>5. \A e \in Db : e < d =>
          /\ handle[p][e].fence = fence[e] /\ handle[p][e].head = head[e] /\ handle[p][e].mem = Visible(e)
    BY <1>1, <2>4 DEF GroupInv, Process, Owned, Has, Owns, Visible
  <2>6. \A e \in Db : e < d => e # d BY <1>3 DEF Db
  <2>7. hr.fence = f /\ hr.head = head[d] /\ hr.mem = Visible(d) OBVIOUS
  <2> HIDE DEF hr, f
  <2>8. ASSUME NEW e \in Db, Has(p, e)'
        PROVE  /\ handle'[p][e].fence = fence'[e] /\ handle'[p][e].head = head'[e]
               /\ handle'[p][e].mem = Visible(e)'
    <3>1. CASE e < d BY <3>1, <2>5, <2>6, <1>1, <1>8, <1>9, <1>10
    <3>2. CASE e = d BY <3>2, <2>7, <1>1, <1>8, <1>9, <1>10
    <3> QED BY <3>1, <3>2, <2>3, <2>8
  <2>9. Owned(p)' BY <2>4, <2>8 DEF Owned, Owns, Visible
  <2> QED BY <2>2, <2>9 DEF Process
<1>15. \A e \in Db : head'[e] >= head[e] BY <1>1 DEF GroupInv, GroupTypes
<1> QED BY <1>7, <1>12, <1>13, <1>14, <1>15, Assemble DEF Keeps

\* A page is put above the head of one database.
LEMMA PutIs ==
  ASSUME GroupInv, NEW d \in Db, NEW c, delta' = [delta EXCEPT ![d] = Put(delta[d], head[d] + 1, c)]
  PROVE  /\ delta' = [e \in Db |-> delta'[e]] /\ \A e \in Db : e # d => delta'[e] = delta[e]
         /\ head[d] + 1 \in DOMAIN delta'[d]
         /\ \A x : x = head[d] + 1 => Page(d, x)' = c
         /\ \A x : x = head[d] => Page(d, x)' = Visible(d)
<1> DEFINE t == head[d] + 1
           f == Put(delta[d], t, c)
<1>1. delta = [e \in Db |-> delta[e]] BY DEF GroupInv, GroupTypes
<1>2. head[d] \in Nat /\ head[d] # t BY DEF GroupInv, GroupTypes
<1> HIDE DEF t
<1>3. /\ DOMAIN f = DOMAIN delta[d] \cup {t} /\ f[t] = c
      /\ \A x \in DOMAIN delta[d] : x # t => f[x] = delta[d][x]
  BY DEF Put
<1> HIDE DEF f
<1>4. delta' = [e \in Db |-> IF e = d THEN f ELSE delta[e]] BY <1>1 DEF f, t
<1>5. delta'[d] = f /\ \A e \in Db : e # d => delta'[e] = delta[e] BY <1>4
<1>6. \A x : x = t => Page(d, x)' = c BY <1>3, <1>5 DEF Page
<1>7. \A x : x = head[d] => Page(d, x)' = Visible(d) BY <1>2, <1>3, <1>5 DEF Page, Visible
<1> QED BY <1>3, <1>4, <1>5, <1>6, <1>7 DEF t

\* One handle of a process is written.
LEMMA HandlePut ==
  ASSUME GroupInv, NEW p \in Proc, NEW d \in Db, NEW h \in HandleRecord,
         handle' = [handle EXCEPT ![p][d] = h]
  PROVE  /\ handle' \in [Proc -> [Db -> HandleRecord]] /\ handle'[p][d] = h
         /\ \A e \in Db : e # d => handle'[p][e] = handle[p][e]
<1> DEFINE h0 == handle[p]
           h3 == [h0 EXCEPT ![d] = h]
           H == [Db -> HandleRecord]
<1>1. handle \in [Proc -> H] /\ h0 \in H BY HandleIs DEF GroupInv, GroupTypes
<1>2. handle' = [handle EXCEPT ![p] = h3] OBVIOUS
<1>3. h3 \in H /\ h3[d] = h /\ \A e \in Db : e # d => h3[e] = h0[e] BY <1>1
<1> HIDE DEF h3, H, h0
<1>4. handle' \in [Proc -> H] /\ handle'[p] = h3 BY <1>1, <1>2, <1>3
<1> QED BY <1>3, <1>4 DEF H, h0

\* txn_stage_here, in the database the process is at.
LEMMA StageAt ==
  ASSUME GroupInv, NEW p \in Proc, NEW d, d = proc[p].i, Stage(p)
  PROVE  Keeps
<1> DEFINE r0 == proc[p]
           s == proc'[p]
           t == head[d] + 1
           c == Visible(d) \cup {r0.txn}
           h1 == handle[p][d]
           h2 == [h1 EXCEPT !.mem = c]
           X == [r0.txids EXCEPT ![d] = t]
           r == [r0 EXCEPT !.txids = X]
<1>1. /\ r0.pc = "stage" /\ d \in r0.writes
      /\ head' = head /\ fence' = fence /\ status' = status /\ rows' = rows
      /\ next' = next /\ landed' = landed
  BY DEF Stage
<1>2. r0 \in ProcRecord /\ d \in Db /\ r0.txids \in [Db -> Nat] BY ProcIs DEF GroupInv
<1>3. /\ Grouping(p) /\ Staging = {}
      /\ \A e \in Db : Owns(p, e) /\ handle[p][e].head = head[e] /\ handle[p][e].mem = Page(e, r0.txids[e])
  <2>1. Grouping(p) BY <1>1 DEF Grouping
  <2> QED BY <1>1, <2>1 DEF GroupInv, Process, Owned, Has, Resolving
<1>4. head \in [Db -> Nat] /\ head[d] \in Nat /\ t \in Nat /\ t # head[d] BY <1>2 DEF GroupInv, GroupTypes
<1>5. /\ r0.writes # {} /\ r0.txn = next /\ r0.txn \in Txn \ landed
      /\ \A e \in Db :
           \/ /\ Done(p, e) /\ r0.txids[e] = head[e] + 1 /\ head[e] + 1 \in DOMAIN delta[e]
              /\ Page(e, head[e] + 1) = Visible(e) \cup {r0.txn}
           \/ ~Done(p, e) /\ r0.txids[e] = head[e]
  BY <1>1 DEF GroupInv, Process, Drafted
<1>6. r0.txids[d] = head[d] /\ handle[p][d].mem = Visible(d)
  <2>1. ~(d < d) BY <1>2 DEF Db
  <2>2. ~Done(p, d) BY <1>1, <2>1 DEF Done
  <2> QED BY <1>2, <1>3, <1>5, <2>2 DEF Visible
<1>7. /\ delta' = [delta EXCEPT ![d] = Put(delta[d], t, c)]
      /\ handle' = [handle EXCEPT ![p][d] = h2]
      /\ Step(p, r, "record")
  <2>1. handle[p][d].head + 1 = t /\ Staged(p, d) = c BY <1>2, <1>3, <1>6 DEF Staged
  <2>2. /\ delta' = [delta EXCEPT ![d] = Put(delta[d], handle[p][d].head + 1, Staged(p, d))]
        /\ handle' = [handle EXCEPT ![p][d].mem = Staged(p, d)]
        /\ Step(p, [proc[p] EXCEPT !.txids[d] = handle[p][d].head + 1], "record")
    BY DEF Stage
  <2> HIDE DEF t, c
  <2> QED BY <2>1, <2>2
<1>8. /\ delta' = [e \in Db |-> delta'[e]] /\ \A e \in Db : e # d => delta'[e] = delta[e]
      /\ t \in DOMAIN delta'[d]
      /\ \A x : x = t => Page(d, x)' = c
      /\ \A x : x = head[d] => Page(d, x)' = Visible(d)
  <2> HIDE DEF c
  <2> QED BY <1>2, <1>7, PutIs
<1>9. h2 \in HandleRecord /\ h2.fence = h1.fence /\ h2.head = h1.head /\ h2.mem = c
  <2>1. c \in SUBSET Txn /\ h1 \in HandleRecord
    BY <1>2, <1>5, HandleIs DEF GroupInv, GroupTypes, Shown, OnlyLandedIsVisible
  <2> HIDE DEF c, h1
  <2> QED BY <2>1 DEF HandleRecord
<1>10. /\ handle' \in [Proc -> [Db -> HandleRecord]] /\ handle'[p][d] = h2
       /\ \A e \in Db : e # d => handle'[p][e] = handle[p][e]
  <2> HIDE DEF h2
  <2> QED BY <1>2, <1>7, <1>9, HandlePut, ZenonT(30)
<1>11. /\ r \in ProcRecord /\ r.pc = "stage" /\ r.i = d /\ r.txn = r0.txn /\ r.writes = r0.writes
       /\ r.txids = X /\ X[d] = t /\ \A e \in Db : e # d => X[e] = r0.txids[e]
  <2>1. X \in [Db -> Nat] /\ X[d] = t /\ \A e \in Db : e # d => X[e] = r0.txids[e] BY <1>2, <1>4
  <2> HIDE DEF X
  <2>2. r \in ProcRecord
    <3> HIDE DEF r0
    <3> QED BY <1>2, <2>1, ProcFields, Zenon
  <2>3. r.pc = "stage" /\ r.i = d /\ r.txn = r0.txn /\ r.writes = r0.writes /\ r.txids = X
    BY <1>1, <1>2, ProcShape
  <2> QED BY <2>1, <2>2, <2>3
<1> HIDE DEF r, X, h2, h1, c
<1>12. /\ Others(p) /\ (d < NDBS \/ d = NDBS)
       /\ d < NDBS => s.i = d + 1 /\ s.pc = "stage"
       /\ d = NDBS => s.i = 1 /\ s.pc = "record"
       /\ s.txn = r0.txn /\ s.writes = r0.writes /\ s.txids = X
       /\ proc' \in [Proc -> ProcRecord]
  <2>1. "record" \in Where BY DEF Where
  <2> QED BY <1>1, <1>7, <1>11, <2>1, StepIs DEF Live
<1>13. GroupTypes' BY <1>1, <1>8, <1>10, <1>12 DEF GroupInv, GroupTypes
<1>14. Staging' = {} BY <1>1, <1>3 DEF Staging
<1>15. \A e \in Db : Visible(e)' = Visible(e)
  <2>1. Visible(d)' = Visible(d) BY <1>1, <1>8 DEF Visible
  <2>2. \A e \in Db : e # d => Visible(e)' = Visible(e) BY <1>1, <1>8 DEF Visible, Page
  <2> QED BY <2>1, <2>2
<1>16. Records' /\ Shown' /\ \A e \in Db : Holds(e)' = Holds(e)
  BY <1>1, <1>3, <1>14, <1>15, CleanStep
<1>17. \A e \in Db : Done(p, e)' <=> Done(p, e) \/ e = d
  <2>1. CASE d < NDBS
    <3>1. \A e \in Db : e < d + 1 <=> e < d \/ e = d BY <1>2 DEF Db
    <3> QED BY <2>1, <3>1, <1>1, <1>12 DEF Done
  <2>2. CASE d = NDBS
    <3>1. \A e \in Db : e < d \/ e = d BY <2>2, GroupConstants DEF Db
    <3> QED BY <2>2, <3>1, <1>1, <1>12 DEF Done
  <2> QED BY <2>1, <2>2, <1>12
<1>18. Process(p)'
  <2>1. s.pc \in {"stage", "record"} BY <1>12
  <2>2. Owned(p)'
    <3>1. Grouping(p)' BY <2>1 DEF Grouping
    <3>2. handle'[p][d].fence = fence'[d] /\ handle'[p][d].head = head'[d]
      BY <1>1, <1>2, <1>3, <1>9, <1>10 DEF Owns, h1
    <3>3. \A x : x = s.txids[d] => handle'[p][d].mem = Page(d, x)'
      BY <1>8, <1>9, <1>10, <1>11, <1>12
    <3>4. \A e \in Db : e # d => /\ handle'[p][e].fence = fence'[e] /\ handle'[p][e].head = head'[e]
                                 /\ handle'[p][e].mem = Page(e, r0.txids[e]) /\ s.txids[e] = r0.txids[e]
      BY <1>1, <1>3, <1>10, <1>11, <1>12 DEF Owns
    <3>5. \A e \in Db : e # d => \A x : Page(e, x)' = Page(e, x) BY <1>8 DEF Page
    <3>6. \A e \in Db : \A x : x = s.txids[e] => handle'[p][e].mem = Page(e, x)'
      BY <3>3, <3>4, <3>5
    <3> QED BY <3>1, <3>2, <3>4, <3>6 DEF Owned, Owns
  <2>3. Drafted(p)'
    <3>1. /\ Done(p, d)' /\ s.txids[d] = head[d] + 1 /\ head[d] + 1 \in DOMAIN delta'[d]
          /\ \A x : x = head[d] + 1 => Page(d, x)' = Visible(d) \cup {r0.txn}
      BY <1>2, <1>8, <1>11, <1>12, <1>17 DEF c
    <3>2. \A e \in Db : e # d =>
            \/ /\ Done(p, e)' /\ s.txids[e] = head[e] + 1 /\ head[e] + 1 \in DOMAIN delta'[e]
               /\ \A x : x = head[e] + 1 => Page(e, x)' = Visible(e) \cup {r0.txn}
            \/ ~Done(p, e)' /\ s.txids[e] = head[e]
      <4>1. \A e \in Db : e # d => \A x : Page(e, x)' = Page(e, x) BY <1>8 DEF Page
      <4> QED BY <4>1, <1>5, <1>8, <1>11, <1>12, <1>17
    <3>3. ASSUME NEW e \in Db
          PROVE  \/ /\ Done(p, e)' /\ s.txids[e] = head[e] + 1 /\ head[e] + 1 \in DOMAIN delta'[e]
                    /\ \A x : x = head[e] + 1 => Page(e, x)' = Visible(e) \cup {r0.txn}
                 \/ ~Done(p, e)' /\ s.txids[e] = head[e]
      BY <3>1, <3>2
    <3>4. \A e \in Db :
           \/ /\ Done(p, e)' /\ s.txids[e] = head'[e] + 1 /\ head'[e] + 1 \in DOMAIN delta'[e]
              /\ Page(e, head[e] + 1)' = Visible(e)' \cup {s.txn}
           \/ ~Done(p, e)' /\ s.txids[e] = head'[e]
      BY <1>1, <1>12, <1>15, <3>3
    <3> QED BY <1>1, <1>5, <1>12, <3>4 DEF Drafted
  <2>4. Resolving(p)' BY <1>12, <1>14, <2>1 DEF Resolving, Loops
  <2> QED BY <2>2, <2>3, <2>4 DEF Process
<1>19. \A e \in Db : head'[e] >= head[e] BY <1>1 DEF GroupInv, GroupTypes
<1> QED BY <1>12, <1>13, <1>16, <1>18, <1>19, Assemble DEF Keeps

\* commit_body, in a file of no group: the page moves up with the head.
Flushed(p, d) ==
  /\ delta' = [delta EXCEPT ![d] = Put(delta[d], handle[p][d].head + 1, handle[p][d].mem)]
  /\ head' = [head EXCEPT ![d] = handle[p][d].head + 1]
  /\ handle' = [handle EXCEPT ![p][d].head = handle[p][d].head + 1]
  /\ UNCHANGED << fence, status, rows, next, proc, landed >>

\* What a flush of a database leaves is what was there, one txid up.
LEMMA FlushAt ==
  ASSUME GroupInv, NEW p \in Proc, proc[p].pc = "idle", NEW d \in Db, Flushed(p, d)
  PROVE  Keeps
<1> DEFINE t == head[d] + 1
           c == Visible(d)
           h1 == handle[p][d]
           h2 == [h1 EXCEPT !.head = t]
<1>0. /\ fence' = fence /\ status' = status /\ rows' = rows /\ next' = next
      /\ proc' = proc /\ landed' = landed
  BY DEF Flushed
<1>1. /\ Staging = {} /\ ~Grouping(p) /\ ~Grouping(p)'
      /\ \A e \in Db : Owns(p, e) /\ handle[p][e].head = head[e] /\ handle[p][e].mem = Visible(e)
  BY <1>0 DEF GroupInv, Process, Resolving, Owned, Has, Grouping, Visible
<1>2. head \in [Db -> Nat] /\ head[d] \in Nat /\ t \in Nat /\ t >= head[d] BY DEF GroupInv, GroupTypes
<1>3. /\ delta' = [delta EXCEPT ![d] = Put(delta[d], t, c)] /\ head' = [head EXCEPT ![d] = t]
      /\ handle' = [handle EXCEPT ![p][d] = h2]
  <2>1. handle[p][d].head + 1 = t /\ handle[p][d].mem = c BY <1>1
  <2> HIDE DEF t, c
  <2> QED BY <2>1 DEF Flushed
<1>4. /\ delta' = [e \in Db |-> delta'[e]] /\ \A e \in Db : e # d => delta'[e] = delta[e]
      /\ \A x : x = t => Page(d, x)' = c
  <2> HIDE DEF c
  <2> QED BY <1>3, PutIs
<1>5. h2 \in HandleRecord /\ h2.fence = h1.fence /\ h2.head = t /\ h2.mem = h1.mem
  <2>1. h1 \in HandleRecord BY HandleIs DEF GroupInv
  <2> HIDE DEF h1, t
  <2> QED BY <2>1, <1>2 DEF HandleRecord
<1>6. /\ handle' \in [Proc -> [Db -> HandleRecord]] /\ handle'[p][d] = h2
      /\ \A e \in Db : e # d => handle'[p][e] = handle[p][e]
  <2> HIDE DEF h2
  <2> QED BY <1>3, <1>5, HandlePut
<1> HIDE DEF t, h2
<1>7. head' \in [Db -> Nat] /\ head'[d] = t /\ \A e \in Db : e # d => head'[e] = head[e] BY <1>2, <1>3
<1>8. \A e \in Db : Visible(e)' = Visible(e)
  <2>1. Visible(d)' = Visible(d) BY <1>4, <1>7 DEF Visible
  <2>2. \A e \in Db : e # d => Visible(e)' = Visible(e) BY <1>4, <1>7 DEF Visible, Page
  <2> QED BY <2>1, <2>2
<1>9. Staging' = {} BY <1>0, <1>1 DEF Staging
<1>10. Records' /\ Shown' /\ \A e \in Db : Holds(e)' = Holds(e) BY <1>0, <1>1, <1>8, <1>9, CleanStep
<1>11. GroupTypes' BY <1>0, <1>4, <1>6, <1>7 DEF GroupInv, GroupTypes
<1>12. Others(p) BY <1>0 DEF GroupInv, Alone, Live, Others
<1>13. Process(p)'
  <2>1. \A e \in Db : handle'[p][e].fence = fence'[e] /\ handle'[p][e].head = head'[e]
                      /\ handle'[p][e].mem = Visible(e)'
    BY <1>0, <1>1, <1>5, <1>6, <1>7, <1>8 DEF Owns, h1
  <2>2. Owned(p)' BY <1>1, <2>1 DEF Owned, Owns, Visible
  <2>3. proc[p].i = 1 BY DEF GroupInv, Process, Resolving, Loops
  <2> QED BY <1>0, <1>9, <2>2, <2>3 DEF Process, Drafted, Resolving, Loops
<1>14. \A e \in Db : head'[e] >= head[e] BY <1>2, <1>7 DEF GroupInv, GroupTypes
<1> QED BY <1>10, <1>11, <1>12, <1>13, <1>14, Assemble DEF Keeps

\* record_body lands the group in every database it wrote, at once.
Lands(p) ==
  /\ GroupInv' /\ head' = head
  /\ proc[p].txn \in Txn /\ proc[p].writes \in (SUBSET Db) \ {{}}
  /\ \A d \in Db : /\ proc[p].txn \notin Holds(d)
                   /\ Holds(d)' = IF d \in proc[p].writes THEN Holds(d) \cup {proc[p].txn} ELSE Holds(d)

\* The record makes what was staged the database's, before any head has moved.
LEMMA WriteRecordLands ==
  ASSUME GroupInv, NEW p \in Proc, WriteRecord(p)
  PROVE  Lands(p)
<1> DEFINE r0 == proc[p]
           t == r0.txn
           X == r0.txids
           r == [r0 EXCEPT !.pc = "resolve"]
<1>1. /\ r0.pc = "record" /\ status' = [status EXCEPT ![t] = "staging"]
      /\ rows' = [rows EXCEPT ![t] = X] /\ landed' = landed \cup {t}
      /\ proc' = [proc EXCEPT ![p] = r]
      /\ head' = head /\ fence' = fence /\ delta' = delta /\ next' = next /\ handle' = handle
  BY DEF WriteRecord, Goto
<1>2. r0 \in ProcRecord /\ X \in [Db -> Nat] /\ r0.writes \in SUBSET Db BY ProcIs DEF GroupInv
<1>3. /\ r0.writes # {} /\ t = next /\ t \in Txn \ landed
      /\ \A e \in Db :
           \/ /\ e \in r0.writes /\ X[e] = head[e] + 1 /\ head[e] + 1 \in DOMAIN delta[e]
              /\ Page(e, head[e] + 1) = Visible(e) \cup {t}
           \/ e \notin r0.writes /\ X[e] = head[e]
  BY <1>1 DEF GroupInv, Process, Drafted, Done
<1>4. Staging = {} /\ r0.i = 1 BY <1>1 DEF GroupInv, Process, Resolving, Loops
<1>5. /\ r \in ProcRecord /\ r.pc = "resolve" /\ r.i = 1 /\ r.txn = t /\ r.txids = X
  <2>1. "resolve" \in Where BY DEF Where
  <2>2. r \in ProcRecord
    <3> HIDE DEF r0
    <3> QED BY <1>2, <2>1, ProcFields, Zenon
  <2> QED BY <1>2, <1>4, <2>2, ProcShape
<1> HIDE DEF r
<1>6. Others(p) /\ proc'[p] = r BY <1>1, Solo DEF Live
<1>7. Staging' = {t} /\ status' \in [Txn -> {"none", "staging", "committed", "aborted"}]
  <2>1. status \in [Txn -> {"none", "staging", "committed", "aborted"}] BY DEF GroupInv, GroupTypes
  <2>2. \A u \in Txn : status[u] # "staging" BY <1>4 DEF Staging
  <2> HIDE DEF t
  <2>3. status'[t] = "staging" /\ \A u \in Txn : u # t => status'[u] = status[u] BY <1>1, <1>3, <2>1
  <2>4. status' \in [Txn -> {"none", "staging", "committed", "aborted"}] BY <1>1, <2>1
  <2>5. \A u : u \in Staging' <=> u = t BY <1>3, <2>2, <2>3 DEF Staging
  <2> QED BY <2>4, <2>5
<1>8. rows' \in [Txn -> [Db -> Nat]] /\ rows'[t] = X
  <2> DEFINE N == [Db -> Nat]
  <2>1. rows \in [Txn -> N] /\ X \in N BY <1>2 DEF GroupInv, GroupTypes
  <2> HIDE DEF N, t, X
  <2>2. rows' \in [Txn -> N] /\ rows'[t] = X BY <1>1, <1>3, <2>1
  <2> QED BY <2>2 DEF N
<1>9. \A e \in Db : head[e] \in Nat BY DEF GroupInv, GroupTypes
<1>10. GroupTypes'
  <2>1. landed' \in SUBSET Txn BY <1>1, <1>3 DEF GroupInv, GroupTypes
  <2> QED BY <1>1, <1>5, <1>7, <1>8, <2>1 DEF GroupInv, GroupTypes
<1>11. /\ \A e \in Db : Visible(e)' = Visible(e)
       /\ \A e \in Db : \A x : Page(e, x)' = Page(e, x)
  BY <1>1 DEF Visible, Page
<1> HIDE DEF t, X
<1>12. Records'
  <2>1. \A e \in Db : \/ X[e] = head[e]
                      \/ /\ X[e] = head[e] + 1 /\ X[e] \in DOMAIN delta[e]
                         /\ \A x : x = X[e] => Page(e, x) = Visible(e) \cup {t}
    BY <1>3
  <2>2. ASSUME NEW u \in Staging' PROVE u \in landed' /\ rows'[u] # NoRows /\ \A e \in Db : Intent(u, e)'
    <3>1. u = t BY <2>2, <1>7
    <3>2. rows'[u] = X BY <1>8, <3>1
    <3>3. X # NoRows
      <4>1. PICK e \in Db : e \in r0.writes BY <1>2, <1>3
      <4>2. X[e] = head[e] + 1 /\ head[e] \in Nat BY <1>3, <1>9, <4>1
      <4>3. NoRows[e] = 0 BY DEF NoRows
      <4> QED BY <4>2, <4>3
    <3>4. ASSUME NEW e \in Db PROVE Intent(u, e)'
      <4>1. \A x : x = X[e] => Page(e, x)' = Page(e, x) BY <1>11
      <4> QED BY <4>1, <2>1, <3>1, <3>2, <1>1, <1>11 DEF Intent
    <3> QED BY <1>1, <3>1, <3>2, <3>3, <3>4
  <2> QED BY <2>2, <1>7 DEF Records
<1>13. Shown'
  <2>1. \A u \in landed : u <= next BY DEF GroupInv, Shown
  <2>2. next <= next BY GroupConstants DEF GroupInv, GroupTypes
  <2>3. \A u \in landed' : u <= next' BY <1>1, <1>3, <2>1, <2>2
  <2> QED BY <1>1, <1>11, <2>3 DEF GroupInv, Shown, OnlyLandedIsVisible
<1>14. Process(p)'
  <2>1. \A d \in Db : ~(d < 1) BY DEF Db
  <2>2. Resolving(p)' BY <1>5, <1>6, <1>7, <1>8, <2>1 DEF Resolving, Loops
  <2>3. Owned(p)'
    <3>1. Grouping(p) /\ Grouping(p)' BY <1>1, <1>5, <1>6 DEF Grouping
    <3> QED BY <1>1, <1>5, <1>6, <1>11, <3>1 DEF GroupInv, Process, Owned, Has, Owns, X
  <2> QED BY <1>5, <1>6, <2>2, <2>3 DEF Process, Drafted
<1>15. GroupInv' BY <1>6, <1>10, <1>12, <1>13, <1>14, Assemble
<1>16. ASSUME NEW d \in Db
       PROVE  t \notin Holds(d) /\ Holds(d)' = IF d \in r0.writes THEN Holds(d) \cup {t} ELSE Holds(d)
  <2>1. Holds(d) = Visible(d) BY <1>4 DEF Holds
  <2>2. t \notin Visible(d) BY <1>3 DEF GroupInv, Shown, OnlyLandedIsVisible
  <2>3. Holds(d)' = Visible(d) \cup {u \in {t} : X[d] > head[d]}
    <3>1. {u \in Staging' : rows'[u][d] > head'[d]} = {u \in {t} : X[d] > head[d]} BY <1>1, <1>7, <1>8
    <3> QED BY <3>1, <1>11 DEF Holds
  <2>4. CASE d \in r0.writes
    <3>1. X[d] > head[d] BY <1>3, <1>9, <2>4
    <3> QED BY <2>1, <2>2, <2>3, <2>4, <3>1
  <2>5. CASE d \notin r0.writes
    <3>1. ~(X[d] > head[d]) BY <1>3, <1>9, <2>5
    <3> QED BY <2>1, <2>2, <2>3, <2>5, <3>1
  <2> QED BY <2>4, <2>5
<1> QED BY <1>1, <1>2, <1>3, <1>15, <1>16 DEF Lands, t

\* Every step keeps the invariant, and either lands one group or changes nothing a reader finds.
LEMMA GroupStep ==
  ASSUME GroupInv, Exclusive = TRUE, Faults = {}, [Next]_vars
  PROVE  Keeps \/ \E p \in Proc : Lands(p)
<1>1. CASE UNCHANGED vars
  <2>1. /\ head' = head /\ fence' = fence /\ delta' = delta /\ status' = status /\ rows' = rows
        /\ next' = next /\ proc' = proc /\ handle' = handle /\ landed' = landed
    BY <1>1 DEF vars, store
  <2>2. Staging' = Staging /\ \A d \in Db : Visible(d)' = Visible(d) BY <2>1 DEF Staging, Visible, Page
  <2>3. \A d \in Db : \A x : Page(d, x)' = Page(d, x) BY <2>1 DEF Page
  <2>4. Records' BY <2>1, <2>2, <2>3 DEF GroupInv, Records, Intent
  <2>5. Shown' BY <2>1, <2>2 DEF GroupInv, Shown, OnlyLandedIsVisible
  <2>6. GroupTypes' /\ Alone' BY <2>1 DEF GroupInv, GroupTypes, Alone, Live
  <2>7. \A p \in Proc : Process(p)'
    <3>1. ASSUME NEW p \in Proc PROVE Process(p)'
      <4>1. Owned(p)' BY <2>1, <2>3 DEF GroupInv, Process, Owned, Owns, Has, Grouping
      <4>2. Drafted(p)' BY <2>1, <2>2, <2>3 DEF GroupInv, Process, Drafted, Done
      <4>3. Resolving(p)' BY <2>1, <2>2 DEF GroupInv, Process, Resolving
      <4> QED BY <4>1, <4>2, <4>3 DEF Process
    <3> QED BY <3>1
  <2>8. \A d \in Db : head'[d] >= head[d] BY <2>1 DEF GroupInv, GroupTypes
  <2> QED BY <2>1, <2>2, <2>4, <2>5, <2>6, <2>7, <2>8 DEF Keeps, GroupInv, Holds
<1>2. ASSUME NEW p \in Proc,
             \/ Start(p) \/ Recovering(p) \/ Begin(p) \/ Committing(p) \/ Flush(p) \/ Crash(p)
      PROVE  Keeps \/ Lands(p)
  <2>1. CASE Start(p) BY <2>1, StartKeeps
  <2>2. CASE Recovering(p)
    <3>1. ~Prevent(p) BY Unrefused
    <3> QED BY <2>2, <3>1, SweepKeeps, ReadPartsKeeps, QueryKeeps, SettleKeeps, SayOutcomeKeeps,
               DropRecordKeeps, OpenKeeps DEF Recovering
  <2>3. CASE Begin(p) BY <2>3, BeginKeeps
  <2>4. CASE Committing(p)
    <3>1. ~StageRefused(p) /\ ~RecordRefused(p) /\ ~ResolveFails(p) BY Unrefused
    <3>2. Stage(p) => Keeps
      <4>1. \A d : d = proc[p].i /\ Stage(p) => Keeps BY StageAt
      <4> QED BY <4>1
    <3> QED BY <2>4, <3>1, <3>2, StageNothingKeeps, WriteRecordLands, ResolvePartKeeps,
               SayCommittedKeeps, ForgetRecordKeeps DEF Committing
  <2>5. CASE Flush(p)
    <3>1. proc[p].pc = "idle" /\ \E d \in Db : Flushed(p, d) BY <2>5, Zenon DEF Flush, Flushed
    <3> QED BY <3>1, FlushAt
  <2>6. CASE Crash(p) BY <2>6, CrashKeeps
  <2> QED BY <1>2, <2>1, <2>2, <2>3, <2>4, <2>5, <2>6
<1> QED BY <1>1, <1>2 DEF Next

\* Nothing is there at first.
LEMMA GroupStarts ==
  ASSUME Init
  PROVE  GroupInv /\ \A d \in Db : Holds(d) = {}
<1>1. /\ head = [d \in Db |-> 0] /\ fence = [d \in Db |-> 0] /\ delta = [d \in Db |-> << >>]
      /\ status = [t \in Txn |-> "none"] /\ rows = [t \in Txn |-> NoRows] /\ next = 0
      /\ proc = [p \in Proc |-> Down] /\ handle = [p \in Proc |-> [d \in Db |-> Closed]] /\ landed = {}
  BY DEF Init
<1>2. Staging = {} BY <1>1 DEF Staging
<1>3. \A d \in Db : Visible(d) = {} BY <1>1 DEF Visible, Page
<1>4. GroupTypes
  <2> DEFINE N == [Db -> Nat]
             H == [Db -> HandleRecord]
             c == [d \in Db |-> Closed]
  <2>1. Closed \in HandleRecord BY DEF Closed, HandleRecord
  <2>2. c \in H /\ NoRows \in N BY <2>1, DownIs
  <2> HIDE DEF N, H, c
  <2>3. rows \in [Txn -> N] /\ handle \in [Proc -> H] BY <1>1, <2>2 DEF c
  <2>4. proc \in [Proc -> ProcRecord] BY <1>1, DownIs
  <2>5. next \in 0..MAX_GROUPS BY <1>1, GroupConstants
  <2>6. delta = [d \in Db |-> delta[d]] BY <1>1
  <2> QED BY <1>1, <2>3, <2>4, <2>5, <2>6 DEF GroupTypes, N, H
<1>5. \A p \in Proc : proc[p].pc = "down" /\ proc[p].i = 1 /\ proc[p].opening = 1 BY <1>1, DownIs
<1>6. Alone BY <1>5 DEF Alone, Live
<1>7. \A p \in Proc : Process(p)
  BY <1>5 DEF Process, Owned, Has, Grouping, Drafted, Resolving
<1>8. Records /\ Shown BY <1>1, <1>2, <1>3 DEF Records, Shown, OnlyLandedIsVisible
<1> QED BY <1>2, <1>3, <1>4, <1>6, <1>7, <1>8 DEF GroupInv, Holds

\* With one process at a time, and no head that fails to move with the fence intact, no reader
\* ever sees a group whose record was not written: not when the process dies between two
\* transactions of the commit, nor while the next one recovers (fdb_vfs.c 1251-1252).
THEOREM UnlandedIsUnseen ==
  ASSUME Exclusive = TRUE, Faults = {}
  PROVE  Spec => []OnlyLandedIsVisible
<1>1. Init => GroupInv BY GroupStarts
<1>2. GroupInv /\ [Next]_vars => GroupInv' BY GroupStep DEF Keeps, Lands
<1>3. GroupInv => OnlyLandedIsVisible BY DEF GroupInv, Shown
<1> QED BY <1>1, <1>2, <1>3, PTL DEF Spec

\* And no head ever goes back, though resolve_body trusts the head its query read and checks
\* no fence (fdb_vfs.c 1557-1558, 1826-1827).
THEOREM NoHeadGoesBack ==
  ASSUME Exclusive = TRUE, Faults = {}
  PROVE  Spec => HeadsOnlyAdvance
<1>1. Init => GroupInv BY GroupStarts
<1>2. GroupInv /\ [Next]_vars => GroupInv' BY GroupStep DEF Keeps, Lands
<1>3. GroupInv /\ [Next]_vars => [\A d \in Db : head'[d] >= head[d]]_vars
  <2> SUFFICES ASSUME GroupInv, [Next]_vars PROVE \A d \in Db : head'[d] >= head[d]
    OBVIOUS
  <2>1. \A d \in Db : head[d] >= head[d] BY DEF GroupInv, GroupTypes
  <2> QED BY <2>1, GroupStep DEF Keeps, Lands
<1> QED BY <1>1, <1>2, <1>3, PTL DEF Spec, HeadsOnlyAdvance

\* What a database holds for whoever opens it, said without the pages.
LEMMA LogicalIs ==
  ASSUME GroupInv
  PROVE  Logical = [d \in Db |-> Holds(d)]
<1>1. ASSUME NEW t \in Txn PROVE Implicit(t) <=> t \in Staging
  <2>1. ASSUME t \in Staging, NEW d \in Db
        PROVE  rows[t][d] <= head[d] \/ rows[t][d] \in DOMAIN delta[d]
    <3>1. Intent(t, d) /\ head[d] \in Nat BY <2>1 DEF GroupInv, GroupTypes, Records
    <3> QED BY <3>1 DEF Intent
  <2> QED BY <2>1 DEF Implicit, Staging
<1>2. ASSUME NEW d \in Db
      PROVE  Visible(d) \cup UNION {Page(d, rows[t][d]) :
                                      t \in {u \in Txn : Implicit(u) /\ rows[u][d] > head[d]}}
               = Holds(d)
  <2> DEFINE U == {u \in Txn : Implicit(u) /\ rows[u][d] > head[d]}
             V == {u \in Staging : rows[u][d] > head[d]}
  <2>1. U = V BY <1>1 DEF Staging
  <2>2. ASSUME NEW t \in V PROVE Page(d, rows[t][d]) = Visible(d) \cup {t}
    <3>1. Intent(t, d) /\ head[d] \in Nat BY DEF GroupInv, GroupTypes, Records
    <3>2. rows[t][d] # head[d] BY <3>1
    <3> QED BY <3>1, <3>2 DEF Intent
  <2> HIDE DEF U, V
  <2>3. Visible(d) \cup UNION {Page(d, rows[t][d]) : t \in V} = Visible(d) \cup V
    <3>1. ASSUME NEW x \in UNION {Page(d, rows[t][d]) : t \in V} PROVE x \in Visible(d) \cup V
      <4>1. PICK t \in V : x \in Page(d, rows[t][d]) BY <3>1
      <4> QED BY <4>1, <2>2
    <3>2. ASSUME NEW t \in V PROVE t \in UNION {Page(d, rows[u][d]) : u \in V}
      <4>1. t \in Page(d, rows[t][d]) BY <2>2
      <4> QED BY <4>1
    <3> QED BY <3>1, <3>2
  <2> QED BY <2>1, <2>3 DEF Holds, U, V
<1> QED BY <1>2 DEF Logical

\* The parallel commit is an atomic commit: a group comes to be in all the databases it wrote in
\* the one step that writes its record, and every other step, a crash and all of recovery among
\* them, changes nothing that whoever opens the databases will find (fdb_vfs.c 1251-1260).
THEOREM CommitIsAtomic ==
  ASSUME Exclusive = TRUE, Faults = {}
  PROVE  Spec => GroupsAreAtomic
<1>1. Init => GroupInv BY GroupStarts
<1>2. GroupInv /\ [Next]_vars => GroupInv' BY GroupStep DEF Keeps, Lands
<1>a. GroupInv => Logical = [d \in Db |-> Holds(d)] BY LogicalIs
<1>b. (GroupInv => Logical = [d \in Db |-> Holds(d)])' BY <1>a, PTL
<1>3. Init => Atomic!Init
  <2> SUFFICES ASSUME Init PROVE Logical = [d \in Db |-> {}]
    BY DEF Atomic!Init
  <2>1. Logical = [d \in Db |-> Holds(d)] BY <1>1, LogicalIs
  <2> QED BY <2>1, GroupStarts
<1>4. GroupInv /\ [Next]_vars => [Atomic!Next]_Logical
  <2> SUFFICES ASSUME GroupInv, [Next]_vars PROVE Atomic!Next \/ Logical' = Logical
    OBVIOUS
  <2>1. Logical = [d \in Db |-> Holds(d)] BY LogicalIs
  <2>3. Logical' = [d \in Db |-> Holds(d)'] BY <1>2, <1>b
  <2>4. CASE Keeps
    <3>1. \A d \in Db : Holds(d)' = Holds(d) BY <2>4 DEF Keeps
    <3> QED BY <2>1, <2>3, <3>1
  <2>5. ASSUME NEW p \in Proc, Lands(p) PROVE Atomic!Next
    <3>1. ASSUME NEW t, NEW W, t = proc[p].txn, W = proc[p].writes
          PROVE  t \in Txn /\ W \in (SUBSET Db) \ {{}} /\ Atomic!CommitGroup(t, W)
      <4>1. t \in Txn /\ W \in (SUBSET Db) \ {{}} BY <2>5, <3>1 DEF Lands
      <4>2. \A d \in Db : /\ t \notin Holds(d)
                          /\ Holds(d)' = IF d \in W THEN Holds(d) \cup {t} ELSE Holds(d)
        BY <2>5, <3>1 DEF Lands
      <4>3. \A d \in Db : t \notin Logical[d] /\ Logical[d] = Holds(d) BY <2>1, <4>2
      <4>4. Logical' = [d \in Db |-> IF d \in W THEN Logical[d] \cup {t} ELSE Logical[d]]
        BY <2>3, <4>2, <4>3
      <4> QED BY <4>1, <4>3, <4>4 DEF Atomic!CommitGroup
    <3>2. \E t \in Txn, W \in (SUBSET Db) \ {{}} : Atomic!CommitGroup(t, W) BY <3>1
    <3> QED BY <3>2 DEF Atomic!Next
  <2> QED BY <2>4, <2>5, GroupStep
<1> QED BY <1>1, <1>2, <1>3, <1>4, PTL DEF Spec, GroupsAreAtomic, Atomic!Spec
==============================================================================
