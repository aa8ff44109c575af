----------------------------- MODULE GroupCommit -----------------------------
(***************************************************************************)
(* The parallel commit of thirdparty/store-plane/fdb_vfs.c: how a group of  *)
(* databases commits together on a store that gives single transactions,    *)
(* and how whoever opens a database next decides what a crash left behind.  *)
(*                                                                          *)
(* A step is one run_txn: FoundationDB makes each body atomic and           *)
(* serializable.  It is retried until it is decided, or given up on an      *)
(* error that may not be retried: `Faults` says in which steps of a commit  *)
(* that happens, and in an open or a recovery it ends the process, as Crash *)
(* does.  Between two transactions the process may die and another may run. *)
(* Each process is one thread, so it builds one group at a time (g_group).  *)
(*                                                                          *)
(* A database is one page.  Its content is the set of groups whose write it *)
(* carries, so a page written over another carries what that one carried.   *)
(* Every group joins every database, and writes some of them.  Compaction,  *)
(* sizes and read-ahead are not in this module.                             *)
(***************************************************************************)
EXTENDS Integers, FiniteSets, FiniteSetsExt

CONSTANTS
  Proc,              \* the processes that open the databases
  NDBS,              \* how many databases a group joins
  TXN_MAX_RECOVER,   \* records one sweep takes
  Exclusive,         \* TRUE: a process starts only when no other is running
  Faults,            \* the steps run_txn may give up with the fence intact
  MAX_GROUPS,        \* bound on the groups begun
  MAX_HEAD,          \* bound on a database's commits
  MAX_STARTS         \* bound on the processes started

ASSUME GroupConstants ==
  /\ NDBS \in Nat \ {0} /\ TXN_MAX_RECOVER \in Nat \ {0}
  /\ Exclusive \in BOOLEAN /\ Faults \subseteq {"stage", "record", "resolve"}
  /\ MAX_GROUPS \in Nat /\ MAX_HEAD \in Nat /\ MAX_STARTS \in Nat

Db  == 1..NDBS          \* in key order, which is also the order they join in
Txn == 1..MAX_GROUPS

VARIABLES
  head,      \* HEAD of each database
  fence,     \* FENCE of each database
  delta,     \* DELTA rows of each database: the page staged under each txid
  status,    \* weft/txn/<t>/STATUS
  rows,      \* weft/txn/<t>/part: the txid each participant staged under
  next,      \* weft/txn/NEXT
  proc,      \* where each process is, and g_group or recover_ctx
  handle,    \* each process's FdbFile for each database
  landed,    \* history: the groups whose record was written
  starts     \* how many processes have started

store == << head, fence, delta, status, rows, next >>
vars  == << store, proc, handle, landed, starts >>

\* No participant rows: a group writes something, so one of its txids is above 0.
NoRows == [d \in Db |-> 0]
Down   == [pc |-> "down", opening |-> 1, i |-> 1, txn |-> 0, writes |-> {}, txids |-> NoRows, todo |-> {},
           again |-> FALSE, found |-> [d \in Db |-> [head |-> 0, present |-> FALSE]]]
Closed == [fence |-> 0, head |-> 0, mem |-> {}]

Init ==
  /\ head = [d \in Db |-> 0] /\ fence = [d \in Db |-> 0] /\ delta = [d \in Db |-> << >>]
  /\ status = [t \in Txn |-> "none"] /\ rows = [t \in Txn |-> NoRows] /\ next = 0
  /\ proc = [p \in Proc |-> Down]
  /\ handle = [p \in Proc |-> [d \in Db |-> Closed]]
  /\ landed = {} /\ starts = 0

\* DELTA rows written and cleared.
Put(f, t, c) == [x \in DOMAIN f \cup {t} |-> IF x = t THEN c ELSE f[x]]
Clear(f, T)  == [x \in DOMAIN f \ T |-> f[x]]

\* The page a reader gets at the head.  A row that is gone reads as zeroes.
Page(d, t) == IF t \in DOMAIN delta[d] THEN delta[d][t] ELSE {}
Visible(d) == Page(d, head[d])

\* check_fence: the handle still owns the database.
Owns(p, d) == handle[p][d].fence = fence[d]

Goto(p, where) == [proc[p] EXCEPT !.pc = where]

\* The next database of the loop process p is in, or what comes after the loop.
Step(p, r, after) ==
  proc' = [proc EXCEPT ![p] =
             IF r.i < NDBS THEN [r EXCEPT !.i = @ + 1] ELSE [r EXCEPT !.i = 1, !.pc = after]]

-------------------------------------------------------------------------------
(* Opening: recovery first, and then the open that raises the fence.        *)

\* A process starts, and opens its databases one after the other.
Start(p) ==
  /\ proc[p].pc = "down" /\ starts < MAX_STARTS
  /\ Exclusive => \A q \in Proc : proc[q].pc = "down"
  /\ starts' = starts + 1
  /\ proc' = [proc EXCEPT ![p] = Goto(p, "sweep")]
  /\ UNCHANGED << store, handle, landed >>

Staging == {t \in Txn : status[t] = "staging"}

\* Variant: vfs_open without its recovery.
SweepNothing(p) ==
  /\ proc[p].pc = "sweep"
  /\ proc' = [proc EXCEPT ![p] = Goto(p, "open")]
  /\ UNCHANGED << store, handle, landed, starts >>

\* Variant: an empty sweep does not end the recovery.
SweepForever(p) ==
  /\ proc[p].pc = "sweep"
  /\ LET seen == {t \in Staging : Cardinality({u \in Staging : u < t}) < TXN_MAX_RECOVER}
     IN  proc' = [proc EXCEPT ![p] =
                    [@ EXCEPT !.pc = IF seen = {} THEN "sweep" ELSE "parts", !.todo = seen,
                              !.again = TRUE]]
  /\ UNCHANGED << store, handle, landed, starts >>

\* sweep_body, and the loop of weft_txn_recover: a full sweep is done again.
Sweep(p) ==
  /\ proc[p].pc = "sweep"
  /\ LET seen == {t \in Staging : Cardinality({u \in Staging : u < t}) < TXN_MAX_RECOVER}
     IN  proc' = [proc EXCEPT ![p] =
                    [@ EXCEPT !.pc = IF seen = {} THEN "open" ELSE "parts", !.todo = seen,
                              !.again = Cardinality(seen) >= TXN_MAX_RECOVER]]
  /\ UNCHANGED << store, handle, landed, starts >>

\* read_parts_body.  A record somebody dropped in the meantime has no rows, and
\* is dropped again.
ReadParts(p) ==
  /\ proc[p].pc = "parts"
  /\ LET t == Min(proc[p].todo)
     IN  proc' = [proc EXCEPT ![p] =
                    [@ EXCEPT !.pc = IF rows[t] = NoRows THEN "drop" ELSE "query",
                              !.txn = t, !.txids = rows[t]]]
  /\ UNCHANGED << store, handle, landed, starts >>

\* query_intent_body.
QueryIntent(d, t) ==
  [head |-> head[d], present |-> t <= head[d] \/ t \in DOMAIN delta[d]]

\* Query every intent, and decide once all of them are known.
Query(p) ==
  /\ proc[p].pc = "query"
  /\ LET d == proc[p].i
         r == [proc[p] EXCEPT !.found[d] = QueryIntent(d, proc[p].txids[d])]
     IN  Step(p, r, IF \A e \in Db : r.found[e].present THEN "settle" ELSE "prevent")
  /\ UNCHANGED << store, handle, landed, starts >>

\* resolve_body.  It trusts the head its query read, and checks no fence.
Settle(p) ==
  /\ proc[p].pc = "settle"
  /\ LET d == proc[p].i
         t == proc[p].txids[d]
     IN  head' = IF t <= proc[p].found[d].head THEN head ELSE [head EXCEPT ![d] = t]
  /\ Step(p, proc[p], "settled")
  /\ UNCHANGED << fence, delta, status, rows, next, handle, landed, starts >>

\* prevent_body: the pages go; the fence of a missing participant goes up.
Prevent(p) ==
  /\ proc[p].pc = "prevent"
  /\ LET d == proc[p].i
     IN  /\ fence' = IF proc[p].found[d].present THEN fence ELSE [fence EXCEPT ![d] = @ + 1]
         /\ delta' = [delta EXCEPT ![d] = Clear(@, {proc[p].txids[d]})]
  /\ Step(p, proc[p], "prevented")
  /\ UNCHANGED << head, status, rows, next, handle, landed, starts >>

\* set_status_body, at the end of recover_one.
SayOutcome(p) ==
  /\ proc[p].pc \in {"settled", "prevented"}
  /\ status' = [status EXCEPT ![proc[p].txn] =
                  IF proc[p].pc = "settled" THEN "committed" ELSE "aborted"]
  /\ proc' = [proc EXCEPT ![p] = Goto(p, "drop")]
  /\ UNCHANGED << head, fence, delta, rows, next, handle, landed, starts >>

\* drop_record_body.
Dropped(t) == /\ status' = [status EXCEPT ![t] = "none"] /\ rows' = [rows EXCEPT ![t] = NoRows]
              /\ UNCHANGED << head, fence, delta, next >>

\* The record goes, and recovery turns to the next one it saw.
DropRecord(p) ==
  /\ proc[p].pc = "drop"
  /\ Dropped(proc[p].txn)
  /\ LET left == proc[p].todo \ {proc[p].txn}
     IN  proc' = [proc EXCEPT ![p] =
                    [Down EXCEPT !.pc = IF left # {} THEN "parts"
                                        ELSE IF proc[p].again THEN "sweep" ELSE "open",
                                 !.opening = proc[p].opening, !.todo = left, !.again = proc[p].again]]
  /\ UNCHANGED << handle, landed, starts >>

\* Variant: the fence is read and not raised.
RaisedFenceNot(d) == IF fence[d] = 0 THEN 1 ELSE fence[d]

\* raise_fence.
RaisedFence(d) == fence[d] + 1

\* Variant: the head is not read again when a database is opened again.
LoadHeadNot(d) == 0

\* load_head.
LoadHead(d) == head[d]

\* open_body: read the head, drop the pages above it, take the fence.
Open(p) ==
  /\ proc[p].pc = "open"
  /\ LET d == proc[p].opening
     IN  /\ fence' = [fence EXCEPT ![d] = RaisedFence(d)]
         /\ delta' = [delta EXCEPT ![d] = Clear(@, {t \in DOMAIN @ : t > LoadHead(d)})]
         /\ handle' = [handle EXCEPT ![p][d] =
                         [fence |-> RaisedFence(d), head |-> LoadHead(d), mem |-> Visible(d)]]
         /\ proc' = [proc EXCEPT ![p] =
                       IF d < NDBS THEN [Down EXCEPT !.pc = "sweep", !.opening = d + 1]
                       ELSE [Down EXCEPT !.pc = "idle"]]
  /\ UNCHANGED << head, status, rows, next, landed, starts >>

-------------------------------------------------------------------------------
(* Committing a group.                                                      *)

\* weft_txn_begin, and weft_txn_join of every database: a participant's txid is
\* its head until it stages.
Begin(p) ==
  /\ proc[p].pc = "idle" /\ next < MAX_GROUPS
  /\ next' = next + 1
  /\ \E W \in (SUBSET Db) \ {{}} :
       proc' = [proc EXCEPT ![p] =
                  [@ EXCEPT !.pc = "stage", !.txn = next + 1, !.writes = W,
                            !.txids = [d \in Db |-> handle[p][d].head]]]
  /\ UNCHANGED << head, fence, delta, status, rows, handle, landed, starts >>

\* The page a participant writes carries the group and all its connection held.
Staged(p, d) == handle[p][d].mem \cup {proc[p].txn}

\* Variant: the sync commits instead of staging.
StageMovesHead(p) ==
  /\ proc[p].pc = "stage" /\ proc[p].i \in proc[p].writes /\ Owns(p, proc[p].i)
  /\ LET d == proc[p].i
         t == handle[p][d].head + 1
     IN  /\ delta' = [delta EXCEPT ![d] = Put(@, t, Staged(p, d))]
         /\ head' = [head EXCEPT ![d] = t]
         /\ handle' = [handle EXCEPT ![p][d].mem = Staged(p, d)]
         /\ Step(p, [proc[p] EXCEPT !.txids[d] = t], "record")
  /\ UNCHANGED << fence, status, rows, next, landed, starts >>

\* txn_stage_here: the pages go under the txid after the head, which stays.
Stage(p) ==
  /\ proc[p].pc = "stage" /\ proc[p].i \in proc[p].writes /\ Owns(p, proc[p].i)
  /\ LET d == proc[p].i
         t == handle[p][d].head + 1
     IN  /\ delta' = [delta EXCEPT ![d] = Put(@, t, Staged(p, d))]
         /\ handle' = [handle EXCEPT ![p][d].mem = Staged(p, d)]
         /\ Step(p, [proc[p] EXCEPT !.txids[d] = t], "record")
  /\ UNCHANGED << head, fence, status, rows, next, landed, starts >>

\* A participant that wrote nothing has nothing to sync.
StageNothing(p) ==
  /\ proc[p].pc = "stage" /\ proc[p].i \notin proc[p].writes
  /\ Step(p, proc[p], "record")
  /\ UNCHANGED << store, handle, landed, starts >>

\* delta_body is refused, because somebody else owns the database, or given up.
\* So is the group, and what staged before stays in its handle's buffer.
StageRefused(p) ==
  /\ proc[p].pc = "stage" /\ proc[p].i \in proc[p].writes
  /\ ~ Owns(p, proc[p].i) \/ "stage" \in Faults
  /\ proc' = [proc EXCEPT ![p] = [Down EXCEPT !.pc = "idle"]]
  /\ UNCHANGED << store, handle, landed, starts >>

\* record_body: the group is committed from here, whoever lives.
WriteRecord(p) ==
  /\ proc[p].pc = "record" /\ \A d \in Db : Owns(p, d)
  /\ status' = [status EXCEPT ![proc[p].txn] = "staging"]
  /\ rows' = [rows EXCEPT ![proc[p].txn] = proc[p].txids]
  /\ landed' = landed \cup {proc[p].txn}
  /\ proc' = [proc EXCEPT ![p] = Goto(p, "resolve")]
  /\ UNCHANGED << head, fence, delta, next, handle, starts >>

\* The record is refused, because a participant lost its database while it staged,
\* or given up: everyone has staged, and keeps it.
RecordRefused(p) ==
  /\ proc[p].pc = "record"
  /\ (\E d \in Db : ~ Owns(p, d)) \/ "record" \in Faults
  /\ proc' = [proc EXCEPT ![p] = [Down EXCEPT !.pc = "idle"]]
  /\ UNCHANGED << store, handle, landed, starts >>

\* txn_resolve_part: the head moves to the staged txid, unless it is there.
ResolvePart(p) ==
  /\ proc[p].pc = "resolve"
  /\ LET d == proc[p].i
         t == proc[p].txids[d]
     IN  /\ t > handle[p][d].head => Owns(p, d)
         /\ IF t > handle[p][d].head
            THEN /\ head' = [head EXCEPT ![d] = t]
                 /\ handle' = [handle EXCEPT ![p][d].head = t]
            ELSE UNCHANGED << head, handle >>
  /\ Step(p, proc[p], "explicit")
  /\ UNCHANGED << fence, delta, status, rows, next, landed, starts >>

\* txn_resolve_group stops half way.  weft_txn_commit ignores it and answers that
\* the group is committed, which it is: recovery is to finish it.
ResolveFails(p) ==
  /\ \/ /\ proc[p].pc = "resolve"
        /\ LET d == proc[p].i
           IN  /\ proc[p].txids[d] > handle[p][d].head
               /\ ~ Owns(p, d) \/ "resolve" \in Faults
     \/ proc[p].pc \in {"explicit", "forget"} /\ "resolve" \in Faults
  /\ proc' = [proc EXCEPT ![p] = [Down EXCEPT !.pc = "idle"]]
  /\ UNCHANGED << store, handle, landed, starts >>

\* txn_resolve_group's last two transactions.
SayCommitted(p) ==
  /\ proc[p].pc = "explicit"
  /\ status' = [status EXCEPT ![proc[p].txn] = "committed"]
  /\ proc' = [proc EXCEPT ![p] = Goto(p, "forget")]
  /\ UNCHANGED << head, fence, delta, rows, next, handle, landed, starts >>

ForgetRecord(p) ==
  /\ proc[p].pc = "forget"
  /\ Dropped(proc[p].txn)
  /\ proc' = [proc EXCEPT ![p] = [Down EXCEPT !.pc = "idle"]]
  /\ UNCHANGED << handle, landed, starts >>

\* flush of a file in no group: pages and head in one transaction (commit_body).
Flush(p) ==
  /\ proc[p].pc = "idle"
  /\ \E d \in Db :
       LET t == handle[p][d].head + 1
       IN  /\ Owns(p, d) /\ t <= MAX_HEAD
           /\ delta' = [delta EXCEPT ![d] = Put(@, t, handle[p][d].mem)]
           /\ head' = [head EXCEPT ![d] = t]
           /\ handle' = [handle EXCEPT ![p][d].head = t]
  /\ UNCHANGED << fence, status, rows, next, proc, landed, starts >>

\* crash_point: the process is gone between two transactions, and its buffers.
Crash(p) ==
  /\ proc[p].pc # "down"
  /\ proc' = [proc EXCEPT ![p] = Down]
  /\ handle' = [handle EXCEPT ![p] = [d \in Db |-> Closed]]
  /\ UNCHANGED << store, landed, starts >>

Recovering(p) == Sweep(p) \/ ReadParts(p) \/ Query(p) \/ Settle(p) \/ Prevent(p)
                 \/ SayOutcome(p) \/ DropRecord(p) \/ Open(p)
Committing(p) == \/ Stage(p) \/ StageNothing(p) \/ StageRefused(p)
                 \/ WriteRecord(p) \/ RecordRefused(p) \/ ResolvePart(p) \/ ResolveFails(p)
                 \/ SayCommitted(p) \/ ForgetRecord(p)

Next == \E p \in Proc : \/ Start(p) \/ Recovering(p) \/ Begin(p) \/ Committing(p)
                         \/ Flush(p) \/ Crash(p)

Spec == Init /\ [][Next]_vars

\* A process that is opening goes on with it: weft_txn_recover is a plain loop
\* of transactions, each retried until FoundationDB decides it.
FairSpec == Spec /\ \A p \in Proc : WF_vars(Recovering(p))

-------------------------------------------------------------------------------
(* Properties.                                                              *)

\* A record is implicitly committed: it is staging, and every intent is there.
Implicit(t) == status[t] = "staging"
               /\ \A d \in Db : rows[t][d] <= head[d] \/ rows[t][d] \in DOMAIN delta[d]

\* What a database holds for anybody who opens it: what its head shows, and what
\* the groups still to be resolved staged in it.
Logical == [d \in Db |-> Visible(d) \cup
              UNION {Page(d, rows[t][d]) : t \in {u \in Txn : Implicit(u) /\ rows[u][d] > head[d]}}]

Atomic == INSTANCE AtomicGroups WITH contents <- Logical

\* The protocol does what it promises: with crashes at every point, in the commit
\* and in the recovery, a group comes to be in all the databases it wrote in one
\* step and is never lost again (fdb_vfs.c 1251-1260, "There is no third case").
GroupsAreAtomic == Atomic!Spec

\* No reader ever sees a group whose record was not written, in any database
\* (fdb_vfs.c 1251-1252, "no head has moved, so nothing is visible").
OnlyLandedIsVisible == \A d \in Db : Visible(d) \subseteq landed

\* At any time at most one process can write a database: two handles on it never
\* both hold its fence (fdb_vfs.c 915-933).
OneWriter ==
  \A d \in Db : \A p, q \in Proc :
    handle[p][d].fence # 0 /\ handle[q][d].fence # 0 /\ Owns(p, d) /\ Owns(q, d) => p = q

\* A head never goes back, so what was committed at it stays reachable, however
\* often the recovery of a record is cut short and begun again by the process after
\* (fdb_vfs.c 1469-1473, 1552-1558).  It is about one process at a time: the head
\* that resolve_body trusts was read in an earlier transaction.
HeadsOnlyAdvance == [][\A d \in Db : head'[d] >= head[d]]_vars

\* Recovery ends, whatever the other processes write meanwhile: a process that
\* starts opening gets its databases open, or dies (fdb_vfs.c 1828-1843).
RecoveryEnds == \A p \in Proc : proc[p].pc = "sweep" ~> proc[p].pc \in {"idle", "down"}
===============================================================================
