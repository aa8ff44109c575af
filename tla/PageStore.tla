------------------------------ MODULE PageStore ------------------------------
(***************************************************************************)
(* One SQLite database in thirdparty/store-plane/fdb_vfs.c, page by page:    *)
(* the commit in one transaction or in several, truncation, the fold of the  *)
(* log into a shard version, read-ahead, open, close and the fence.          *)
(*                                                                           *)
(* A step is one attempt of a run_txn body, atomic and serializable.  A      *)
(* write may land and its answer be lost: FoundationDB calls that retryable, *)
(* and the body runs again.  A process may die between any two steps, and    *)
(* another may open the database at any time.                                *)
(*                                                                           *)
(* SQLite is external: it writes and truncates whole pages, writes a page    *)
(* before it reads it, and grows the file at its end.  Sizes count pages,    *)
(* and a page's content is the open and the commit it was written for.       *)
(* The database is in no group; GroupCommit has those.                       *)
(***************************************************************************)
EXTENDS Integers, FiniteSets, FiniteSetsExt

CONSTANTS
  Proc,              \* the processes that open the database
  NoOne,             \* no process
  ONE_TXN_PAGES,     \* pages of a commit that goes in one transaction
  STAGE_TXN_PAGES,   \* pages one staging transaction carries, or one fold window
  RA_MAX_PAGES,      \* pages a prefetch covers
  Faults,            \* "flush", "fold": an error that is not retried; "range": an
                     \* error of the prefetch's second read; "truncate": a truncate
                     \* left pending by a flush that failed is built upon; "late": an
                     \* error that is not retried follows a write that had landed
  MAX_PAGES,         \* bound on the file's pages
  MAX_HEAD,          \* bound on the commits
  MAX_FENCE          \* bound on the opens

ASSUME PageConstants ==
  /\ NoOne \notin Proc
  /\ ONE_TXN_PAGES \in Nat \ {0} /\ STAGE_TXN_PAGES \in Nat \ {0} /\ RA_MAX_PAGES \in Nat
  /\ Faults \subseteq {"flush", "fold", "range", "truncate", "late"}
  /\ MAX_PAGES \in Nat /\ MAX_HEAD \in Nat /\ MAX_FENCE \in Nat

\* What a page holds: the open and the commit it was written for.  Zero is a hole,
\* what SQLite gets where nothing is stored.
Val  == (1..MAX_FENCE) \X (1..MAX_HEAD)
Zero == << 0, 0 >>
Page == 0..(MAX_PAGES - 1)

VARIABLES
  head, size, fence, logn,      \* HEAD, SIZE, FENCE, LOGN
  pidx,                         \* PIDX: the txid that owns a page
  delta,                        \* DELTA: what a txid wrote to a page
  shard, shardn,                \* SHARD, SHARDN: pages of a version, and how many
  handle,                       \* each process's FdbFile
  proc                          \* where each process is, with fold_ctx

store == << head, size, fence, logn, pidx, delta, shard, shardn >>
vars  == << store, handle, proc >>

Closed == [fence |-> 0, head |-> 0, as_of |-> 0, base |-> 0, log |-> 0, due |-> FALSE, size |-> 0,
           sent |-> 0, dirty |-> << >>, trunc |-> -1, win |-> << >>]
Down   == [pc |-> "down", todo |-> {}, kept |-> 0, buf |-> << >>, closing |-> FALSE]
Idle   == [Down EXCEPT !.pc = "idle"]

Init ==
  /\ head = 0 /\ size = 0 /\ fence = 0 /\ logn = 0
  /\ pidx = << >> /\ delta = << >> /\ shard = << >> /\ shardn = << >>
  /\ handle = [p \in Proc |-> Closed]
  /\ proc = [p \in Proc |-> Down]

\* Rows set over others, and the rows of some keys.
Over(f, g) == [x \in DOMAIN f \cup DOMAIN g |-> IF x \in DOMAIN f THEN f[x] ELSE g[x]]
Only(f, S) == [x \in DOMAIN f \cap S |-> f[x]]

\* The lowest n numbers of a set: what a loop in page order takes at a time.
Lowest(S, n) == {x \in S : Cardinality({y \in S : y < x}) < n}

\* check_fence.
Owns(p) == handle[p].fence # 0 /\ handle[p].fence = fence

\* A write transaction of p ended: it goes on to what comes next with its new
\* handle, or the answer was lost and it is where it was.
Answer(p, next, h) ==
  \/ proc' = [proc EXCEPT ![p] = next] /\ handle' = [handle EXCEPT ![p] = h]
  \/ UNCHANGED << proc, handle >>

-------------------------------------------------------------------------------
(* Reading.                                                                  *)

\* page_from_store past the window: the log's copy, or the shard's.
StorePage(as_of, pg) ==
  IF pg \in DOMAIN pidx
  THEN IF << pidx[pg], pg >> \in DOMAIN delta THEN delta[<< pidx[pg], pg >>] ELSE Zero
  ELSE IF << as_of, pg >> \in DOMAIN shard THEN shard[<< as_of, pg >>] ELSE Zero

\* page_from_store: what the window says of the page, if anything, comes first.
PageFromStore(p, as_of, pg) ==
  IF pg \in DOMAIN handle[p].win THEN handle[p].win[pg] ELSE StorePage(as_of, pg)

\* read_body: a page that is still in the buffer is the truth.
ReadPage(p, as_of, pg) ==
  IF pg \in DOMAIN handle[p].dirty THEN handle[p].dirty[pg] ELSE PageFromStore(p, as_of, pg)

\* ra_fill: the pages no txid owns, from the shard; one that is not there is a hole.
\* Without a shard the window says nothing.
Filled(p, P) ==
  [pg \in {x \in P : handle[p].as_of # 0 /\ x \notin DOMAIN pidx} |->
     IF << handle[p].as_of, pg >> \in DOMAIN shard THEN shard[<< handle[p].as_of, pg >>] ELSE Zero]

\* ra_fill when the read of the shard fails: no page was placed, and every page
\* without an owner is called a hole.  The window is in force when the body is retried.
FilledOnError(p, P) == [pg \in {x \in P : x \notin DOMAIN pidx} |-> Zero]

\* A read, by SQLite or by a fold, that misses the window and earns a new one.
\* ra_depth's score is a choice, and so is how much of the range one read carries.
Prefetch(p) ==
  /\ proc[p].pc \in {"idle", "fold"}
  /\ \E first \in Page \ DOMAIN handle[p].win, n \in 0..RA_MAX_PAGES :
       LET P == Page \cap first..(first + n - 1)
       IN  \/ handle' = [handle EXCEPT ![p].win = Filled(p, P)]
           \/ /\ "range" \in Faults /\ handle[p].as_of # 0
              /\ handle' = [handle EXCEPT ![p].win = FilledOnError(p, P)]
  /\ UNCHANGED << store, proc >>

-------------------------------------------------------------------------------
(* Opening.                                                                  *)

\* vfs_open is called.
Start(p) ==
  /\ proc[p].pc = "down"
  /\ proc' = [proc EXCEPT ![p].pc = "open"]
  /\ UNCHANGED << store, handle >>

\* load_newest_shard: the newest version that has its marker, at or below the head.
NewestShard ==
  LET V == {v \in DOMAIN shardn : v <= head} IN IF V = {} THEN 0 ELSE Max(V)

\* Variant: the page counts start at zero.
LoadedCountless == [Closed EXCEPT !.fence = fence + 1, !.head = head, !.size = size, !.sent = size,
                                  !.as_of = NewestShard]

\* load_head, load_newest_shard and raise_fence, in the handle.
Loaded ==
  [Closed EXCEPT !.fence = fence + 1, !.head = head, !.size = size, !.sent = size,
                 !.as_of = NewestShard, !.log = logn,
                 !.base = IF NewestShard = 0 THEN 0 ELSE shardn[NewestShard]]

\* open_body.  The pages of a commit that did not finish go.
Open(p) ==
  /\ proc[p].pc = "open" /\ fence < MAX_FENCE
  /\ fence' = fence + 1
  /\ delta' = Only(delta, {r \in DOMAIN delta : r[1] <= head})
  /\ Answer(p, Idle, Loaded)
  /\ UNCHANGED << head, size, logn, pidx, shard, shardn >>

-------------------------------------------------------------------------------
(* Writing.                                                                  *)

\* fdb_write: the page stays in the buffer.
Write(p) ==
  /\ proc[p].pc = "idle"
  /\ LET h == handle[p] IN
       \E pg \in Page :
         /\ pg <= h.size /\ h.head < MAX_HEAD
         /\ h.trunc < 0 \/ pg < h.trunc \/ "truncate" \in Faults
         /\ handle' = [handle EXCEPT ![p].dirty = Over([x \in {pg} |-> << h.fence, h.head + 1 >>], @),
                                     ![p].size = Max({@, pg + 1})]
  /\ UNCHANGED << store, proc >>

\* fdb_truncate.
Truncated(h, n) ==
  [h EXCEPT !.dirty = Only(@, 0..(n - 1)), !.trunc = IF @ < 0 THEN n ELSE Min({@, n}),
            !.size = n, !.win = << >>]

Truncate(p) ==
  /\ proc[p].pc = "idle"
  /\ \E n \in 0..(handle[p].size - 1) : handle' = [handle EXCEPT ![p] = Truncated(@, n)]
  /\ UNCHANGED << store, proc >>

-------------------------------------------------------------------------------
(* Committing.                                                               *)

\* flush has something to send.
ToFlush(h) == h.dirty # << >> \/ h.trunc >= 0 \/ h.size # h.sent

\* Where flush begins: one transaction, or the pages first.
Flushing(h) ==
  [Idle EXCEPT !.pc = IF Cardinality(DOMAIN h.dirty) <= ONE_TXN_PAGES THEN "commit" ELSE "stage",
               !.todo = DOMAIN h.dirty]

\* xSync, or the end of a commit with synchronous off.
Sync(p) ==
  /\ proc[p].pc = "idle" /\ ToFlush(handle[p]) /\ handle[p].head < MAX_HEAD
  /\ proc' = [proc EXCEPT ![p] = Flushing(handle[p])]
  /\ UNCHANGED << store, handle >>

\* put_delta_pages: the pages, under the txid after the head.
PutDelta(h, P) == delta' = Over([r \in {h.head + 1} \X P |-> h.dirty[r[2]]], delta)

\* Variant: the rows of the last transaction's pages, as put_delta_pages has its pages.
IndexOfLastChunk(h) ==
  [pg \in {x \in DOMAIN pidx \cup DOMAIN h.dirty : h.trunc < 0 \/ x < h.trunc}
           \ {x \in DOMAIN h.dirty \ DOMAIN pidx :
                Cardinality({y \in DOMAIN h.dirty : y > x}) >= STAGE_TXN_PAGES} |->
     IF pg \in DOMAIN h.dirty THEN h.head + 1 ELSE pidx[pg]]

\* put_head's index rows: those of the pages written, less those at or above a truncate.
Index(h) ==
  [pg \in {x \in DOMAIN pidx \cup DOMAIN h.dirty : h.trunc < 0 \/ x < h.trunc} |->
     IF pg \in DOMAIN h.dirty THEN h.head + 1 ELSE pidx[pg]]

\* put_head.
PutHead(h) ==
  /\ pidx' = Index(h)
  /\ size' = h.size
  /\ logn' = h.log + Cardinality(DOMAIN h.dirty)
  /\ head' = h.head + 1

\* should_compact.
ShouldCompact(h) == h.log > 0 /\ h.base <= h.log

\* Variant: the window outlives the commit.
FlushedKeepsWindow(h) ==
  LET g == [h EXCEPT !.head = @ + 1, !.sent = h.size, !.log = @ + Cardinality(DOMAIN h.dirty),
                     !.dirty = << >>, !.trunc = -1]
  IN  [g EXCEPT !.due = @ \/ ShouldCompact(g)]

\* The end of flush: the buffer and the window go, and a fold may be owed.
Flushed(h) ==
  LET g == [h EXCEPT !.head = @ + 1, !.sent = h.size, !.log = @ + Cardinality(DOMAIN h.dirty),
                     !.dirty = << >>, !.trunc = -1, !.win = << >>]
  IN  [g EXCEPT !.due = @ \/ ShouldCompact(g)]

\* fdb_close after its flush: the fold that is owed, and then the file is closed.
\* A commit that is not a close is over.
AfterFlush(p, h) ==
  IF ~ proc[p].closing THEN Idle
  ELSE IF h.due /\ h.size > 0 THEN [Idle EXCEPT !.pc = "fold", !.todo = 0..(h.size - 1), !.closing = TRUE]
  ELSE Down

\* The handle that goes with it: none once the file is closed.
Kept(next, h) == IF next.pc = "down" THEN Closed ELSE IF next.pc = "fold" THEN [h EXCEPT !.due = FALSE] ELSE h

\* commit_body.
Commit(p) ==
  /\ proc[p].pc = "commit" /\ Owns(p)
  /\ PutDelta(handle[p], DOMAIN handle[p].dirty)
  /\ PutHead(handle[p])
  /\ LET h == Flushed(handle[p]) IN Answer(p, AfterFlush(p, h), Kept(AfterFlush(p, h), h))
  /\ UNCHANGED << fence, shard, shardn >>

\* delta_body, for the next pages.
Stage(p) ==
  /\ proc[p].pc = "stage" /\ Owns(p)
  /\ LET P    == Lowest(proc[p].todo, STAGE_TXN_PAGES)
         left == proc[p].todo \ P
     IN  /\ PutDelta(handle[p], P)
         /\ Answer(p, [proc[p] EXCEPT !.todo = left, !.pc = IF left = {} THEN "head" ELSE "stage"],
                   handle[p])
  /\ UNCHANGED << head, size, fence, logn, pidx, shard, shardn >>

\* head_body.
MoveHead(p) ==
  /\ proc[p].pc = "head" /\ Owns(p)
  /\ PutHead(handle[p])
  /\ LET h == Flushed(handle[p]) IN Answer(p, AfterFlush(p, h), Kept(AfterFlush(p, h), h))
  /\ UNCHANGED << fence, delta, shard, shardn >>

-------------------------------------------------------------------------------
(* Folding.                                                                  *)

\* weft_compact_due, and the start of compact.  The fold is as of the head.
CompactDue(p) ==
  /\ proc[p].pc = "idle" /\ handle[p].due
  /\ handle[p].trunc < 0 \/ "truncate" \in Faults
  /\ handle' = [handle EXCEPT ![p].due = FALSE]
  /\ proc' = IF handle[p].size = 0 THEN proc
             ELSE [proc EXCEPT ![p] = [Idle EXCEPT !.pc = "fold", !.todo = 0..(handle[p].size - 1)]]
  /\ UNCHANGED store

\* fold_read_body: the pages of a window that are there, as a reader sees them.
FoldRead(p) ==
  /\ proc[p].pc = "fold"
  /\ LET Got(pg) == PageFromStore(p, handle[p].as_of, pg)
     IN  proc' = [proc EXCEPT ![p].pc = "fold_write",
                    ![p].buf = [pg \in {x \in Lowest(proc[p].todo, STAGE_TXN_PAGES) : Got(x) # Zero} |->
                                  Got(pg)]]
  /\ UNCHANGED << store, handle >>

\* fold_write_body.
FoldWrite(p) ==
  /\ proc[p].pc = "fold_write" /\ Owns(p)
  /\ LET buf  == proc[p].buf
         left == proc[p].todo \ Lowest(proc[p].todo, STAGE_TXN_PAGES)
     IN  /\ shard' = Over([r \in {handle[p].head} \X DOMAIN buf |-> buf[r[2]]], shard)
         /\ Answer(p, [proc[p] EXCEPT !.todo = left, !.kept = @ + Cardinality(DOMAIN buf), !.buf = << >>,
                                      !.pc = IF left = {} THEN "finish" ELSE "fold"],
                   handle[p])
  /\ UNCHANGED << head, size, fence, logn, pidx, delta, shardn >>

\* finish_body's rows: the marker, no log, and no version below the new one.
FinishRows(p) ==
  /\ shardn' = [v \in {x \in DOMAIN shardn : x > handle[p].head} \cup {handle[p].head} |->
                  IF v = handle[p].head THEN proc[p].kept ELSE shardn[v]]
  /\ pidx' = << >> /\ delta' = << >> /\ logn' = 0
  /\ shard' = Only(shard, {r \in DOMAIN shard : r[1] >= handle[p].head})

\* finish_body, and the end of compact.
Finish(p) ==
  /\ proc[p].pc = "finish" /\ Owns(p)
  /\ FinishRows(p)
  /\ LET next == IF proc[p].closing THEN Down ELSE Idle
     IN  Answer(p, next, Kept(next, [handle[p] EXCEPT !.as_of = handle[p].head, !.base = proc[p].kept,
                                                      !.log = 0, !.win = << >>]))
  /\ UNCHANGED << head, size, fence >>

-------------------------------------------------------------------------------
(* Refusal, failure, the end.                                                *)

\* The transaction is given up, and flush or compact with it.  The buffer stays.
GiveUp(p) ==
  /\ proc' = [proc EXCEPT ![p] = IF proc[p].closing THEN Down ELSE Idle]
  /\ handle' = [handle EXCEPT ![p] = IF proc[p].closing THEN Closed ELSE @]
  /\ UNCHANGED store

\* SQLITE_READONLY: somebody else opened the database.
Refused(p) ==
  /\ proc[p].pc \in {"commit", "stage", "head", "fold_write", "finish"} /\ ~ Owns(p)
  /\ GiveUp(p)

\* The transaction p is at has landed, and p was not told.
Landed(p) == \/ proc[p].pc \in {"commit", "head"} /\ head > handle[p].head
             \/ proc[p].pc = "finish" /\ handle[p].head \in DOMAIN shardn

\* An error FoundationDB does not let run_txn retry.
Fails(p) ==
  /\ "late" \in Faults \/ ~ Landed(p)
  /\ \/ "flush" \in Faults /\ proc[p].pc \in {"commit", "stage", "head"}
     \/ "fold" \in Faults /\ proc[p].pc \in {"fold", "fold_write", "finish"}
  /\ GiveUp(p)

\* fdb_close.
Close(p) ==
  /\ proc[p].pc = "idle"
  /\ LET h    == handle[p]
         next == IF ToFlush(h) THEN Flushing(h)
                 ELSE IF h.due /\ h.size > 0 THEN [Idle EXCEPT !.pc = "fold", !.todo = 0..(h.size - 1)]
                 ELSE Down
     IN  /\ ToFlush(h) => h.head < MAX_HEAD
         /\ proc' = [proc EXCEPT ![p] = [next EXCEPT !.closing = (next.pc # "down")]]
         /\ handle' = [handle EXCEPT ![p] = Kept(next, h)]
  /\ UNCHANGED store

\* crash_point, or the machine.
Crash(p) ==
  /\ proc[p].pc # "down"
  /\ proc' = [proc EXCEPT ![p] = Down]
  /\ handle' = [handle EXCEPT ![p] = Closed]
  /\ UNCHANGED store

Next == \E p \in Proc : \/ Start(p) \/ Open(p) \/ Prefetch(p) \/ Write(p) \/ Truncate(p) \/ Sync(p)
                         \/ Commit(p) \/ Stage(p) \/ MoveHead(p)
                         \/ CompactDue(p) \/ FoldRead(p) \/ FoldWrite(p) \/ Finish(p)
                         \/ Refused(p) \/ Fails(p) \/ Close(p) \/ Crash(p)

Spec == Init /\ [][Next]_vars

-------------------------------------------------------------------------------
(* Properties.                                                               *)

\* The file as whoever opens the database next reads it.
File == [pg \in 0..(size - 1) |-> StorePage(NewestShard, pg)]

\* The process that may write the database.
Owner == IF \E p \in Proc : Owns(p) THEN CHOOSE p \in Proc : Owns(p) ELSE NoOne

\* The version process p reads: a finish whose answer was lost has landed, and its
\* retry ends on the new version before anything is read.
BaseOf(p) == IF proc[p].pc = "finish" /\ Landed(p) THEN handle[p].head ELSE handle[p].as_of

\* The file as process p reads it, with what it wrote.
Draft(p) == [pg \in 0..(handle[p].size - 1) |-> ReadPage(p, BaseOf(p), pg)]

Atomic == INSTANCE AtomicFile WITH Process <- Proc, Value <- Val, file <- File, owner <- Owner,
                                   draft <- IF Owner = NoOne THEN << >> ELSE Draft(Owner)

\* The store is an atomic file.  Whatever is staged, folded, fetched ahead, refused
\* or lost, and wherever a process dies, the file goes from one commit of its owner to
\* the next in one step, and the owner reads that file with its own writes on top
\* (fdb_vfs.c 958-960, 1066-1068, 1127-1128, 634-638).
FileIsAtomic == Atomic!Spec

\* A commit that SQLite is told of is in the store: the step that ends a flush with
\* success leaves the file as the process reads it.  "A store may refuse a write, and
\* it may not accept a write and drop it" (fdb_vfs.c 917-919).
AcceptedIsStored ==
  [][\A p \in Proc : proc[p].pc \in {"commit", "head"} /\ handle'[p].head = handle[p].head + 1
       => File' = Draft(p)]_vars

\* The page counts that decide when to fold, which the owner keeps and never reads
\* back, are those of the store: nothing between two transactions loses count
\* (fdb_vfs.c 338-343, 710-711).
CountsInStep ==
  \A p \in Proc : Owns(p) /\ proc[p].pc = "idle" =>
    /\ handle[p].log = logn
    /\ handle[p].base = IF NewestShard = 0 THEN 0 ELSE shardn[NewestShard]
    /\ Cardinality(DOMAIN pidx) <= logn
===============================================================================
