# A formal model of the Queen's ward

This directory holds TLA+ modules for the core of `fabric-physics-service`: a ward of the
Gyre, games of several wards, the planner that spends a ward's money, the page store and the
group commit its databases land with, the WebTransport session its players type into, and the
freezing of what players built. TLC checks the modules on small instances; TLAPS
proves some of the properties for every size. Paths below are relative to the repository
(`src/queen.c` is the file the map calls `src/src/queen.c`).

## 1. The system

| component | state | operations | talks to |
| --- | --- | --- | --- |
| ward (`src/queen.c`, `src/ward.h`) | `gyre_t`: cycle, treasury, debt, issued, retired, spent, found, the Sparks; one SQLite database for the ward, one for each Spark | `found_ward`, `cycle`, `build_venue`, `pay_alone`, `honest`, `migrate`, `shard` | planner (a call), store plane (SQLite through the VFS, group calls) |
| commands (`src/interactor.c`) | none of its own | `/look`, `/cycle`, `/commission`, `/pay`, `/restart`, `/quit` | ward (calls), transports (a line in, CBOR out) |
| planner (`src/planner.cpp`, `thirdparty/taskweft/tw_planner.hpp`) | a copy of the ward's view | `queen_plan` | none |
| group commit (`thirdparty/store-plane/fdb_vfs.c`) | in FoundationDB: HEAD, FENCE, DELTA, SHARD, PIDX of each database, records under `weft/txn`; in memory: `FdbFile` handles and `g_group` | begin, join, stage, record, resolve, abort, recover, open | FoundationDB, other processes through it |
| page store (same file) | the same | read, write, flush, truncate, compact, read-ahead | SQLite above, FoundationDB below |
| WebTransport (`src/wt.c`) | one `wt_session_t` with sixteen seats | data, FIN, provide-data, reset, connect | picoquic/h3zero (callbacks), commands (`weft_ask`) |
| names and places (`src/wire.h`) | none | `wire_id`, `uuid8`, `spark_home`, ... | ward |
| shards (`src/queen.c`) | several wards | `shard`, `migrate`, `honest_across`, `named_apart` | wards |
| freeze on settle (`bench/freeze.c`) | a counter of stillness for each body's place in the model | `weft_freeze_tick`, `weft_thaw` | MuJoCo (the spec, the model, its islands) |
| RNG (`src/rng.h`) | ChaCha20 state | `rng_next`, `rng_below` | ward |

What is hard in it:

* **Failure half way.** A cycle is some forty statements on several databases. Memory moves
  with each, and is never rolled back; the databases are.
* **Two databases, one event.** A payment is a row in the ward's ledger and a purse in a
  Spark's database. The store has only single transactions, and the group commit builds the
  rest out of a record and recovery.
* **Crash and concurrent recovery.** A process may die between any two FoundationDB
  transactions, and any other process may be opening the same databases at that moment.
* **Interleaved streams.** Commands come in pieces, on many streams of many connections, into
  one small table of seats.
* **Answers that are lost.** A transaction may land and be run again, and what a process keeps
  in its handle (head, counts, a prefetched window) must still agree with the store.
* **Places that move.** A migration moves a Spark between two wards' books, and a freeze moves
  the places that counters go by.
* **Boundaries.** Cycle 0, a full board, a full group, a full ward, a full line, a full table.

The properties that make each component correct, and where each hazard bites, are listed in
`PROJECT.json` under `hazards`; section 4 says what the runs show about them.

## 2. Modules

| module | models | form |
| --- | --- | --- |
| `Planner` | the Queen's decision, in closed form | operators |
| `PlannerSearch` | `queen_plan` as it runs: the HTN domain and `tw_seek_plan`'s depth-first search | state machine |
| `MCPlanner` | real prices, treasuries on each side of every price | instance |
| `Sums` | summing over the Sparks, as a recursive function | operators |
| `Ward` | one ward: a cycle step by step, the commands, failures | state machine |
| `MCWard` | scaled prices, small boards | instance |
| `AtomicGroups` | what a group commit promises | abstract state machine |
| `GroupCommit` | the parallel commit and its recovery | state machine, refines `AtomicGroups` |
| `AtomicFile` | what the page store promises SQLite | abstract state machine |
| `PageStore`, `MCPages` | one database, page by page | state machine, refines `AtomicFile` |
| `WtSession`, `MCWt` | seats, streams and replies | state machine and instance |
| `Wire` | names and places | operators |
| `Shard`, `MCShard` | a game of several wards; uses `Wire` | state machine and instance |
| `Freeze`, `MCFreeze` | freezing and thawing | state machine and instance |
| `SumsProofs`, `PlannerProofs`, `WardHonesty`, `GroupProofs`, `PageProofs`, `WtProofs`, `ShardProofs`, `FreezeProofs` | theorems | proofs |

`GroupCommit` and `PageStore` look at the same file from two sides: the first has several
databases of one page, and groups; the second one database of several pages, and no group.
`Shard` takes from `Ward` what a committed cycle does to a ward's sums, and from the page
store that a database opened again can no longer be written through the older handle.

### PlannerSearch and its code

`stack` holds the calls of `tw_seek_plan` in progress: each with its copy of the ward, the tasks
it has not walked yet, the prefix of actions it has done, its fuel, and the method it tries next.
One step is one task walked (`WalkHold`, `WalkCommission`, `WalkEnds`), the turn to branching
(`Branch`), one method tried (`TryMethod`, which calls) or one return taken up by the caller
(`Back`). `Decide` is the end of `queen_plan`. A commission whose precondition fails ends its
whole call, and the caller goes on with its next method, as in the code. The methods of each task
are in the order `ward_domain` pushes them.

Left out: the memo caches, which repeat an answer; the method statistics, which reorder methods
only on evidence of a success, and after a success this search only returns; the witness oracle
and the blacklist, of which the ward's domain has nothing. The wall clock is a fault of `Ward`.

### Ward and its code

`cycle, treasury, debt, issued, retired, spent, found, nsparks, sparks` are the fields of
`gyre_t`. Each database exists three times: `Db` is what its connection reads, `Saved` what a
`ROLLBACK` goes back to, `Store` what is durable. The three differ because a participant that
staged keeps its pages in its handle even when the group is then refused
(`fdb_vfs.c` 1361-1364), and its next flush writes them: that of a later statement, or that of
its own close.

`cycle()` is split where a statement can fail: `StartCycle`, `QueenBuilds`/`QueenHolds`,
`PostBoard`, one `SparkWorks`/`SparkSkips` for each turn of the loop, `DebtClock`,
`CommitCycle`, `Arrive`. Each has a failing twin, enabled by an element of the constant
`Faults`. "Early" faults happen before a wage is paid in memory, "late" ones between a wage
and its commit. Commands are single steps, because the poll loop of `serve` runs one at a
time. `Serving` tells `queen serve`, which goes on after a failed command, from `queen play`
and `check`, which stop.

Closing is a loop of its own: `close_ward` closes the Sparks in their order and the ward last
(`queen.c` 797-800), and `fdb_close` flushes each handle (`fdb_vfs.c` 1876-1878), so
`CloseSpark` and `CloseWard` land whatever a refused group left staged, one database at a time,
unless the flush itself fails ("close" in `Faults`), which nobody is told. `/restart` closes the
same way and then founds the ward again in separate commits: the ward's tables are dropped and
created (`Reopen`, `FoundTables`), its rows written (`FoundRows`), and each Spark founded
(`FoundSpark`). The process may die, or `found_ward` fail (`FoundFails`), after any of them.

Abstracted: the RNG (a choice among `Draws`, and of whether a contract is kept), names, UUIDs
and places, the text of replies, and of the ledger all but the wages. A failing `SELECT` inside `scalar()`,
which answers -1 and lets the caller go on, is not modelled, and neither is the width of
integers: amounts stay far below 2^31 within the bounds.

### GroupCommit and its code

One step is one `run_txn` body, which FoundationDB makes atomic and serializable. `head`,
`fence`, `delta`, `status`, `rows`, `next` are the keys; `handle` is each process's `FdbFile`
and `proc` its position with `g_group` or `recover_ctx`. A database is one page, whose content
is the set of groups it carries: a page written over another carries what that one did, so a
lost or a premature write is visible as a missing or a foreign element. `Exclusive` restricts
a run to one live process at a time, which is the deployment `src/queen.c` 1066-1069 describes. A
retried transaction is one step: `run_txn` repeats a body until it is decided, or gives it up on
an error that may not be retried. `Faults` names the steps of a commit in which it may give up
though the fence is intact ("stage", "record", "resolve"); in an open or a recovery that ends the
process, as a crash does.

### PageStore and its code

`head, size, fence, logn, pidx, delta, shard, shardn` are the keys under a database's name;
`handle` is each process's `FdbFile` and `proc` its position, with `fold_ctx` while it folds.
One step is one attempt of a `run_txn` body. Its answer may be lost (`Answer`): the step then
lands and the process is where it was, so it runs the body again, as `run_txn` does after a
retryable error. The dirty buffer, the pending truncate and the read-ahead window are in the
handle, and what a reader is told goes through all of them, as in `read_body`. `ra_depth`'s
score and how far a range read reaches are choices.

SQLite is external. It writes whole pages here, and grows the file by one page at its end; a
page's content is the open and the commit it was written for. `Faults` adds errors that
`run_txn` gives up on ("flush", "fold"), which the passing run has, and three circumstances it
leaves out: an error of the second range read of `ra_fill` ("range"), a write after a truncate
that is still pending ("truncate"), and an error that is not retried after a transaction that
had landed ("late"). Section 4 says what each leads to.

Left out: writes of part of a page, the refusal of a commit past `MAX_TXN_PIDX`, `vfs_delete`
and `vfs_access`.

### Shard and its code

`w` is `shard()`'s array and `db` the Sparks' databases, by the ward that founded them and
the id, which is how `join_ward` names them. `found_ward`, `cycle`, `migrate` and the checks
are called in the code's order; a call that fails ends the game where the code does, with the
books as they then are. An arrival comes after its cycle's commit: `join_ward` asks for room again
and may fail with the Spark's database opened or its tables dropped (`ArrivalFails`), and the game
ends with a committed cycle. `honest_across`, `gather_wires` and `named_apart` are the code's
checks, the bound `CAP` included, so a property about what the run reports compares them with
the state they look at. A cycle chooses what the Queen buys (the Rails or the Row), which of
the working Sparks keep their contract and which are paid; amounts are constants.

`named_apart` never sees the Queen's own name, which is as in the code. A ward that is
reached by a migration holds a Spark whose database another ward's prefix names: `home` says
which.

### Wire

`wire_id` is a product and a sum where the code shifts and masks, which is the same for what
`Fits` lets through. Places are in metres.

### Freeze and its code

`bodies` is MuJoCo's order of the bodies, and `still_for` goes by position in it, as
`weft_freeze_t.still_for` does. At each tick any body may move, those in `Spinners` may turn in
place, and any bodies may share an island. `moving` is what `body_speed` measures, the linear part
of `cvel`: a body that turns in place is not in it. A tick finds the model changed (`Resize`), or
counts and promotes (`Promote`), or has no memory (`Skip`). `Ripe` is the list the two nested
loops fill, island by island, until it holds `max_per_tick` bodies. `mj_recompile` is taken to keep
the order of the bodies that stay and to put a new one last. `Faults` may hold "alloc": a
`malloc` or `calloc` of a tick fails.

Left out: what MuJoCo may refuse (a body that is not found, a geom that is not added, a delete or
a recompile that fails after the spec was edited: `freeze.c` 150, 158, 189, 198, and the same
calls of `weft_thaw`), and bodies with children, which `mjs_delete` takes along.

### WtSession and its code

`seats` is `wt_session_t.s`; a callback is one step. picoquic and h3zero are external: they
deliver bytes in order, cut anywhere, and ask an active stream for data. A byte is the pair of
its stream and position, so what the ward is asked says exactly what was kept of what was
typed. A carriage return or newline inside a command, which the callback skips, is not
modelled. `refused` and `owed` are history: that a stream's bytes found every seat taken, and
that the ward has answered it. The branch where picoquic has no buffer for a reply it asked for
is not modelled.

## 3. Bounds and fairness

| run | instance | why it is enough |
| --- | --- | --- |
| `planner` | all 64 sets of built venues, 15 treasuries, 3 wears, 2 rooms, real prices | the answer changes only at a price plus the reserve, at wear 60 and at room 0; both sides of each are in; every search runs to its end, with `TW_MAX_DEPTH` as fuel |
| `ward_play` | 3 Sparks, board of 1 or 2, 3 cycles; failures of a begin, a join, the planner, the board, a contract, the clock, an arrival, a close | more Sparks than contracts; the first cycle builds the Rails, so the board grows and the group reaches its limit; every failure leads into the close of four handles |
| `ward_serve` | 1 Spark and room for 1, board of 1 or 2, 2 cycles between restarts; every early failure and a failing `found_ward` | the Row can be bought and a Spark arrive, every command interleaves with both cycles, and a `/restart` can come after each |
| `ward_fail` | 2 Sparks, board of 1, 2 cycles, wages staged up to 60; failures of a contract, the clock, a COMMIT, a record, a close | a refused payment is retried and followed by a cycle that carries what it left; both Sparks can be the one paid |
| `group_crash` | 2 databases, 2 groups, 4 starts, heads up to 2 by plain flushes | a commit, a crash in it, a crash in its recovery and a second recovery, with a record of each kind left over |
| `group_two_owners` | the same with 2 live processes, and any step of a commit given up | every pair of steps of opening, recovering and committing interleaves |
| `wt` | 2 connections of 2 streams, one id in common; 2 seats, lines of 2 bytes, commands of 1 to 3, replies of 2 packets, 1 trouble | two commands meet in a seat and overrun the line, others are refused one; a reset, a dead connection or a silent ward comes anywhere in between |
| `pages` | 2 processes, 2 pages, 2 commits, 2 opens, 1 page to a transaction | a commit of 2 pages is staged, a fold takes 2 windows; the second open interleaves with every step of the first process, and a fold of the second commit replaces that of the first |
| `shard` | wards of 3 Sparks in arrays of 5, 1 contract, up to 10 Sparks and 4 cycles; `CAP` of 6 names | a game of no ward, of one too many, a migration into a ward with room and into a full one, arrivals before and after it, more names than `CAP` |
| `freeze` | 3 things, one of 2 geoms and one that spins, and an avatar between them; 1 island; 2 ticks of stillness, 2 bodies to a tick, 1 thaw | three may be ready where a tick freezes two, on their own or as one stack; a freeze moves the other bodies' places and a thaw moves them again; stacks with and without the avatar |

`TXN_MAX_RECOVER` is 1 in the passing group runs, so that a sweep is always full and the loop
goes round again. Prices in `MCWard` are a third of the code's, in the same order.
`MAX_CYCLE`, `MAX_WAGES`, `MAX_GROUPS`, `MAX_HEAD`, `MAX_STARTS`, `MAX_PAGES`, `MAX_FENCE`,
`MAX_TROUBLES` and `MAX_THAWS` bound counters and appear in guards only. Names in `Shard` are
the real ones of `wire.h`. Runs do not check for deadlock: a bounded game ends.

Fairness is assumed in five places. `PlannerSearch!FairSpec`: `queen_plan` is a plain call and
goes on. `Ward!FairSpec`: a cycle that has begun goes on, because
the process is single threaded and `cycle()` is a loop over the Sparks; nothing makes a player
type. `GroupCommit!FairSpec`: a process that is recovering goes on, because `weft_txn_recover`
is a plain loop; nothing makes a process commit, and it may crash at any time.
`WtSession!FairSpec`: an active stream is asked for data, which is picoquic's contract with
`picoquic_mark_active_stream`. `Freeze!Spec`: the caller keeps ticking; nobody has to grab
anything, and that nothing moves any more is a premise of the property.

## 4. What the runs show

**The planner** decides what its lines of business say (`SearchAgrees`): the search with its
backtracking always ends (`SearchEnds`), and in a plan, and a line that still wants something holds instead of
letting a cheaper venue of a later line through. Whole plans, not only their first purchase,
leave the reserve (`PlanIsFunded`).

**A ward that is played** keeps its durable state whole at every instant, the close of its
handles included (`TransfersAreWhole`, `StoreBalances`), through every failure that rolls the
databases back. That leaves out a COMMIT or a record that is refused, and for the balance a
statement of `build_venue`: the table below has what they do. The group never refuses a participant
(`GroupFits`). In a cycle the Queen built in, every Spark that works is paid
(`ReservePaysEveryone`). A cycle that began ends (`CycleEnds`).

**A ward that is served** conserves scrip at every statement boundary, and memory agrees with
the databases between commands, as long as nothing fails after a wage was paid (`Honest`,
`MemoryIsDatabase`). When late failures are allowed too, a purse still never durably holds more
than the ledger paid (`PursesAreBacked`), for as long as the ward is open: a close flushes the
Sparks first.

**The group commit**, one process at a time, implements `AtomicGroups` across crashes in the
commit and in the recovery (`GroupsAreAtomic`); no reader sees a group without a record
(`OnlyLandedIsVisible`), and heads only advance (`HeadsOnlyAdvance`), however often a recovery is
cut short and begun again by the next process. With two live processes the fence still admits
one writer (`OneWriter`) and recovery ends (`RecoveryEnds`).

**The page store** implements an atomic file (`FileIsAtomic`): staging, folding, fetching
ahead, lost answers, refusals and crashes are not to be seen, by the owner or by who opens
next. A commit SQLite was told of is in the store (`AcceptedIsStored`), and the counts that
decide on a fold, which no one reads back, stay true (`CountsInStep`).

**A game of several wards** keeps every ward's own books through the migration, in memory
(`EveryWardIsHonest`) and in the store (`StoreConserves`): an arrival does repeat an id and
drop a database, but of a Spark that never worked, because a full ward has far more Sparks
than contracts. A Spark's name says who holds it (`NamesSayTheirWard`), so the game's report is
true of the names beyond `CAP` as well, within a ward and across wards, and of the handles it never
tried (`ReportIsTrue`). The
rows of the wards are right again one cycle after the migration (`RowsCatchUp`), and the zone
is exceeded by the migrant alone (`ZoneHoldsButOne`).

**Freezing** takes only what kept its place itself (`FrozenWasStill`), loses nothing
(`ThingsAreWhole`), and ends (`EverythingSettles`). `StacksFreezeWhole` says what becomes of
"you cannot freeze half of one" (`freeze.c` 91-92): a tick that spends its budget may cut a stack,
one at most, and nothing else ever cuts one.

**The session** asks the ward a command that fits the buffer whole (`AskedIsTyped`), answers on the
same stream to the end, holds one seat for each stream (`SeatsAreDistinct`) and gives it back,
for every stream that got a seat and whose id no other connection uses. Of the others, a line
still never mixes stream ids, nor swaps, repeats or skips bytes of a stream (`LinesAreRuns`).

### Where the code and its comments disagree

Two runs find a behaviour that a comment of the repository rules out. Each is a finding in
`PROJECT.json`, with the quoted line.

| run | property | what happens |
| --- | --- | --- |
| `ward_torn` | `TransfersAreWhole` | a Spark's COMMIT fails after the ward has staged; the ward's next flush lands its half of the payment alone |
| `group_open_race` | `GroupsAreAtomic` | an open in another process, whose sweep came before a record and whose open comes before its resolve, drops a committed group |

The same modules refute more such claims. They have no run of their own; the constants to
change are given, everything else as in the named configuration.

| claim | start from | change | what happens |
| --- | --- | --- | --- |
| `SpentIsPlaces`, of `queen.c` 342-343 | `WardTorn.cfg` | `Faults = {}` | `/commission` before the first cycle stamps the venue with 0, which means not built: the scrip is gone and no place stands for it |
| `Honest`, of `queen.c` 746-747 | `WardTorn.cfg` | `Faults = {"work"}` | a failed cycle leaves the treasury moved while its wages are rolled back |
| `Honest`, of `queen.c` 580-582 | `WardTorn.cfg` | `Faults = {"record"}` | a refused payment is undone in memory, and the connections still read it |
| `NeverHung`, of `fdb_vfs.c` 1433-1434 | `WardTorn.cfg` | `Faults = {"join"}` | `group_begin` keeps the group lock when the ward cannot join, and the next command waits for ever |
| `TransfersAreWhole`, of `queen.c` 534-536 | `WardPlay.cfg` | `Faults = {"record"}`, or `{"commit"}` | `play` stops and closes the ward, and each handle flushes what it had staged, one after the other: after a refused record the purses are durable before the ledger, after a failed COMMIT the ledger without the purse that was rolled back |
| `StoreBalances`, of `queen.c` 592-598 | `WardPlay.cfg` | `Faults = {"record"}`, or `{"commit"}` | the same |
| `StoreBalances`, of `queen.c` 592-598 | `WardPlay.cfg` | `Faults = {"build"}` | the price of a venue has left the treasury when its UPDATE fails; `cycle()` takes the answer for a Queen who held and commits |
| `FoundedAtOnce`, of `interactor.c` 164-165 | `WardServe.cfg` | `Faults = {}` | `/restart` commits the ward's new ledger before it founds the Sparks: a process that dies between leaves a ledger without wages beside the old purses |
| `HeadsOnlyAdvance`, of `fdb_vfs.c` 1557-1558 | `GroupOpenRace.cfg` | `MAX_GROUPS = 2`, `MAX_HEAD = 1`, `MAX_STARTS = 3` | recovery acts on a head it read in an earlier transaction, and writes it back over a later commit |
| `OnlyLandedIsVisible`, of `fdb_vfs.c` 1251-1252 | `GroupOpenRace.cfg` | `Exclusive = TRUE`, `Faults = {"resolve"}`, `MAX_GROUPS = 2` | after a failed resolve the next group stages under the same txid, and recovery of the first makes the second visible |
| `FileIsAtomic`, of `fdb_vfs.c` 503-505 | `Pages.cfg` | "range" in `Faults` | `ra_fill` keeps its window when the read of the shard fails, and the retried read is told that stored pages are holes |
| `FileIsAtomic`, of `fdb_vfs.c` 966-967 | `Pages.cfg` | "truncate" in `Faults` | a page written after a truncate that is still pending loses its index row to it |
| `FileIsAtomic`, of `fdb_vfs.c` 1066-1068 | `Pages.cfg` | "late" in `Faults` | a commit has landed, the process is told it failed, and goes on from the old head |
| `IdsAreUnique`, of `queen.c` 226-227, 239-240 | `Shard.cfg` | `Faults = {}` | after the migration the next arrival in the ward that was left is given the id of its last Spark |
| `ZoneHolds`, of `queen.c` 208-209 | `Shard.cfg` | `Faults = {}` | the migration into a full ward |
| `AnswersEachItsOwn`, of `wt.c` 34 | `Wt.cfg` | nothing | streams of one id on two connections share a seat, and one is sent the other's answer |
| `AskedIsWhole`, of `wt.c` 99-100 | `Wt.cfg` | nothing | a command longer than the buffer is truncated and run |
| `AskedIsWhole`, of `wt.c` 97 | `Wt.cfg` | `WT_MAX_STREAMS = 1`, `WT_LINE_MAX = 3` | a stream refused a seat is given one later, and the tail of its command is run |
| `SpinningIsMoving`, of `freeze.c` 33-35 | `Freeze.cfg` | nothing | a body that spins in place counts as still and is frozen |
| `FrozenWasStill`, of `freeze.h` 37-38 | `Freeze.cfg` | `Faults = {"alloc"}` | the counters keep their old length, a thaw brings the count of bodies back to it, and a counter is read for another body |
| `ThingsAreWhole`, of `freeze.c` 217 | `Freeze.cfg` | `MAX_IDS = 1` | a thing of more geoms than a thaw collects leaves some of them in the world |

`group_open_race` and the `HeadsOnlyAdvance` case need a second live process, which the
deployment avoids and the store's comments claim to survive; the `resolve` case needs a
FoundationDB error that `run_txn` gives up on, in a process that lives on. So does the "late"
case of the page store; "truncate" needs SQLite to build on a truncate whose flush failed.

## 5. What is proved

| theorem | statement | assumptions |
| --- | --- | --- |
| `PlannerProofs!SearchIsTheDecision` | `[]SearchAgrees` | `PlannerBounds`, `FuelSuffices` |
| `PlannerProofs!PlansAreFunded` | `[]PlanIsFunded` | the same |
| `WardHonesty!TypeCorrect` | `[]TypeOK` | `WardConstants`, `BoardFitsGroup` |
| `WardHonesty!GroupAlwaysFits` | `[]GroupFits` | the same |
| `WardHonesty!ScripIsConserved` | `[]Honest` | the same, and no late fault |
| `WardHonesty!NoPurseIsUnbacked` | `[]PursesAreBacked`, of a ward that is open | none more, whatever fails |
| `WardHonesty!PaymentsAreWhole` | `[]TransfersAreWhole` | no COMMIT and no record is refused (`StagedFaults`) |
| `WardHonesty!WholeUntilClosed` | `[](pc \in Open => TransfersAreWhole)` | the ward does not serve on; whatever fails |
| `WardHonesty!MemoryIsKept` | `[]MemoryIsDatabase` | no late fault in a ward that serves on |
| `WardHonesty!StoreAlwaysBalances` | `[]StoreBalances` | the ward does not serve on, no `StagedFaults` and no "build" |
| `WardHonesty!EveryoneIsPaid` | `ReservePaysEveryone` | none more, whatever fails |
| `GroupProofs!DatabaseHasOneWriter` | `[]OneWriter` | `GroupConstants` |
| `GroupProofs!UnlandedIsUnseen` | `[]OnlyLandedIsVisible` | the same, `Exclusive` and `Faults = {}` |
| `GroupProofs!NoHeadGoesBack` | `HeadsOnlyAdvance` | the same |
| `GroupProofs!CommitIsAtomic` | `GroupsAreAtomic`, the refinement of `AtomicGroups` | the same |
| `PageProofs!CountsAreKept` | `[]CountsInStep` | `PageConstants`, "late" not in `Faults` |
| `PageProofs!StoreIsAnAtomicFile` | `FileIsAtomic`, the refinement of `AtomicFile` | the same, nor "range" nor "truncate" |
| `PageProofs!AcceptedIsNotDropped` | `AcceptedIsStored` | the same |
| `WtProofs!EveryIdHasOneSeat`, `SeatsComeBack` | `[]SeatsAreDistinct`, `[]SeatsAreGivenBack` | the constants' types |
| `WtProofs!WardHearsWhatWasTyped`, `RepliesAreOwn` | `[]AskedIsTyped`, `[]AnswersItsOwn` | the same |
| `WtProofs!LinesAreNeverTorn` | `[]LinesAreRuns` | the same |
| `ShardProofs!ShardTypes` | `[]TypeOK` | `ShardConstants`, `RangesHold` |
| `ShardProofs!NamesAreTheWards`, `ZoneIsKept` | `[]NamesSayTheirWard`, `[]ZoneHoldsButOne` | the same |
| `ShardProofs!WardsStayHonest`, `RowsHaveCaughtUp` | `[]EveryWardIsHonest`, `[]RowsCatchUp` | the same |
| `ShardProofs!StoreIsConserved` | `[]StoreConserves` | the same, `BoardIsShort` and `CapHoldsAWard` |
| `ShardProofs!ReportsAreTrue` | `[]ReportIsTrue` | the same four |
| `ShardProofs!CyclesAreHonest` | `honest` holds when a ward's cycle is over | `ShardConstants`, `RangesHold` |
| `ShardProofs!NamesAreExact` | equal names have the same ward and local part | both fit |
| `ShardProofs!HomesAreApart` | equal places have the same id | ids below 103 * 109 |
| `FreezeProofs!NothingIsLost` | `[]ThingsAreWhole` | `FreezeConstants`, no thing has more pieces than `MAX_IDS` |
| `FreezeProofs!OnlyTheStillFreeze` | `FrozenWasStill` | `FreezeConstants`, `Faults = {}` |
| `FreezeProofs!OnlyTheBudgetCuts` | `StacksFreezeWhole` | `FreezeConstants`; every `max_per_tick`, whatever fails |

They hold for every number of Sparks, wards, processes, databases, pages, streams, things, for
every price and every bound. An assumption on `Faults` or on a limit is where the property
stops being true: section 4's tables have the counterexample for each. Each inductive invariant
below was first checked by TLC on the configurations of its component.

### Planner

*The search never runs out.* `SearchInv` says why a call that returns without a plan has done
nothing: it could not make its first commission. So every method a waiting call has tried is
dead (it does not apply, or its commission cannot be paid), and because the last method of each
task asks for no scrip, a caller always has a method left. Fuel is bounded below by `Deep`,
which counts the venues of a task's lines that are not built yet and the lines it may still hand
on to; nine is its largest value, against a `TW_MAX_DEPTH` of 400. The invariant speaks of every
call on the stack and of each pair of caller and callee, which takes the place of the induction
over the recursion.

*The decision.* `AgreeInv`: until some call has acted, every call has the view as its state and
aims at what `QueenPlan` names for it; the first act is therefore that one, and prefixes
are only put in front of what later calls return.

*The funds.* `FundInv`: the treasury of every state on the stack is the view's less the price of
what is new in that state, and the reserve is left as soon as anything is; a plan on
its way back bought no more than the state it ended in has paid for. The lemmas of `SumsProofs`
give the price of one venue more.

### Ward

*Types.* `TypeOK` is not inductive: an arrival must find room, which was decided two steps
earlier, and the loop index must be a Spark's. `TypeInv` adds `RoomForArrival` and
`LoopStarted`. The lemmas in front of the proof say what each rule of a cycle returns: that
wear stays in 0..90, and that the clock never takes more than there is.

*The group fits.* A Spark joins after it has taken a contract, so the group is at most as large
as the set of taken contracts. `GroupInv` states that injection as cardinalities, with "a Spark
in the group had its turn"; while a contract is left, one fewer is taken than a board may hold.

*Conservation.* Every action moves scrip between the terms of `Honest`, which the lemmas of
`SumsProofs` (the sum after one term changes, and after one is added) reduce to arithmetic. An
early failure rolls the purses back, so the invariant must say that nothing has happened to
them yet: `HonestInv` adds `sparkSaved = sparkDb` up to the board. With a late failure it is
false, as the two cases of `Honest` in section 4's second table show.

*Durable purses.* A failed group leaves pages in handles, which some later flush makes durable,
so `PursesAreBacked` cannot be inductive alone: `BackedInv` says it of the three copies of the
databases at once, and that a purse only grows from what is durable over what a rollback
returns to up to what is read. Then any mixture of them is backed, until a close flushes the
Sparks before the ward. `WholeInv` says with equality what `BackedInv` says with an order, and
that only a Spark in the group is ahead of the store; between commands every connection then
reads what is stored, so that a close changes nothing. A refused COMMIT or record is the one
failure that breaks this, and in a ward that is played the close follows it at once. `BalanceInv` takes
`HonestInv` and
`SpentIsPlaces` to the commit, where the row about to be stored is the ward's memory.

*The reserve.* `ReserveInv` gives the loop of contracts its bound: after a commission the
treasury covers a wage of 4 for each Spark still to come, and a contract that is won pays for
itself. That the plan left 25 for each Spark is `QueenPlanCan`, from what each method of
the planner's domain checks.

### Group commit

*One writer.* `FencesAreTickets`: no handle is ahead of its database's fence, and no two
handles hold the same ticket. An open takes a ticket above every other; nothing lowers a fence.

*Atomic groups.* `GroupInv`, for one process at a time, says of each database what is
staged, recorded and shown (`Records`, `Shown`), and of each process how far along the commit
or the recovery it is (`Process`). What an opener will find in a database is
`Holds(d)`: the groups under its head, and the recorded ones that are still to be resolved.
`WriteRecord` adds the group to `Holds(d)` of all the databases it wrote; every other step,
crash and recovery included, leaves `Holds` as it is. That is the refinement.

### Page store

*Counts.* `StepInv`: fences are distinct and bounded by the store's; markers are at or
below the head; the index is no larger than the log's count; and the owner's handle either
has the store's counts or stands before the transaction that will write what landed
without an answer (`Knows`). With "late" the handle goes on from there without that retry.

*The file.* `ViewInv` says of the owner what makes its draft its buffer over the file
(`DraftIs`): every page of it is in one or the other, a truncate is in force, the
window repeats the file, and it reads the newest version. It says as well how far a fold or a
staged commit is: the pages it is through with are in the new version, or in the log. Each
action then has one lemma with two conclusions, that `ViewInv` is kept and what the step is
to the file (`Effect`): nothing, a landing draft, a written page or a cut; an open has one of
its own. `EffectIsAtomic` maps these to the steps of `AtomicFile`, and `AcceptedIsNotDropped`
follows from the lemmas of the two transactions that move the head.

### WebTransport session

`SeatInv` needs, besides its two properties, that nothing is sent on a stream after its end.
`OwnInv` says what a seat has buffered of a stream with an id of its own; `RunInv` says
that what any seat holds is a run of bytes already, so that a line made of it is one.

### Sharded games, names and places

`ShardInv` has the types with where the loops of `shard()` are (`Control`) and what names,
ids and zones of a ward are (`WardsInv`). `BooksInv` follows a ward's scrip and salvage through
a cycle in the parts the code has; `RowsInv` says which wards' rows the running cycle has
written. `CyclesAreHonest` shows that `EveryWardIsHonest` is no artefact of the game stopping
when `honest()` fails: it never does.

*The store.* `DbInv` says which database each Spark has and what it says. Before the migration
the Spark at place `k` of a ward has the ward's `k`-th id; afterwards the first ward's ids are
one ahead, until an arrival there repeats the id of its last Spark (`Placed`). Every handle is
the latest of its database, which then says what the Spark has (`Kept`), but for that one
(`Lost`). Its Spark stands past the board, because a board is shorter than a zone
(`BoardIsShort`), so it never worked: its purse is empty and so is the database that
was dropped. The sum over a ward's databases is then the sum over its Sparks' purses; it is taken
over the set of databases, in which the repeated one counts once.

*The report.* After such an arrival two Sparks of the first ward have one name. `named_apart`
fails then, whatever else is in the wards, because the first ward's names are the first it
gathers and fit in `CAP` (`FirstWardIsCompared`, from `CapHoldsAWard`). So a game that reports
success has no `Lost` handle, and names within a ward are apart because venues, Sparks and
contracts have ranges of their own (`RangesHold`).

A name decodes by division. Two ids in one place differ by a multiple of
103 and of 109, because 37 and 23 have inverses there, and so of 11227, because the two are
coprime; the multipliers are in the comment of the theorem. Eight wards of 1384 Sparks are
11072 ids, below the period; no assertion of the code ties the two numbers together.

### Freeze

`FreezeTypeOK` says where the things and their pieces are, in a model in which each stands once.
`CountersAreTrue` says that a counter at a place is how long the body now at that place has
been still; a freeze or thaw that moves places throws the counters away, when there is memory
for new ones.

*Stacks.* `Before` is the order in which the two loops come to the ready bodies, and the ripe are
the first of it (`RipeAreTheFirst`). The bodies of an island follow each other there
(`IslandsBeginApart`). So a body that was ready and left behind had a full budget before it
(`CutHadToWait`), and if two islands were cut the later would have begun before the earlier ended.

### Only model-checked

Liveness (`SearchEnds`, `CycleEnds`, `RecoveryEnds`, `EveryCommandAnswered`,
`EverythingSettles`): it needs fairness and `ENABLED`. The planner's theorems are about a search
that has ended, and `SearchEnds` is what the run adds to them.

## 6. Plan

Done: `Planner`, `Ward`, `GroupCommit`, `PageStore`, `WtSession`, `Wire`, `Shard`, `Freeze`;
a theorem for every safety property a passing run checks, and both refinements.

What could be modelled next: the interest slice of the fanout and the CBOR writer of the
interactor, as operators; writes of part of a page.

A theorem worth having next: what of `FileIsAtomic` is left when an error follows a write
that landed.

## 7. What is not modelled

The RNG's arithmetic; UUIDs; the places of contracts; the width of the debt, which compounds
in an `int`; the chronicle, the description of the ward in a reply and
its CBOR; sockets, timers and picoquic's set-up; argument parsing. The browser client, the other
benches, deployment and CI keep no state of the ward. `thirdparty/gateway-edge`, `spatial-oracle`,
`entity-packet`, `mujoco-riscv64` and the libraries they vendor are other projects; the store
plane's port driver is not linked by the queen.
