--------------------------------- MODULE Ward ---------------------------------
(***************************************************************************)
(* One ward of the Gyre (src/queen.c) and the commands that reach it        *)
(* (src/interactor.c): the treasury in memory, the ward's database and one  *)
(* database for each Spark, and the group commits that tie them together.   *)
(*                                                                          *)
(* The process is single threaded, so a command runs to its end.  A cycle   *)
(* is split into the steps between which a statement can fail, because what *)
(* a failure leaves behind is what the module is about: memory is never     *)
(* rolled back, the databases are.                                          *)
(*                                                                          *)
(* Every database is kept three times: `Db` is what its connection reads,   *)
(* `Saved` what a ROLLBACK returns it to, and `Store` what the store plane  *)
(* has made durable.  A participant whose COMMIT staged and whose group was *)
(* then refused keeps the pages in its connection (fdb_vfs.c 1361-1364,     *)
(* 1435-1442), so its Db runs ahead of its Store until the next flush: a    *)
(* statement outside a group, or the close of its handle.                   *)
(*                                                                          *)
(* Simplifications: the RNG is a nondeterministic choice; wire names,       *)
(* places and UUIDs are in other modules; of the ledger only the wages are  *)
(* kept; a statement that fails leaves its transaction open; an empty table *)
(* and one that is not there read alike.                                    *)
(***************************************************************************)
EXTENDS Integers, FiniteSets, Planner, Sums

CONSTANTS
  COST,             \* VENUES[].cost
  NSPARKS,          \* how many Sparks the ward is founded with
  SPARKS_PER_WARD,  \* how many it may hold
  TXN_MAX_PARTS,    \* databases in one group commit
  BOARD_SIZE,       \* contracts posted a cycle
  RAILS_MORE,       \* how many more the Rails bring
  ARRIVAL_CYCLES,   \* cycles between arrivals
  START_TREASURY,   \* scrip the ward opens with
  START_DEBT,       \* what it opens owing
  Draws,            \* what the RNG can draw for a contract: [risk, more]
  Amounts,          \* the amounts a player types after `/pay`
  Serving,          \* TRUE: `queen serve`; FALSE: `queen play` and `check`
  Faults,           \* the failures that can happen
  MAX_CYCLE,        \* bound on the cycles of a behaviour
  MAX_WAGES         \* bound on the wages a refused payment may leave staged

\* The failures a ward can meet.  The late ones come after a wage was paid in
\* memory; the staged ones leave something staged that nothing rolls back.
EarlyFaults  == {"begin", "join", "plan", "build", "board", "choose", "arrive", "found"}
StagedFaults == {"commit", "record"}
LateFaults   == {"work", "clock"} \cup StagedFaults

ASSUME WardConstants ==
  /\ COST \in [Venue -> Nat]
  /\ NSPARKS \in Nat /\ SPARKS_PER_WARD \in Nat /\ NSPARKS <= SPARKS_PER_WARD
  /\ TXN_MAX_PARTS \in Nat /\ BOARD_SIZE \in Nat /\ RAILS_MORE \in Nat
  /\ ARRIVAL_CYCLES \in Nat \ {0}
  /\ START_TREASURY \in Nat /\ START_DEBT \in Nat
  /\ \A d \in Draws : d.risk \in Nat /\ d.more \in Nat
  /\ Amounts \subseteq Nat \ {0}
  /\ Serving \in BOOLEAN
  /\ Faults \subseteq EarlyFaults \cup LateFaults \cup {"close"}
  /\ MAX_CYCLE \in Nat /\ MAX_WAGES \in Nat

\* queen.c 479-486: the board caps how many Sparks a cycle writes to, and with
\* the ward they fit in one group.
ASSUME BoardFitsGroup == BOARD_SIZE + RAILS_MORE + 1 <= TXN_MAX_PARTS

VARIABLES
  cycle, treasury, debt, issued, retired, spent, found,   \* gyre_t's scalars
  nsparks,          \* gyre_t.nsparks
  sparks,           \* gyre_t.sparks: [purse, wear] by position
  wardDb, sparkDb,          \* what each connection reads
  wardSaved, sparkSaved,    \* what ROLLBACK returns to
  wardStore, sparkStore,    \* what the store plane holds
  pc,               \* where the command being run has got to
  turn,             \* the Spark whose turn it is (cycle()'s loop index)
  venue,            \* what commission() returned this cycle
  parts,            \* the Sparks in the group's grp.dbs
  arriving,         \* cycle()'s local of that name
  lock              \* g_group_lock: "free", or left held by a ward that is
                    \* "joined" to an abandoned group or whose handle is "lost"

money   == << treasury, debt, issued, retired, spent, found >>
people  == << nsparks, sparks >>
dbs     == << wardDb, sparkDb >>
saved   == << wardSaved, sparkSaved >>
store   == << wardStore, sparkStore >>
locals  == << venue, parts, arriving >>
running == << turn, locals >>
vars    == << cycle, money, people, dbs, saved, store, pc, running, lock >>

-------------------------------------------------------------------------------
(* The rules of a cycle, as functions of what they read.                   *)

\* built(): the column holds the commission's cycle, and 0 counts as not built.
Built(db, v) == db.built[v] # 0

\* ward_room
WardRoom(n) == IF n < SPARKS_PER_WARD THEN SPARKS_PER_WARD - n ELSE 0

\* One row of post_board: riskier work pays more, and the Plaza adds a quarter.
Contract(d, plaza) ==
  LET pay == 18 + d.risk \div 2 + d.more
  IN  [risk |-> d.risk, payout |-> IF plaza THEN pay + pay \div 4 ELSE pay, taken |-> 0]

\* Variant: a contract for every Spark of the ward.
BoardRowsPerSpark(db) == nsparks

\* How many contracts post_board writes.
BoardRows(db) == BOARD_SIZE + (IF Built(db, RAILS) THEN RAILS_MORE ELSE 0)

\* choose(): what a Spark of this wear thinks a contract is worth.
Nerve(wear, db) ==
  100 - wear + (IF Built(db, TAVERN) THEN 25 ELSE 0) + (IF Built(db, CHAPEL) THEN 20 ELSE 0)
Score(c, nerve) == (c.payout * nerve) \div 100 - c.risk

Untaken == {c \in DOMAIN wardDb.board : wardDb.board[c].taken = 0}

\* The contract choose() settles on: the best score, the lowest id among equals.
Best(c, nerve) ==
  \A d \in Untaken : LET mine == Score(wardDb.board[c], nerve)
                         other == Score(wardDb.board[d], nerve)
                     IN  other < mine \/ (other = mine /\ c <= d)

\* Variant: the repair of a Frame may go below zero.
WornNoFloor(wear, won, den) ==
  LET w == wear + (IF won THEN 2 ELSE 5) - 1
      r == IF den /\ w > 0 THEN w - 4 ELSE w
  IN  IF r > 90 THEN 90 ELSE r

\* The wear of a Frame after its contract.
Worn(wear, won, den) ==
  LET w == wear + (IF won THEN 2 ELSE 5) - 1
      r == IF den /\ w > 0 THEN w - 4 ELSE w
  IN  IF r < 0 THEN 0 ELSE IF r > 90 THEN 90 ELSE r

\* Variant: a failed contract pays more than the reserve covers.
WageHigh(won, earned) == IF won THEN earned \div 2 ELSE 40

\* A Spark's share of the contract, and whether the ward can pay it.
Wage(won, earned) == IF won THEN earned \div 2 ELSE 4
Payable(wage, scrip) == wage > 0 /\ scrip >= wage

\* Variant: the purse's side of a payment is lost.
CreditNothing(purse, amount) == purse

\* What a payment adds to the purse in the Spark's database.
Credit(purse, amount) == purse + amount

\* The Debt Clock: it compounds, then takes a sixth of the treasury at most.
Compounded(d) == d + d \div 100
ClockTakes(scrip, owed) == IF scrip \div 6 > owed THEN owed ELSE scrip \div 6

\* The Queen's view of the ward.
WorstWear == IF nsparks = 0 THEN 0
             ELSE CHOOSE w \in {sparks[k].wear : k \in 1..nsparks} :
                    \A k \in 1..nsparks : sparks[k].wear <= w
QueenView == [treasury |-> treasury, reserve |-> 25 * nsparks, room_to_grow |-> WardRoom(nsparks),
              built |-> wardDb.built, cost |-> COST, worst_wear |-> WorstWear]

\* The ward's own row, as cycle() writes it.
Row(c, t, d, i, r) == [cycle |-> c, treasury |-> t, debt |-> d, issued |-> i, retired |-> r]

\* purses(), over any copy of the Sparks' databases.
Purses(db, n) == Total([k \in 1..n |-> db[k].purse], n)
Items(db, n)  == Total([k \in 1..n |-> db[k].held], n)

-------------------------------------------------------------------------------
(* Founding, and the group a cycle commits as.                             *)

FreshWard  == [built |-> [v \in Venue |-> 0], board |-> << >>, wages |-> 0,
               row |-> Row(0, START_TREASURY, START_DEBT, START_TREASURY, 0)]
BareWard   == [FreshWard EXCEPT !.row = Row(0, 0, 0, 0, 0)]
FreshSpark == [purse |-> 0, wear |-> 0, held |-> 0]
Newcomer   == [purse |-> 0, wear |-> 0]

\* found_ward, called with a gyre_t of zeroes.
Init ==
  /\ cycle = 0 /\ treasury = START_TREASURY /\ debt = START_DEBT
  /\ issued = START_TREASURY /\ retired = 0 /\ spent = 0 /\ found = 0
  /\ nsparks = NSPARKS /\ sparks = [k \in 1..NSPARKS |-> Newcomer]
  /\ wardDb = FreshWard /\ wardSaved = FreshWard /\ wardStore = FreshWard
  /\ sparkDb = [k \in 1..NSPARKS |-> FreshSpark]
  /\ sparkSaved = sparkDb /\ sparkStore = sparkDb
  /\ pc = "idle" /\ turn = 0 /\ venue = HOLD /\ parts = {}
  /\ arriving = FALSE /\ lock = "free"

\* cycle() has returned, and its locals are gone.
Forgotten == venue' = HOLD /\ parts' = {} /\ arriving' = FALSE

\* A failed cycle: `serve` answers and goes on to the next command, `play` and
\* `check` close the ward, from its first Spark on.
Failed ==
  /\ pc' = IF Serving THEN "idle" ELSE "stop"
  /\ turn' = 1 /\ Forgotten

\* Variant: the participants are left as they are.
GiveUpKeeping ==
  /\ Failed
  /\ UNCHANGED << dbs, saved, store, lock >>

\* group_abort, and `return 1`.  Every participant is rolled back; memory is
\* left as the caller moved it.
GiveUp ==
  /\ Failed
  /\ wardDb' = wardSaved /\ sparkDb' = sparkSaved
  /\ UNCHANGED << saved, store, lock >>

\* group_join refuses a participant past the last.
JoinRefused == Cardinality(parts) + 1 >= TXN_MAX_PARTS

\* Variant: the record commits the ward alone.
LandedWithoutSparks(ps) == sparkStore

\* What the store holds once the record of a group with these Sparks is in.
Landed(ps) == [k \in 1..nsparks |-> IF k \in ps THEN sparkDb[k] ELSE sparkStore[k]]

-------------------------------------------------------------------------------
(* A cycle.                                                                *)

\* cycle(): count it, then group_begin.
StartCycle ==
  /\ pc = "idle" /\ cycle < MAX_CYCLE /\ lock = "free"
  /\ cycle' = cycle + 1
  /\ pc' = "plan"
  /\ wardSaved' = wardDb /\ sparkSaved' = sparkDb
  /\ turn' = 0 /\ venue' = HOLD /\ parts' = {} /\ arriving' = FALSE
  /\ UNCHANGED << money, people, dbs, store, lock >>

\* group_begin fails.  When it is the ward's BEGIN that fails, the ward has joined
\* and the lock is taken, and nobody calls weft_txn_abort to give either back.
StartCycleFails ==
  /\ pc = "idle" /\ cycle < MAX_CYCLE /\ lock = "free"
  /\ cycle' = cycle + 1
  /\ Failed
  /\ \/ "begin" \in Faults /\ UNCHANGED lock
     \/ "join" \in Faults /\ lock' = "joined"
  /\ UNCHANGED << money, people, dbs, saved, store >>

\* weft_txn_begin waits for a lock that is never released.
StartCycleHangs ==
  /\ pc = "idle" /\ cycle < MAX_CYCLE /\ lock # "free"
  /\ cycle' = cycle + 1
  /\ pc' = "hung"
  /\ UNCHANGED << money, people, dbs, saved, store, running, lock >>

\* build_venue's early returns.
CanBuild(v) == v \in Venue /\ treasury >= COST[v] /\ ~ Built(wardDb, v)

\* Variant: a venue's price is not counted as spent.
SpendOnNothing(v) ==
  /\ treasury' = treasury - COST[v]
  /\ UNCHANGED << debt, issued, retired, spent, found >>

\* The scrip a commission moves: out of the treasury, and out of the ward.
SpendOn(v) ==
  /\ treasury' = treasury - COST[v]
  /\ spent' = spent + COST[v]
  /\ UNCHANGED << debt, issued, retired, found >>

\* Variant: the venue's row is not written.
WithoutVenue(v) == wardDb

\* The venue row a commission writes: the cycle it happened in.
WithVenue(v) == [wardDb EXCEPT !.built[v] = cycle]

\* commission() when the Queen decides on a venue and it is built.
QueenBuilds ==
  /\ pc = "plan"
  /\ LET v == QueenPlan(QueenView)
     IN  /\ CanBuild(v) /\ SpendOn(v)
         /\ wardDb' = WithVenue(v)
         /\ venue' = v
  /\ pc' = "board"
  /\ UNCHANGED << cycle, people, sparkDb, saved, store, turn, parts, arriving, lock >>

\* commission() when she holds, or build_venue refuses her.
QueenHolds ==
  /\ pc = "plan"
  /\ ~ CanBuild(QueenPlan(QueenView))
  /\ venue' = HOLD
  /\ pc' = "board"
  /\ UNCHANGED << cycle, money, people, dbs, saved, store, turn, parts, arriving, lock >>

\* A statement of build_venue fails after the money moved.  commission()
\* answers -1, which cycle() takes for a Queen who held, and goes on.
QueenBuildFails ==
  /\ "build" \in Faults
  /\ pc = "plan"
  /\ LET v == QueenPlan(QueenView)
     IN  /\ CanBuild(v) /\ SpendOn(v)
         /\ wardDb' \in {wardDb, WithVenue(v)}
  /\ venue' = HOLD
  /\ pc' = "board"
  /\ UNCHANGED << cycle, people, sparkDb, saved, store, turn, parts, arriving, lock >>

\* The planner could not answer (-2), or post_board failed.
CycleStopsEarly ==
  /\ \/ "plan" \in Faults /\ pc = "plan"
     \/ "board" \in Faults /\ pc = "board"
  /\ GiveUp
  /\ UNCHANGED << cycle, money, people >>

\* post_board: last cycle's contracts go, and new ones are drawn.
PostBoard ==
  /\ pc = "board"
  /\ \E draws \in [1..BoardRows(wardDb) -> Draws] :
       wardDb' = [wardDb EXCEPT !.board =
                    [c \in 1..BoardRows(wardDb) |-> Contract(draws[c], Built(wardDb, PLAZA))]]
  /\ pc' = "work" /\ turn' = 1
  /\ UNCHANGED << cycle, money, people, sparkDb, saved, store, venue, parts, arriving, lock >>

\* Variant: the loop does not move on to the next Spark.
SparkSkipsStuck == pc = "work" /\ UNCHANGED vars

\* choose() finds nothing left, or cannot read or mark the board: `continue`.
SparkSkips ==
  /\ pc = "work" /\ turn <= nsparks
  /\ Untaken = {} \/ "choose" \in Faults
  /\ turn' = turn + 1
  /\ UNCHANGED << cycle, money, people, dbs, saved, store, pc, venue, parts, arriving, lock >>

\* What a contract leaves in the treasury, the wage taken out when it is paid.
Share(c, won) == IF won THEN wardDb.board[c].payout ELSE 0
PaidWage(c, won) ==
  LET wage == Wage(won, Share(c, won))
  IN  IF Payable(wage, treasury + Share(c, won)) THEN wage ELSE 0
NewWear(won) == Worn(sparks[turn].wear, won, Built(wardDb, DEN))

\* Salvage is the only thing that makes scrip.
Salvage(c, won) ==
  /\ issued' = issued + Share(c, won)
  /\ found' = found + (IF won THEN 1 ELSE 0)
  /\ UNCHANGED << debt, retired, spent >>

\* The Spark's database after the contract: the wage, the salvage, the wear.
SparkRow(row, wage, won, wear) ==
  [purse |-> Credit(row.purse, wage), wear |-> wear,
   held |-> row.held + (IF won /\ wage > 0 THEN 1 ELSE 0)]

\* One turn of the loop, through to the Spark's own UPDATE.
SparkWorks ==
  /\ pc = "work" /\ turn <= nsparks /\ ~ JoinRefused
  /\ \E c \in Untaken, won \in BOOLEAN :
       /\ Best(c, Nerve(sparks[turn].wear, wardDb))
       /\ Salvage(c, won)
       /\ LET wage == PaidWage(c, won) IN
            /\ treasury' = treasury + Share(c, won) - wage
            /\ sparks' = [sparks EXCEPT ![turn] =
                            [purse |-> @.purse + wage, wear |-> NewWear(won)]]
            /\ wardDb' = [wardDb EXCEPT !.board[c].taken = turn, !.wages = @ + wage]
            /\ sparkDb' = [sparkDb EXCEPT ![turn] = SparkRow(@, wage, won, NewWear(won))]
  /\ parts' = parts \cup {turn}
  /\ turn' = turn + 1
  /\ UNCHANGED << cycle, nsparks, saved, store, pc, venue, arriving, lock >>

\* A statement of the turn fails, or the group is full.  At the salvage row the
\* scrip has been made; from the outcome row on the Frame has worn too; at the
\* Spark's own UPDATE the wage has been paid in memory as well.
PaidBy(at, c, won) == IF at = "spark" THEN PaidWage(c, won) ELSE 0
WornBy(at, won)    == IF at = "salvage" THEN sparks[turn].wear ELSE NewWear(won)

SparkWorkFails ==
  /\ pc = "work" /\ turn <= nsparks
  /\ \E c \in Untaken, won \in BOOLEAN, at \in {"salvage", "outcome", "spark"} :
       /\ "work" \in Faults \/ (JoinRefused /\ at = "outcome")
       /\ Best(c, Nerve(sparks[turn].wear, wardDb))
       /\ at = "salvage" => won
       /\ Salvage(c, won)
       /\ treasury' = treasury + Share(c, won) - PaidBy(at, c, won)
       /\ sparks' = [sparks EXCEPT ![turn] =
                       [purse |-> @.purse + PaidBy(at, c, won), wear |-> WornBy(at, won)]]
  /\ GiveUp
  /\ UNCHANGED << cycle, nsparks >>

\* The Debt Clock in memory: compound first, pay second.
ClockRuns ==
  LET owed == Compounded(debt)
      paid == ClockTakes(treasury, owed)
  IN  /\ debt' = owed - paid
      /\ treasury' = treasury - paid
      /\ retired' = retired + paid
      /\ UNCHANGED << issued, spent, found >>

\* The end of the loop: the clock, whether word got out, and the ward's row.
DebtClock ==
  /\ pc = "work" /\ turn > nsparks
  /\ ClockRuns
  /\ arriving' = (/\ Built(wardDb, ROW) /\ nsparks < SPARKS_PER_WARD
                  /\ cycle % ARRIVAL_CYCLES = 0)
  /\ wardDb' = [wardDb EXCEPT !.row = Row(cycle, treasury', debt', issued, retired')]
  /\ pc' = "commit"
  /\ UNCHANGED << cycle, people, sparkDb, saved, store, turn, venue, parts, lock >>

\* The clock's ledger row or the ward's UPDATE fails.
DebtClockFails ==
  /\ "clock" \in Faults
  /\ pc = "work" /\ turn > nsparks
  /\ ClockRuns
  /\ GiveUp
  /\ UNCHANGED << cycle, people >>

\* group_commit: every participant stages, then one record commits them all.
CommitCycle ==
  /\ pc = "commit"
  /\ wardStore' = wardDb /\ sparkStore' = Landed(parts)
  /\ pc' = IF arriving THEN "arrive" ELSE "idle"
  /\ UNCHANGED << cycle, money, people, dbs, saved, running, lock >>

\* A COMMIT fails.  The participants before it, the ward first and the Sparks
\* in the order they joined, have staged and cannot be rolled back any more.
CommitFails ==
  /\ "commit" \in Faults
  /\ pc = "commit"
  /\ \/ wardDb' = wardSaved /\ sparkDb' = sparkSaved
     \/ \E p \in parts :
          /\ UNCHANGED wardDb
          /\ sparkDb' = [k \in 1..nsparks |-> IF k < p THEN sparkDb[k] ELSE sparkSaved[k]]
  /\ Failed
  /\ UNCHANGED << cycle, money, people, saved, store, lock >>

\* weft_txn_commit refuses the record: everyone has staged, nothing lands.
RecordRefused ==
  /\ "record" \in Faults
  /\ pc = "commit"
  /\ Failed
  /\ UNCHANGED << cycle, money, people, dbs, saved, store, lock >>

\* join_ward, after the group: a Spark with an empty purse and its own database.
Arrive ==
  /\ pc = "arrive"
  /\ nsparks' = nsparks + 1
  /\ sparks' = [k \in 1..nsparks + 1 |-> IF k <= nsparks THEN sparks[k] ELSE Newcomer]
  /\ sparkDb' = [k \in 1..nsparks + 1 |-> IF k <= nsparks THEN sparkDb[k] ELSE FreshSpark]
  /\ sparkStore' = [k \in 1..nsparks + 1 |-> IF k <= nsparks THEN sparkStore[k] ELSE FreshSpark]
  /\ sparkSaved' = sparkDb'
  /\ pc' = "idle"
  /\ UNCHANGED << cycle, money, wardDb, wardSaved, wardStore, running, lock >>

\* join_ward fails: the cycle is durable and answers that it failed.
ArriveFails ==
  /\ "arrive" \in Faults
  /\ pc = "arrive"
  /\ Failed
  /\ UNCHANGED << cycle, money, people, dbs, saved, store, lock >>

-------------------------------------------------------------------------------
(* Commands.  `look`, `quit` and a word nobody knows change nothing, and so *)
(* does a command the rules refuse; none of them is a step.                 *)

\* A flush of the ward outside a cycle lands what the ward holds, unless the
\* handle is still joined to a group nobody will commit: then it only stages.
Flushed(db) == IF lock = "joined" THEN wardStore ELSE db

\* `/commission v`: build_venue, one statement at a time, each its own commit.
CommissionCommand ==
  /\ Serving /\ pc = "idle"
  /\ \E v \in Venue :
       /\ CanBuild(v) /\ SpendOn(v)
       /\ wardDb' = WithVenue(v) /\ wardStore' = Flushed(WithVenue(v))
  /\ UNCHANGED << cycle, people, sparkDb, saved, sparkStore, pc, running, lock >>

\* `/commission v` whose UPDATE, or whose ledger row, fails.
CommissionFails ==
  /\ "build" \in Faults
  /\ Serving /\ pc = "idle"
  /\ \E v \in Venue :
       /\ CanBuild(v) /\ SpendOn(v)
       /\ \/ UNCHANGED << wardDb, wardStore >>
          \/ wardDb' = WithVenue(v) /\ wardStore' = Flushed(WithVenue(v))
  /\ UNCHANGED << cycle, people, sparkDb, saved, sparkStore, pc, running, lock >>

\* The checks of `/pay k a`.
CanPay(k, a) == Serving /\ pc = "idle" /\ k \in 1..nsparks /\ treasury >= a

\* Variant: the ledger row of a payment is not written.
PaidWardUnwritten(a) == wardDb

\* The two databases after pay(), before the group commits.
PaidWard(a) == [wardDb EXCEPT !.wages = @ + a]
PaidSpark(k, a) == [sparkDb EXCEPT ![k].purse = Credit(@, a)]

\* `/pay k a`: pay_alone, a group of its own.
PayCommand ==
  /\ lock = "free"
  /\ \E k \in 1..nsparks, a \in Amounts :
       /\ CanPay(k, a)
       /\ treasury' = treasury - a
       /\ sparks' = [sparks EXCEPT ![k].purse = @ + a]
       /\ wardDb' = PaidWard(a) /\ wardStore' = PaidWard(a)
       /\ sparkDb' = PaidSpark(k, a)
       /\ sparkStore' = [sparkStore EXCEPT ![k] = PaidSpark(k, a)[k]]
  /\ UNCHANGED << cycle, debt, issued, retired, spent, found, nsparks, saved, pc, running, lock >>

\* `/pay k a` refused after something staged.  Memory is put back; what staged
\* stays in its connection: the ward alone when the Spark's COMMIT failed, both
\* when the record was refused.
PayRefused ==
  /\ lock = "free"
  /\ \E k \in 1..nsparks, a \in Amounts :
       /\ CanPay(k, a) /\ wardDb.wages + a <= MAX_WAGES
       /\ wardDb' = PaidWard(a)
       /\ \/ "commit" \in Faults /\ UNCHANGED sparkDb
          \/ "record" \in Faults /\ sparkDb' = PaidSpark(k, a)
  /\ UNCHANGED << cycle, money, people, saved, store, pc, running, lock >>

\* `/pay` when the ward cannot join its group, and then when the lock it left
\* behind is waited for.
PayLosesLock ==
  /\ "join" \in Faults
  /\ \E k \in 1..nsparks, a \in Amounts : CanPay(k, a)
  /\ IF lock = "free" THEN lock' = "joined" /\ UNCHANGED pc ELSE pc' = "hung" /\ UNCHANGED lock
  /\ UNCHANGED << cycle, money, people, dbs, saved, store, running >>

-------------------------------------------------------------------------------
(* Closing a ward, and founding it again.  The handles are closed one by    *)
(* one, and each close flushes what its handle still holds: `turn` counts   *)
(* the Sparks.                                                              *)

\* `play` has run its cycles or found the ward dishonest; `serve` is done.
Leave ==
  /\ pc = "idle"
  /\ pc' = "stop" /\ turn' = 1 /\ Forgotten
  /\ UNCHANGED << cycle, money, people, dbs, saved, store, lock >>

\* `/restart` begins with close_ward.
Restart ==
  /\ Serving /\ pc = "idle"
  /\ pc' = "restart" /\ turn' = 1 /\ Forgotten
  /\ UNCHANGED << cycle, money, people, dbs, saved, store, lock >>

\* sqlite3_close of one Spark.  A flush that fails is reported to nobody, and
\* the pages are gone.
CloseSpark ==
  /\ pc \in {"stop", "restart"} /\ turn <= nsparks
  /\ \/ sparkStore' = [sparkStore EXCEPT ![turn] = sparkDb[turn]]
     \/ "close" \in Faults /\ UNCHANGED sparkStore
  /\ turn' = turn + 1
  /\ UNCHANGED << cycle, money, people, dbs, saved, wardStore, pc, locals, lock >>

\* sqlite3_close of the ward, the last.
FlushWard == \/ wardStore' = Flushed(wardDb)
             \/ "close" \in Faults /\ UNCHANGED wardStore

\* The process is over.
CloseWard ==
  /\ pc = "stop" /\ turn > nsparks
  /\ FlushWard
  /\ pc' = "stopped"
  /\ UNCHANGED << cycle, money, people, dbs, saved, sparkStore, running, lock >>

\* The ward closes, memset clears the gyre_t, and found_ward opens the ward's
\* database again.  Until found_ward returns, `nsparks` is the command's local n
\* and `turn` counts what is founded; a Spark nobody has opened yet reads as the
\* one that will be founded.
Reopen ==
  /\ pc = "restart" /\ turn > nsparks
  /\ FlushWard
  /\ cycle' = 0 /\ treasury' = 0 /\ debt' = 0 /\ issued' = 0
  /\ retired' = 0 /\ spent' = 0 /\ found' = 0
  /\ sparks' = [k \in 1..nsparks |-> Newcomer]
  /\ wardDb' = wardStore' /\ wardSaved' = wardStore'
  /\ sparkDb' = [k \in 1..nsparks |-> FreshSpark] /\ sparkSaved' = sparkDb'
  /\ lock' = IF lock = "free" THEN "free" ELSE "lost"
  /\ pc' = "drop" /\ turn' = 0
  /\ UNCHANGED << nsparks, sparkStore, locals >>

\* The ward's database with the first t of its tables dropped.
Dropped(t) ==
  [row   |-> IF t >= 1 THEN BareWard.row ELSE wardDb.row,
   built |-> IF t >= 2 THEN BareWard.built ELSE wardDb.built,
   board |-> IF t >= 3 THEN BareWard.board ELSE wardDb.board,
   wages |-> IF t >= 4 THEN BareWard.wages ELSE wardDb.wages]

\* The ward's tables are dropped and created.
FoundTables ==
  /\ pc = "drop"
  /\ wardDb' = Dropped(4) /\ wardSaved' = Dropped(4) /\ wardStore' = Dropped(4)
  /\ pc' = "rows"
  /\ UNCHANGED << cycle, money, people, sparkDb, sparkSaved, sparkStore, running, lock >>

\* What found_ward puts in the gyre_t, before the ward's row is written.
OpeningMoney ==
  /\ treasury' = START_TREASURY /\ debt' = START_DEBT
  /\ issued' = START_TREASURY /\ retired' = 0 /\ found' = 0
  /\ UNCHANGED spent

\* The venues' rows and the ward's.
FoundRows ==
  /\ pc = "rows"
  /\ OpeningMoney
  /\ wardDb' = FreshWard /\ wardSaved' = FreshWard /\ wardStore' = FreshWard
  /\ pc' = "join" /\ turn' = 1
  /\ UNCHANGED << cycle, people, sparkDb, sparkSaved, sparkStore, locals, lock >>

\* join_ward, once for each Spark there was.
FoundSpark ==
  /\ pc = "join" /\ turn <= nsparks
  /\ sparkStore' = [sparkStore EXCEPT ![turn] = FreshSpark]
  /\ turn' = turn + 1
  /\ UNCHANGED << cycle, money, people, dbs, saved, wardStore, pc, locals, lock >>

\* found_ward returns, and the ward answers again.
Founded ==
  /\ pc = "join" /\ turn > nsparks
  /\ pc' = "idle" /\ turn' = 0
  /\ UNCHANGED << cycle, money, people, dbs, saved, store, locals, lock >>

\* found_ward fails half way, and the process stops: the ward has lost some of
\* its tables, or all, or stands beside Sparks of the game before.
FoundFails ==
  /\ "found" \in Faults
  /\ \/ /\ pc = "drop"
        /\ \E t \in 0..4 : wardDb' = Dropped(t) /\ wardStore' = Dropped(t)
        /\ UNCHANGED << money, sparkStore >>
     \/ /\ pc = "rows"
        /\ OpeningMoney \/ UNCHANGED money
        /\ UNCHANGED << wardDb, store >>
     \/ /\ pc = "join" /\ turn <= nsparks
        /\ sparkStore' \in {sparkStore, [sparkStore EXCEPT ![turn] = FreshSpark]}
        /\ UNCHANGED << money, wardDb, wardStore >>
  /\ pc' = "unfounded"
  /\ UNCHANGED << cycle, people, sparkDb, saved, running, lock >>

Cycle == \/ StartCycle \/ StartCycleFails \/ StartCycleHangs
         \/ QueenBuilds \/ QueenHolds \/ QueenBuildFails \/ CycleStopsEarly
         \/ PostBoard \/ SparkSkips \/ SparkWorks \/ SparkWorkFails
         \/ DebtClock \/ DebtClockFails
         \/ CommitCycle \/ CommitFails \/ RecordRefused
         \/ Arrive \/ ArriveFails

Command == \/ CommissionCommand \/ CommissionFails
           \/ PayCommand \/ PayRefused \/ PayLosesLock

Close == \/ Leave \/ Restart \/ CloseSpark \/ CloseWard \/ Reopen
         \/ FoundTables \/ FoundRows \/ FoundSpark \/ Founded \/ FoundFails

Next == Cycle \/ Command \/ Close

Spec == Init /\ [][Next]_vars

\* The process runs a command it has started to its end (queen.c 1077-1081:
\* commands are serialised by the poll loop), so a step of a cycle that stays
\* possible is taken.  Nothing makes a player type.
CycleRuns == QueenBuilds \/ QueenHolds \/ PostBoard \/ SparkSkips \/ SparkWorks
             \/ DebtClock \/ CommitCycle \/ Arrive \/ CloseSpark \/ CloseWard
FairSpec == Spec /\ WF_vars(CycleRuns)

-------------------------------------------------------------------------------
(* Properties.                                                             *)

\* Where the ward is open to commands or runs one, and where `/restart` founds
\* it again.
Open       == {"idle", "plan", "board", "work", "commit", "arrive", "hung"}
Refounding == {"drop", "rows", "join", "unfounded"}

Contracts == [risk: Nat, payout: Nat, taken: Nat]
WardRows  == [cycle: Nat, treasury: Nat, debt: Nat, issued: Nat, retired: Nat]
IsBoard(b) == \E n \in 0..(BOARD_SIZE + RAILS_MORE) : b \in [1..n -> Contracts]
IsWardDb(db) ==
  /\ db \in [built: [Venue -> Nat], board: {db.board}, wages: Nat, row: WardRows]
  /\ IsBoard(db.board)
SparkDbs  == [purse: Nat, wear: 0..90, held: Nat]

\* The types: no purse, treasury or debt is ever negative, a Frame's wear stays
\* within 0..90 (queen.c 642-646), the board within what the Rails allow and the
\* ward within its zone, whatever fails.
TypeOK ==
  /\ cycle \in Nat /\ treasury \in Nat /\ debt \in Nat /\ issued \in Nat
  /\ retired \in Nat /\ spent \in Nat /\ found \in Nat
  /\ nsparks \in Nat /\ nsparks <= SPARKS_PER_WARD
  /\ sparks \in [1..nsparks -> [purse: Nat, wear: 0..90]]
  /\ sparkDb \in [1..nsparks -> SparkDbs]
  /\ sparkSaved \in [1..nsparks -> SparkDbs]
  /\ sparkStore \in [1..nsparks -> SparkDbs]
  /\ IsWardDb(wardDb) /\ IsWardDb(wardSaved) /\ IsWardDb(wardStore)
  /\ pc \in Open \cup {"stop", "restart", "stopped"} \cup Refounding
  /\ turn \in 0..nsparks + 1
  /\ venue \in Venue \cup {HOLD}
  /\ parts \subseteq 1..nsparks
  /\ arriving \in BOOLEAN /\ lock \in {"free", "joined", "lost"}

\* Conservation, as honest() computes it from memory and every Spark's
\* database: scrip is made by salvage alone, so what was issued is in the
\* treasury, in a purse, paid to the clock or spent on a venue; and no more
\* salvage is held than was found (queen.c 746-765).  It holds at every
\* statement boundary and across every early failure.
Honest ==
  /\ treasury + Purses(sparkDb, nsparks) + retired + spent = issued
  /\ Items(sparkDb, nsparks) <= found

\* Between commands the purse and the wear a client is told, which come from
\* memory, are the ones the Spark's database holds (interactor.c 26-40; a
\* migration carries the purse it finds in memory, queen.c 860-863).
MemoryIsDatabase ==
  pc = "idle" => \A k \in 1..nsparks :
                   /\ sparks[k].purse = sparkDb[k].purse
                   /\ sparks[k].wear = sparkDb[k].wear

\* The two sides of every payment are durable together or not at all: in the
\* store the wages on the ward's ledger are what the purses hold, at every
\* instant a crash could come, through every failure that rolls the databases
\* back and through the flushes of a close (queen.c 534-536, 568-571, 797-800).
\* While `/restart` founds the ward again the two are founded one by one.
TransfersAreWhole ==
  pc \notin Refounding => wardStore.wages = Purses(sparkStore, nsparks)

\* The same while `/restart` founds the ward again, which it does "for everyone at
\* once" (interactor.c 164-165).  The code founds the ward and each Spark by itself.
FoundedAtOnce == pc \in Refounding => wardStore.wages = Purses(sparkStore, nsparks)

\* For as long as the ward is open, whatever fails and whatever a half-staged
\* group leaves behind for a later flush to carry, a purse never durably holds
\* scrip that the ward's durable ledger has not paid: until a handle is closed
\* the Spark's side lands only in a record that carries the ward's side too
\* (queen.c 519-530, 534-541).
PursesAreBacked ==
  pc \in Open => Purses(sparkStore, nsparks) <= wardStore.wages

\* The price of what stands in a copy of the ward's database.
Places(db) == Total([k \in 1..6 |-> IF Built(db, k - 1) THEN COST[k - 1] ELSE 0], 6)

\* What anyone could read from the store alone balances, whatever instant the
\* process dies at and after the ward was closed: the ward's row, the purses and
\* the venues account for all that was issued (queen.c 592-598, a cycle is one
\* transaction, and 797-800).
StoreBalances ==
  LET row == wardStore.row
  IN  row.treasury + Purses(sparkStore, nsparks) + row.retired + Places(wardStore) = row.issued

\* Money turned into a place: what left the ward for venues is the price of the
\* venues that stand (queen.c 331-334, 341-344).
SpentIsPlaces == pc \notin Refounding => spent = Places(wardDb)

\* The group of a cycle never refuses a participant for being full: the Sparks
\* it wrote to are at most the contracts on the board, with the ward one more
\* (queen.c 479-486).
GroupFits ==
  /\ pc \in {"work", "commit"} => Cardinality(parts) + 1 <= TXN_MAX_PARTS
  /\ pc = "work" /\ Untaken # {} => ~ JoinRefused

\* In a cycle the Queen built in, every Spark that works is paid: the reserve
\* she kept outlasts the wages of the contracts that fail (queen.c 378-382).
ReservePaysEveryone ==
  [][venue # HOLD /\ turn \in parts' \ parts =>
       sparks'[turn].purse > sparks[turn].purse]_vars

\* Every command gets its answer: nobody waits for the group lock for ever
\* (fdb_vfs.c 1432-1434).
NeverHung == pc # "hung"

\* A cycle that has begun ends: it commits, or it fails and says so.
CycleEnds == pc = "plan" ~> pc \in {"idle", "stopped"}

===============================================================================
