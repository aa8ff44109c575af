----------------------------- MODULE WardHonesty -----------------------------
(***************************************************************************)
(* Theorems about Ward, for every number of Sparks, every board, every      *)
(* price list and every set of failures: the types hold, a cycle's group    *)
(* has room for every Spark that works, scrip is conserved, no purse        *)
(* is durably ahead of the ledger while the ward is open, payments are      *)
(* durable whole and the store balances where nothing stays half staged,    *)
(* and the Queen's reserve pays everyone.                                   *)
(***************************************************************************)
EXTENDS Ward, SumsProofs, FiniteSetTheorems

\* A ward that is about to take a Spark in has room for it.
RoomForArrival ==
  pc = "arrive" \/ (pc = "commit" /\ arriving) => nsparks < SPARKS_PER_WARD

\* A loop over the Sparks counts from the first.
LoopStarted == pc \in {"work", "stop", "restart", "join"} => turn # 0

TypeInv == TypeOK /\ RoomForArrival /\ LoopStarted

-------------------------------------------------------------------------------
(* What the operators of a cycle return.                                   *)

\* A contract is well formed, and not taken.
LEMMA ContractType ==
  ASSUME NEW d \in Draws, NEW plaza \in BOOLEAN
  PROVE  Contract(d, plaza) \in Contracts
<1>1. d.risk \in Nat /\ d.more \in Nat
  BY WardConstants
<1>2. d.risk \div 2 \in Nat
  BY <1>1
<1> DEFINE pay == 18 + d.risk \div 2 + d.more
<1>3. pay \in Nat
  BY <1>1, <1>2
<1> HIDE DEF pay
<1>4. pay \div 4 \in Nat
  BY <1>3
<1> QED
  BY <1>1, <1>3, <1>4 DEF Contract, Contracts, pay

\* A Frame's wear stays between 0 and 90.
LEMMA WornType ==
  ASSUME NEW wear \in 0..90, NEW won \in BOOLEAN, NEW den \in BOOLEAN
  PROVE  Worn(wear, won, den) \in 0..90
BY DEF Worn

\* A wage is a natural number, and the ward has what it pays.
LEMMA PaidWageType ==
  ASSUME TypeOK, NEW c \in Untaken, NEW won \in BOOLEAN
  PROVE  /\ Share(c, won) \in Nat
         /\ PaidWage(c, won) \in Nat
         /\ PaidWage(c, won) <= treasury + Share(c, won)
<1>1. Share(c, won) \in Nat
  BY DEF TypeOK, IsWardDb, IsBoard, Contracts, Untaken, Share
<1>2. Share(c, won) \div 2 \in Nat
  BY <1>1
<1>3. Wage(won, Share(c, won)) \in Nat
  BY <1>2 DEF Wage
<1>4. treasury \in Nat
  BY DEF TypeOK
<1> QED
  BY <1>1, <1>3, <1>4 DEF PaidWage, Payable

\* The clock takes no more than the treasury and no more than the debt.
LEMMA ClockTakesType ==
  ASSUME NEW scrip \in Nat, NEW owed \in Nat
  PROVE  /\ ClockTakes(scrip, owed) \in Nat
         /\ ClockTakes(scrip, owed) <= scrip
         /\ ClockTakes(scrip, owed) <= owed
<1>1. scrip \div 6 \in Nat /\ scrip \div 6 <= scrip
  OBVIOUS
<1> QED
  BY <1>1 DEF ClockTakes

\* The debt after a cycle's interest is a number.
LEMMA CompoundedType ==
  ASSUME NEW d \in Nat
  PROVE  Compounded(d) \in Nat
<1>1. d \div 100 \in Nat
  OBVIOUS
<1> QED
  BY <1>1 DEF Compounded

\* The board of a cycle, drawn.
LEMMA NewBoard ==
  ASSUME NEW db, NEW draws \in [1..BoardRows(db) -> Draws], NEW plaza \in BOOLEAN
  PROVE  IsBoard([c \in 1..BoardRows(db) |-> Contract(draws[c], plaza)])
<1>1. BoardRows(db) \in 0..(BOARD_SIZE + RAILS_MORE)
  BY WardConstants DEF BoardRows
<1>2. \A c \in 1..BoardRows(db) : Contract(draws[c], plaza) \in Contracts
  BY ContractType
<1> QED
  BY <1>1, <1>2 DEF IsBoard

\* The copies of the ward's database that the actions write are well formed.
LEMMA VenueDb ==
  ASSUME IsWardDb(wardDb), cycle \in Nat, NEW v \in Venue
  PROVE  IsWardDb(WithVenue(v))
BY DEF IsWardDb, WithVenue

\* The ward's database after a wage,
LEMMA WagesDb ==
  ASSUME IsWardDb(wardDb), NEW a \in Nat
  PROVE  IsWardDb(PaidWard(a))
BY DEF IsWardDb, PaidWard

\* and after a contract is taken.
LEMMA TakenDb ==
  ASSUME IsWardDb(wardDb), NEW c \in Untaken, NEW t \in Nat, NEW a \in Nat
  PROVE  IsWardDb([wardDb EXCEPT !.board[c].taken = t, !.wages = @ + a])
<1> DEFINE b == [wardDb.board EXCEPT ![c].taken = t]
<1>1. PICK n \in 0..(BOARD_SIZE + RAILS_MORE) : wardDb.board \in [1..n -> Contracts]
  BY DEF IsWardDb, IsBoard
<1>2. c \in 1..n
  BY <1>1 DEF Untaken
<1>3. [wardDb.board[c] EXCEPT !.taken = t] \in Contracts
  BY <1>1, <1>2 DEF Contracts
<1>4. b \in [1..n -> Contracts]
  BY <1>1, <1>2, <1>3
<1>5. IsBoard(b)
  BY <1>1, <1>4 DEF IsBoard
<1>6. [wardDb EXCEPT !.board[c].taken = t, !.wages = @ + a]
        = [wardDb EXCEPT !.board = b, !.wages = @ + a]
  BY DEF IsWardDb
<1> HIDE DEF b
<1>7. IsWardDb([wardDb EXCEPT !.board = b])
  BY <1>5 DEF IsWardDb
<1> DEFINE w == [wardDb EXCEPT !.board = b]
<1>8. w.wages = wardDb.wages
  BY DEF IsWardDb
<1>9. [wardDb EXCEPT !.board = b, !.wages = @ + a] = [w EXCEPT !.wages = @ + a]
  BY <1>8 DEF IsWardDb
<1> HIDE DEF w
<1>10. IsWardDb(w)
  BY <1>7 DEF w
<1>11. IsWardDb([w EXCEPT !.wages = @ + a])
  BY <1>10 DEF IsWardDb
<1> QED
  BY <1>6, <1>9, <1>11

\* A payment leaves the Sparks' databases well formed.
LEMMA PaidSparkType ==
  ASSUME sparkDb \in [1..nsparks -> SparkDbs], NEW k \in 1..nsparks, NEW a \in Nat
  PROVE  PaidSpark(k, a) \in [1..nsparks -> SparkDbs]
<1>1. sparkDb[k] \in SparkDbs
  OBVIOUS
<1>2. Credit(sparkDb[k].purse, a) \in Nat
  BY <1>1 DEF SparkDbs, Credit
<1> DEFINE p == Credit(sparkDb[k].purse, a)
<1>3. PaidSpark(k, a) = [sparkDb EXCEPT ![k] = [sparkDb[k] EXCEPT !.purse = p]]
  BY DEF PaidSpark
<1> HIDE DEF p
<1>4. p \in Nat
  BY <1>2 DEF p
<1>5. [sparkDb[k] EXCEPT !.purse = p] \in SparkDbs
  BY <1>1, <1>4 DEF SparkDbs
<1> QED
  BY <1>3, <1>5

\* A new ward's database.
LEMMA FreshWardType == IsWardDb(FreshWard)
<1>1. IsBoard(<< >>)
  <2>1. 0 \in 0..(BOARD_SIZE + RAILS_MORE)
    BY WardConstants
  <2>2. << >> \in [1..0 -> Contracts]
    OBVIOUS
  <2> QED BY <2>1, <2>2 DEF IsBoard
<1> QED
  BY <1>1, WardConstants DEF FreshWard, IsWardDb, Row, WardRows

-------------------------------------------------------------------------------
(* Type correctness.                                                       *)

\* The ward that found_ward leaves is well typed.
LEMMA InitTypes == Init => TypeInv
<1> SUFFICES ASSUME Init PROVE TypeInv
  OBVIOUS
<1>1. IsWardDb(wardDb) /\ IsWardDb(wardSaved) /\ IsWardDb(wardStore)
  BY FreshWardType DEF Init
<1>2. sparks \in [1..nsparks -> [purse: Nat, wear: 0..90]]
  BY WardConstants DEF Init, Newcomer
<1>3. /\ sparkDb \in [1..nsparks -> SparkDbs]
      /\ sparkSaved \in [1..nsparks -> SparkDbs]
      /\ sparkStore \in [1..nsparks -> SparkDbs]
  BY WardConstants DEF Init, FreshSpark, SparkDbs
<1>4. arriving \in BOOLEAN /\ lock \in {"free", "joined", "lost"}
  BY Zenon DEF Init
<1>5. /\ cycle = 0 /\ treasury = START_TREASURY /\ debt = START_DEBT
      /\ issued = START_TREASURY /\ retired = 0 /\ spent = 0 /\ found = 0
      /\ nsparks = NSPARKS /\ pc = "idle" /\ turn = 0 /\ venue = HOLD /\ parts = {}
  BY DEF Init
<1> QED
  BY <1>1, <1>2, <1>3, <1>4, <1>5, WardConstants
    DEF TypeInv, TypeOK, RoomForArrival, LoopStarted, Open, Refounding, HOLD

\* What a commission takes from the treasury it had.
LEMMA SpendOnTypes ==
  ASSUME TypeOK, NEW v, CanBuild(v), SpendOn(v)
  PROVE  /\ treasury' \in Nat /\ debt' \in Nat /\ issued' \in Nat
         /\ retired' \in Nat /\ spent' \in Nat /\ found' \in Nat
         /\ IsWardDb(WithVenue(v))
<1>1. v \in Venue /\ COST[v] \in Nat /\ COST[v] <= treasury
  BY WardConstants DEF CanBuild, TypeOK
<1>2. IsWardDb(WithVenue(v))
  BY <1>1, VenueDb DEF TypeOK
<1> QED
  BY <1>1, <1>2 DEF SpendOn, TypeOK

\* The clock leaves every amount a natural number.
LEMMA ClockRunsTypes ==
  ASSUME TypeOK, ClockRuns
  PROVE  /\ treasury' \in Nat /\ debt' \in Nat /\ issued' \in Nat
         /\ retired' \in Nat /\ spent' \in Nat /\ found' \in Nat
<1> DEFINE owed == Compounded(debt)
           paid == ClockTakes(treasury, owed)
<1>1. owed \in Nat
  BY CompoundedType DEF TypeOK
<1>2. paid \in Nat /\ paid <= treasury /\ paid <= owed
  BY <1>1, ClockTakesType DEF TypeOK
<1>3. /\ debt' = owed - paid /\ treasury' = treasury - paid /\ retired' = retired + paid
      /\ UNCHANGED << issued, spent, found >>
  BY DEF ClockRuns
<1> HIDE DEF owed, paid
<1> QED
  BY <1>1, <1>2, <1>3 DEF TypeOK

\* A cycle that failed has forgotten its locals.
LEMMA ForgottenTypes ==
  ASSUME TypeInv, Forgotten
  PROVE  /\ venue' \in Venue \cup {HOLD} /\ parts' = {} /\ arriving' = FALSE
         /\ arriving' \in BOOLEAN
<1>1. arriving' \in BOOLEAN /\ arriving' = FALSE
  BY Zenon DEF Forgotten
<1> QED
  BY <1>1 DEF Forgotten

\* It leaves the process between commands, or closing the ward.
LEMMA FailedTypes ==
  ASSUME TypeInv, Failed
  PROVE  /\ venue' \in Venue \cup {HOLD} /\ parts' = {} /\ arriving' \in BOOLEAN
         /\ pc' \in {"idle", "stop"} /\ turn' = 1
BY ForgottenTypes DEF Failed

\* A step of cycle() up to the board keeps the types.
LEMMA PlanTypes ==
  ASSUME TypeInv,
         StartCycle \/ StartCycleFails \/ StartCycleHangs \/ QueenBuilds \/ QueenHolds
           \/ QueenBuildFails \/ CycleStopsEarly \/ PostBoard
  PROVE  TypeInv'
<1> USE DEF TypeInv, RoomForArrival, LoopStarted
<1>1. CASE StartCycle
  <2>1. arriving' \in BOOLEAN /\ lock' \in {"free", "joined", "lost"}
    BY <1>1, Zenon DEF StartCycle, TypeOK
  <2> QED
    BY <1>1, <2>1 DEF StartCycle, TypeOK, money, people, dbs, store, HOLD, Open, Refounding
<1>2. CASE StartCycleFails
  <2>1. arriving' \in BOOLEAN /\ lock' \in {"free", "joined", "lost"}
    BY <1>2, FailedTypes, Zenon DEF StartCycleFails, TypeOK
  <2>2. /\ UNCHANGED << money, people, dbs, saved, store >>
        /\ cycle' = cycle + 1 /\ Failed
    BY <1>2 DEF StartCycleFails
  <2> QED
    <3>1. /\ venue' \in Venue \cup {HOLD} /\ parts' = {} /\ arriving' \in BOOLEAN
          /\ pc' \in {"idle", "stop"} /\ turn' = 1
      BY <2>2, FailedTypes
    <3> QED
      BY <2>1, <2>2, <3>1 DEF TypeOK, money, people, dbs, saved, store, Open
<1>3. CASE StartCycleHangs
  BY <1>3 DEF StartCycleHangs, TypeOK, money, people, dbs, saved, store, running, locals, Open
<1>4. CASE QueenBuilds
  <2>1. PICK v : CanBuild(v) /\ SpendOn(v) /\ wardDb' = WithVenue(v) /\ venue' = v
    BY <1>4 DEF QueenBuilds
  <2>2. venue' \in Venue
    BY <2>1 DEF CanBuild
  <2> QED
    BY <1>4, <2>1, <2>2, SpendOnTypes
      DEF QueenBuilds, TypeOK, people, saved, store, Open
<1>5. CASE QueenHolds
  BY <1>5 DEF QueenHolds, TypeOK, money, people, dbs, saved, store, Open
<1>6. CASE QueenBuildFails
  <2>1. PICK v : CanBuild(v) /\ SpendOn(v) /\ wardDb' \in {wardDb, WithVenue(v)}
    BY <1>6 DEF QueenBuildFails
  <2> QED
    BY <1>6, <2>1, SpendOnTypes
      DEF QueenBuildFails, TypeOK, people, saved, store, Open
<1>7. CASE CycleStopsEarly
  <2>1. GiveUp /\ UNCHANGED << cycle, money, people >>
    BY <1>7 DEF CycleStopsEarly
  <2>2. /\ venue' \in Venue \cup {HOLD} /\ parts' = {} /\ arriving' \in BOOLEAN
        /\ pc' \in {"idle", "stop"} /\ turn' = 1
    BY <2>1, FailedTypes DEF GiveUp
  <2>3. /\ wardDb' = wardSaved /\ sparkDb' = sparkSaved /\ UNCHANGED << saved, store, lock >>
    BY <2>1 DEF GiveUp
  <2> QED
    BY <2>1, <2>2, <2>3 DEF TypeOK, money, people, saved, store, Open
<1>8. CASE PostBoard
  <2>1. PICK draws \in [1..BoardRows(wardDb) -> Draws] :
          wardDb' = [wardDb EXCEPT !.board =
                      [c \in 1..BoardRows(wardDb) |-> Contract(draws[c], Built(wardDb, PLAZA))]]
    BY <1>8 DEF PostBoard
  <2> DEFINE b == [c \in 1..BoardRows(wardDb) |-> Contract(draws[c], Built(wardDb, PLAZA))]
  <2>2. IsBoard(b)
    BY NewBoard DEF Built
  <2> HIDE DEF b
  <2>3. IsWardDb(wardDb')
    BY <2>1, <2>2 DEF IsWardDb, TypeOK, b
  <2> QED
    BY <1>8, <2>3 DEF PostBoard, TypeOK, money, people, saved, store, Open
<1> QED
  BY <1>1, <1>2, <1>3, <1>4, <1>5, <1>6, <1>7, <1>8

\* What a Spark's turn does to the amounts, whether or not it completes.
LEMMA SalvageTypes ==
  ASSUME TypeOK, NEW c \in Untaken, NEW won \in BOOLEAN, Salvage(c, won),
         NEW wage \in {0, PaidWage(c, won)}, treasury' = treasury + Share(c, won) - wage
  PROVE  /\ treasury' \in Nat /\ debt' \in Nat /\ issued' \in Nat
         /\ retired' \in Nat /\ spent' \in Nat /\ found' \in Nat
         /\ wage \in Nat
<1>1. /\ Share(c, won) \in Nat /\ PaidWage(c, won) \in Nat
      /\ PaidWage(c, won) <= treasury + Share(c, won)
  BY PaidWageType
<1>2. treasury \in Nat
  BY DEF TypeOK
<1>3. wage \in Nat /\ wage <= treasury + Share(c, won)
  BY <1>1, <1>2
<1> QED
  BY <1>1, <1>2, <1>3 DEF Salvage, TypeOK

\* The turn of a Spark that is in the ward wears its Frame within bounds.
LEMMA NewWearType ==
  ASSUME TypeOK, NEW won \in BOOLEAN, turn \in 1..nsparks
  PROVE  NewWear(won) \in 0..90
<1>1. sparks[turn].wear \in 0..90
  BY DEF TypeOK
<1>2. Built(wardDb, DEN) \in BOOLEAN
  BY DEF Built
<1> QED
  BY <1>1, <1>2, WornType DEF NewWear

\* The loop over the Sparks keeps the types.
LEMMA WorkTypes ==
  ASSUME TypeInv, SparkSkips \/ SparkWorks \/ SparkWorkFails
  PROVE  TypeInv'
<1> USE DEF TypeInv, RoomForArrival, LoopStarted
<1>1. CASE SparkSkips
  BY <1>1 DEF SparkSkips, TypeOK, money, people, dbs, saved, store
<1>2. CASE SparkWorks
  <2>a. pc = "work" /\ turn <= nsparks /\ turn' = turn + 1 /\ parts' = parts \cup {turn}
    BY <1>2 DEF SparkWorks
  <2>1. turn \in 1..nsparks /\ turn' = turn + 1 /\ parts' = parts \cup {turn}
    BY <2>a DEF TypeOK
  <2>2. PICK c \in Untaken, won \in BOOLEAN :
          /\ Salvage(c, won)
          /\ treasury' = treasury + Share(c, won) - PaidWage(c, won)
          /\ sparks' = [sparks EXCEPT ![turn] =
                          [purse |-> @.purse + PaidWage(c, won), wear |-> NewWear(won)]]
          /\ wardDb' = [wardDb EXCEPT !.board[c].taken = turn, !.wages = @ + PaidWage(c, won)]
          /\ sparkDb' = [sparkDb EXCEPT ![turn] = SparkRow(@, PaidWage(c, won), won, NewWear(won))]
    BY <1>2 DEF SparkWorks
  <2>3. /\ treasury' \in Nat /\ debt' \in Nat /\ issued' \in Nat
        /\ retired' \in Nat /\ spent' \in Nat /\ found' \in Nat
        /\ PaidWage(c, won) \in Nat
    BY <2>2, SalvageTypes
  <2>4. NewWear(won) \in 0..90
    BY <2>1, NewWearType
  <2>5. sparks' \in [1..nsparks -> [purse: Nat, wear: 0..90]]
    <3>1. sparks \in [1..nsparks -> [purse: Nat, wear: 0..90]]
      BY DEF TypeOK
    <3>2. [purse |-> sparks[turn].purse + PaidWage(c, won), wear |-> NewWear(won)]
            \in [purse: Nat, wear: 0..90]
      BY <3>1, <2>1, <2>3, <2>4, SMTT(60)
    <3> QED BY <3>1, <3>2, <2>2
  <2>6. SparkRow(sparkDb[turn], PaidWage(c, won), won, NewWear(won)) \in SparkDbs
    <3>1. sparkDb[turn] \in SparkDbs
      BY <2>1 DEF TypeOK
    <3> QED BY <3>1, <2>3, <2>4 DEF SparkRow, SparkDbs, Credit
  <2>7. sparkDb' \in [1..nsparks -> SparkDbs]
    BY <2>1, <2>2, <2>6 DEF TypeOK
  <2>8. IsWardDb(wardDb')
    <3>1. IsWardDb(wardDb) /\ turn \in Nat
      BY <2>1 DEF TypeOK
    <3> QED BY <3>1, <2>2, <2>3, TakenDb
  <2>9. UNCHANGED << cycle, nsparks, saved, store, pc, venue, arriving, lock >>
    BY <1>2 DEF SparkWorks
  <2> QED
    BY <2>1, <2>3, <2>5, <2>7, <2>8, <2>9, SMTT(60) DEF TypeOK, saved, store
<1>3. CASE SparkWorkFails
  <2>a. pc = "work" /\ turn <= nsparks
    BY <1>3 DEF SparkWorkFails
  <2>1. turn \in 1..nsparks
    BY <2>a DEF TypeOK
  <2>2. PICK c \in Untaken, won \in BOOLEAN, at \in {"salvage", "outcome", "spark"} :
          /\ Salvage(c, won)
          /\ treasury' = treasury + Share(c, won) - PaidBy(at, c, won)
          /\ sparks' = [sparks EXCEPT ![turn] =
                          [purse |-> @.purse + PaidBy(at, c, won), wear |-> WornBy(at, won)]]
    BY <1>3, ZenonT(60) DEF SparkWorkFails
  <2>b. PaidBy(at, c, won) \in {0, PaidWage(c, won)}
    BY DEF PaidBy
  <2>3. /\ treasury' \in Nat /\ debt' \in Nat /\ issued' \in Nat
        /\ retired' \in Nat /\ spent' \in Nat /\ found' \in Nat
        /\ PaidBy(at, c, won) \in Nat
    BY <2>2, <2>b, SalvageTypes
  <2>c. sparks \in [1..nsparks -> [purse: Nat, wear: 0..90]]
    BY DEF TypeOK
  <2>d. sparks[turn] \in [purse: Nat, wear: 0..90]
    BY <2>1, <2>c
  <2>4. WornBy(at, won) \in 0..90
    BY <2>1, <2>d, NewWearType DEF WornBy
  <2>5. sparks' \in [1..nsparks -> [purse: Nat, wear: 0..90]]
    <3>2. [purse |-> sparks[turn].purse + PaidBy(at, c, won), wear |-> WornBy(at, won)]
            \in [purse: Nat, wear: 0..90]
      BY <2>d, <2>3, <2>4
    <3> QED BY <3>2, <2>2, <2>c
  <2>6. UNCHANGED << cycle, nsparks >> /\ GiveUp
    BY <1>3 DEF SparkWorkFails
  <2> QED
    <3>1. /\ venue' \in Venue \cup {HOLD} /\ parts' = {} /\ arriving' \in BOOLEAN
          /\ pc' \in {"idle", "stop"} /\ turn' = 1
      BY <2>6, FailedTypes DEF GiveUp
    <3>2. /\ wardDb' = wardSaved /\ sparkDb' = sparkSaved /\ UNCHANGED << saved, store, lock >>
      BY <2>6 DEF GiveUp
    <3> QED
      BY <2>3, <2>5, <2>6, <3>1, <3>2, SMTT(40) DEF TypeOK, saved, store, Open
<1> QED
  BY <1>1, <1>2, <1>3

\* The clock, the commit and the arrival keep the types.
LEMMA EndTypes ==
  ASSUME TypeInv,
         DebtClock \/ DebtClockFails \/ CommitCycle \/ CommitFails \/ RecordRefused
           \/ Arrive \/ ArriveFails
  PROVE  TypeInv'
<1> USE DEF TypeInv, RoomForArrival, LoopStarted
<1>1. CASE DebtClock
  <2>1. /\ treasury' \in Nat /\ debt' \in Nat /\ issued' \in Nat
        /\ retired' \in Nat /\ spent' \in Nat /\ found' \in Nat
    BY <1>1, ClockRunsTypes DEF DebtClock
  <2>2. arriving' \in BOOLEAN
    BY <1>1, Zenon DEF DebtClock
  <2>3. IsWardDb(wardDb')
    <3>1. wardDb' = [wardDb EXCEPT !.row = Row(cycle, treasury', debt', issued, retired')]
      BY <1>1 DEF DebtClock
    <3>2. Row(cycle, treasury', debt', issued, retired') \in WardRows
      BY <2>1 DEF TypeOK, Row, WardRows
    <3> QED BY <3>1, <3>2 DEF TypeOK, IsWardDb
  <2>4. arriving' => nsparks < SPARKS_PER_WARD
    BY <1>1, Zenon DEF DebtClock
  <2>5. /\ pc' = "commit"
        /\ UNCHANGED << cycle, people, sparkDb, saved, store, turn, venue, parts, lock >>
    BY <1>1 DEF DebtClock
  <2> QED
    BY <2>1, <2>2, <2>3, <2>4, <2>5 DEF TypeOK, people, saved, store, Open
<1>2. CASE DebtClockFails
  <2>1. /\ treasury' \in Nat /\ debt' \in Nat /\ issued' \in Nat
        /\ retired' \in Nat /\ spent' \in Nat /\ found' \in Nat
    BY <1>2, ClockRunsTypes DEF DebtClockFails
  <2> QED
    <3>1. GiveUp /\ UNCHANGED << cycle, people >>
      BY <1>2 DEF DebtClockFails
    <3>2. /\ venue' \in Venue \cup {HOLD} /\ parts' = {} /\ arriving' \in BOOLEAN
          /\ pc' \in {"idle", "stop"} /\ turn' = 1
      BY <3>1, FailedTypes DEF GiveUp
    <3>3. /\ wardDb' = wardSaved /\ sparkDb' = sparkSaved /\ UNCHANGED << saved, store, lock >>
      BY <3>1 DEF GiveUp
    <3> QED
      BY <2>1, <3>1, <3>2, <3>3 DEF TypeOK, people, saved, store, Open
<1>3. CASE CommitCycle
  <2>1. sparkStore' \in [1..nsparks -> SparkDbs]
    BY <1>3 DEF CommitCycle, Landed, TypeOK
  <2> QED
    BY <1>3, <2>1
      DEF CommitCycle, TypeOK, money, people, dbs, saved, running, locals, Open
<1>4. CASE CommitFails
  <2>1. sparkDb' \in [1..nsparks -> SparkDbs] /\ IsWardDb(wardDb')
    BY <1>4 DEF CommitFails, TypeOK
  <2> QED
    BY <1>4, <2>1, FailedTypes DEF CommitFails, TypeOK, money, people, saved, store, Open
<1>5. CASE RecordRefused
  BY <1>5, FailedTypes DEF RecordRefused, TypeOK, money, people, dbs, saved, store, Open
<1>6. CASE Arrive
  <2>1. nsparks' = nsparks + 1 /\ nsparks < SPARKS_PER_WARD
    BY <1>6 DEF Arrive
  <2>2. sparks' \in [1..nsparks' -> [purse: Nat, wear: 0..90]]
    BY <1>6, <2>1 DEF Arrive, Newcomer, TypeOK
  <2> DEFINE With(f) == [k \in 1..nsparks + 1 |-> IF k <= nsparks THEN f[k] ELSE FreshSpark]
  <2>3. /\ sparkDb' \in [1..nsparks' -> SparkDbs]
        /\ sparkStore' \in [1..nsparks' -> SparkDbs]
        /\ sparkSaved' \in [1..nsparks' -> SparkDbs]
    <3>1. /\ sparkDb' = With(sparkDb) /\ sparkStore' = With(sparkStore)
          /\ sparkSaved' = sparkDb'
      BY <1>6 DEF Arrive
    <3>2. FreshSpark \in SparkDbs
      BY DEF FreshSpark, SparkDbs
    <3>3. ASSUME NEW f \in [1..nsparks -> SparkDbs]
          PROVE  With(f) \in [1..nsparks + 1 -> SparkDbs]
      <4>1. nsparks \in Nat
        BY DEF TypeOK
      <4> QED
        BY <3>2, <4>1
    <3>4. sparkDb \in [1..nsparks -> SparkDbs] /\ sparkStore \in [1..nsparks -> SparkDbs]
      BY DEF TypeOK
    <3> HIDE DEF With
    <3> QED
      BY <2>1, <3>1, <3>3, <3>4
  <2>4. /\ pc' = "idle"
        /\ UNCHANGED << cycle, money, wardDb, wardSaved, wardStore, running, lock >>
    BY <1>6 DEF Arrive
  <2> QED
    BY <2>1, <2>2, <2>3, <2>4, WardConstants
      DEF TypeOK, money, running, locals, Open
<1>7. CASE ArriveFails
  BY <1>7, FailedTypes DEF ArriveFails, TypeOK, money, people, dbs, saved, store, Open
<1> QED
  BY <1>1, <1>2, <1>3, <1>4, <1>5, <1>6, <1>7

\* The commands keep the types.
LEMMA CommandTypes ==
  ASSUME TypeInv, Command
  PROVE  TypeInv'
<1> USE DEF TypeInv, RoomForArrival, LoopStarted
<1>1. CASE CommissionCommand
  <2>1. PICK v \in Venue : /\ CanBuild(v) /\ SpendOn(v)
                           /\ wardDb' = WithVenue(v) /\ wardStore' = Flushed(WithVenue(v))
    BY <1>1 DEF CommissionCommand
  <2>2. IsWardDb(wardDb') /\ IsWardDb(wardStore') /\ treasury' \in Nat /\ spent' \in Nat
    BY <2>1, SpendOnTypes DEF TypeOK, Flushed
  <2>3. /\ UNCHANGED << cycle, people, sparkDb, saved, sparkStore, pc, running, lock >>
        /\ UNCHANGED << debt, issued, retired, found >>
    BY <1>1, <2>1 DEF CommissionCommand, SpendOn
  <2> QED
    BY <2>2, <2>3 DEF TypeOK, people, saved, running, locals
<1>2. CASE CommissionFails
  <2>1. PICK v \in Venue : /\ CanBuild(v) /\ SpendOn(v)
                           /\ \/ UNCHANGED << wardDb, wardStore >>
                              \/ wardDb' = WithVenue(v) /\ wardStore' = Flushed(WithVenue(v))
    BY <1>2 DEF CommissionFails
  <2>2. IsWardDb(wardDb') /\ IsWardDb(wardStore') /\ treasury' \in Nat /\ spent' \in Nat
    BY <2>1, SpendOnTypes DEF TypeOK, Flushed
  <2>3. /\ UNCHANGED << cycle, people, sparkDb, saved, sparkStore, pc, running, lock >>
        /\ UNCHANGED << debt, issued, retired, found >>
    BY <1>2, <2>1 DEF CommissionFails, SpendOn
  <2> QED
    BY <2>2, <2>3 DEF TypeOK, people, saved, running, locals
<1>3. CASE PayCommand
  <2>1. PICK k \in 1..nsparks, a \in Amounts :
          /\ CanPay(k, a)
          /\ treasury' = treasury - a
          /\ sparks' = [sparks EXCEPT ![k].purse = @ + a]
          /\ wardDb' = PaidWard(a) /\ wardStore' = PaidWard(a)
          /\ sparkDb' = PaidSpark(k, a)
          /\ sparkStore' = [sparkStore EXCEPT ![k] = PaidSpark(k, a)[k]]
    BY <1>3 DEF PayCommand
  <2>2. a \in Nat /\ a <= treasury
    BY <2>1, WardConstants DEF CanPay
  <2>3. IsWardDb(PaidWard(a))
    BY <2>2, WagesDb DEF TypeOK
  <2>4. sparks' \in [1..nsparks -> [purse: Nat, wear: 0..90]]
    <3>1. sparks \in [1..nsparks -> [purse: Nat, wear: 0..90]]
      BY DEF TypeOK
    <3>2. sparks[k] \in [purse: Nat, wear: 0..90]
      BY <3>1
    <3>3. [sparks[k] EXCEPT !.purse = @ + a] \in [purse: Nat, wear: 0..90]
      BY <3>2, <2>2
    <3> QED BY <3>1, <3>3, <2>1
  <2>5. PaidSpark(k, a) \in [1..nsparks -> SparkDbs]
    BY <2>2, PaidSparkType DEF TypeOK
  <2>6. sparkStore' \in [1..nsparks -> SparkDbs]
    BY <2>1, <2>5 DEF TypeOK
  <2>7. UNCHANGED << cycle, debt, issued, retired, spent, found, nsparks, saved, pc, running, lock >>
    BY <1>3 DEF PayCommand
  <2>8. treasury' \in Nat
    BY <2>1, <2>2 DEF TypeOK
  <2>9. IsWardDb(wardDb') /\ IsWardDb(wardStore') /\ sparkDb' \in [1..nsparks -> SparkDbs]
    BY <2>1, <2>3, <2>5
  <2> QED
    BY <2>4, <2>6, <2>7, <2>8, <2>9 DEF TypeOK, saved, running, locals
<1>4. CASE PayRefused
  <2>1. PICK k \in 1..nsparks, a \in Amounts :
          wardDb' = PaidWard(a) /\ (UNCHANGED sparkDb \/ sparkDb' = PaidSpark(k, a))
    BY <1>4 DEF PayRefused
  <2>2. a \in Nat
    BY WardConstants
  <2>3. IsWardDb(PaidWard(a))
    BY <2>2, WagesDb DEF TypeOK
  <2>4. PaidSpark(k, a) \in [1..nsparks -> SparkDbs]
    BY <2>2, PaidSparkType DEF TypeOK
  <2> QED
    BY <1>4, <2>1, <2>3, <2>4 DEF PayRefused, TypeOK, money, people, saved, store, running, locals
<1>5. CASE PayLosesLock
  <2>1. lock' \in {"free", "joined", "lost"}
    BY <1>5, Zenon DEF PayLosesLock, TypeOK
  <2>2. pc' \in {pc, "hung"}
    BY <1>5, Zenon DEF PayLosesLock
  <2>3. UNCHANGED << cycle, money, people, dbs, saved, store, running >>
    BY <1>5 DEF PayLosesLock
  <2> QED
    BY <2>1, <2>2, <2>3
      DEF TypeOK, money, people, dbs, saved, store, running, locals, Open
<1> QED
  BY <1>1, <1>2, <1>3, <1>4, <1>5 DEF Command

\* What a restart drops, and what it founds, are databases of a ward.
LEMMA DroppedType ==
  ASSUME TypeOK, NEW t \in 0..4
  PROVE  IsWardDb(Dropped(t))
<1>1. IsWardDb(wardDb) /\ IsWardDb(FreshWard)
  BY FreshWardType DEF TypeOK
<1>2. /\ BareWard.row \in WardRows /\ BareWard.built = FreshWard.built
      /\ BareWard.board = FreshWard.board /\ BareWard.wages = FreshWard.wages
  BY DEF BareWard, FreshWard, Row, WardRows
<1> QED
  BY <1>1, <1>2 DEF Dropped, IsWardDb

\* Closing a ward, and founding it again, keep the types.
LEMMA CloseTypes ==
  ASSUME TypeInv, Close
  PROVE  TypeInv'
<1> USE DEF TypeInv, RoomForArrival, LoopStarted, Open, Refounding
<1>0. FreshSpark \in SparkDbs /\ Newcomer \in [purse: Nat, wear: 0..90]
  BY DEF FreshSpark, SparkDbs, Newcomer
<1>w. IsWardDb(Flushed(wardDb))
  BY DEF Flushed, TypeOK
<1>1. CASE Leave \/ Restart
  <2>1. /\ venue' \in Venue \cup {HOLD} /\ parts' = {} /\ arriving' \in BOOLEAN
    BY <1>1, ForgottenTypes DEF Leave, Restart
  <2>2. /\ pc' \in {"stop", "restart"} /\ turn' = 1
        /\ UNCHANGED << cycle, money, people, dbs, saved, store, lock >>
    BY <1>1 DEF Leave, Restart
  <2> QED
    BY <2>1, <2>2 DEF TypeOK, money, people, dbs, saved, store
<1>2. CASE CloseSpark
  <2>1. turn \in 1..nsparks /\ pc \in {"stop", "restart"}
    BY <1>2 DEF CloseSpark, TypeOK
  <2>2. sparkStore' \in [1..nsparks -> SparkDbs]
    BY <1>2, <2>1 DEF CloseSpark, TypeOK
  <2> QED
    BY <1>2, <2>1, <2>2 DEF CloseSpark, TypeOK, money, people, dbs, saved, locals
<1>3. CASE CloseWard
  <2>1. IsWardDb(wardStore')
    BY <1>3, <1>w DEF CloseWard, FlushWard, TypeOK
  <2> QED
    BY <1>3, <2>1 DEF CloseWard, TypeOK, money, people, dbs, saved, running, locals
<1>4. CASE Reopen
  <2>1. IsWardDb(wardDb') /\ IsWardDb(wardStore') /\ IsWardDb(wardSaved')
    BY <1>4, <1>w DEF Reopen, FlushWard, TypeOK
  <2>2. /\ sparks' \in [1..nsparks -> [purse: Nat, wear: 0..90]]
        /\ sparkDb' \in [1..nsparks -> SparkDbs] /\ sparkSaved' \in [1..nsparks -> SparkDbs]
    BY <1>4, <1>0 DEF Reopen
  <2>3. lock' \in {"free", "joined", "lost"} /\ UNCHANGED << venue, parts, arriving >>
    BY <1>4, Zenon DEF Reopen, locals
  <2>4. /\ cycle' = 0 /\ treasury' = 0 /\ debt' = 0 /\ issued' = 0
        /\ retired' = 0 /\ spent' = 0 /\ found' = 0
        /\ pc' = "drop" /\ turn' = 0 /\ UNCHANGED << nsparks, sparkStore >>
    BY <1>4 DEF Reopen
  <2> QED
    BY <2>1, <2>2, <2>3, <2>4 DEF TypeOK
<1>5. CASE FoundTables
  <2>1. IsWardDb(wardDb') /\ IsWardDb(wardStore') /\ IsWardDb(wardSaved')
    BY <1>5, DroppedType DEF FoundTables
  <2> QED
    BY <1>5, <2>1 DEF FoundTables, TypeOK, money, people, running, locals
<1>6. CASE FoundRows
  BY <1>6, FreshWardType, WardConstants
  DEF FoundRows, OpeningMoney, TypeOK, people, locals
<1>7. CASE FoundSpark
  <2>1. turn \in 1..nsparks
    BY <1>7 DEF FoundSpark, TypeOK
  <2>2. sparkStore' \in [1..nsparks -> SparkDbs]
    BY <1>7, <2>1, <1>0 DEF FoundSpark, TypeOK
  <2> QED
    BY <1>7, <2>1, <2>2 DEF FoundSpark, TypeOK, money, people, dbs, saved, locals
<1>8. CASE Founded
  BY <1>8 DEF Founded, TypeOK, money, people, dbs, saved, store, locals
<1>9. CASE FoundFails
  <2>1. IsWardDb(wardDb') /\ IsWardDb(wardStore')
    <3>1. CASE pc = "drop"
      BY <1>9, <3>1, DroppedType DEF FoundFails
    <3> QED
      BY <1>9, <3>1 DEF FoundFails, TypeOK, store
  <2>2. /\ treasury' \in Nat /\ debt' \in Nat /\ issued' \in Nat
        /\ retired' \in Nat /\ spent' \in Nat /\ found' \in Nat
    BY <1>9, WardConstants, SMTT(40) DEF FoundFails, OpeningMoney, TypeOK, money
  <2>3. sparkStore' \in [1..nsparks -> SparkDbs]
    <3>1. CASE pc = "join"
      <4>1. sparkStore' = sparkStore \/ sparkStore' = [sparkStore EXCEPT ![turn] = FreshSpark]
        BY <1>9, <3>1 DEF FoundFails
      <4> QED BY <4>1, <1>0 DEF TypeOK
    <3> QED
      BY <1>9, <3>1 DEF FoundFails, TypeOK, store
  <2>4. pc' = "unfounded" /\ UNCHANGED << cycle, people, sparkDb, saved, running, lock >>
    BY <1>9 DEF FoundFails
  <2> QED
    BY <2>1, <2>2, <2>3, <2>4 DEF TypeOK, people, saved, running, locals
<1> QED
  BY <1>1, <1>2, <1>3, <1>4, <1>5, <1>6, <1>7, <1>8, <1>9 DEF Close

-------------------------------------------------------------------------------
(* Theorems.                                                               *)

\* Every step of a cycle, every command and every failure keeps the types.
LEMMA NextTypes == TypeInv /\ [Next]_vars => TypeInv'
<1> SUFFICES ASSUME TypeInv, [Next]_vars PROVE TypeInv'
  OBVIOUS
<1>1. CASE Cycle
  BY <1>1, PlanTypes, WorkTypes, EndTypes DEF Cycle
<1>2. CASE Command
  BY <1>2, CommandTypes
<1>4. CASE Close
  BY <1>4, CloseTypes
<1>3. CASE UNCHANGED vars
  BY <1>3 DEF vars, money, people, dbs, saved, store, running, locals, TypeInv, TypeOK,
              RoomForArrival, LoopStarted
<1> QED
  BY <1>1, <1>2, <1>3, <1>4 DEF Next

\* Whatever fails, and for any founding, price list, board and size of ward: no
\* purse, treasury or debt goes negative, wear stays within 0..90 and a ward
\* never outgrows its zone (queen.c 606-728).
THEOREM TypeCorrect == Spec => []TypeOK
<1>1. TypeInv => TypeOK
  BY DEF TypeInv
<1> QED
  BY <1>1, InitTypes, NextTypes, PTL DEF Spec

-------------------------------------------------------------------------------
(* The group fits: a Spark that joined it took a contract no one else took. *)

\* The contracts of the board somebody has taken.
Taken(db) == {c \in DOMAIN db.board : db.board[c].taken # 0}

\* The strengthening of GroupFits: there are at least as many taken contracts as
\* Sparks in the group, and the Sparks in it had their turn.
GroupInv ==
  /\ pc \in {"plan", "board"} => parts = {}
  /\ pc = "work" => \A k \in parts : k < turn
  /\ pc \in {"work", "commit"} =>
       /\ IsFiniteSet(parts)
       /\ Cardinality(parts) <= Cardinality(Taken(wardDb))

\* A board is a finite set of contracts, no larger than the Rails allow.
LEMMA TakenBound ==
  ASSUME NEW db, IsWardDb(db)
  PROVE  /\ IsFiniteSet(Taken(db)) /\ Cardinality(Taken(db)) \in Nat
         /\ Cardinality(Taken(db)) <= BOARD_SIZE + RAILS_MORE
<1>1. PICK n \in 0..(BOARD_SIZE + RAILS_MORE) : db.board \in [1..n -> Contracts]
  BY DEF IsWardDb, IsBoard
<1>2. n \in Nat /\ n <= BOARD_SIZE + RAILS_MORE
  BY WardConstants
<1>3. Taken(db) \subseteq 1..n
  BY <1>1 DEF Taken
<1>4. IsFiniteSet(1..n) /\ Cardinality(1..n) = n
  BY <1>2, FS_Interval
<1>5. IsFiniteSet(Taken(db)) /\ Cardinality(Taken(db)) <= n
  BY <1>3, <1>4, FS_Subset
<1>6. Cardinality(Taken(db)) \in Nat
  BY <1>5, FS_CardinalityType
<1> QED
  BY <1>2, <1>5, <1>6, WardConstants

\* While a contract is left, fewer are taken than a board may hold.
LEMMA TakenStrict ==
  ASSUME IsWardDb(wardDb), NEW c \in Untaken
  PROVE  Cardinality(Taken(wardDb)) + 1 <= BOARD_SIZE + RAILS_MORE
<1>1. PICK n \in 0..(BOARD_SIZE + RAILS_MORE) : wardDb.board \in [1..n -> Contracts]
  BY DEF IsWardDb, IsBoard
<1>2. n \in Nat /\ n <= BOARD_SIZE + RAILS_MORE
  BY WardConstants
<1>3. Taken(wardDb) \cup {c} \subseteq 1..n /\ c \notin Taken(wardDb)
  BY <1>1 DEF Taken, Untaken
<1>4. IsFiniteSet(1..n) /\ Cardinality(1..n) = n
  BY <1>2, FS_Interval
<1>5. IsFiniteSet(Taken(wardDb)) /\ Cardinality(Taken(wardDb)) \in Nat
  BY TakenBound
<1>6. Cardinality(Taken(wardDb) \cup {c}) = Cardinality(Taken(wardDb)) + 1
  BY <1>3, <1>5, FS_AddElement
<1>7. Cardinality(Taken(wardDb) \cup {c}) <= n
  BY <1>3, <1>4, FS_Subset
<1> QED
  BY <1>2, <1>5, <1>6, <1>7, WardConstants

\* So the group never refuses a Spark that found a contract.
LEMMA JoinAccepted ==
  ASSUME TypeInv, GroupInv, pc = "work", NEW c \in Untaken
  PROVE  ~ JoinRefused
<1>1. IsWardDb(wardDb)
  BY DEF TypeInv, TypeOK
<1>2. Cardinality(Taken(wardDb)) + 1 <= BOARD_SIZE + RAILS_MORE
  BY <1>1, TakenStrict
<1>3. Cardinality(Taken(wardDb)) \in Nat
  BY <1>1, TakenBound
<1>4. IsFiniteSet(parts) /\ Cardinality(parts) <= Cardinality(Taken(wardDb))
  BY DEF GroupInv
<1>5. Cardinality(parts) \in Nat
  BY <1>4, FS_CardinalityType
<1> QED
  BY <1>2, <1>3, <1>4, <1>5, BoardFitsGroup, WardConstants DEF JoinRefused

\* The strengthening implies what the runs check.
LEMMA GroupInvFits == TypeInv /\ GroupInv => GroupFits
<1> SUFFICES ASSUME TypeInv, GroupInv PROVE GroupFits
  OBVIOUS
<1>1. ASSUME pc \in {"work", "commit"} PROVE Cardinality(parts) + 1 <= TXN_MAX_PARTS
  <2>1. IsWardDb(wardDb)
    BY DEF TypeInv, TypeOK
  <2>2. /\ Cardinality(Taken(wardDb)) \in Nat
        /\ Cardinality(Taken(wardDb)) <= BOARD_SIZE + RAILS_MORE
    BY <2>1, TakenBound
  <2>3. IsFiniteSet(parts) /\ Cardinality(parts) <= Cardinality(Taken(wardDb))
    BY <1>1 DEF GroupInv
  <2>4. Cardinality(parts) \in Nat
    BY <2>3, FS_CardinalityType
  <2> QED
    BY <2>2, <2>3, <2>4, BoardFitsGroup, WardConstants
<1>2. ASSUME pc = "work", Untaken # {} PROVE ~ JoinRefused
  BY <1>2, JoinAccepted
<1> QED
  BY <1>1, <1>2 DEF GroupFits

\* A Spark that works takes a contract and joins the group.
LEMMA WorksKeepsGroup ==
  ASSUME TypeInv, GroupInv, SparkWorks
  PROVE  GroupInv'
<1>1. pc = "work" /\ pc' = "work" /\ turn <= nsparks /\ turn' = turn + 1
      /\ parts' = parts \cup {turn}
  BY DEF SparkWorks
<1>2. turn \in Nat /\ turn # 0 /\ IsWardDb(wardDb) /\ parts \subseteq 1..nsparks /\ nsparks \in Nat
  BY <1>1 DEF TypeInv, TypeOK, LoopStarted
<1>3. PICK c \in Untaken, won \in BOOLEAN :
        wardDb' = [wardDb EXCEPT !.board[c].taken = turn, !.wages = @ + PaidWage(c, won)]
  BY DEF SparkWorks
<1>4. \A k \in parts : k < turn
  BY <1>1 DEF GroupInv
<1>5. turn \notin parts
  BY <1>2, <1>4
<1>6. IsFiniteSet(parts) /\ Cardinality(parts) <= Cardinality(Taken(wardDb))
  BY <1>1 DEF GroupInv
<1>7. IsFiniteSet(parts') /\ Cardinality(parts') = Cardinality(parts) + 1
  BY <1>1, <1>5, <1>6, FS_AddElement
<1>8. Taken(wardDb') = Taken(wardDb) \cup {c} /\ c \notin Taken(wardDb)
  <2>1. PICK n \in 0..(BOARD_SIZE + RAILS_MORE) : wardDb.board \in [1..n -> Contracts]
    BY <1>2 DEF IsWardDb, IsBoard
  <2>2. c \in 1..n /\ wardDb.board[c].taken = 0
    BY <2>1 DEF Untaken
  <2>3. wardDb'.board = [wardDb.board EXCEPT ![c] = [wardDb.board[c] EXCEPT !.taken = turn]]
    BY <1>2, <1>3 DEF IsWardDb
  <2> DEFINE r == [wardDb.board[c] EXCEPT !.taken = turn]
  <2>4. r.taken = turn
    BY <2>1, <2>2 DEF Contracts
  <2> HIDE DEF r
  <2>5. wardDb'.board = [wardDb.board EXCEPT ![c] = r]
    BY <2>3 DEF r
  <2>6. DOMAIN wardDb'.board = 1..n /\ DOMAIN wardDb.board = 1..n
    BY <2>1, <2>5
  <2>7. \A k \in 1..n : wardDb'.board[k] = IF k = c THEN r ELSE wardDb.board[k]
    BY <2>1, <2>5
  <2> QED
    BY <2>2, <2>4, <2>6, <2>7, <1>2 DEF Taken
<1>9. IsFiniteSet(Taken(wardDb)) /\ Cardinality(Taken(wardDb)) \in Nat
  BY <1>2, TakenBound
<1>10. Cardinality(Taken(wardDb')) = Cardinality(Taken(wardDb)) + 1
  BY <1>8, <1>9, FS_AddElement
<1>11. Cardinality(parts) \in Nat
  BY <1>6, FS_CardinalityType
<1>12. \A k \in parts' : k < turn'
  BY <1>1, <1>2, <1>4
<1>13. Cardinality(parts') <= Cardinality(Taken(wardDb'))
  BY <1>6, <1>7, <1>9, <1>10, <1>11
<1> QED
  BY <1>1, <1>7, <1>12, <1>13 DEF GroupInv

\* Every step keeps the strengthening.
LEMMA NextGroup == TypeInv /\ GroupInv /\ [Next]_vars => GroupInv'
<1> SUFFICES ASSUME TypeInv, GroupInv, [Next]_vars PROVE GroupInv'
  OBVIOUS
<1>1. CASE StartCycle
  BY <1>1 DEF StartCycle, GroupInv
<1>2. CASE QueenBuilds \/ QueenHolds \/ QueenBuildFails
  BY <1>2 DEF QueenBuilds, QueenHolds, QueenBuildFails, GroupInv
<1>3. CASE PostBoard
  <2>1. parts' = {} /\ pc' = "work"
    BY <1>3 DEF PostBoard, GroupInv
  <2>2. IsFiniteSet(parts') /\ Cardinality(parts') = 0
    BY <2>1, FS_EmptySet
  <2>3. Cardinality(Taken(wardDb')) \in Nat
    <3>1. TypeInv'
      BY <1>3, PlanTypes
    <3>2. IsWardDb(wardDb')
      BY <3>1 DEF TypeInv, TypeOK
    <3> QED BY <3>2, TakenBound
  <2> QED
    BY <2>1, <2>2, <2>3 DEF GroupInv
<1>4. CASE SparkSkips
  BY <1>4 DEF SparkSkips, GroupInv, dbs, TypeInv, TypeOK
<1>5. CASE SparkWorks
  BY <1>5, WorksKeepsGroup
<1>6. CASE DebtClock
  <2>1. pc = "work" /\ pc' = "commit" /\ parts' = parts
        /\ wardDb' = [wardDb EXCEPT !.row = Row(cycle, treasury', debt', issued, retired')]
    BY <1>6 DEF DebtClock
  <2>2. wardDb'.board = wardDb.board
    BY <2>1 DEF TypeInv, TypeOK, IsWardDb
  <2> QED
    BY <2>1, <2>2 DEF GroupInv, Taken
<1>7. CASE pc' \in {"idle", "arrive", "hung", "stop", "stopped", "restart"} \cup Refounding
  BY <1>7 DEF GroupInv, Refounding
<1>8. CASE UNCHANGED vars
  BY <1>8 DEF vars, dbs, running, locals, GroupInv
<1>9. ASSUME StartCycleFails \/ StartCycleHangs \/ CycleStopsEarly \/ SparkWorkFails
               \/ DebtClockFails \/ CommitCycle \/ CommitFails \/ RecordRefused
               \/ Arrive \/ ArriveFails
      PROVE  pc' \in {"idle", "arrive", "hung", "stop"}
  BY <1>9 DEF StartCycleFails, StartCycleHangs, CycleStopsEarly, SparkWorkFails, GiveUp,
              DebtClockFails, CommitCycle, CommitFails, RecordRefused, Arrive, ArriveFails, Failed, Forgotten
<1>10. ASSUME Command
       PROVE  pc' \in {"idle", "hung"}
  <2>1. ASSUME PayLosesLock PROVE pc' \in {"idle", "hung"}
    <3>1. pc = "idle"
      BY <2>1 DEF PayLosesLock, CanPay
    <3>2. pc' = pc \/ pc' = "hung"
      BY <2>1, Zenon DEF PayLosesLock
    <3> QED BY <3>1, <3>2
  <2> QED
    BY <1>10, <2>1 DEF Command, CommissionCommand, CommissionFails, PayCommand, PayRefused,
              CanPay
<1>11. ASSUME Close
       PROVE  pc' \in {"idle", "stop", "stopped", "restart"} \cup Refounding
  BY <1>11 DEF Close, Leave, Restart, CloseSpark, CloseWard, Reopen, FoundTables, FoundRows,
               FoundSpark, Founded, FoundFails, Refounding
<1> QED
  BY <1>1, <1>2, <1>3, <1>4, <1>5, <1>6, <1>7, <1>8, <1>9, <1>10, <1>11 DEF Next, Cycle

\* group_join never refuses a Spark that has taken a contract, however large the
\* ward and whatever fails (queen.c 479-486, 493-504).
THEOREM GroupAlwaysFits == Spec => []GroupFits
<1>1. Init => GroupInv
  BY DEF Init, GroupInv
<1> QED
  BY <1>1, InitTypes, NextTypes, NextGroup, GroupInvFits, PTL DEF Spec

-------------------------------------------------------------------------------
(* Conservation, when nothing fails between a wage and its commit.         *)

\* Sums over the Sparks' databases, when one of them is written.
LEMMA PursesUpdate ==
  ASSUME NEW n \in Nat, NEW db \in [1..n -> SparkDbs], NEW k \in 1..n, NEW r \in SparkDbs
  PROVE  /\ Purses([db EXCEPT ![k] = r], n) = Purses(db, n) + r.purse - db[k].purse
         /\ Items([db EXCEPT ![k] = r], n) = Items(db, n) + r.held - db[k].held
<1> DEFINE e == [db EXCEPT ![k] = r]
<1>1. e \in [1..n -> SparkDbs] /\ e[k] = r /\ \A j \in 1..n : j # k => e[j] = db[j]
  OBVIOUS
<1> HIDE DEF e
<1>2. \A j \in 1..n : /\ db[j].purse \in Nat /\ db[j].held \in Nat
                      /\ e[j].purse \in Nat /\ e[j].held \in Nat
  BY <1>1 DEF SparkDbs
<1>3. Purses(e, n) = Purses(db, n) + r.purse - db[k].purse
  <2> DEFINE f == [j \in 1..n |-> db[j].purse]
             g == [j \in 1..n |-> e[j].purse]
  <2>1. f \in [1..n -> Int] /\ g \in [1..n -> Int]
    BY <1>2
  <2>2. \A j \in 1..n : j # k => g[j] = f[j]
    BY <1>1
  <2>3. g[k] = r.purse /\ f[k] = db[k].purse
    BY <1>1
  <2> HIDE DEF f, g
  <2>4. Total(g, n) = Total(f, n) + g[k] - f[k]
    BY <2>1, <2>2, TotalUpdate
  <2> QED
    BY <2>3, <2>4 DEF Purses, f, g
<1>4. Items(e, n) = Items(db, n) + r.held - db[k].held
  <2> DEFINE f == [j \in 1..n |-> db[j].held]
             g == [j \in 1..n |-> e[j].held]
  <2>1. f \in [1..n -> Int] /\ g \in [1..n -> Int]
    BY <1>2
  <2>2. \A j \in 1..n : j # k => g[j] = f[j]
    BY <1>1
  <2>3. g[k] = r.held /\ f[k] = db[k].held
    BY <1>1
  <2> HIDE DEF f, g
  <2>4. Total(g, n) = Total(f, n) + g[k] - f[k]
    BY <2>1, <2>2, TotalUpdate
  <2> QED
    BY <2>3, <2>4 DEF Items, f, g
<1> QED
  BY <1>3, <1>4 DEF e

\* Sums over the Sparks' databases are integers.
LEMMA PursesType ==
  ASSUME NEW n \in Nat, NEW db \in [1..n -> SparkDbs]
  PROVE  Purses(db, n) \in Int /\ Items(db, n) \in Int
<1>1. \A j \in 1..n : db[j].purse \in Nat /\ db[j].held \in Nat
  BY DEF SparkDbs
<1>2. /\ [j \in 1..n |-> db[j].purse] \in [1..n -> Int]
      /\ [j \in 1..n |-> db[j].held] \in [1..n -> Int]
  BY <1>1
<1> QED
  BY <1>2, TotalType DEF Purses, Items

\* Fresh databases hold nothing.
LEMMA PursesFresh ==
  ASSUME NEW n \in Nat, NEW db, db = [k \in 1..n |-> FreshSpark]
  PROVE  Purses(db, n) = 0 /\ Items(db, n) = 0
<1>1. \A j \in 1..n : db[j].purse = 0 /\ db[j].held = 0
  BY DEF FreshSpark
<1>2. /\ [j \in 1..n |-> db[j].purse] \in [1..n -> Int]
      /\ [j \in 1..n |-> db[j].held] \in [1..n -> Int]
  BY <1>1
<1> QED
  BY <1>1, <1>2, TotalZero DEF Purses, Items

\* A newcomer brings nothing with it.
LEMMA PursesArrive ==
  ASSUME NEW n \in Nat, NEW db \in [1..n -> SparkDbs], NEW e,
         e = [k \in 1..n + 1 |-> IF k <= n THEN db[k] ELSE FreshSpark]
  PROVE  Purses(e, n + 1) = Purses(db, n) /\ Items(e, n + 1) = Items(db, n)
<1>1. \A j \in 1..n : /\ db[j].purse \in Nat /\ db[j].held \in Nat
                      /\ e[j].purse = db[j].purse /\ e[j].held = db[j].held
  BY DEF SparkDbs
<1>2. n + 1 \in 1..n + 1 /\ e[n + 1].purse = 0 /\ e[n + 1].held = 0
  BY DEF FreshSpark
<1>3. \A j \in 1..n + 1 : e[j].purse \in Nat /\ e[j].held \in Nat
  BY <1>1, <1>2
<1>4. Purses(e, n + 1) = Purses(db, n)
  <2> DEFINE f == [j \in 1..n + 1 |-> e[j].purse]
             g == [j \in 1..n |-> db[j].purse]
  <2>1. f \in [1..n + 1 -> Int] /\ g \in [1..n -> Int] /\ \A j \in 1..n : f[j] = g[j]
    BY <1>1, <1>3
  <2>2. f[n + 1] = 0
    BY <1>2
  <2> HIDE DEF f, g
  <2>3. Total(f, n + 1) = Total(g, n) + f[n + 1] /\ Total(g, n) \in Int
    BY <2>1, TotalExtend, TotalType
  <2> QED
    BY <2>2, <2>3 DEF Purses, f, g
<1>5. Items(e, n + 1) = Items(db, n)
  <2> DEFINE f == [j \in 1..n + 1 |-> e[j].held]
             g == [j \in 1..n |-> db[j].held]
  <2>1. f \in [1..n + 1 -> Int] /\ g \in [1..n -> Int] /\ \A j \in 1..n : f[j] = g[j]
    BY <1>1, <1>3
  <2>2. f[n + 1] = 0
    BY <1>2
  <2> HIDE DEF f, g
  <2>3. Total(f, n + 1) = Total(g, n) + f[n + 1] /\ Total(g, n) \in Int
    BY <2>1, TotalExtend, TotalType
  <2> QED
    BY <2>2, <2>3 DEF Items, f, g
<1> QED
  BY <1>4, <1>5

\* The strengthening of Honest: until the first wage of a cycle a rollback
\* returns to what every purse holds now, and a ward that is founded again has
\* paid nobody.
HonestInv ==
  /\ Honest
  /\ pc \in {"plan", "board"} => sparkSaved = sparkDb
  /\ pc \in {"drop", "rows"} => sparkDb = [k \in 1..nsparks |-> FreshSpark] /\ spent = 0

\* The state a step starts from: amounts, and sums over well-formed databases.
LEMMA MoneyTypes ==
  ASSUME TypeInv
  PROVE  /\ treasury \in Nat /\ issued \in Nat /\ retired \in Nat /\ spent \in Nat
         /\ found \in Nat /\ nsparks \in Nat /\ sparkDb \in [1..nsparks -> SparkDbs]
         /\ Purses(sparkDb, nsparks) \in Int /\ Items(sparkDb, nsparks) \in Int
<1>1. /\ treasury \in Nat /\ issued \in Nat /\ retired \in Nat /\ spent \in Nat
      /\ found \in Nat /\ nsparks \in Nat /\ sparkDb \in [1..nsparks -> SparkDbs]
  BY DEF TypeInv, TypeOK
<1> QED
  BY <1>1, PursesType

\* A commission and the clock move scrip between the treasury and what left it.
LEMMA SpendKeepsHonest ==
  ASSUME TypeInv, Honest, UNCHANGED << sparkDb, nsparks >>,
         ClockRuns \/ (\E v : CanBuild(v) /\ SpendOn(v))
  PROVE  Honest'
<1>1. CASE ClockRuns
  <2> DEFINE paid == ClockTakes(treasury, Compounded(debt))
  <2>1. paid \in Nat
    BY CompoundedType, ClockTakesType DEF TypeInv, TypeOK
  <2>2. /\ treasury' = treasury - paid /\ retired' = retired + paid
        /\ UNCHANGED << issued, spent, found >>
    BY <1>1 DEF ClockRuns
  <2> HIDE DEF paid
  <2>3. /\ Purses(sparkDb', nsparks') = Purses(sparkDb, nsparks)
        /\ Items(sparkDb', nsparks') = Items(sparkDb, nsparks)
    OBVIOUS
  <2>4. /\ treasury \in Nat /\ retired \in Nat /\ spent \in Nat /\ issued \in Nat
        /\ Purses(sparkDb, nsparks) \in Int
    BY MoneyTypes
  <2>5. treasury + Purses(sparkDb, nsparks) + retired + spent = issued
    BY DEF Honest
  <2>6. treasury' + Purses(sparkDb', nsparks') + retired' + spent' = issued'
    BY <2>1, <2>2, <2>3, <2>4, <2>5
  <2>7. Items(sparkDb', nsparks') <= found'
    BY <2>2, <2>3 DEF Honest
  <2> QED
    BY <2>6, <2>7 DEF Honest
<1>2. CASE \E v : CanBuild(v) /\ SpendOn(v)
  <2>1. PICK v : CanBuild(v) /\ SpendOn(v)
    BY <1>2
  <2> DEFINE price == COST[v]
  <2>2. price \in Nat
    BY <2>1, WardConstants DEF CanBuild
  <2>3. /\ treasury' = treasury - price /\ spent' = spent + price
        /\ UNCHANGED << issued, retired, found >>
    BY <2>1 DEF SpendOn
  <2>4. /\ Purses(sparkDb', nsparks') = Purses(sparkDb, nsparks)
        /\ Items(sparkDb', nsparks') = Items(sparkDb, nsparks)
    OBVIOUS
  <2> HIDE DEF price
  <2>5. /\ treasury \in Nat /\ retired \in Nat /\ spent \in Nat /\ issued \in Nat
        /\ Purses(sparkDb, nsparks) \in Int
    BY MoneyTypes
  <2>6. treasury + Purses(sparkDb, nsparks) + retired + spent = issued
    BY DEF Honest
  <2>7. treasury' + Purses(sparkDb', nsparks') + retired' + spent' = issued'
    BY <2>2, <2>3, <2>4, <2>5, <2>6
  <2>8. Items(sparkDb', nsparks') <= found'
    BY <2>3, <2>4 DEF Honest
  <2> QED
    BY <2>7, <2>8 DEF Honest
<1> QED
  BY <1>1, <1>2

\* A turn makes scrip, and pays out of it one wage to one purse.
LEMMA WorksKeepsHonest ==
  ASSUME TypeInv, Honest, SparkWorks
  PROVE  Honest'
<1>a. pc = "work" /\ turn <= nsparks
  BY DEF SparkWorks
<1>1. turn \in 1..nsparks
  BY <1>a DEF TypeInv, TypeOK, LoopStarted
<1>2. PICK c \in Untaken, won \in BOOLEAN :
        /\ Salvage(c, won)
        /\ treasury' = treasury + Share(c, won) - PaidWage(c, won)
        /\ sparkDb' = [sparkDb EXCEPT ![turn] = SparkRow(@, PaidWage(c, won), won, NewWear(won))]
  BY DEF SparkWorks
<1>3. nsparks' = nsparks
  BY DEF SparkWorks
<1> DEFINE wage == PaidWage(c, won)
           r == SparkRow(sparkDb[turn], wage, won, NewWear(won))
           item == IF won /\ wage > 0 THEN 1 ELSE 0
<1>4. wage \in Nat /\ Share(c, won) \in Nat
  BY PaidWageType DEF TypeInv
<1>5. NewWear(won) \in 0..90
  BY <1>1, NewWearType DEF TypeInv
<1>6. sparkDb[turn] \in SparkDbs
  BY <1>1 DEF TypeInv, TypeOK
<1>7. sparkDb' = [sparkDb EXCEPT ![turn] = r]
  BY <1>2
<1>8. treasury' = treasury + Share(c, won) - wage
  BY <1>2
<1> HIDE DEF wage
<1>9. /\ r \in SparkDbs
      /\ r.purse = sparkDb[turn].purse + wage
      /\ r.held = sparkDb[turn].held + item
  BY <1>4, <1>5, <1>6 DEF SparkRow, SparkDbs, Credit
<1>10. sparkDb[turn].purse \in Nat /\ sparkDb[turn].held \in Nat
  BY <1>6 DEF SparkDbs
<1>12. /\ issued' = issued + Share(c, won)
       /\ found' \in Nat /\ found + item <= found'
       /\ UNCHANGED << retired, spent >>
  BY <1>2, MoneyTypes DEF Salvage
<1>13. item \in Nat
  OBVIOUS
<1> HIDE DEF r, item
<1>11. /\ Purses(sparkDb', nsparks') = Purses(sparkDb, nsparks) + wage
       /\ Items(sparkDb', nsparks') = Items(sparkDb, nsparks) + item
  <2>1. /\ Purses(sparkDb', nsparks') = Purses(sparkDb, nsparks) + r.purse - sparkDb[turn].purse
        /\ Items(sparkDb', nsparks') = Items(sparkDb, nsparks) + r.held - sparkDb[turn].held
    BY <1>1, <1>3, <1>7, <1>9, MoneyTypes, PursesUpdate
  <2>2. Purses(sparkDb, nsparks) \in Int /\ Items(sparkDb, nsparks) \in Int
    BY MoneyTypes
  <2>3. r.purse - sparkDb[turn].purse = wage /\ r.purse \in Nat
    BY <1>4, <1>9, <1>10
  <2>4. r.held - sparkDb[turn].held = item /\ r.held \in Nat
    BY <1>9, <1>10, <1>13
  <2> QED
    BY <2>1, <2>2, <2>3, <2>4, <1>10
<1>14. /\ treasury + Purses(sparkDb, nsparks) + retired + spent = issued
       /\ Items(sparkDb, nsparks) <= found
  BY DEF Honest
<1>15. treasury' + Purses(sparkDb', nsparks') + retired' + spent' = issued'
  <2>1. /\ treasury \in Nat /\ issued \in Nat /\ retired \in Nat /\ spent \in Nat
        /\ Purses(sparkDb, nsparks) \in Int
    BY MoneyTypes
  <2>2. treasury' = treasury + Share(c, won) - wage
    BY <1>8
  <2>3. issued' = issued + Share(c, won) /\ retired' = retired /\ spent' = spent
    BY <1>12
  <2>4. Purses(sparkDb', nsparks') = Purses(sparkDb, nsparks) + wage
    BY <1>11
  <2> QED
    BY <2>1, <2>2, <2>3, <2>4, <1>4, <1>14
<1>16. Items(sparkDb', nsparks') <= found'
  BY <1>11, <1>12, <1>13, <1>14, MoneyTypes
<1> QED
  BY <1>15, <1>16 DEF Honest

\* A payment moves its amount from the treasury to one purse.
LEMMA PayKeepsHonest ==
  ASSUME TypeInv, Honest, PayCommand
  PROVE  Honest'
<1>1. PICK k \in 1..nsparks, a \in Amounts :
        treasury' = treasury - a /\ sparkDb' = PaidSpark(k, a)
  BY DEF PayCommand
<1>2. UNCHANGED << issued, retired, spent, found, nsparks >>
  BY DEF PayCommand
<1>3. a \in Nat
  BY WardConstants
<1>4. sparkDb[k] \in SparkDbs
  BY DEF TypeInv, TypeOK
<1> DEFINE p == Credit(sparkDb[k].purse, a)
           r == [sparkDb[k] EXCEPT !.purse = p]
<1>5. sparkDb' = [sparkDb EXCEPT ![k] = r]
  BY <1>1 DEF PaidSpark
<1>7. sparkDb[k].purse \in Nat /\ sparkDb[k].held \in Nat
  BY <1>4 DEF SparkDbs
<1>10. p \in Nat /\ p = sparkDb[k].purse + a
  BY <1>3, <1>7 DEF Credit
<1> HIDE DEF p
<1>6. r \in SparkDbs /\ r.purse = sparkDb[k].purse + a /\ r.held = sparkDb[k].held
  BY <1>4, <1>10 DEF SparkDbs
<1> HIDE DEF r
<1>8. /\ Purses(sparkDb', nsparks') = Purses(sparkDb, nsparks) + r.purse - sparkDb[k].purse
      /\ Items(sparkDb', nsparks') = Items(sparkDb, nsparks) + r.held - sparkDb[k].held
  BY <1>2, <1>5, <1>6, MoneyTypes, PursesUpdate
<1>9. /\ Purses(sparkDb', nsparks') = Purses(sparkDb, nsparks) + a
      /\ Items(sparkDb', nsparks') = Items(sparkDb, nsparks)
  BY <1>3, <1>6, <1>7, <1>8, MoneyTypes
<1> QED
  BY <1>1, <1>2, <1>3, <1>9, MoneyTypes DEF Honest

\* Every step keeps conservation, when no fault can come after a wage, or when
\* the process stops at it.
LEMMA NextHonest ==
  ASSUME Faults \cap LateFaults = {} \/ (~ Serving /\ pc' # "stop"),
         TypeInv, GroupInv, HonestInv, [Next]_vars
  PROVE  HonestInv'
<1>0. ASSUME NEW f \in LateFaults, f \in Faults
      PROVE  ~ Serving /\ ~ Failed
  BY <1>0 DEF Failed
<1>1. CASE StartCycle
  BY <1>1 DEF StartCycle, HonestInv, Honest, money, people, dbs
<1>2. CASE StartCycleFails \/ StartCycleHangs
  BY <1>2 DEF StartCycleFails, StartCycleHangs, Failed, Forgotten, HonestInv, Honest, money, people, dbs
<1>3. CASE QueenBuilds \/ QueenBuildFails
  <2>1. \E v : CanBuild(v) /\ SpendOn(v)
    BY <1>3 DEF QueenBuilds, QueenBuildFails
  <2>2. pc = "plan" /\ pc' = "board" /\ UNCHANGED << sparkDb, nsparks, sparkSaved >>
    BY <1>3 DEF QueenBuilds, QueenBuildFails, people, saved
  <2> QED
    BY <2>1, <2>2, SpendKeepsHonest DEF HonestInv
<1>4. CASE QueenHolds
  BY <1>4 DEF QueenHolds, HonestInv, Honest, money, people, dbs, saved
<1>5. CASE CycleStopsEarly
  BY <1>5 DEF CycleStopsEarly, GiveUp, Failed, Forgotten, HonestInv, Honest, money, people, saved
<1>6. CASE PostBoard
  BY <1>6 DEF PostBoard, HonestInv, Honest, money, people
<1>7. CASE SparkSkips
  BY <1>7 DEF SparkSkips, HonestInv, Honest, money, people, dbs
<1>8. CASE SparkWorks
  <2>1. pc' = "work"
    BY <1>8 DEF SparkWorks
  <2> QED
    BY <1>8, <2>1, WorksKeepsHonest DEF HonestInv
<1>9. CASE SparkWorkFails
  <2>1. "work" \notin Faults
    BY <1>0, <1>9 DEF LateFaults, SparkWorkFails, GiveUp
  <2>2. pc = "work" /\ \E c \in Untaken : JoinRefused
    BY <1>9, <2>1 DEF SparkWorkFails
  <2> QED
    BY <2>2, JoinAccepted
<1>10. CASE DebtClock
  <2>1. ClockRuns /\ pc' = "commit" /\ UNCHANGED << sparkDb, nsparks >>
    BY <1>10 DEF DebtClock, people
  <2> QED
    BY <2>1, SpendKeepsHonest DEF HonestInv
<1>11. CASE DebtClockFails \/ CommitFails \/ RecordRefused
  BY <1>0, <1>11 DEF DebtClockFails, CommitFails, RecordRefused, GiveUp, LateFaults, StagedFaults
<1>12. CASE CommitCycle
  BY <1>12 DEF CommitCycle, HonestInv, Honest, money, people, dbs
<1>13. CASE Arrive
  <2>1. /\ nsparks' = nsparks + 1 /\ pc' = "idle" /\ UNCHANGED money
        /\ sparkDb' = [k \in 1..nsparks + 1 |-> IF k <= nsparks THEN sparkDb[k] ELSE FreshSpark]
    BY <1>13 DEF Arrive
  <2>2. /\ Purses(sparkDb', nsparks') = Purses(sparkDb, nsparks)
        /\ Items(sparkDb', nsparks') = Items(sparkDb, nsparks)
    BY <2>1, MoneyTypes, PursesArrive
  <2> QED
    BY <2>1, <2>2 DEF HonestInv, Honest, money
<1>14. CASE ArriveFails
  BY <1>14 DEF ArriveFails, Failed, Forgotten, HonestInv, Honest, money, people, dbs
<1>15. CASE CommissionCommand \/ CommissionFails
  <2>1. \E v : CanBuild(v) /\ SpendOn(v)
    BY <1>15 DEF CommissionCommand, CommissionFails
  <2>2. pc' = "idle" /\ UNCHANGED << sparkDb, nsparks >>
    BY <1>15 DEF CommissionCommand, CommissionFails, people
  <2> QED
    BY <2>1, <2>2, SpendKeepsHonest DEF HonestInv
<1>16. CASE PayCommand
  <2>1. pc' = "idle"
    BY <1>16 DEF PayCommand, CanPay
  <2> QED
    BY <1>16, <2>1, PayKeepsHonest DEF HonestInv
<1>17. CASE PayRefused
  BY <1>0, <1>17 DEF PayRefused, CanPay, LateFaults, StagedFaults
<1>18. CASE PayLosesLock
  <2>1. pc = "idle"
    BY <1>18 DEF PayLosesLock, CanPay
  <2>2. pc' = pc \/ pc' = "hung"
    BY <1>18, Zenon DEF PayLosesLock
  <2>3. UNCHANGED << money, people, dbs >>
    BY <1>18 DEF PayLosesLock
  <2> QED
    BY <2>1, <2>2, <2>3 DEF HonestInv, Honest, money, people, dbs
<1>19. CASE Leave \/ Restart \/ CloseSpark \/ CloseWard \/ FoundTables \/ FoundSpark \/ Founded
  <2>1. /\ UNCHANGED << money, people, sparkDb >>
        /\ pc' \notin {"plan", "board", "drop"} /\ (pc' = "rows" => pc = "drop")
    BY <1>19 DEF Leave, Restart, CloseSpark, CloseWard, FoundTables, FoundSpark, Founded, dbs
  <2> QED
    BY <2>1 DEF HonestInv, Honest, money, people
<1>20. CASE Reopen
  <2>1. /\ nsparks' = nsparks /\ pc' = "drop"
        /\ sparkDb' = [k \in 1..nsparks |-> FreshSpark]
        /\ treasury' = 0 /\ issued' = 0 /\ retired' = 0 /\ spent' = 0 /\ found' = 0
    BY <1>20 DEF Reopen
  <2>2. Purses(sparkDb', nsparks') = 0 /\ Items(sparkDb', nsparks') = 0
    BY <2>1, MoneyTypes, PursesFresh
  <2> QED
    BY <2>1, <2>2 DEF HonestInv, Honest
<1>22. CASE FoundRows \/ FoundFails
  <2>1. /\ UNCHANGED << people, sparkDb >> /\ pc' \in {"join", "unfounded"}
        /\ UNCHANGED money \/ (pc = "rows" /\ OpeningMoney)
    BY <1>22 DEF FoundRows, FoundFails
  <2>2. CASE UNCHANGED money
    BY <2>1, <2>2 DEF HonestInv, Honest, money, people
  <2>3. CASE pc = "rows" /\ OpeningMoney
    <3>1. sparkDb = [k \in 1..nsparks |-> FreshSpark] /\ spent = 0
      BY <2>3 DEF HonestInv
    <3>2. Purses(sparkDb, nsparks) = 0 /\ Items(sparkDb, nsparks) = 0
      BY <3>1, MoneyTypes, PursesFresh
    <3>3. /\ treasury' = START_TREASURY /\ issued' = START_TREASURY
          /\ retired' = 0 /\ spent' = 0 /\ found' = 0 /\ nsparks' = nsparks /\ sparkDb' = sparkDb
      BY <2>1, <2>3, <3>1 DEF OpeningMoney, people
    <3> QED
      BY <2>1, <3>2, <3>3, WardConstants DEF HonestInv, Honest
  <2> QED BY <2>1, <2>2, <2>3
<1>21. CASE UNCHANGED vars
  BY <1>21 DEF vars, money, people, dbs, saved, HonestInv, Honest
<1> QED
  BY <1>1, <1>2, <1>3, <1>4, <1>5, <1>6, <1>7, <1>8, <1>9, <1>10, <1>11, <1>12, <1>13, <1>14,
     <1>15, <1>16, <1>17, <1>18, <1>19, <1>20, <1>21, <1>22 DEF Next, Cycle, Command, Close

\* A new ward's books balance.
LEMMA InitHonest == Init => HonestInv
<1> SUFFICES ASSUME Init PROVE HonestInv
  OBVIOUS
<1>1. /\ nsparks = NSPARKS /\ NSPARKS \in Nat /\ sparkDb = [k \in 1..NSPARKS |-> FreshSpark]
      /\ treasury = START_TREASURY /\ issued = START_TREASURY
      /\ retired = 0 /\ spent = 0 /\ found = 0 /\ pc = "idle"
  BY WardConstants DEF Init
<1>2. Purses(sparkDb, nsparks) = 0 /\ Items(sparkDb, nsparks) = 0
  BY <1>1, PursesFresh
<1> QED
  BY <1>1, <1>2, WardConstants DEF HonestInv, Honest

\* Scrip is made by salvage alone, for every ward: what honest() adds up is
\* conserved at every statement of every command, as long as no statement fails
\* between a wage and the commit of its cycle (queen.c 746-765).
THEOREM ScripIsConserved ==
  ASSUME Faults \cap LateFaults = {}
  PROVE  Spec => []Honest
<1>1. Init => TypeInv /\ GroupInv /\ HonestInv
  BY InitTypes, InitHonest DEF Init, GroupInv
<1>2. TypeInv /\ GroupInv /\ HonestInv /\ [Next]_vars => (TypeInv /\ GroupInv /\ HonestInv)'
  BY NextTypes, NextGroup, NextHonest
<1>3. HonestInv => Honest
  BY DEF HonestInv
<1> QED
  BY <1>1, <1>2, <1>3, PTL DEF Spec

-------------------------------------------------------------------------------
(* Every purse of an open ward is backed by the ledger, whatever fails.    *)

\* No purse of one copy of the Sparks' databases is ahead of the other's.
Below(d, e, n) == \A k \in 1..n : d[k].purse <= e[k].purse

\* A cycle is being run: the group is open, and a failure rolls back.
InCycle == pc \in {"plan", "board", "work", "commit"}

\* The ledger in the store has paid what the purses in the store hold.
StoreBacked == Purses(sparkStore, nsparks) <= wardStore.wages

\* The strengthening of PursesAreBacked: what the connections read is backed as
\* well, because a later flush makes it durable, and so is what a rollback
\* returns to; and no purse is durable before its connection reads it.
Backed ==
  /\ Below(sparkStore, sparkDb, nsparks)
  /\ Purses(sparkDb, nsparks) <= wardDb.wages
  /\ StoreBacked
  /\ InCycle => /\ Below(sparkStore, sparkSaved, nsparks)
                /\ Below(sparkSaved, sparkDb, nsparks)
                /\ Purses(sparkSaved, nsparks) <= wardSaved.wages

\* Smaller purses add up to less.
LEMMA PursesBelow ==
  ASSUME NEW n \in Nat, NEW d \in [1..n -> SparkDbs], NEW e \in [1..n -> SparkDbs],
         Below(d, e, n)
  PROVE  Purses(d, n) <= Purses(e, n)
<1> DEFINE f == [j \in 1..n |-> d[j].purse]
           g == [j \in 1..n |-> e[j].purse]
<1>1. \A j \in 1..n : d[j].purse \in Nat /\ e[j].purse \in Nat
  BY DEF SparkDbs
<1>2. f \in [1..n -> Int] /\ g \in [1..n -> Int]
  BY <1>1
<1>3. \A j \in 1..n : f[j] <= g[j]
  BY DEF Below
<1> HIDE DEF f, g
<1>4. Total(f, n) <= Total(g, n)
  BY <1>2, <1>3, TotalMonotone
<1> QED
  BY <1>4 DEF Purses, f, g

\* The databases a step starts from.
LEMMA BookTypes ==
  ASSUME TypeInv
  PROVE  /\ nsparks \in Nat
         /\ sparkDb \in [1..nsparks -> SparkDbs] /\ Purses(sparkDb, nsparks) \in Int
         /\ sparkSaved \in [1..nsparks -> SparkDbs] /\ Purses(sparkSaved, nsparks) \in Int
         /\ sparkStore \in [1..nsparks -> SparkDbs] /\ Purses(sparkStore, nsparks) \in Int
         /\ wardDb.wages \in Nat /\ wardSaved.wages \in Nat /\ wardStore.wages \in Nat
         /\ \A k \in 1..nsparks : /\ sparkDb[k].purse \in Nat /\ sparkSaved[k].purse \in Nat
                                  /\ sparkStore[k].purse \in Nat
<1>1. /\ nsparks \in Nat
      /\ sparkDb \in [1..nsparks -> SparkDbs]
      /\ sparkSaved \in [1..nsparks -> SparkDbs]
      /\ sparkStore \in [1..nsparks -> SparkDbs]
  BY DEF TypeInv, TypeOK
<1>2. wardDb.wages \in Nat /\ wardSaved.wages \in Nat /\ wardStore.wages \in Nat
  BY DEF TypeInv, TypeOK, IsWardDb
<1>3. \A k \in 1..nsparks : /\ sparkDb[k].purse \in Nat /\ sparkSaved[k].purse \in Nat
                            /\ sparkStore[k].purse \in Nat
  BY <1>1 DEF SparkDbs
<1>4. /\ Purses(sparkDb, nsparks) \in Int /\ Purses(sparkSaved, nsparks) \in Int
      /\ Purses(sparkStore, nsparks) \in Int
  BY <1>1, PursesType
<1> QED
  BY <1>1, <1>2, <1>3, <1>4

\* A venue leaves the wages on the ledger alone.
LEMMA VenueWages ==
  ASSUME TypeInv, NEW v \in Venue
  PROVE  WithVenue(v).wages = wardDb.wages
BY DEF TypeInv, TypeOK, IsWardDb, WithVenue

\* The ward's side of a payment, and the Spark's.
LEMMA PaySides ==
  ASSUME TypeInv, NEW k \in 1..nsparks, NEW a \in Amounts
  PROVE  /\ a \in Nat
         /\ PaidWard(a).wages = wardDb.wages + a
         /\ PaidSpark(k, a) \in [1..nsparks -> SparkDbs]
         /\ \A j \in 1..nsparks : j # k => PaidSpark(k, a)[j] = sparkDb[j]
         /\ PaidSpark(k, a)[k].purse = sparkDb[k].purse + a
         /\ PaidSpark(k, a)[k].wear = sparkDb[k].wear
         /\ Purses(PaidSpark(k, a), nsparks) = Purses(sparkDb, nsparks) + a
<1>1. a \in Nat
  BY WardConstants
<1>2. PaidWard(a).wages = wardDb.wages + a
  BY DEF TypeInv, TypeOK, IsWardDb, PaidWard
<1> DEFINE p == Credit(sparkDb[k].purse, a)
           r == [sparkDb[k] EXCEPT !.purse = p]
<1>3. PaidSpark(k, a) = [sparkDb EXCEPT ![k] = r]
  BY DEF PaidSpark
<1>4. sparkDb[k] \in SparkDbs /\ sparkDb[k].purse \in Nat
  BY BookTypes
<1>5. p \in Nat /\ p = sparkDb[k].purse + a
  BY <1>1, <1>4 DEF Credit
<1> HIDE DEF p
<1>6. r \in SparkDbs /\ r.purse = p /\ r.wear = sparkDb[k].wear
  BY <1>4, <1>5 DEF SparkDbs
<1> HIDE DEF r
<1>7. Purses(PaidSpark(k, a), nsparks) = Purses(sparkDb, nsparks) + r.purse - sparkDb[k].purse
  <2>1. Purses([sparkDb EXCEPT ![k] = r], nsparks)
          = Purses(sparkDb, nsparks) + r.purse - sparkDb[k].purse
    BY <1>6, BookTypes, PursesUpdate
  <2> QED BY <1>3, <2>1
<1>8. Purses(PaidSpark(k, a), nsparks) = Purses(sparkDb, nsparks) + a
  BY <1>1, <1>4, <1>5, <1>6, <1>7, BookTypes
<1>9. /\ PaidSpark(k, a) \in [1..nsparks -> SparkDbs] /\ PaidSpark(k, a)[k] = r
      /\ \A j \in 1..nsparks : j # k => PaidSpark(k, a)[j] = sparkDb[j]
  BY <1>3, <1>6, BookTypes
<1> QED
  BY <1>1, <1>2, <1>5, <1>6, <1>8, <1>9

\* A turn of the loop moves one wage: onto the ledger, into the Spark's database
\* and into its purse in memory.
LEMMA WorkSides ==
  ASSUME TypeInv, SparkWorks
  PROVE  \E wage \in Nat :
           /\ turn \in 1..nsparks /\ nsparks' = nsparks /\ parts' = parts \cup {turn}
           /\ pc = "work" /\ pc' = "work"
           /\ UNCHANGED << wardSaved, sparkSaved, wardStore, sparkStore >>
           /\ wardDb'.wages = wardDb.wages + wage
           /\ \A j \in 1..nsparks : j # turn => sparkDb'[j] = sparkDb[j] /\ sparks'[j] = sparks[j]
           /\ sparkDb'[turn].purse = sparkDb[turn].purse + wage
           /\ sparks'[turn].purse = sparks[turn].purse + wage
           /\ sparks'[turn].wear = sparkDb'[turn].wear
           /\ Purses(sparkDb', nsparks) = Purses(sparkDb, nsparks) + wage
<1>a. /\ pc = "work" /\ pc' = "work" /\ turn <= nsparks /\ parts' = parts \cup {turn}
      /\ UNCHANGED << nsparks, wardSaved, sparkSaved, wardStore, sparkStore >>
  BY DEF SparkWorks, saved, store
<1>1. turn \in 1..nsparks
  BY <1>a DEF TypeInv, TypeOK, LoopStarted
<1>2. PICK c \in Untaken, won \in BOOLEAN :
        /\ sparks' = [sparks EXCEPT ![turn] =
                        [purse |-> @.purse + PaidWage(c, won), wear |-> NewWear(won)]]
        /\ wardDb' = [wardDb EXCEPT !.board[c].taken = turn, !.wages = @ + PaidWage(c, won)]
        /\ sparkDb' = [sparkDb EXCEPT ![turn] = SparkRow(@, PaidWage(c, won), won, NewWear(won))]
  BY DEF SparkWorks
<1> DEFINE wage == PaidWage(c, won)
           wear == NewWear(won)
           r == SparkRow(sparkDb[turn], wage, won, wear)
           m == [purse |-> sparks[turn].purse + wage, wear |-> wear]
<1>3. wage \in Nat
  BY PaidWageType DEF TypeInv
<1>4. wear \in 0..90
  BY <1>1, NewWearType DEF TypeInv
<1>5. sparkDb' = [sparkDb EXCEPT ![turn] = r] /\ sparks' = [sparks EXCEPT ![turn] = m]
  BY <1>2
<1>6. wardDb'.wages = wardDb.wages + wage
  BY <1>2 DEF TypeInv, TypeOK, IsWardDb
<1>7. sparkDb[turn] \in SparkDbs
  BY <1>1, BookTypes
<1> HIDE DEF wage, wear
<1>8. r \in SparkDbs /\ r.purse = sparkDb[turn].purse + wage /\ r.wear = wear
  BY <1>3, <1>4, <1>7 DEF SparkRow, SparkDbs, Credit
<1>9. m.purse = sparks[turn].purse + wage /\ m.wear = wear
  OBVIOUS
<1> HIDE DEF r, m
<1>10. DOMAIN sparks = 1..nsparks /\ DOMAIN sparkDb = 1..nsparks
  BY DEF TypeInv, TypeOK
<1>11. sparkDb'[turn] = r /\ sparks'[turn] = m
  BY <1>1, <1>5, <1>10
<1>12. \A j \in 1..nsparks : j # turn => sparkDb'[j] = sparkDb[j] /\ sparks'[j] = sparks[j]
  BY <1>5, <1>10
<1>13. Purses(sparkDb', nsparks) = Purses(sparkDb, nsparks) + r.purse - sparkDb[turn].purse
  BY <1>1, <1>5, <1>8, BookTypes, PursesUpdate
<1>14. Purses(sparkDb', nsparks) = Purses(sparkDb, nsparks) + wage
  BY <1>1, <1>3, <1>8, <1>13, BookTypes
<1> QED
  BY <1>a, <1>1, <1>3, <1>6, <1>8, <1>9, <1>11, <1>12, <1>14

\* What leaves every purse alone keeps it backed, a flush of the ward included.
LEMMA BackedSame ==
  ASSUME TypeInv, Backed, UNCHANGED << nsparks, sparkDb, sparkSaved, sparkStore >>,
         wardDb'.wages = wardDb.wages, wardSaved'.wages = wardSaved.wages,
         wardStore'.wages \in {wardStore.wages, wardDb.wages},
         InCycle' => InCycle
  PROVE  Backed'
<1>1. Purses(sparkStore, nsparks) <= Purses(sparkDb, nsparks)
  BY BookTypes, PursesBelow DEF Backed
<1>2. Purses(sparkStore, nsparks) <= wardStore'.wages
  BY <1>1, BookTypes DEF Backed, StoreBacked
<1> QED
  BY <1>2 DEF Backed, StoreBacked

\* A rollback returns to purses that are backed.
LEMMA BackedGiveUp ==
  ASSUME TypeInv, Backed, InCycle, GiveUp, nsparks' = nsparks
  PROVE  Backed'
<1>1. /\ wardDb' = wardSaved /\ sparkDb' = sparkSaved /\ sparkStore' = sparkStore
      /\ wardStore' = wardStore /\ ~ InCycle'
  BY DEF GiveUp, Failed, Forgotten, saved, store, InCycle
<1> QED
  BY <1>1 DEF Backed, StoreBacked

\* A wage is on the ledger when it is in the purse.
LEMMA BackedWorks ==
  ASSUME TypeInv, Backed, SparkWorks
  PROVE  Backed'
<1>1. PICK wage \in Nat :
        /\ turn \in 1..nsparks /\ nsparks' = nsparks
        /\ pc = "work" /\ pc' = "work"
        /\ UNCHANGED << wardSaved, sparkSaved, wardStore, sparkStore >>
        /\ wardDb'.wages = wardDb.wages + wage
        /\ \A j \in 1..nsparks : j # turn => sparkDb'[j] = sparkDb[j]
        /\ sparkDb'[turn].purse = sparkDb[turn].purse + wage
        /\ Purses(sparkDb', nsparks) = Purses(sparkDb, nsparks) + wage
  BY WorkSides
<1>2. InCycle
  BY <1>1 DEF InCycle
<1>a. \A k \in 1..nsparks : sparkDb[k].purse \in Nat
  BY BookTypes
<1>b. /\ sparkDb'[turn].purse \in Nat /\ sparkDb[turn].purse <= sparkDb'[turn].purse
  BY <1>1, <1>a
<1>3. Below(sparkDb, sparkDb', nsparks)
  BY <1>1, <1>a, <1>b DEF Below
<1>4. \A k \in 1..nsparks : sparkDb'[k].purse \in Nat
  BY <1>1, <1>a, <1>b
<1>5. Below(sparkStore, sparkDb', nsparks) /\ Below(sparkSaved, sparkDb', nsparks)
  <2>1. Below(sparkStore, sparkDb, nsparks) /\ Below(sparkSaved, sparkDb, nsparks)
    BY <1>2 DEF Backed
  <2>2. \A k \in 1..nsparks : /\ sparkStore[k].purse <= sparkDb[k].purse
                              /\ sparkSaved[k].purse <= sparkDb[k].purse
                              /\ sparkDb[k].purse <= sparkDb'[k].purse
    BY <2>1, <1>3 DEF Below
  <2>3. \A k \in 1..nsparks : sparkStore[k].purse \in Nat /\ sparkSaved[k].purse \in Nat
    BY BookTypes
  <2>4. \A k \in 1..nsparks : /\ sparkStore[k].purse <= sparkDb'[k].purse
                              /\ sparkSaved[k].purse <= sparkDb'[k].purse
    BY <2>2, <2>3, <1>a, <1>4
  <2> QED BY <2>4 DEF Below
<1>6. Purses(sparkDb', nsparks) <= wardDb'.wages
  BY <1>1, BookTypes DEF Backed
<1> QED
  BY <1>1, <1>2, <1>5, <1>6 DEF Backed, StoreBacked

\* A COMMIT that fails leaves some of the wages in the connections, and all of
\* them on the ward's ledger.
LEMMA BackedCommitFails ==
  ASSUME TypeInv, Backed, CommitFails
  PROVE  Backed'
<1>1. /\ InCycle /\ ~ InCycle'
      /\ UNCHANGED << nsparks, wardSaved, sparkSaved, wardStore, sparkStore >>
  BY DEF CommitFails, InCycle, Failed, Forgotten, people, saved, store
<1>2. CASE wardDb' = wardSaved /\ sparkDb' = sparkSaved
  BY <1>1, <1>2 DEF Backed, StoreBacked
<1>3. CASE \E p \in parts :
             /\ UNCHANGED wardDb
             /\ sparkDb' = [k \in 1..nsparks |-> IF k < p THEN sparkDb[k] ELSE sparkSaved[k]]
  <2>1. /\ wardDb' = wardDb
        /\ \A k \in 1..nsparks : sparkDb'[k] \in {sparkDb[k], sparkSaved[k]}
    BY <1>3
  <2>2. sparkDb' \in [1..nsparks -> SparkDbs]
    BY <1>3, BookTypes
  <2>3. Below(sparkStore, sparkDb', nsparks) /\ Below(sparkDb', sparkDb, nsparks)
    <3>1. /\ Below(sparkStore, sparkDb, nsparks) /\ Below(sparkStore, sparkSaved, nsparks)
          /\ Below(sparkSaved, sparkDb, nsparks)
      BY <1>1 DEF Backed
    <3>2. ASSUME NEW k \in 1..nsparks
          PROVE  /\ sparkStore[k].purse <= sparkDb'[k].purse
                 /\ sparkDb'[k].purse <= sparkDb[k].purse
      <4>1. /\ sparkStore[k].purse <= sparkDb[k].purse
            /\ sparkStore[k].purse <= sparkSaved[k].purse
            /\ sparkSaved[k].purse <= sparkDb[k].purse
        BY <3>1 DEF Below
      <4>2. sparkDb[k].purse \in Nat
        BY BookTypes
      <4>3. sparkDb'[k] = sparkDb[k] \/ sparkDb'[k] = sparkSaved[k]
        BY <2>1
      <4> QED BY <4>1, <4>2, <4>3
    <3> QED BY <3>2 DEF Below
  <2>4. Purses(sparkDb', nsparks) <= Purses(sparkDb, nsparks)
    BY <2>2, <2>3, BookTypes, PursesBelow
  <2>5. Purses(sparkDb', nsparks) \in Int
    BY <2>2, BookTypes, PursesType
  <2>6. Purses(sparkDb', nsparks) <= wardDb'.wages
    BY <2>1, <2>4, <2>5, BookTypes DEF Backed
  <2> QED
    BY <1>1, <2>3, <2>6 DEF Backed, StoreBacked
<1> QED
  BY <1>2, <1>3 DEF CommitFails

\* The record carries the ward, and no purse is ahead of what the ward has paid.
LEMMA BackedCommit ==
  ASSUME TypeInv, Backed, CommitCycle
  PROVE  Backed'
<1>1. /\ ~ InCycle' /\ UNCHANGED << nsparks, wardDb, sparkDb >>
      /\ wardStore' = wardDb
      /\ sparkStore' = [k \in 1..nsparks |-> IF k \in parts THEN sparkDb[k] ELSE sparkStore[k]]
  BY DEF CommitCycle, InCycle, people, dbs, Landed
<1>2. sparkStore' \in [1..nsparks -> SparkDbs]
  BY <1>1, BookTypes
<1>3. Below(sparkStore', sparkDb, nsparks)
  BY <1>1, BookTypes DEF Backed, Below
<1>4. Purses(sparkStore', nsparks) <= Purses(sparkDb, nsparks)
  BY <1>2, <1>3, BookTypes, PursesBelow
<1>5. Purses(sparkStore', nsparks) \in Int
  BY <1>2, BookTypes, PursesType
<1>6. Purses(sparkStore', nsparks) <= wardStore'.wages
  BY <1>1, <1>4, <1>5, BookTypes DEF Backed
<1> QED
  BY <1>1, <1>3, <1>6 DEF Backed, StoreBacked

\* A newcomer's purse is empty in every copy.
LEMMA BackedArrive ==
  ASSUME TypeInv, Backed, Arrive
  PROVE  Backed'
<1>1. /\ ~ InCycle' /\ nsparks' = nsparks + 1 /\ UNCHANGED << wardDb, wardStore >>
      /\ sparkDb' = [k \in 1..nsparks + 1 |-> IF k <= nsparks THEN sparkDb[k] ELSE FreshSpark]
      /\ sparkStore' = [k \in 1..nsparks + 1 |-> IF k <= nsparks THEN sparkStore[k] ELSE FreshSpark]
  BY DEF Arrive, InCycle
<1>2. /\ Purses(sparkDb', nsparks') = Purses(sparkDb, nsparks)
      /\ Purses(sparkStore', nsparks') = Purses(sparkStore, nsparks)
  BY <1>1, BookTypes, PursesArrive
<1>3. Below(sparkStore', sparkDb', nsparks')
  BY <1>1, BookTypes DEF Backed, Below, FreshSpark
<1> QED
  BY <1>1, <1>2, <1>3 DEF Backed, StoreBacked

\* Both sides of a payment, or the ward's alone.
LEMMA BackedPay ==
  ASSUME TypeInv, Backed, PayCommand \/ PayRefused
  PROVE  Backed'
<1>1. PICK k \in 1..nsparks, a \in Amounts :
        /\ pc = "idle" /\ pc' = "idle" /\ nsparks' = nsparks
        /\ wardDb' = PaidWard(a)
        /\ \/ /\ sparkDb' = PaidSpark(k, a) /\ wardStore' = PaidWard(a)
              /\ sparkStore' = [sparkStore EXCEPT ![k] = PaidSpark(k, a)[k]]
           \/ sparkDb' \in {sparkDb, PaidSpark(k, a)} /\ UNCHANGED << wardStore, sparkStore >>
  BY DEF PayCommand, PayRefused, CanPay, people, store
<1>2. /\ a \in Nat
      /\ PaidWard(a).wages = wardDb.wages + a
      /\ PaidSpark(k, a) \in [1..nsparks -> SparkDbs]
      /\ \A j \in 1..nsparks : j # k => PaidSpark(k, a)[j] = sparkDb[j]
      /\ PaidSpark(k, a)[k].purse = sparkDb[k].purse + a
      /\ Purses(PaidSpark(k, a), nsparks) = Purses(sparkDb, nsparks) + a
  BY PaySides
<1>3. /\ Below(sparkStore, sparkDb, nsparks) /\ Purses(sparkDb, nsparks) <= wardDb.wages
      /\ Purses(sparkStore, nsparks) <= wardStore.wages
  BY DEF Backed, StoreBacked
<1>4. Purses(sparkDb', nsparks) <= wardDb'.wages
  BY <1>1, <1>2, <1>3, BookTypes
<1>5. Below(sparkStore, PaidSpark(k, a), nsparks)
  <2>1. \A j \in 1..nsparks : sparkStore[j].purse <= sparkDb[j].purse
    BY <1>3 DEF Below
  <2>2. sparkStore[k].purse <= PaidSpark(k, a)[k].purse
    BY <1>2, <2>1, BookTypes
  <2> QED
    BY <1>2, <2>1, <2>2 DEF Below
<1>6. Below(sparkStore', sparkDb', nsparks)
  <2>1. CASE UNCHANGED sparkStore
    BY <1>1, <1>3, <1>5, <2>1
  <2>2. CASE /\ sparkDb' = PaidSpark(k, a)
             /\ sparkStore' = [sparkStore EXCEPT ![k] = PaidSpark(k, a)[k]]
    <3>1. \A j \in 1..nsparks : sparkStore'[j] \in {sparkStore[j], PaidSpark(k, a)[j]}
      BY <2>2, BookTypes
    <3>2. PaidSpark(k, a)[k].purse \in Nat
      BY <1>2, BookTypes
    <3>3. \A j \in 1..nsparks : PaidSpark(k, a)[j].purse \in Nat
      BY <1>2, <3>2, BookTypes
    <3> QED
      BY <2>2, <3>1, <3>3, <1>5 DEF Below
  <2> QED BY <1>1, <2>1, <2>2
<1>7. Purses(sparkStore', nsparks) <= wardStore'.wages
  <2>1. CASE UNCHANGED << wardStore, sparkStore >>
    BY <1>3, <2>1
  <2>2. CASE /\ sparkDb' = PaidSpark(k, a) /\ wardStore' = PaidWard(a)
             /\ sparkStore' = [sparkStore EXCEPT ![k] = PaidSpark(k, a)[k]]
    <3>1. sparkStore' \in [1..nsparks -> SparkDbs]
      BY <2>2, <1>2, BookTypes
    <3>2. Purses(sparkStore', nsparks) <= Purses(PaidSpark(k, a), nsparks)
      BY <1>2, <1>6, <2>2, <3>1, BookTypes, PursesBelow
    <3>3. Purses(sparkStore', nsparks) \in Int
      BY <3>1, BookTypes, PursesType
    <3> QED
      BY <2>2, <3>2, <3>3, <1>2, <1>3, BookTypes
  <2> QED BY <1>1, <2>1, <2>2
<1> QED
  BY <1>1, <1>4, <1>6, <1>7 DEF Backed, StoreBacked, InCycle

\* Every step of an open ward keeps every purse backed.
LEMMA StepBacked ==
  ASSUME TypeInv, Backed, Cycle \/ Command \/ UNCHANGED vars
  PROVE  Backed'
<1>1. CASE StartCycle
  BY <1>1, BookTypes DEF StartCycle, Backed, StoreBacked, Below, people, dbs, store
<1>2. CASE StartCycleFails \/ StartCycleHangs \/ QueenHolds \/ SparkSkips \/ RecordRefused
             \/ ArriveFails
  <2>1. UNCHANGED << people, dbs, saved, store >> /\ (InCycle' => InCycle)
    BY <1>2 DEF StartCycleFails, StartCycleHangs, QueenHolds, SparkSkips, RecordRefused,
                ArriveFails, InCycle, Failed, Forgotten
  <2> QED
    BY <2>1, BackedSame DEF people, dbs, saved, store
<1>3. CASE QueenBuilds \/ QueenBuildFails
  <2>1. PICK v \in Venue : wardDb' \in {wardDb, WithVenue(v)}
    BY <1>3 DEF QueenBuilds, QueenBuildFails, CanBuild
  <2>2. InCycle /\ UNCHANGED << people, sparkDb, saved, store >>
    BY <1>3 DEF QueenBuilds, QueenBuildFails, InCycle
  <2>3. wardDb'.wages = wardDb.wages
    BY <2>1, VenueWages
  <2> QED
    BY <2>2, <2>3, BackedSame DEF people, saved, store
<1>4. CASE CycleStopsEarly \/ SparkWorkFails \/ DebtClockFails
  <2>1. GiveUp /\ InCycle /\ nsparks' = nsparks
    BY <1>4 DEF CycleStopsEarly, SparkWorkFails, DebtClockFails, InCycle, people
  <2> QED
    BY <2>1, BackedGiveUp
<1>5. CASE PostBoard \/ DebtClock
  <2>1. InCycle /\ UNCHANGED << people, sparkDb, saved, store >>
    BY <1>5 DEF PostBoard, DebtClock, InCycle
  <2>2. \/ \E b : wardDb' = [wardDb EXCEPT !.board = b]
        \/ \E r : wardDb' = [wardDb EXCEPT !.row = r]
    BY <1>5, Zenon DEF PostBoard, DebtClock
  <2>3. wardDb'.wages = wardDb.wages
    BY <2>2 DEF TypeInv, TypeOK, IsWardDb
  <2> QED
    BY <2>1, <2>3, BackedSame DEF people, saved, store
<1>6. CASE SparkWorks
  BY <1>6, BackedWorks
<1>7. CASE CommitCycle
  BY <1>7, BackedCommit
<1>8. CASE CommitFails
  BY <1>8, BackedCommitFails
<1>9. CASE Arrive
  BY <1>9, BackedArrive
<1>10. CASE CommissionCommand \/ CommissionFails
  <2>1. PICK v \in Venue : /\ wardDb' \in {wardDb, WithVenue(v)}
                           /\ wardStore' \in {wardStore, WithVenue(v)}
    BY <1>10 DEF CommissionCommand, CommissionFails, Flushed
  <2>2. pc' = "idle" /\ UNCHANGED << people, sparkDb, saved, sparkStore >>
    BY <1>10 DEF CommissionCommand, CommissionFails
  <2>3. /\ wardDb'.wages = wardDb.wages
        /\ wardStore'.wages \in {wardStore.wages, wardDb.wages}
    BY <2>1, VenueWages
  <2>4. ~ InCycle'
    BY <2>2 DEF InCycle
  <2> QED
    BY <2>2, <2>3, <2>4, BackedSame DEF people, saved
<1>11. CASE PayCommand \/ PayRefused
  BY <1>11, BackedPay
<1>12. CASE PayLosesLock
  <2>1. pc = "idle"
    BY <1>12 DEF PayLosesLock, CanPay
  <2>2. pc' = pc \/ pc' = "hung"
    BY <1>12, Zenon DEF PayLosesLock
  <2>3. UNCHANGED << people, dbs, saved, store >>
    BY <1>12 DEF PayLosesLock
  <2>4. ~ InCycle'
    BY <2>1, <2>2 DEF InCycle
  <2> QED
    BY <2>3, <2>4, BackedSame DEF people, dbs, saved, store
<1>14. CASE UNCHANGED vars
  <2>1. UNCHANGED << people, dbs, saved, store, pc >>
    BY <1>14 DEF vars
  <2> QED
    BY <2>1, BackedSame DEF people, dbs, saved, store, InCycle
<1> QED
  BY <1>1, <1>2, <1>3, <1>4, <1>5, <1>6, <1>7, <1>8, <1>9, <1>10, <1>11, <1>12, <1>14
     DEF Cycle, Command

\* Between them a cycle and the commands start where the ward is open, and end
\* there or where it begins to close.
LEMMA OpenSteps ==
  ASSUME Cycle \/ Command
  PROVE  /\ pc \in Open \ {"hung"} /\ pc' \in Open \cup {"stop"}
         /\ pc' = "stop" => ~ Serving
<1>1. CASE Cycle
  <2>1. CASE StartCycle \/ StartCycleHangs \/ QueenBuilds \/ QueenHolds \/ QueenBuildFails
             \/ PostBoard \/ SparkSkips \/ SparkWorks \/ DebtClock \/ CommitCycle \/ Arrive
    BY <2>1 DEF StartCycle, StartCycleHangs, QueenBuilds, QueenHolds, QueenBuildFails, PostBoard,
                SparkSkips, SparkWorks, DebtClock, CommitCycle, Arrive, Open
  <2>2. CASE StartCycleFails \/ CycleStopsEarly \/ SparkWorkFails \/ DebtClockFails
             \/ CommitFails \/ RecordRefused \/ ArriveFails
    BY <2>2 DEF StartCycleFails, CycleStopsEarly, SparkWorkFails, DebtClockFails, CommitFails,
                RecordRefused, ArriveFails, GiveUp, Failed, Open
  <2> QED BY <1>1, <2>1, <2>2 DEF Cycle
<1>2. CASE Command
  <2>1. CASE PayLosesLock
    <3>1. pc = "idle"
      BY <2>1 DEF PayLosesLock, CanPay
    <3>2. pc' = pc \/ pc' = "hung"
      BY <2>1, Zenon DEF PayLosesLock
    <3> QED BY <3>1, <3>2 DEF Open
  <2> QED
    BY <1>2, <2>1 DEF Command, CommissionCommand, CommissionFails, PayCommand, PayRefused, CanPay,
                      Open
<1> QED BY <1>1, <1>2

\* A ward that is being founded again: its ledger is empty before the first
\* Spark joins, and so is the purse of every Spark that has joined.
FreshBooks ==
  /\ pc \in {"drop", "rows", "join"} => /\ sparkDb = [k \in 1..nsparks |-> FreshSpark]
                                       /\ sparks = [k \in 1..nsparks |-> Newcomer]
  /\ pc = "join" => /\ wardDb = FreshWard /\ wardStore = FreshWard
                    /\ \A k \in 1..nsparks : k < turn => sparkStore[k] = FreshSpark

\* Every step keeps the books of a founding fresh.
LEMMA NextFreshBooks ==
  ASSUME TypeInv, FreshBooks, [Next]_vars
  PROVE  FreshBooks'
<1>1. CASE Cycle \/ Command
  BY <1>1, OpenSteps DEF FreshBooks, Open
<1>2. CASE UNCHANGED vars
  BY <1>2 DEF FreshBooks, vars, people, dbs, store, running
<1>3. CASE Leave \/ Restart \/ CloseSpark \/ CloseWard \/ Founded \/ FoundFails
  BY <1>3 DEF FreshBooks, Leave, Restart, CloseSpark, CloseWard, Founded, FoundFails
<1>4. CASE Reopen
  BY <1>4 DEF FreshBooks, Reopen
<1>5. CASE FoundTables
  BY <1>5 DEF FreshBooks, FoundTables, people
<1>6. CASE FoundRows
  <2>1. \A k \in 1..nsparks' : ~ (k < turn')
    BY <1>6 DEF FoundRows
  <2> QED
    BY <1>6, <2>1 DEF FreshBooks, FoundRows, people
<1>7. CASE FoundSpark
  <2>1. /\ pc = "join" /\ pc' = "join" /\ turn' = turn + 1 /\ turn \in 1..nsparks
        /\ sparkStore' = [sparkStore EXCEPT ![turn] = FreshSpark]
        /\ UNCHANGED << people, dbs, wardStore >>
    BY <1>7 DEF FoundSpark, TypeInv, TypeOK, LoopStarted
  <2>2. \A k \in 1..nsparks : k < turn + 1 => sparkStore'[k] = FreshSpark
    BY <2>1 DEF FreshBooks, TypeInv, TypeOK
  <2> QED
    BY <2>1, <2>2 DEF FreshBooks, people, dbs
<1> QED
  BY <1>1, <1>2, <1>3, <1>4, <1>5, <1>6, <1>7 DEF Next, Close

\* What a founding ends with.
LEMMA FoundedFresh ==
  ASSUME TypeInv, FreshBooks, Founded
  PROVE  /\ sparkDb' = [k \in 1..nsparks |-> FreshSpark] /\ sparkStore' = sparkDb'
         /\ sparks' = [k \in 1..nsparks |-> Newcomer] /\ nsparks' = nsparks
         /\ wardDb' = FreshWard /\ wardStore' = FreshWard /\ pc' = "idle"
<1>1. /\ pc = "join" /\ turn > nsparks /\ pc' = "idle" /\ UNCHANGED << people, dbs, store >>
  BY DEF Founded
<1>2. turn \in Nat /\ nsparks \in Nat /\ sparkStore \in [1..nsparks -> SparkDbs]
  BY DEF TypeInv, TypeOK
<1>3. \A k \in 1..nsparks : sparkStore[k] = FreshSpark
  BY <1>1, <1>2 DEF FreshBooks
<1>4. sparkStore = [k \in 1..nsparks |-> FreshSpark]
  BY <1>2, <1>3
<1> QED
  BY <1>1, <1>4 DEF FreshBooks, people, dbs, store

\* The inductive invariant.
BackedInv == (pc \in Open => Backed) /\ FreshBooks

\* Founding leaves nothing to back.
LEMMA FreshBacked ==
  ASSUME NEW n \in Nat, NEW db, db = [k \in 1..n |-> FreshSpark]
  PROVE  Purses(db, n) <= FreshWard.wages /\ Below(db, db, n)
<1>1. Purses(db, n) = 0 /\ FreshWard.wages = 0
  BY PursesFresh DEF FreshWard
<1> QED
  BY <1>1 DEF Below, FreshSpark

\* Every step keeps it.
LEMMA NextBacked ==
  ASSUME TypeInv, BackedInv, [Next]_vars
  PROVE  BackedInv'
<1>1. FreshBooks'
  BY NextFreshBooks DEF BackedInv
<1>2. CASE Cycle \/ Command
  BY <1>1, <1>2, OpenSteps, StepBacked DEF BackedInv
<1>3. CASE UNCHANGED vars
  <2>1. pc' = pc
    BY <1>3 DEF vars
  <2> QED
    BY <1>1, <1>3, <2>1, StepBacked DEF BackedInv
<1>4. CASE Founded
  <2>1. /\ Purses(sparkDb', nsparks') <= FreshWard.wages /\ Below(sparkStore', sparkDb', nsparks')
        /\ wardDb' = FreshWard /\ wardStore' = FreshWard /\ sparkStore' = sparkDb'
        /\ pc' = "idle"
    BY <1>4, FoundedFresh, FreshBacked, BookTypes DEF BackedInv
  <2> QED
    BY <1>1, <2>1 DEF BackedInv, Backed, StoreBacked, InCycle
<1>5. CASE Leave \/ Restart \/ CloseSpark \/ CloseWard \/ Reopen \/ FoundTables \/ FoundRows
           \/ FoundSpark \/ FoundFails
  <2>1. pc' \notin Open
    BY <1>5 DEF Leave, Restart, CloseSpark, CloseWard, Reopen, FoundTables, FoundRows,
                FoundSpark, FoundFails, Open
  <2> QED BY <1>1, <2>1 DEF BackedInv
<1> QED
  BY <1>2, <1>3, <1>4, <1>5 DEF Next, Close

\* For as long as a ward is open a purse never durably holds scrip that the ward's
\* durable ledger has not paid, whichever statements, commits and records fail,
\* in `serve` as in `play`, and however many cycles later the leftovers are
\* flushed (queen.c 519-530, 534-541).  Closing the ward ends it: the Sparks'
\* handles are flushed before the ward's.
THEOREM NoPurseIsUnbacked == Spec => []PursesAreBacked
<1>1. Init => BackedInv
  <2> SUFFICES ASSUME Init PROVE BackedInv
    OBVIOUS
  <2>1. /\ nsparks = NSPARKS /\ NSPARKS \in Nat /\ sparkDb = [k \in 1..NSPARKS |-> FreshSpark]
        /\ sparkStore = sparkDb /\ wardDb = FreshWard /\ wardStore = FreshWard /\ pc = "idle"
    BY WardConstants DEF Init
  <2>2. Purses(sparkDb, nsparks) <= FreshWard.wages /\ Below(sparkStore, sparkDb, nsparks)
    BY <2>1, FreshBacked
  <2> QED
    BY <2>1, <2>2 DEF BackedInv, Backed, StoreBacked, InCycle, FreshBooks
<1>2. TypeInv /\ BackedInv /\ [Next]_vars => (TypeInv /\ BackedInv)'
  BY NextTypes, NextBacked
<1>3. BackedInv => PursesAreBacked
  BY DEF BackedInv, Backed, StoreBacked, PursesAreBacked
<1> QED
  BY <1>1, <1>2, <1>3, InitTypes, PTL DEF Spec

-------------------------------------------------------------------------------
(* Payments are whole as long as whatever fails is rolled back.            *)

\* Where the books can be trusted: an open ward, and one that closes with
\* nothing staged that a rollback did not reach.
Sound == \/ pc \in Open
         \/ pc \in {"stop", "restart", "stopped"} /\ Faults \cap StagedFaults = {}

\* Only a Spark in the group of a cycle reads what is not durable yet.
OnlyGroupAhead ==
  \A k \in 1..nsparks : sparkStore[k] = sparkDb[k] \/ (InCycle /\ k \in parts)

\* The strengthening of TransfersAreWhole: the connections read as many wages as
\* purses too, and a rollback returns to what is durable.
Whole ==
  /\ wardStore.wages = Purses(sparkStore, nsparks)
  /\ wardDb.wages = Purses(sparkDb, nsparks)
  /\ OnlyGroupAhead
  /\ InCycle => sparkSaved = sparkStore /\ wardSaved.wages = wardStore.wages

\* The inductive invariant.
WholeInv == (Sound => Whole) /\ FreshBooks

\* Outside a cycle the Sparks' connections read what is durable.
LEMMA NothingAhead ==
  ASSUME TypeInv, OnlyGroupAhead, ~ InCycle
  PROVE  sparkStore = sparkDb
<1>1. \A k \in 1..nsparks : sparkStore[k] = sparkDb[k]
  BY DEF OnlyGroupAhead
<1>2. /\ sparkStore = [k \in 1..nsparks |-> sparkStore[k]]
      /\ sparkDb = [k \in 1..nsparks |-> sparkDb[k]]
  BY BookTypes
<1> QED BY <1>1, <1>2

\* What leaves the purses alone keeps them whole.
LEMMA WholeSame ==
  ASSUME TypeInv, Whole,
         UNCHANGED << nsparks, sparkDb, sparkSaved, sparkStore >>,
         wardDb'.wages = wardDb.wages, wardSaved'.wages = wardSaved.wages,
         wardStore'.wages \in {wardStore.wages, wardDb.wages},
         InCycle' => InCycle,
         InCycle => InCycle' /\ parts' = parts /\ wardStore'.wages = wardStore.wages
  PROVE  Whole'
<1>1. OnlyGroupAhead'
  BY DEF Whole, OnlyGroupAhead
<1>2. wardStore'.wages = Purses(sparkStore, nsparks)
  <2>1. CASE InCycle
    BY <2>1 DEF Whole
  <2>2. CASE ~ InCycle
    BY <2>2, NothingAhead DEF Whole
  <2> QED BY <2>1, <2>2
<1> QED
  BY <1>1, <1>2 DEF Whole

\* A rollback returns every connection to what is durable.
LEMMA WholeGiveUp ==
  ASSUME TypeInv, Whole, InCycle, GiveUp, nsparks' = nsparks
  PROVE  Whole'
<1>1. /\ wardDb' = wardSaved /\ sparkDb' = sparkSaved /\ sparkStore' = sparkStore
      /\ wardStore' = wardStore /\ ~ InCycle'
  BY DEF GiveUp, Failed, saved, store, InCycle
<1>2. sparkSaved = sparkStore /\ wardSaved.wages = wardStore.wages
  BY DEF Whole
<1>3. OnlyGroupAhead'
  BY <1>1, <1>2 DEF OnlyGroupAhead
<1> QED
  BY <1>1, <1>2, <1>3 DEF Whole

\* A turn moves its wage on the ledger and in the purse.
LEMMA WholeWorks ==
  ASSUME TypeInv, Whole, SparkWorks
  PROVE  Whole'
<1>1. PICK wage \in Nat :
        /\ turn \in 1..nsparks /\ nsparks' = nsparks /\ parts' = parts \cup {turn}
        /\ pc = "work" /\ pc' = "work"
        /\ UNCHANGED << wardSaved, sparkSaved, wardStore, sparkStore >>
        /\ wardDb'.wages = wardDb.wages + wage
        /\ \A j \in 1..nsparks : j # turn => sparkDb'[j] = sparkDb[j] /\ sparks'[j] = sparks[j]
        /\ Purses(sparkDb', nsparks) = Purses(sparkDb, nsparks) + wage
  BY WorkSides
<1>2. InCycle /\ InCycle'
  BY <1>1 DEF InCycle
<1>3. wardDb'.wages = Purses(sparkDb', nsparks')
  BY <1>1 DEF Whole
<1>4. OnlyGroupAhead'
  BY <1>1, <1>2 DEF Whole, OnlyGroupAhead
<1> QED
  BY <1>1, <1>2, <1>3, <1>4 DEF Whole

\* A commit makes durable what the connections read.
LEMMA CommitLandsAll ==
  ASSUME TypeInv, Whole, CommitCycle
  PROVE  sparkStore' = sparkDb /\ wardStore' = wardDb
<1>1. pc = "commit" /\ wardStore' = wardDb
      /\ sparkStore' = [k \in 1..nsparks |-> IF k \in parts THEN sparkDb[k] ELSE sparkStore[k]]
  BY DEF CommitCycle, Landed
<1>2. \A k \in 1..nsparks : sparkStore[k] = sparkDb[k] \/ k \in parts
  BY DEF Whole, OnlyGroupAhead
<1>3. \A k \in 1..nsparks : sparkStore'[k] = sparkDb[k]
  BY <1>1, <1>2
<1>4. /\ sparkStore' = [k \in 1..nsparks |-> sparkStore'[k]]
      /\ sparkDb = [k \in 1..nsparks |-> sparkDb[k]]
  BY <1>1, BookTypes
<1> QED
  BY <1>1, <1>3, <1>4

\* A newcomer's purse is empty in every copy of its database.
LEMMA WholeArrive ==
  ASSUME TypeInv, Whole, Arrive
  PROVE  Whole'
<1>1. /\ pc = "arrive" /\ pc' = "idle" /\ nsparks' = nsparks + 1
      /\ UNCHANGED << wardDb, wardStore >>
      /\ sparkDb' = [k \in 1..nsparks + 1 |-> IF k <= nsparks THEN sparkDb[k] ELSE FreshSpark]
      /\ sparkStore' = [k \in 1..nsparks + 1 |-> IF k <= nsparks THEN sparkStore[k] ELSE FreshSpark]
  BY DEF Arrive
<1>2. /\ Purses(sparkDb', nsparks') = Purses(sparkDb, nsparks)
      /\ Purses(sparkStore', nsparks') = Purses(sparkStore, nsparks)
  BY <1>1, BookTypes, PursesArrive
<1>3. sparkStore = sparkDb /\ ~ InCycle'
  BY <1>1, NothingAhead DEF Whole, InCycle
<1>4. OnlyGroupAhead'
  BY <1>1, <1>3 DEF OnlyGroupAhead
<1> QED
  BY <1>1, <1>2, <1>3, <1>4 DEF Whole

\* A payment of its own group is whole at once.
LEMMA WholePay ==
  ASSUME TypeInv, Whole, PayCommand
  PROVE  Whole'
<1>1. PICK k \in 1..nsparks, a \in Amounts :
        /\ wardDb' = PaidWard(a) /\ wardStore' = PaidWard(a)
        /\ sparkDb' = PaidSpark(k, a)
        /\ sparkStore' = [sparkStore EXCEPT ![k] = PaidSpark(k, a)[k]]
        /\ pc = "idle" /\ pc' = "idle" /\ nsparks' = nsparks
  BY DEF PayCommand, CanPay
<1>2. /\ PaidWard(a).wages = wardDb.wages + a
      /\ PaidSpark(k, a) \in [1..nsparks -> SparkDbs]
      /\ \A j \in 1..nsparks : j # k => PaidSpark(k, a)[j] = sparkDb[j]
      /\ Purses(PaidSpark(k, a), nsparks) = Purses(sparkDb, nsparks) + a
  BY PaySides
<1>3. sparkStore = sparkDb /\ ~ InCycle'
  BY <1>1, NothingAhead DEF Whole, InCycle
<1>4. \A j \in 1..nsparks : sparkStore'[j] = sparkDb'[j]
  BY <1>1, <1>2, <1>3, BookTypes
<1>5. sparkStore' = sparkDb'
  <2>1. /\ sparkStore' = [j \in 1..nsparks |-> sparkStore'[j]]
        /\ sparkDb' = [j \in 1..nsparks |-> sparkDb'[j]]
    BY <1>1, <1>2, BookTypes
  <2> QED BY <1>4, <2>1
<1>6. wardDb'.wages = Purses(sparkDb', nsparks')
  BY <1>1, <1>2 DEF Whole
<1> QED
  BY <1>1, <1>3, <1>5, <1>6 DEF Whole, OnlyGroupAhead

\* A new ward, or one that is founded again.
LEMMA WholeFresh ==
  ASSUME NEW n \in Nat, NEW db, db = [k \in 1..n |-> FreshSpark]
  PROVE  /\ FreshWard.wages = Purses(db, n)
         /\ \A k \in 1..n : Newcomer.purse = db[k].purse /\ Newcomer.wear = db[k].wear
BY PursesFresh DEF FreshWard, Newcomer, FreshSpark

\* Every step of an open ward keeps payments whole, unless something is left
\* staged.
LEMMA StepWhole ==
  ASSUME Serving \/ pc' = "stop" => Faults \cap StagedFaults = {},
         TypeInv, GroupInv, Whole, Cycle \/ Command \/ UNCHANGED vars
  PROVE  Whole'
<1>1. CASE StartCycle
  <2>1. /\ ~ InCycle /\ InCycle' /\ UNCHANGED << people, dbs, store >>
        /\ wardSaved' = wardDb /\ sparkSaved' = sparkDb
    BY <1>1 DEF StartCycle, InCycle
  <2>2. sparkStore = sparkDb
    BY <2>1, NothingAhead DEF Whole
  <2>3. OnlyGroupAhead'
    BY <2>1, <2>2 DEF OnlyGroupAhead, people, dbs, store
  <2> QED
    BY <2>1, <2>2, <2>3 DEF Whole, people, dbs, store
<1>2. CASE StartCycleFails \/ StartCycleHangs \/ ArriveFails
  <2>1. UNCHANGED << people, dbs, saved, store >> /\ ~ InCycle /\ ~ InCycle'
    BY <1>2 DEF StartCycleFails, StartCycleHangs, ArriveFails, Failed, InCycle
  <2> QED
    BY <2>1, WholeSame DEF people, dbs, saved, store
<1>3. CASE QueenHolds \/ SparkSkips
  <2>1. /\ UNCHANGED << people, dbs, saved, store, parts >> /\ InCycle /\ InCycle'
    BY <1>3 DEF QueenHolds, SparkSkips, InCycle
  <2> QED
    BY <2>1, WholeSame DEF people, dbs, saved, store
<1>4. CASE QueenBuilds \/ QueenBuildFails
  <2>1. PICK v \in Venue : wardDb' \in {wardDb, WithVenue(v)}
    BY <1>4 DEF QueenBuilds, QueenBuildFails, CanBuild
  <2>2. /\ UNCHANGED << people, sparkDb, saved, store, parts >> /\ InCycle /\ InCycle'
    BY <1>4 DEF QueenBuilds, QueenBuildFails, InCycle
  <2>3. wardDb'.wages = wardDb.wages
    BY <2>1, VenueWages
  <2> QED
    BY <2>2, <2>3, WholeSame DEF people, saved, store
<1>5. CASE CycleStopsEarly \/ SparkWorkFails \/ DebtClockFails
  <2>1. GiveUp /\ InCycle /\ nsparks' = nsparks
    BY <1>5 DEF CycleStopsEarly, SparkWorkFails, DebtClockFails, InCycle, people
  <2> QED
    BY <2>1, WholeGiveUp
<1>6. CASE PostBoard \/ DebtClock
  <2>1. /\ UNCHANGED << people, sparkDb, saved, store, parts >> /\ InCycle /\ InCycle'
    BY <1>6 DEF PostBoard, DebtClock, InCycle
  <2>2. \/ \E b : wardDb' = [wardDb EXCEPT !.board = b]
        \/ \E r : wardDb' = [wardDb EXCEPT !.row = r]
    BY <1>6, Zenon DEF PostBoard, DebtClock
  <2>3. wardDb'.wages = wardDb.wages
    BY <2>2 DEF TypeInv, TypeOK, IsWardDb
  <2> QED
    BY <2>1, <2>3, WholeSame DEF people, saved, store
<1>7. CASE SparkWorks
  BY <1>7, WholeWorks
<1>8. CASE CommitFails \/ RecordRefused \/ PayRefused
  <2>1. Faults \cap StagedFaults # {}
    BY <1>8 DEF CommitFails, RecordRefused, PayRefused, StagedFaults
  <2>2. Serving \/ pc' = "stop"
    BY <1>8 DEF CommitFails, RecordRefused, PayRefused, CanPay, Failed
  <2> QED BY <2>1, <2>2
<1>9. CASE CommitCycle
  <2>1. ~ InCycle' /\ UNCHANGED << people, dbs >>
    BY <1>9 DEF CommitCycle, InCycle
  <2>2. sparkStore' = sparkDb /\ wardStore' = wardDb
    BY <1>9, CommitLandsAll
  <2>3. OnlyGroupAhead'
    BY <2>1, <2>2 DEF OnlyGroupAhead, people, dbs
  <2> QED
    BY <2>1, <2>2, <2>3 DEF Whole, people, dbs
<1>10. CASE Arrive
  BY <1>10, WholeArrive
<1>11. CASE CommissionCommand \/ CommissionFails
  <2>1. PICK v \in Venue : /\ wardDb' \in {wardDb, WithVenue(v)}
                           /\ wardStore' \in {wardStore, WithVenue(v)}
    BY <1>11 DEF CommissionCommand, CommissionFails, Flushed
  <2>2. ~ InCycle /\ ~ InCycle' /\ UNCHANGED << people, sparkDb, saved, sparkStore >>
    BY <1>11 DEF CommissionCommand, CommissionFails, InCycle
  <2>3. /\ wardDb'.wages = wardDb.wages
        /\ wardStore'.wages \in {wardStore.wages, wardDb.wages}
    BY <2>1, VenueWages
  <2> QED
    BY <2>2, <2>3, WholeSame DEF people, saved
<1>12. CASE PayCommand
  BY <1>12, WholePay
<1>13. CASE PayLosesLock
  <2>1. pc = "idle"
    BY <1>13 DEF PayLosesLock, CanPay
  <2>2. pc' = pc \/ pc' = "hung"
    BY <1>13, Zenon DEF PayLosesLock
  <2>3. UNCHANGED << people, dbs, saved, store >>
    BY <1>13 DEF PayLosesLock
  <2>4. ~ InCycle /\ ~ InCycle'
    BY <2>1, <2>2 DEF InCycle
  <2> QED
    BY <2>3, <2>4, WholeSame DEF people, dbs, saved, store
<1>14. CASE UNCHANGED vars
  <2>1. UNCHANGED << people, dbs, saved, store, pc, parts >>
    BY <1>14 DEF vars, running, locals
  <2> QED
    BY <2>1, WholeSame DEF people, dbs, saved, store, InCycle
<1> QED
  BY <1>1, <1>2, <1>3, <1>4, <1>5, <1>6, <1>7, <1>8, <1>9, <1>10, <1>11, <1>12, <1>13, <1>14
     DEF Cycle, Command

\* Closing a ward whose books are whole changes no purse and no wage.
LEMMA CloseWhole ==
  ASSUME TypeInv, Whole, Leave \/ Restart \/ CloseSpark \/ CloseWard
  PROVE  Whole' /\ sparkStore' = sparkStore
<1>1. /\ ~ InCycle /\ ~ InCycle' /\ UNCHANGED << people, dbs, saved >>
      /\ wardStore' \in {wardStore, wardDb}
  BY DEF Leave, Restart, CloseSpark, CloseWard, FlushWard, Flushed, InCycle, store
<1>2. sparkStore = sparkDb
  BY <1>1, NothingAhead DEF Whole
<1>3. sparkStore' = sparkStore
  <2>1. CASE CloseSpark
    <3>1. turn \in 1..nsparks /\ sparkDb \in [1..nsparks -> SparkDbs]
      BY <2>1 DEF CloseSpark, TypeInv, TypeOK, LoopStarted
    <3>2. [sparkDb EXCEPT ![turn] = sparkDb[turn]] = sparkDb
      BY <3>1
    <3> QED BY <2>1, <1>2, <3>2 DEF CloseSpark
  <2>2. CASE Leave \/ Restart \/ CloseWard
    BY <2>2 DEF Leave, Restart, CloseWard, store
  <2> QED BY <2>1, <2>2
<1> QED
  BY <1>1, <1>3, WholeSame DEF people, dbs, saved

\* Every step keeps payments whole.
LEMMA NextWhole ==
  ASSUME Serving => Faults \cap StagedFaults = {}, TypeInv, GroupInv, WholeInv, [Next]_vars
  PROVE  WholeInv'
<1>1. FreshBooks'
  BY NextFreshBooks DEF WholeInv
<1>2. CASE Cycle \/ Command
  <2>1. Whole /\ pc' \in Open \cup {"stop"}
    BY <1>2, OpenSteps DEF WholeInv, Sound
  <2>2. ASSUME Sound' PROVE pc' = "stop" => Faults \cap StagedFaults = {}
    BY <2>2 DEF Sound, Open
  <2> QED
    BY <1>1, <1>2, <2>1, <2>2, StepWhole DEF WholeInv
<1>3. CASE UNCHANGED vars
  <2>1. pc' = pc
    BY <1>3 DEF vars
  <2>2. ASSUME Sound' PROVE Sound /\ (pc' = "stop" => Faults \cap StagedFaults = {})
    BY <2>1, <2>2 DEF Sound, Open
  <2> QED
    BY <1>1, <1>3, <2>2, StepWhole DEF WholeInv
<1>4. CASE Leave \/ Restart \/ CloseSpark \/ CloseWard
  <2>1. ASSUME Sound' PROVE Sound
    BY <1>4, <2>1 DEF Sound, Open, Leave, Restart, CloseSpark, CloseWard
  <2> QED
    BY <1>1, <1>4, <2>1, CloseWhole DEF WholeInv
<1>5. CASE Founded
  <2>1. /\ sparkDb' = [k \in 1..nsparks |-> FreshSpark] /\ sparkStore' = sparkDb'
        /\ nsparks' = nsparks /\ wardDb' = FreshWard /\ wardStore' = FreshWard /\ pc' = "idle"
    BY <1>5, FoundedFresh DEF WholeInv
  <2>2. FreshWard.wages = Purses(sparkDb', nsparks)
    BY <2>1, BookTypes, WholeFresh
  <2> QED
    BY <1>1, <2>1, <2>2 DEF WholeInv, Whole, OnlyGroupAhead, InCycle
<1>6. CASE Reopen \/ FoundTables \/ FoundRows \/ FoundSpark \/ FoundFails
  <2>1. ~ Sound'
    BY <1>6 DEF Reopen, FoundTables, FoundRows, FoundSpark, FoundFails, Sound, Open
  <2> QED BY <1>1, <2>1 DEF WholeInv
<1> QED
  BY <1>2, <1>3, <1>4, <1>5, <1>6 DEF Next, Close

\* A new ward's payments are whole: there are none.
LEMMA InitWhole == Init => WholeInv
<1> SUFFICES ASSUME Init PROVE WholeInv
  OBVIOUS
<1>1. /\ pc = "idle" /\ nsparks = NSPARKS /\ NSPARKS \in Nat
      /\ sparkDb = [k \in 1..NSPARKS |-> FreshSpark] /\ sparkStore = sparkDb
      /\ wardDb = FreshWard /\ wardStore = FreshWard
  BY WardConstants DEF Init
<1>2. FreshWard.wages = Purses(sparkDb, nsparks)
  BY <1>1, WholeFresh
<1> QED
  BY <1>1, <1>2 DEF WholeInv, Whole, OnlyGroupAhead, InCycle, FreshBooks

\* The two sides of every payment are durable together or not at all, in `serve`
\* as in `play`, through every failure that rolls the databases back, through the
\* flushes of a close and outside a founding, as long as no COMMIT and no record
\* of a group is refused (queen.c 534-536, 568-571, 797-800).
THEOREM PaymentsAreWhole ==
  ASSUME Faults \cap StagedFaults = {}
  PROVE  Spec => []TransfersAreWhole
<1>1. Init => TypeInv /\ GroupInv /\ WholeInv
  BY InitTypes, InitWhole DEF Init, GroupInv
<1>2. TypeInv /\ GroupInv /\ WholeInv /\ [Next]_vars => (TypeInv /\ GroupInv /\ WholeInv)'
  BY NextTypes, NextGroup, NextWhole
<1>3. TypeInv /\ WholeInv => TransfersAreWhole
  BY DEF WholeInv, Sound, Whole, TransfersAreWhole, TypeInv, TypeOK
<1> QED
  BY <1>1, <1>2, <1>3, PTL DEF Spec

\* In `play` and `check` the two sides stay whole whatever fails, a COMMIT or the
\* record of a group included, until the ward begins to close (queen.c 961-973).
THEOREM WholeUntilClosed ==
  ASSUME ~ Serving
  PROVE  Spec => [](pc \in Open => TransfersAreWhole)
<1>1. Init => TypeInv /\ GroupInv /\ WholeInv
  BY InitTypes, InitWhole DEF Init, GroupInv
<1>2. TypeInv /\ GroupInv /\ WholeInv /\ [Next]_vars => (TypeInv /\ GroupInv /\ WholeInv)'
  BY NextTypes, NextGroup, NextWhole
<1>3. WholeInv => (pc \in Open => TransfersAreWhole)
  BY DEF WholeInv, Sound, Whole, TransfersAreWhole
<1> QED
  BY <1>1, <1>2, <1>3, PTL DEF Spec

-------------------------------------------------------------------------------
(* Memory is the database, as long as a process that fails between a wage   *)
(* and its commit does not go on serving.                                   *)

\* The ward has not begun to close for good.
Up == pc \notin {"stop", "stopped"}

\* Memory holds what the Sparks' databases hold.
Remembered ==
  \A k \in 1..nsparks : sparks[k].purse = sparkDb[k].purse /\ sparks[k].wear = sparkDb[k].wear

\* The strengthening of MemoryIsDatabase: until the first wage of a cycle a
\* rollback changes no purse.
MemoryInv ==
  /\ Up => Remembered
  /\ pc \in {"plan", "board"} => sparkSaved = sparkDb

\* What neither pays nor wears keeps memory and databases together.
LEMMA MemorySame ==
  ASSUME MemoryInv, UNCHANGED << nsparks, sparks, sparkDb >>, Up' => Up,
         pc' \in {"plan", "board"} => pc \in {"plan", "board"} /\ sparkSaved' = sparkSaved
  PROVE  MemoryInv'
BY DEF MemoryInv, Remembered

\* A payment is in memory and in the purse.
LEMMA MemoryPay ==
  ASSUME TypeInv, Remembered, PayCommand
  PROVE  Remembered'
<1>1. PICK k \in 1..nsparks, a \in Amounts :
        /\ sparks' = [sparks EXCEPT ![k].purse = @ + a]
        /\ sparkDb' = PaidSpark(k, a) /\ nsparks' = nsparks
  BY DEF PayCommand
<1>2. /\ \A j \in 1..nsparks : j # k => PaidSpark(k, a)[j] = sparkDb[j]
      /\ PaidSpark(k, a)[k].purse = sparkDb[k].purse + a
      /\ PaidSpark(k, a)[k].wear = sparkDb[k].wear
  BY PaySides
<1> DEFINE m == [sparks[k] EXCEPT !.purse = @ + a]
<1>3. sparks \in [1..nsparks -> [purse: Nat, wear: 0..90]]
  BY DEF TypeInv, TypeOK
<1>4. m.purse = sparks[k].purse + a /\ m.wear = sparks[k].wear
  BY <1>3
<1>5. sparks' = [sparks EXCEPT ![k] = m]
  BY <1>1
<1> HIDE DEF m
<1>6. sparks'[k] = m /\ \A j \in 1..nsparks : j # k => sparks'[j] = sparks[j]
  BY <1>3, <1>5
<1> QED
  BY <1>1, <1>2, <1>4, <1>6 DEF Remembered

\* Every step keeps memory the database.
LEMMA NextMemory ==
  ASSUME Serving => Faults \cap LateFaults = {}, TypeInv, GroupInv, MemoryInv, [Next]_vars
  PROVE  MemoryInv'
<1>0. ASSUME NEW f \in LateFaults, f \in Faults, Failed
      PROVE  MemoryInv'
  BY <1>0 DEF Failed, MemoryInv, Up
<1>1. CASE StartCycle
  BY <1>1 DEF StartCycle, MemoryInv, Remembered, Up, people, dbs
<1>2. CASE StartCycleFails \/ StartCycleHangs \/ SparkSkips \/ CommitCycle \/ ArriveFails
  <2>1. UNCHANGED << people, dbs >> /\ Up /\ pc' \notin {"plan", "board"}
    BY <1>2 DEF StartCycleFails, StartCycleHangs, SparkSkips, CommitCycle, ArriveFails, Failed, Up
  <2> QED
    BY <2>1, MemorySame DEF people, dbs
<1>3. CASE QueenHolds \/ QueenBuilds \/ QueenBuildFails \/ PostBoard \/ DebtClock
  <2>1. /\ UNCHANGED << people, sparkDb, saved >> /\ Up
        /\ pc' \in {"plan", "board"} => pc \in {"plan", "board"}
    BY <1>3 DEF QueenHolds, QueenBuilds, QueenBuildFails, PostBoard, DebtClock, dbs, Up
  <2> QED
    BY <2>1, MemorySame DEF people, saved
<1>4. CASE CycleStopsEarly
  <2>1. /\ pc \in {"plan", "board"} /\ pc' \notin {"plan", "board"} /\ Up
        /\ sparkDb' = sparkSaved /\ UNCHANGED people
    BY <1>4 DEF CycleStopsEarly, GiveUp, Failed, Up
  <2>2. sparkSaved = sparkDb
    BY <2>1 DEF MemoryInv
  <2> QED
    BY <2>1, <2>2, MemorySame DEF people
<1>5. CASE SparkWorks
  <2>1. PICK wage \in Nat :
          /\ turn \in 1..nsparks /\ nsparks' = nsparks /\ pc = "work" /\ pc' = "work"
          /\ \A j \in 1..nsparks : j # turn => sparkDb'[j] = sparkDb[j] /\ sparks'[j] = sparks[j]
          /\ sparkDb'[turn].purse = sparkDb[turn].purse + wage
          /\ sparks'[turn].purse = sparks[turn].purse + wage
          /\ sparks'[turn].wear = sparkDb'[turn].wear
    BY <1>5, WorkSides
  <2>2. Remembered
    BY <2>1 DEF MemoryInv, Up
  <2>3. Remembered'
    BY <2>1, <2>2 DEF Remembered
  <2> QED
    BY <2>1, <2>3 DEF MemoryInv
<1>6. CASE SparkWorkFails
  <2>1. pc = "work" /\ Failed /\ \E c \in Untaken : "work" \in Faults \/ JoinRefused
    BY <1>6 DEF SparkWorkFails, GiveUp
  <2>2. "work" \in Faults
    BY <2>1, JoinAccepted
  <2> QED
    BY <1>0, <2>1, <2>2 DEF LateFaults
<1>7. CASE DebtClockFails \/ CommitFails \/ RecordRefused
  <2>1. Failed /\ \E f \in LateFaults : f \in Faults
    BY <1>7 DEF DebtClockFails, CommitFails, RecordRefused, GiveUp, LateFaults, StagedFaults
  <2> QED
    BY <1>0, <2>1
<1>8. CASE Arrive
  <2>1. /\ nsparks' = nsparks + 1 /\ pc = "arrive" /\ pc' = "idle"
        /\ sparks' = [k \in 1..nsparks + 1 |-> IF k <= nsparks THEN sparks[k] ELSE Newcomer]
        /\ sparkDb' = [k \in 1..nsparks + 1 |-> IF k <= nsparks THEN sparkDb[k] ELSE FreshSpark]
    BY <1>8 DEF Arrive
  <2>2. Remembered
    BY <2>1 DEF MemoryInv, Up
  <2>3. Remembered'
    BY <2>1, <2>2, BookTypes DEF Remembered, Newcomer, FreshSpark
  <2> QED
    BY <2>1, <2>3 DEF MemoryInv
<1>9. CASE CommissionCommand \/ CommissionFails
  <2>1. pc = "idle" /\ pc' = "idle" /\ UNCHANGED << people, sparkDb >>
    BY <1>9 DEF CommissionCommand, CommissionFails
  <2> QED
    BY <2>1, MemorySame DEF people, Up
<1>10. CASE PayCommand
  <2>1. pc = "idle" /\ pc' = "idle"
    BY <1>10 DEF PayCommand, CanPay
  <2> QED
    BY <1>10, <2>1, MemoryPay DEF MemoryInv, Up
<1>11. CASE PayRefused
  BY <1>11 DEF PayRefused, CanPay, LateFaults, StagedFaults
<1>12. CASE PayLosesLock
  <2>1. pc = "idle"
    BY <1>12 DEF PayLosesLock, CanPay
  <2>2. pc' = pc \/ pc' = "hung"
    BY <1>12, Zenon DEF PayLosesLock
  <2>3. UNCHANGED << people, dbs >>
    BY <1>12 DEF PayLosesLock
  <2> QED
    BY <2>1, <2>2, <2>3, MemorySame DEF people, dbs, Up
<1>13. CASE Leave \/ Restart \/ CloseSpark \/ CloseWard \/ FoundTables \/ FoundRows \/ FoundSpark
            \/ Founded \/ FoundFails
  <2>1. UNCHANGED << people, sparkDb >> /\ (Up' => Up) /\ pc' \notin {"plan", "board"}
    BY <1>13 DEF Leave, Restart, CloseSpark, CloseWard, FoundTables, FoundRows, FoundSpark,
                 Founded, FoundFails, dbs, Up
  <2> QED
    BY <2>1, MemorySame DEF people
<1>14. CASE Reopen
  <2>1. /\ sparks' = [k \in 1..nsparks |-> Newcomer] /\ nsparks' = nsparks /\ pc' = "drop"
        /\ sparkDb' = [k \in 1..nsparks |-> FreshSpark]
    BY <1>14 DEF Reopen
  <2> QED
    BY <2>1 DEF MemoryInv, Remembered, Newcomer, FreshSpark
<1>15. CASE UNCHANGED vars
  BY <1>15, MemorySame DEF vars, people, dbs, saved, Up
<1> QED
  BY <1>1, <1>2, <1>3, <1>4, <1>5, <1>6, <1>7, <1>8, <1>9, <1>10, <1>11, <1>12, <1>13, <1>14,
     <1>15 DEF Next, Cycle, Command, Close

\* Between commands a client is told the purse and the wear that the Spark's
\* database holds, and a migration carries it (interactor.c 26-40, queen.c
\* 860-863): in `play` whatever fails, in `serve` when nothing fails between a
\* wage and its commit.
THEOREM MemoryIsKept ==
  ASSUME Serving => Faults \cap LateFaults = {}
  PROVE  Spec => []MemoryIsDatabase
<1>1. Init => TypeInv /\ GroupInv /\ MemoryInv
  <2>1. Init => MemoryInv
    BY DEF Init, MemoryInv, Remembered, Newcomer, FreshSpark
  <2> QED
    BY <2>1, InitTypes DEF Init, GroupInv
<1>2. TypeInv /\ GroupInv /\ MemoryInv /\ [Next]_vars => (TypeInv /\ GroupInv /\ MemoryInv)'
  BY NextTypes, NextGroup, NextMemory
<1>3. MemoryInv => MemoryIsDatabase
  BY DEF MemoryInv, Up, Remembered, MemoryIsDatabase
<1> QED
  BY <1>1, <1>2, <1>3, PTL DEF Spec

-------------------------------------------------------------------------------
(* The store balances on its own, in a ward that is played.                *)

\* The strengthening of StoreBalances: until the ward begins to close its books
\* are honest, every scrip spent stands as a venue, and the row a commit is about
\* to make durable is the ward's memory; and outside a cycle the ward's
\* connection reads what is durable, so that its close lands nothing new.
BalanceInv ==
  /\ StoreBalances
  /\ pc \in Open => /\ HonestInv
                    /\ SpentIsPlaces
                    /\ pc = "plan" => cycle # 0
                    /\ pc = "commit" => wardDb.row = Row(cycle, treasury, debt, issued, retired)
  /\ IF InCycle THEN wardSaved = wardStore ELSE wardDb = wardStore
  /\ pc \notin Refounding \cup {"restart"}

\* The terms of Places.
Prices(db) == [k \in 1..6 |-> IF Built(db, k - 1) THEN COST[k - 1] ELSE 0]

\* Their sum is a number.
LEMMA PricesType ==
  ASSUME NEW db
  PROVE  Prices(db) \in [1..6 -> Int] /\ Places(db) = Total(Prices(db), 6) /\ Places(db) \in Int
<1>1. \A k \in 1..6 : k - 1 \in Venue
  BY DEF Venue
<1>2. \A k \in 1..6 : COST[k - 1] \in Nat
  BY <1>1, WardConstants
<1>3. Prices(db) \in [1..6 -> Int]
  BY <1>2 DEF Prices
<1>4. Places(db) = Total(Prices(db), 6)
  BY DEF Places, Prices
<1> QED
  BY <1>3, <1>4, TotalType

\* A venue that is built stands for its price, in every cycle but cycle 0.
LEMMA PlacesBuild ==
  ASSUME TypeInv, cycle # 0, NEW v \in Venue, ~ Built(wardDb, v)
  PROVE  Places(WithVenue(v)) = Places(wardDb) + COST[v]
<1> DEFINE f == Prices(wardDb)
           g == Prices(WithVenue(v))
<1>1. f \in [1..6 -> Int] /\ g \in [1..6 -> Int]
  BY PricesType
<1>2. wardDb.built \in [Venue -> Nat] /\ cycle \in Nat
  BY DEF TypeInv, TypeOK, IsWardDb
<1>3. WithVenue(v).built = [wardDb.built EXCEPT ![v] = cycle]
  BY DEF TypeInv, TypeOK, IsWardDb, WithVenue
<1>4. \A u \in Venue : Built(WithVenue(v), u) <=> (u = v \/ Built(wardDb, u))
  BY <1>2, <1>3 DEF Built
<1>5. v + 1 \in 1..6 /\ (v + 1) - 1 = v
  BY DEF Venue
<1>6. \A k \in 1..6 : k - 1 \in Venue /\ (k # v + 1 => k - 1 # v)
  BY DEF Venue
<1>7. \A k \in 1..6 : k # v + 1 => g[k] = f[k]
  BY <1>4, <1>6 DEF Prices
<1>8. g[v + 1] = COST[v] /\ f[v + 1] = 0
  BY <1>4, <1>5 DEF Prices
<1> HIDE DEF f, g
<1>9. Total(g, 6) = Total(f, 6) + g[v + 1] - f[v + 1]
  BY <1>1, <1>5, <1>7, TotalUpdate
<1>10. Total(f, 6) \in Int /\ COST[v] \in Int
  <2>1. COST[v] \in Nat
    BY WardConstants
  <2>2. Total(f, 6) \in Int
    BY <1>1, TotalType
  <2> QED BY <2>1, <2>2
<1>11. Places(wardDb) = Total(f, 6) /\ Places(WithVenue(v)) = Total(g, 6)
  BY PricesType DEF f, g
<1> QED
  BY <1>8, <1>9, <1>10, <1>11

\* A new ward has no venue.
LEMMA PlacesFresh == Places(FreshWard) = 0
<1>1. \A k \in 1..6 : k - 1 \in Venue
  BY DEF Venue
<1>2. \A k \in 1..6 : Prices(FreshWard)[k] = 0
  BY <1>1 DEF Prices, FreshWard, Built
<1>3. Prices(FreshWard) \in [1..6 -> Int] /\ Places(FreshWard) = Total(Prices(FreshWard), 6)
  BY PricesType
<1> QED
  BY <1>2, <1>3, TotalZero

\* What neither spends nor builds.
LEMMA PlacesSame ==
  ASSUME SpentIsPlaces, pc \in Open, spent' = spent, wardDb'.built = wardDb.built
  PROVE  SpentIsPlaces'
BY DEF SpentIsPlaces, Places, Built, Open, Refounding

\* Every step of a ward that is played keeps the store balanced.
LEMMA NextBalance ==
  ASSUME ~ Serving, Faults \cap (StagedFaults \cup {"build"}) = {},
         TypeInv, GroupInv, WholeInv, BalanceInv, [Next]_vars
  PROVE  BalanceInv'
<1>0. ASSUME UNCHANGED << nsparks, store >> PROVE StoreBalances'
  BY <1>0 DEF BalanceInv, StoreBalances, store, Places, Built
<1>1. CASE UNCHANGED vars
  <2>1. UNCHANGED << cycle, money, people, dbs, saved, store, pc >>
    BY <1>1 DEF vars
  <2>2. HonestInv => HonestInv'
    BY <2>1 DEF HonestInv, Honest, money, people, dbs, saved
  <2>3. SpentIsPlaces => SpentIsPlaces'
    BY <2>1 DEF SpentIsPlaces, Places, Built, money, dbs
  <2> QED
    BY <1>0, <2>1, <2>2, <2>3 DEF money, people, dbs, saved, store, BalanceInv, InCycle
<1>2. CASE Close
  <2>1. pc \in {"idle", "stop"} /\ pc' \in {"stop", "stopped"}
        /\ (Leave \/ CloseSpark \/ CloseWard)
    BY <1>2 DEF Close, Leave, Restart, CloseSpark, CloseWard, Reopen, FoundTables, FoundRows,
                FoundSpark, Founded, FoundFails, BalanceInv, Refounding
  <2>2. wardDb = wardStore
    BY <2>1 DEF BalanceInv, InCycle
  <2>3. wardStore' = wardStore /\ UNCHANGED << nsparks, wardDb >>
    BY <2>1, <2>2 DEF Leave, CloseSpark, CloseWard, FlushWard, Flushed, store, people, dbs
  <2>4. sparkStore' = sparkStore
    <3>1. Whole
      BY <2>1 DEF WholeInv, Sound, Open
    <3> QED BY <2>1, <3>1, CloseWhole
  <2>5. StoreBalances'
    BY <1>0, <2>3, <2>4 DEF store
  <2> QED
    BY <2>1, <2>2, <2>3, <2>5 DEF BalanceInv, Open, InCycle, Refounding
<1>3. CASE Cycle \/ Command
  <2>1. Cycle
    BY <1>3 DEF Command, CommissionCommand, CommissionFails, PayCommand, PayRefused,
                PayLosesLock, CanPay
  <2>2. pc \in Open /\ pc' \in Open \cup {"stop"} /\ pc' \notin Refounding \cup {"restart"}
    BY <2>1, OpenSteps DEF Open, Refounding
  <2>3. HonestInv /\ SpentIsPlaces /\ StoreBalances /\ (pc = "plan" => cycle # 0)
    BY <2>2 DEF BalanceInv
  <2>4. pc' \in Open => HonestInv'
    BY <2>3, NextHonest DEF Open
  <2>5. Whole
    BY <2>2 DEF WholeInv, Sound
  <2>6. InCycle => wardSaved = wardStore
    BY DEF BalanceInv
  <2>7. CASE StartCycle
    <3>1. /\ cycle' # 0 /\ pc = "idle" /\ pc' = "plan" /\ UNCHANGED << money, nsparks, wardDb, store >>
          /\ wardSaved' = wardDb
      BY <2>7 DEF StartCycle, TypeInv, TypeOK, people, dbs
    <3>2. SpentIsPlaces'
      BY <2>2, <2>3, <3>1, PlacesSame DEF money
    <3>3. wardSaved' = wardStore'
      BY <3>1 DEF BalanceInv, InCycle, store
    <3> QED
      BY <1>0, <2>2, <2>4, <3>1, <3>2, <3>3 DEF BalanceInv, InCycle
  <2>8. CASE StartCycleFails \/ ArriveFails
    <3>1. pc \in {"idle", "arrive"} /\ pc' = "stop" /\ UNCHANGED << nsparks, dbs, store >>
      BY <2>8 DEF StartCycleFails, ArriveFails, Failed, people
    <3>2. wardDb' = wardStore'
      BY <3>1 DEF BalanceInv, InCycle, dbs, store
    <3> QED
      BY <1>0, <2>2, <3>1, <3>2 DEF BalanceInv, Open, InCycle
  <2>17. CASE CycleStopsEarly \/ SparkWorkFails \/ DebtClockFails
    <3>1. /\ InCycle /\ pc' = "stop" /\ UNCHANGED << nsparks, store >> /\ wardDb' = wardSaved
      BY <2>17 DEF CycleStopsEarly, SparkWorkFails, DebtClockFails, GiveUp, Failed, people, InCycle
    <3>2. wardDb' = wardStore'
      BY <2>6, <3>1 DEF store
    <3> QED
      BY <1>0, <2>2, <3>1, <3>2 DEF BalanceInv, Open, InCycle
  <2>18. CASE CommitFails \/ RecordRefused
    BY <2>18 DEF CommitFails, RecordRefused, StagedFaults
  <2>9. CASE StartCycleHangs \/ QueenHolds \/ SparkSkips
    <3>1. /\ pc' \in {"hung", "board", "work"} /\ UNCHANGED << money, people, dbs, saved, store >>
          /\ InCycle' = InCycle
      BY <2>9 DEF StartCycleHangs, QueenHolds, SparkSkips, InCycle
    <3>2. SpentIsPlaces'
      BY <2>2, <2>3, <3>1, PlacesSame DEF money, dbs
    <3>3. IF InCycle' THEN wardSaved' = wardStore' ELSE wardDb' = wardStore'
      BY <3>1 DEF BalanceInv, dbs, saved, store
    <3> QED
      BY <1>0, <2>2, <2>4, <3>1, <3>2, <3>3 DEF BalanceInv, people
  <2>10. CASE QueenBuilds
    <3>1. PICK v : CanBuild(v) /\ SpendOn(v) /\ wardDb' = WithVenue(v)
      BY <2>10 DEF QueenBuilds
    <3>2. pc = "plan" /\ pc' = "board" /\ UNCHANGED << nsparks, saved, store >>
      BY <2>10 DEF QueenBuilds, people
    <3>3. v \in Venue /\ ~ Built(wardDb, v) /\ spent' = spent + COST[v]
      BY <3>1 DEF CanBuild, SpendOn
    <3>4. Places(WithVenue(v)) = Places(wardDb) + COST[v]
      BY <2>3, <3>2, <3>3, PlacesBuild
    <3>5. SpentIsPlaces'
      BY <2>2, <2>3, <3>1, <3>3, <3>4 DEF SpentIsPlaces, Open, Refounding
    <3> QED
      BY <1>0, <2>2, <2>4, <2>6, <3>2, <3>5 DEF BalanceInv, InCycle, saved, store
  <2>11. CASE QueenBuildFails
    BY <2>11 DEF QueenBuildFails
  <2>12. CASE PostBoard
    <3>1. /\ pc = "board" /\ pc' = "work" /\ UNCHANGED << money, nsparks, saved, store >>
          /\ \E b : wardDb' = [wardDb EXCEPT !.board = b]
      BY <2>12, Zenon DEF PostBoard, people
    <3>2. wardDb'.built = wardDb.built
      BY <3>1 DEF TypeInv, TypeOK, IsWardDb
    <3>3. SpentIsPlaces'
      BY <2>2, <2>3, <3>1, <3>2, PlacesSame DEF money
    <3> QED
      BY <1>0, <2>2, <2>4, <2>6, <3>1, <3>3 DEF BalanceInv, InCycle, saved, store
  <2>13. CASE SparkWorks
    <3>1. pc = "work" /\ pc' = "work" /\ UNCHANGED << nsparks, saved, store >>
      BY <2>13 DEF SparkWorks
    <3>2. PICK c \in Untaken, won \in BOOLEAN :
            /\ Salvage(c, won)
            /\ wardDb' = [wardDb EXCEPT !.board[c].taken = turn, !.wages = @ + PaidWage(c, won)]
      BY <2>13 DEF SparkWorks
    <3>3. spent' = spent
      BY <3>2 DEF Salvage
    <3>4. wardDb'.built = wardDb.built
      BY <3>2 DEF TypeInv, TypeOK, IsWardDb
    <3>5. SpentIsPlaces'
      BY <2>2, <2>3, <3>3, <3>4, PlacesSame
    <3> QED
      BY <1>0, <2>2, <2>4, <2>6, <3>1, <3>5 DEF BalanceInv, InCycle, saved, store
  <2>14. CASE DebtClock
    <3>1. /\ pc = "work" /\ pc' = "commit" /\ UNCHANGED << cycle, nsparks, saved, store >> /\ ClockRuns
          /\ wardDb' = [wardDb EXCEPT !.row = Row(cycle, treasury', debt', issued, retired')]
      BY <2>14 DEF DebtClock, people
    <3>2. spent' = spent /\ issued' = issued
      BY <3>1 DEF ClockRuns
    <3>3. /\ wardDb'.built = wardDb.built
          /\ wardDb'.row = Row(cycle, treasury', debt', issued, retired')
      BY <3>1 DEF TypeInv, TypeOK, IsWardDb
    <3>4. SpentIsPlaces'
      BY <2>2, <2>3, <3>2, <3>3, PlacesSame
    <3> QED
      BY <1>0, <2>2, <2>4, <2>6, <3>1, <3>2, <3>3, <3>4 DEF BalanceInv, InCycle, saved, store
  <2>15. CASE CommitCycle
    <3>1. /\ pc = "commit" /\ pc' \in {"arrive", "idle"} /\ UNCHANGED << money, people, dbs >>
      BY <2>15 DEF CommitCycle
    <3>2. sparkStore' = sparkDb /\ wardStore' = wardDb
      BY <2>5, <2>15, CommitLandsAll
    <3>3. wardDb.row = Row(cycle, treasury, debt, issued, retired)
      BY <2>2, <3>1 DEF BalanceInv
    <3>4. /\ wardDb.row.treasury = treasury /\ wardDb.row.issued = issued
          /\ wardDb.row.retired = retired
      BY <3>3 DEF Row
    <3>5. treasury + Purses(sparkDb, nsparks) + retired + Places(wardDb) = issued
      BY <2>2, <2>3 DEF HonestInv, Honest, SpentIsPlaces, Open, Refounding
    <3>6. StoreBalances'
      BY <3>1, <3>2, <3>4, <3>5 DEF StoreBalances, people, Places, Built
    <3>7. SpentIsPlaces'
      BY <2>2, <2>3, <3>1, PlacesSame DEF money, dbs
    <3> QED
      BY <2>2, <2>4, <3>1, <3>2, <3>6, <3>7 DEF BalanceInv, InCycle, dbs
  <2>16. CASE Arrive
    <3>1. /\ pc = "arrive" /\ pc' = "idle" /\ nsparks' = nsparks + 1 /\ UNCHANGED << money, wardDb, wardStore >>
          /\ sparkStore' = [k \in 1..nsparks + 1 |-> IF k <= nsparks THEN sparkStore[k] ELSE FreshSpark]
      BY <2>16 DEF Arrive
    <3>2. Purses(sparkStore', nsparks') = Purses(sparkStore, nsparks)
      BY <3>1, BookTypes, PursesArrive
    <3>3. StoreBalances'
      BY <2>3, <3>1, <3>2 DEF StoreBalances, Places, Built
    <3>4. SpentIsPlaces'
      BY <2>2, <2>3, <3>1, PlacesSame DEF money
    <3> QED
      BY <2>2, <2>4, <3>1, <3>3, <3>4 DEF BalanceInv, InCycle
  <2> QED
    BY <2>1, <2>7, <2>8, <2>9, <2>10, <2>11, <2>12, <2>13, <2>14, <2>15, <2>16,
       <2>17, <2>18 DEF Cycle
<1> QED
  BY <1>1, <1>2, <1>3 DEF Next

\* The store of a ward that is played or checked balances by itself whatever
\* instant the process dies at, and through the close of the ward: row, purses
\* and venues account for all that was issued (queen.c 592-598, 797-800).  Left
\* out are a commission whose statement fails after its money moved, which
\* cycle() takes for a Queen who held, and a group refused after it staged.
THEOREM StoreAlwaysBalances ==
  ASSUME ~ Serving, Faults \cap (StagedFaults \cup {"build"}) = {}
  PROVE  Spec => []StoreBalances
<1>1. Init => BalanceInv
  <2> SUFFICES ASSUME Init PROVE BalanceInv
    OBVIOUS
  <2>1. HonestInv
    BY InitHonest
  <2>2. /\ pc = "idle" /\ spent = 0 /\ wardDb = FreshWard /\ wardStore = FreshWard
        /\ nsparks = NSPARKS /\ NSPARKS \in Nat /\ sparkStore = [k \in 1..NSPARKS |-> FreshSpark]
    BY WardConstants DEF Init
  <2>3. Purses(sparkStore, nsparks) = 0
    BY <2>2, PursesFresh
  <2>4. FreshWard.row = Row(0, START_TREASURY, START_DEBT, START_TREASURY, 0)
    BY DEF FreshWard
  <2>5. StoreBalances
    BY <2>2, <2>3, <2>4, PlacesFresh, WardConstants DEF StoreBalances, Row
  <2>6. SpentIsPlaces
    BY <2>2, PlacesFresh DEF SpentIsPlaces
  <2> QED
    BY <2>1, <2>2, <2>5, <2>6 DEF BalanceInv, InCycle, Open, Refounding
<1>2. Init => TypeInv /\ GroupInv /\ WholeInv
  BY InitTypes, InitWhole DEF Init, GroupInv
<1>3. TypeInv /\ GroupInv /\ WholeInv /\ BalanceInv /\ [Next]_vars
        => (TypeInv /\ GroupInv /\ WholeInv /\ BalanceInv)'
  BY NextTypes, NextGroup, NextWhole, NextBalance
<1>4. BalanceInv => StoreBalances
  BY DEF BalanceInv
<1> QED
  BY <1>1, <1>2, <1>3, <1>4, PTL DEF Spec

-------------------------------------------------------------------------------
(* The reserve: in a cycle the Queen built in, every Spark that works is paid. *)

\* The first venue a line can commission is one that can be commissioned.
LEMMA FromLineCan ==
  ASSUME NEW view, NEW line, DOMAIN line \subseteq Nat, FromLine(view, line) # HOLD
  PROVE  CanCommission(view, FromLine(view, line))
<1> DEFINE can == {k \in DOMAIN line : CanCommission(view, line[k])}
           first == CHOOSE k \in can : \A j \in can : k <= j
<1>1. can # {} /\ FromLine(view, line) = line[first]
  BY DEF FromLine
<1>2. \E k \in can : \A j \in can : k <= j
  <2>1. can \subseteq Nat OBVIOUS
  <2> HIDE DEF can
  <2> QED BY <1>1, <2>1, LeastNatural
<1>3. first \in can
  BY <1>2
<1> QED
  BY <1>1, <1>3

\* Whatever the Queen plans to build, she can pay for and keep her reserve.
LEMMA QueenPlanCan ==
  ASSUME NEW view, QueenPlan(view) # HOLD
  PROVE  CanCommission(view, QueenPlan(view))
<1>1. DOMAIN EarnLine \subseteq Nat /\ DOMAIN SparkLine \subseteq Nat
  BY DEF EarnLine, SparkLine
<1>2. /\ FromLine(view, EarnLine) # HOLD => CanCommission(view, FromLine(view, EarnLine))
      /\ FromLine(view, SparkLine) # HOLD => CanCommission(view, FromLine(view, SparkLine))
  BY <1>1, FromLineCan
<1> QED
  BY <1>2 DEF QueenPlan, RepairFirst

\* The strengthening of ReservePaysEveryone: after a commission the treasury
\* covers a lost contract's wage for every Spark whose turn is still to come, and
\* a contract that is won pays for itself.
ReserveInv ==
  /\ pc = "work" => \A c \in DOMAIN wardDb.board : wardDb.board[c].payout >= 2
  /\ venue # HOLD /\ pc = "board" => treasury >= 25 * nsparks
  /\ venue # HOLD /\ pc = "work" => treasury >= 4 * (nsparks + 1 - turn)

\* A wage is paid, and leaves enough for the Sparks that follow.
LEMMA ReserveHolds ==
  ASSUME TypeInv, ReserveInv, pc = "work", turn <= nsparks, venue # HOLD,
         NEW c \in Untaken, NEW won \in BOOLEAN
  PROVE  /\ PaidWage(c, won) > 0
         /\ treasury + Share(c, won) - PaidWage(c, won) >= 4 * (nsparks - turn)
<1>1. treasury \in Nat /\ nsparks \in Nat /\ turn \in Nat
  BY DEF TypeInv, TypeOK
<1>2. treasury >= 4 * (nsparks + 1 - turn)
  BY DEF ReserveInv
<1>3. CASE won
  <2> DEFINE p == wardDb.board[c].payout
             w == p \div 2
  <2>1. Share(c, won) = p /\ p \in Nat
    BY <1>3, PaidWageType DEF Share, TypeInv
  <2>2. p >= 2
    BY DEF ReserveInv, Untaken
  <2>3. Wage(won, Share(c, won)) = w
    BY <1>3, <2>1 DEF Wage
  <2> HIDE DEF p
  <2>4. w \in Nat /\ w >= 1 /\ w <= p
    BY <2>1, <2>2
  <2> HIDE DEF w
  <2>5. PaidWage(c, won) = w
    BY <1>1, <2>1, <2>3, <2>4 DEF PaidWage, Payable
  <2> QED
    BY <1>1, <1>2, <2>1, <2>4, <2>5
<1>4. CASE ~ won
  <2>1. Share(c, won) = 0 /\ Wage(won, Share(c, won)) = 4
    BY <1>4 DEF Share, Wage
  <2>2. treasury >= 4
    BY <1>1, <1>2
  <2>3. PaidWage(c, won) = 4
    BY <1>1, <2>1, <2>2 DEF PaidWage, Payable
  <2> QED
    BY <1>1, <1>2, <2>1, <2>3
<1> QED
  BY <1>3, <1>4

\* Every contract of a new board pays.
LEMMA ContractPays ==
  ASSUME NEW d \in Draws, NEW plaza \in BOOLEAN
  PROVE  Contract(d, plaza).payout >= 2
<1>1. d.risk \in Nat /\ d.more \in Nat
  BY WardConstants
<1>2. d.risk \div 2 \in Nat
  BY <1>1
<1> DEFINE pay == 18 + d.risk \div 2 + d.more
<1>3. pay \in Nat /\ pay >= 18
  BY <1>1, <1>2
<1>4. Contract(d, plaza).payout = IF plaza THEN pay + pay \div 4 ELSE pay
  BY DEF Contract
<1> HIDE DEF pay
<1>5. pay \div 4 \in Nat
  BY <1>3
<1> QED
  BY <1>3, <1>4, <1>5

\* A turn keeps the reserve.
LEMMA WorksKeepsReserve ==
  ASSUME TypeInv, ReserveInv, SparkWorks
  PROVE  ReserveInv'
<1>1. /\ pc = "work" /\ turn <= nsparks /\ pc' = "work" /\ turn' = turn + 1
      /\ UNCHANGED << nsparks, venue >>
  BY DEF SparkWorks
<1>2. PICK c \in Untaken, won \in BOOLEAN :
        /\ treasury' = treasury + Share(c, won) - PaidWage(c, won)
        /\ wardDb' = [wardDb EXCEPT !.board[c].taken = turn, !.wages = @ + PaidWage(c, won)]
  BY DEF SparkWorks
<1>3. nsparks \in Nat /\ turn \in Nat /\ IsWardDb(wardDb)
  BY DEF TypeInv, TypeOK
<1>4. ASSUME venue # HOLD PROVE treasury' >= 4 * (nsparks' + 1 - turn')
  <2>1. treasury' >= 4 * (nsparks - turn)
    BY <1>1, <1>2, <1>4, ReserveHolds
  <2>2. nsparks' + 1 - turn' = nsparks - turn
    BY <1>1, <1>3
  <2> QED BY <2>1, <2>2
<1>5. \A k \in DOMAIN wardDb'.board : wardDb'.board[k].payout >= 2
  <2>1. PICK n \in 0..(BOARD_SIZE + RAILS_MORE) : wardDb.board \in [1..n -> Contracts]
    BY <1>3 DEF IsWardDb, IsBoard
  <2>2. c \in 1..n /\ \A k \in 1..n : wardDb.board[k].payout >= 2
    BY <2>1, <1>1 DEF Untaken, ReserveInv
  <2> DEFINE r == [wardDb.board[c] EXCEPT !.taken = turn]
  <2>3. wardDb'.board = [wardDb.board EXCEPT ![c] = r]
    BY <1>2, <1>3 DEF IsWardDb
  <2>4. r.payout = wardDb.board[c].payout
    BY <2>1, <2>2 DEF Contracts
  <2> HIDE DEF r
  <2>5. DOMAIN wardDb'.board = 1..n
        /\ \A k \in 1..n : wardDb'.board[k] = IF k = c THEN r ELSE wardDb.board[k]
    BY <2>1, <2>3
  <2> QED
    BY <2>2, <2>4, <2>5
<1> QED
  BY <1>1, <1>4, <1>5 DEF ReserveInv

\* Every step keeps the reserve.
LEMMA NextReserve ==
  ASSUME TypeInv, ReserveInv, [Next]_vars
  PROVE  ReserveInv'
<1>0. treasury \in Nat /\ nsparks \in Nat /\ turn \in Nat
  BY DEF TypeInv, TypeOK
<1>1. CASE QueenBuilds
  <2>1. PICK v : v = QueenPlan(QueenView) /\ CanBuild(v) /\ SpendOn(v)
    BY <1>1 DEF QueenBuilds
  <2>2. pc' = "board" /\ nsparks' = nsparks
    BY <1>1 DEF QueenBuilds, people
  <2>3. v \in Venue /\ v # HOLD
    BY <2>1 DEF CanBuild, Venue, HOLD
  <2>4. CanCommission(QueenView, v)
    BY <2>1, <2>3, QueenPlanCan
  <2>5. treasury >= COST[v] + 25 * nsparks
    BY <2>4 DEF CanCommission, QueenView
  <2>6. COST[v] \in Nat
    BY <2>3, WardConstants
  <2>7. treasury' = treasury - COST[v]
    BY <2>1 DEF SpendOn
  <2>8. treasury' >= 25 * nsparks'
    BY <1>0, <2>2, <2>5, <2>6, <2>7
  <2> QED
    BY <2>2, <2>8 DEF ReserveInv
<1>2. CASE QueenHolds \/ QueenBuildFails
  BY <1>2 DEF QueenHolds, QueenBuildFails, ReserveInv
<1>3. CASE PostBoard
  <2>1. /\ pc = "board" /\ pc' = "work" /\ turn' = 1
        /\ UNCHANGED << treasury, nsparks, venue >>
    BY <1>3 DEF PostBoard, money, people
  <2>2. PICK draws \in [1..BoardRows(wardDb) -> Draws] :
          wardDb' = [wardDb EXCEPT !.board =
                       [c \in 1..BoardRows(wardDb) |-> Contract(draws[c], Built(wardDb, PLAZA))]]
    BY <1>3 DEF PostBoard
  <2>3. wardDb'.board = [c \in 1..BoardRows(wardDb) |-> Contract(draws[c], Built(wardDb, PLAZA))]
    BY <2>2 DEF TypeInv, TypeOK, IsWardDb
  <2>4. \A c \in 1..BoardRows(wardDb) : Contract(draws[c], Built(wardDb, PLAZA)).payout >= 2
    BY ContractPays DEF Built
  <2>5. \A c \in DOMAIN wardDb'.board : wardDb'.board[c].payout >= 2
    BY <2>3, <2>4
  <2>6. ASSUME venue # HOLD PROVE treasury' >= 4 * (nsparks' + 1 - turn')
    <3>1. treasury >= 25 * nsparks
      BY <2>1, <2>6 DEF ReserveInv
    <3>2. nsparks' + 1 - turn' = nsparks
      BY <1>0, <2>1
    <3>3. treasury >= 4 * nsparks
      BY <1>0, <3>1
    <3> QED BY <2>1, <3>2, <3>3
  <2> QED
    BY <2>1, <2>5, <2>6 DEF ReserveInv
<1>4. CASE SparkSkips
  <2>1. /\ pc = "work" /\ pc' = "work" /\ turn' = turn + 1
        /\ UNCHANGED << treasury, nsparks, venue, wardDb >>
    BY <1>4 DEF SparkSkips, money, people, dbs
  <2>2. ASSUME venue # HOLD PROVE treasury' >= 4 * (nsparks' + 1 - turn')
    <3>1. treasury >= 4 * (nsparks + 1 - turn)
      BY <2>1, <2>2 DEF ReserveInv
    <3> QED BY <1>0, <2>1, <3>1
  <2> QED
    BY <2>1, <2>2 DEF ReserveInv
<1>5. CASE SparkWorks
  BY <1>5, WorksKeepsReserve
<1>6. CASE pc' \notin {"board", "work"}
  BY <1>6 DEF ReserveInv
<1>7. ASSUME StartCycle \/ StartCycleFails \/ StartCycleHangs \/ CycleStopsEarly \/ SparkWorkFails
               \/ DebtClock \/ DebtClockFails \/ CommitCycle \/ CommitFails \/ RecordRefused
               \/ Arrive \/ ArriveFails
      PROVE  pc' \notin {"board", "work"}
  BY <1>7 DEF StartCycle, StartCycleFails, StartCycleHangs, CycleStopsEarly, SparkWorkFails,
              GiveUp, DebtClock, DebtClockFails, CommitCycle, CommitFails, RecordRefused,
              Arrive, ArriveFails, Failed, Forgotten
<1>8. ASSUME Command PROVE pc' \notin {"board", "work"}
  <2>1. ASSUME PayLosesLock PROVE pc' \in {"idle", "hung"}
    <3>1. pc = "idle"
      BY <2>1 DEF PayLosesLock, CanPay
    <3>2. pc' = pc \/ pc' = "hung"
      BY <2>1, Zenon DEF PayLosesLock
    <3> QED BY <3>1, <3>2
  <2> QED
    BY <1>8, <2>1 DEF Command, CommissionCommand, CommissionFails, PayCommand, PayRefused,
              CanPay
<1>10. ASSUME Close PROVE pc' \notin {"board", "work"}
  <2>1. ASSUME CloseSpark PROVE pc' \in {"stop", "restart"}
    BY <2>1 DEF CloseSpark
  <2>2. ASSUME FoundSpark PROVE pc' = "join"
    BY <2>2 DEF FoundSpark
  <2> QED
    BY <1>10, <2>1, <2>2 DEF Close, Leave, Restart, CloseWard, Reopen, FoundTables, FoundRows,
                             Founded, FoundFails
<1>9. CASE UNCHANGED vars
  BY <1>9 DEF vars, money, people, dbs, running, locals, ReserveInv
<1> QED
  BY <1>1, <1>2, <1>3, <1>4, <1>5, <1>6, <1>7, <1>8, <1>9, <1>10 DEF Next, Cycle

\* A Spark joins the group in its own turn only.
LEMMA PartsGrow ==
  ASSUME [Next]_vars, ~ SparkWorks
  PROVE  parts' \subseteq parts
<1>1. CASE UNCHANGED vars
  BY <1>1 DEF vars, running, locals
<1>2. CASE Cycle
  BY <1>2 DEF Cycle, StartCycle, StartCycleFails, StartCycleHangs, QueenBuilds, QueenHolds,
              QueenBuildFails, CycleStopsEarly, PostBoard, SparkSkips, SparkWorkFails, DebtClock,
              DebtClockFails, CommitCycle, CommitFails, RecordRefused, Arrive, ArriveFails,
              GiveUp, Failed, Forgotten, running, locals
<1>3. CASE Command
  BY <1>3 DEF Command, CommissionCommand, CommissionFails, PayCommand, PayRefused, PayLosesLock,
              running, locals
<1>4. CASE Close
  BY <1>4 DEF Close, Leave, Restart, CloseSpark, CloseWard, Reopen, FoundTables, FoundRows,
              FoundSpark, Founded, FoundFails, Forgotten, running, locals
<1> QED
  BY <1>1, <1>2, <1>3, <1>4 DEF Next

\* In a cycle the Queen built in, every Spark that works is paid, however large
\* the ward, its prices and its board, and whatever fails: the reserve she kept
\* outlasts the wages of the contracts that are lost (queen.c 378-382).
THEOREM EveryoneIsPaid == Spec => ReservePaysEveryone
<1>1. Init => TypeInv /\ ReserveInv
  BY InitTypes DEF Init, ReserveInv
<1>2. TypeInv /\ ReserveInv /\ [Next]_vars => (TypeInv /\ ReserveInv)'
  BY NextTypes, NextReserve
<1>3. ASSUME TypeInv, ReserveInv, [Next]_vars, venue # HOLD, turn \in parts' \ parts
      PROVE  sparks'[turn].purse > sparks[turn].purse
  <2>1. SparkWorks
    BY <1>3, PartsGrow
  <2>2. pc = "work" /\ turn <= nsparks
    BY <2>1 DEF SparkWorks
  <2>3. PICK c \in Untaken, won \in BOOLEAN :
          sparks' = [sparks EXCEPT ![turn] =
                       [purse |-> @.purse + PaidWage(c, won), wear |-> NewWear(won)]]
    BY <2>1 DEF SparkWorks
  <2> DEFINE wage == PaidWage(c, won)
             m == [purse |-> sparks[turn].purse + wage, wear |-> NewWear(won)]
  <2>4. wage > 0 /\ wage \in Nat
    BY <1>3, <2>2, ReserveHolds, PaidWageType DEF TypeInv
  <2>5. turn \in 1..nsparks /\ sparks \in [1..nsparks -> [purse: Nat, wear: 0..90]]
    BY <1>3, <2>2 DEF TypeInv, TypeOK, LoopStarted
  <2>6. sparks' = [sparks EXCEPT ![turn] = m]
    BY <2>3
  <2> HIDE DEF wage
  <2>7. m.purse = sparks[turn].purse + wage /\ sparks[turn].purse \in Nat
    BY <2>5
  <2> HIDE DEF m
  <2>8. sparks'[turn] = m
    BY <2>5, <2>6
  <2> QED
    BY <2>4, <2>7, <2>8
<1>4. TypeInv /\ ReserveInv /\ [Next]_vars
        => [venue # HOLD /\ turn \in parts' \ parts => sparks'[turn].purse > sparks[turn].purse]_vars
  BY <1>3
<1> QED
  BY <1>1, <1>2, <1>4, PTL DEF Spec, ReservePaysEveryone

=============================================================================
