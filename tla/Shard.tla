-------------------------------- MODULE Shard ---------------------------------
(***************************************************************************)
(* A game of several wards (`queen shard`, src/queen.c): founding, the       *)
(* cycles of every ward in turn, the arrivals, the one migration, and the    *)
(* checks the run makes before it says that every ward is honest.            *)
(*                                                                           *)
(* A Spark is a database of its own and the wards hold handles to them.      *)
(* A database is named after the ward that founded the Spark and the Spark's *)
(* id; opening it again raises its fence, so the older handle keeps reading  *)
(* its cache and can no longer write (PageStore).  A cycle is the step Ward  *)
(* takes apart: here it is what a committed cycle does to the sums, and a    *)
(* cycle that fails ends the game.                                           *)
(*                                                                           *)
(* Simplifications: of the venues only the Rails and the Row are kept apart; *)
(* an amount is one of a few; a board's row outlives its cycle by its name   *)
(* alone; ledgers, wear and places are left out.                             *)
(***************************************************************************)
EXTENDS Integers, Sequences, FiniteSets, FiniteSetsExt, SequencesExt, Sums, Wire

CONSTANTS
  SPARKS_PER_WARD,  \* what a zone holds
  MAX_SPARKS,       \* the bound of gyre_t.sparks
  MAX_WARDS,        \* the wards a build holds
  NVENUES,          \* the venues of a ward
  BOARD_SIZE,       \* contracts posted a cycle
  RAILS_MORE,       \* how many more the Rails bring
  ARRIVAL_CYCLES,   \* cycles between arrivals
  CAP,              \* the names named_apart has room for
  START_TREASURY,   \* scrip a ward opens with
  PAYOUT,           \* what a kept contract pays
  LOSERS_WAGE,      \* what a lost one costs the ward
  COST,             \* the price of a venue
  Games,            \* the games played: [cycles, nsparks]
  Faults            \* the calls that can fail: "found", "cycle", "migrate"

ASSUME ShardConstants ==
  /\ SPARKS_PER_WARD \in Nat \ {0} /\ MAX_SPARKS \in Nat /\ SPARKS_PER_WARD < MAX_SPARKS
  /\ MAX_WARDS \in Nat \ {0} /\ MAX_WARDS < WIRE_WARD_MAX
  /\ NVENUES \in Nat /\ BOARD_SIZE \in Nat /\ RAILS_MORE \in Nat
  /\ ARRIVAL_CYCLES \in Nat \ {0}
  /\ START_TREASURY \in Nat /\ LOSERS_WAGE \in Nat /\ COST \in Nat
  /\ PAYOUT \in Nat \ {0, 1}    \* half of it is a wage: what is kept is paid
  /\ \A g \in Games : g.cycles \in Nat /\ g.nsparks \in Nat
  /\ Faults \subseteq {"found", "cycle", "migrate"}

\* queen.c 985 asserts the second; the first and third hold of its numbers.
ASSUME RangesHold ==
  /\ WIRE_VENUE_BASE + NVENUES <= WIRE_SPARK_BASE
  /\ WIRE_SPARK_BASE + MAX_WARDS * SPARKS_PER_WARD <= WIRE_CONTRACT_BASE
  /\ WIRE_CONTRACT_BASE + BOARD_SIZE + RAILS_MORE < WIRE_LOCAL_MAX

\* Nine contracts and 1384 Sparks: the last Sparks of a full ward never work.
ASSUME BoardIsShort == BOARD_SIZE + RAILS_MORE + 1 < SPARKS_PER_WARD

\* 8192 names against the 1399 of a full ward, or 1400 with a migrant.
ASSUME CapHoldsAWard ==
  CAP \in Nat /\ NVENUES + BOARD_SIZE + RAILS_MORE + SPARKS_PER_WARD + 1 <= CAP

VARIABLES
  game,   \* the arguments of shard()
  w,      \* shard()'s wards
  db,     \* the Sparks' databases, by founding ward and id
  wardDb, \* each ward's row in its own database
  pc,     \* where shard() has got to
  turn,   \* the ward whose turn it is
  c,      \* shard()'s cycle count
  rc      \* what shard() returned

vars == << game, w, db, wardDb, pc, turn, c, rc >>

Id     == 0..(MAX_WARDS * SPARKS_PER_WARD - 1)
NoFile == [opens |-> 0, purse |-> 0, items |-> 0, wire |-> -1]

\* What calloc leaves of a ward, and of its row.
NoWard == [ward_no |-> 0, cycle |-> 0, treasury |-> 0, issued |-> 0, found |-> 0, retired |-> 0,
           spent |-> 0, built |-> {}, board |-> 0, sparks |-> << >>]
NoRow  == [treasury |-> 0, issued |-> 0, retired |-> 0]
Ward   == 0..(MAX_WARDS - 1)

nwards == (game.nsparks + SPARKS_PER_WARD - 1) \div SPARKS_PER_WARD

-------------------------------------------------------------------------------
(* Sparks and their databases.                                              *)

\* A Spark as join_ward makes it, and the database it leaves behind: whatever the
\* database held before is dropped.  `opened` is the fence the handle holds.
NewSpark(no, id) ==
  [id |-> id, home |-> no, opened |-> db[<< no, id >>].opens + 1, purse |-> 0, items |-> 0,
   wire |-> SparkWire(no, id)]
Joining(no, ids) ==
  [f \in DOMAIN db |->
     IF f[1] = no /\ f[2] \in ids
       THEN [opens |-> db[f].opens + 1, purse |-> 0, items |-> 0, wire |-> SparkWire(no, f[2])]
       ELSE db[f]]

File(s) == db[<< s.home, s.id >>]

\* check_fence: a handle whose database was opened again can no longer write.
MayWrite(s) == s.opened = File(s).opens

\* The databases after these Sparks' handles have committed.
Stored(sparks) ==
  [f \in DOMAIN db |->
     IF \E k \in DOMAIN sparks : << sparks[k].home, sparks[k].id >> = f /\ MayWrite(sparks[k])
       THEN LET s == CHOOSE s \in Range(sparks) : << s.home, s.id >> = f /\ MayWrite(s)
            IN  [db[f] EXCEPT !.purse = s.purse, !.items = s.items, !.wire = s.wire]
       ELSE db[f]]

-------------------------------------------------------------------------------
(* What the run checks.                                                     *)

\* What a ward's Sparks hold together, as its own handles read it.
Purses(g)  == Total([k \in DOMAIN g.sparks |-> g.sparks[k].purse], Len(g.sparks))
Salvage(g) == Total([k \in DOMAIN g.sparks |-> g.sparks[k].items], Len(g.sparks))

\* What a ward holds, and whether it is what it accounts for.
Held(g)   == g.treasury + Purses(g) + g.retired + g.spent
honest(g) == Held(g) = g.issued /\ Salvage(g) <= g.found

honest_across(x) ==
  LET n == 0..(nwards - 1)
  IN  MapThenSumSet(LAMBDA i : Held(x[i]), n) = MapThenSumSet(LAMBDA i : x[i].issued, n)

\* gather_wires: a ward's venues, its board and its Sparks.  The Queen is not asked.
gather_wires(g) ==
  [v \in 1..NVENUES |-> VenueWire(g.ward_no, v - 1)]
    \o [row \in 1..g.board |-> BoardWire(g.ward_no, row)]
    \o [k \in DOMAIN g.sparks |-> g.sparks[k].wire]

\* Variant: a ward's Sparks are left out, as the Queen is.
NamedApartVenues(x) ==
  IsInjective([i \in 0..(nwards - 1) |-> VenueWire(x[i].ward_no, 0)])

\* named_apart: the first CAP names, sorted and compared.
named_apart(x) ==
  LET all == FlattenSeq([i \in 1..nwards |-> gather_wires(x[i - 1])])
  IN  IsInjective(SubSeq(all, 1, Min({CAP, Len(all)})))

-------------------------------------------------------------------------------
Over(code) == pc' = "over" /\ rc' = code

\* calloc'd wards, nothing in the store: the command line is all there is.
Init ==
  /\ game \in Games
  /\ w = [i \in Ward |-> NoWard] /\ wardDb = [i \in Ward |-> NoRow]
  /\ db = [f \in Ward \X Id |-> NoFile]
  /\ pc = "start" /\ turn = 0 /\ c = 0 /\ rc = -1

\* A game too large for the build is refused before anything is founded.
Start ==
  /\ pc = "start"
  /\ \/ nwards > MAX_WARDS /\ Over(2)
     \/ nwards \in 1..MAX_WARDS /\ pc' = "found" /\ UNCHANGED rc
     \/ nwards = 0 /\ pc' = (IF game.cycles = 0 THEN "end" ELSE "play") /\ UNCHANGED rc
  /\ UNCHANGED << game, w, db, wardDb, turn, c >>

\* found_ward and join_ward, for the ward whose turn it is.
Found ==
  /\ pc = "found"
  /\ LET base == turn * SPARKS_PER_WARD
         take == Min({SPARKS_PER_WARD, game.nsparks - base})
         no   == base \div SPARKS_PER_WARD
     IN  /\ w' = [w EXCEPT ![turn] =
                    [NoWard EXCEPT !.ward_no = no, !.treasury = START_TREASURY,
                                   !.issued = START_TREASURY,
                                   !.sparks = [k \in 1..take |-> NewSpark(no, base + k - 1)]]]
         /\ db' = Joining(no, base..(base + take - 1))
         /\ wardDb' = [wardDb EXCEPT ![turn] = [NoRow EXCEPT !.treasury = START_TREASURY,
                                                           !.issued = START_TREASURY]]
  /\ IF turn + 1 < nwards
       THEN turn' = turn + 1 /\ UNCHANGED pc
       ELSE turn' = 0 /\ pc' = (IF game.cycles = 0 THEN "end" ELSE "play")
  /\ UNCHANGED << game, c, rc >>

FoundFails ==
  /\ pc = "found" /\ "found" \in Faults
  /\ Over(1)
  /\ UNCHANGED << game, w, db, wardDb, turn, c >>

\* How many contracts post_board writes.
Rows(g) == BOARD_SIZE + (IF "rails" \in g.built THEN RAILS_MORE ELSE 0)

\* Variant: the newest Sparks choose first.
WorkersNewestFirst(g, board) == {k \in DOMAIN g.sparks : k + board > Len(g.sparks)}

\* cycle()'s loop: the Sparks choose in their order while a contract is left.
Workers(g, board) == 1..Min({board, Len(g.sparks)})

\* What one committed cycle does to a ward: the Queen buys, the first Sparks work, some
\* keep their contract and some of the others are paid, and the clock takes its share.
Bought(g, b) ==
  [g EXCEPT !.cycle = @ + 1, !.built = @ \cup b, !.treasury = @ - COST * Cardinality(b),
            !.spent = @ + COST * Cardinality(b)]
Wage(k, kept, paid) ==
  IF k \in kept THEN PAYOUT \div 2 ELSE IF k \in paid THEN LOSERS_WAGE ELSE 0
Paid(s, wage, salvage) == [s EXCEPT !.purse = @ + wage, !.items = @ + salvage]
Worked(g, board, kept, paid) ==
  LET n == Cardinality(kept)
  IN  [g EXCEPT !.board = board, !.issued = @ + PAYOUT * n, !.found = @ + n,
                !.treasury = @ + PAYOUT * n - (PAYOUT \div 2) * n - LOSERS_WAGE * Cardinality(paid),
                !.sparks = [k \in DOMAIN @ |->
                   Paid(@[k], Wage(k, kept, paid), IF k \in kept THEN 1 ELSE 0)]]
Clocked(g, share) ==
  [g EXCEPT !.treasury = @ - share, !.retired = @ + share]

\* The id of the next arrival: the ward's count, not what the ward has given out.
ArrivalId(g) == g.ward_no * SPARKS_PER_WARD + Len(g.sparks)

Arriving(g) ==
  "row" \in g.built /\ Len(g.sparks) < SPARKS_PER_WARD /\ g.cycle % ARRIVAL_CYCLES = 0

\* What join_ward asks again: the zone has room, and so has the array.
HasRoom(g) == Len(g.sparks) < MAX_SPARKS /\ Len(g.sparks) < SPARKS_PER_WARD

\* Variant: the ward's row keeps the scrip it was founded with.
RowNeverIssued(g) == [treasury |-> g.treasury, issued |-> START_TREASURY, retired |-> g.retired]

\* cycle()'s last statement: the ward's row.
RowOf(g) == [treasury |-> g.treasury, issued |-> g.issued, retired |-> g.retired]

\* What honest(&w[i]) makes of a cycle that returned 0.
Asked == IF honest(w'[turn])
           THEN turn' = turn + 1 /\ UNCHANGED << pc, rc >>
           ELSE Over(1) /\ UNCHANGED turn

\* After the commit: nobody arrives, or join_ward lets somebody in.
NobodyArrives(g) == w' = [w EXCEPT ![turn] = g] /\ db' = Stored(g.sparks)
Arrives(g) ==
  LET id == ArrivalId(g)
  IN  /\ HasRoom(g)
      /\ w' = [w EXCEPT ![turn] = [g EXCEPT !.sparks = Append(@, NewSpark(g.ward_no, id))]]
      /\ db' = [Stored(g.sparks) EXCEPT ![<< g.ward_no, id >>] =
                  Joining(g.ward_no, {id})[<< g.ward_no, id >>]]

\* Or join_ward fails, after the cycle was committed: it has not reached the database, it has
\* opened it, or it has dropped its tables too, and the ward does not count the Spark.
ArrivalFails(g) ==
  LET f == << g.ward_no, ArrivalId(g) >>
      d == Stored(g.sparks)
  IN  /\ ~HasRoom(g) \/ "cycle" \in Faults
      /\ w' = [w EXCEPT ![turn] = g]
      /\ \E x \in {d[f], [d[f] EXCEPT !.opens = @ + 1], [NoFile EXCEPT !.opens = d[f].opens + 1]} :
           db' = [d EXCEPT ![f] = x]
      /\ Over(1) /\ UNCHANGED turn

\* cycle(&w[i]) and honest(&w[i]).
Cycle ==
  /\ pc = "play" /\ turn < nwards
  /\ \E b \in {{}, {"rails"}, {"row"}} :
       /\ b \cap w[turn].built = {} /\ COST * Cardinality(b) <= w[turn].treasury
       /\ LET g1    == Bought(w[turn], b)
              board == Rows(g1)
          IN  /\ \A k \in Workers(g1, board) : MayWrite(g1.sparks[k])
              /\ \E kept \in SUBSET Workers(g1, board) :
                 \E paid \in SUBSET (Workers(g1, board) \ kept) :
                   LET g2 == Worked(g1, board, kept, paid)
                   IN  /\ g2.treasury >= 0
                       /\ \E share \in {0, g2.treasury \div 6} :
                            LET g3 == Clocked(g2, share)
                            IN  /\ wardDb' = [wardDb EXCEPT ![turn] = RowOf(g3)]
                                /\ \/ ~Arriving(g3) /\ NobodyArrives(g3) /\ Asked
                                   \/ Arriving(g3) /\ Arrives(g3) /\ Asked
                                   \/ Arriving(g3) /\ ArrivalFails(g3)
  /\ UNCHANGED << game, c >>

\* A cycle that fails before its commit, whatever the reason.  The game is over, and what
\* the failed ward leaves in memory and in the store is the subject of Ward.
CycleFails ==
  /\ pc = "play" /\ turn < nwards
  /\ "cycle" \in Faults
  /\ Over(1)
  /\ UNCHANGED << game, w, db, wardDb, turn, c >>

\* Variant: one cycle too many.
NextCycleLate(n) == IF n < game.cycles THEN "play" ELSE "end"

\* shard()'s loop condition, after c++.
NextCycle(n) == IF n + 1 < game.cycles THEN "play" ELSE "end"

\* Variant: from the midpoint on, every cycle.
PastMidpoint(n) == n >= game.cycles \div 2

\* The cycle after which somebody moves.
Midpoint(n) == n = game.cycles \div 2

\* The end of the loop's body: the sum across the wards, and the migration at the midpoint.
Across ==
  /\ pc = "play" /\ turn = nwards
  /\ turn' = 0
  /\ IF ~honest_across(w) THEN Over(1) /\ UNCHANGED c
     ELSE IF nwards > 1 /\ Midpoint(c)
       THEN pc' = "migrate" /\ UNCHANGED << c, rc >>
       ELSE pc' = NextCycle(c) /\ c' = c + 1 /\ UNCHANGED rc
  /\ UNCHANGED << game, w, db, wardDb >>

\* Variant: the salvage in the Spark's hands stays on the first ward's count.
BooksMovedScripOnly(s) ==
  [w EXCEPT ![0].issued = @ - s.purse, ![1].issued = @ + s.purse]

\* migrate()'s first half: what each ward accounts for moves with the purse.
BooksMoved(s) ==
  [w EXCEPT ![0].issued = @ - s.purse, ![1].issued = @ + s.purse,
            ![0].found = @ - s.items,  ![1].found = @ + s.items]

\* Variant: the name is kept.
RenamedNot(s, to) == s

\* migrate()'s third statement: the name is drawn again, for the ward that sends it now.
Renamed(s, to) == [s EXCEPT !.wire = SparkWire(to.ward_no, s.id)]

\* migrate(&w[0], &w[1], 0), and the two checks after it.  The array has room: it is
\* larger than a zone, and a game has one migration.
Migrate ==
  /\ pc = "migrate"
  /\ LET s == Head(w[0].sparks)
         m == Renamed(s, w[1])
     IN  /\ Len(w[1].sparks) < MAX_SPARKS /\ MayWrite(s)
         /\ w' = [BooksMoved(s) EXCEPT ![0].sparks = Tail(@), ![1].sparks = Append(@, m)]
         /\ db' = [db EXCEPT ![<< s.home, s.id >>].wire = m.wire]
  /\ IF honest_across(w') /\ named_apart(w')
       THEN pc' = NextCycle(c) /\ c' = c + 1 /\ UNCHANGED rc
       ELSE Over(1) /\ UNCHANGED c
  /\ UNCHANGED << game, wardDb, turn >>

\* A statement of migrate() fails: the books have moved and the Spark has not.
MigrateFails ==
  /\ pc = "migrate" /\ "migrate" \in Faults
  /\ w' = BooksMoved(Head(w[0].sparks))
  /\ Over(1)
  /\ UNCHANGED << game, db, wardDb, turn, c >>

\* The last two checks, and what the run reports.
Report ==
  /\ pc = "end"
  /\ Over(IF honest_across(w) /\ named_apart(w) THEN 0 ELSE 1)
  /\ UNCHANGED << game, w, db, wardDb, turn, c >>

Next ==
  \/ Start \/ Found \/ FoundFails
  \/ Cycle \/ CycleFails \/ Across
  \/ Migrate \/ MigrateFails
  \/ Report

Spec == Init /\ [][Next]_vars

-------------------------------------------------------------------------------
(* Properties.                                                              *)

Sparks(i) == Range(w[i].sparks)
Going     == pc # "over" \/ rc = 0

\* Type correctness.
TypeOK ==
  /\ game \in Games /\ rc \in -1..2 /\ c \in 0..game.cycles /\ turn \in 0..MAX_WARDS
  /\ pc \in {"start", "found", "play", "migrate", "end", "over"}
  /\ \A i \in Ward : Len(w[i].sparks) <= MAX_SPARKS /\ w[i].treasury \in Nat

\* The migration moves what each ward accounts for with the Spark that carries it, so
\* every ward's own sum and its count of salvage hold at every rest of the game, also
\* for a ward nobody has asked since (queen.c 851-854: honest() is only asked of a ward
\* after its own cycle, and honest_across would not see two errors that cancel).
EveryWardIsHonest ==
  Going => \A i \in Ward :
    /\ Held(w[i]) = w[i].issued
    /\ Salvage(w[i]) = w[i].found

\* What the databases hold is what the wards account for: an arrival that opens a
\* database a Spark already has drops its tables, and what it drops is empty, because
\* the Spark it happens to never worked (queen.c 703-704, "conservation is untouched").
StoreConserves ==
  Going => \A i \in Ward :
    LET files == {<< s.home, s.id >> : s \in Sparks(i)}
    IN  w[i].treasury + MapThenSumSet(LAMBDA f : db[f].purse, files) + w[i].retired + w[i].spent
          = w[i].issued

\* A Spark's name says which ward holds it, wherever it was founded, and stays clear of the
\* venues' and the board's: so no two wards hand out one name, which named_apart compares
\* for (queen.c 934-936) and, past CAP, does not.
NamesSayTheirWard ==
  \A i \in Ward : \A s \in Sparks(i) :
    /\ s.wire \div WIRE_LOCAL_MAX = i
    /\ s.wire % WIRE_LOCAL_MAX \in WIRE_SPARK_BASE..(WIRE_CONTRACT_BASE - 1)

\* What the run reports when it returns 0: all names are apart, within each ward and across
\* the wards, the ones beyond CAP that named_apart never compared included, every Spark's
\* handle can still write, and its database says what the handle says (queen.c 1051-1053).
ReportIsTrue ==
  rc = 0 =>
    /\ \A i \in 0..(nwards - 1) : IsInjective(gather_wires(w[i]))
    /\ \A i, j \in 0..(nwards - 1) :
         i # j => Range(gather_wires(w[i])) \cap Range(gather_wires(w[j])) = {}
    /\ \A i \in Ward : \A s \in Sparks(i) :
         MayWrite(s) /\ File(s).purse = s.purse /\ File(s).items = s.items /\ File(s).wire = s.wire

\* A ward's row in its database is written by its cycles alone, so a migration reaches it
\* one cycle late.  A game of more than two cycles has that cycle: when it reports, the
\* rows hold what the wards account for (queen.c 717-720, 1035).
RowsCatchUp ==
  rc = 0 /\ game.cycles > 2 =>
    \A i \in Ward :
      /\ wardDb[i].issued = w[i].issued
      /\ wardDb[i].treasury = w[i].treasury
      /\ wardDb[i].retired = w[i].retired

\* A Spark's id is unique across the whole game (queen.c 226-227 and 239-240).
IdsAreUnique ==
  \A i, j \in Ward : \A k \in DOMAIN w[i].sparks, l \in DOMAIN w[j].sparks :
    w[i].sparks[k].id = w[j].sparks[l].id => i = j /\ k = l

\* A ward may not take more than its zone can hold (queen.c 208-209).
ZoneHolds == \A i \in Ward : Len(w[i].sparks) <= SPARKS_PER_WARD

\* What holds instead: founding and arrivals keep to the zone, and the migration alone
\* takes the ward it goes to past it, by one and no more, which no later arrival adds to
\* (queen.c 858 asks for the array's room, 212 and 715 for the zone's).
ZoneHoldsButOne ==
  \A i \in Ward :
    /\ Len(w[i].sparks) <= SPARKS_PER_WARD + Cardinality({s \in Sparks(i) : s.home # i})
    /\ Len(w[i].sparks) <= SPARKS_PER_WARD + 1
===============================================================================
