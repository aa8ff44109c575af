---------------------------- MODULE PlannerProofs ----------------------------
(***************************************************************************)
(* Theorems about PlannerSearch, for every price list, treasury, reserve    *)
(* and set of venues built: the search ends with a plan whose first         *)
(* commission is the one QueenPlan names, and the whole plan is funded.     *)
(***************************************************************************)
EXTENDS PlannerSearch, SumsProofs, SequenceTheorems

-------------------------------------------------------------------------------
(* What each task wants, and how deep the calls for it nest.                *)

\* let_word_get_out's decision, then the ones of the two lines of business.
WordWants(s)   == IF RowIsWorthIt(s) /\ CanCommission(s, ROW) THEN ROW ELSE HOLD
SparksWant(s)  == IF Wants(s, SparkLine) THEN FromLine(s, SparkLine) ELSE WordWants(s)
EarningWants(s) == IF Wants(s, EarnLine) THEN FromLine(s, EarnLine) ELSE SparksWant(s)

\* The first commission of a plan for the task.
Wanted(s, task) ==
  CASE task = "run_the_ward" -> QueenPlan(s)
    [] task = "make_the_ward_earn" -> EarningWants(s)
    [] task = "keep_the_sparks_working" -> SparksWant(s)
    [] task = "let_word_get_out" -> WordWants(s)

Unbuilt(s, v) == IF IsBuilt(s, v) THEN 0 ELSE 1

\* A bound on the calls below one that has this task to branch on, itself included.
Deep(s, task) ==
  LET sparks == Unbuilt(s, DEN) + Unbuilt(s, TAVERN) + Unbuilt(s, CHAPEL)
      earn   == Unbuilt(s, RAILS) + Unbuilt(s, PLAZA)
  IN  CASE task = "run_the_ward" -> 4 + sparks + earn
        [] task = "make_the_ward_earn" -> 3 + sparks + earn
        [] task = "keep_the_sparks_working" -> 2 + sparks
        [] task = "let_word_get_out" -> 1

-------------------------------------------------------------------------------
(* The inductive invariants.                                                *)

\* The planner's copies of the ward.
States == [treasury: Int, worst_wear: Nat, room_to_grow: Nat, built: [Venue -> Nat],
           reserve: Nat, cost: [Venue -> Nat]]

TaskCall == [name: Tasks \cup {"hold", "commission"}, venue: Int]

Frame == [state: States, tasks: Seq(TaskCall), prefix: Seq(Int), fuel: Nat, next: Nat]

\* A method that leads nowhere: it does not apply, or its commission cannot be made.
Dead(s, task, k) ==
  \A d \in Methods(s, task)[k] : d[1].name = "commission" /\ ~CanCommission(s, d[1].venue)

TaskOf(f) == Head(f.tasks).name

Compound(f) == \E t \in Tasks : f.tasks = << Call(t) >>

\* The first n methods of the task the call branches on lead nowhere.
Tried(f, n) == \A j \in 1..n : Dead(f.state, TaskOf(f), j)

\* How far a call is, with fuel for what is still to come.
FrameOK(f) ==
  \/ f.tasks = << >> /\ f.next = 0 /\ \E v \in Venue \cup {HOLD} : f.prefix = << v >>
  \/ f.tasks = << Call("hold") >> /\ f.next = 0 /\ f.prefix = << >>
  \/ \E v \in Venue : f.tasks = << Commission(v) >> /\ f.next = 0 /\ f.prefix = << >>
  \/ \E v \in Venue, t \in Tasks :
       /\ f.tasks = << Commission(v), Call(t) >> /\ f.next = 0 /\ f.prefix = << >>
       /\ Deep(ActCommission(f.state, v), t) <= f.fuel
  \/ \E t \in Tasks :
       /\ f.tasks = << Call(t) >> /\ Deep(f.state, t) <= f.fuel
       /\ f.prefix = << >> \/ \E v \in Venue : f.prefix = << v >>

\* A call that waits for the one it made with its latest method.
Waiting(f) ==
  /\ Compound(f) /\ f.next - 1 \in 1..Len(Methods(f.state, TaskOf(f)))
  /\ Tried(f, f.next - 2)

\* g is the call f waits for: until it has done something it is the method's decomposition.
Called(f, g) ==
  g.prefix = << >> => g.state = f.state /\ g.tasks \in Methods(f.state, TaskOf(f))[f.next - 1]

\* What keeps the search from running out: a call that returns without a plan could not make
\* its first commission, and the caller has a method left.
SearchInv ==
  /\ view \in Views /\ stack \in Seq(Frame) /\ pc \in {"seek", "back", "done"}
  /\ answer \in [ok: BOOLEAN, calls: Seq(Int)]
  /\ \A k \in 1..Len(stack) : FrameOK(stack[k])
  /\ stack # << >> => Compound(stack[1])
  /\ \A k \in 1..(Len(stack) - 1) : Waiting(stack[k]) /\ Called(stack[k], stack[k + 1])
  /\ pc = "seek" => stack # << >> /\ (Top.next # 0 => Tried(Top, Top.next - 1))
  /\ pc = "back" /\ stack # << >> => Waiting(Top)
  /\ pc = "back" /\ ~answer.ok => stack # << >> /\ Tried(Top, Top.next - 1)
  /\ pc = "done" => answer.ok

\* No call up to the k-th has acted.
Undecided(k) == \A j \in 1..k : stack[j].prefix = << >>

\* The call is about to do what QueenPlan says.
Aims(f) ==
  /\ f.state = view
  /\ f.tasks = << Call("hold") >> => QueenPlan(view) = HOLD
  /\ \A v \in Venue : f.tasks # << >> /\ Head(f.tasks) = Commission(v) /\ CanCommission(view, v)
       => QueenPlan(view) = v
  /\ \A t \in Tasks : f.tasks = << Call(t) >> => Wanted(view, t) = QueenPlan(view)

\* The first act of the plan is the one QueenPlan names.
AgreeInv ==
  /\ \A k \in 1..Len(stack) : Undecided(k) => Aims(stack[k])
  /\ \A k \in 1..Len(stack) : Undecided(k - 1) /\ stack[k].prefix # << >>
       => stack[k].prefix = << QueenPlan(view) >>
  /\ pc = "back" /\ answer.ok /\ Undecided(Len(stack))
       => FirstCommission(answer.calls) = QueenPlan(view)
  /\ pc = "done" => venue = QueenPlan(view)

\* What has been commissioned since the view.
New(s) == {v \in Venue : IsBuilt(s, v) /\ ~IsBuilt(view, v)}

\* A state the search reached has paid for what is new in it and kept the reserve.
Funded(s) ==
  /\ s \in States /\ s.cost = view.cost /\ s.reserve = view.reserve
  /\ \A v \in Venue : IsBuilt(view, v) => IsBuilt(s, v)
  /\ s.treasury = view.treasury - Price(New(s))
  /\ New(s) # {} => s.treasury >= s.reserve

\* Every call's state is funded and has what the calls down to it commissioned; so has the
\* state a finished plan ended in.
FundInv ==
  /\ \A k \in 1..Len(stack) : Funded(stack[k].state) /\ Bought(stack[k].prefix) \subseteq New(stack[k].state)
  /\ \A k \in 1..(Len(stack) - 1) : New(stack[k].state) \subseteq New(stack[k + 1].state)
  /\ pc # "seek" /\ answer.ok =>
       \E s \in States :
         /\ Funded(s) /\ Bought(answer.calls) \subseteq New(s)
         /\ stack # << >> => New(Top.state) \subseteq New(s)

-------------------------------------------------------------------------------
(* The domain.                                                              *)

\* The six venues are six.
LEMMA VenuesAre ==
  /\ TAVERN \in Venue /\ DEN \in Venue /\ RAILS \in Venue /\ PLAZA \in Venue
  /\ CHAPEL \in Venue /\ ROW \in Venue
  /\ DEN # TAVERN /\ DEN # CHAPEL /\ TAVERN # CHAPEL /\ RAILS # PLAZA
  /\ HOLD \notin Venue /\ Venue \subseteq Int /\ HOLD \in Int
BY DEF TAVERN, DEN, RAILS, PLAZA, CHAPEL, ROW, Venue, HOLD

\* A line commissions the first venue of it that can be.
LEMMA LinesWant ==
  ASSUME NEW s
  PROVE  /\ Wants(s, EarnLine) <=> ~IsBuilt(s, RAILS) \/ ~IsBuilt(s, PLAZA)
         /\ Wants(s, SparkLine) <=> ~IsBuilt(s, DEN) \/ ~IsBuilt(s, TAVERN) \/ ~IsBuilt(s, CHAPEL)
         /\ Wants(s, << RAILS, PLAZA >>) <=> Wants(s, EarnLine)
         /\ Wants(s, << TAVERN, DEN, CHAPEL >>) <=> Wants(s, SparkLine)
<1>1. DOMAIN EarnLine = 1..2 /\ EarnLine[1] = RAILS /\ EarnLine[2] = PLAZA BY DEF EarnLine
<1>2. /\ DOMAIN SparkLine = 1..3
      /\ SparkLine[1] = DEN /\ SparkLine[2] = TAVERN /\ SparkLine[3] = CHAPEL
  BY DEF SparkLine
<1> DEFINE line == << TAVERN, DEN, CHAPEL >>
<1>3. DOMAIN line = 1..3 /\ line[1] = TAVERN /\ line[2] = DEN /\ line[3] = CHAPEL OBVIOUS
<1>4. Wants(s, EarnLine) <=> ~IsBuilt(s, RAILS) \/ ~IsBuilt(s, PLAZA)
  <2>1. 1..2 = {1, 2} OBVIOUS
  <2> QED BY <1>1, <2>1 DEF Wants
<1>5. 1..3 = {1, 2, 3} OBVIOUS
<1>6. Wants(s, SparkLine) <=> ~IsBuilt(s, DEN) \/ ~IsBuilt(s, TAVERN) \/ ~IsBuilt(s, CHAPEL)
  BY <1>2, <1>5 DEF Wants
<1>7. Wants(s, << RAILS, PLAZA >>) <=> Wants(s, EarnLine) BY DEF EarnLine
<1> HIDE DEF line
<1>8. Wants(s, line) <=> ~IsBuilt(s, DEN) \/ ~IsBuilt(s, TAVERN) \/ ~IsBuilt(s, CHAPEL)
  BY <1>3, <1>5 DEF Wants
<1> QED BY <1>4, <1>6, <1>7, <1>8 DEF line

\* The line that makes the ward earn.
LEMMA EarnLineBuys ==
  ASSUME NEW s
  PROVE  FromLine(s, EarnLine) =
           IF CanCommission(s, RAILS) THEN RAILS
           ELSE IF CanCommission(s, PLAZA) THEN PLAZA ELSE HOLD
<1> DEFINE can == {k \in DOMAIN EarnLine : CanCommission(s, EarnLine[k])}
           first == CHOOSE k \in can : \A j \in can : k <= j
<1>1. DOMAIN EarnLine = 1..2 /\ EarnLine[1] = RAILS /\ EarnLine[2] = PLAZA BY DEF EarnLine
<1>2. can \subseteq 1..2 BY <1>1
<1>3. (1 \in can <=> CanCommission(s, RAILS)) /\ (2 \in can <=> CanCommission(s, PLAZA)) BY <1>1
<1>4. FromLine(s, EarnLine) = IF can = {} THEN HOLD ELSE EarnLine[first] BY DEF FromLine
<1> HIDE DEF can
<1>5. 1 \in can => first = 1
  <2>1. \A k \in can : k \in Int /\ 1 <= k BY <1>2
  <2> SUFFICES ASSUME 1 \in can PROVE first = 1 OBVIOUS
  <2>2. first \in can /\ \A j \in can : first <= j BY <2>1
  <2> HIDE DEF first
  <2> QED BY <2>1, <2>2
<1>6. 1 \notin can /\ 2 \in can => first = 2
  <2>1. 1 \notin can => \A k \in can : k = 2 BY <1>2
  <2> QED BY <2>1
<1>7. 1 \notin can /\ 2 \notin can => can = {} BY <1>2
<1> HIDE DEF first
<1> QED BY <1>1, <1>3, <1>4, <1>5, <1>6, <1>7

\* The line that keeps the Sparks working.
LEMMA SparkLineBuys ==
  ASSUME NEW s
  PROVE  FromLine(s, SparkLine) =
           IF CanCommission(s, DEN) THEN DEN
           ELSE IF CanCommission(s, TAVERN) THEN TAVERN
           ELSE IF CanCommission(s, CHAPEL) THEN CHAPEL ELSE HOLD
<1> DEFINE can == {k \in DOMAIN SparkLine : CanCommission(s, SparkLine[k])}
           first == CHOOSE k \in can : \A j \in can : k <= j
<1>1. /\ DOMAIN SparkLine = 1..3
      /\ SparkLine[1] = DEN /\ SparkLine[2] = TAVERN /\ SparkLine[3] = CHAPEL
  BY DEF SparkLine
<1>2. can \subseteq 1..3 BY <1>1
<1>3. /\ 1 \in can <=> CanCommission(s, DEN)
      /\ 2 \in can <=> CanCommission(s, TAVERN)
      /\ 3 \in can <=> CanCommission(s, CHAPEL)
  BY <1>1
<1>4. FromLine(s, SparkLine) = IF can = {} THEN HOLD ELSE SparkLine[first] BY DEF FromLine
<1> HIDE DEF can
<1>5. 1 \in can => first = 1
  <2>1. \A k \in can : k \in Int /\ 1 <= k BY <1>2
  <2> SUFFICES ASSUME 1 \in can PROVE first = 1 OBVIOUS
  <2>2. first \in can /\ \A j \in can : first <= j BY <2>1
  <2> HIDE DEF first
  <2> QED BY <2>1, <2>2
<1>6. 1 \notin can /\ 2 \in can => first = 2
  <2>1. 1 \notin can => \A k \in can : k = 2 \/ k = 3 BY <1>2
  <2> QED BY <2>1
<1>7. 1 \notin can /\ 2 \notin can /\ 3 \in can => first = 3
  <2>1. 1 \notin can /\ 2 \notin can => \A k \in can : k = 3 BY <1>2
  <2> QED BY <2>1
<1>8. 1 \notin can /\ 2 \notin can /\ 3 \notin can => can = {} BY <1>2
<1> HIDE DEF first
<1> QED BY <1>1, <1>3, <1>4, <1>5, <1>6, <1>7, <1>8

\* The decompositions of a method that is reached, with what the task wants and how deep the
\* calls for what is left of it nest.
Leads(s, task, d) ==
  \/ d = << Call("hold") >> /\ Wanted(s, task) = HOLD
  \/ \E v \in Venue, t \in Tasks :
       /\ d = << Commission(v), Call(t) >> /\ (CanCommission(s, v) => Wanted(s, task) = v)
       /\ Deep(ActCommission(s, v), t) + 1 <= Deep(s, task)
  \/ \E v \in Venue :
       d = << Commission(v) >> /\ (CanCommission(s, v) => Wanted(s, task) = v)
  \/ \E t \in Tasks :
       /\ d = << Call(t) >> /\ Wanted(s, t) = Wanted(s, task)
       /\ Deep(s, t) + 1 <= Deep(s, task)

\* The bound by task.
LEMMA DeepIs ==
  ASSUME NEW s
  PROVE  LET sparks == Unbuilt(s, DEN) + Unbuilt(s, TAVERN) + Unbuilt(s, CHAPEL)
             earn   == Unbuilt(s, RAILS) + Unbuilt(s, PLAZA)
         IN  /\ Deep(s, "run_the_ward") = 4 + sparks + earn
             /\ Deep(s, "make_the_ward_earn") = 3 + sparks + earn
             /\ Deep(s, "keep_the_sparks_working") = 2 + sparks
             /\ Deep(s, "let_word_get_out") = 1
BY DEF Deep

\* The decision by task.
LEMMA WantedIs ==
  ASSUME NEW s
  PROVE  /\ Wanted(s, "run_the_ward") = IF RepairFirst(s) THEN DEN ELSE EarningWants(s)
         /\ Wanted(s, "make_the_ward_earn") = EarningWants(s)
         /\ Wanted(s, "keep_the_sparks_working") = SparksWant(s)
         /\ Wanted(s, "let_word_get_out") = WordWants(s)
BY DEF Wanted, QueenPlan, EarningWants, SparksWant, WordWants

\* The methods by task.
LEMMA MethodsAre ==
  ASSUME NEW s
  PROVE  /\ Methods(s, "run_the_ward") =
              << IF IsBuilt(s, DEN) \/ s.worst_wear < WEAR_THAT_CANNOT_WAIT THEN {}
                 ELSE {<< Commission(DEN), Call("keep_the_sparks_working") >>},
                 {<< Call("make_the_ward_earn") >>} >>
         /\ Methods(s, "make_the_ward_earn") =
              << NextOf(s, "make_the_ward_earn", RAILS), NextOf(s, "make_the_ward_earn", PLAZA),
                 Save(s, << RAILS, PLAZA >>), {<< Call("keep_the_sparks_working") >>} >>
         /\ Methods(s, "keep_the_sparks_working") =
              << NextOf(s, "keep_the_sparks_working", DEN),
                 NextOf(s, "keep_the_sparks_working", TAVERN),
                 NextOf(s, "keep_the_sparks_working", CHAPEL),
                 Save(s, << TAVERN, DEN, CHAPEL >>), {<< Call("let_word_get_out") >>} >>
         /\ Methods(s, "let_word_get_out") =
              << IF RowIsWorthIt(s) THEN {<< Commission(ROW) >>} ELSE {}, {<< Call("hold") >>} >>
BY DEF Methods

\* A commission builds its venue and no other.
LEMMA ActBuilds ==
  ASSUME NEW s \in States, NEW v \in Venue
  PROVE  /\ ActCommission(s, v) \in States
         /\ ActCommission(s, v).cost = s.cost /\ ActCommission(s, v).reserve = s.reserve
         /\ ActCommission(s, v).treasury = s.treasury - s.cost[v]
         /\ \A x \in Venue : IsBuilt(ActCommission(s, v), x) <=> x = v \/ IsBuilt(s, x)
<1>1. Cycle \in Nat \ {0} BY PlannerBounds
<1>2. s.cost[v] \in Nat /\ s.treasury \in Int BY DEF States
<1> DEFINE b == [s.built EXCEPT ![v] = Cycle]
           t == s.treasury - s.cost[v]
           a == [s EXCEPT !.built = b, !.treasury = t]
<1>3. ActCommission(s, v) = a BY DEF ActCommission, States
<1>4. b \in [Venue -> Nat] /\ t \in Int BY <1>1, <1>2 DEF States
<1>5. \A x \in Venue : b[x] # 0 <=> x = v \/ s.built[x] # 0 BY <1>1 DEF States
<1> HIDE DEF b, t
<1>6. /\ a \in States /\ a.cost = s.cost /\ a.reserve = s.reserve /\ a.treasury = t /\ a.built = b
  BY <1>4 DEF States
<1> HIDE DEF a
<1> QED BY <1>3, <1>5, <1>6 DEF IsBuilt, t

\* Commissioning a venue that is not built leaves one fewer to build.
LEMMA ActNeedsLess ==
  ASSUME NEW s \in States, NEW v \in Venue
  PROVE  \A x \in Venue : Unbuilt(ActCommission(s, v), x) = IF x = v THEN 0 ELSE Unbuilt(s, x)
BY ActBuilds DEF Unbuilt

\* Unbuilt counts.
LEMMA UnbuiltIs == \A s, v : Unbuilt(s, v) \in {0, 1} /\ (~IsBuilt(s, v) => Unbuilt(s, v) = 1)
BY DEF Unbuilt

\* A task that is entered again after a commission of its own has one venue fewer to buy.
LEMMA ActIsShallower ==
  ASSUME NEW s \in States
  PROVE  /\ Deep(ActCommission(s, DEN), "keep_the_sparks_working") + 1 <= Deep(s, "run_the_ward")
         /\ \A v \in {RAILS, PLAZA} : ~IsBuilt(s, v) =>
              Deep(ActCommission(s, v), "make_the_ward_earn") + 1 <= Deep(s, "make_the_ward_earn")
         /\ \A v \in {DEN, TAVERN, CHAPEL} : ~IsBuilt(s, v) =>
              Deep(ActCommission(s, v), "keep_the_sparks_working") + 1
                <= Deep(s, "keep_the_sparks_working")
<1> DEFINE U(x) == Unbuilt(s, x)
<1>1. \A x \in Venue : U(x) \in {0, 1} /\ (~IsBuilt(s, x) => U(x) = 1) BY UnbuiltIs
<1> HIDE DEF U
<1>2. /\ Deep(s, "run_the_ward") = 4 + (U(DEN) + U(TAVERN) + U(CHAPEL)) + (U(RAILS) + U(PLAZA))
      /\ Deep(s, "make_the_ward_earn") =
           3 + (U(DEN) + U(TAVERN) + U(CHAPEL)) + (U(RAILS) + U(PLAZA))
      /\ Deep(s, "keep_the_sparks_working") = 2 + (U(DEN) + U(TAVERN) + U(CHAPEL))
  BY DeepIs DEF U
<1>3. ASSUME NEW v \in Venue
      PROVE  LET W(x) == IF x = v THEN 0 ELSE U(x)
             IN  /\ Deep(ActCommission(s, v), "make_the_ward_earn") =
                      3 + (W(DEN) + W(TAVERN) + W(CHAPEL)) + (W(RAILS) + W(PLAZA))
                 /\ Deep(ActCommission(s, v), "keep_the_sparks_working") =
                      2 + (W(DEN) + W(TAVERN) + W(CHAPEL))
  <2> DEFINE a == ActCommission(s, v)
  <2>1. \A x \in Venue : Unbuilt(a, x) = IF x = v THEN 0 ELSE U(x) BY ActNeedsLess DEF U
  <2> HIDE DEF a
  <2>2. /\ Deep(a, "make_the_ward_earn") =
             3 + (Unbuilt(a, DEN) + Unbuilt(a, TAVERN) + Unbuilt(a, CHAPEL))
               + (Unbuilt(a, RAILS) + Unbuilt(a, PLAZA))
        /\ Deep(a, "keep_the_sparks_working") =
             2 + (Unbuilt(a, DEN) + Unbuilt(a, TAVERN) + Unbuilt(a, CHAPEL))
    BY DeepIs
  <2> QED BY <2>1, <2>2, VenuesAre DEF a
<1>4. Deep(ActCommission(s, DEN), "keep_the_sparks_working") + 1 <= Deep(s, "run_the_ward")
  BY <1>1, <1>2, <1>3, VenuesAre
<1>5. ASSUME NEW v \in {RAILS, PLAZA}, ~IsBuilt(s, v)
      PROVE  Deep(ActCommission(s, v), "make_the_ward_earn") + 1 <= Deep(s, "make_the_ward_earn")
  BY <1>1, <1>2, <1>3, <1>5, VenuesAre
<1>6. ASSUME NEW v \in {DEN, TAVERN, CHAPEL}, ~IsBuilt(s, v)
      PROVE  Deep(ActCommission(s, v), "keep_the_sparks_working") + 1
               <= Deep(s, "keep_the_sparks_working")
  BY <1>1, <1>2, <1>3, <1>6, VenuesAre
<1> QED BY <1>4, <1>5, <1>6

\* run_the_ward: the Den for worn Frames, or the earning line.
LEMMA RunLeads ==
  ASSUME NEW s \in States, NEW k \in 1..Len(Methods(s, "run_the_ward")),
         NEW d \in Methods(s, "run_the_ward")[k],
         \A j \in 1..(k - 1) : Dead(s, "run_the_ward", j)
  PROVE  Leads(s, "run_the_ward", d)
<1> DEFINE M == Methods(s, "run_the_ward")
           e == << Commission(DEN), Call("keep_the_sparks_working") >>
           worn == ~IsBuilt(s, DEN) /\ ~(s.worst_wear < WEAR_THAT_CANNOT_WAIT)
<1>1. /\ Len(M) = 2 /\ (worn => M[1] = {e}) /\ (~worn => M[1] = {})
      /\ M[2] = {<< Call("make_the_ward_earn") >>}
  <2> DEFINE m1 == IF IsBuilt(s, DEN) \/ s.worst_wear < WEAR_THAT_CANNOT_WAIT THEN {} ELSE {e}
             m2 == {<< Call("make_the_ward_earn") >>}
  <2>1. M = << m1, m2 >> BY MethodsAre
  <2>2. (worn => m1 = {e}) /\ (~worn => m1 = {}) OBVIOUS
  <2> HIDE DEF m1, M, e, worn
  <2>3. Len(M) = 2 /\ M[1] = m1 /\ M[2] = m2 BY <2>1
  <2> QED BY <2>2, <2>3
<1>2. s.worst_wear \in Nat /\ WEAR_THAT_CANNOT_WAIT \in Nat BY DEF States, WEAR_THAT_CANNOT_WAIT
<1>3. RepairFirst(s) <=> worn /\ CanCommission(s, DEN) BY <1>2 DEF RepairFirst, CanCommission
<1>4. Wanted(s, "run_the_ward") = IF RepairFirst(s) THEN DEN ELSE EarningWants(s) BY WantedIs
<1>5. CASE k = 1
  <2>1. worn /\ d = e BY <1>1, <1>5
  <2>2. CanCommission(s, DEN) => Wanted(s, "run_the_ward") = DEN BY <1>3, <1>4, <2>1
  <2>3. Deep(ActCommission(s, DEN), "keep_the_sparks_working") + 1 <= Deep(s, "run_the_ward")
    BY ActIsShallower
  <2>4. "keep_the_sparks_working" \in Tasks BY DEF Tasks
  <2> QED BY <2>1, <2>2, <2>3, <2>4, VenuesAre DEF Leads
<1>6. CASE k = 2
  <2>1. d = << Call("make_the_ward_earn") >> BY <1>1, <1>6
  <2>2. worn => ~CanCommission(s, DEN)
    <3>1. Dead(s, "run_the_ward", 1) BY <1>6
    <3>2. e[1].venue = DEN BY DEF Commission
    <3> QED BY <1>1, <3>1, <3>2 DEF Dead
  <2>3. Wanted(s, "make_the_ward_earn") = Wanted(s, "run_the_ward")
    BY <1>3, <1>4, <2>2, WantedIs
  <2>4. Deep(s, "make_the_ward_earn") + 1 <= Deep(s, "run_the_ward") BY DeepIs, UnbuiltIs
  <2>5. "make_the_ward_earn" \in Tasks BY DEF Tasks
  <2> QED BY <2>1, <2>3, <2>4, <2>5 DEF Leads
<1>7. k = 1 \/ k = 2 BY <1>1
<1> QED BY <1>5, <1>6, <1>7

\* A method that would buy a venue the ward lacks, and led nowhere, could not pay for it.
LEMMA DeadNext ==
  ASSUME NEW s, NEW task, NEW v, NEW k, Methods(s, task)[k] = NextOf(s, task, v), Dead(s, task, k)
  PROVE  ~CanCommission(s, v)
<1> SUFFICES ASSUME ~IsBuilt(s, v) PROVE ~CanCommission(s, v) BY DEF CanCommission
<1> DEFINE e == << Commission(v), Call(task) >>
<1>1. e \in Methods(s, task)[k] BY DEF NextOf
<1>2. e[1].venue = v BY DEF Commission
<1> QED BY <1>1, <1>2 DEF Dead

\* A method that buys a venue leads to it when it is what the task wants, and leaves one
\* venue fewer to buy.
LEMMA NextLeads ==
  ASSUME NEW s, NEW task \in Tasks, NEW v \in Venue, NEW d \in NextOf(s, task, v),
         ~IsBuilt(s, v) /\ CanCommission(s, v) => Wanted(s, task) = v,
         ~IsBuilt(s, v) => Deep(ActCommission(s, v), task) + 1 <= Deep(s, task)
  PROVE  Leads(s, task, d)
<1>1. ~IsBuilt(s, v) /\ d = << Commission(v), Call(task) >> BY DEF NextOf
<1> QED BY <1>1 DEF Leads

\* make_the_ward_earn.
LEMMA EarnLeads ==
  ASSUME NEW s \in States, NEW k \in 1..Len(Methods(s, "make_the_ward_earn")),
         NEW d \in Methods(s, "make_the_ward_earn")[k],
         \A j \in 1..(k - 1) : Dead(s, "make_the_ward_earn", j)
  PROVE  Leads(s, "make_the_ward_earn", d)
<1> DEFINE T == "make_the_ward_earn"
           M == Methods(s, T)
<1>1. /\ Len(M) = 4 /\ M[1] = NextOf(s, T, RAILS) /\ M[2] = NextOf(s, T, PLAZA)
      /\ M[3] = Save(s, << RAILS, PLAZA >>) /\ M[4] = {<< Call("keep_the_sparks_working") >>}
  <2> DEFINE m1 == NextOf(s, T, RAILS)
             m2 == NextOf(s, T, PLAZA)
             m3 == Save(s, << RAILS, PLAZA >>)
             m4 == {<< Call("keep_the_sparks_working") >>}
  <2>1. M = << m1, m2, m3, m4 >> BY MethodsAre
  <2> HIDE DEF M, m1, m2, m3, m4
  <2>2. Len(M) = 4 /\ M[1] = m1 /\ M[2] = m2 /\ M[3] = m3 /\ M[4] = m4 BY <2>1
  <2> QED BY <2>2 DEF m1, m2, m3, m4
<1>2. /\ Wanted(s, T) = IF Wants(s, EarnLine) THEN FromLine(s, EarnLine) ELSE SparksWant(s)
      /\ Wants(s, EarnLine) <=> ~IsBuilt(s, RAILS) \/ ~IsBuilt(s, PLAZA)
      /\ FromLine(s, EarnLine) =
           IF CanCommission(s, RAILS) THEN RAILS
           ELSE IF CanCommission(s, PLAZA) THEN PLAZA ELSE HOLD
  BY WantedIs, LinesWant, EarnLineBuys DEF EarningWants
<1>3. T \in Tasks /\ "keep_the_sparks_working" \in Tasks BY DEF Tasks
<1>4. k > 1 => ~CanCommission(s, RAILS) BY <1>1, DeadNext
<1>5. k > 2 => ~CanCommission(s, PLAZA) BY <1>1, DeadNext
<1>6. CASE k = 1
  <2>1. ~IsBuilt(s, RAILS) => Deep(ActCommission(s, RAILS), T) + 1 <= Deep(s, T)
    BY ActIsShallower
  <2>2. ~IsBuilt(s, RAILS) /\ CanCommission(s, RAILS) => Wanted(s, T) = RAILS BY <1>2
  <2> QED BY <1>1, <1>3, <1>6, <2>1, <2>2, VenuesAre, NextLeads
<1>7. CASE k = 2
  <2>1. ~IsBuilt(s, PLAZA) => Deep(ActCommission(s, PLAZA), T) + 1 <= Deep(s, T)
    BY ActIsShallower
  <2>2. ~IsBuilt(s, PLAZA) /\ CanCommission(s, PLAZA) => Wanted(s, T) = PLAZA
    BY <1>2, <1>4, <1>7
  <2> QED BY <1>1, <1>3, <1>7, <2>1, <2>2, VenuesAre, NextLeads
<1>8. CASE k = 3
  <2>1. Wants(s, EarnLine) /\ d = << Call("hold") >> BY <1>1, <1>8, LinesWant DEF Save
  <2>2. Wanted(s, T) = HOLD BY <1>2, <1>4, <1>5, <1>8, <2>1
  <2> QED BY <2>1, <2>2 DEF Leads
<1>9. CASE k = 4
  <2>1. d = << Call("keep_the_sparks_working") >> BY <1>1, <1>9
  <2>2. ~Wants(s, EarnLine)
    <3>1. Dead(s, T, 3) BY <1>9
    <3> DEFINE e == << Call("hold") >>
    <3>2. e[1].name = "hold" BY DEF Call
    <3>3. Wants(s, EarnLine) => e \in M[3] BY <1>1, LinesWant DEF Save
    <3> QED BY <3>1, <3>2, <3>3 DEF Dead
  <2>3. Wanted(s, "keep_the_sparks_working") = Wanted(s, T) BY <1>2, <2>2, WantedIs
  <2>4. Deep(s, "keep_the_sparks_working") + 1 <= Deep(s, T) BY DeepIs, UnbuiltIs
  <2> QED BY <1>3, <2>1, <2>3, <2>4 DEF Leads
<1>10. k = 1 \/ k = 2 \/ k = 3 \/ k = 4 BY <1>1
<1> QED BY <1>6, <1>7, <1>8, <1>9, <1>10

\* keep_the_sparks_working.
LEMMA SparksLead ==
  ASSUME NEW s \in States, NEW k \in 1..Len(Methods(s, "keep_the_sparks_working")),
         NEW d \in Methods(s, "keep_the_sparks_working")[k],
         \A j \in 1..(k - 1) : Dead(s, "keep_the_sparks_working", j)
  PROVE  Leads(s, "keep_the_sparks_working", d)
<1> DEFINE T == "keep_the_sparks_working"
           M == Methods(s, T)
<1>1. /\ Len(M) = 5 /\ M[1] = NextOf(s, T, DEN) /\ M[2] = NextOf(s, T, TAVERN)
      /\ M[3] = NextOf(s, T, CHAPEL) /\ M[4] = Save(s, << TAVERN, DEN, CHAPEL >>)
      /\ M[5] = {<< Call("let_word_get_out") >>}
  <2> DEFINE m1 == NextOf(s, T, DEN)
             m2 == NextOf(s, T, TAVERN)
             m3 == NextOf(s, T, CHAPEL)
             m4 == Save(s, << TAVERN, DEN, CHAPEL >>)
             m5 == {<< Call("let_word_get_out") >>}
  <2>1. M = << m1, m2, m3, m4, m5 >> BY MethodsAre
  <2> HIDE DEF M, m1, m2, m3, m4, m5
  <2>2. Len(M) = 5 /\ M[1] = m1 /\ M[2] = m2 /\ M[3] = m3 /\ M[4] = m4 /\ M[5] = m5 BY <2>1
  <2> QED BY <2>2 DEF m1, m2, m3, m4, m5
<1>2. /\ Wanted(s, T) = IF Wants(s, SparkLine) THEN FromLine(s, SparkLine) ELSE WordWants(s)
      /\ Wants(s, SparkLine)
           <=> ~IsBuilt(s, DEN) \/ ~IsBuilt(s, TAVERN) \/ ~IsBuilt(s, CHAPEL)
      /\ FromLine(s, SparkLine) =
           IF CanCommission(s, DEN) THEN DEN
           ELSE IF CanCommission(s, TAVERN) THEN TAVERN
           ELSE IF CanCommission(s, CHAPEL) THEN CHAPEL ELSE HOLD
  BY WantedIs, LinesWant, SparkLineBuys DEF SparksWant
<1>3. T \in Tasks /\ "let_word_get_out" \in Tasks BY DEF Tasks
<1>4. k > 1 => ~CanCommission(s, DEN) BY <1>1, DeadNext
<1>5. k > 2 => ~CanCommission(s, TAVERN) BY <1>1, DeadNext
<1>6. k > 3 => ~CanCommission(s, CHAPEL) BY <1>1, DeadNext
<1>7. ASSUME NEW v \in {DEN, TAVERN, CHAPEL}, d \in NextOf(s, T, v),
             ~IsBuilt(s, v) /\ CanCommission(s, v) => Wanted(s, T) = v
      PROVE  Leads(s, T, d)
  <2>1. ~IsBuilt(s, v) => Deep(ActCommission(s, v), T) + 1 <= Deep(s, T) BY ActIsShallower
  <2>2. v \in Venue BY VenuesAre
  <2> QED BY <1>3, <1>7, <2>1, <2>2, NextLeads
<1>8. CASE k = 1
  <2>1. ~IsBuilt(s, DEN) /\ CanCommission(s, DEN) => Wanted(s, T) = DEN BY <1>2
  <2> QED BY <1>1, <1>7, <1>8, <2>1
<1>9. CASE k = 2
  <2>1. ~IsBuilt(s, TAVERN) /\ CanCommission(s, TAVERN) => Wanted(s, T) = TAVERN
    BY <1>2, <1>4, <1>9
  <2> QED BY <1>1, <1>7, <1>9, <2>1
<1>10. CASE k = 3
  <2>1. ~IsBuilt(s, CHAPEL) /\ CanCommission(s, CHAPEL) => Wanted(s, T) = CHAPEL
    BY <1>2, <1>4, <1>5, <1>10
  <2> QED BY <1>1, <1>7, <1>10, <2>1
<1>11. CASE k = 4
  <2>1. Wants(s, SparkLine) /\ d = << Call("hold") >> BY <1>1, <1>11, LinesWant DEF Save
  <2>2. Wanted(s, T) = HOLD BY <1>2, <1>4, <1>5, <1>6, <1>11, <2>1
  <2> QED BY <2>1, <2>2 DEF Leads
<1>12. CASE k = 5
  <2>1. d = << Call("let_word_get_out") >> BY <1>1, <1>12
  <2>2. ~Wants(s, SparkLine)
    <3>1. Dead(s, T, 4) BY <1>12
    <3> DEFINE e == << Call("hold") >>
    <3>2. e[1].name = "hold" BY DEF Call
    <3>3. Wants(s, SparkLine) => e \in M[4] BY <1>1, LinesWant DEF Save
    <3> QED BY <3>1, <3>2, <3>3 DEF Dead
  <2>3. Wanted(s, "let_word_get_out") = Wanted(s, T) BY <1>2, <2>2, WantedIs
  <2>4. Deep(s, "let_word_get_out") + 1 <= Deep(s, T) BY DeepIs, UnbuiltIs
  <2> QED BY <1>3, <2>1, <2>3, <2>4 DEF Leads
<1>13. k = 1 \/ k = 2 \/ k = 3 \/ k = 4 \/ k = 5 BY <1>1
<1> QED BY <1>8, <1>9, <1>10, <1>11, <1>12, <1>13

\* let_word_get_out: the Row, or nothing.
LEMMA WordLeads ==
  ASSUME NEW s \in States, NEW k \in 1..Len(Methods(s, "let_word_get_out")),
         NEW d \in Methods(s, "let_word_get_out")[k],
         \A j \in 1..(k - 1) : Dead(s, "let_word_get_out", j)
  PROVE  Leads(s, "let_word_get_out", d)
<1> DEFINE T == "let_word_get_out"
           M == Methods(s, T)
           e == << Commission(ROW) >>
<1>1. /\ Len(M) = 2 /\ (RowIsWorthIt(s) => M[1] = {e}) /\ (~RowIsWorthIt(s) => M[1] = {})
      /\ M[2] = {<< Call("hold") >>}
  <2> DEFINE m1 == IF RowIsWorthIt(s) THEN {e} ELSE {}
             m2 == {<< Call("hold") >>}
  <2>1. M = << m1, m2 >> BY MethodsAre
  <2>2. (RowIsWorthIt(s) => m1 = {e}) /\ (~RowIsWorthIt(s) => m1 = {}) OBVIOUS
  <2> HIDE DEF m1, M, e
  <2>3. Len(M) = 2 /\ M[1] = m1 /\ M[2] = m2 BY <2>1
  <2> QED BY <2>2, <2>3
<1>2. Wanted(s, T) = IF RowIsWorthIt(s) /\ CanCommission(s, ROW) THEN ROW ELSE HOLD
  BY WantedIs DEF WordWants
<1>3. CASE k = 1
  <2>1. RowIsWorthIt(s) /\ d = e BY <1>1, <1>3
  <2> QED BY <1>2, <2>1, VenuesAre DEF Leads
<1>4. CASE k = 2
  <2>1. d = << Call("hold") >> BY <1>1, <1>4
  <2>2. RowIsWorthIt(s) => ~CanCommission(s, ROW)
    <3>1. Dead(s, T, 1) BY <1>4
    <3>2. e[1].venue = ROW BY DEF Commission
    <3> QED BY <1>1, <3>1, <3>2 DEF Dead
  <2> QED BY <1>2, <2>1, <2>2 DEF Leads
<1>5. k = 1 \/ k = 2 BY <1>1
<1> QED BY <1>3, <1>4, <1>5

\* Whatever the task, the method that is reached leads where the task wants.
LEMMA MethodLeads ==
  ASSUME NEW s \in States, NEW task \in Tasks, NEW k \in 1..Len(Methods(s, task)),
         NEW d \in Methods(s, task)[k], \A j \in 1..(k - 1) : Dead(s, task, j)
  PROVE  Leads(s, task, d)
<1>1. \/ task = "run_the_ward" \/ task = "make_the_ward_earn"
      \/ task = "keep_the_sparks_working" \/ task = "let_word_get_out"
  BY DEF Tasks
<1> QED BY <1>1, RunLeads, EarnLeads, SparksLead, WordLeads

\* Every task has methods, and the last of them needs no scrip.
LEMMA MethodsEnd ==
  ASSUME NEW s, NEW task \in Tasks
  PROVE  /\ Len(Methods(s, task)) \in Nat \ {0}
         /\ ~Dead(s, task, Len(Methods(s, task)))
<1> DEFINE M == Methods(s, task)
<1> SUFFICES ASSUME TRUE
             PROVE  \E n \in Nat \ {0}, t \in Tasks \cup {"hold"} :
                      Len(M) = n /\ << Call(t) >> \in M[n]
  <2>1. \A t \in Tasks \cup {"hold"} : t # "commission" BY DEF Tasks
  <2>2. \A t : << Call(t) >>[1].name = t BY DEF Call
  <2> QED BY <2>1, <2>2 DEF Dead
<1>1. CASE task = "run_the_ward"
  <2>1. \E m1 : M = << m1, {<< Call("make_the_ward_earn") >>} >> BY <1>1, MethodsAre
  <2>2. Len(M) = 2 /\ << Call("make_the_ward_earn") >> \in M[2] BY <2>1
  <2>3. "make_the_ward_earn" \in Tasks BY DEF Tasks
  <2> QED BY <2>2, <2>3
<1>2. CASE task = "make_the_ward_earn"
  <2>1. \E m1, m2, m3 : M = << m1, m2, m3, {<< Call("keep_the_sparks_working") >>} >>
    BY <1>2, MethodsAre
  <2>2. Len(M) = 4 /\ << Call("keep_the_sparks_working") >> \in M[4] BY <2>1
  <2>3. "keep_the_sparks_working" \in Tasks BY DEF Tasks
  <2> QED BY <2>2, <2>3
<1>3. CASE task = "keep_the_sparks_working"
  <2>1. \E m1, m2, m3, m4 : M = << m1, m2, m3, m4, {<< Call("let_word_get_out") >>} >>
    BY <1>3, MethodsAre
  <2>2. Len(M) = 5 /\ << Call("let_word_get_out") >> \in M[5] BY <2>1
  <2>3. "let_word_get_out" \in Tasks BY DEF Tasks
  <2> QED BY <2>2, <2>3
<1>4. CASE task = "let_word_get_out"
  <2>1. \E m1 : M = << m1, {<< Call("hold") >>} >> BY <1>4, MethodsAre
  <2>2. Len(M) = 2 /\ << Call("hold") >> \in M[2] BY <2>1
  <2> QED BY <2>2
<1> QED BY <1>1, <1>2, <1>3, <1>4 DEF Tasks

\* A method yields one decomposition, or none.
LEMMA OneDecomposition ==
  ASSUME NEW s, NEW task \in Tasks, NEW k \in 1..Len(Methods(s, task)),
         NEW d \in Methods(s, task)[k], NEW e \in Methods(s, task)[k]
  PROVE  d = e
<1> DEFINE M == Methods(s, task)
           Single(m) == \A x \in m, y \in m : x = y
<1>1. /\ \A t, v : Single(NextOf(s, t, v)) /\ \A line : Single(Save(s, line))
  BY DEF NextOf, Save
<1>2. \A x : Single({x}) /\ Single({}) OBVIOUS
<1> SUFFICES Single(M[k]) BY Zenon
<1> HIDE DEF Single
<1>3. CASE task = "run_the_ward"
  <2>1. \E m1, x : M = << m1, {x} >> /\ Single(m1)
    BY <1>2, <1>3, MethodsAre
  <2>2. PICK m1, x : M = << m1, {x} >> /\ Single(m1) BY <2>1
  <2> HIDE DEF M
  <2>3. Len(M) = 2 /\ M[1] = m1 /\ M[2] = {x} BY <2>2
  <2>4. k = 1 \/ k = 2 BY <2>3 DEF M
  <2> QED BY <1>2, <2>2, <2>3, <2>4
<1>4. CASE task = "make_the_ward_earn"
  <2>1. \E m1, m2, m3, x : M = << m1, m2, m3, {x} >> /\ Single(m1) /\ Single(m2) /\ Single(m3)
    <3>1. M = << NextOf(s, task, RAILS), NextOf(s, task, PLAZA), Save(s, << RAILS, PLAZA >>),
                 {<< Call("keep_the_sparks_working") >>} >>
      BY <1>4, MethodsAre
    <3>2. /\ Single(NextOf(s, task, RAILS)) /\ Single(NextOf(s, task, PLAZA))
          /\ Single(Save(s, << RAILS, PLAZA >>))
      BY <1>1
    <3> HIDE DEF M
    <3> QED BY <3>1, <3>2, Zenon
  <2>2. PICK m1, m2, m3, x :
          M = << m1, m2, m3, {x} >> /\ Single(m1) /\ Single(m2) /\ Single(m3)
    BY <2>1
  <2> HIDE DEF M
  <2>3. Len(M) = 4 /\ M[1] = m1 /\ M[2] = m2 /\ M[3] = m3 /\ M[4] = {x} BY <2>2
  <2>4. k = 1 \/ k = 2 \/ k = 3 \/ k = 4 BY <2>3 DEF M
  <2> QED BY <1>2, <2>2, <2>3, <2>4
<1>5. CASE task = "keep_the_sparks_working"
  <2>1. \E m1, m2, m3, m4, x :
          /\ M = << m1, m2, m3, m4, {x} >>
          /\ Single(m1) /\ Single(m2) /\ Single(m3) /\ Single(m4)
    <3>1. M = << NextOf(s, task, DEN), NextOf(s, task, TAVERN), NextOf(s, task, CHAPEL),
                 Save(s, << TAVERN, DEN, CHAPEL >>), {<< Call("let_word_get_out") >>} >>
      BY <1>5, MethodsAre
    <3>2. /\ Single(NextOf(s, task, DEN)) /\ Single(NextOf(s, task, TAVERN))
          /\ Single(NextOf(s, task, CHAPEL)) /\ Single(Save(s, << TAVERN, DEN, CHAPEL >>))
      BY <1>1
    <3> HIDE DEF M
    <3> QED BY <3>1, <3>2, Zenon
  <2>2. PICK m1, m2, m3, m4, x :
          /\ M = << m1, m2, m3, m4, {x} >>
          /\ Single(m1) /\ Single(m2) /\ Single(m3) /\ Single(m4)
    BY <2>1
  <2> HIDE DEF M
  <2>3. Len(M) = 5 /\ M[1] = m1 /\ M[2] = m2 /\ M[3] = m3 /\ M[4] = m4 /\ M[5] = {x} BY <2>2
  <2>4. k = 1 \/ k = 2 \/ k = 3 \/ k = 4 \/ k = 5 BY <2>3 DEF M
  <2> QED BY <1>2, <2>2, <2>3, <2>4
<1>6. CASE task = "let_word_get_out"
  <2>1. \E m1, x : M = << m1, {x} >> /\ Single(m1)
    BY <1>2, <1>6, MethodsAre
  <2>2. PICK m1, x : M = << m1, {x} >> /\ Single(m1) BY <2>1
  <2> HIDE DEF M
  <2>3. Len(M) = 2 /\ M[1] = m1 /\ M[2] = {x} BY <2>2
  <2>4. k = 1 \/ k = 2 BY <2>3 DEF M
  <2> QED BY <1>2, <2>2, <2>3, <2>4
<1> QED BY <1>3, <1>4, <1>5, <1>6 DEF Tasks

-------------------------------------------------------------------------------
(* The stack.                                                               *)

\* A call is told from its fields.
LEMMA CallsDiffer ==
  /\ \A t, u : Call(t) = Call(u) => t = u
  /\ \A v, u : Commission(v) = Commission(u) => v = u
  /\ \A v : \A t \in Tasks \cup {"hold"} : Call(t) # Commission(v)
  /\ \A t : Call(t).name = t /\ Call(t).venue = HOLD
  /\ \A v : Commission(v).name = "commission" /\ Commission(v).venue = v
  /\ \A t \in Tasks : Call(t) # Call("hold")
<1>1. /\ \A t : Call(t).name = t /\ Call(t).venue = HOLD
      /\ \A v : Commission(v).name = "commission" /\ Commission(v).venue = v
  BY DEF Call, Commission
<1>2. \A t \in Tasks : t # "hold" /\ t # "commission" BY DEF Tasks
<1> QED BY <1>1, <1>2

\* What the head of its tasks says of a call.
LEMMA HeadIs ==
  ASSUME NEW f, FrameOK(f), f.tasks # << >>
  PROVE  /\ Head(f.tasks) = Call("hold") =>
              f.tasks = << Call("hold") >> /\ f.next = 0 /\ f.prefix = << >>
         /\ \A v \in Venue : Head(f.tasks) = Commission(v) =>
              /\ f.next = 0 /\ f.prefix = << >>
              /\ \/ f.tasks = << Commission(v) >>
                 \/ \E t \in Tasks : /\ f.tasks = << Commission(v), Call(t) >>
                                     /\ Deep(ActCommission(f.state, v), t) <= f.fuel
         /\ \A t \in Tasks : Head(f.tasks) = Call(t) =>
              /\ f.tasks = << Call(t) >> /\ Deep(f.state, t) <= f.fuel
              /\ f.prefix = << >> \/ \E v \in Venue : f.prefix = << v >>
<1>1. CASE f.tasks = << Call("hold") >> /\ f.next = 0 /\ f.prefix = << >>
  <2>1. Head(f.tasks) = Call("hold") BY <1>1
  <2> QED BY <1>1, <2>1, CallsDiffer
<1>2. CASE \E v \in Venue : f.tasks = << Commission(v) >> /\ f.next = 0 /\ f.prefix = << >>
  <2>1. PICK v \in Venue : f.tasks = << Commission(v) >> /\ f.next = 0 /\ f.prefix = << >>
    BY <1>2
  <2>2. Head(f.tasks) = Commission(v) BY <2>1
  <2> QED BY <2>1, <2>2, CallsDiffer
<1>3. CASE \E v \in Venue, t \in Tasks :
             /\ f.tasks = << Commission(v), Call(t) >> /\ f.next = 0 /\ f.prefix = << >>
             /\ Deep(ActCommission(f.state, v), t) <= f.fuel
  <2>1. PICK v \in Venue, t \in Tasks :
             /\ f.tasks = << Commission(v), Call(t) >> /\ f.next = 0 /\ f.prefix = << >>
             /\ Deep(ActCommission(f.state, v), t) <= f.fuel
    BY <1>3
  <2>2. Head(f.tasks) = Commission(v) BY <2>1
  <2> QED BY <2>1, <2>2, CallsDiffer
<1>4. CASE \E t \in Tasks :
             /\ f.tasks = << Call(t) >> /\ Deep(f.state, t) <= f.fuel
             /\ f.prefix = << >> \/ \E v \in Venue : f.prefix = << v >>
  <2>1. PICK t \in Tasks :
             /\ f.tasks = << Call(t) >> /\ Deep(f.state, t) <= f.fuel
             /\ f.prefix = << >> \/ \E v \in Venue : f.prefix = << v >>
    BY <1>4
  <2>2. Head(f.tasks) = Call(t) BY <2>1
  <2> QED BY <2>1, <2>2, CallsDiffer
<1> QED BY <1>1, <1>2, <1>3, <1>4 DEF FrameOK

\* A call that branches has its task and nothing else.
LEMMA CompoundIs ==
  ASSUME NEW f, Compound(f)
  PROVE  /\ TaskOf(f) \in Tasks /\ f.tasks = << Call(TaskOf(f)) >> /\ f.tasks # << >>
         /\ Head(f.tasks) = Call(TaskOf(f))
<1>1. PICK t \in Tasks : f.tasks = << Call(t) >> BY DEF Compound
<1>2. Head(f.tasks) = Call(t) BY <1>1
<1>3. TaskOf(f) = t BY <1>2, CallsDiffer DEF TaskOf
<1> QED BY <1>1, <1>2, <1>3

\* The innermost call has changed.
LEMMA BecomesIs ==
  ASSUME stack \in Seq(Frame), stack # << >>, NEW f \in Frame, Becomes(f)
  PROVE  /\ Len(stack) \in Nat \ {0} /\ stack' \in Seq(Frame) /\ Len(stack') = Len(stack)
         /\ \A k \in 1..(Len(stack) - 1) : stack'[k] = stack[k]
         /\ stack'[Len(stack)] = f /\ Top' = f /\ Top \in Frame
         /\ view' = view /\ pc' = pc /\ answer' = answer /\ venue' = venue
BY DEF Becomes, Top

\* It has returned.
LEMMA ReturnIs ==
  ASSUME stack \in Seq(Frame), stack # << >>, NEW a, Return(a)
  PROVE  /\ Len(stack) \in Nat \ {0} /\ stack' \in Seq(Frame) /\ Len(stack') = Len(stack) - 1
         /\ \A k \in 1..(Len(stack) - 1) : stack'[k] = stack[k]
         /\ Len(stack) > 1 => Top' = stack[Len(stack) - 1] /\ stack' # << >>
         /\ Len(stack) = 1 => stack' = << >>
         /\ pc' = "back" /\ answer' = a /\ view' = view /\ venue' = venue
<1> DEFINE n == Len(stack)
<1>1. n \in Nat \ {0} OBVIOUS
<1>2. stack' = SubSeq(stack, 1, n - 1) BY DEF Return, Callers
<1> HIDE DEF n
<1>3. stack' \in Seq(Frame) BY <1>1, <1>2 DEF n
<1>4. Len(stack') = n - 1 /\ \A k \in 1..(n - 1) : stack'[k] = stack[k]
  <2> DEFINE q == SubSeq(stack, 1, n - 1)
  <2>1. 1 \in 1..n /\ n - 1 \in 0..n /\ n = Len(stack) BY <1>1 DEF n
  <2>2. Len(q) = IF 1 <= n - 1 THEN n - 1 - 1 + 1 ELSE 0 BY <1>1, <2>1, SubSeqProperties
  <2>3. \A k \in 1..(n - 1) : q[k] = stack[k] BY <1>1 DEF n
  <2> QED BY <1>1, <1>2, <2>2, <2>3
<1>5. n = 1 => stack' = << >> BY <1>3, <1>4
<1>6. n > 1 => Top' = stack[n - 1] /\ stack' # << >>
  BY <1>1, <1>3, <1>4 DEF Top
<1> QED BY <1>1, <1>3, <1>4, <1>5, <1>6 DEF Return, n

\* It has called.
LEMMA PushIs ==
  ASSUME stack \in Seq(Frame), stack # << >>, NEW f \in Frame, NEW g \in Frame,
         stack' = Append([stack EXCEPT ![Len(stack)] = f], g)
  PROVE  /\ Len(stack) \in Nat \ {0} /\ stack' \in Seq(Frame) /\ Len(stack') = Len(stack) + 1
         /\ \A k \in 1..(Len(stack) - 1) : stack'[k] = stack[k]
         /\ stack'[Len(stack)] = f /\ stack'[Len(stack) + 1] = g /\ Top' = g
<1> DEFINE r == [stack EXCEPT ![Len(stack)] = f]
           n == Len(stack)
<1>1. n \in Nat \ {0} OBVIOUS
<1>2. /\ r \in Seq(Frame) /\ Len(r) = n /\ r[n] = f /\ \A k \in 1..(n - 1) : r[k] = stack[k]
  OBVIOUS
<1> HIDE DEF r, n
<1>3. stack' = Append(r, g) BY DEF r
<1>4. /\ stack' \in Seq(Frame) /\ Len(stack') = n + 1 /\ stack'[n + 1] = g
      /\ \A k \in 1..n : stack'[k] = r[k]
  BY <1>1, <1>2, <1>3
<1>5. Top' = g BY <1>4 DEF Top
<1> QED BY <1>1, <1>2, <1>4, <1>5 DEF n

-------------------------------------------------------------------------------
(* The search does not run out of methods or of fuel.                       *)

\* The walk or the loop over methods goes on in the same call.
LEMMA SearchBecomes ==
  ASSUME SearchInv, pc = "seek", NEW f \in Frame, Becomes(f), FrameOK(f),
         Len(stack) = 1 => Compound(f),
         Len(stack) > 1 => Called(stack[Len(stack) - 1], f),
         f.next # 0 => Tried(f, f.next - 1)
  PROVE  SearchInv'
<1> DEFINE n == Len(stack)
<1>1. stack \in Seq(Frame) /\ stack # << >> BY DEF SearchInv
<1>2. /\ n \in Nat \ {0} /\ stack' \in Seq(Frame) /\ Len(stack') = n
      /\ \A k \in 1..(n - 1) : stack'[k] = stack[k]
      /\ stack'[n] = f /\ Top' = f
      /\ view' = view /\ pc' = pc /\ answer' = answer
  BY <1>1, BecomesIs
<1>3. stack' # << >> BY <1>2
<1>4. \A k \in 1..n : FrameOK(stack'[k])
  <2> SUFFICES ASSUME NEW k \in 1..n PROVE FrameOK(stack'[k]) OBVIOUS
  <2>1. FrameOK(stack[k]) BY DEF SearchInv
  <2>2. CASE k = n BY <1>2, <2>2
  <2>3. CASE k # n
    <3>1. k \in 1..(n - 1) BY <1>2, <2>3
    <3> QED BY <1>2, <2>1, <3>1
  <2> QED BY <2>2, <2>3
<1>5. Compound(stack'[1])
  <2>1. CASE n = 1 BY <1>2, <2>1
  <2>2. CASE n > 1 BY <1>1, <1>2, <2>2 DEF SearchInv
  <2> HIDE DEF n
  <2>3. n = 1 \/ n > 1 BY <1>2
  <2> QED BY <2>1, <2>2, <2>3
<1>6. \A k \in 1..(n - 1) : Waiting(stack'[k]) /\ Called(stack'[k], stack'[k + 1])
  <2> SUFFICES ASSUME NEW k \in 1..(n - 1)
               PROVE  Waiting(stack'[k]) /\ Called(stack'[k], stack'[k + 1])
    OBVIOUS
  <2>1. Waiting(stack[k]) /\ Called(stack[k], stack[k + 1]) BY DEF SearchInv
  <2>2. CASE k < n - 1 BY <1>2, <2>1, <2>2
  <2>3. CASE k = n - 1
    <3>1. n > 1 /\ stack'[k + 1] = f BY <1>2, <2>3
    <3> QED BY <1>2, <2>1, <2>3, <3>1
  <2> QED BY <1>2, <2>2, <2>3
<1> HIDE DEF n
<1> QED BY <1>2, <1>3, <1>4, <1>5, <1>6 DEF SearchInv

\* A call returns a plan.
LEMMA SearchReturns ==
  ASSUME SearchInv, stack # << >>, NEW c \in Seq(Int), Return(Plan(c))
  PROVE  SearchInv'
<1> DEFINE n == Len(stack)
<1>1. stack \in Seq(Frame) BY DEF SearchInv
<1>2. /\ n \in Nat \ {0} /\ stack' \in Seq(Frame) /\ Len(stack') = n - 1
      /\ \A k \in 1..(n - 1) : stack'[k] = stack[k]
      /\ n > 1 => Top' = stack[n - 1] /\ stack' # << >>
      /\ n = 1 => stack' = << >>
      /\ pc' = "back" /\ answer' = Plan(c) /\ view' = view
  BY <1>1, ReturnIs
<1>3. answer' \in [ok: BOOLEAN, calls: Seq(Int)] /\ answer'.ok BY <1>2 DEF Plan
<1>4. \A k \in 1..(n - 1) : FrameOK(stack'[k]) BY <1>2 DEF SearchInv
<1>5. n > 1 => Compound(stack'[1]) BY <1>2 DEF SearchInv
<1>6. \A k \in 1..(n - 1 - 1) : Waiting(stack'[k]) /\ Called(stack'[k], stack'[k + 1])
  <2> SUFFICES ASSUME NEW k \in 1..(n - 1 - 1)
               PROVE  Waiting(stack'[k]) /\ Called(stack'[k], stack'[k + 1])
    OBVIOUS
  <2>1. k \in 1..(n - 1) /\ k + 1 \in 1..(n - 1) BY <1>2
  <2>2. Waiting(stack[k]) /\ Called(stack[k], stack[k + 1]) BY <2>1 DEF SearchInv
  <2> QED BY <1>2, <2>1, <2>2
<1>7. n > 1 => Waiting(stack[n - 1]) BY <1>2, SMTT(30) DEF SearchInv
<1>8. stack' # << >> => n > 1 BY <1>2
<1> HIDE DEF n
<1> QED BY <1>2, <1>3, <1>4, <1>5, <1>6, <1>7, <1>8 DEF SearchInv

\* A call returns without a plan, and its caller knows that the method led nowhere.
LEMMA SearchFails ==
  ASSUME SearchInv, stack # << >>, Return(NoPlan), Len(stack) > 1,
         LET f == stack[Len(stack) - 1] IN Tried(f, f.next - 1)
  PROVE  SearchInv'
<1> DEFINE n == Len(stack)
           f == stack[n - 1]
<1>1. stack \in Seq(Frame) BY DEF SearchInv
<1>2. /\ n \in Nat \ {0} /\ stack' \in Seq(Frame) /\ Len(stack') = n - 1
      /\ \A k \in 1..(n - 1) : stack'[k] = stack[k]
      /\ n > 1 => Top' = stack[n - 1] /\ stack' # << >>
      /\ pc' = "back" /\ answer' = NoPlan /\ view' = view
  BY <1>1, ReturnIs
<1>3. answer' \in [ok: BOOLEAN, calls: Seq(Int)] BY <1>2 DEF NoPlan
<1>4. \A k \in 1..(n - 1) : FrameOK(stack'[k]) BY <1>2 DEF SearchInv
<1>5. Compound(stack'[1]) BY <1>2 DEF SearchInv
<1>6. \A k \in 1..(n - 1 - 1) : Waiting(stack'[k]) /\ Called(stack'[k], stack'[k + 1])
  <2> SUFFICES ASSUME NEW k \in 1..(n - 1 - 1)
               PROVE  Waiting(stack'[k]) /\ Called(stack'[k], stack'[k + 1])
    OBVIOUS
  <2>1. k \in 1..(n - 1) /\ k + 1 \in 1..(n - 1) BY <1>2
  <2>2. Waiting(stack[k]) /\ Called(stack[k], stack[k + 1]) BY <2>1 DEF SearchInv
  <2> QED BY <1>2, <2>1, <2>2
<1>7. Waiting(f) BY <1>2 DEF SearchInv
<1>8. Top' = f /\ stack' # << >> /\ Tried(f, f.next - 1) BY <1>2
<1> HIDE DEF n, f
<1> QED BY <1>2, <1>3, <1>4, <1>5, <1>6, <1>7, <1>8 DEF SearchInv

\* A call makes another with a method's decomposition.
LEMMA SearchPushes ==
  ASSUME SearchInv, pc = "seek", NEW f \in Frame, NEW g \in Frame,
         stack' = Append([stack EXCEPT ![Len(stack)] = f], g),
         UNCHANGED << view, pc, answer, venue >>,
         FrameOK(f), FrameOK(g), Compound(f), Waiting(f), Called(f, g), g.next = 0,
         Len(stack) > 1 => Called(stack[Len(stack) - 1], f)
  PROVE  SearchInv'
<1> DEFINE n == Len(stack)
<1>1. stack \in Seq(Frame) /\ stack # << >> BY DEF SearchInv
<1>2. /\ n \in Nat \ {0} /\ stack' \in Seq(Frame) /\ Len(stack') = n + 1
      /\ \A k \in 1..(n - 1) : stack'[k] = stack[k]
      /\ stack'[n] = f /\ stack'[n + 1] = g /\ Top' = g
  BY <1>1, PushIs
<1>3. stack' # << >> /\ view' = view /\ pc' = pc /\ answer' = answer BY <1>2
<1>4. \A k \in 1..(n + 1) : FrameOK(stack'[k])
  <2> SUFFICES ASSUME NEW k \in 1..(n + 1) PROVE FrameOK(stack'[k]) OBVIOUS
  <2>1. CASE k < n BY <1>2, <2>1 DEF SearchInv
  <2>2. CASE k = n \/ k = n + 1 BY <1>2, <2>2
  <2> HIDE DEF n
  <2>3. k < n \/ k = n \/ k = n + 1 BY <1>2
  <2> QED BY <2>1, <2>2, <2>3
<1>5. Compound(stack'[1])
  <2>1. CASE n = 1 BY <1>2, <2>1
  <2>2. CASE n > 1 BY <1>1, <1>2, <2>2 DEF SearchInv
  <2> HIDE DEF n
  <2>3. n = 1 \/ n > 1 BY <1>2
  <2> QED BY <2>1, <2>2, <2>3
<1>6. \A k \in 1..(n + 1 - 1) : Waiting(stack'[k]) /\ Called(stack'[k], stack'[k + 1])
  <2> SUFFICES ASSUME NEW k \in 1..n
               PROVE  Waiting(stack'[k]) /\ Called(stack'[k], stack'[k + 1])
    BY <1>2
  <2>1. k < n => Waiting(stack[k]) /\ Called(stack[k], stack[k + 1]) BY <1>2 DEF SearchInv
  <2>2. CASE k < n - 1 BY <1>2, <2>1, <2>2
  <2>3. CASE k = n - 1
    <3>1. n > 1 /\ stack'[k + 1] = f BY <1>2, <2>3
    <3> QED BY <1>2, <2>1, <2>3, <3>1
  <2>4. CASE k = n BY <1>2, <2>4
  <2> QED BY <1>2, <2>2, <2>3, <2>4
<1> HIDE DEF n
<1> QED BY <1>2, <1>3, <1>4, <1>5, <1>6, SMTT(30) DEF SearchInv

\* The innermost call is a call, and its head says what it is.
LEMMA TopIs ==
  ASSUME SearchInv, stack # << >>
  PROVE  /\ Len(stack) \in Nat \ {0} /\ Len(stack) \in 1..Len(stack)
         /\ Top \in Frame /\ FrameOK(Top) /\ Top = stack[Len(stack)]
         /\ Len(stack) = 1 => Compound(Top)
         /\ Len(stack) > 1 => /\ Waiting(stack[Len(stack) - 1])
                              /\ Called(stack[Len(stack) - 1], Top)
                              /\ stack[Len(stack) - 1] \in Frame
<1> DEFINE n == Len(stack)
<1>1. stack \in Seq(Frame) BY DEF SearchInv
<1>2. n \in Nat \ {0} /\ n \in 1..n BY <1>1
<1>3. Top = stack[n] /\ Top \in Frame BY <1>1, <1>2 DEF Top
<1>4. FrameOK(Top) BY <1>2, <1>3 DEF SearchInv
<1>5. n = 1 => Compound(Top) BY <1>3 DEF SearchInv
<1>6. n > 1 => Waiting(stack[n - 1]) /\ Called(stack[n - 1], Top) /\ stack[n - 1] \in Frame
  <2> SUFFICES ASSUME n > 1 PROVE Waiting(stack[n - 1]) /\ Called(stack[n - 1], Top)
                                  /\ stack[n - 1] \in Frame
    OBVIOUS
  <2>1. n - 1 \in 1..(n - 1) /\ (n - 1) + 1 = n /\ n - 1 \in 1..n BY <1>2
  <2>2. Waiting(stack[n - 1]) /\ Called(stack[n - 1], stack[(n - 1) + 1]) BY <2>1 DEF SearchInv
  <2>3. stack[n - 1] \in Frame BY <1>1, <2>1
  <2> QED BY <1>3, <2>1, <2>2, <2>3
<1> QED BY <1>2, <1>3, <1>4, <1>5, <1>6

\* A call that is not the first one's task: it has a caller.
LEMMA NotCompound ==
  ASSUME SearchInv, stack # << >>, ~Compound(Top)
  PROVE  Len(stack) > 1
<1> DEFINE n == Len(stack)
<1>1. n \in Nat \ {0} /\ n # 1 BY TopIs
<1> HIDE DEF n
<1>2. n > 1 BY <1>1
<1> QED BY <1>2 DEF n

\* Where the walk is through, the call has acted.
LEMMA EndedIs ==
  ASSUME NEW f, FrameOK(f), f.tasks = << >>
  PROVE  \E v \in Venue \cup {HOLD} : f.prefix = << v >>
<1>1. \A x : << x >> # << >> OBVIOUS
<1>2. \A x, y : << x, y >> # << >> OBVIOUS
<1> QED BY <1>1, <1>2 DEF FrameOK

\* The record of a call that went on with its walk.
LEMMA WalkedIs ==
  ASSUME NEW f \in Frame, NEW s \in States, f.tasks # << >>
  PROVE  LET g == [f EXCEPT !.state = s, !.tasks = Tail(@), !.prefix = Append(@, Head(f.tasks).venue)]
         IN  /\ g \in Frame /\ g.state = s /\ g.tasks = Tail(f.tasks) /\ g.fuel = f.fuel
             /\ g.prefix = Append(f.prefix, Head(f.tasks).venue) /\ g.next = f.next
<1> DEFINE t == Tail(f.tasks)
           p == Append(f.prefix, Head(f.tasks).venue)
<1>1. f.tasks \in Seq(TaskCall) /\ f.prefix \in Seq(Int) BY DEF Frame
<1>2. t \in Seq(TaskCall) BY <1>1
<1>3. Head(f.tasks) \in TaskCall BY <1>1
<1>4. Head(f.tasks).venue \in Int BY <1>3 DEF TaskCall
<1>5. p \in Seq(Int) BY <1>1, <1>4
<1> HIDE DEF t, p
<1> DEFINE g == [f EXCEPT !.state = s, !.tasks = t, !.prefix = p]
<1>6. g \in Frame /\ g.state = s /\ g.tasks = t /\ g.prefix = p /\ g.fuel = f.fuel /\ g.next = f.next
  BY <1>2, <1>5 DEF Frame
<1>7. [f EXCEPT !.state = s, !.tasks = Tail(@), !.prefix = Append(@, Head(f.tasks).venue)] = g
  BY DEF Frame, t, p
<1> QED BY <1>6, <1>7 DEF t, p

\* The walk is through.
LEMMA SearchWalkEnds == SearchInv /\ WalkEnds => SearchInv'
<1> SUFFICES ASSUME SearchInv, WalkEnds PROVE SearchInv' OBVIOUS
<1>1. stack # << >> /\ Return(Plan(Top.prefix)) BY DEF WalkEnds, SearchInv
<1>2. Top.prefix \in Seq(Int) BY <1>1, TopIs DEF Frame
<1> QED BY <1>1, <1>2, SearchReturns

\* hold is done.
LEMMA SearchWalkHold == SearchInv /\ WalkHold => SearchInv'
<1> SUFFICES ASSUME SearchInv, WalkHold PROVE SearchInv' OBVIOUS
<1> DEFINE f == Top
           g == [f EXCEPT !.state = f.state, !.tasks = Tail(@),
                          !.prefix = Append(@, Head(f.tasks).venue)]
<1>1. /\ pc = "seek" /\ stack # << >> /\ f.tasks # << >> /\ Head(f.tasks) = Call("hold")
      /\ f.next = 0 /\ Becomes(g)
  BY DEF WalkHold, Walking, Walked, SearchInv
<1>2. f \in Frame /\ FrameOK(f) BY <1>1, TopIs
<1> HIDE DEF f
<1>3. f.tasks = << Call("hold") >> /\ f.prefix = << >> BY <1>1, <1>2, HeadIs
<1>4. f.state \in States BY <1>2 DEF Frame
<1>5. /\ g \in Frame /\ g.tasks = Tail(f.tasks) /\ g.next = f.next
      /\ g.prefix = Append(f.prefix, Head(f.tasks).venue)
  BY <1>1, <1>2, <1>4, WalkedIs
<1> HIDE DEF g
<1>6. g.tasks = << >> /\ g.next = 0 /\ g.prefix = << HOLD >>
  BY <1>1, <1>3, <1>5, CallsDiffer
<1>7. FrameOK(g) BY <1>6 DEF FrameOK
<1>8. ~Compound(f)
  <2>1. Compound(f) => Head(f.tasks) = Call(TaskOf(f)) /\ TaskOf(f) \in Tasks BY CompoundIs
  <2> QED BY <1>1, <2>1, CallsDiffer
<1>9. Len(stack) > 1 BY <1>1, <1>8, NotCompound DEF f
<1>10. Called(stack[Len(stack) - 1], g)
  <2>1. g.prefix # << >> BY <1>6
  <2> QED BY <2>1 DEF Called
<1>11. Len(stack) # 1 BY <1>1, <1>9, TopIs
<1> QED BY <1>1, <1>5, <1>6, <1>7, <1>10, <1>11, SearchBecomes

\* A commission is made, or its precondition fails and the method is dead.
LEMMA SearchWalkCommission == SearchInv /\ WalkCommission => SearchInv'
<1> SUFFICES ASSUME SearchInv, WalkCommission PROVE SearchInv' OBVIOUS
<1> DEFINE f == Top
           n == Len(stack)
           h == stack[n - 1]
<1>1. PICK v \in Venue :
        /\ Walking(Commission(v))
        /\ IF CanCommission(Top.state, v) THEN Walked(ActCommission(Top.state, v))
           ELSE Return(NoPlan)
  BY DEF WalkCommission
<1>2. /\ pc = "seek" /\ stack # << >> /\ f.tasks # << >> /\ Head(f.tasks) = Commission(v)
  BY <1>1 DEF Walking, SearchInv
<1>3. f \in Frame /\ FrameOK(f) /\ n \in Nat \ {0} BY <1>2, TopIs
<1>4. /\ f.next = 0 /\ f.prefix = << >>
      /\ \/ f.tasks = << Commission(v) >>
         \/ \E t \in Tasks : /\ f.tasks = << Commission(v), Call(t) >>
                             /\ Deep(ActCommission(f.state, v), t) <= f.fuel
  <2> HIDE DEF f
  <2> QED BY <1>2, <1>3, HeadIs
<1>5. ~Compound(f)
  <2> HIDE DEF f
  <2>1. Compound(f) => Head(f.tasks) = Call(TaskOf(f)) /\ TaskOf(f) \in Tasks BY CompoundIs
  <2> QED BY <1>2, <2>1, CallsDiffer
<1>6. n > 1 BY <1>2, <1>5, NotCompound
<1>7. Waiting(h) /\ Called(h, f) /\ h \in Frame BY <1>2, <1>6, TopIs
<1>8. CASE CanCommission(f.state, v)
  <2> DEFINE s == ActCommission(f.state, v)
             g == [f EXCEPT !.state = s, !.tasks = Tail(@),
                            !.prefix = Append(@, Head(f.tasks).venue)]
  <2>1. Becomes(g) BY <1>1, <1>8 DEF Walked
  <2> HIDE DEF f, h
  <2>2. f.state \in States BY <1>3 DEF Frame
  <2>3. s \in States BY <2>2, ActBuilds
  <2> HIDE DEF s
  <2>4. /\ g \in Frame /\ g.tasks = Tail(f.tasks) /\ g.next = f.next /\ g.fuel = f.fuel
        /\ g.state = s /\ g.prefix = Append(f.prefix, Head(f.tasks).venue)
    BY <1>2, <1>3, <2>3, WalkedIs
  <2> HIDE DEF g
  <2>5. g.next = 0 /\ g.prefix = << v >> BY <1>2, <1>4, <2>4, CallsDiffer
  <2>6. FrameOK(g)
    <3>1. CASE f.tasks = << Commission(v) >>
      <4>1. g.tasks = << >> BY <2>4, <3>1
      <4> QED BY <2>5, <4>1 DEF FrameOK
    <3>2. CASE \E t \in Tasks : /\ f.tasks = << Commission(v), Call(t) >>
                                /\ Deep(ActCommission(f.state, v), t) <= f.fuel
      <4>1. PICK t \in Tasks : /\ f.tasks = << Commission(v), Call(t) >>
                               /\ Deep(ActCommission(f.state, v), t) <= f.fuel
        BY <3>2
      <4>2. g.tasks = << Call(t) >> BY <2>4, <4>1
      <4>3. Deep(g.state, t) <= g.fuel BY <2>4, <4>1 DEF s
      <4> QED BY <2>5, <4>2, <4>3 DEF FrameOK
    <3> QED BY <1>4, <3>1, <3>2
  <2>7. Called(h, g)
    <3>1. g.prefix # << >> BY <2>5
    <3> QED BY <3>1 DEF Called
  <2>8. n # 1
    <3> HIDE DEF n
    <3> QED BY <1>3, <1>6
  <2> QED BY <1>2, <2>1, <2>4, <2>5, <2>6, <2>7, <2>8, SearchBecomes DEF h
<1>9. CASE ~CanCommission(f.state, v)
  <2>1. Return(NoPlan) BY <1>1, <1>9
  <2> DEFINE T == TaskOf(h)
             j == h.next - 1
  <2> HIDE DEF f, h
  <2>2. f.state = h.state /\ f.tasks \in Methods(h.state, T)[j] BY <1>4, <1>7 DEF Called
  <2>3. T \in Tasks BY <1>7, CompoundIs DEF Waiting
  <2>4. j \in 1..Len(Methods(h.state, T)) /\ Tried(h, j - 1)
    <3>1. h.next \in Nat /\ h.next - 2 = j - 1 BY <1>7 DEF Frame
    <3> QED BY <1>7, <3>1 DEF Waiting
  <2>5. f.tasks[1] = Commission(v) BY <1>4
  <2>6. Dead(h.state, T, j)
    <3> HIDE DEF T, j
    <3> SUFFICES ASSUME NEW d \in Methods(h.state, T)[j]
                 PROVE  d[1].name = "commission" /\ ~CanCommission(h.state, d[1].venue)
      BY DEF Dead
    <3>1. d = f.tasks BY <2>2, <2>3, <2>4, OneDecomposition
    <3> QED BY <1>9, <2>2, <2>5, <3>1, CallsDiffer
  <2>7. Tried(h, j)
    <3>1. j \in Nat BY <2>4, MethodsEnd, <2>3
    <3> HIDE DEF j
    <3>2. \A i \in 1..j : i \in 1..(j - 1) \/ i = j BY <3>1
    <3> QED BY <2>4, <2>6, <3>2 DEF Tried
  <2> QED BY <1>2, <1>6, <2>1, <2>7, SearchFails DEF h
<1> QED BY <1>8, <1>9

\* The bound is positive.
LEMMA DeepIsPositive ==
  ASSUME NEW s, NEW t \in Tasks
  PROVE  Deep(s, t) \in Nat \ {0} /\ Deep(s, t) <= 9
<1> DEFINE U(x) == Unbuilt(s, x)
<1>1. \A x : U(x) \in {0, 1} BY UnbuiltIs
<1>2. /\ Deep(s, "run_the_ward") = 4 + (U(DEN) + U(TAVERN) + U(CHAPEL)) + (U(RAILS) + U(PLAZA))
      /\ Deep(s, "make_the_ward_earn") =
           3 + (U(DEN) + U(TAVERN) + U(CHAPEL)) + (U(RAILS) + U(PLAZA))
      /\ Deep(s, "keep_the_sparks_working") = 2 + (U(DEN) + U(TAVERN) + U(CHAPEL))
      /\ Deep(s, "let_word_get_out") = 1
  BY DeepIs
<1> HIDE DEF U
<1>3. t \in {"run_the_ward", "make_the_ward_earn", "keep_the_sparks_working", "let_word_get_out"}
  BY DEF Tasks
<1> QED BY <1>1, <1>2, <1>3

\* There is fuel for the task, and the loop over its methods begins.
LEMMA SearchBranch == SearchInv /\ Branch => SearchInv'
<1> SUFFICES ASSUME SearchInv, Branch PROVE SearchInv' OBVIOUS
<1> DEFINE f == Top
           g == [f EXCEPT !.next = 1]
<1>1. PICK t \in Tasks :
        /\ Walking(Call(t))
        /\ IF Top.fuel = 0 THEN Return(NoPlan) ELSE Becomes([Top EXCEPT !.next = 1])
  BY DEF Branch
<1>2. /\ pc = "seek" /\ stack # << >> /\ f.tasks # << >> /\ Head(f.tasks) = Call(t)
  BY <1>1 DEF Walking, SearchInv
<1>3. /\ f \in Frame /\ FrameOK(f)
      /\ Len(stack) > 1 => Called(stack[Len(stack) - 1], f)
  BY <1>2, TopIs
<1>4. (f.fuel # 0 => Becomes(g)) BY <1>1
<1> HIDE DEF f
<1>5. /\ f.tasks = << Call(t) >> /\ Deep(f.state, t) <= f.fuel
      /\ f.prefix = << >> \/ \E v \in Venue : f.prefix = << v >>
  BY <1>2, <1>3, HeadIs
<1>6. f.fuel # 0
  <2>1. f.fuel \in Nat BY <1>3 DEF Frame
  <2>2. Deep(f.state, t) \in Nat \ {0} BY DeepIsPositive
  <2> QED BY <1>5, <2>1, <2>2
<1>7. /\ g \in Frame /\ g.tasks = f.tasks /\ g.prefix = f.prefix /\ g.state = f.state
      /\ g.fuel = f.fuel /\ g.next = 1
  BY <1>3 DEF Frame
<1> HIDE DEF g
<1>8. FrameOK(g) BY <1>5, <1>7 DEF FrameOK
<1>9. Compound(g) BY <1>5, <1>7 DEF Compound
<1>10. Len(stack) > 1 => Called(stack[Len(stack) - 1], g) BY <1>3, <1>7 DEF Called
<1>11. Tried(g, g.next - 1) BY <1>7 DEF Tried
<1> QED BY <1>2, <1>4, <1>6, <1>7, <1>8, <1>9, <1>10, <1>11, SearchBecomes

\* A call that counts its methods branches on its task.
LEMMA BranchesOn ==
  ASSUME NEW f, FrameOK(f), f.next # 0
  PROVE  Compound(f)
BY DEF FrameOK, Compound

\* The record of a call that counts on.
LEMMA TriedNextIs ==
  ASSUME NEW f \in Frame
  PROVE  LET g == [f EXCEPT !.next = @ + 1]
         IN  /\ g \in Frame /\ g.tasks = f.tasks /\ g.prefix = f.prefix /\ g.state = f.state
             /\ g.fuel = f.fuel /\ g.next = f.next + 1
BY DEF Frame

\* The call for a decomposition is in order, with the fuel its caller had to spare.
LEMMA EnterIs ==
  ASSUME NEW f \in Frame, FrameOK(f), Compound(f), NEW d, Leads(f.state, TaskOf(f), d)
  PROVE  LET g == Enter(f.state, d \o Tail(f.tasks), f.fuel - 1)
         IN  /\ g \in Frame /\ g.state = f.state /\ g.tasks = d /\ g.prefix = << >>
             /\ g.next = 0 /\ FrameOK(g)
<1> DEFINE t == TaskOf(f)
           s == f.state
<1>1. t \in Tasks /\ f.tasks = << Call(t) >> /\ f.tasks # << >> /\ Head(f.tasks) = Call(t)
  BY CompoundIs
<1>2. Deep(s, t) <= f.fuel BY <1>1, HeadIs
<1>3. f.fuel \in Nat /\ s \in States BY DEF Frame
<1>4. Deep(s, t) \in Nat \ {0} BY <1>1, DeepIsPositive
<1>5. f.fuel - 1 \in Nat BY <1>2, <1>3, <1>4
<1>6. /\ Call("hold") \in TaskCall
      /\ \A v \in Venue : Commission(v) \in TaskCall
      /\ \A u \in Tasks : Call(u) \in TaskCall
  BY VenuesAre DEF TaskCall, Call, Commission
<1>7. d \in Seq(TaskCall)
  <2>1. CASE d = << Call("hold") >> BY <1>6, <2>1
  <2>2. CASE \E v \in Venue, u \in Tasks : d = << Commission(v), Call(u) >> BY <1>6, <2>2
  <2>3. CASE \E v \in Venue : d = << Commission(v) >> BY <1>6, <2>3
  <2>4. CASE \E u \in Tasks : d = << Call(u) >> BY <1>6, <2>4
  <2> QED BY <2>1, <2>2, <2>3, <2>4 DEF Leads
<1>8. Tail(f.tasks) = << >> BY <1>1
<1>9. d \o Tail(f.tasks) = d BY <1>7, <1>8, ConcatEmptySeq
<1> DEFINE g == Enter(s, d, f.fuel - 1)
<1>10. /\ g \in Frame /\ g.state = s /\ g.tasks = d /\ g.prefix = << >> /\ g.next = 0
       /\ g.fuel = f.fuel - 1
  <2>1. << >> \in Seq(Int) /\ 0 \in Nat OBVIOUS
  <2> QED BY <1>3, <1>5, <1>7, <2>1 DEF Enter, Frame
<1> HIDE DEF g, t, s
<1>11. FrameOK(g)
  <2>1. CASE d = << Call("hold") >> BY <1>10, <2>1 DEF FrameOK
  <2>2. CASE \E v \in Venue, u \in Tasks :
               d = << Commission(v), Call(u) >> /\ Deep(ActCommission(s, v), u) + 1 <= Deep(s, t)
    <3>1. PICK v \in Venue, u \in Tasks :
               d = << Commission(v), Call(u) >> /\ Deep(ActCommission(s, v), u) + 1 <= Deep(s, t)
      BY <2>2
    <3>2. Deep(ActCommission(s, v), u) \in Nat BY DeepIsPositive
    <3>3. Deep(ActCommission(s, v), u) <= g.fuel BY <1>2, <1>3, <1>4, <1>10, <3>1, <3>2 DEF s
    <3> QED BY <1>10, <3>1, <3>3 DEF FrameOK
  <2>3. CASE \E v \in Venue : d = << Commission(v) >> BY <1>10, <2>3 DEF FrameOK
  <2>4. CASE \E u \in Tasks : d = << Call(u) >> /\ Deep(s, u) + 1 <= Deep(s, t)
    <3>1. PICK u \in Tasks : d = << Call(u) >> /\ Deep(s, u) + 1 <= Deep(s, t) BY <2>4
    <3>2. Deep(s, u) \in Nat BY DeepIsPositive
    <3>3. Deep(s, u) <= g.fuel BY <1>2, <1>3, <1>4, <1>10, <3>1, <3>2
    <3> QED BY <1>10, <3>1, <3>3 DEF FrameOK
  <2> QED BY <2>1, <2>2, <2>3, <2>4 DEF Leads, s, t
<1> QED BY <1>9, <1>10, <1>11 DEF g, s

\* A method is left; the one tried leads nowhere or is searched by a call of its own.
LEMMA SearchTryMethod == SearchInv /\ TryMethod => SearchInv'
<1> SUFFICES ASSUME SearchInv, TryMethod PROVE SearchInv' OBVIOUS
<1> DEFINE f == Top
           n == Len(stack)
           t == TaskOf(f)
           s == f.state
           M == Methods(s, t)
           j == f.next
           g == [f EXCEPT !.next = @ + 1]
<1>1. pc = "seek" /\ j # 0 /\ stack # << >> BY DEF TryMethod, SearchInv
<1>2. IF j > Len(M) THEN Return(NoPlan)
      ELSE IF M[j] = {} THEN Becomes(g)
      ELSE \E d \in M[j] :
             /\ stack' = Append([stack EXCEPT ![n] = g],
                                Enter(s, d \o Tail(f.tasks), f.fuel - 1))
             /\ UNCHANGED << view, pc, answer, venue >>
  BY DEF TryMethod, TaskOf
<1>3. /\ f \in Frame /\ FrameOK(f) /\ Tried(f, j - 1)
      /\ n > 1 => Called(stack[n - 1], f)
  <2>1. Tried(f, j - 1) BY <1>1 DEF SearchInv
  <2> QED BY <1>1, <2>1, TopIs
<1> HIDE DEF f
<1>4. Compound(f) BY <1>1, <1>3, BranchesOn
<1>5. t \in Tasks /\ f.tasks = << Call(t) >> BY <1>4, CompoundIs
<1>6. j \in Nat /\ s \in States BY <1>3 DEF Frame
<1>7. Len(M) \in Nat \ {0} /\ ~Dead(s, t, Len(M)) BY <1>5, MethodsEnd
<1> HIDE DEF j
<1>8. j \in 1..Len(M)
  <2>1. \A i \in 1..(j - 1) : Dead(s, t, i) BY <1>3 DEF Tried
  <2>2. ~(Len(M) \in 1..(j - 1)) BY <1>7, <2>1
  <2> HIDE DEF M
  <2> QED BY <1>1, <1>6, <1>7, <2>2
<1>9. /\ g \in Frame /\ g.tasks = f.tasks /\ g.prefix = f.prefix /\ g.state = f.state
      /\ g.fuel = f.fuel /\ g.next = j + 1
  BY <1>3, TriedNextIs DEF j
<1>10. ~(j > Len(M)) BY <1>7, <1>8
<1> HIDE DEF g
<1>11. FrameOK(g) /\ Compound(g)
  <2>1. Deep(f.state, t) <= f.fuel /\ (f.prefix = << >> \/ \E v \in Venue : f.prefix = << v >>)
    <3>1. f.tasks # << >> /\ Head(f.tasks) = Call(t) BY <1>4, CompoundIs
    <3> QED BY <1>3, <1>5, <3>1, HeadIs
  <2> HIDE DEF t
  <2> QED BY <1>5, <1>9, <2>1 DEF FrameOK, Compound
<1>12. n > 1 => Called(stack[n - 1], g) BY <1>3, <1>9 DEF Called
<1>13. TaskOf(g) = t BY <1>9 DEF TaskOf
<1>14. CASE M[j] = {}
  <2>1. Becomes(g) BY <1>2, <1>10, <1>14
  <2>2. Dead(s, t, j) BY <1>14 DEF Dead
  <2>3. Tried(g, g.next - 1)
    <3>1. g.next - 1 = j BY <1>6, <1>9
    <3>2. \A i \in 1..j : i \in 1..(j - 1) \/ i = j BY <1>6
    <3> QED BY <1>3, <1>9, <1>13, <2>2, <3>1, <3>2 DEF Tried
  <2> QED BY <1>1, <1>9, <1>11, <1>12, <2>1, <2>3, SearchBecomes
<1>15. CASE M[j] # {}
  <2>1. PICK d \in M[j] :
          /\ stack' = Append([stack EXCEPT ![n] = g],
                             Enter(s, d \o Tail(f.tasks), f.fuel - 1))
          /\ UNCHANGED << view, pc, answer, venue >>
    BY <1>2, <1>10, <1>15
  <2> DEFINE e == Enter(s, d \o Tail(f.tasks), f.fuel - 1)
  <2>2. Leads(s, t, d)
    <3>1. \A i \in 1..(j - 1) : Dead(s, t, i) BY <1>3 DEF Tried
    <3> QED BY <1>5, <1>6, <1>8, <3>1, MethodLeads
  <2>3. e \in Frame /\ e.state = s /\ e.tasks = d /\ e.prefix = << >> /\ e.next = 0 /\ FrameOK(e)
    BY <1>3, <1>4, <2>2, EnterIs
  <2>4. stack' = Append([stack EXCEPT ![n] = g], e) /\ UNCHANGED << view, pc, answer, venue >>
    BY <2>1
  <2> HIDE DEF e
  <2>5. Waiting(g)
    <3>1. g.next - 1 = j /\ g.next - 2 = j - 1 BY <1>6, <1>9
    <3>2. Tried(g, j - 1) BY <1>3, <1>9, <1>13 DEF Tried
    <3> QED BY <1>8, <1>9, <1>11, <1>13, <3>1, <3>2 DEF Waiting
  <2>6. Called(g, e)
    <3>1. g.next - 1 = j BY <1>6, <1>9
    <3> QED BY <1>9, <1>13, <2>3, <3>1 DEF Called
  <2> QED BY <1>1, <1>9, <1>11, <1>12, <2>3, <2>4, <2>5, <2>6, SearchPushes
<1> QED BY <1>14, <1>15

\* A plan goes up to the caller; without one the caller goes on.
LEMMA SearchBack == SearchInv /\ Back => SearchInv'
<1> SUFFICES ASSUME SearchInv, Back PROVE SearchInv' OBVIOUS
<1>1. pc = "back" /\ stack # << >> BY DEF Back
<1>2. CASE answer.ok
  <2>1. Return(Plan(Top.prefix \o answer.calls)) BY <1>2 DEF Back
  <2>2. Top.prefix \in Seq(Int) BY <1>1, TopIs DEF Frame
  <2>3. answer.calls \in Seq(Int) BY DEF SearchInv
  <2>4. Top.prefix \o answer.calls \in Seq(Int) BY <2>2, <2>3
  <2> QED BY <1>1, <2>1, <2>4, SearchReturns
<1>3. CASE ~answer.ok
  <2>1. pc' = "seek" /\ UNCHANGED << view, stack, answer, venue >> BY <1>3 DEF Back
  <2>2. Tried(Top, Top.next - 1) BY <1>1, <1>3 DEF SearchInv
  <2>3. Top' = Top BY <2>1 DEF Top
  <2> QED BY <1>1, <2>1, <2>2, <2>3 DEF SearchInv
<1> QED BY <1>2, <1>3

\* The search has a plan when queen_plan reads its answer from it.
LEMMA SearchDecide == SearchInv /\ Decide => SearchInv'
<1> SUFFICES ASSUME SearchInv, Decide PROVE SearchInv' OBVIOUS
<1>1. /\ pc = "back" /\ stack = << >> /\ pc' = "done" /\ UNCHANGED << view, stack, answer >>
  BY DEF Decide
<1>2. answer.ok BY <1>1 DEF SearchInv
<1> QED BY <1>1, <1>2 DEF SearchInv

\* The view is a state of its own.
LEMMA ViewIs ==
  ASSUME view \in Views
  PROVE  view \in States /\ view.cost \in [Venue -> Nat] /\ view.treasury \in Int
<1>1. /\ view.treasury \in Treasuries /\ view.worst_wear \in Wears
      /\ view.room_to_grow \in Rooms /\ view.built \in [Venue -> {0, Cycle}]
      /\ view.reserve = Reserve /\ view.cost = Cost
  BY DEF Views
<1>2. /\ Treasuries \subseteq Nat /\ Wears \subseteq Nat /\ Rooms \subseteq Nat
      /\ Reserve \in Nat /\ Cycle \in Nat /\ Cost \in [Venue -> Nat]
  BY PlannerBounds
<1>3. view.built \in [Venue -> Nat] BY <1>1, <1>2
<1>4. view = [treasury |-> view.treasury, worst_wear |-> view.worst_wear,
              room_to_grow |-> view.room_to_grow, built |-> view.built,
              reserve |-> view.reserve, cost |-> view.cost]
  BY DEF Views
<1>5. view.treasury \in Nat BY <1>1, <1>2, Zenon
<1>6. view.treasury \in Int BY <1>5
<1>7. view \in States BY <1>1, <1>2, <1>3, <1>4, <1>6 DEF States
<1> QED BY <1>1, <1>2, <1>6, <1>7

\* The first call has its task and fuel for it.
LEMMA SearchInit == Init => SearchInv
<1> SUFFICES ASSUME Init PROVE SearchInv OBVIOUS
<1> DEFINE f == Enter(view, << Call("run_the_ward") >>, Fuel)
<1>1. /\ view \in Views /\ stack = << f >> /\ pc = "seek" /\ answer = NoPlan BY DEF Init
<1>2. view \in States BY <1>1, ViewIs
<1>3. "run_the_ward" \in Tasks BY DEF Tasks
<1>4. << Call("run_the_ward") >> \in Seq(TaskCall)
  <2>1. Call("run_the_ward") \in TaskCall BY <1>3, VenuesAre DEF TaskCall, Call
  <2> QED BY <2>1
<1>5. /\ f \in Frame /\ f.tasks = << Call("run_the_ward") >> /\ f.prefix = << >>
      /\ f.fuel = Fuel /\ f.next = 0 /\ f.state = view
  <2>1. << >> \in Seq(Int) /\ Fuel \in Nat BY PlannerBounds
  <2> QED BY <1>2, <1>4, <2>1 DEF Enter, Frame
<1> HIDE DEF f
<1>6. FrameOK(f)
  <2>1. Deep(f.state, "run_the_ward") \in Nat /\ Deep(f.state, "run_the_ward") <= 9
    BY <1>3, DeepIsPositive
  <2>2. Deep(f.state, "run_the_ward") <= f.fuel BY <1>5, <2>1, PlannerBounds, FuelSuffices
  <2> QED BY <1>3, <1>5, <2>2 DEF FrameOK
<1>7. Compound(f) BY <1>3, <1>5 DEF Compound
<1>8. stack \in Seq(Frame) /\ Len(stack) = 1 /\ stack[1] = f /\ stack # << >> /\ Top = f
  BY <1>1, <1>5 DEF Top
<1>9. answer \in [ok: BOOLEAN, calls: Seq(Int)]
  <2>1. << >> \in Seq(Int) OBVIOUS
  <2> QED BY <1>1, <2>1 DEF NoPlan
<1> QED BY <1>1, <1>5, <1>6, <1>7, <1>8, <1>9 DEF SearchInv

\* The strengthened invariant of the search.
LEMMA SearchStep == SearchInv /\ [Next]_vars => SearchInv'
<1> SUFFICES ASSUME SearchInv, [Next]_vars PROVE SearchInv' OBVIOUS
<1>1. CASE UNCHANGED vars
  <2>1. /\ view' = view /\ stack' = stack /\ pc' = pc /\ answer' = answer /\ Top' = Top
    BY <1>1 DEF vars, Top
  <2> QED BY <2>1 DEF SearchInv
<1> QED BY <1>1, SearchWalkEnds, SearchWalkHold, SearchWalkCommission, SearchBranch,
           SearchTryMethod, SearchBack, SearchDecide DEF Next

-------------------------------------------------------------------------------
(* The plan's first act is QueenPlan's.                                     *)

\* The first commission of a plan, by its first act.
LEMMA FirstActIs ==
  /\ FirstCommission(<< >>) = HOLD
  /\ \A v : FirstCommission(<< v >>) = v
  /\ \A v, c : v # HOLD /\ c \in Seq(Int) /\ v \in Int => FirstCommission(<< v >> \o c) = v
<1>1. FirstCommission(<< >>) = HOLD
  <2>1. DOMAIN << >> = {} OBVIOUS
  <2> QED BY <2>1 DEF FirstCommission
<1>2. ASSUME NEW v PROVE FirstCommission(<< v >>) = v
  <2> DEFINE c == << v >>
             b == {k \in DOMAIN c : c[k] # HOLD}
  <2>1. DOMAIN c = {1} /\ c[1] = v OBVIOUS
  <2>2. FirstCommission(c) =
          IF b = {} THEN HOLD ELSE c[CHOOSE k \in b : \A j \in b : k <= j]
    BY DEF FirstCommission
  <2>3. b \subseteq {1} /\ (1 \in b <=> v # HOLD) BY <2>1
  <2> HIDE DEF c, b
  <2>4. CASE v = HOLD
    <3>1. b = {} BY <2>3, <2>4
    <3> QED BY <2>2, <2>4, <3>1 DEF c
  <2>5. CASE v # HOLD
    <3>1. b = {1} BY <2>3, <2>5
    <3>2. (CHOOSE k \in b : \A j \in b : k <= j) = 1 BY <3>1
    <3> QED BY <2>1, <2>2, <3>1, <3>2 DEF c
  <2> QED BY <2>4, <2>5
<1>3. ASSUME NEW v \in Int, NEW c \in Seq(Int), v # HOLD PROVE FirstCommission(<< v >> \o c) = v
  <2> DEFINE r == << v >> \o c
             b == {k \in DOMAIN r : r[k] # HOLD}
             m == CHOOSE k \in b : \A j \in b : k <= j
  <2>1. r \in Seq(Int) /\ Len(r) = 1 + Len(c) /\ r[1] = v /\ Len(c) \in Nat OBVIOUS
  <2>2. FirstCommission(r) = IF b = {} THEN HOLD ELSE r[m] BY DEF FirstCommission
  <2>3. DOMAIN r = 1..(1 + Len(c))
    <3> HIDE DEF r
    <3> QED BY <2>1
  <2>4. 1 \in b /\ \A k \in b : k \in Int /\ 1 <= k BY <1>3, <2>1, <2>3
  <2> HIDE DEF b, r
  <2>5. m = 1
    <3>1. m \in b /\ \A j \in b : m <= j BY <2>4
    <3> HIDE DEF m
    <3> QED BY <2>4, <3>1
  <2> QED BY <2>1, <2>2, <2>4, <2>5 DEF r
<1> QED BY <1>1, <1>2, <1>3

\* The call for a decomposition aims at what its caller's task wants.
LEMMA LeadsAims ==
  ASSUME NEW t \in Tasks, NEW d, Leads(view, t, d), Wanted(view, t) = QueenPlan(view),
         NEW e, e.state = view, e.tasks = d
  PROVE  Aims(e)
<1>1. CASE d = << Call("hold") >> /\ Wanted(view, t) = HOLD
  <2>1. Head(d) = Call("hold") /\ \A u : d = << Call(u) >> => Head(d) = Call(u) BY <1>1
  <2> QED BY <1>1, <2>1, CallsDiffer DEF Aims
<1>2. CASE \E v \in Venue, u \in Tasks :
             d = << Commission(v), Call(u) >> /\ (CanCommission(view, v) => Wanted(view, t) = v)
  <2>1. PICK v \in Venue, u \in Tasks :
             d = << Commission(v), Call(u) >> /\ (CanCommission(view, v) => Wanted(view, t) = v)
    BY <1>2
  <2>2. Head(d) = Commission(v) /\ \A x : d = << Call(x) >> => Head(d) = Call(x) BY <2>1
  <2> QED BY <2>1, <2>2, CallsDiffer DEF Aims
<1>3. CASE \E v \in Venue :
             d = << Commission(v) >> /\ (CanCommission(view, v) => Wanted(view, t) = v)
  <2>1. PICK v \in Venue :
             d = << Commission(v) >> /\ (CanCommission(view, v) => Wanted(view, t) = v)
    BY <1>3
  <2>2. Head(d) = Commission(v) /\ \A x : d = << Call(x) >> => Head(d) = Call(x) BY <2>1
  <2> QED BY <2>1, <2>2, CallsDiffer DEF Aims
<1>4. CASE \E u \in Tasks : d = << Call(u) >> /\ Wanted(view, u) = Wanted(view, t)
  <2>1. PICK u \in Tasks : d = << Call(u) >> /\ Wanted(view, u) = Wanted(view, t) BY <1>4
  <2>2. Head(d) = Call(u) /\ \A x : d = << Call(x) >> => Head(d) = Call(x) BY <2>1
  <2> QED BY <2>1, <2>2, CallsDiffer DEF Aims
<1> QED BY <1>1, <1>2, <1>3, <1>4 DEF Leads

\* What Undecided says of a stack that is the same up to the k-th call.
LEMMA SameUndecided ==
  ASSUME NEW k \in Nat, \A j \in 1..k : stack'[j] = stack[j]
  PROVE  \A i \in 0..k : Undecided(i)' <=> Undecided(i)
BY DEF Undecided

\* One more call.
LEMMA UndecidedNext ==
  ASSUME NEW k \in Nat \ {0}
  PROVE  Undecided(k) <=> Undecided(k - 1) /\ stack[k].prefix = << >>
<1>1. \A j \in 1..k : j \in 1..(k - 1) \/ j = k OBVIOUS
<1>2. k \in 1..k /\ \A j \in 1..(k - 1) : j \in 1..k OBVIOUS
<1> QED BY <1>1, <1>2 DEF Undecided

\* The calls below one that changes still aim where they did.
LEMMA AgreeBelow ==
  ASSUME AgreeInv, NEW m \in Nat, m <= Len(stack), Len(stack) \in Nat, view' = view,
         \A j \in 1..m : stack'[j] = stack[j]
  PROVE  /\ \A k \in 1..m : Undecided(k)' => Aims(stack[k])'
         /\ \A k \in 1..m : Undecided(k - 1)' /\ stack'[k].prefix # << >>
              => stack'[k].prefix = << QueenPlan(view) >>
<1> SUFFICES ASSUME NEW k \in 1..m
             PROVE  /\ Undecided(k)' => Aims(stack[k])'
                    /\ Undecided(k - 1)' /\ stack'[k].prefix # << >>
                         => stack'[k].prefix = << QueenPlan(view) >>
  OBVIOUS
<1>1. k \in 1..Len(stack) /\ k \in 0..m /\ k - 1 \in 0..m /\ stack'[k] = stack[k] OBVIOUS
<1>2. (Undecided(k)' <=> Undecided(k)) /\ (Undecided(k - 1)' <=> Undecided(k - 1))
  BY <1>1, SameUndecided
<1>3. Undecided(k) => Aims(stack[k]) BY <1>1 DEF AgreeInv
<1>4. Aims(stack[k])' <=> Aims(stack[k]) BY <1>1 DEF Aims
<1>5. Undecided(k - 1) /\ stack[k].prefix # << >> => stack[k].prefix = << QueenPlan(view) >>
  BY <1>1 DEF AgreeInv
<1> QED BY <1>1, <1>2, <1>3, <1>4, <1>5

\* The innermost call has changed, and aims where it should.
LEMMA AgreeBecomes ==
  ASSUME SearchInv, AgreeInv, pc = "seek", NEW f \in Frame, Becomes(f),
         Undecided(Len(stack) - 1) /\ f.prefix = << >> => Aims(f),
         Undecided(Len(stack) - 1) /\ f.prefix # << >> => f.prefix = << QueenPlan(view) >>
  PROVE  AgreeInv'
<1> SUFFICES ASSUME NEW n, n = Len(stack) PROVE AgreeInv' OBVIOUS
<1>1. stack \in Seq(Frame) /\ stack # << >> BY DEF SearchInv
<1>2. /\ n \in Nat \ {0} /\ Len(stack') = n
      /\ \A k \in 1..(n - 1) : stack'[k] = stack[k]
      /\ stack'[n] = f /\ view' = view /\ pc' = pc
  BY <1>1, BecomesIs
<1>3. n - 1 \in Nat /\ n - 1 <= n /\ n - 1 \in 0..(n - 1) BY <1>2
<1>4. /\ \A k \in 1..(n - 1) : Undecided(k)' => Aims(stack[k])'
      /\ \A k \in 1..(n - 1) : Undecided(k - 1)' /\ stack'[k].prefix # << >>
           => stack'[k].prefix = << QueenPlan(view) >>
  BY <1>2, <1>3, AgreeBelow
<1>5. Undecided(n - 1)' <=> Undecided(n - 1) BY <1>2, <1>3, SameUndecided
<1>6. Undecided(n)' => Undecided(n - 1)' /\ f.prefix = << >>
  <2>1. n \in 1..n /\ \A j \in 1..(n - 1) : j \in 1..n BY <1>2
  <2> QED BY <1>2, <2>1 DEF Undecided
<1>7. Aims(f)' <=> Aims(f) BY <1>2 DEF Aims
<1>8. ASSUME NEW k \in 1..n
      PROVE  /\ Undecided(k)' => Aims(stack[k])'
             /\ Undecided(k - 1)' /\ stack'[k].prefix # << >>
                  => stack'[k].prefix = << QueenPlan(view) >>
  <2>1. CASE k = n
    <3>1. Undecided(k)' => Aims(f)' BY <1>5, <1>6, <1>7, <2>1
    <3>2. Aims(f)' => Aims(stack[k])' BY <1>2, <2>1 DEF Aims
    <3> QED BY <1>2, <1>5, <2>1, <3>1, <3>2
  <2>2. CASE k # n
    <3>1. k \in 1..(n - 1) BY <1>2, <2>2
    <3> QED BY <1>4, <3>1
  <2> QED BY <2>1, <2>2
<1>9. QueenPlan(view)' = QueenPlan(view) BY <1>2
<1> QED BY <1>2, <1>8, <1>9 DEF AgreeInv

\* The innermost call has returned; a plan's first act is its caller's decision.
LEMMA AgreeReturns ==
  ASSUME SearchInv, AgreeInv, stack # << >>, NEW a, Return(a),
         a.ok /\ Undecided(Len(stack) - 1) => FirstCommission(a.calls) = QueenPlan(view)
  PROVE  AgreeInv'
<1> SUFFICES ASSUME NEW n, n = Len(stack) PROVE AgreeInv' OBVIOUS
<1>1. stack \in Seq(Frame) BY DEF SearchInv
<1>2. /\ n \in Nat \ {0} /\ Len(stack') = n - 1
      /\ \A k \in 1..(n - 1) : stack'[k] = stack[k]
      /\ view' = view /\ pc' = "back" /\ answer' = a
  BY <1>1, ReturnIs
<1>3. n - 1 \in Nat /\ n - 1 <= n /\ n - 1 \in 0..(n - 1) BY <1>2
<1>4. /\ \A k \in 1..(n - 1) : Undecided(k)' => Aims(stack[k])'
      /\ \A k \in 1..(n - 1) : Undecided(k - 1)' /\ stack'[k].prefix # << >>
           => stack'[k].prefix = << QueenPlan(view) >>
  BY <1>2, <1>3, AgreeBelow
<1>5. Undecided(n - 1)' <=> Undecided(n - 1) BY <1>2, <1>3, SameUndecided
<1>6. Undecided(Len(stack))' => Undecided(n - 1)
  <2>1. Undecided(Len(stack))' => Undecided(n - 1)' BY <1>2
  <2> QED BY <1>5, <2>1
<1>7. QueenPlan(view)' = QueenPlan(view) BY <1>2
<1> QED BY <1>2, <1>4, <1>6, <1>7 DEF AgreeInv

\* A call has been made, and aims where it should.
LEMMA AgreePushes ==
  ASSUME SearchInv, AgreeInv, pc = "seek", NEW f \in Frame, NEW g \in Frame,
         stack' = Append([stack EXCEPT ![Len(stack)] = f], g),
         UNCHANGED << view, pc, answer, venue >>, g.prefix = << >>,
         Undecided(Len(stack) - 1) /\ f.prefix = << >> => Aims(f) /\ Aims(g),
         Undecided(Len(stack) - 1) /\ f.prefix # << >> => f.prefix = << QueenPlan(view) >>
  PROVE  AgreeInv'
<1> SUFFICES ASSUME NEW n, n = Len(stack) PROVE AgreeInv' OBVIOUS
<1>1. stack \in Seq(Frame) /\ stack # << >> BY DEF SearchInv
<1>2. /\ n \in Nat \ {0} /\ Len(stack') = n + 1
      /\ \A k \in 1..(n - 1) : stack'[k] = stack[k]
      /\ stack'[n] = f /\ stack'[n + 1] = g
  BY <1>1, PushIs
<1>3. n - 1 \in Nat /\ n - 1 <= n /\ n - 1 \in 0..(n - 1) BY <1>2
<1>4. /\ \A k \in 1..(n - 1) : Undecided(k)' => Aims(stack[k])'
      /\ \A k \in 1..(n - 1) : Undecided(k - 1)' /\ stack'[k].prefix # << >>
           => stack'[k].prefix = << QueenPlan(view) >>
  BY <1>2, <1>3, AgreeBelow
<1>5. Undecided(n - 1)' <=> Undecided(n - 1) BY <1>2, <1>3, SameUndecided
<1>6. (Undecided(n)' => Undecided(n - 1)' /\ f.prefix = << >>) /\ (Undecided(n + 1)' => Undecided(n)')
  <2>1. n \in 1..n /\ (\A j \in 1..(n - 1) : j \in 1..n) /\ (\A j \in 1..n : j \in 1..(n + 1))
    BY <1>2
  <2> QED BY <1>2, <2>1 DEF Undecided
<1>7. (Aims(f)' <=> Aims(f)) /\ (Aims(g)' <=> Aims(g)) BY DEF Aims
<1>8. ASSUME NEW k \in 1..(n + 1)
      PROVE  /\ Undecided(k)' => Aims(stack[k])'
             /\ Undecided(k - 1)' /\ stack'[k].prefix # << >>
                  => stack'[k].prefix = << QueenPlan(view) >>
  <2>1. CASE k = n
    <3>1. Undecided(k)' => Aims(f)' BY <1>5, <1>6, <1>7, <2>1
    <3>2. Aims(f)' => Aims(stack[k])' BY <1>2, <2>1 DEF Aims
    <3> QED BY <1>2, <1>5, <2>1, <3>1, <3>2
  <2>2. CASE k = n + 1
    <3>1. Undecided(k)' => Aims(g)' BY <1>5, <1>6, <1>7, <2>2
    <3>2. Aims(g)' => Aims(stack[k])' BY <1>2, <2>2 DEF Aims
    <3> QED BY <1>2, <2>2, <3>1, <3>2
  <2>3. CASE k # n /\ k # n + 1
    <3>1. k \in 1..(n - 1) BY <1>2, <2>3
    <3> QED BY <1>4, <3>1
  <2> QED BY <2>1, <2>2, <2>3
<1>9. QueenPlan(view)' = QueenPlan(view) OBVIOUS
<1> QED BY <1>2, <1>8, <1>9 DEF AgreeInv

\* What the invariant says of the innermost call.
LEMMA TopAims ==
  ASSUME SearchInv, AgreeInv, stack # << >>, Undecided(Len(stack) - 1)
  PROVE  /\ Top.prefix = << >> => Undecided(Len(stack)) /\ Aims(Top)
         /\ Top.prefix # << >> => Top.prefix = << QueenPlan(view) >>
<1> DEFINE n == Len(stack)
<1>1. n \in Nat \ {0} /\ n \in 1..n /\ Top = stack[n] BY TopIs
<1> HIDE DEF n
<1>2. Undecided(n) <=> Undecided(n - 1) /\ Top.prefix = << >> BY <1>1, UndecidedNext
<1>3. Undecided(n) => Aims(Top) BY <1>1 DEF AgreeInv, n
<1>4. Top.prefix # << >> => Top.prefix = << QueenPlan(view) >> BY <1>1 DEF AgreeInv, n
<1> QED BY <1>2, <1>3, <1>4 DEF n

\* The walk is through.
LEMMA AgreeWalkEnds == SearchInv /\ AgreeInv /\ WalkEnds => AgreeInv'
<1> SUFFICES ASSUME SearchInv, AgreeInv, WalkEnds PROVE AgreeInv' OBVIOUS
<1>1. stack # << >> /\ Return(Plan(Top.prefix)) /\ Top.tasks = << >> BY DEF WalkEnds, SearchInv
<1>2. FrameOK(Top) BY <1>1, TopIs
<1>3. PICK v : Top.prefix = << v >> BY <1>1, <1>2, EndedIs
<1>4. Plan(Top.prefix).calls = << v >> BY <1>3 DEF Plan
<1>5. FirstCommission(<< v >>) = v BY FirstActIs
<1>6. Undecided(Len(stack) - 1) => v = QueenPlan(view)
  <2>1. << v >> # << >> OBVIOUS
  <2>2. Undecided(Len(stack) - 1) => << v >> = << QueenPlan(view) >> BY <1>1, <1>3, <2>1, TopAims
  <2>3. \A x : << v >> = << x >> => v = x OBVIOUS
  <2> QED BY <2>2, <2>3
<1> QED BY <1>1, <1>4, <1>5, <1>6, AgreeReturns

\* hold is what QueenPlan says.
LEMMA AgreeWalkHold == SearchInv /\ AgreeInv /\ WalkHold => AgreeInv'
<1> SUFFICES ASSUME SearchInv, AgreeInv, WalkHold PROVE AgreeInv' OBVIOUS
<1> DEFINE f == Top
           g == [f EXCEPT !.state = f.state, !.tasks = Tail(@),
                          !.prefix = Append(@, Head(f.tasks).venue)]
<1>1. /\ pc = "seek" /\ stack # << >> /\ f.tasks # << >> /\ Head(f.tasks) = Call("hold")
      /\ f.next = 0 /\ Becomes(g)
  BY DEF WalkHold, Walking, Walked, SearchInv
<1>2. f \in Frame /\ FrameOK(f) BY <1>1, TopIs
<1>3. Undecided(Len(stack) - 1) /\ f.prefix = << >> => Aims(f) BY <1>1, TopAims
<1> HIDE DEF f
<1>4. f.tasks = << Call("hold") >> /\ f.prefix = << >> BY <1>1, <1>2, HeadIs
<1>5. f.state \in States BY <1>2 DEF Frame
<1>6. g \in Frame /\ g.prefix = Append(f.prefix, Head(f.tasks).venue)
  BY <1>1, <1>2, <1>5, WalkedIs
<1> HIDE DEF g
<1>7. g.prefix = << HOLD >> /\ g.prefix # << >> BY <1>1, <1>4, <1>6, CallsDiffer
<1>8. Undecided(Len(stack) - 1) => QueenPlan(view) = HOLD BY <1>3, <1>4 DEF Aims
<1> QED BY <1>1, <1>6, <1>7, <1>8, AgreeBecomes

\* The commission that can be made is QueenPlan's.
LEMMA AgreeWalkCommission == SearchInv /\ AgreeInv /\ WalkCommission => AgreeInv'
<1> SUFFICES ASSUME SearchInv, AgreeInv, WalkCommission PROVE AgreeInv' OBVIOUS
<1> DEFINE f == Top
<1>1. PICK v \in Venue :
        /\ Walking(Commission(v))
        /\ IF CanCommission(Top.state, v) THEN Walked(ActCommission(Top.state, v))
           ELSE Return(NoPlan)
  BY DEF WalkCommission
<1>2. /\ pc = "seek" /\ stack # << >> /\ f.tasks # << >> /\ Head(f.tasks) = Commission(v)
  BY <1>1 DEF Walking, SearchInv
<1>3. f \in Frame /\ FrameOK(f) BY <1>2, TopIs
<1>4. Undecided(Len(stack) - 1) /\ f.prefix = << >> => Aims(f) BY <1>2, TopAims
<1>5. f.prefix = << >>
  <2> HIDE DEF f
  <2> QED BY <1>2, <1>3, HeadIs
<1>6. CASE CanCommission(f.state, v)
  <2> DEFINE s == ActCommission(f.state, v)
             g == [f EXCEPT !.state = s, !.tasks = Tail(@),
                            !.prefix = Append(@, Head(f.tasks).venue)]
  <2>1. Becomes(g) BY <1>1, <1>6 DEF Walked
  <2> HIDE DEF f
  <2>2. f.state \in States BY <1>3 DEF Frame
  <2>3. s \in States BY <2>2, ActBuilds
  <2> HIDE DEF s
  <2>4. g \in Frame /\ g.prefix = Append(f.prefix, Head(f.tasks).venue)
    BY <1>2, <1>3, <2>3, WalkedIs
  <2> HIDE DEF g
  <2>5. g.prefix = << v >> /\ g.prefix # << >> BY <1>2, <1>5, <2>4, CallsDiffer
  <2>6. Undecided(Len(stack) - 1) => QueenPlan(view) = v BY <1>2, <1>4, <1>5, <1>6 DEF Aims
  <2> QED BY <1>2, <2>1, <2>4, <2>5, <2>6, AgreeBecomes
<1>7. CASE ~CanCommission(f.state, v)
  <2>1. Return(NoPlan) BY <1>1, <1>7
  <2>2. ~NoPlan.ok BY DEF NoPlan
  <2> QED BY <1>2, <2>1, <2>2, AgreeReturns
<1> QED BY <1>6, <1>7

\* The call aims at the same task.
LEMMA AgreeBranch == SearchInv /\ AgreeInv /\ Branch => AgreeInv'
<1> SUFFICES ASSUME SearchInv, AgreeInv, Branch PROVE AgreeInv' OBVIOUS
<1> DEFINE f == Top
           g == [f EXCEPT !.next = 1]
<1>1. pc = "seek" /\ stack # << >> /\ (f.fuel # 0 => Becomes(g)) /\ (f.fuel = 0 => Return(NoPlan))
  BY DEF Branch, Walking, SearchInv
<1>2. f \in Frame BY <1>1, TopIs
<1>3. /\ Undecided(Len(stack) - 1) /\ f.prefix = << >> => Aims(f)
      /\ Undecided(Len(stack) - 1) /\ f.prefix # << >> => f.prefix = << QueenPlan(view) >>
  BY <1>1, TopAims
<1> HIDE DEF f
<1>4. g \in Frame /\ g.tasks = f.tasks /\ g.prefix = f.prefix /\ g.state = f.state
  BY <1>2 DEF Frame
<1> HIDE DEF g
<1>5. Aims(f) => Aims(g) BY <1>4 DEF Aims
<1>6. CASE f.fuel # 0 BY <1>1, <1>3, <1>4, <1>5, <1>6, AgreeBecomes
<1>7. CASE f.fuel = 0
  <2>1. ~NoPlan.ok BY DEF NoPlan
  <2> QED BY <1>1, <1>7, <2>1, AgreeReturns
<1> QED BY <1>6, <1>7

\* The method that is reached leads to what QueenPlan says.
LEMMA AgreeTryMethod == SearchInv /\ AgreeInv /\ TryMethod => AgreeInv'
<1> SUFFICES ASSUME SearchInv, AgreeInv, TryMethod PROVE AgreeInv' OBVIOUS
<1> DEFINE f == Top
           n == Len(stack)
           t == TaskOf(f)
           s == f.state
           M == Methods(s, t)
           j == f.next
           g == [f EXCEPT !.next = @ + 1]
<1>1. pc = "seek" /\ j # 0 /\ stack # << >> BY DEF TryMethod, SearchInv
<1>2. IF j > Len(M) THEN Return(NoPlan)
      ELSE IF M[j] = {} THEN Becomes(g)
      ELSE \E d \in M[j] :
             /\ stack' = Append([stack EXCEPT ![n] = g],
                                Enter(s, d \o Tail(f.tasks), f.fuel - 1))
             /\ UNCHANGED << view, pc, answer, venue >>
  BY DEF TryMethod, TaskOf
<1>3. /\ f \in Frame /\ FrameOK(f) /\ Tried(f, j - 1)
  <2>1. Tried(f, j - 1) BY <1>1 DEF SearchInv
  <2> QED BY <1>1, <2>1, TopIs
<1>4. /\ Undecided(n - 1) /\ f.prefix = << >> => Aims(f)
      /\ Undecided(n - 1) /\ f.prefix # << >> => f.prefix = << QueenPlan(view) >>
  BY <1>1, TopAims
<1> HIDE DEF f
<1>5. Compound(f) BY <1>1, <1>3, BranchesOn
<1>6. t \in Tasks /\ f.tasks = << Call(t) >> BY <1>5, CompoundIs
<1>7. j \in Nat /\ s \in States BY <1>3 DEF Frame
<1>8. g \in Frame /\ g.tasks = f.tasks /\ g.prefix = f.prefix /\ g.state = f.state
  BY <1>3, TriedNextIs
<1>9. Len(M) \in Nat BY <1>6, MethodsEnd
<1> HIDE DEF g, j
<1>10. Aims(f) => Aims(g) BY <1>8 DEF Aims
<1>11. CASE j > Len(M)
  <2>1. Return(NoPlan) BY <1>2, <1>11
  <2>2. ~NoPlan.ok BY DEF NoPlan
  <2> QED BY <1>1, <2>1, <2>2, AgreeReturns
<1>12. CASE ~(j > Len(M)) /\ M[j] = {}
  <2>1. Becomes(g) BY <1>2, <1>12
  <2> QED BY <1>1, <1>4, <1>8, <1>10, <2>1, AgreeBecomes
<1>13. CASE ~(j > Len(M)) /\ M[j] # {}
  <2>1. PICK d \in M[j] :
          /\ stack' = Append([stack EXCEPT ![n] = g],
                             Enter(s, d \o Tail(f.tasks), f.fuel - 1))
          /\ UNCHANGED << view, pc, answer, venue >>
    BY <1>2, <1>13
  <2> DEFINE e == Enter(s, d \o Tail(f.tasks), f.fuel - 1)
  <2>2. j \in 1..Len(M)
    <3> HIDE DEF M
    <3> QED BY <1>1, <1>7, <1>9, <1>13
  <2>3. Leads(s, t, d)
    <3>1. \A i \in 1..(j - 1) : Dead(s, t, i) BY <1>3 DEF Tried
    <3> QED BY <1>6, <1>7, <2>2, <3>1, MethodLeads
  <2>4. e \in Frame /\ e.state = s /\ e.tasks = d /\ e.prefix = << >> BY <1>3, <1>5, <2>3, EnterIs
  <2>5. stack' = Append([stack EXCEPT ![n] = g], e) /\ UNCHANGED << view, pc, answer, venue >>
    BY <2>1
  <2> HIDE DEF e
  <2>6. Aims(f) => Aims(e)
    <3> SUFFICES ASSUME Aims(f) PROVE Aims(e) OBVIOUS
    <3>1. s = view /\ Wanted(view, t) = QueenPlan(view) BY <1>6 DEF Aims
    <3> HIDE DEF s, t
    <3> QED BY <1>6, <2>3, <2>4, <3>1, LeadsAims
  <2> QED BY <1>1, <1>4, <1>8, <1>10, <2>4, <2>5, <2>6, AgreePushes
<1> QED BY <1>11, <1>12, <1>13

\* The caller's prefix, if it has one, is the first act.
LEMMA AgreeBack == SearchInv /\ AgreeInv /\ Back => AgreeInv'
<1> SUFFICES ASSUME SearchInv, AgreeInv, Back PROVE AgreeInv' OBVIOUS
<1> DEFINE f == Top
           a == Plan(f.prefix \o answer.calls)
<1>1. pc = "back" /\ stack # << >> BY DEF Back
<1>2. f \in Frame /\ FrameOK(f) BY <1>1, TopIs
<1>3. answer.calls \in Seq(Int) BY DEF SearchInv
<1>4. Waiting(f) BY <1>1 DEF SearchInv
<1>5. CASE answer.ok
  <2>1. Return(a) BY <1>5 DEF Back
  <2>2. a.calls = f.prefix \o answer.calls BY DEF Plan
  <2>3. f.prefix = << >> \/ \E v \in Venue : f.prefix = << v >>
    <3> HIDE DEF f
    <3>1. f.tasks # << >> /\ Head(f.tasks) = Call(TaskOf(f)) /\ TaskOf(f) \in Tasks
      BY <1>4, CompoundIs DEF Waiting
    <3> QED BY <1>2, <3>1, HeadIs
  <2>4. ASSUME Undecided(Len(stack) - 1)
        PROVE  FirstCommission(f.prefix \o answer.calls) = QueenPlan(view)
    <3>1. CASE f.prefix = << >>
      <4>1. Undecided(Len(stack)) BY <1>1, <2>4, <3>1, TopAims
      <4>2. FirstCommission(answer.calls) = QueenPlan(view) BY <1>1, <1>5, <4>1 DEF AgreeInv
      <4>3. << >> \o answer.calls = answer.calls BY <1>3, ConcatEmptySeq
      <4> QED BY <3>1, <4>2, <4>3
    <3>2. CASE \E v \in Venue : f.prefix = << v >>
      <4>1. PICK v \in Venue : f.prefix = << v >> BY <3>2
      <4>2. f.prefix # << >> BY <4>1
      <4>3. f.prefix = << QueenPlan(view) >> BY <1>1, <2>4, <4>2, TopAims
      <4>4. v = QueenPlan(view)
        <5>1. \A x : << v >> = << x >> => v = x OBVIOUS
        <5> QED BY <4>1, <4>3, <5>1
      <4>5. v # HOLD /\ v \in Int BY VenuesAre
      <4> QED BY <1>3, <4>1, <4>4, <4>5, FirstActIs
    <3> QED BY <2>3, <3>1, <3>2
  <2> HIDE DEF a
  <2> QED BY <1>1, <2>1, <2>2, <2>4, AgreeReturns
<1>6. CASE ~answer.ok
  <2>1. pc' = "seek" /\ UNCHANGED << view, stack, answer, venue >> BY <1>6 DEF Back
  <2>2. \A k : (Undecided(k)' <=> Undecided(k)) /\ (Aims(stack[k])' <=> Aims(stack[k]))
    BY <2>1 DEF Undecided, Aims
  <2> QED BY <1>1, <2>1, <2>2 DEF AgreeInv
<1> QED BY <1>5, <1>6

\* The search's first commission is QueenPlan's venue.
LEMMA AgreeDecide == SearchInv /\ AgreeInv /\ Decide => AgreeInv'
<1> SUFFICES ASSUME SearchInv, AgreeInv, Decide PROVE AgreeInv' OBVIOUS
<1>1. /\ pc = "back" /\ stack = << >> /\ pc' = "done" /\ UNCHANGED << view, stack, answer >>
      /\ venue' = IF answer.ok THEN FirstCommission(answer.calls) ELSE venue
  BY DEF Decide
<1>2. answer.ok BY <1>1 DEF SearchInv
<1>3. Len(stack) = 0 BY <1>1
<1>4. Undecided(Len(stack)) BY <1>3 DEF Undecided
<1>5. venue' = QueenPlan(view) BY <1>1, <1>2, <1>4 DEF AgreeInv
<1>6. Len(stack') = 0 /\ 1..0 = {} BY <1>1
<1> QED BY <1>1, <1>5, <1>6 DEF AgreeInv

\* queen_plan begins with the task QueenPlan decides.
LEMMA AgreeInit == Init => AgreeInv
<1> SUFFICES ASSUME Init PROVE AgreeInv OBVIOUS
<1> DEFINE f == Enter(view, << Call("run_the_ward") >>, Fuel)
<1>1. stack = << f >> /\ pc = "seek" BY DEF Init
<1>2. /\ f.tasks = << Call("run_the_ward") >> /\ f.prefix = << >> /\ f.state = view
  BY DEF Enter
<1> HIDE DEF f
<1>3. Len(stack) = 1 /\ stack[1] = f BY <1>1
<1>4. Wanted(view, "run_the_ward") = QueenPlan(view) BY DEF Wanted
<1>5. Head(f.tasks) = Call("run_the_ward") /\ \A x : f.tasks = << Call(x) >> => Head(f.tasks) = Call(x)
  BY <1>2
<1>6. "run_the_ward" \in Tasks BY DEF Tasks
<1>7. Aims(f) BY <1>2, <1>4, <1>5, <1>6, CallsDiffer DEF Aims
<1>8. \A k \in 1..1 : k = 1 OBVIOUS
<1> QED BY <1>1, <1>2, <1>3, <1>7, <1>8 DEF AgreeInv

\* The plan's first act stays QueenPlan's.
LEMMA AgreeStep == SearchInv /\ AgreeInv /\ [Next]_vars => AgreeInv'
<1> SUFFICES ASSUME SearchInv, AgreeInv, [Next]_vars PROVE AgreeInv' OBVIOUS
<1>1. CASE UNCHANGED vars
  <2>1. view' = view /\ stack' = stack /\ pc' = pc /\ answer' = answer /\ venue' = venue
    BY <1>1 DEF vars
  <2>2. \A k : (Undecided(k)' <=> Undecided(k)) /\ (Aims(stack[k])' <=> Aims(stack[k]))
    BY <2>1 DEF Undecided, Aims
  <2> QED BY <2>1, <2>2 DEF AgreeInv
<1> QED BY <1>1, AgreeWalkEnds, AgreeWalkHold, AgreeWalkCommission, AgreeBranch,
           AgreeTryMethod, AgreeBack, AgreeDecide DEF Next

\* The search's answer is the decision of planner.cpp's lines of business: for every view the
\* depth-first search with its backtracking ends with a plan, and the first commission of it
\* is QueenPlan's.
THEOREM SearchIsTheDecision == Spec => []SearchAgrees
<1>1. Init => SearchInv /\ AgreeInv BY SearchInit, AgreeInit
<1>2. SearchInv /\ AgreeInv /\ [Next]_vars => (SearchInv /\ AgreeInv)' BY SearchStep, AgreeStep
<1>3. SearchInv /\ AgreeInv => SearchAgrees BY DEF SearchInv, AgreeInv, SearchAgrees
<1> QED BY <1>1, <1>2, <1>3, PTL DEF Spec

-------------------------------------------------------------------------------
(* The plan is funded.                                                      *)

\* What a set of venues costs grows with the set, by the price of a venue that joins it.
LEMMA PriceIs ==
  ASSUME view.cost \in [Venue -> Nat], NEW V, NEW W, V \subseteq W
  PROVE  /\ Price(V) \in Int /\ Price(V) <= Price(W) /\ Price({}) = 0
         /\ \A v \in Venue : W = V \cup {v} /\ v \notin V => Price(W) = Price(V) + view.cost[v]
<1> DEFINE F(X) == [k \in 1..6 |-> IF k - 1 \in X THEN view.cost[k - 1] ELSE 0]
<1>1. \A k \in 1..6 : k - 1 \in Venue BY DEF Venue
<1>2. \A k \in 1..6 : view.cost[k - 1] \in Nat BY <1>1
<1>3. \A X : F(X) \in [1..6 -> Int]
  <2> SUFFICES ASSUME NEW X PROVE F(X) \in [1..6 -> Int] OBVIOUS
  <2>1. \A k \in 1..6 : (IF k - 1 \in X THEN view.cost[k - 1] ELSE 0) \in Int BY <1>2
  <2> QED BY <2>1
<1>4. \A X : Price(X) = Total(F(X), 6) BY DEF Price
<1>5. \A X : \A k \in 1..6 : F(X)[k] = IF k - 1 \in X THEN view.cost[k - 1] ELSE 0 OBVIOUS
<1>6. 6 \in Nat OBVIOUS
<1> HIDE DEF F
<1>7. Price(V) \in Int BY <1>3, <1>4, <1>6, TotalType
<1>8. Price(V) <= Price(W)
  <2>1. \A k \in 1..6 : F(V)[k] <= F(W)[k] BY <1>2, <1>5
  <2> QED BY <1>3, <1>4, <1>6, <2>1, TotalMonotone
<1>9. Price({}) = 0
  <2>1. \A k \in 1..6 : F({})[k] = 0 BY <1>5
  <2> QED BY <1>3, <1>4, <1>6, <2>1, TotalZero
<1>10. ASSUME NEW v \in Venue, W = V \cup {v}, v \notin V PROVE Price(W) = Price(V) + view.cost[v]
  <2>1. v + 1 \in 1..6 /\ (v + 1) - 1 = v BY DEF Venue
  <2>2. \A k \in 1..6 : k # v + 1 => k - 1 # v BY <2>1 DEF Venue
  <2>3. \A k \in 1..6 : k # v + 1 => F(W)[k] = F(V)[k] BY <1>5, <1>10, <2>2
  <2>4. F(W)[v + 1] = view.cost[v] /\ F(V)[v + 1] = 0 BY <1>5, <1>10, <2>1
  <2>5. F(V) \in [1..6 -> Int] /\ F(W) \in [1..6 -> Int] BY <1>3
  <2>6. Total(F(W), 6) = Total(F(V), 6) + F(W)[v + 1] - F(V)[v + 1]
    BY <1>6, <2>1, <2>3, <2>5, TotalUpdate
  <2>7. view.cost[v] \in Nat /\ Total(F(V), 6) \in Int BY <1>4, <1>7
  <2> QED BY <1>4, <2>4, <2>6, <2>7
<1> QED BY <1>7, <1>8, <1>9, <1>10

\* A commission that can be made leaves the state funded.
LEMMA ActIsFunded ==
  ASSUME view \in Views, NEW s, Funded(s), NEW v \in Venue, CanCommission(s, v)
  PROVE  LET a == ActCommission(s, v) IN Funded(a) /\ New(a) = New(s) \cup {v}
<1> DEFINE a == ActCommission(s, v)
<1>1. /\ s \in States /\ s.cost = view.cost /\ s.reserve = view.reserve
      /\ \A x \in Venue : IsBuilt(view, x) => IsBuilt(s, x)
      /\ s.treasury = view.treasury - Price(New(s))
  BY DEF Funded
<1>2. /\ a \in States /\ a.cost = s.cost /\ a.reserve = s.reserve
      /\ a.treasury = s.treasury - s.cost[v]
      /\ \A x \in Venue : IsBuilt(a, x) <=> x = v \/ IsBuilt(s, x)
  BY <1>1, ActBuilds
<1>3. ~IsBuilt(s, v) /\ s.treasury >= s.cost[v] + s.reserve BY DEF CanCommission
<1> HIDE DEF a
<1>4. New(a) = New(s) \cup {v} /\ v \notin New(s) BY <1>1, <1>2, <1>3 DEF New
<1>5. view.cost \in [Venue -> Nat] /\ view.treasury \in Int BY ViewIs
<1>6. Price(New(a)) = Price(New(s)) + view.cost[v] /\ Price(New(s)) \in Int
  <2> DEFINE V == New(s)
             W == New(a)
  <2>1. V \subseteq W /\ W = V \cup {v} /\ v \notin V BY <1>4
  <2> HIDE DEF V, W
  <2>2. Price(W) = Price(V) + view.cost[v] /\ Price(V) \in Int BY <1>5, <2>1, PriceIs
  <2> QED BY <2>2 DEF V, W
<1>7. s.treasury \in Int /\ s.cost[v] \in Nat /\ s.reserve \in Nat BY <1>1 DEF States
<1>8. a.treasury = view.treasury - Price(New(a)) BY <1>1, <1>2, <1>5, <1>6, <1>7
<1>9. a.treasury >= a.reserve BY <1>2, <1>3, <1>7
<1>10. \A x \in Venue : IsBuilt(view, x) => IsBuilt(a, x) BY <1>1, <1>2
<1>11. Funded(a) BY <1>1, <1>2, <1>8, <1>9, <1>10 DEF Funded
<1> QED BY <1>4, <1>11 DEF a

\* What plans commission.
LEMMA BoughtIs ==
  /\ Bought(<< >>) = {} /\ Bought(<< HOLD >>) = {} /\ \A v : Bought(<< v >>) \subseteq {v}
  /\ \A c, d : c \in Seq(Int) /\ d \in Seq(Int) => Bought(c \o d) = Bought(c) \cup Bought(d)
<1>1. Bought(<< >>) = {} BY DEF Bought
<1>2. ASSUME NEW v PROVE Bought(<< v >>) = {v} \ {HOLD}
  <2> DEFINE c == << v >>
  <2>1. DOMAIN c = {1} /\ c[1] = v OBVIOUS
  <2> HIDE DEF c
  <2>2. {c[k] : k \in DOMAIN c} = {v} BY <2>1
  <2> QED BY <2>2 DEF Bought, c
<1>3. ASSUME NEW c \in Seq(Int), NEW d \in Seq(Int)
      PROVE  Bought(c \o d) = Bought(c) \cup Bought(d)
  <2> DEFINE r == c \o d
  <2>1. /\ r \in Seq(Int) /\ Len(r) = Len(c) + Len(d) /\ Len(c) \in Nat /\ Len(d) \in Nat
        /\ \A k \in 1..Len(c) : r[k] = c[k]
        /\ \A k \in 1..Len(d) : r[Len(c) + k] = d[k]
    OBVIOUS
  <2>2. DOMAIN c = 1..Len(c) /\ DOMAIN d = 1..Len(d) OBVIOUS
  <2> HIDE DEF r
  <2>3. DOMAIN r = 1..Len(r) BY <2>1
  <2>4. \A k \in DOMAIN r : k \in DOMAIN c \/ k - Len(c) \in DOMAIN d BY <2>1, <2>2, <2>3
  <2>5. \A k \in DOMAIN c : k \in DOMAIN r /\ r[k] = c[k] BY <2>1, <2>2, <2>3
  <2>6. \A k \in DOMAIN d : Len(c) + k \in DOMAIN r /\ r[Len(c) + k] = d[k] BY <2>1, <2>2, <2>3
  <2>7. \A k \in DOMAIN r : k - Len(c) \in DOMAIN d => r[k] = d[k - Len(c)]
    <3> SUFFICES ASSUME NEW k \in DOMAIN r, k - Len(c) \in DOMAIN d PROVE r[k] = d[k - Len(c)]
      OBVIOUS
    <3>1. Len(c) + (k - Len(c)) = k BY <2>1, <2>3
    <3> QED BY <2>6, <3>1
  <2>8. {r[k] : k \in DOMAIN r} = {c[k] : k \in DOMAIN c} \cup {d[k] : k \in DOMAIN d}
    BY <2>4, <2>5, <2>6, <2>7
  <2>9. Bought(r) = Bought(c) \cup Bought(d) BY <2>8 DEF Bought
  <2> QED BY <2>9 DEF r
<1> QED BY <1>1, <1>2, <1>3

\* Funding is said of the view, which does not change.
LEMMA FundedSame ==
  ASSUME view' = view
  PROVE  \A s : (Funded(s)' <=> Funded(s)) /\ New(s)' = New(s)
BY DEF Funded, New, Price

\* The innermost call has changed and is funded.
LEMMA FundBecomes ==
  ASSUME SearchInv, FundInv, pc = "seek", NEW f \in Frame, Becomes(f), Funded(f.state),
         Bought(f.prefix) \subseteq New(f.state), New(Top.state) \subseteq New(f.state)
  PROVE  FundInv'
<1> SUFFICES ASSUME NEW n, n = Len(stack) PROVE FundInv' OBVIOUS
<1>1. stack \in Seq(Frame) /\ stack # << >> BY DEF SearchInv
<1>2. /\ n \in Nat \ {0} /\ Len(stack') = n
      /\ \A k \in 1..(n - 1) : stack'[k] = stack[k]
      /\ stack'[n] = f /\ view' = view /\ pc' = pc
  BY <1>1, BecomesIs
<1>3. Top = stack[n] BY DEF Top
<1>4. \A s : (Funded(s)' <=> Funded(s)) /\ New(s)' = New(s) BY <1>2, FundedSame
<1>5. ASSUME NEW k \in 1..n
      PROVE  Funded(stack'[k].state) /\ Bought(stack'[k].prefix) \subseteq New(stack'[k].state)
  <2>1. CASE k = n BY <1>2, <2>1
  <2>2. CASE k # n
    <3>1. k \in 1..(n - 1) BY <1>2, <2>2
    <3> QED BY <1>2, <3>1 DEF FundInv
  <2> QED BY <2>1, <2>2
<1>6. ASSUME NEW k \in 1..(n - 1) PROVE New(stack'[k].state) \subseteq New(stack'[k + 1].state)
  <2>1. New(stack[k].state) \subseteq New(stack[k + 1].state) BY DEF FundInv
  <2>2. CASE k < n - 1
    <3>1. k \in 1..(n - 1) /\ k + 1 \in 1..(n - 1) /\ k < n BY <1>2, <2>2
    <3> QED BY <1>2, <2>1, <3>1
  <2>3. CASE k = n - 1
    <3>1. k + 1 = n BY <1>2, <2>3
    <3> QED BY <1>2, <1>3, <2>1, <3>1
  <2> QED BY <1>2, <2>2, <2>3
<1> QED BY <1>2, <1>4, <1>5, <1>6 DEF FundInv

\* The innermost call has returned, with a plan that is funded or none.
LEMMA FundReturns ==
  ASSUME SearchInv, FundInv, stack # << >>, NEW a, Return(a),
         a.ok => \E s \in States : /\ Funded(s) /\ Bought(a.calls) \subseteq New(s)
                                   /\ New(Top.state) \subseteq New(s)
  PROVE  FundInv'
<1> SUFFICES ASSUME NEW n, n = Len(stack) PROVE FundInv' OBVIOUS
<1>1. stack \in Seq(Frame) BY DEF SearchInv
<1>2. /\ n \in Nat \ {0} /\ Len(stack') = n - 1
      /\ \A k \in 1..(n - 1) : stack'[k] = stack[k]
      /\ n > 1 => Top' = stack[n - 1]
      /\ n = 1 => stack' = << >>
      /\ view' = view /\ pc' = "back" /\ answer' = a
  BY <1>1, ReturnIs
<1>3. Top = stack[n] BY DEF Top
<1>4. \A s : (Funded(s)' <=> Funded(s)) /\ New(s)' = New(s) BY <1>2, FundedSame
<1>5. ASSUME NEW k \in 1..(n - 1)
      PROVE  Funded(stack'[k].state) /\ Bought(stack'[k].prefix) \subseteq New(stack'[k].state)
  <2>1. k \in 1..n BY <1>2
  <2>2. Funded(stack[k].state) /\ Bought(stack[k].prefix) \subseteq New(stack[k].state)
    BY <2>1 DEF FundInv
  <2> QED BY <1>2, <2>2
<1>6. ASSUME NEW k \in 1..(n - 1 - 1) PROVE New(stack'[k].state) \subseteq New(stack'[k + 1].state)
  <2>1. k \in 1..(n - 1) /\ k + 1 \in 1..(n - 1) BY <1>2
  <2>2. New(stack[k].state) \subseteq New(stack[k + 1].state) BY <2>1 DEF FundInv
  <2> QED BY <1>2, <2>1, <2>2
<1>7. n > 1 => New(stack[n - 1].state) \subseteq New(Top.state)
  <2> SUFFICES ASSUME n > 1 PROVE New(stack[n - 1].state) \subseteq New(Top.state) OBVIOUS
  <2>1. n - 1 \in 1..(n - 1) /\ (n - 1) + 1 = n BY <1>2
  <2>2. New(stack[n - 1].state) \subseteq New(stack[(n - 1) + 1].state) BY <2>1 DEF FundInv
  <2> QED BY <1>3, <2>1, <2>2
<1>8. stack' # << >> => Top' = stack[n - 1] /\ n > 1 BY <1>2
<1>9. a.ok => \E s \in States : /\ Funded(s) /\ Bought(a.calls) \subseteq New(s)
                                /\ stack' # << >> => New(stack[n - 1].state) \subseteq New(s)
  BY <1>7, <1>8
<1>10. (\E s \in States : /\ Funded(s) /\ Bought(a.calls) \subseteq New(s)
                          /\ stack' # << >> => New(stack[n - 1].state) \subseteq New(s))
       => (\E s \in States : /\ Funded(s) /\ Bought(answer.calls) \subseteq New(s)
                             /\ stack # << >> => New(Top.state) \subseteq New(s))'
  BY <1>2, <1>4, <1>8
<1> QED BY <1>2, <1>4, <1>5, <1>6, <1>9, <1>10 DEF FundInv

\* A call starts from its caller's state.
LEMMA FundPushes ==
  ASSUME SearchInv, FundInv, pc = "seek", NEW f \in Frame, NEW g \in Frame,
         stack' = Append([stack EXCEPT ![Len(stack)] = f], g),
         UNCHANGED << view, pc, answer, venue >>,
         f.state = Top.state, f.prefix = Top.prefix, g.state = f.state, g.prefix = << >>
  PROVE  FundInv'
<1> SUFFICES ASSUME NEW n, n = Len(stack) PROVE FundInv' OBVIOUS
<1>1. stack \in Seq(Frame) /\ stack # << >> BY DEF SearchInv
<1>2. /\ n \in Nat \ {0} /\ Len(stack') = n + 1
      /\ \A k \in 1..(n - 1) : stack'[k] = stack[k]
      /\ stack'[n] = f /\ stack'[n + 1] = g
  BY <1>1, PushIs
<1>3. Top = stack[n] /\ n \in 1..n BY <1>2 DEF Top
<1>4. \A s : (Funded(s)' <=> Funded(s)) /\ New(s)' = New(s) BY FundedSame
<1>5. ASSUME NEW k \in 1..(n + 1)
      PROVE  Funded(stack'[k].state) /\ Bought(stack'[k].prefix) \subseteq New(stack'[k].state)
  <2>1. Funded(f.state) /\ Bought(f.prefix) \subseteq New(f.state) BY <1>3 DEF FundInv
  <2>2. CASE k = n BY <1>2, <2>1, <2>2
  <2>3. CASE k = n + 1
    <3>1. Bought(g.prefix) = {} BY BoughtIs
    <3> QED BY <1>2, <2>1, <2>3, <3>1
  <2>4. CASE k # n /\ k # n + 1
    <3>1. k \in 1..(n - 1) /\ k \in 1..n BY <1>2, <2>4
    <3> QED BY <1>2, <3>1 DEF FundInv
  <2> QED BY <2>2, <2>3, <2>4
<1>6. ASSUME NEW k \in 1..n PROVE New(stack'[k].state) \subseteq New(stack'[k + 1].state)
  <2>1. k < n => New(stack[k].state) \subseteq New(stack[k + 1].state)
    <3>1. k < n => k \in 1..(n - 1) BY <1>2
    <3> QED BY <3>1 DEF FundInv
  <2>2. CASE k < n - 1
    <3>1. k \in 1..(n - 1) /\ k + 1 \in 1..(n - 1) /\ k < n BY <1>2, <2>2
    <3> QED BY <1>2, <2>1, <3>1
  <2>3. CASE k = n - 1
    <3>1. k + 1 = n /\ k < n /\ k \in 1..(n - 1) BY <1>2, <2>3
    <3> QED BY <1>2, <1>3, <2>1, <3>1
  <2>4. CASE k = n BY <1>2, <2>4
  <2> QED BY <1>2, <2>2, <2>3, <2>4
<1>7. (n + 1) - 1 = n BY <1>2
<1> QED BY <1>2, <1>4, <1>5, <1>6, <1>7 DEF FundInv

\* What the invariant says of the innermost call.
LEMMA TopIsFunded ==
  ASSUME SearchInv, FundInv, stack # << >>
  PROVE  Funded(Top.state) /\ Bought(Top.prefix) \subseteq New(Top.state) /\ view \in Views
<1>1. Len(stack) \in 1..Len(stack) /\ Top = stack[Len(stack)] BY TopIs
<1> QED BY <1>1 DEF FundInv, SearchInv

\* The state the walk ended in pays for what it walked.
LEMMA FundWalkEnds == SearchInv /\ FundInv /\ WalkEnds => FundInv'
<1> SUFFICES ASSUME SearchInv, FundInv, WalkEnds PROVE FundInv' OBVIOUS
<1>1. stack # << >> /\ Return(Plan(Top.prefix)) BY DEF WalkEnds, SearchInv
<1>2. Funded(Top.state) /\ Bought(Top.prefix) \subseteq New(Top.state) BY <1>1, TopIsFunded
<1>3. Plan(Top.prefix).calls = Top.prefix BY DEF Plan
<1>4. Top.state \in States BY <1>2 DEF Funded
<1> QED BY <1>1, <1>2, <1>3, <1>4, FundReturns

\* hold changes nothing.
LEMMA FundWalkHold == SearchInv /\ FundInv /\ WalkHold => FundInv'
<1> SUFFICES ASSUME SearchInv, FundInv, WalkHold PROVE FundInv' OBVIOUS
<1> DEFINE f == Top
           g == [f EXCEPT !.state = f.state, !.tasks = Tail(@),
                          !.prefix = Append(@, Head(f.tasks).venue)]
<1>1. /\ pc = "seek" /\ stack # << >> /\ f.tasks # << >> /\ Head(f.tasks) = Call("hold")
      /\ Becomes(g)
  BY DEF WalkHold, Walking, Walked, SearchInv
<1>2. f \in Frame /\ FrameOK(f) BY <1>1, TopIs
<1>3. Funded(f.state) BY <1>1, TopIsFunded
<1>4. New(Top.state) = New(f.state) OBVIOUS
<1> HIDE DEF f
<1>5. f.prefix = << >> BY <1>1, <1>2, HeadIs
<1>6. f.state \in States BY <1>2 DEF Frame
<1>7. g \in Frame /\ g.state = f.state /\ g.prefix = Append(f.prefix, Head(f.tasks).venue)
  BY <1>1, <1>2, <1>6, WalkedIs
<1> HIDE DEF g
<1>8. g.prefix = << HOLD >> BY <1>1, <1>5, <1>7, CallsDiffer
<1>9. Bought(g.prefix) = {} BY <1>8, BoughtIs
<1> QED BY <1>1, <1>3, <1>4, <1>7, <1>9, FundBecomes

\* A commission pays its price and keeps the reserve.
LEMMA FundWalkCommission == SearchInv /\ FundInv /\ WalkCommission => FundInv'
<1> SUFFICES ASSUME SearchInv, FundInv, WalkCommission PROVE FundInv' OBVIOUS
<1> DEFINE f == Top
<1>1. PICK v \in Venue :
        /\ Walking(Commission(v))
        /\ IF CanCommission(Top.state, v) THEN Walked(ActCommission(Top.state, v))
           ELSE Return(NoPlan)
  BY DEF WalkCommission
<1>2. /\ pc = "seek" /\ stack # << >> /\ f.tasks # << >> /\ Head(f.tasks) = Commission(v)
  BY <1>1 DEF Walking, SearchInv
<1>3. f \in Frame /\ FrameOK(f) BY <1>2, TopIs
<1>4. Funded(f.state) /\ view \in Views /\ New(Top.state) = New(f.state) BY <1>2, TopIsFunded
<1>5. CASE CanCommission(f.state, v)
  <2> DEFINE s == ActCommission(f.state, v)
             g == [f EXCEPT !.state = s, !.tasks = Tail(@),
                            !.prefix = Append(@, Head(f.tasks).venue)]
  <2>1. Becomes(g) BY <1>1, <1>5 DEF Walked
  <2> HIDE DEF f
  <2>2. f.prefix = << >> BY <1>2, <1>3, HeadIs
  <2>3. Funded(s) /\ New(s) = New(f.state) \cup {v} BY <1>4, <1>5, ActIsFunded
  <2>4. s \in States BY <2>3 DEF Funded
  <2> HIDE DEF s
  <2>5. g \in Frame /\ g.state = s /\ g.prefix = Append(f.prefix, Head(f.tasks).venue)
    BY <1>2, <1>3, <2>4, WalkedIs
  <2> HIDE DEF g
  <2>6. g.prefix = << v >> BY <1>2, <2>2, <2>5, CallsDiffer
  <2>7. Bought(g.prefix) \subseteq {v} BY <2>6, BoughtIs
  <2>8. Bought(g.prefix) \subseteq New(g.state) /\ New(Top.state) \subseteq New(g.state)
    BY <1>4, <2>3, <2>5, <2>7
  <2> QED BY <1>2, <2>1, <2>3, <2>5, <2>8, FundBecomes
<1>6. CASE ~CanCommission(f.state, v)
  <2>1. Return(NoPlan) BY <1>1, <1>6
  <2>2. ~NoPlan.ok BY DEF NoPlan
  <2> QED BY <1>2, <2>1, <2>2, FundReturns
<1> QED BY <1>5, <1>6

\* Counting methods changes no state.
LEMMA FundBranch == SearchInv /\ FundInv /\ Branch => FundInv'
<1> SUFFICES ASSUME SearchInv, FundInv, Branch PROVE FundInv' OBVIOUS
<1> DEFINE f == Top
           g == [f EXCEPT !.next = 1]
<1>1. pc = "seek" /\ stack # << >> /\ (f.fuel # 0 => Becomes(g)) /\ (f.fuel = 0 => Return(NoPlan))
  BY DEF Branch, Walking, SearchInv
<1>2. f \in Frame BY <1>1, TopIs
<1>3. Funded(f.state) /\ Bought(f.prefix) \subseteq New(f.state) BY <1>1, TopIsFunded
<1>4. New(Top.state) = New(f.state) OBVIOUS
<1> HIDE DEF f
<1>5. g \in Frame /\ g.prefix = f.prefix /\ g.state = f.state BY <1>2 DEF Frame
<1> HIDE DEF g
<1>6. CASE f.fuel # 0 BY <1>1, <1>3, <1>4, <1>5, <1>6, FundBecomes
<1>7. CASE f.fuel = 0
  <2>1. ~NoPlan.ok BY DEF NoPlan
  <2> QED BY <1>1, <1>7, <2>1, FundReturns
<1> QED BY <1>6, <1>7

\* A call starts where its caller is.
LEMMA FundTryMethod == SearchInv /\ FundInv /\ TryMethod => FundInv'
<1> SUFFICES ASSUME SearchInv, FundInv, TryMethod PROVE FundInv' OBVIOUS
<1> DEFINE f == Top
           n == Len(stack)
           t == TaskOf(f)
           s == f.state
           M == Methods(s, t)
           j == f.next
           g == [f EXCEPT !.next = @ + 1]
<1>1. pc = "seek" /\ j # 0 /\ stack # << >> BY DEF TryMethod, SearchInv
<1>2. IF j > Len(M) THEN Return(NoPlan)
      ELSE IF M[j] = {} THEN Becomes(g)
      ELSE \E d \in M[j] :
             /\ stack' = Append([stack EXCEPT ![n] = g],
                                Enter(s, d \o Tail(f.tasks), f.fuel - 1))
             /\ UNCHANGED << view, pc, answer, venue >>
  BY DEF TryMethod, TaskOf
<1>3. /\ f \in Frame /\ FrameOK(f) /\ Tried(f, j - 1)
  <2>1. Tried(f, j - 1) BY <1>1 DEF SearchInv
  <2> QED BY <1>1, <2>1, TopIs
<1>4. Funded(f.state) /\ Bought(f.prefix) \subseteq New(f.state) BY <1>1, TopIsFunded
<1>5. Top.state = f.state /\ Top.prefix = f.prefix OBVIOUS
<1> HIDE DEF f
<1>6. Compound(f) BY <1>1, <1>3, BranchesOn
<1>7. t \in Tasks BY <1>6, CompoundIs
<1>8. j \in Nat /\ s \in States BY <1>3 DEF Frame
<1>9. g \in Frame /\ g.prefix = f.prefix /\ g.state = f.state BY <1>3, TriedNextIs
<1>10. Len(M) \in Nat BY <1>7, MethodsEnd
<1> HIDE DEF g, j
<1>11. CASE j > Len(M)
  <2>1. Return(NoPlan) BY <1>2, <1>11
  <2>2. ~NoPlan.ok BY DEF NoPlan
  <2> QED BY <1>1, <2>1, <2>2, FundReturns
<1>12. CASE ~(j > Len(M)) /\ M[j] = {}
  <2>1. Becomes(g) BY <1>2, <1>12
  <2> QED BY <1>1, <1>4, <1>5, <1>9, <2>1, FundBecomes
<1>13. CASE ~(j > Len(M)) /\ M[j] # {}
  <2>1. PICK d \in M[j] :
          /\ stack' = Append([stack EXCEPT ![n] = g],
                             Enter(s, d \o Tail(f.tasks), f.fuel - 1))
          /\ UNCHANGED << view, pc, answer, venue >>
    BY <1>2, <1>13
  <2> DEFINE e == Enter(s, d \o Tail(f.tasks), f.fuel - 1)
  <2>2. j \in 1..Len(M)
    <3> HIDE DEF M
    <3> QED BY <1>1, <1>8, <1>10, <1>13
  <2>3. Leads(s, t, d)
    <3>1. \A i \in 1..(j - 1) : Dead(s, t, i) BY <1>3 DEF Tried
    <3> QED BY <1>7, <1>8, <2>2, <3>1, MethodLeads
  <2>4. e \in Frame /\ e.state = s /\ e.prefix = << >> BY <1>3, <1>6, <2>3, EnterIs
  <2>5. stack' = Append([stack EXCEPT ![n] = g], e) /\ UNCHANGED << view, pc, answer, venue >>
    BY <2>1
  <2> HIDE DEF e
  <2> QED BY <1>1, <1>5, <1>9, <2>4, <2>5, FundPushes
<1> QED BY <1>11, <1>12, <1>13

\* The caller's prefix is among what the state the plan ended in has paid for.
LEMMA FundBack == SearchInv /\ FundInv /\ Back => FundInv'
<1> SUFFICES ASSUME SearchInv, FundInv, Back PROVE FundInv' OBVIOUS
<1>1. pc = "back" /\ stack # << >> BY DEF Back
<1>2. Top \in Frame BY <1>1, TopIs
<1>3. Bought(Top.prefix) \subseteq New(Top.state) BY <1>1, TopIsFunded
<1>4. CASE answer.ok
  <2> DEFINE c == Top.prefix \o answer.calls
  <2>1. Return(Plan(c)) BY <1>4 DEF Back
  <2>2. Top.prefix \in Seq(Int) /\ answer.calls \in Seq(Int) BY <1>2 DEF Frame, SearchInv
  <2>3. PICK s \in States : /\ Funded(s) /\ Bought(answer.calls) \subseteq New(s)
                            /\ New(Top.state) \subseteq New(s)
    BY <1>1, <1>4 DEF FundInv
  <2>4. Bought(c) = Bought(Top.prefix) \cup Bought(answer.calls) BY <2>2, BoughtIs
  <2>5. Bought(c) \subseteq New(s) BY <1>3, <2>3, <2>4
  <2> HIDE DEF c
  <2>6. Plan(c).calls = c BY DEF Plan
  <2> QED BY <1>1, <2>1, <2>3, <2>5, <2>6, FundReturns
<1>5. CASE ~answer.ok
  <2>1. pc' = "seek" /\ UNCHANGED << view, stack, answer, venue >> BY <1>5 DEF Back
  <2>2. \A s : (Funded(s)' <=> Funded(s)) /\ New(s)' = New(s) BY <2>1, FundedSame
  <2> QED BY <1>1, <2>1, <2>2 DEF FundInv
<1> QED BY <1>4, <1>5

\* queen_plan keeps the plan.
LEMMA FundDecide == SearchInv /\ FundInv /\ Decide => FundInv'
<1> SUFFICES ASSUME SearchInv, FundInv, Decide PROVE FundInv' OBVIOUS
<1>1. /\ pc = "back" /\ pc' = "done" /\ view' = view /\ stack' = stack /\ answer' = answer
  BY DEF Decide
<1>2. \A s : (Funded(s)' <=> Funded(s)) /\ New(s)' = New(s) BY <1>1, FundedSame
<1>3. Top' = Top BY <1>1 DEF Top
<1> QED BY <1>1, <1>2, <1>3 DEF FundInv

\* The view has bought nothing.
LEMMA FundInit == Init => FundInv
<1> SUFFICES ASSUME Init PROVE FundInv OBVIOUS
<1> DEFINE f == Enter(view, << Call("run_the_ward") >>, Fuel)
<1>1. stack = << f >> /\ pc = "seek" /\ view \in Views BY DEF Init
<1>2. f.prefix = << >> /\ f.state = view BY DEF Enter
<1> HIDE DEF f
<1>3. Len(stack) = 1 /\ stack[1] = f BY <1>1
<1>4. New(view) = {} BY DEF New
<1>5. view \in States /\ view.cost \in [Venue -> Nat] /\ view.treasury \in Int BY <1>1, ViewIs
<1>6. Price({}) = 0 BY <1>5, PriceIs
<1>7. view.treasury = view.treasury - Price(New(view)) BY <1>4, <1>5, <1>6
<1>8. Funded(view) BY <1>4, <1>5, <1>7 DEF Funded
<1>9. Bought(f.prefix) = {} BY <1>2, BoughtIs
<1>10. (\A k \in 1..1 : k = 1) /\ 1..(1 - 1) = {} OBVIOUS
<1> QED BY <1>1, <1>2, <1>3, <1>8, <1>9, <1>10 DEF FundInv

\* Every state of the search stays funded.
LEMMA FundStep == SearchInv /\ FundInv /\ [Next]_vars => FundInv'
<1> SUFFICES ASSUME SearchInv, FundInv, [Next]_vars PROVE FundInv' OBVIOUS
<1>1. CASE UNCHANGED vars
  <2>1. view' = view /\ stack' = stack /\ pc' = pc /\ answer' = answer BY <1>1 DEF vars
  <2>2. \A s : (Funded(s)' <=> Funded(s)) /\ New(s)' = New(s) BY <2>1, FundedSame
  <2>3. Top' = Top BY <2>1 DEF Top
  <2> QED BY <2>1, <2>2, <2>3 DEF FundInv
<1> QED BY <1>1, FundWalkEnds, FundWalkHold, FundWalkCommission, FundBranch,
           FundTryMethod, FundBack, FundDecide DEF Next

\* A plan never spends scrip the ward will not have: all the venues of it together leave the
\* reserve, whatever was tried and given up on the way.
THEOREM PlansAreFunded == Spec => []PlanIsFunded
<1>1. Init => SearchInv /\ FundInv BY SearchInit, FundInit
<1>2. SearchInv /\ FundInv /\ [Next]_vars => (SearchInv /\ FundInv)' BY SearchStep, FundStep
<1>3. SearchInv /\ FundInv => PlanIsFunded
  <2> SUFFICES ASSUME SearchInv, FundInv, pc = "done", answer.ok, Bought(answer.calls) # {}
               PROVE  view.treasury >= Price(Bought(answer.calls)) + view.reserve
    BY DEF PlanIsFunded
  <2> DEFINE B == Bought(answer.calls)
  <2>1. PICK s \in States : Funded(s) /\ B \subseteq New(s) BY DEF FundInv
  <2>2. view \in States /\ view.cost \in [Venue -> Nat] /\ view.treasury \in Int
    BY ViewIs DEF SearchInv
  <2>3. view.reserve \in Nat BY <2>2 DEF States
  <2>4. Price(B) \in Int /\ Price(B) <= Price(New(s)) /\ Price(New(s)) \in Int
    <3> HIDE DEF B
    <3> DEFINE N == New(s)
    <3> HIDE DEF N
    <3>1. B \subseteq N BY <2>1 DEF N
    <3>2. Price(B) \in Int /\ Price(B) <= Price(N) BY <2>2, <3>1, PriceIs
    <3>3. N \subseteq N OBVIOUS
    <3>4. Price(N) \in Int BY <2>2, <3>3, PriceIs
    <3> QED BY <3>2, <3>4 DEF N
  <2>5. New(s) # {} BY <2>1
  <2>6. s.treasury = view.treasury - Price(New(s)) /\ s.treasury >= view.reserve
    BY <2>1, <2>5 DEF Funded
  <2> HIDE DEF B
  <2>7. view.treasury >= Price(B) + view.reserve BY <2>2, <2>3, <2>4, <2>6
  <2> QED BY <2>7 DEF B
<1> QED BY <1>1, <1>2, <1>3, PTL DEF Spec

=============================================================================
