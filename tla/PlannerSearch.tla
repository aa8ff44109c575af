---------------------------- MODULE PlannerSearch ----------------------------
(***************************************************************************)
(* The search queen_plan really runs: tw_seek_plan over the ward's domain,  *)
(* depth first, methods in declaration order, backtracking when an action's *)
(* precondition fails.  The recursion is a stack of the calls in progress,  *)
(* and one step is one task walked, one method tried or one return.         *)
(*                                                                          *)
(* The memo caches and the method statistics of tw_planner.hpp are left     *)
(* out: a cache returns what the search returned before, and statistics     *)
(* only gain positive evidence while a finished plan is unwinding, so the   *)
(* declaration order is never changed within a plan.  The witness oracle    *)
(* and the plausibility probe look at goals and blacklists, and the ward's  *)
(* domain has neither.  Fuel is kept; the wall-clock budget is Ward's fault *)
(* "plan".                                                                  *)
(*                                                                          *)
(* The specification decides one view at a time, for every view of a        *)
(* bounded set, so that TLC compares the search with QueenPlan.             *)
(***************************************************************************)
EXTENDS Planner, Sums

CONSTANTS
  Treasuries,   \* the treasury of a view
  Wears,        \* the worst wear of a view
  Rooms,        \* how many Sparks the ward could still take
  Reserve,      \* 25 scrip a Spark
  Cost,         \* VENUES[].cost
  Cycle,        \* the cycle a commission is stamped with
  Fuel          \* TW_MAX_DEPTH

ASSUME PlannerBounds ==
  /\ Treasuries \subseteq Nat /\ Wears \subseteq Nat /\ Rooms \subseteq Nat
  /\ Reserve \in Nat /\ Cycle \in Nat \ {0} /\ Fuel \in Nat
  /\ Cost \in [Venue -> Nat]

\* TW_MAX_DEPTH is 400.  A line of business is entered once for each venue
\* bought in it and once to hand on, so nine calls nest at most.
ASSUME FuelSuffices == Fuel >= 9

Views == [treasury: Treasuries, worst_wear: Wears, room_to_grow: Rooms,
          built: [Venue -> {0, Cycle}], reserve: {Reserve}, cost: {Cost}]

\* Tasks are calls by name; `commission` carries the venue.  A plan is the
\* sequence of the actions' venues, HOLD for the action `hold`.
Call(name)     == [name |-> name, venue |-> HOLD]
Commission(v)  == [name |-> "commission", venue |-> v]
NoPlan         == [ok |-> FALSE, calls |-> << >>]
Plan(calls)    == [ok |-> TRUE, calls |-> calls]

\* act_commission on the planner's copy of the ward.
ActCommission(s, v) ==
  [s EXCEPT !.built[v] = Cycle, !.treasury = @ - s.cost[v]]

\* next_of: buy this, then carry on with the same task.  A method yields the
\* set of its decompositions: empty when it does not apply.
NextOf(s, task, v) ==
  IF IsBuilt(s, v) THEN {} ELSE {<< Commission(v), Call(task) >>}

\* Variant: nothing is saved for; a line that cannot buy hands on.
SaveNothing(s, line) == {}

\* m_save_to_earn, m_save_for_sparks: hold for what is still wanted.
Save(s, line) == IF Wants(s, line) THEN {<< Call("hold") >>} ELSE {}

Tasks == {"run_the_ward", "make_the_ward_earn", "keep_the_sparks_working", "let_word_get_out"}

\* The methods of each task, in the order ward_domain pushes them.
Methods(s, task) ==
  CASE task = "run_the_ward" ->
         << IF IsBuilt(s, DEN) \/ s.worst_wear < WEAR_THAT_CANNOT_WAIT THEN {}
            ELSE {<< Commission(DEN), Call("keep_the_sparks_working") >>},
            {<< Call("make_the_ward_earn") >>} >>
    [] task = "make_the_ward_earn" ->
         << NextOf(s, task, RAILS), NextOf(s, task, PLAZA), Save(s, << RAILS, PLAZA >>),
            {<< Call("keep_the_sparks_working") >>} >>
    [] task = "keep_the_sparks_working" ->
         << NextOf(s, task, DEN), NextOf(s, task, TAVERN), NextOf(s, task, CHAPEL),
            Save(s, << TAVERN, DEN, CHAPEL >>), {<< Call("let_word_get_out") >>} >>
    [] task = "let_word_get_out" ->
         << IF RowIsWorthIt(s) THEN {<< Commission(ROW) >>} ELSE {}, {<< Call("hold") >>} >>

\* queen_plan's last loop: the first commission of the plan, or hold.
FirstCommission(calls) ==
  LET bought == {k \in DOMAIN calls : calls[k] # HOLD}
  IN  IF bought = {} THEN HOLD
      ELSE calls[CHOOSE k \in bought : \A j \in bought : k <= j]

VARIABLES
  view,    \* the ward she is asked about
  stack,   \* the calls of tw_seek_plan in progress, the innermost last
  pc,      \* "seek", "back" when a call has returned, "done"
  answer,  \* what it returned: a plan, or NoPlan
  venue    \* queen_plan's *venue

vars == << view, stack, pc, answer, venue >>

\* A call of tw_seek_plan.  The tasks before tasks[idx] have been walked and are
\* in its prefix; next counts the methods of tasks[idx] once it branches.
Enter(s, tasks, fuel) ==
  [state |-> s, tasks |-> tasks, prefix |-> << >>, fuel |-> fuel, next |-> 0]

Init ==
  /\ view \in Views
  /\ stack = << Enter(view, << Call("run_the_ward") >>, Fuel) >>
  /\ pc = "seek" /\ answer = NoPlan /\ venue = HOLD

Top     == stack[Len(stack)]
Callers == SubSeq(stack, 1, Len(stack) - 1)

Becomes(f) ==
  /\ stack' = [stack EXCEPT ![Len(stack)] = f]
  /\ UNCHANGED << view, pc, answer, venue >>

Return(a) ==
  /\ stack' = Callers /\ pc' = "back" /\ answer' = a
  /\ UNCHANGED << view, venue >>

\* The task the innermost call is walking.
Walking(t) ==
  /\ pc = "seek" /\ Top.next = 0 /\ Top.tasks # << >>
  /\ t = Head(Top.tasks)

\* An action that could be done: the walk goes on from the state it left.
Walked(s) ==
  Becomes([Top EXCEPT !.state = s, !.tasks = Tail(@), !.prefix = Append(@, Head(Top.tasks).venue)])

\* The walk is through: the call returns its prefix.
WalkEnds == pc = "seek" /\ Top.next = 0 /\ Top.tasks = << >> /\ Return(Plan(Top.prefix))

WalkHold == Walking(Call("hold")) /\ Walked(Top.state)

\* act_commission, or the precondition that fails and ends the call.
WalkCommission ==
  \E v \in Venue :
    /\ Walking(Commission(v))
    /\ IF CanCommission(Top.state, v) THEN Walked(ActCommission(Top.state, v)) ELSE Return(NoPlan)

\* A compound task ends the walk; fuel bounds how deep the calls nest.
Branch ==
  \E task \in Tasks :
    /\ Walking(Call(task))
    /\ IF Top.fuel = 0 THEN Return(NoPlan) ELSE Becomes([Top EXCEPT !.next = 1])

\* Variant: a method that was searched for a plan is not counted as tried.
TryMethodAgain ==
  /\ pc = "seek" /\ Top.next # 0
  /\ LET methods == Methods(Top.state, Head(Top.tasks).name)
     IN  IF Top.next > Len(methods) THEN Return(NoPlan)
         ELSE IF methods[Top.next] = {} THEN Becomes([Top EXCEPT !.next = @ + 1])
         ELSE \E d \in methods[Top.next] :
                /\ stack' = Append(stack, Enter(Top.state, d \o Tail(Top.tasks), Top.fuel - 1))
                /\ UNCHANGED << view, pc, answer, venue >>

\* The methods of the task in turn: one that applies is searched by a call of
\* its own, ahead of the tasks that remained.
TryMethod ==
  /\ pc = "seek" /\ Top.next # 0
  /\ LET methods == Methods(Top.state, Head(Top.tasks).name)
         tried   == [Top EXCEPT !.next = @ + 1]
     IN  IF Top.next > Len(methods) THEN Return(NoPlan)
         ELSE IF methods[Top.next] = {} THEN Becomes(tried)
         ELSE \E d \in methods[Top.next] :
                /\ stack' = Append([stack EXCEPT ![Len(stack)] = tried],
                                   Enter(Top.state, d \o Tail(Top.tasks), Top.fuel - 1))
                /\ UNCHANGED << view, pc, answer, venue >>

\* finish: a plan is returned behind the caller's prefix; without one the caller
\* tries its next method.
Back ==
  /\ pc = "back" /\ stack # << >>
  /\ IF answer.ok THEN Return(Plan(Top.prefix \o answer.calls))
     ELSE pc' = "seek" /\ UNCHANGED << view, stack, answer, venue >>

\* queen_plan returns: the first commission of the plan, if there is a plan.
Decide ==
  /\ pc = "back" /\ stack = << >>
  /\ pc' = "done"
  /\ venue' = IF answer.ok THEN FirstCommission(answer.calls) ELSE venue
  /\ UNCHANGED << view, stack, answer >>

Next == WalkEnds \/ WalkHold \/ WalkCommission \/ Branch \/ TryMethod \/ Back \/ Decide

Spec == Init /\ [][Next]_vars

\* queen_plan is a plain call: nothing in it waits.
FairSpec == Spec /\ WF_vars(Next)

\* The search never runs out of fuel or methods, and its answer is the venue
\* QueenPlan names: a Queen who wants something saves for it and never settles
\* for a cheaper venue of a later line (planner.cpp 103-110, 184-206, 242-268).
SearchAgrees == pc = "done" => answer.ok /\ venue = QueenPlan(view)

\* Every search comes to an end: a commission that cannot be paid is not tried again from the
\* same state, and buying and handing on from line to line is never circular, though the
\* methods of a line call the line again (planner.cpp 95-101; tw_planner.hpp 603-622).
SearchEnds == <>(pc = "done")

\* What the venues of a set cost together.
Price(V) == Total([k \in 1..6 |-> IF k - 1 \in V THEN view.cost[k - 1] ELSE 0], 6)

\* The venues a plan commissions.
Bought(calls) == {calls[k] : k \in DOMAIN calls} \ {HOLD}

\* The whole plan, and not only its first commission, is affordable in order:
\* what is left after every venue of it still covers the reserve
\* (planner.cpp 95-97, "a plan never spends scrip the ward will not have").
PlanIsFunded ==
  pc = "done" /\ answer.ok /\ Bought(answer.calls) # {}
    => view.treasury >= Price(Bought(answer.calls)) + view.reserve
==============================================================================
