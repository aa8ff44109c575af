------------------------------- MODULE Planner -------------------------------
(***************************************************************************)
(* The Queen's one decision (src/planner.cpp): which venue a ward pays for  *)
(* this cycle, or none.  The HTN domain is a list of lines of business in   *)
(* the order she argues about them.  A line that still wants something      *)
(* either commissions or holds; only a finished line hands on to the next.  *)
(*                                                                          *)
(* QueenPlan is the decision in closed form, used by Ward.  PlannerSearch   *)
(* holds the depth-first search over tasks and methods that the code runs,  *)
(* and its run shows that the two agree.                                    *)
(***************************************************************************)
EXTENDS Integers, Sequences

\* The venues, as indices into queen.c's table (planner.cpp's enum).
TAVERN == 0
DEN    == 1
RAILS  == 2
PLAZA  == 3
CHAPEL == 4
ROW    == 5
Venue  == 0..5

\* What queen_plan answers when the plan is nothing but `hold`.
HOLD == -1

\* A Frame this worn is repaired before anything else is built.
WEAR_THAT_CANNOT_WAIT == 60

\* is_built: the column holds the cycle of the commission, and 0 means not.
IsBuilt(view, v) == view.built[v] # 0

\* Variant: the reserve is forgotten.
CanCommissionNoReserve(view, v) ==
  /\ ~ IsBuilt(view, v)
  /\ view.treasury >= view.cost[v]

\* The preconditions of the action `commission`, the reserve included.
CanCommission(view, v) ==
  /\ ~ IsBuilt(view, v)
  /\ view.treasury >= view.cost[v] + view.reserve

\* m_row wants the Row only while there is room for whoever would come.
RowIsWorthIt(view) == ~ IsBuilt(view, ROW) /\ view.room_to_grow > 0

\* make_the_ward_earn and keep_the_sparks_working: a line of business is the
\* venues its methods commission, in method order.
EarnLine  == << RAILS, PLAZA >>
SparkLine == << DEN, TAVERN, CHAPEL >>

\* The line still wants something (the guards of m_save_to_earn and
\* m_save_for_sparks).
Wants(view, line) == \E k \in DOMAIN line : ~ IsBuilt(view, line[k])

\* What a line that wants something does: the first venue of it that can be
\* commissioned, or hold.
FromLine(view, line) ==
  LET can == {k \in DOMAIN line : CanCommission(view, line[k])}
  IN  IF can = {} THEN HOLD
      ELSE line[CHOOSE k \in can : \A j \in can : k <= j]

\* m_repair_first: worn Frames put the Den in front, when she can pay for it.
RepairFirst(view) ==
  /\ view.worst_wear >= WEAR_THAT_CANNOT_WAIT
  /\ CanCommission(view, DEN)

\* queen_plan: the first commission of the plan for run_the_ward.
QueenPlan(view) ==
  IF RepairFirst(view) THEN DEN
  ELSE IF Wants(view, EarnLine) THEN FromLine(view, EarnLine)
  ELSE IF Wants(view, SparkLine) THEN FromLine(view, SparkLine)
  ELSE IF RowIsWorthIt(view) /\ CanCommission(view, ROW) THEN ROW
  ELSE HOLD
==============================================================================
