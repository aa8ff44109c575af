------------------------------ MODULE MCPlanner ------------------------------
(***************************************************************************)
(* The planner on the real price list, at the treasuries where an answer    *)
(* changes: each price plus the reserve, one scrip to either side.          *)
(***************************************************************************)
EXTENDS PlannerSearch

MCCost == [v \in Venue |-> << 120, 200, 260, 340, 420, 500 >>[v + 1]]

MCTreasuries ==
  {0} \cup UNION {{MCCost[v] + 49, MCCost[v] + 50} : v \in Venue} \cup {650, 1900}
==============================================================================
