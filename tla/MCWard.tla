------------------------------- MODULE MCWard --------------------------------
(***************************************************************************)
(* Small wards.  Prices are a third of the code's, in the code's order, so  *)
(* that a behaviour of a few cycles sees the Queen build, hold and save.    *)
(***************************************************************************)
EXTENDS Ward

MCCost == [v \in Venue |-> << 40, 66, 86, 113, 140, 166 >>[v + 1]]

\* One safe contract and one risky one.
MCDraws == {[risk |-> 10, more |-> 0], [risk |-> 60, more |-> 19]}
OneDraw == {[risk |-> 30, more |-> 9]}
==============================================================================
