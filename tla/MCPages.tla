------------------------------- MODULE MCPages --------------------------------
(***************************************************************************)
(* The page store, with processes that nothing tells apart.                 *)
(***************************************************************************)
EXTENDS PageStore, TLC

Symmetry == Permutations(Proc)
===============================================================================
