------------------------------- MODULE MCFreeze -------------------------------
(***************************************************************************)
(* Three things, one of two geoms, and an avatar: a stack of three is more  *)
(* than a tick may freeze.                                                  *)
(***************************************************************************)
EXTENDS Freeze, TLC

CONSTANTS crate, beam, door, avatar

MCOrders == {<< crate, avatar, beam, door >>}
MCPieces == (crate :> 1) @@ (beam :> 2) @@ (door :> 1) @@ (avatar :> 1)
===============================================================================
