-------------------------------- MODULE MCWt ---------------------------------
(***************************************************************************)
(* Two connections of two streams each, one id used by both, and a seat     *)
(* less than there are ids.  One command is longer than a seat's buffer.    *)
(***************************************************************************)
EXTENDS WtSession, TLC

CONSTANTS c1, c2

MCStream   == {<< c1, 4 >>, << c1, 8 >>, << c2, 4 >>, << c2, 12 >>}
MCCommands == {(<< c1, 4 >> :> 3) @@ (<< c1, 8 >> :> 1) @@ (<< c2, 4 >> :> 2) @@ (<< c2, 12 >> :> 1)}
==============================================================================
