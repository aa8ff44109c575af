------------------------------- MODULE MCShard --------------------------------
(***************************************************************************)
(* Small games: wards of three Sparks, one contract a cycle.                *)
(***************************************************************************)
EXTENDS Shard

\* No Spark, one too many for the build, two wards the second of which has room, two
\* full ones, and three; of one, two or four cycles.
MCGames ==
  {[cycles |-> n, nsparks |-> k] : n \in {1, 2}, k \in {0, 4, 8}}
    \cup {[cycles |-> 4, nsparks |-> k] : k \in {5, 6, 10}}
===============================================================================
