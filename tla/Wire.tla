--------------------------------- MODULE Wire ---------------------------------
(***************************************************************************)
(* What a ward calls its entities and where it puts them: src/wire.h.       *)
(*                                                                          *)
(* A wire name is a ward and a local part, and the classes of one ward share*)
(* the local parts by fixed ranges.  Places are in metres (UM scales them). *)
(***************************************************************************)
EXTENDS Integers

WIRE_LOCAL_MAX == 1048576      \* 1u << WIRE_LOCAL_BITS
WIRE_WARD_MAX  == 4096         \* 1u << (32 - WIRE_LOCAL_BITS)

WIRE_QUEEN         == 0
WIRE_VENUE_BASE    == 1
WIRE_SPARK_BASE    == 256
WIRE_CONTRACT_BASE == 16384

\* What wire_id refuses to truncate: it exits instead.
Fits(ward, local) == ~(ward < 0 \/ ward >= WIRE_WARD_MAX \/ local >= WIRE_LOCAL_MAX)

\* wire_id, of arguments that fit: shift and or are a product and a sum.
wire_id(ward, local) == WIRE_LOCAL_MAX * ward + local

\* A Spark, a venue (from 0) and a row of the board (from 1), as their ward names them.
SparkWire(ward, id)  == wire_id(ward, WIRE_SPARK_BASE + id)
VenueWire(ward, v)   == wire_id(ward, WIRE_VENUE_BASE + v)
BoardWire(ward, row) == wire_id(ward, WIRE_CONTRACT_BASE + row)
QueenWire(ward)      == wire_id(ward, WIRE_QUEEN)

\* spark_home and nonphysical_place: one lattice on two planes.
COMMONS == 0
BAND    == -60
Lattice(n, plane)        == << ((n * 37) % 103) - 51, plane, ((n * 23) % 109) - 54 >>
spark_home(id)           == Lattice(id, COMMONS)
nonphysical_place(local) == Lattice(local, BAND)
===============================================================================
