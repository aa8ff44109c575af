------------------------------ MODULE AtomicFile ------------------------------
(***************************************************************************)
(* What the page store of fdb_vfs.c promises SQLite: one file, one process   *)
(* that has it open for writing, and that process's private draft of it.     *)
(* The draft becomes the file in one step.  Nothing else is to be seen: not  *)
(* staging, not folding the log, not fetching ahead, not a crash.            *)
(***************************************************************************)
EXTENDS Integers

CONSTANTS Process, NoOne, Value

VARIABLES file, owner, draft

vars == << file, owner, draft >>

\* The places of a file: before each of its pages, and at its end.
Places(f) == {0} \cup {x + 1 : x \in DOMAIN f}

Init == file = << >> /\ owner = NoOne /\ draft = << >>

\* A process opens the file: whoever had it has it no more.
Take == /\ owner' \in Process /\ draft' = file /\ UNCHANGED file

\* The owner dies, closes, or loses the file to an open that is not through yet.
Lose == /\ owner' = NoOne /\ draft' = << >> /\ UNCHANGED file

\* A page of the draft is written, in place or at its end.
Write(pg, v) ==
  /\ owner # NoOne
  /\ draft' = [x \in DOMAIN draft \cup {pg} |-> IF x = pg THEN v ELSE draft[x]]
  /\ UNCHANGED << file, owner >>

Truncate(n) ==
  /\ owner # NoOne
  /\ draft' = [x \in 0..(n - 1) |-> draft[x]]
  /\ UNCHANGED << file, owner >>

\* The draft becomes the file.
Commit == /\ owner # NoOne /\ file' = draft /\ UNCHANGED << owner, draft >>

\* A close commits what is left and gives the file up.
Close == /\ owner # NoOne /\ file' = draft /\ owner' = NoOne /\ draft' = << >>

Next == \/ Take \/ Lose \/ Commit \/ Close
        \/ \E pg \in Places(draft), v \in Value : Write(pg, v)
        \/ \E n \in Places(draft) : Truncate(n)

Spec == Init /\ [][Next]_vars
===============================================================================
