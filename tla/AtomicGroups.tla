----------------------------- MODULE AtomicGroups -----------------------------
(***************************************************************************)
(* What the store plane's parallel commit promises a caller                 *)
(* (thirdparty/store-plane/fdb_vfs.c 1228-1265): a group of writes to       *)
(* several databases happens in one step, in all of them, and stays.        *)
(* Nothing is said of who wrote it, of crashes or of recovery.              *)
(***************************************************************************)
CONSTANTS
  Db,       \* the databases
  Txn       \* the groups

VARIABLE contents   \* the groups each database holds

Init == contents = [d \in Db |-> {}]

\* A group that no database holds is written to all the databases it wrote.
CommitGroup(t, W) ==
  /\ \A d \in Db : t \notin contents[d]
  /\ contents' = [d \in Db |-> IF d \in W THEN contents[d] \cup {t} ELSE contents[d]]

Next == \E t \in Txn, W \in (SUBSET Db) \ {{}} : CommitGroup(t, W)

Spec == Init /\ [][Next]_contents
===============================================================================
