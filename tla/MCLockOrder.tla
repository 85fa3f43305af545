----------------------------- MODULE MCLockOrder -----------------------------
(* The tasks of a peer in one cluster.                                      *)
EXTENDS LockOrder

AllRoles == [t \in {"manager", "session", "remote", "stream", "scheduler", "handler"} |-> t]
AllTasks    == DOMAIN AllRoles
=============================================================================
