----------------------------- MODULE MCLockDir -----------------------------
(* Instances of LockDir for TLC. *)
EXTENDS LockDir

CONSTANTS p1, p2, p3

\* p1 and p2 share a machine, p3 has one of its own.
Machines == [p \in Procs |-> IF p = p3 THEN "mb" ELSE "ma"]
NamedHosts == [p \in Procs |-> IF p = p3 THEN "hostb" ELSE "hosta"]

\* All processes share one machine.
SharedMachine == [p \in Procs |-> "ma"]
SharedHost == [p \in Procs |-> "hosta"]
=============================================================================
