----------------------------- MODULE MCAuditLog -----------------------------
(* Instances of AuditLog for TLC: the threads are interchangeable.         *)
EXTENDS AuditLog, TLC

CONSTANTS t1, t2

ThreadSymmetry == Permutations(Threads)
=============================================================================
