--------------------------- MODULE MCApprovalStore ---------------------------
(* Instances of ApprovalStore for TLC: one process with one or two handler    *)
(* threads, or two processes with one thread each. Dana may only request,     *)
(* Omar and Ada may request and approve (DEVELOPER, OPERATOR and ADMIN).       *)
EXTENDS ApprovalRefinement, TLC

CONSTANTS r1, r2, p1, p2, t1, t2, dana, omar, ada

OneThread    == [t \in {t1} |-> p1]
TwoThreads   == [t \in {t1, t2} |-> p1]
TwoProcesses == [t \in {t1, t2} |-> IF t = t1 THEN p1 ELSE p2]

RequestSymmetry == Permutations(Request)
ThreadSymmetry  == Permutations(Thread)
=============================================================================
