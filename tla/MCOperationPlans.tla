-------------------------- MODULE MCOperationPlans --------------------------
(* Instances of OperationPlans for TLC. Omar may request and approve, Ada     *)
(* approves (OPERATOR and ADMIN).                                             *)
EXTENDS OperationPlans, TLC

CONSTANTS q1, q2, t1, t2, omar, ada, b1

PlanSymmetry   == Permutations(Plan)
ThreadSymmetry == Permutations(Thread)
=============================================================================
