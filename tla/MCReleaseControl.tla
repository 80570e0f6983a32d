-------------------------- MODULE MCReleaseControl --------------------------
(* Instances of ReleaseControl for TLC. Omar may request and approve, Ada    *)
(* approves (OPERATOR and ADMIN).                                            *)
EXTENDS ReleaseControl, TLC

CONSTANTS d1, d2, k1, t1, t2, a, x, s1, s2, omar, ada, b1

ThreadAndStagingSymmetry == Permutations(Thread) \cup Permutations(Staging)
=============================================================================
