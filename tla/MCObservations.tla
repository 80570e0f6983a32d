--------------------------- MODULE MCObservations ---------------------------
(***************************************************************************)
(* Observations for TLC: threads, snapshots, incidents and notes are model *)
(* values that nothing tells apart.                                        *)
(***************************************************************************)
EXTENDS Observations, TLC

Symmetry == Permutations(Thread) \cup Permutations(Snapshot)
                \cup Permutations(Incident) \cup Permutations(Note)
=============================================================================
