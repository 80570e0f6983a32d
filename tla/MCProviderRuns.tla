--------------------------- MODULE MCProviderRuns ---------------------------
(***************************************************************************)
(* ProviderRuns for TLC. A manifest that ends at 1, one that begins at 1   *)
(* and leaves out a permission, and one that lasts too long to be loaded;  *)
(* a server without providers, the laboratory's and one with live          *)
(* providers.                                                              *)
(***************************************************************************)
EXTENDS ProviderRuns, TLC

Brief  == [providers |-> {"tests", "builds", "codex", "chat"},
           permissions |-> {"tests", "builds", "codex", "chat"}, from |-> 0, until |-> 1]
Later  == [providers |-> {"tests", "builds"}, permissions |-> {"tests"}, from |-> 1, until |-> 2]
TooLong == [Brief EXCEPT !.until = 3]

Manifests == {Brief, Later, TooLong}

NoProviders == [k \in Kind |-> "none"]
Laboratory  == [k \in Kind |-> IF k = "chat" THEN "none" ELSE "synthetic"]
Live        == [k \in Kind |-> "live"]

Servers == {NoProviders, Laboratory, Live}

Symmetry == Permutations(Run) \cup Permutations(Thread)
=============================================================================
