----------------------------- MODULE JobCacheMC -----------------------------
(* Constants for TLC's runs of JobCache. *)
EXTENDS JobCache, TLC

OneWu == [r \in Results |-> "w1"]
WuOfEach == [r \in Results |-> r]

\* Sound where no property is temporal and all results are of one workunit.
Symmetry == Permutations(Pids) \cup Permutations(Results)
=============================================================================
