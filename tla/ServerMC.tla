------------------------------ MODULE ServerMC ------------------------------
(***************************************************************************)
(* Instances of Server for TLC: definitions the configurations give to its *)
(* constants, and symmetry.  The classes of outputs are interchangeable,   *)
(* and so are the hosts where no constant tells them apart.                *)
(***************************************************************************)
EXTENDS ServerProperties, TLC

OutputSymmetry == Permutations(Outputs)
HostSymmetry == Permutations(Outputs) \cup Permutations(Hosts)

\* No homogeneous redundancy; one host has a class of its own.
NoHr == [h \in Hosts |-> 0]
OddHost == CHOOSE h \in Hosts : TRUE
TwoClasses == [h \in Hosts |-> IF h = OddHost THEN 1 ELSE 2]

\* The hosts that neither class nor trust tells apart.
PlainHosts == {h \in Hosts \ Trusted : HostClass[h] # 1}
PlainSymmetry == Permutations(Outputs) \cup Permutations(PlainHosts)

\* one_result_per_host_per_wu: every host is its own owner.
Self == [h \in Hosts |-> h]
=============================================================================
