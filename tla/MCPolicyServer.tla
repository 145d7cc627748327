---------------------------- MODULE MCPolicyServer ----------------------------
(* PolicyServer on a small instance.                                        *)
EXTENDS PolicyServer, TLC

(* Threads and poses are only compared, so their names do not matter.       *)
Symmetry == Permutations(Workers) \cup Permutations(Poses)
===============================================================================
