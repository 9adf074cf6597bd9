---------------------------- MODULE MCExecutorApi ----------------------------
(* Small instances of ExecutorApi for TLC. *)
EXTENDS ExecutorApi, TLC

CONSTANTS s1, s2, s3, v1, v2, i1

\* Every session from one visitor and one address.
OneVisitor == [s \in Sessions |-> v1]
OneIp == [s \in Sessions |-> i1]
Symmetry == Permutations(Sessions) \cup Permutations(Conns) \cup Permutations(Workers)

\* s3 comes from another visitor behind the same address.
TwoVisitors == [s \in Sessions |-> IF s = s3 THEN v2 ELSE v1]
SameVisitor == Permutations({s1, s2}) \cup Permutations(Conns) \cup Permutations(Workers)

=============================================================================
