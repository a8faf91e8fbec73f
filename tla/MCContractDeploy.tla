--------------------------- MODULE MCContractDeploy ---------------------------
(* Three services with workers for the same two places, and two versions.      *)
EXTENDS ContractDeploy, TLC

CONSTANTS oracleCore, vrfCore

MCWorkers == [s \in Services |-> <<oracleCore, vrfCore>>]

Symmetry == Permutations(Services) \cup Permutations(Versions)
=============================================================================
