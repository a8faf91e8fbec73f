----------------------------- MODULE MCOracleCore -----------------------------
(* Two cores, a well-behaved consumer of the first and a consumer of the     *)
(* second whose callback may revert.                                         *)
EXTENDS OracleCore, TLC

CONSTANTS k1, k2, good, bad

MCCoreOf == (good :> k1) @@ (bad :> k2)
=============================================================================
