------------------------------- MODULE MCMarket -------------------------------
(* A deployer, who holds the supply, another user and the contract. The       *)
(* numbers may select either player, and either of the last two species.      *)
EXTENDS Market

MCCatsSpecies == <<"Persian", "Ragdoll">>

MCNoSpecies == <<>>
=============================================================================
