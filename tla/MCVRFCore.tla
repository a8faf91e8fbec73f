------------------------------- MODULE MCVRFCore -------------------------------
(* A core that is given the block hash, with a client nobody else speaks for, *)
(* and one that asks blockhash(), with a client others may speak for. The     *)
(* definitions hold for either client alone, too.                             *)
EXTENDS VRFCore, TLC

CONSTANTS k1, k25519, own, keyHash

MCCoreOf == [c \in Clients |-> IF c = own THEN k1 ELSE k25519]
MCKeyOf == [c \in Clients |-> keyHash]

(* Seeds are only hashed. *)
SeedSymmetry == Permutations(Seeds)
=============================================================================
