----------------------------- MODULE MCEventWorker -----------------------------
(* One core and one consumer, watched by processes that sign with the same   *)
(* account and share a database.                                             *)
EXTENDS EventWorker, TLC

CONSTANTS core, consumer, svc

MCCoreOf == consumer :> core
MCServedCore == [s \in Services |-> core]
MCAccountOf == [s \in Services |-> svc]

(* Which thread of a pool is which does not matter, nor do the values.       *)
ThreadSymmetry == Permutations(Threads) \cup Permutations(Results)
=============================================================================
