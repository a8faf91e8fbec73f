----------------------------- MODULE MCVRFWorker -----------------------------
(* In a group of generation 3 the service listens to a core that is given the *)
(* block hash and to one that asks for it, in one of generation 2 only to the *)
(* latter. It is the core of two clients, one of which others may speak for   *)
(* and may make ask the other core.                                           *)
EXTENDS VRFWorker, TLC

CONSTANTS k1, asking, key

MCCoreOf == [c \in Clients |-> asking]
MCKeyOf == [c \in Clients |-> key]
MCServed ==
  [p \in Platforms |-> IF p = "fiscobcos3" THEN {k1, asking} ELSE {asking}]

(* Which thread is which does not matter. *)
ThreadSymmetry == Permutations(Threads)
=============================================================================
