--------------------------- MODULE OneShotRequests ---------------------------
(***************************************************************************)
(* What an oracle promises a consumer contract, without saying how: a      *)
(* consumer opens requests one after the other, and a request that was     *)
(* opened is answered at most once, with a value that never changes.       *)
(* OracleCore.tla and VRFCore.tla implement this.                          *)
(***************************************************************************)
EXTENDS Naturals

CONSTANTS
  Consumers,     \* consumer contracts
  Results,       \* values a data source may return
  MaxRequests,   \* bound on the requests of one consumer
  None           \* no answer yet

VARIABLES
  opened,        \* opened[c]: how many requests c has made
  answer         \* answer[id]: the answer of request id, or None

vars == <<opened, answer>>

RequestId == [callback : Consumers, nonce : 1..MaxRequests]

Init ==
  /\ opened = [c \in Consumers |-> 0]
  /\ answer = [id \in RequestId |-> None]

Open(c) ==
  /\ opened[c] < MaxRequests
  /\ opened' = [opened EXCEPT ![c] = @ + 1]
  /\ UNCHANGED answer

Answer(id, result) ==
  /\ id.nonce <= opened[id.callback]
  /\ answer[id] = None
  /\ answer' = [answer EXCEPT ![id] = result]
  /\ UNCHANGED opened

Next ==
  \/ \E c \in Consumers : Open(c)
  \/ \E id \in RequestId, result \in Results : Answer(id, result)

Spec == Init /\ [][Next]_vars
=============================================================================
