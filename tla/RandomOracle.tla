----------------------------- MODULE RandomOracle -----------------------------
(***************************************************************************)
(* The oracle contract of a lottery or a blind box, APISampleOracle or     *)
(* RandomNumberSampleVRF, as its users see it: what OneShotRequests        *)
(* promises of it. Requests are numbered, and 0 is the requestId that was   *)
(* never set. Anybody may make requests; how they are answered is the      *)
(* matter of OracleCore and VRFCore.                                       *)
(***************************************************************************)
EXTENDS Naturals

CONSTANTS
  Numbers,      \* random numbers
  MaxRequests   \* bound: requests of a behaviour

ASSUME OracleAssumption == Numbers \subseteq Nat /\ MaxRequests \in Nat

VARIABLES
  requests,   \* number of requests made
  validIds,   \* the ids of the open ones
  resultMap   \* resultMap[requestId]: the number received, or 0

oracleVars == <<requests, validIds, resultMap>>

RequestIds == 0..MaxRequests

OracleInit ==
  /\ requests = 0
  /\ validIds = {}
  /\ resultMap = [id \in RequestIds |-> 0]

(* request, getRandomNumber: returns requests'. *)
Request ==
  /\ requests < MaxRequests
  /\ requests' = requests + 1
  /\ validIds' = validIds \cup {requests'}
  /\ UNCHANGED resultMap

(* __callback, __callbackRandomness *)
Callback(id, number) ==
  /\ id \in validIds
  /\ resultMap' = [resultMap EXCEPT ![id] = number]
  /\ validIds' = validIds \ {id}
  /\ UNCHANGED requests

OracleNext ==
  \/ Request
  \/ \E id \in validIds, number \in Numbers : Callback(id, number)

(* Despite its name it is TRUE while the request waits. *)
CheckIdFulfilled(id) == id \in validIds

OracleTypeOK ==
  /\ requests \in 0..MaxRequests
  /\ validIds \subseteq 1..requests
  /\ resultMap \in [RequestIds -> Nat]
=============================================================================
