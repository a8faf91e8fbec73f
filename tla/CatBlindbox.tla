----------------------------- MODULE CatBlindbox -----------------------------
(***************************************************************************)
(* contracts/BAC/blindbox/CatBlindbox.sol: a BAC002 whose assets are cats  *)
(* of species drawn at random from a pool.                                 *)
(***************************************************************************)
EXTENDS BAC002, BoxState

BoxInit ==
  /\ Init
  /\ OracleInit
  /\ catSpeciesPool = CatsSpecies
  /\ generatedCats = <<>>
  /\ requestToSender = [id \in RequestIds |-> None]

RequestNewBlindboxCat(caller) ==
  /\ catSpeciesPool # <<>>
  /\ Request
  /\ requestToSender' = [requestToSender EXCEPT ![requests'] = caller]
  /\ UNCHANGED <<vars, catSpeciesPool, generatedCats>>

(* Mutant: the last species is dropped, whichever was drawn. *)
RemoveCatSpecies_Last(index) ==
  catSpeciesPool' = [i \in 1..Len(catSpeciesPool) - 1 |-> catSpeciesPool[i]]

RemoveCatSpecies(index) == catSpeciesPool' = SwapAndPop(catSpeciesPool, index)

(* Issuing needs the caller to be an issuer, and the request to have been   *)
(* made here; it may have yielded a cat before.                             *)
GenerateBlindBoxCat(caller, id) ==
  LET index == resultMap[id] % Len(catSpeciesPool)
  IN  /\ catSpeciesPool # <<>>
      /\ ~CheckIdFulfilled(id)
      /\ requestToSender[id] # None
      /\ RemoveCatSpecies(index)
      /\ generatedCats' = Append(generatedCats,
           [species |-> catSpeciesPool[index + 1], owner |-> requestToSender[id]])
      /\ Issue(caller, requestToSender[id], Len(generatedCats))
      /\ UNCHANGED <<oracleVars, requestToSender>>

BoxNext ==
  \/ \E caller \in Users : \/ RequestNewBlindboxCat(caller)
                           \/ \E id \in RequestIds : GenerateBlindBoxCat(caller, id)

GroupNext ==
  \/ BoxNext
  \/ OracleNext /\ UNCHANGED <<vars, boxVars>>
  \/ Next /\ UNCHANGED <<oracleVars, boxVars>>

BoxSpec == BoxInit /\ [][GroupNext]_<<vars, oracleVars, boxVars>>

-----------------------------------------------------------------------------
Cats == [species : Species, owner : Users]

(* The variables hold values of their types. *)
BoxTypeOK ==
  /\ OracleTypeOK
  /\ catSpeciesPool \in Seq(Species)
  /\ generatedCats \in Seq(Cats)
  /\ requestToSender \in [RequestIds -> Users \cup {None}]
=============================================================================
