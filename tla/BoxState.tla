------------------------------- MODULE BoxState -------------------------------
(***************************************************************************)
(* The storage of a CatBlindbox besides the BAC002 it is, with the oracle  *)
(* it uses, and what holds of it. Species stand for themselves and their   *)
(* images; names and times are left out.                                   *)
(***************************************************************************)
EXTENDS BAC002State, RandomOracle

CONSTANT CatsSpecies   \* the sequence of species in the pool at first

Species == {CatsSpecies[i] : i \in 1..Len(CatsSpecies)}

ASSUME BoxAssumption ==
  /\ CatsSpecies \in Seq(Species)
  /\ \A i \in 1..Len(CatsSpecies) :
       /\ i - 1 \in Assets
       /\ \A j \in 1..i - 1 : CatsSpecies[j] # CatsSpecies[i]

VARIABLES
  catSpeciesPool,   \* the species left
  generatedCats,    \* the cats, the i-th of which is asset i - 1
  requestToSender   \* requestToSender[requestId]: an account, or None

boxVars == <<catSpeciesPool, generatedCats, requestToSender>>

(* No species is drawn twice, none is lost, though a request may be used    *)
(* again: each is that of one place of the pool or of one cat.              *)
SpeciesDrawnOnce ==
  \A i \in 1..Len(CatsSpecies) :
    LET inPool == {p \in 1..Len(catSpeciesPool) : catSpeciesPool[p] = CatsSpecies[i]}
        inCats == {c \in 1..Len(generatedCats) : generatedCats[c].species = CatsSpecies[i]}
    IN  \/ inCats = {} /\ \E p \in inPool : inPool = {p}
        \/ inPool = {} /\ \E c \in inCats : inCats = {c}
=============================================================================
