----------------------------- MODULE BAC002State -----------------------------
(***************************************************************************)
(* The storage of a BAC002, and what holds of it. The transactions are in  *)
(* BAC002.                                                                 *)
(***************************************************************************)
EXTENDS Parties, Naturals, Sequences

CONSTANT Assets   \* asset ids, which are of type uint256

ASSUME AssetsAssumption == IsFiniteSet(Assets)

VARIABLES
  assetOwner,         \* assetOwner[id]: an account, or None
  assetApprovals,     \* assetApprovals[id]: who else may send it, or None
  operatorApprovals,  \* operatorApprovals[owner]: who may send all that he owns
  ownedAssetsCount,   \* ownedAssetsCount[owner]
  ownedAssets,        \* ownedAssets[owner]: the list of what he owns
  ownedAssetsIndex,   \* ownedAssetsIndex[id]: its position in its owner's list
  allAssets,          \* the list of all assets
  allAssetsIndex      \* allAssetsIndex[id]: its position in it

Exists(id) == assetOwner[id] # None

(* The list names these assets, each of them once, at its position. *)
Enumerates(list, positions, owned) ==
  /\ \A i \in 1..Len(list) : list[i] \in owned /\ positions[list[i]] = i - 1
  /\ \A id \in owned : positions[id] < Len(list) /\ list[positions[id] + 1] = id

(* However assets were issued, sent on, also to their owner, and destroyed, *)
(* each account's list enumerates what it owns and is as long as its count, *)
(* the list of all assets enumerates those that exist, and the positions    *)
(* that the next removal will use are right.                                *)
EnumerationOK ==
  /\ \A a \in Accounts :
       /\ Enumerates(ownedAssets[a], ownedAssetsIndex, {id \in Assets : assetOwner[id] = a})
       /\ ownedAssetsCount[a] = Len(ownedAssets[a])
  /\ Enumerates(allAssets, allAssetsIndex, {id \in Assets : Exists(id)})

(* An approval does not outlive the ownership it was given under: when an   *)
(* asset changes hands, is destroyed or is issued anew, nobody is approved, *)
(* who could send it on before its new owner approves him.                  *)
ApprovalsEndWithOwnership ==
  [][\A id \in Assets : assetOwner'[id] # assetOwner[id] => assetApprovals'[id] = None
    ]_<<assetOwner, assetApprovals>>
=============================================================================
