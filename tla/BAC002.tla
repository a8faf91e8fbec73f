-------------------------------- MODULE BAC002 --------------------------------
(***************************************************************************)
(* The non-fungible asset of contracts/BAC/bac002/BAC002.sol, with the     *)
(* lists that enumerate its assets, from which an asset is removed by      *)
(* moving the last one to its place.                                       *)
(*                                                                         *)
(* As in Suspendable, an action is a transaction that does not revert.     *)
(* Positions in lists are counted from 0, as in the code. Contracts that   *)
(* hold assets implement onBAC002Received, users need not. URIs are left   *)
(* out, and so is batchSendFrom, which does several sendFrom in one        *)
(* transaction.                                                            *)
(***************************************************************************)
EXTENDS Suspendable, BAC002State

ownerVars == <<assetOwner, assetApprovals>>
listVars == <<ownedAssetsCount, ownedAssets, ownedAssetsIndex>>
allVars == <<allAssets, allAssetsIndex>>
assetVars == <<ownerVars, operatorApprovals, listVars, allVars>>
vars == <<roleVars, assetVars>>

Init ==
  /\ RolesInit
  /\ assetOwner = [id \in Assets |-> None]
  /\ assetApprovals = [id \in Assets |-> None]
  /\ operatorApprovals = [a \in Accounts |-> {}]
  /\ ownedAssetsCount = [a \in Accounts |-> 0]
  /\ ownedAssets = [a \in Accounts |-> <<>>]
  /\ ownedAssetsIndex = [id \in Assets |-> 0]
  /\ allAssets = <<>>
  /\ allAssetsIndex = [id \in Assets |-> 0]

(* _isApprovedOrOwner *)
IsApprovedOrOwner(spender, id) ==
  /\ Exists(id)
  /\ \/ spender = assetOwner[id]
     \/ spender = assetApprovals[id]
     \/ spender \in operatorApprovals[assetOwner[id]]

-----------------------------------------------------------------------------
(* The lists.                                                              *)

(* The list without the asset at this position, the last one in its place. *)
SwapAndPop(list, index) ==
  [i \in 1..Len(list) - 1 |-> IF i = index + 1 THEN list[Len(list)] ELSE list[i]]

(* Mutant: the asset that moved keeps its old position. *)
MovedIndex_NotMoved(positions, list, index) == positions

(* The positions after SwapAndPop, that of the removed asset aside. *)
MovedIndex(positions, list, index) ==
  IF index = Len(list) - 1 THEN positions ELSE [positions EXCEPT ![list[Len(list)]] = index]

(* _removeAssetFromOwnerEnumeration *)
ListsWithout(owner, id) ==
  [ownedAssets EXCEPT ![owner] = SwapAndPop(@, ownedAssetsIndex[id])]

PositionsWithout(owner, id) ==
  MovedIndex(ownedAssetsIndex, ownedAssets[owner], ownedAssetsIndex[id])

(* _removeAssetFromAllAssetsEnumeration, which moves also when the asset is *)
(* the last, and clears its position.                                       *)
RemoveFromAllAssets(id) ==
  LET index == allAssetsIndex[id]
      moved == [allAssetsIndex EXCEPT ![allAssets[Len(allAssets)]] = index]
  IN  /\ allAssets # <<>>
      /\ allAssets' = SwapAndPop(allAssets, index)
      /\ allAssetsIndex' = [moved EXCEPT ![id] = 0]

-----------------------------------------------------------------------------
Approve(caller, to, id) ==
  /\ ~suspended
  /\ Exists(id) /\ to # assetOwner[id]
  /\ caller = assetOwner[id] \/ caller \in operatorApprovals[assetOwner[id]]
  /\ assetApprovals' = [assetApprovals EXCEPT ![id] = to]
  /\ UNCHANGED <<roleVars, assetOwner, operatorApprovals, listVars, allVars>>

SetApprovalForAll(caller, to, approved) ==
  /\ ~suspended
  /\ to # caller
  /\ operatorApprovals' =
       [operatorApprovals EXCEPT ![caller] = IF approved THEN @ \cup {to} ELSE @ \ {to}]
  /\ UNCHANGED <<roleVars, ownerVars, listVars, allVars>>

(* Mutant: the approval of the asset is not cleared. *)
HandOver_KeepsApproval(id, to) ==
  /\ assetOwner' = [assetOwner EXCEPT ![id] = to]
  /\ UNCHANGED assetApprovals

(* The asset changes hands, to None when it is destroyed; its approval ends. *)
HandOver(id, to) ==
  /\ assetOwner' = [assetOwner EXCEPT ![id] = to]
  /\ assetApprovals' = [assetApprovals EXCEPT ![id] = None]

SendFrom(caller, from, to, id) ==
  LET lists == ListsWithout(from, id)
      counted == [ownedAssetsCount EXCEPT ![from] = @ - 1]
  IN  /\ ~suspended
      /\ IsApprovedOrOwner(caller, id)
      /\ assetOwner[id] = from
      /\ ownedAssetsCount[from] > 0 /\ ownedAssets[from] # <<>>
      /\ HandOver(id, to)
      /\ ownedAssetsCount' = [counted EXCEPT ![to] = @ + 1]
      /\ ownedAssets' = [lists EXCEPT ![to] = Append(@, id)]
      /\ ownedAssetsIndex' = [PositionsWithout(from, id) EXCEPT ![id] = Len(lists[to])]
      /\ UNCHANGED <<roleVars, operatorApprovals, allVars>>

(* A suspension does not stop destroying. *)
Destroy(caller, id) ==
  LET owner == assetOwner[id]
  IN  /\ IsApprovedOrOwner(caller, id)
      /\ ownedAssetsCount[owner] > 0 /\ ownedAssets[owner] # <<>>
      /\ HandOver(id, None)
      /\ ownedAssetsCount' = [ownedAssetsCount EXCEPT ![owner] = @ - 1]
      /\ ownedAssets' = ListsWithout(owner, id)
      /\ ownedAssetsIndex' = [PositionsWithout(owner, id) EXCEPT ![id] = 0]
      /\ RemoveFromAllAssets(id)
      /\ UNCHANGED <<roleVars, operatorApprovals>>

(* issueWithAssetURI, which is not stopped either. *)
Issue(caller, to, id) ==
  /\ caller \in issuers
  /\ ~Exists(id)
  /\ assetOwner' = [assetOwner EXCEPT ![id] = to]
  /\ ownedAssetsCount' = [ownedAssetsCount EXCEPT ![to] = @ + 1]
  /\ ownedAssets' = [ownedAssets EXCEPT ![to] = Append(@, id)]
  /\ ownedAssetsIndex' = [ownedAssetsIndex EXCEPT ![id] = Len(ownedAssets[to])]
  /\ allAssets' = Append(allAssets, id)
  /\ allAssetsIndex' = [allAssetsIndex EXCEPT ![id] = Len(allAssets)]
  /\ UNCHANGED <<roleVars, assetApprovals, operatorApprovals>>

-----------------------------------------------------------------------------
(* What holders, and those they approved among these spenders, do. *)
HolderNext(spenders) ==
  \E caller \in Users :
    \/ \E to \in spenders, approved \in BOOLEAN : SetApprovalForAll(caller, to, approved)
    \/ \E id \in Assets :
         \/ Destroy(caller, id)
         \/ \E to \in spenders \cup {None} : Approve(caller, to, id)
         \/ \E from, to \in Accounts : SendFrom(caller, from, to, id)

IssuerNext ==
  \E caller \in Users, to \in Accounts, id \in Assets : Issue(caller, to, id)

Next == HolderNext(Accounts) \/ IssuerNext \/ (RolesNext /\ UNCHANGED assetVars)

Spec == Init /\ [][Next]_vars

-----------------------------------------------------------------------------
(* Every variable holds a value of its type. *)
TypeOK ==
  /\ RolesTypeOK
  /\ assetOwner \in [Assets -> Accounts \cup {None}]
  /\ assetApprovals \in [Assets -> Accounts \cup {None}]
  /\ operatorApprovals \in [Accounts -> SUBSET Accounts]
  /\ ownedAssetsCount \in [Accounts -> Nat]
  /\ ownedAssets \in [Accounts -> Seq(Assets)]
  /\ ownedAssetsIndex \in [Assets -> Nat]
  /\ allAssets \in Seq(Assets)
  /\ allAssetsIndex \in [Assets -> Nat]
=============================================================================
