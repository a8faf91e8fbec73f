------------------------------ MODULE BACAssets ------------------------------
(***************************************************************************)
(* What the contracts of contracts/BAC/auction live among: one BAC001, one *)
(* BAC002, each with its own roles, the clock, and the address This of the *)
(* contract. It holds assets of both (BAC001Holder, BAC002Holder) and      *)
(* sends the assets of others only as far as they approved it.             *)
(***************************************************************************)
EXTENDS BAC001, BAC002State

VARIABLES
  now,                                       \* block.timestamp
  nftIssuers, nftSuspenders, nftSuspended    \* the roles of the BAC002

NFT ==
  INSTANCE BAC002
    WITH issuers <- nftIssuers, suspenders <- nftSuspenders, suspended <- nftSuspended

nftVars ==
  <<nftIssuers, nftSuspenders, nftSuspended, assetOwner, assetApprovals, operatorApprovals,
    ownedAssetsCount, ownedAssets, ownedAssetsIndex, allAssets, allAssetsIndex>>
bacVars == <<now, vars, nftVars>>

BACInit == now = 0 /\ Init /\ NFT!Init

Tick ==
  /\ now < MaxTime
  /\ now' = now + 1
  /\ UNCHANGED <<vars, nftVars>>

(* What sellers and buyers do to use the contract: it is the only spender   *)
(* they approve here, and they appoint no operators. Nor do they send it    *)
(* anything for nothing, as it would only hold more than it owes.           *)
TradersNext ==
  \/ Tick
  \/ /\ \E caller \in Users, value \in Values :
            \/ IncreaseAllowance(caller, This, value)
            \/ \E to \in Users : Send(caller, to, value)
     /\ UNCHANGED <<now, nftVars>>
  \/ /\ \E caller \in Users, id \in Assets :
            NFT!Approve(caller, This, id) \/ NFT!Issue(caller, caller, id)
     /\ UNCHANGED <<now, vars>>

(* And what holders do instead, who send what they own or were sent.        *)
HoldersNext ==
  \/ TradersNext
  \/ /\ \E caller \in Users, id \in Assets :
            \/ NFT!Destroy(caller, id)
            \/ \E from, to \in Accounts : NFT!SendFrom(caller, from, to, id)
     /\ UNCHANGED <<now, vars>>

(* And all that happens without it: other spenders, operators and roles.    *)
BACNext ==
  \/ HoldersNext
  \/ Next /\ UNCHANGED <<now, nftVars>>
  \/ NFT!Next /\ UNCHANGED <<now, vars>>
=============================================================================
