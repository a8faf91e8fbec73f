---------------------------- MODULE AuctionState -----------------------------
(***************************************************************************)
(* The storage of an auction contract, of either kind, and what holds      *)
(* of it.                                                                  *)
(***************************************************************************)
EXTENDS BAC002State

VARIABLE nftAssetToAuction   \* nftAssetToAuction[id]: auctionDetails, or None

IsActive(id) == nftAssetToAuction[id] # None /\ nftAssetToAuction[id].isActive

(* While an auction is active the asset is in the hands of the contract, so *)
(* that it can be delivered or given back: no transaction of the seller, of *)
(* an operator he appointed or of a spender he once approved takes it away. *)
(* (BACNext has all of these; the runs of Market have fewer of them, and    *)
(* beside the auctions for bids only approvals of the contract.)            *)
ActiveAssetIsHeld ==
  \A id \in Assets : IsActive(id) => assetOwner[id] = This
=============================================================================
