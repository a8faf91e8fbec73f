-------------------------- MODULE AuctionFixedPrice --------------------------
(***************************************************************************)
(* contracts/BAC/auction/AuctionFixedPrice.sol: a seller hands an asset    *)
(* over to the contract, and the first who pays its price is given it. The *)
(* duration is the time at which the sale ends.                            *)
(***************************************************************************)
EXTENDS BACAssets, AuctionState

AuctionDetails ==
  [seller : Users, price : Prices, duration : Durations, isActive : BOOLEAN]

AuctionInit == BACInit /\ nftAssetToAuction = [id \in Assets |-> None]

(* The struct replaces that of an earlier auction of the asset. *)
CreateNFTAssetAuction(caller, id, price, duration) ==
  /\ NFT!SendFrom(This, caller, This, id)
  /\ nftAssetToAuction' = [nftAssetToAuction EXCEPT
       ![id] = [seller |-> caller, price |-> price, duration |-> duration, isActive |-> TRUE]]
  /\ UNCHANGED <<now, vars>>

Deactivate(id) ==
  nftAssetToAuction' = [nftAssetToAuction EXCEPT ![id].isActive = FALSE]

(* Mutant: the auction stays active after the sale. *)
PurchaseNFTAsset_StaysActive(caller, id) ==
  LET auction == nftAssetToAuction[id]
  IN  /\ IsActive(id) /\ auction.duration > now
      /\ SendFrom(This, caller, auction.seller, auction.price)
      /\ NFT!SendFrom(This, This, caller, id)
      /\ UNCHANGED <<now, nftAssetToAuction>>

PurchaseNFTAsset(caller, id) ==
  LET auction == nftAssetToAuction[id]
  IN  /\ IsActive(id) /\ auction.duration > now
      /\ Deactivate(id)
      /\ SendFrom(This, caller, auction.seller, auction.price)
      /\ NFT!SendFrom(This, This, caller, id)
      /\ UNCHANGED now

CancelAution(caller, id) ==
  /\ IsActive(id) /\ nftAssetToAuction[id].seller = caller
  /\ Deactivate(id)
  /\ NFT!SendFrom(This, This, caller, id)
  /\ UNCHANGED <<now, vars>>

AuctionNext ==
  \E caller \in Users, id \in Assets :
    \/ \E price \in Prices, duration \in Durations :
         CreateNFTAssetAuction(caller, id, price, duration)
    \/ PurchaseNFTAsset(caller, id)
    \/ CancelAution(caller, id)

FixedPriceNext == AuctionNext \/ (BACNext /\ UNCHANGED nftAssetToAuction)

FixedPriceSpec == AuctionInit /\ [][FixedPriceNext]_<<bacVars, nftAssetToAuction>>

-----------------------------------------------------------------------------
(* The variable holds a value of its type. *)
AuctionTypeOK ==
  /\ now \in 0..MaxTime
  /\ nftAssetToAuction \in [Assets -> AuctionDetails \cup {None}]
=============================================================================
