------------------------------ MODULE BidState -------------------------------
(***************************************************************************)
(* What AuctionUnfixedPrice stores besides the auctions, and what holds of *)
(* it.                                                                     *)
(***************************************************************************)
EXTENDS AuctionState, Functions

VARIABLES
  bids,          \* bids[id][account]: of all auctions of the asset so far
  pendingBids,   \* calls of bid, the latest first, that sent a deposit back and
                 \* wait for the bidder's onBAC001Received to return
  auctions,      \* history: auctions[id], how often it was put on auction
  bidReentered   \* history: the contract was called while a bid waited

(* In the first auction of an asset, the one who would win it now is among  *)
(* the bidders that are listed, each of whom is once, and what the seller   *)
(* would be paid is what this bidder deposited; whatever bidders call       *)
(* before the bids that refunded them are written.                          *)
WinnerPaysHisBid ==
  \A id \in Assets :
    LET auction == nftAssetToAuction[id]
    IN  auctions[id] = 1 /\ IsActive(id) /\ auction.maxBidUser # None =>
          /\ auction.maxBidUser \in Range(auction.users)
          /\ auction.maxBid = bids[id][auction.maxBidUser]
          /\ IsInjective(auction.users)
=============================================================================
