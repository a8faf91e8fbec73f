------------------------- MODULE AuctionUnfixedPrice -------------------------
(***************************************************************************)
(* contracts/BAC/auction/AuctionUnfixedPrice.sol: bidders deposit their    *)
(* bids in the contract until the seller executes the sale or cancels it.  *)
(* The duration is the time at which bidding ends.                         *)
(*                                                                         *)
(* A user may be a contract, whose onBAC001Received is called when it is   *)
(* sent something. bid sends the old deposit back before it writes the new *)
(* bid: BidCallsOut is what it does up to that call, BidReturns the rest,  *)
(* Bid all of it, when nothing is called from there. Elsewhere such calls  *)
(* come when all is written, and are like calls that follow.               *)
(***************************************************************************)
EXTENDS BACAssets, BidState

auctionVars == <<nftAssetToAuction, bids, pendingBids, auctions, bidReentered>>

AuctionDetails ==
  [seller : Users, price : Prices, duration : Durations, isActive : BOOLEAN,
   maxBid : Nat, maxBidUser : Users \cup {None}, bidAmounts : Seq(Bids), users : Seq(Users)]

BidCalls == [caller : Users, id : Assets, amount : Bids]

AuctionInit ==
  /\ BACInit
  /\ nftAssetToAuction = [id \in Assets |-> None]
  /\ bids = [id \in Assets |-> [a \in Accounts |-> 0]]
  /\ pendingBids = <<>>
  /\ auctions = [id \in Assets |-> 0]
  /\ bidReentered = FALSE

(* The struct is new, but bids keeps what an earlier auction left. *)
CreateNFTAssetAuction(caller, id, price, duration) ==
  /\ SumFunction(auctions) < MaxAuctions
  /\ NFT!SendFrom(This, caller, This, id)
  /\ nftAssetToAuction' = [nftAssetToAuction EXCEPT
       ![id] = [seller |-> caller, price |-> price, duration |-> duration, isActive |-> TRUE,
                maxBid |-> 0, maxBidUser |-> None, bidAmounts |-> <<>>, users |-> <<>>]]
  /\ auctions' = [auctions EXCEPT ![id] = @ + 1]
  /\ UNCHANGED <<now, vars, bids, pendingBids>>

(* The earlier bid of the caller is sent back, then the new one collected.  *)
ExchangeDeposit(caller, old, amount) ==
  LET returned == Sent(balances, This, caller, old)
  IN  /\ old <= balances[This]
      /\ amount <= returned[caller] /\ amount <= allowed[caller][This]
      /\ balances' = Sent(returned, caller, This, amount)

(* Mutant: a bid is listed whether or not its bidder is. *)
AfterBid_ListedAgain(auction, caller, exist, amount) ==
  [auction EXCEPT !.maxBid = amount, !.maxBidUser = caller,
                  !.users = Append(@, caller), !.bidAmounts = Append(@, amount)]

(* The auction after a bid. That of somebody who bid before is not listed.  *)
AfterBid(auction, caller, exist, amount) ==
  LET highest == [auction EXCEPT !.maxBid = amount, !.maxBidUser = caller]
  IN  IF exist THEN highest
      ELSE [highest EXCEPT !.users = Append(@, caller), !.bidAmounts = Append(@, amount)]

(* What is required of a bid before anything is sent, *)
MayBid(auction, amount) == amount >= auction.price /\ auction.duration > now

(* and after that: more than the last that was listed. *)
IsHigher(auction, amount) ==
  auction.bidAmounts # <<>> => auction.bidAmounts[Len(auction.bidAmounts)] < amount

Bid(caller, id, amount) ==
  LET auction == nftAssetToAuction[id]
      old == bids[id][caller]
  IN  /\ IsActive(id) /\ MayBid(auction, amount) /\ IsHigher(auction, amount)
      /\ ~suspended
      /\ ExchangeDeposit(caller, old, amount)
      /\ allowed' = [allowed EXCEPT ![caller][This] = @ - amount]
      /\ bids' = [bids EXCEPT ![id][caller] = amount]
      /\ nftAssetToAuction' =
           [nftAssetToAuction EXCEPT ![id] = AfterBid(auction, caller, old > 0, amount)]
      /\ UNCHANGED <<now, roleVars, totalAmount, nftVars, auctions, pendingBids>>

(* The old deposit is back, and the bidder's contract has control.          *)
BidCallsOut(caller, id, amount) ==
  LET old == bids[id][caller]
  IN  /\ Len(pendingBids) < MaxCalls
      /\ IsActive(id) /\ MayBid(nftAssetToAuction[id], amount)
      /\ old > 0
      /\ Send(This, caller, old)
      /\ pendingBids' = <<[caller |-> caller, id |-> id, amount |-> amount]>> \o pendingBids
      /\ UNCHANGED <<now, nftVars, nftAssetToAuction, bids, auctions>>

(* The latest call goes on, with the auction as it is now, which need not   *)
(* be active any more.                                                      *)
BidReturns ==
  /\ pendingBids # <<>>
  /\ LET call == Head(pendingBids)
         auction == nftAssetToAuction[call.id]
     IN  /\ IsHigher(auction, call.amount)
         /\ SendFrom(This, call.caller, This, call.amount)
         /\ bids' = [bids EXCEPT ![call.id][call.caller] = call.amount]
         /\ nftAssetToAuction' =
              [nftAssetToAuction EXCEPT
                 ![call.id] = AfterBid(auction, call.caller, TRUE, call.amount)]
  /\ pendingBids' = Tail(pendingBids)
  /\ UNCHANGED <<now, nftVars, auctions, bidReentered>>

Deactivate(id) ==
  nftAssetToAuction' = [nftAssetToAuction EXCEPT ![id].isActive = FALSE]

(* What the bidders who are listed, aside from winner, are given back. *)
Refunds(id, winner) ==
  [a \in Accounts |-> IF a # winner /\ a \in Range(nftAssetToAuction[id].users)
                      THEN bids[id][a] ELSE 0]

(* Mutant: the winner is given back his bid, too. *)
ExecuteSale_RefundsAll(caller, id) ==
  LET auction == nftAssetToAuction[id]
      refunds == Refunds(id, None)
  IN  /\ IsActive(id) /\ auction.duration <= now /\ auction.seller = caller
      /\ Deactivate(id)
      /\ IF auction.bidAmounts = <<>>
         THEN NFT!SendFrom(This, This, caller, id) /\ UNCHANGED vars
         ELSE /\ BatchSend(This, [refunds EXCEPT ![caller] = @ + auction.maxBid])
              /\ NFT!SendFrom(This, This, auction.maxBidUser, id)
      /\ UNCHANGED <<now, bids, pendingBids, auctions>>

ExecuteSale(caller, id) ==
  LET auction == nftAssetToAuction[id]
      refunds == Refunds(id, auction.maxBidUser)
  IN  /\ IsActive(id) /\ auction.duration <= now /\ auction.seller = caller
      /\ Deactivate(id)
      /\ IF auction.bidAmounts = <<>>
         THEN NFT!SendFrom(This, This, caller, id) /\ UNCHANGED vars
         ELSE /\ BatchSend(This, [refunds EXCEPT ![caller] = @ + auction.maxBid])
              /\ NFT!SendFrom(This, This, auction.maxBidUser, id)
      /\ UNCHANGED <<now, bids, pendingBids, auctions>>

CancelAution(caller, id) ==
  LET auction == nftAssetToAuction[id]
  IN  /\ IsActive(id) /\ auction.seller = caller
      /\ Deactivate(id)
      /\ IF auction.users = <<>> THEN UNCHANGED vars ELSE BatchSend(This, Refunds(id, None))
      /\ NFT!SendFrom(This, This, caller, id)
      /\ UNCHANGED <<now, bids, pendingBids, auctions>>

(* Calls of users, also those made while others wait; these end last.       *)
AuctionNext ==
  \/ /\ \E caller \in Users, id \in Assets :
          \/ \E price \in Prices, duration \in Durations :
               CreateNFTAssetAuction(caller, id, price, duration)
          \/ \E amount \in Bids : Bid(caller, id, amount) \/ BidCallsOut(caller, id, amount)
          \/ ExecuteSale(caller, id)
          \/ CancelAution(caller, id)
     /\ bidReentered' = (bidReentered \/ pendingBids # <<>>)
  \/ BidReturns

(* A transaction takes no time.                                             *)
UnfixedPriceNext ==
  \/ AuctionNext
  \/ BACNext /\ (pendingBids # <<>> => now' = now) /\ UNCHANGED auctionVars

UnfixedPriceSpec == AuctionInit /\ [][UnfixedPriceNext]_<<bacVars, auctionVars>>

-----------------------------------------------------------------------------
(* The variables hold values of their types. *)
AuctionTypeOK ==
  /\ now \in 0..MaxTime
  /\ nftAssetToAuction \in [Assets -> AuctionDetails \cup {None}]
  /\ bids \in [Assets -> [Accounts -> Nat]]
  /\ pendingBids \in Seq(BidCalls)
  /\ auctions \in [Assets -> 0..MaxAuctions]
  /\ bidReentered \in BOOLEAN

(* What the contract owes the bidders of an auction, the winner included. *)
Deposits(id) == IF IsActive(id) THEN SumFunction(Refunds(id, None)) ELSE 0

(* As long as no asset was put on auction twice, and the contract was not   *)
(* called while a bid waited, it holds what its active auctions owe, save   *)
(* what that bid deposits when it returns: executeSale and cancelAution     *)
(* find the means to pay everybody, for all auctions pay from one balance.  *)
(* Both premises are needed: a bidder that bids again while its old deposit *)
(* is sent back is sent it twice, and the deposits still on record in a     *)
(* second auction were paid back after the first.                           *)
DepositsAreHeld ==
  pendingBids = <<>> /\ ~bidReentered /\ (\A id \in Assets : auctions[id] <= 1) =>
    SumFunction([id \in Assets |-> Deposits(id)]) <= balances[This]

(* "so the bidders get back the locked eeth": the seller may cancel at any  *)
(* time, so the highest bidder is among those who are paid then.            *)
HighestBidderIsRefunded ==
  \A id \in Assets :
    IsActive(id) /\ nftAssetToAuction[id].maxBidUser # None =>
      nftAssetToAuction[id].maxBidUser \in Range(nftAssetToAuction[id].users)

(* "the hightest bid user get's the nft": nobody's bid is above the one     *)
(* that will win.                                                           *)
HighestBidWins ==
  \A id \in Assets :
    auctions[id] = 1 /\ IsActive(id) =>
      \A i \in 1..Len(nftAssetToAuction[id].users) :
        bids[id][nftAssetToAuction[id].users[i]] <= nftAssetToAuction[id].maxBid
=============================================================================
