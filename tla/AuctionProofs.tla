----------------------------- MODULE AuctionProofs -----------------------------
(***************************************************************************)
(* What is on auction is in the hands of the contract, and in the first    *)
(* auction of an asset the winner pays what he deposited; for any numbers  *)
(* of users, assets, auctions, bids and calls made while bids wait. The    *)
(* lemmas on assets are shared: those of AuctionUnfixedPrice, which is     *)
(* extended, come first, and those of AuctionFixedPrice, which is          *)
(* instantiated with the same variables, follow.                           *)
(***************************************************************************)
EXTENDS AuctionUnfixedPrice, BAC001Proofs

-----------------------------------------------------------------------------
(* Assets of the contract, which approves no operator.                     *)

IsHeld(id) == assetOwner[id] = This /\ assetApprovals[id] = None

HeldInv ==
  /\ assetOwner \in [Assets -> Accounts \cup {None}]
  /\ assetApprovals = [id \in Assets |-> assetApprovals[id]]
  /\ operatorApprovals = [a \in Accounts |-> operatorApprovals[a]]
  /\ operatorApprovals[This] = {}

StillHeld(ids) == \A id \in ids : IsHeld(id) => IsHeld(id)'

(* Sending one asset leaves the others; what the contract is sent is not    *)
(* approved to anybody.                                                     *)
LEMMA SendFromHeld ==
  ASSUME HeldInv, NEW caller, NEW from, NEW to \in Accounts \cup {None}, NEW id \in Assets,
         NFT!SendFrom(caller, from, to, id)
  PROVE  /\ HeldInv' /\ StillHeld(Assets \ {id})
         /\ to = This => IsHeld(id)'
         /\ assetOwner[id] = from
  <1>1. /\ assetOwner' = [assetOwner EXCEPT ![id] = to]
        /\ assetApprovals' = [assetApprovals EXCEPT ![id] = None]
        /\ operatorApprovals' = operatorApprovals
        /\ assetOwner[id] = from
    BY DEF NFT!SendFrom, NFT!HandOver
  <1> QED BY <1>1 DEF HeldInv, StillHeld, IsHeld

(* Nothing that users do themselves moves an asset of the contract.         *)
LEMMA UsersLeaveHeld ==
  ASSUME HeldInv, NFT!Next
  PROVE  HeldInv' /\ StillHeld(Assets)
  <1>1. This \in Accounts /\ Users \subseteq Accounts /\ This \notin Users /\ None \notin Accounts
    BY PartiesAssumption
  <1>2. ASSUME NEW caller \in Users, NEW id \in Assets, NFT!IsApprovedOrOwner(caller, id)
        PROVE  ~IsHeld(id)
    BY <1>1, <1>2 DEF NFT!IsApprovedOrOwner, IsHeld, HeldInv
  <1>3. ASSUME NEW caller \in Users, NEW from \in Accounts, NEW to \in Accounts,
               NEW id \in Assets, NFT!SendFrom(caller, from, to, id)
        PROVE  HeldInv' /\ StillHeld(Assets)
    <2>1. ~IsHeld(id)
      BY <1>2, <1>3 DEF NFT!SendFrom
    <2> QED BY <1>3, <2>1, SendFromHeld DEF StillHeld
  <1>4. ASSUME NEW caller \in Users, NEW id \in Assets, NFT!Destroy(caller, id)
        PROVE  HeldInv' /\ StillHeld(Assets)
    <2>1. ~IsHeld(id)
      BY <1>2, <1>4 DEF NFT!Destroy
    <2> QED BY <1>4, <2>1 DEF NFT!Destroy, NFT!HandOver, HeldInv, StillHeld, IsHeld
  <1>5. ASSUME NEW caller \in Users, NEW id \in Assets, NEW to \in Accounts \cup {None},
               NFT!Approve(caller, to, id)
        PROVE  HeldInv' /\ StillHeld(Assets)
    <2>1. ~IsHeld(id)
      BY <1>1, <1>5 DEF NFT!Approve, IsHeld, HeldInv
    <2> QED BY <1>5, <2>1 DEF NFT!Approve, HeldInv, StillHeld, IsHeld
  <1>6. ASSUME NEW caller \in Users, NEW to \in Accounts, NEW approved \in BOOLEAN,
               NFT!SetApprovalForAll(caller, to, approved)
        PROVE  HeldInv' /\ StillHeld(Assets)
    BY <1>1, <1>6 DEF NFT!SetApprovalForAll, NFT!ownerVars, HeldInv, StillHeld, IsHeld
  <1>7. ASSUME NEW caller \in Users, NEW to \in Accounts, NEW id \in Assets,
               NFT!Issue(caller, to, id)
        PROVE  HeldInv' /\ StillHeld(Assets)
    BY <1>1, <1>7 DEF NFT!Issue, NFT!Exists, HeldInv, StillHeld, IsHeld
  <1>8. CASE UNCHANGED NFT!assetVars
    BY <1>8 DEF NFT!assetVars, NFT!ownerVars, HeldInv, StillHeld, IsHeld
  <1> QED BY <1>3, <1>4, <1>5, <1>6, <1>7, <1>8
          DEF NFT!Next, NFT!HolderNext, NFT!IssuerNext

-----------------------------------------------------------------------------
(* The inductive invariant.                                                *)

Auction(id) == nftAssetToAuction[id]

AuctionTypes ==
  /\ nftAssetToAuction \in [Assets -> AuctionDetails \cup {None}]
  /\ bids \in [Assets -> [Accounts -> Nat]]
  /\ auctions \in [Assets -> 0..MaxAuctions]
  /\ bidReentered \in BOOLEAN

(* An auction of the asset was created and has not ended.                   *)
Live(id) == auctions[id] # 0 /\ Auction(id).isActive

(* The first auction of an asset lists exactly those who have bids.         *)
BiddersAreListed(id) ==
  /\ IsInjective(Auction(id).users)
  /\ \A u \in Users : bids[id][u] > 0 <=> u \in Range(Auction(id).users)
  /\ Auction(id).maxBidUser # None =>
       /\ Auction(id).maxBidUser \in Range(Auction(id).users)
       /\ Auction(id).maxBid = bids[id][Auction(id).maxBidUser]

(* In any auction, where there is a bid there is a highest bidder.          *)
HasWinner(id) == Auction(id).bidAmounts # <<>> => Auction(id).maxBidUser # None

(* bids is untouched until the asset is on auction.                         *)
Untouched(id) == Auction(id) = None /\ \A u \in Users : bids[id][u] = 0

(* What is known of an asset.                                               *)
AuctionOk(id) ==
  /\ auctions[id] = 0 => Untouched(id)
  /\ auctions[id] # 0 => Auction(id) \in AuctionDetails
  /\ Live(id) => IsHeld(id) /\ HasWinner(id)
  /\ Live(id) /\ auctions[id] = 1 => BiddersAreListed(id)

(* A bid waits that raises another, for an asset that was put on auction.   *)
Waits(call) ==
  call.amount > 0 /\ auctions[call.id] # 0 /\ bids[call.id][call.caller] > 0

CallsInv ==
  pendingBids \in Seq(BidCalls) /\ \A i \in 1..Len(pendingBids) : Waits(pendingBids[i])

AuctionInv ==
  /\ HeldInv
  /\ AuctionTypes
  /\ CallsInv
  /\ \A id \in Assets : AuctionOk(id)

(* What is active was created,                                              *)
ActiveIsLive == \A id \in Assets : IsActive(id) => Live(id)

LEMMA ActivesAreLive == AuctionInv => ActiveIsLive
  BY DEF AuctionInv, AuctionOk, Untouched, Auction, IsActive, Live, ActiveIsLive

(* also in the next state.                                                  *)
LEMMA LaterActivesAreLive == AuctionInv' => ActiveIsLive'
  <1> QED BY ActivesAreLive, PTL

(* The latest call has returned.                                            *)
BidIsBack == pendingBids # <<>> /\ pendingBids' = Tail(pendingBids)

(* Bids and auctions only become more, so that calls go on waiting; the     *)
(* latest returns.                                                          *)
LEMMA CallsWait ==
  ASSUME CallsInv, AuctionTypes,
         \A x \in Assets : auctions[x] # 0 => auctions'[x] # 0,
         \A x \in Assets, u \in Users : bids[x][u] > 0 => bids'[x][u] > 0,
         pendingBids' = pendingBids \/ BidIsBack
  PROVE  CallsInv'
  <1>1. pendingBids \in Seq(BidCalls)
    BY DEF CallsInv
  <1>2. /\ pendingBids' \in Seq(BidCalls)
        /\ \A i \in 1..Len(pendingBids') :
             \E j \in 1..Len(pendingBids) : pendingBids'[i] = pendingBids[j]
    <2>1. CASE pendingBids' = pendingBids
      BY <1>1, <2>1
    <2>2. CASE BidIsBack
      <3>1. /\ Tail(pendingBids) \in Seq(BidCalls)
            /\ Len(Tail(pendingBids)) = Len(pendingBids) - 1 /\ Len(pendingBids) \in Nat \ {0}
            /\ \A i \in 1..Len(Tail(pendingBids)) : Tail(pendingBids)[i] = pendingBids[i + 1]
        BY <1>1, <2>2 DEF BidIsBack
      <3>2. \A i \in 1..Len(Tail(pendingBids)) : i + 1 \in 1..Len(pendingBids)
        BY <3>1
      <3> QED BY <2>2, <3>1, <3>2 DEF BidIsBack
    <2> QED BY <2>1, <2>2
  <1>3. ASSUME NEW i \in 1..Len(pendingBids') PROVE Waits(pendingBids[i])'
    <2>1. PICK j \in 1..Len(pendingBids) : pendingBids'[i] = pendingBids[j]
      BY <1>2
    <2>2. Waits(pendingBids[j]) /\ pendingBids[j] \in BidCalls
      BY <1>1 DEF CallsInv
    <2> QED BY <2>1, <2>2 DEF Waits, BidCalls
  <1> QED BY <1>2, <1>3 DEF CallsInv

(* Before the first auction the invariant holds. *)
LEMMA InitAuctionInv == AuctionInit => AuctionInv
  <1> SUFFICES ASSUME AuctionInit PROVE AuctionInv
    OBVIOUS
  <1>1. HeldInv
    BY PartiesAssumption DEF AuctionInit, BACInit, NFT!Init, HeldInv
  <1>2. AuctionTypes
    <2>1. 0 \in 0..MaxAuctions
      BY TermsAssumption
    <2> QED BY <2>1 DEF AuctionInit, AuctionTypes
  <1>3. \A id \in Assets : AuctionOk(id)
    BY PartiesAssumption DEF AuctionInit, Untouched, Auction, Live, AuctionOk
  <1>4. CallsInv
    BY DEF AuctionInit, CallsInv
  <1> QED BY <1>1, <1>2, <1>3, <1>4 DEF AuctionInv

(* A step that leaves an auction alone leaves what is said of it.           *)
LEMMA SameAuction ==
  ASSUME NEW id \in Assets,
         nftAssetToAuction'[id] = nftAssetToAuction[id], bids'[id] = bids[id],
         auctions'[id] = auctions[id], IsHeld(id) => IsHeld(id)', AuctionOk(id)
  PROVE  AuctionOk(id)'
  BY DEF AuctionOk, Live, Untouched, HasWinner, BiddersAreListed, Auction

(* What goes on without the contract.                                       *)
LEMMA OthersAuctionInv ==
  ASSUME AuctionInv, UNCHANGED auctionVars, HeldInv', StillHeld(Assets)
  PROVE  AuctionInv'
  <1>1. UNCHANGED <<nftAssetToAuction, bids, pendingBids, auctions, bidReentered>>
    BY DEF auctionVars
  <1>2. AuctionTypes'
    BY <1>1 DEF AuctionInv, AuctionTypes
  <1>3. ASSUME NEW id \in Assets PROVE AuctionOk(id)'
    BY <1>1, SameAuction DEF AuctionInv, StillHeld
  <1>4. CallsInv'
    BY <1>1, CallsWait DEF AuctionInv
  <1> QED BY <1>2, <1>3, <1>4 DEF AuctionInv

(* A new auction takes its asset over and starts with nobody listed. *)
LEMMA CreateAuctionInv ==
  ASSUME AuctionInv, NEW caller \in Users, NEW id \in Assets, NEW price \in Prices,
         NEW duration \in Durations, CreateNFTAssetAuction(caller, id, price, duration),
         bidReentered' \in BOOLEAN
  PROVE  AuctionInv'
  <1> DEFINE auction ==
               [seller |-> caller, price |-> price, duration |-> duration, isActive |-> TRUE,
                maxBid |-> 0, maxBidUser |-> None, bidAmounts |-> <<>>, users |-> <<>>]
  <1>1. /\ NFT!SendFrom(This, caller, This, id) /\ SumFunction(auctions) < MaxAuctions
        /\ nftAssetToAuction' = [nftAssetToAuction EXCEPT ![id] = auction]
        /\ auctions' = [auctions EXCEPT ![id] = @ + 1] /\ UNCHANGED <<bids, pendingBids>>
    BY DEF CreateNFTAssetAuction
  <1>2. HeldInv' /\ StillHeld(Assets \ {id}) /\ IsHeld(id)'
    BY <1>1, SendFromHeld, PartiesAssumption DEF AuctionInv
  <1>3. auction \in AuctionDetails
    BY DEF AuctionDetails
  <1>4. auction.users = <<>> /\ auction.maxBidUser = None /\ auction.bidAmounts = <<>>
    OBVIOUS
  <1> HIDE DEF auction
  <1>5. AuctionTypes'
    <2>1. /\ IsFiniteSet(Assets) /\ MaxAuctions \in Nat /\ auctions \in [Assets -> 0..MaxAuctions]
      BY AssetsAssumption, TermsAssumption DEF AuctionInv, AuctionTypes
    <2>2. auctions \in [Assets -> Nat]
      BY <2>1
    <2>3. SumFunction(auctions) \in Nat /\ auctions[id] <= SumFunction(auctions)
      BY <2>1, <2>2, SumAtLeast
    <2>4. auctions[id] + 1 \in 0..MaxAuctions
      BY <1>1, <2>1, <2>2, <2>3
    <2> QED BY <1>1, <1>3, <2>1, <2>4 DEF AuctionInv, AuctionTypes
  <1>6. ASSUME NEW x \in Assets, x # id PROVE AuctionOk(x)'
    <2>1. /\ nftAssetToAuction'[x] = nftAssetToAuction[x] /\ bids'[x] = bids[x]
          /\ auctions'[x] = auctions[x]
      BY <1>1, <1>6 DEF AuctionInv, AuctionTypes
    <2> QED BY <1>2, <1>6, <2>1, SameAuction DEF AuctionInv, StillHeld
  <1>7. auctions'[id] # 0
    BY <1>1 DEF AuctionInv, AuctionTypes
  <1>8. ASSUME auctions'[id] = 1 PROVE BiddersAreListed(id)'
    <2>1. auctions[id] = 0
      <3>1. auctions[id] \in Nat /\ auctions'[id] = auctions[id] + 1
        BY <1>1 DEF AuctionInv, AuctionTypes
      <3> QED BY <1>8, <3>1
    <2>2. \A u \in Users : bids'[id][u] = 0
      BY <1>1, <2>1 DEF AuctionInv, AuctionOk, Untouched
    <2>3. nftAssetToAuction'[id] = auction
      BY <1>1 DEF AuctionInv, AuctionTypes
    <2>4. Range(<<>>) = {} /\ IsInjective(<<>>)
      BY DEF Range, IsInjective
    <2>5. \A u \in Users : ~(bids'[id][u] > 0)
      BY <2>2
    <2> QED BY <1>4, <2>3, <2>4, <2>5 DEF BiddersAreListed, Auction
  <1>9. HasWinner(id)'
    BY <1>1, <1>4 DEF HasWinner, Auction, AuctionInv, AuctionTypes
  <1>10. AuctionOk(id)'
    <2>1. Auction(id)' = auction
      BY <1>1 DEF Auction, AuctionInv, AuctionTypes
    <2> QED BY <1>2, <1>3, <1>7, <1>8, <1>9, <2>1 DEF AuctionOk
  <1>11. CallsInv'
    <2>1. \A x \in Assets : auctions[x] # 0 => auctions'[x] # 0
      BY <1>1, <1>7 DEF AuctionInv, AuctionTypes
    <2> QED BY <1>1, <2>1, CallsWait DEF AuctionInv
  <1> QED BY <1>2, <1>5, <1>6, <1>10, <1>11 DEF AuctionInv

(* executeSale and cancelAution: the auction ends, its bids stay.           *)
LEMMA EndAuctionInv ==
  ASSUME AuctionInv, NEW id \in Assets, IsActive(id), Deactivate(id),
         UNCHANGED <<bids, pendingBids, auctions>>, bidReentered' \in BOOLEAN,
         HeldInv', StillHeld(Assets \ {id})
  PROVE  AuctionInv'
  <1>1. Auction(id) \in AuctionDetails
    BY DEF AuctionInv, AuctionTypes, IsActive, Auction
  <1>2. nftAssetToAuction' = [nftAssetToAuction EXCEPT ![id] = [@ EXCEPT !.isActive = FALSE]]
    BY DEF Deactivate
  <1>3. /\ [Auction(id) EXCEPT !.isActive = FALSE] \in AuctionDetails
        /\ ~[Auction(id) EXCEPT !.isActive = FALSE].isActive
    BY <1>1 DEF AuctionDetails
  <1>4. /\ AuctionTypes' /\ ~Live(id)'
        /\ Auction(id)' \in AuctionDetails
    BY <1>2, <1>3 DEF AuctionInv, AuctionTypes, Live, Auction
  <1>5. ASSUME NEW x \in Assets, x # id PROVE AuctionOk(x)'
    <2>1. nftAssetToAuction'[x] = nftAssetToAuction[x]
      BY <1>2, <1>5 DEF AuctionInv, AuctionTypes
    <2> QED BY <1>5, <2>1, SameAuction DEF AuctionInv, StillHeld
  <1>6. auctions[id] # 0
    BY ActivesAreLive DEF ActiveIsLive, Live
  <1>7. AuctionOk(id)'
    BY <1>4, <1>6 DEF AuctionOk
  <1>8. CallsInv'
    BY CallsWait DEF AuctionInv
  <1> QED BY <1>4, <1>5, <1>7, <1>8 DEF AuctionInv

(* A new bidder at the end of the list is one more, and listed once. *)
LEMMA AppendListed ==
  ASSUME NEW S, NEW s \in Seq(S), NEW e \in S, e \notin Range(s), IsInjective(s)
  PROVE  Range(Append(s, e)) = Range(s) \cup {e} /\ IsInjective(Append(s, e))
  <1> DEFINE longer == Append(s, e)
  <1>1. /\ Len(s) \in Nat /\ DOMAIN s = 1..Len(s) /\ DOMAIN longer = 1..Len(s) + 1
        /\ longer[Len(s) + 1] = e /\ \A i \in 1..Len(s) : longer[i] = s[i]
    OBVIOUS
  <1> HIDE DEF longer
  <1>2. \A i \in 1..Len(s) + 1 : i \in 1..Len(s) \/ i = Len(s) + 1
    BY <1>1
  <1>3. Len(s) + 1 \in 1..Len(s) + 1 /\ \A i \in 1..Len(s) : i \in 1..Len(s) + 1
    BY <1>1
  <1>4. Range(longer) = Range(s) \cup {e}
    BY <1>1, <1>2, <1>3 DEF Range
  <1>5. IsInjective(longer)
    BY <1>1, <1>2 DEF Range, IsInjective
  <1> QED BY <1>4, <1>5 DEF longer

(* A bid is written. In a first auction, who has no bid yet is not listed,  *)
(* and is then appended to the list; the others stay there with the bids    *)
(* they have.                                                               *)
LEMMA WrittenBidInv ==
  ASSUME AuctionInv, NEW caller \in Users, NEW id \in Assets, NEW amount \in Bids,
         amount > 0, auctions[id] # 0,
         bids' = [bids EXCEPT ![id][caller] = amount],
         nftAssetToAuction' =
           [nftAssetToAuction EXCEPT
              ![id] = AfterBid(nftAssetToAuction[id], caller, bids[id][caller] > 0, amount)],
         UNCHANGED <<assetOwner, assetApprovals, operatorApprovals, auctions>>,
         pendingBids' = pendingBids \/ BidIsBack,
         bidReentered' \in BOOLEAN
  PROVE  AuctionInv'
  <1> DEFINE auction == nftAssetToAuction[id]
             old == bids[id][caller]
             next == AfterBid(auction, caller, old > 0, amount)
  <1>1. nftAssetToAuction' = [nftAssetToAuction EXCEPT ![id] = next]
    OBVIOUS
  <1>2. auction \in AuctionDetails
    BY DEF AuctionInv, AuctionOk, Auction
  <1>3. amount \in Nat \ {0}
    BY TermsAssumption
  <1>4. caller \in Accounts /\ caller # None /\ Users \subseteq Accounts
    BY PartiesAssumption
  <1>5. old \in Nat
    BY <1>4 DEF AuctionInv, AuctionTypes
  <1>6. /\ next \in AuctionDetails
        /\ next.isActive = auction.isActive
        /\ next.maxBid = amount /\ next.maxBidUser = caller
        /\ old > 0 => next.users = auction.users
        /\ ~(old > 0) => next.users = Append(auction.users, caller)
    <2>1. CASE old > 0
      BY <1>2, <1>3, <2>1 DEF AfterBid, AuctionDetails
    <2>2. CASE ~(old > 0)
      <3> DEFINE highest == [auction EXCEPT !.maxBid = amount, !.maxBidUser = caller]
      <3>1. /\ highest \in AuctionDetails /\ highest.isActive = auction.isActive
            /\ highest.maxBid = amount /\ highest.maxBidUser = caller
            /\ highest.users = auction.users /\ highest.bidAmounts = auction.bidAmounts
        BY <1>2, <1>3 DEF AuctionDetails
      <3>2. next = [highest EXCEPT !.users = Append(@, caller),
                                   !.bidAmounts = Append(@, amount)]
        BY <2>2 DEF AfterBid
      <3>3. /\ Append(highest.users, caller) \in Seq(Users)
            /\ Append(highest.bidAmounts, amount) \in Seq(Bids)
        <4>1. highest.users \in Seq(Users) /\ highest.bidAmounts \in Seq(Bids)
          BY <3>1 DEF AuctionDetails
        <4> HIDE DEF highest
        <4> QED BY <4>1
      <3> HIDE DEF highest, next
      <3> QED BY <2>2, <3>1, <3>2, <3>3 DEF AuctionDetails
    <2> QED BY <2>1, <2>2
  <1> HIDE DEF next, old
  <1>7. /\ nftAssetToAuction'[id] = next
        /\ bids'[id][caller] = amount
        /\ \A u \in Users : u # caller => bids'[id][u] = bids[id][u]
    BY <1>1, <1>4 DEF AuctionInv, AuctionTypes
  <1>8. AuctionTypes'
    <2>1. nftAssetToAuction' \in [Assets -> AuctionDetails \cup {None}]
      BY <1>1, <1>6 DEF AuctionInv, AuctionTypes
    <2>2. bids' \in [Assets -> [Accounts -> Nat]]
      BY <1>1, <1>3, <1>4 DEF AuctionInv, AuctionTypes
    <2> QED BY <1>1, <2>1, <2>2 DEF AuctionInv, AuctionTypes
  <1>9. HeldInv' /\ \A x \in Assets : IsHeld(x)' <=> IsHeld(x)
    BY <1>1 DEF AuctionInv, HeldInv, IsHeld
  <1>10. ASSUME NEW x \in Assets, x # id PROVE AuctionOk(x)'
    <2>1. nftAssetToAuction'[x] = nftAssetToAuction[x] /\ bids'[x] = bids[x]
      BY <1>1, <1>10 DEF AuctionInv, AuctionTypes
    <2> QED BY <1>1, <1>9, <2>1, SameAuction DEF AuctionInv
  <1>11. Live(id)' <=> Live(id)
    BY <1>6, <1>7 DEF Live, Auction
  <1>12. ASSUME Live(id), auctions'[id] = 1 PROVE BiddersAreListed(id)'
    <2>1. /\ IsInjective(auction.users)
          /\ \A u \in Users : bids[id][u] > 0 <=> u \in Range(auction.users)
      BY <1>12 DEF AuctionInv, AuctionOk, BiddersAreListed, Auction
    <2>2. /\ IsInjective(next.users)
          /\ \A u \in Users : u \in Range(next.users) <=> u \in Range(auction.users) \/ u = caller
      <3>1. CASE old > 0
        BY <1>6, <2>1, <3>1 DEF old
      <3>2. CASE ~(old > 0)
        <4>1. caller \notin Range(auction.users) /\ auction.users \in Seq(Users)
          BY <1>2, <2>1, <3>2 DEF old, AuctionDetails
        <4>2. /\ Range(next.users) = Range(auction.users) \cup {caller}
              /\ IsInjective(next.users)
          <5> HIDE DEF auction
          <5>1. /\ Range(Append(auction.users, caller)) = Range(auction.users) \cup {caller}
                /\ IsInjective(Append(auction.users, caller))
            BY <2>1, <4>1, AppendListed
          <5> QED BY <1>6, <3>2, <5>1
        <4> QED BY <4>2
      <3> QED BY <3>1, <3>2
    <2>3. \A u \in Users : bids'[id][u] > 0 <=> u \in Range(next.users)
      BY <1>3, <1>7, <2>1, <2>2
    <2>4. next.maxBidUser \in Range(next.users) /\ next.maxBid = bids'[id][next.maxBidUser]
      BY <1>6, <1>7, <2>2
    <2> QED BY <1>7, <2>2, <2>3, <2>4 DEF BiddersAreListed, Auction
  <1>13. HasWinner(id)'
    BY <1>4, <1>6, <1>7 DEF HasWinner, Auction
  <1>14. AuctionOk(id)'
    <2>1. Auction(id)' \in AuctionDetails
      BY <1>6, <1>7 DEF Auction
    <2>2. Live(id) => IsHeld(id)'
      BY <1>9 DEF AuctionInv, AuctionOk
    <2> QED BY <1>11, <1>12, <1>13, <2>1, <2>2 DEF AuctionOk
  <1>15. CallsInv'
    <2>1. \A x \in Assets, u \in Users : bids[x][u] > 0 => bids'[x][u] > 0
      BY <1>3, <1>4 DEF AuctionInv, AuctionTypes
    <2> QED BY <2>1, CallsWait DEF AuctionInv
  <1> QED BY <1>8, <1>9, <1>10, <1>14, <1>15 DEF AuctionInv

(* The amount of a bid is positive, as the least that the seller asked is.  *)
LEMMA BidIsPositive ==
  ASSUME AuctionInv, NEW id \in Assets, NEW amount \in Bids, IsActive(id),
         MayBid(nftAssetToAuction[id], amount)
  PROVE  amount > 0 /\ auctions[id] # 0
  <1>1. amount \in Nat /\ nftAssetToAuction[id].price \in Nat \ {0}
    BY TermsAssumption DEF AuctionInv, AuctionTypes, IsActive, AuctionDetails
  <1>2. amount >= nftAssetToAuction[id].price
    BY DEF MayBid
  <1> QED BY <1>1, <1>2, ActivesAreLive DEF ActiveIsLive, Live

(* A bid from whose midst nothing is called.                                *)
LEMMA BidAuctionInv ==
  ASSUME AuctionInv, NEW caller \in Users, NEW id \in Assets, NEW amount \in Bids,
         Bid(caller, id, amount), bidReentered' \in BOOLEAN
  PROVE  AuctionInv'
  <1>1. /\ IsActive(id) /\ MayBid(nftAssetToAuction[id], amount)
        /\ bids' = [bids EXCEPT ![id][caller] = amount]
        /\ nftAssetToAuction' =
             [nftAssetToAuction EXCEPT
                ![id] = AfterBid(nftAssetToAuction[id], caller, bids[id][caller] > 0, amount)]
        /\ UNCHANGED <<assetOwner, assetApprovals, operatorApprovals, auctions, pendingBids>>
    BY DEF Bid, nftVars
  <1> QED BY <1>1, BidIsPositive, WrittenBidInv

(* A bid that calls its bidder waits.                                       *)
LEMMA BidCallsOutInv ==
  ASSUME AuctionInv, NEW caller \in Users, NEW id \in Assets, NEW amount \in Bids,
         BidCallsOut(caller, id, amount), bidReentered' \in BOOLEAN
  PROVE  AuctionInv'
  <1> DEFINE call == [caller |-> caller, id |-> id, amount |-> amount]
  <1>1. /\ IsActive(id) /\ MayBid(nftAssetToAuction[id], amount) /\ bids[id][caller] > 0
        /\ pendingBids' = <<call>> \o pendingBids
        /\ UNCHANGED <<assetOwner, assetApprovals, operatorApprovals, nftAssetToAuction, bids,
                       auctions>>
    BY DEF BidCallsOut, nftVars
  <1>2. AuctionTypes' /\ HeldInv' /\ \A x \in Assets : IsHeld(x) => IsHeld(x)'
    BY <1>1 DEF AuctionInv, AuctionTypes, HeldInv, IsHeld
  <1>3. \A x \in Assets : AuctionOk(x)'
    BY <1>1, <1>2, SameAuction DEF AuctionInv
  <1>4. CallsInv'
    <2>1. call \in BidCalls /\ pendingBids \in Seq(BidCalls)
      BY DEF BidCalls, AuctionInv, CallsInv
    <2>2. call.amount > 0 /\ auctions[call.id] # 0 /\ bids[call.id][call.caller] > 0
      BY <1>1, BidIsPositive
    <2> HIDE DEF call
    <2>3. /\ <<call>> \o pendingBids \in Seq(BidCalls)
          /\ Len(<<call>> \o pendingBids) = 1 + Len(pendingBids) /\ Len(pendingBids) \in Nat
          /\ (<<call>> \o pendingBids)[1] = call
          /\ \A i \in 1..Len(pendingBids) : (<<call>> \o pendingBids)[i + 1] = pendingBids[i]
      BY <2>1
    <2>4. \A i \in 1..1 + Len(pendingBids) :
            i = 1 \/ (i - 1 \in 1..Len(pendingBids) /\ i = (i - 1) + 1)
      BY <2>3
    <2>5. ASSUME NEW i \in 1..Len(pendingBids') PROVE Waits(pendingBids[i])'
      <3>1. CASE pendingBids'[i] = call
        BY <1>1, <2>2, <3>1 DEF Waits
      <3>2. ASSUME NEW j \in 1..Len(pendingBids), pendingBids'[i] = pendingBids[j]
            PROVE  Waits(pendingBids[i])'
        BY <1>1, <3>2 DEF AuctionInv, CallsInv, Waits
      <3> QED BY <1>1, <2>3, <2>4, <3>1, <3>2
    <2> QED BY <1>1, <2>3, <2>5 DEF CallsInv
  <1> QED BY <1>2, <1>3, <1>4 DEF AuctionInv

(* The bid that returns is one of those that wait.                          *)
LEMMA ReturningBid ==
  ASSUME AuctionInv, pendingBids # <<>>
  PROVE  /\ Head(pendingBids) \in BidCalls /\ Waits(Head(pendingBids))
  <1>1. pendingBids \in Seq(BidCalls) /\ \A i \in 1..Len(pendingBids) : Waits(pendingBids[i])
    BY DEF AuctionInv, CallsInv
  <1>2. /\ Head(pendingBids) = pendingBids[1] /\ 1 \in 1..Len(pendingBids)
        /\ Head(pendingBids) \in BidCalls
    BY <1>1
  <1> QED BY <1>1, <1>2

(* What it does when it returns.                                            *)
LEMMA ReturningBidActs ==
  ASSUME AuctionInv, BidReturns
  PROVE  \E caller \in Users, id \in Assets, amount \in Bids :
           /\ Head(pendingBids).caller = caller /\ Head(pendingBids).id = id
           /\ amount > 0 /\ auctions[id] # 0 /\ bids[id][caller] > 0
           /\ BidIsBack
           /\ SendFrom(This, caller, This, amount)
           /\ bids' = [bids EXCEPT ![id][caller] = amount]
           /\ nftAssetToAuction' =
                [nftAssetToAuction EXCEPT
                   ![id] = AfterBid(nftAssetToAuction[id], caller, TRUE, amount)]
           /\ UNCHANGED <<nftVars, auctions, bidReentered>>
  <1>1. pendingBids # <<>>
    BY DEF BidReturns
  <1>2. PICK caller, id, amount :
          /\ caller = Head(pendingBids).caller /\ id = Head(pendingBids).id
          /\ amount = Head(pendingBids).amount
    OBVIOUS
  <1>3. /\ caller \in Users /\ id \in Assets /\ amount \in Bids
        /\ amount > 0 /\ auctions[id] # 0 /\ bids[id][caller] > 0
    BY <1>1, <1>2, ReturningBid DEF BidCalls, Waits
  <1>4. /\ BidIsBack
        /\ SendFrom(This, caller, This, amount)
        /\ bids' = [bids EXCEPT ![id][caller] = amount]
        /\ nftAssetToAuction' =
             [nftAssetToAuction EXCEPT
                ![id] = AfterBid(nftAssetToAuction[id], caller, TRUE, amount)]
        /\ UNCHANGED <<nftVars, auctions, bidReentered>>
    BY <1>2, Zenon DEF BidReturns, BidIsBack
  <1> QED BY <1>2, <1>3, <1>4

(* It goes on with the auction as it finds it.                              *)
LEMMA BidReturnsInv ==
  ASSUME AuctionInv, BidReturns PROVE AuctionInv'
  <1>1. PICK caller \in Users, id \in Assets, amount \in Bids :
          /\ amount > 0 /\ auctions[id] # 0 /\ bids[id][caller] > 0
          /\ BidIsBack
          /\ bids' = [bids EXCEPT ![id][caller] = amount]
          /\ nftAssetToAuction' =
               [nftAssetToAuction EXCEPT
                  ![id] = AfterBid(nftAssetToAuction[id], caller, TRUE, amount)]
          /\ UNCHANGED <<nftVars, auctions, bidReentered>>
    BY ReturningBidActs
  <1>2. UNCHANGED <<assetOwner, assetApprovals, operatorApprovals>>
    BY <1>1 DEF nftVars
  <1>3. (bids[id][caller] > 0) = TRUE
    BY <1>1
  <1>4. bidReentered' \in BOOLEAN
    BY <1>1 DEF AuctionInv, AuctionTypes
  <1> QED BY <1>1, <1>2, <1>3, <1>4, WrittenBidInv

(* The invariant is kept by auctions, by the assets and by the clock. *)
LEMMA NextAuctionInv == AuctionInv /\ [UnfixedPriceNext]_<<bacVars, auctionVars>> => AuctionInv'
  <1> SUFFICES ASSUME AuctionInv, [UnfixedPriceNext]_<<bacVars, auctionVars>>
               PROVE  AuctionInv'
    OBVIOUS
  <1>1. This \in Accounts /\ Users \subseteq Accounts
    BY PartiesAssumption
  <1>2. ASSUME UNCHANGED <<nftVars, auctionVars>> PROVE AuctionInv'
    <2>1. HeldInv' /\ StillHeld(Assets)
      BY <1>2 DEF nftVars, AuctionInv, HeldInv, StillHeld, IsHeld
    <2> QED BY <1>2, <2>1, OthersAuctionInv
  <1>3. ASSUME NFT!Next, UNCHANGED auctionVars PROVE AuctionInv'
    BY <1>3, UsersLeaveHeld, OthersAuctionInv DEF AuctionInv
  <1>4. ASSUME NEW caller \in Users, NEW id \in Assets,
               ExecuteSale(caller, id) \/ CancelAution(caller, id),
               bidReentered' \in BOOLEAN
        PROVE  AuctionInv'
    <2> DEFINE winner == nftAssetToAuction[id].maxBidUser
    <2>1. /\ IsActive(id) /\ Deactivate(id) /\ UNCHANGED <<bids, pendingBids, auctions>>
          /\ \/ NFT!SendFrom(This, This, caller, id)
             \/ NFT!SendFrom(This, This, winner, id)
      BY <1>4 DEF ExecuteSale, CancelAution
    <2>2. winner \in Accounts \cup {None}
      BY <1>1, <2>1 DEF AuctionInv, AuctionTypes, IsActive, AuctionDetails
    <2> HIDE DEF winner
    <2>3. HeldInv' /\ StillHeld(Assets \ {id})
      BY <1>1, <2>1, <2>2, SendFromHeld DEF AuctionInv
    <2> QED BY <1>4, <2>1, <2>3, EndAuctionInv
  <1>5. CASE AuctionNext
    <2>1. (bidReentered \/ pendingBids # <<>>) \in BOOLEAN
      OBVIOUS
    <2> QED BY <1>4, <1>5, <2>1, CreateAuctionInv, BidAuctionInv, BidCallsOutInv,
               BidReturnsInv DEF AuctionNext
  <1>6. CASE BACNext /\ UNCHANGED auctionVars
    <2>1. CASE Tick \/ UNCHANGED nftVars
      BY <1>2, <1>6, <2>1 DEF Tick
    <2>2. CASE HoldersNext
      <3>1. ASSUME NEW caller \in Users, NEW id \in Assets,
                   \/ NFT!Approve(caller, This, id)
                   \/ NFT!Issue(caller, caller, id)
                   \/ NFT!Destroy(caller, id)
                   \/ \E from, to \in Accounts : NFT!SendFrom(caller, from, to, id)
            PROVE  NFT!Next
        BY <1>1, <3>1 DEF NFT!Next, NFT!HolderNext, NFT!IssuerNext
      <3> QED BY <1>3, <1>6, <2>1, <2>2, <3>1 DEF HoldersNext, TradersNext
    <2> QED BY <1>3, <1>6, <2>1, <2>2 DEF BACNext
  <1>7. CASE UNCHANGED <<bacVars, auctionVars>>
    BY <1>2, <1>7 DEF bacVars
  <1> QED BY <1>5, <1>6, <1>7 DEF UnfixedPriceNext

(* The invariant holds in every reachable state. *)
LEMMA SpecAuctionInv == UnfixedPriceSpec => []AuctionInv
  <1> QED BY InitAuctionInv, NextAuctionInv, PTL DEF UnfixedPriceSpec

-----------------------------------------------------------------------------
(* The contract always has what it has on auction: neither the seller, nor  *)
(* operators and spenders he appointed before, nor other auctions take it.  *)
THEOREM AuctionedAssetIsHeld == UnfixedPriceSpec => []ActiveAssetIsHeld
  <1>1. AuctionInv => ActiveAssetIsHeld
    BY ActivesAreLive DEF AuctionInv, AuctionOk, IsHeld, ActiveAssetIsHeld, ActiveIsLive
  <1> QED BY SpecAuctionInv, <1>1, PTL

(* In the first auction of an asset everybody who bids is listed once, so   *)
(* that executeSale, which sends the seller maxBid and refunds those listed *)
(* but the winner, disposes of each deposit once.                           *)
THEOREM FirstAuctionIsPaid == UnfixedPriceSpec => []WinnerPaysHisBid
  <1>1. AuctionInv => WinnerPaysHisBid
    BY ActivesAreLive
    DEF AuctionInv, AuctionOk, BiddersAreListed, Auction, WinnerPaysHisBid, ActiveIsLive
  <1> QED BY SpecAuctionInv, <1>1, PTL

-----------------------------------------------------------------------------
(* The deposits.                                                           *)

(* The clock, and the rest of the types.                                    *)
ClockInv == now \in 0..MaxTime

(* Time is a number and does not run back. *)
LEMMA ClockRuns == ClockInv /\ [UnfixedPriceNext]_<<bacVars, auctionVars>> => ClockInv'
  <1> SUFFICES ASSUME ClockInv, [UnfixedPriceNext]_<<bacVars, auctionVars>>
               PROVE  ClockInv'
    OBVIOUS
  <1>1. now' = now \/ Tick
    <2>1. AuctionNext => now' = now
      <3>1. BidReturns => now' = now
        BY Zenon DEF BidReturns
      <3>2. ASSUME NEW caller, NEW id
            PROVE  /\ \A price, duration :
                        CreateNFTAssetAuction(caller, id, price, duration) => now' = now
                   /\ \A amount : Bid(caller, id, amount) => now' = now
                   /\ \A amount : BidCallsOut(caller, id, amount) => now' = now
                   /\ ExecuteSale(caller, id) \/ CancelAution(caller, id) => now' = now
        BY Zenon DEF CreateNFTAssetAuction, Bid, BidCallsOut, ExecuteSale, CancelAution
      <3> QED BY <3>1, <3>2, Zenon DEF AuctionNext
    <2>2. BACNext => now' = now \/ Tick
      BY Zenon DEF BACNext, HoldersNext, TradersNext
    <2> QED BY <2>1, <2>2, Zenon DEF UnfixedPriceNext, bacVars
  <1>2. MaxTime \in Nat
    BY TermsAssumption
  <1> QED BY <1>1, <1>2 DEF Tick, ClockInv

(* All variables of the auction hold values of their types.                 *)
THEOREM AuctionsAreTyped == UnfixedPriceSpec => []AuctionTypeOK
  <1>1. AuctionInit => ClockInv
    BY TermsAssumption DEF AuctionInit, BACInit, ClockInv
  <1>2. AuctionInv /\ ClockInv => AuctionTypeOK
    BY DEF ClockInv, AuctionInv, AuctionTypes, CallsInv, AuctionTypeOK
  <1> QED BY <1>1, <1>2, ClockRuns, SpecAuctionInv, PTL DEF UnfixedPriceSpec

Owed == SumFunction([id \in Assets |-> Deposits(id)])

(* What the latest bid that waits sent back before it deposits anything.    *)
Returned ==
  IF pendingBids = <<>> THEN 0 ELSE bids[Head(pendingBids).id][Head(pendingBids).caller]

(* All auctions so far were the first of their assets.                      *)
FirstAuctions == \A id \in Assets : auctions[id] <= 1

(* One bid waits, for an auction that goes on.                              *)
OneBidWaits == Len(pendingBids) = 1 /\ IsActive(Head(pendingBids).id)

(* At most one does, and while all are first auctions the contract has what *)
(* it owes but for what it sent back.                                       *)
OwedIsThere ==
  /\ pendingBids = <<>> \/ OneBidWaits
  /\ FirstAuctions => Owed <= balances[This] + Returned

(* The contract approves nobody, and has what it owes as long as it is not  *)
(* called while a bid waits.                                                *)
DepositsInv ==
  /\ AuctionInv
  /\ AssetInv /\ ApprovesNobody(This)
  /\ ~bidReentered => OwedIsThere

(* This is more than what was to be shown.                                  *)
LEMMA DepositsInvHolds == DepositsInv => DepositsAreHeld
  <1> SUFFICES ASSUME DepositsInv, pendingBids = <<>>, ~bidReentered, FirstAuctions
               PROVE  Owed <= balances[This]
    BY DEF DepositsAreHeld, FirstAuctions, Owed
  <1>1. Owed <= balances[This] + 0
    BY DEF DepositsInv, OwedIsThere, Returned
  <1>2. balances[This] \in Nat
    BY PartiesAssumption DEF DepositsInv, AssetInv, BooksInv
  <1> QED BY <1>1, <1>2

(* What was sent back is a number.                                          *)
ReturnedIsNumber == Returned \in Nat

LEMMA ReturnedType == AuctionInv => ReturnedIsNumber
  <1> SUFFICES ASSUME AuctionInv PROVE Returned \in Nat
    BY DEF ReturnedIsNumber
  <1>1. CASE pendingBids = <<>>
    BY <1>1 DEF Returned
  <1>2. CASE pendingBids # <<>>
    BY <1>2, ReturningBid, PartiesAssumption DEF Returned, BidCalls, AuctionInv, AuctionTypes
  <1> QED BY <1>1, <1>2

(* Also in the next state.                                                  *)
LEMMA LaterReturnedType == AuctionInv' => ReturnedIsNumber'
  <1> QED BY ReturnedType, PTL

(* What executeSale pays back is an amount for each account. *)
LEMMA RefundTypes ==
  ASSUME AuctionTypes, NEW id \in Assets, NEW winner
  PROVE  IsActive(id) => Refunds(id, winner) \in [Accounts -> Nat]
  BY DEF AuctionTypes, Refunds

(* What an auction owes is a number, now and after a step.                  *)
DepositsAreNumbers == \A id \in Assets : Deposits(id) \in Nat

(* Deposits are numbers, so that they can be summed. *)
LEMMA DepositTypes == AuctionTypes => DepositsAreNumbers
  <1> SUFFICES ASSUME AuctionTypes, NEW id \in Assets PROVE Deposits(id) \in Nat
    BY DEF DepositsAreNumbers
  <1>1. CASE IsActive(id)
    <2>1. Refunds(id, None) \in [Accounts -> Nat]
      BY <1>1, RefundTypes
    <2>2. IsFiniteSet(Accounts) /\ This \in Accounts
      BY PartiesAssumption
    <2>3. SumFunction(Refunds(id, None)) \in Nat
      BY <2>1, <2>2, SumAtLeast
    <2> QED BY <1>1, <2>3 DEF Deposits
  <1>2. CASE ~IsActive(id)
    BY <1>2 DEF Deposits
  <1> QED BY <1>1, <1>2

(* The same of the next state, for the lemmas about sums. *)
LEMMA LaterDepositTypes == AuctionTypes' => DepositsAreNumbers'
  <1> QED BY DepositTypes, PTL

(* An auction whose struct and bids stay owes what it owed. *)
LEMMA SameDeposits ==
  ASSUME NEW id \in Assets, nftAssetToAuction'[id] = nftAssetToAuction[id], bids'[id] = bids[id]
  PROVE  Deposits(id)' = Deposits(id)
  <1>1. IsActive(id)' <=> IsActive(id)
    BY DEF IsActive
  <1>2. Refunds(id, None)' = Refunds(id, None)
    BY DEF Refunds
  <1> QED BY <1>1, <1>2 DEF Deposits

(* Only what one auction owes changes.                                      *)
LEMMA OwedChange ==
  ASSUME AuctionTypes, AuctionTypes', NEW id \in Assets,
         \A x \in Assets : x # id => Deposits(x)' = Deposits(x)
  PROVE  /\ Owed \in Nat /\ Deposits(id) \in Nat /\ Deposits(id)' \in Nat
         /\ Owed' = (Owed - Deposits(id)) + Deposits(id)'
  <1>1. PICK before, after :
          /\ before = [x \in Assets |-> Deposits(x)]
          /\ after = [x \in Assets |-> Deposits(x)']
    OBVIOUS
  <1>2. /\ \A x \in Assets : Deposits(x) \in Nat
        /\ \A x \in Assets : Deposits(x)' \in Nat
    BY DepositTypes, LaterDepositTypes DEF DepositsAreNumbers
  <1>3. /\ before \in [Assets -> Nat] /\ after \in [Assets -> Nat]
        /\ before[id] = Deposits(id) /\ after[id] = Deposits(id)'
        /\ \A x \in Assets : x # id => after[x] = before[x]
    BY <1>1, <1>2
  <1>4. IsFiniteSet(Assets)
    BY AssetsAssumption
  <1>5. SumFunction(after) = (SumFunction(before) - before[id]) + after[id]
    BY <1>3, <1>4, SumChange
  <1>6. SumFunction(before) \in Nat
    BY <1>3, <1>4, SumAtLeast
  <1>7. Owed = SumFunction(before) /\ Owed' = SumFunction(after)
    BY <1>1 DEF Owed
  <1> QED BY <1>2, <1>3, <1>5, <1>6, <1>7

(* What goes on without the contract.                                       *)
LEMMA OthersDeposits ==
  ASSUME DepositsInv, AuctionInv', UNCHANGED auctionVars,
         AssetInv', ApprovesNobody(This)', balances'[This] >= balances[This]
  PROVE  DepositsInv'
  <1>1. UNCHANGED <<nftAssetToAuction, bids, pendingBids, auctions, bidReentered>>
    BY DEF auctionVars
  <1>2. Owed' = Owed
    <2>1. \A id \in Assets : Deposits(id)' = Deposits(id)
      BY <1>1, SameDeposits
    <2> QED BY <2>1 DEF Owed
  <1>3. Returned' = Returned /\ (FirstAuctions' <=> FirstAuctions)
    BY <1>1 DEF Returned, FirstAuctions
  <1>4. Owed \in Nat /\ Returned \in Nat /\ balances[This] \in Nat /\ balances'[This] \in Nat
    <2>1. [id \in Assets |-> Deposits(id)] \in [Assets -> Nat] /\ IsFiniteSet(Assets)
      BY DepositTypes, AssetsAssumption DEF DepositsInv, AuctionInv, DepositsAreNumbers
    <2>2. Owed \in Nat
      BY <2>1, SumInNat DEF Owed
    <2> QED BY <2>2, ReturnedType, PartiesAssumption
            DEF DepositsInv, AssetInv, BooksInv, ReturnedIsNumber
  <1>5. ASSUME ~bidReentered' PROVE OwedIsThere'
    <2>1. OwedIsThere
      BY <1>1, <1>5 DEF DepositsInv
    <2>2. FirstAuctions => Owed <= balances'[This] + Returned
      BY <1>4, <2>1 DEF OwedIsThere
    <2>3. pendingBids' = <<>> \/ OneBidWaits'
      BY <1>1, <2>1 DEF OwedIsThere, OneBidWaits, IsActive
    <2> QED BY <1>2, <1>3, <2>2, <2>3 DEF OwedIsThere
  <1> QED BY <1>5 DEF DepositsInv

(* One auction changes, and what it owes changes no more than the balance   *)
(* and what was sent back.                                                  *)
LEMMA DepositsStep ==
  ASSUME DepositsInv, AuctionInv', AssetInv', ApprovesNobody(This)', NEW id \in Assets,
         \A x \in Assets : x # id => Deposits(x)' = Deposits(x),
         ~bidReentered' =>
           /\ ~bidReentered
           /\ pendingBids' = <<>> \/ OneBidWaits'
           /\ FirstAuctions' =>
                /\ FirstAuctions
                /\ balances'[This] + Returned'
                     >= ((balances[This] + Returned) - Deposits(id)) + Deposits(id)'
  PROVE  DepositsInv'
  <1>1. /\ Owed \in Nat /\ Deposits(id) \in Nat /\ Deposits(id)' \in Nat
        /\ Owed' = (Owed - Deposits(id)) + Deposits(id)'
    BY OwedChange DEF DepositsInv, AuctionInv
  <1>2. /\ balances[This] \in Nat /\ balances'[This] \in Nat
        /\ Returned \in Nat /\ Returned' \in Nat
    BY PartiesAssumption, ReturnedType, LaterReturnedType
    DEF DepositsInv, AssetInv, BooksInv, ReturnedIsNumber
  <1>3. ASSUME ~bidReentered', FirstAuctions' PROVE Owed' <= balances'[This] + Returned'
    <2>1. Owed <= balances[This] + Returned
      BY <1>3 DEF DepositsInv, OwedIsThere
    <2>2. balances'[This] + Returned'
            >= ((balances[This] + Returned) - Deposits(id)) + Deposits(id)'
      BY <1>3
    <2>3. \A a, b, c, d, p, q \in Nat : p <= c /\ q = (p - a) + b /\ d >= (c - a) + b => q <= d
      OBVIOUS
    <2>4. balances[This] + Returned \in Nat /\ balances'[This] + Returned' \in Nat
      BY <1>2
    <2>5. Owed' \in Nat
      <3>1. [x \in Assets |-> Deposits(x)'] \in [Assets -> Nat] /\ IsFiniteSet(Assets)
        BY LaterDepositTypes, AssetsAssumption DEF AuctionInv, DepositsAreNumbers
      <3> QED BY <3>1, SumInNat DEF Owed
    <2> QED BY <1>1, <2>1, <2>2, <2>3, <2>4, <2>5
  <1> QED BY <1>3 DEF DepositsInv, OwedIsThere

(* The contract is called, from outside or while a bid waits.               *)
IsCalled ==
  pendingBids' = pendingBids /\ bidReentered' = (bidReentered \/ pendingBids # <<>>)

(* A call of it that comes when none waits.                                 *)
LEMMA CallStep ==
  ASSUME DepositsInv, AuctionInv', AssetInv', ApprovesNobody(This)', NEW id \in Assets,
         \A x \in Assets : x # id => Deposits(x)' = Deposits(x), IsCalled,
         FirstAuctions' =>
           /\ FirstAuctions
           /\ balances'[This] >= (balances[This] - Deposits(id)) + Deposits(id)'
  PROVE  DepositsInv'
  <1>1. AuctionTypes /\ AuctionTypes'
    BY DEF DepositsInv, AuctionInv
  <1>2. /\ balances[This] \in Nat /\ balances'[This] \in Nat
        /\ Deposits(id) \in Nat /\ Deposits(id)' \in Nat
    BY <1>1, PartiesAssumption, DepositTypes, LaterDepositTypes
    DEF DepositsInv, AssetInv, BooksInv, DepositsAreNumbers
  <1>3. ASSUME ~bidReentered'
        PROVE  /\ ~bidReentered /\ pendingBids = <<>> /\ pendingBids' = <<>>
               /\ Returned = 0 /\ Returned' = 0
    BY <1>3 DEF IsCalled, Returned
  <1>4. ASSUME ~bidReentered', FirstAuctions'
        PROVE  balances'[This] + Returned'
                 >= ((balances[This] + Returned) - Deposits(id)) + Deposits(id)'
    BY <1>2, <1>3, <1>4
  <1> QED BY <1>3, <1>4, DepositsStep

(* The assets of the contract stay as they are.                             *)
LEMMA SameAssets ==
  ASSUME AssetInv, ApprovesNobody(This), UNCHANGED vars
  PROVE  AssetInv' /\ ApprovesNobody(This)' /\ balances' = balances
  BY NextAssetInv, PartiesAssumption DEF Retains, vars, assetVars

(* The first auction of an asset begins with no bid.                        *)
LEMMA CreateDeposits ==
  ASSUME DepositsInv, AuctionInv', NEW caller \in Users, NEW id \in Assets,
         NEW price \in Prices, NEW duration \in Durations,
         CreateNFTAssetAuction(caller, id, price, duration), IsCalled
  PROVE  DepositsInv'
  <1> DEFINE auction ==
               [seller |-> caller, price |-> price, duration |-> duration, isActive |-> TRUE,
                maxBid |-> 0, maxBidUser |-> None, bidAmounts |-> <<>>, users |-> <<>>]
  <1>1. /\ nftAssetToAuction' = [nftAssetToAuction EXCEPT ![id] = auction]
        /\ auctions' = [auctions EXCEPT ![id] = @ + 1] /\ bids' = bids /\ UNCHANGED vars
    BY DEF CreateNFTAssetAuction
  <1>2. auction.users = <<>>
    OBVIOUS
  <1> HIDE DEF auction
  <1>3. AssetInv' /\ ApprovesNobody(This)' /\ balances' = balances
    BY <1>1, SameAssets DEF DepositsInv
  <1>4. AuctionTypes /\ AuctionTypes'
    BY DEF DepositsInv, AuctionInv
  <1>5. \A x \in Assets : x # id => Deposits(x)' = Deposits(x)
    BY <1>1, <1>4, SameDeposits DEF AuctionTypes
  <1>6. ASSUME FirstAuctions'
        PROVE  FirstAuctions /\ Deposits(id) = 0 /\ Deposits(id)' = 0
    <2>1. \A x \in Assets : auctions[x] \in Nat /\ auctions'[x] \in Nat
      BY <1>4 DEF AuctionTypes
    <2>2. /\ auctions'[id] = auctions[id] + 1
          /\ \A x \in Assets : x # id => auctions'[x] = auctions[x]
      BY <1>1, <1>4 DEF AuctionTypes
    <2>3. FirstAuctions /\ auctions[id] = 0
      BY <1>6, <2>1, <2>2 DEF FirstAuctions
    <2>4. Deposits(id) = 0
      BY <2>3 DEF DepositsInv, AuctionInv, AuctionOk, Untouched, Auction, IsActive, Deposits
    <2>5. Refunds(id, None)' = [a \in Accounts |-> 0]
      <3>1. nftAssetToAuction'[id].users = <<>>
        BY <1>1, <1>2, <1>4 DEF AuctionTypes
      <3>2. Range(<<>>) = {}
        BY DEF Range
      <3> QED BY <3>1, <3>2 DEF Refunds
    <2>6. SumFunction(Refunds(id, None)') = 0
      BY <2>5, SumOfZeros, PartiesAssumption
    <2>7. Deposits(id)' = 0
      BY <2>6 DEF Deposits
    <2> QED BY <2>3, <2>4, <2>7
  <1>7. balances[This] \in Nat
    BY PartiesAssumption DEF DepositsInv, AssetInv, BooksInv
  <1> QED BY <1>3, <1>5, <1>6, <1>7, CallStep

(* The old deposit of a bidder is exchanged for the new one.                *)
LEMMA BidBooks ==
  ASSUME AssetInv, ApprovesNobody(This), AuctionTypes, NEW caller \in Users,
         NEW id \in Assets, NEW amount \in Bids, Bid(caller, id, amount)
  PROVE  /\ AssetInv' /\ ApprovesNobody(This)'
         /\ balances'[This] = (balances[This] - bids[id][caller]) + amount
  <1> DEFINE old == bids[id][caller]
  <1>1. /\ ExchangeDeposit(caller, old, amount)
        /\ allowed' = [allowed EXCEPT ![caller][This] = @ - amount]
        /\ UNCHANGED <<roleVars, totalAmount>>
    BY DEF Bid
  <1>2. /\ caller \in Accounts /\ This \in Accounts /\ caller # This
        /\ amount \in Nat
    BY PartiesAssumption, TermsAssumption
  <1>3. old \in Nat
    BY <1>2 DEF AuctionTypes
  <1> HIDE DEF old
  <1>4. BooksInv
    BY DEF AssetInv
  <1>5. PICK returned :
          /\ returned = Sent(balances, This, caller, old)
          /\ old <= balances[This]
          /\ amount <= returned[caller] /\ amount <= allowed[caller][This]
          /\ balances' = Sent(returned, caller, This, amount)
    BY <1>1 DEF ExchangeDeposit
  <1>6. /\ returned \in [Accounts -> Nat] /\ SumFunction(returned) = SumFunction(balances)
        /\ returned[This] = balances[This] - old
    <2>1. balances \in [Accounts -> Nat] /\ old <= balances[This]
      BY <1>4, <1>5 DEF BooksInv
    <2>2. PICK held : held = balances
      OBVIOUS
    <2>3. held \in [Accounts -> Nat] /\ old <= held[This]
      BY <2>1, <2>2
    <2>4. /\ Sent(held, This, caller, old) \in [Accounts -> Nat]
          /\ SumFunction(Sent(held, This, caller, old)) = SumFunction(held)
          /\ Sent(held, This, caller, old)[This] = held[This] - old
      BY <1>2, <1>3, <2>3, SentBalance
    <2> QED BY <1>5, <2>2, <2>4
  <1>7. /\ balances' \in [Accounts -> Nat] /\ SumFunction(balances') = SumFunction(returned)
        /\ balances'[This] = returned[This] + amount
    BY <1>2, <1>5, <1>6, SentBalance
  <1>8. /\ allowed' \in [Accounts -> [Accounts -> Nat]]
        /\ \A a \in Accounts : allowed'[This][a] = allowed[This][a]
    <2>1. allowed[caller][This] - amount \in Nat /\ allowed \in [Accounts -> [Accounts -> Nat]]
      BY <1>2, <1>4, <1>5 DEF BooksInv
    <2> QED BY <1>1, <1>2, <2>1
  <1>9. BooksInv'
    BY <1>1, <1>4, <1>6, <1>7, <1>8 DEF BooksInv, BooksBalance
  <1>10. RolesTypeOK'
    BY <1>1, RolesTypes DEF AssetInv
  <1> QED BY <1>6, <1>7, <1>8, <1>9, <1>10 DEF AssetInv, ApprovesNobody, old

(* In a first auction the bids of those who are listed are all there are,   *)
(* so that a bid that is written exchanges what the auction owes.           *)
LEMMA WrittenBidOwes ==
  ASSUME AuctionInv, AuctionInv', NEW caller \in Users, NEW id \in Assets,
         NEW amount \in Bids, IsActive(id), FirstAuctions,
         bids' = [bids EXCEPT ![id][caller] = amount],
         NEW next, nftAssetToAuction' = [nftAssetToAuction EXCEPT ![id] = next],
         auctions' = auctions
  PROVE  /\ bids[id][caller] \in Nat /\ amount \in Nat
         /\ Deposits(id) \in Nat /\ Deposits(id)' \in Nat
         /\ bids[id][caller] <= Deposits(id)
         /\ Deposits(id)' <= (Deposits(id) - bids[id][caller]) + amount
  <1>1. AuctionTypes /\ AuctionTypes'
    BY DEF AuctionInv
  <1>2. amount \in Nat /\ caller \in Accounts /\ Users \subseteq Accounts
    BY PartiesAssumption, TermsAssumption
  <1>3. Live(id)
    BY ActivesAreLive DEF ActiveIsLive
  <1>4. auctions[id] = 1 /\ auctions'[id] # 0
    <2>1. auctions[id] # 0 /\ auctions[id] \in Nat
      BY <1>1, <1>3 DEF Live, AuctionTypes
    <2> QED BY <2>1 DEF FirstAuctions
  <1>5. /\ nftAssetToAuction[id].users \in Seq(Users)
        /\ nftAssetToAuction'[id].users \in Seq(Users)
    BY <1>4 DEF AuctionInv, AuctionOk, Auction, AuctionDetails
  <1>6. bids[id][caller] \in Nat /\ Deposits(id) \in Nat /\ Deposits(id)' \in Nat
    BY <1>1, <1>2, DepositTypes, LaterDepositTypes DEF DepositsAreNumbers, AuctionTypes
  <1>7. /\ bids[id][caller] <= Deposits(id)
        /\ Deposits(id)' <= (Deposits(id) - bids[id][caller]) + amount
    <2>3. PICK before, after :
            before = Refunds(id, None) /\ after = Refunds(id, None)'
      OBVIOUS
    <2>4. /\ \A a \in Accounts : bids[id][a] \in Nat
          /\ bids'[id][caller] = amount
          /\ \A a \in Accounts : a # caller => bids'[id][a] = bids[id][a]
      BY <1>1, <1>2 DEF AuctionTypes
    <2>5. BiddersAreListed(id) /\ Range(nftAssetToAuction[id].users) \subseteq Users
      BY <1>3, <1>4, <1>5 DEF AuctionInv, AuctionOk, Range
    <2>6. /\ \A a \in Users : before[a] = bids[id][a]
          /\ \A a \in Accounts : a \notin Users => before[a] = 0
      BY <1>2, <2>3, <2>4, <2>5, PartiesAssumption DEF Refunds, BiddersAreListed, Auction
    <2>7. before \in [Accounts -> Nat] /\ after \in [Accounts -> Nat]
      BY <1>1, <2>3 DEF Refunds, AuctionTypes
    <2>8. Deposits(id) = SumFunction(before) /\ before[caller] <= SumFunction(before)
      BY <1>2, <2>3, <2>7, SumAtLeast, PartiesAssumption DEF Deposits
    <2>9. CASE ~IsActive(id)'
      <3>1. Deposits(id)' = 0
        BY <2>9 DEF Deposits
      <3> QED BY <1>2, <1>6, <2>4, <2>6, <2>8, <3>1
    <2>10. CASE IsActive(id)'
      <3>1. BiddersAreListed(id)' /\ Range(nftAssetToAuction'[id].users) \subseteq Users
        <4>1. Live(id)'
          BY <2>10, LaterActivesAreLive DEF ActiveIsLive
        <4> QED BY <1>4, <1>5, <4>1 DEF AuctionInv, AuctionOk, Range
      <3>2. /\ \A a \in Users : after[a] = bids'[id][a]
            /\ \A a \in Accounts : a \notin Users => after[a] = 0
        BY <1>1, <1>2, <2>3, <2>4, <3>1, PartiesAssumption
        DEF Refunds, BiddersAreListed, Auction, AuctionTypes
      <3>3. \A a \in Accounts : a # caller => after[a] = before[a]
        BY <2>4, <2>6, <3>2
      <3>4. SumFunction(after) = (SumFunction(before) - before[caller]) + after[caller]
        BY <1>2, <2>7, <3>3, SumChange, PartiesAssumption
      <3>5. Deposits(id)' = SumFunction(after) /\ SumFunction(after) \in Nat
        BY <2>3, <2>7, <2>10, SumInNat, PartiesAssumption DEF Deposits
      <3>6. SumFunction(before) \in Nat
        BY <1>6, <2>8
      <3> QED BY <1>2, <1>6, <2>4, <2>6, <2>8, <3>2, <3>4, <3>5, <3>6
    <2> QED BY <2>9, <2>10
  <1> QED BY <1>2, <1>6, <1>7

(* What the other auctions owe, a bid leaves.                               *)
LEMMA WrittenBidLeaves ==
  ASSUME AuctionTypes, NEW id \in Assets, NEW caller \in Users, NEW amount,
         bids' = [bids EXCEPT ![id][caller] = amount],
         NEW next, nftAssetToAuction' = [nftAssetToAuction EXCEPT ![id] = next]
  PROVE  \A x \in Assets : x # id => Deposits(x)' = Deposits(x)
  BY SameDeposits DEF AuctionTypes

(* The old deposit is exchanged for the new one.                            *)
LEMMA BidDeposits ==
  ASSUME DepositsInv, AuctionInv', NEW caller \in Users, NEW id \in Assets,
         NEW amount \in Bids, Bid(caller, id, amount), IsCalled
  PROVE  DepositsInv'
  <1>1. /\ IsActive(id) /\ auctions' = auctions
        /\ bids' = [bids EXCEPT ![id][caller] = amount]
    BY DEF Bid
  <1>2. PICK next : nftAssetToAuction' = [nftAssetToAuction EXCEPT ![id] = next]
    BY DEF Bid
  <1>3. /\ AssetInv' /\ ApprovesNobody(This)'
        /\ balances'[This] = (balances[This] - bids[id][caller]) + amount
    BY BidBooks DEF DepositsInv, AuctionInv
  <1>4. \A x \in Assets : x # id => Deposits(x)' = Deposits(x)
    BY <1>1, <1>2, WrittenBidLeaves DEF DepositsInv, AuctionInv
  <1>5. balances[This] \in Nat
    BY PartiesAssumption DEF DepositsInv, AssetInv, BooksInv
  <1>6. ASSUME FirstAuctions'
        PROVE  /\ FirstAuctions
               /\ balances'[This] >= (balances[This] - Deposits(id)) + Deposits(id)'
    <2>1. FirstAuctions
      BY <1>1, <1>6 DEF FirstAuctions
    <2>2. /\ bids[id][caller] \in Nat /\ amount \in Nat
          /\ Deposits(id) \in Nat /\ Deposits(id)' \in Nat
          /\ Deposits(id)' <= (Deposits(id) - bids[id][caller]) + amount
      BY <1>1, <1>2, <2>1, WrittenBidOwes DEF DepositsInv
    <2> QED BY <1>3, <1>5, <2>1, <2>2
  <1> QED BY <1>3, <1>4, <1>6, CallStep

(* A bid sends its bidder back what he had deposited, and waits.            *)
LEMMA BidCallsOutDeposits ==
  ASSUME DepositsInv, AuctionInv', NEW caller \in Users, NEW id \in Assets,
         NEW amount \in Bids, BidCallsOut(caller, id, amount),
         bidReentered' = (bidReentered \/ pendingBids # <<>>)
  PROVE  DepositsInv'
  <1> DEFINE call == [caller |-> caller, id |-> id, amount |-> amount]
             old == bids[id][caller]
  <1>1. /\ IsActive(id) /\ Send(This, caller, old)
        /\ pendingBids' = <<call>> \o pendingBids
        /\ UNCHANGED <<nftAssetToAuction, bids, auctions>>
    BY DEF BidCallsOut
  <1>2. caller \in Accounts /\ This \in Accounts /\ caller # This
    BY PartiesAssumption
  <1>3. old \in Nat
    BY <1>2 DEF DepositsInv, AuctionInv, AuctionTypes
  <1>4. /\ old <= balances[This] /\ balances' = Sent(balances, This, caller, old)
        /\ UNCHANGED <<roleVars, allowed, totalAmount>>
    BY <1>1 DEF Send
  <1> HIDE DEF old
  <1>5. BooksInv /\ balances \in [Accounts -> Nat]
    BY DEF DepositsInv, AssetInv, BooksInv
  <1>6. BooksInv'
    <2>1. allowed' \in [Accounts -> [Accounts -> Nat]]
      BY <1>4, <1>5 DEF BooksInv
    <2> QED BY <1>2, <1>3, <1>4, <1>5, <2>1, TransferBooks
  <1>7. balances'[This] = balances[This] - old
    BY <1>2, <1>3, <1>4, <1>5, SentBalance
  <1>8. AssetInv' /\ ApprovesNobody(This)'
    BY <1>4, <1>6, RolesTypes DEF DepositsInv, AssetInv, ApprovesNobody
  <1>9. \A x \in Assets : Deposits(x)' = Deposits(x)
    BY <1>1, SameDeposits
  <1>10. ASSUME ~bidReentered'
         PROVE  /\ ~bidReentered /\ pendingBids' = <<call>> /\ Returned = 0
                /\ Returned' = old
    <2>1. ~bidReentered /\ pendingBids = <<>>
      BY <1>10
    <2>2. pendingBids' = <<call>>
      BY <1>1, <2>1
    <2>3. Head(<<call>>) = call /\ <<call>> # <<>> /\ call.id = id /\ call.caller = caller
      OBVIOUS
    <2> QED BY <1>1, <2>1, <2>2, <2>3 DEF Returned, old
  <1>11. Len(<<call>>) = 1 /\ Head(<<call>>).id = id
    OBVIOUS
  <1>12. IsActive(id)' /\ (FirstAuctions' <=> FirstAuctions)
    BY <1>1 DEF IsActive, FirstAuctions
  <1>13. /\ balances[This] \in Nat /\ Deposits(id) \in Nat
    BY <1>2, <1>5, DepositTypes DEF DepositsInv, AuctionInv, DepositsAreNumbers
  <1>14. ASSUME ~bidReentered'
         PROVE  balances'[This] + Returned'
                  >= ((balances[This] + Returned) - Deposits(id)) + Deposits(id)'
    BY <1>3, <1>4, <1>7, <1>9, <1>10, <1>13, <1>14
  <1>15. ASSUME ~bidReentered'
         PROVE  OneBidWaits'
    BY <1>10, <1>11, <1>12, <1>15 DEF OneBidWaits, IsActive
  <1> HIDE DEF call
  <1> QED BY <1>8, <1>9, <1>10, <1>12, <1>14, <1>15, DepositsStep

(* The deposit of the bid that returns takes the place of what was sent.    *)
LEMMA BidReturnsDeposits ==
  ASSUME DepositsInv, AuctionInv', BidReturns PROVE DepositsInv'
  <1>1. PICK caller \in Users, id \in Assets, amount \in Bids :
          /\ Head(pendingBids).caller = caller /\ Head(pendingBids).id = id
          /\ BidIsBack
          /\ SendFrom(This, caller, This, amount)
          /\ bids' = [bids EXCEPT ![id][caller] = amount]
          /\ nftAssetToAuction' =
               [nftAssetToAuction EXCEPT
                  ![id] = AfterBid(nftAssetToAuction[id], caller, TRUE, amount)]
          /\ UNCHANGED <<nftVars, auctions, bidReentered>>
    BY ReturningBidActs DEF DepositsInv
  <1> DEFINE old == bids[id][caller]
  <1>2. /\ pendingBids # <<>> /\ pendingBids' = Tail(pendingBids)
        /\ UNCHANGED <<auctions, bidReentered>>
    BY <1>1 DEF BidIsBack
  <1>3. PICK next : nftAssetToAuction' = [nftAssetToAuction EXCEPT ![id] = next]
    BY <1>1
  <1>4. /\ caller \in Accounts /\ This \in Accounts /\ caller # This /\ amount \in Nat
    BY PartiesAssumption, TermsAssumption
  <1>5. BooksInv
    BY DEF DepositsInv, AssetInv
  <1>6. /\ BooksInv' /\ balances' = Sent(balances, caller, This, amount)
        /\ amount <= balances[caller]
        /\ \A a, b \in Accounts : a # caller => allowed'[a][b] = allowed[a][b]
    BY <1>1, <1>4, <1>5, SendFromBooks
  <1>7. AssetInv' /\ ApprovesNobody(This)'
    <2>1. RolesTypeOK'
      BY <1>1, RolesTypes DEF SendFrom, DepositsInv, AssetInv
    <2> QED BY <1>4, <1>6, <2>1 DEF DepositsInv, AssetInv, ApprovesNobody
  <1>8. balances'[This] = balances[This] + amount /\ balances[This] \in Nat
    <2>1. balances \in [Accounts -> Nat]
      BY <1>5 DEF BooksInv
    <2> QED BY <1>4, <1>6, <2>1, SentBalance
  <1>9. \A x \in Assets : x # id => Deposits(x)' = Deposits(x)
    BY <1>1, <1>3, WrittenBidLeaves DEF DepositsInv, AuctionInv
  <1>10. Returned = old
    BY <1>1, <1>2 DEF Returned
  <1>11. ASSUME ~bidReentered'
         PROVE  ~bidReentered /\ pendingBids' = <<>> /\ Returned' = 0 /\ IsActive(id)
    <2>1. ~bidReentered /\ Len(pendingBids) = 1 /\ IsActive(id)
      BY <1>1, <1>2, <1>11 DEF DepositsInv, OwedIsThere, OneBidWaits
    <2>2. pendingBids' = <<>>
      <3>1. pendingBids \in Seq(BidCalls)
        BY DEF DepositsInv, AuctionInv, CallsInv
      <3>2. Tail(pendingBids) \in Seq(BidCalls) /\ Len(Tail(pendingBids)) = 0
        BY <1>2, <2>1, <3>1
      <3>3. \A rest \in Seq(BidCalls) : Len(rest) = 0 => rest = <<>>
        OBVIOUS
      <3> QED BY <1>2, <3>2, <3>3
    <2> QED BY <2>1, <2>2 DEF Returned
  <1> HIDE DEF old
  <1>12. ASSUME ~bidReentered', FirstAuctions'
         PROVE  /\ FirstAuctions
                /\ balances'[This] + Returned'
                     >= ((balances[This] + Returned) - Deposits(id)) + Deposits(id)'
    <2>1. FirstAuctions
      BY <1>2, <1>12 DEF FirstAuctions
    <2>2. /\ old \in Nat /\ Deposits(id) \in Nat /\ Deposits(id)' \in Nat
          /\ Deposits(id)' <= (Deposits(id) - old) + amount
      BY <1>1, <1>3, <1>11, <1>12, <2>1, WrittenBidOwes DEF DepositsInv, old
    <2> QED BY <1>4, <1>8, <1>10, <1>11, <1>12, <2>1, <2>2
  <1> QED BY <1>7, <1>9, <1>11, <1>12, DepositsStep

(* An auction ends, and what it owes is paid to the bidders and the seller. *)
LEMMA PaidDeposits ==
  ASSUME DepositsInv, AuctionInv', NEW id \in Assets, IsActive(id), Deactivate(id),
         UNCHANGED <<bids, auctions>>, IsCalled,
         UNCHANGED vars \/ \E due \in [Accounts -> Nat] :
           /\ BatchSend(This, due)
           /\ FirstAuctions => SumFunction(due) <= Deposits(id)
  PROVE  DepositsInv'
  <1>1. AuctionTypes /\ AuctionTypes'
    BY DEF DepositsInv, AuctionInv
  <1>2. \A x \in Assets : x # id => Deposits(x)' = Deposits(x)
    BY <1>1, SameDeposits DEF Deactivate, AuctionTypes
  <1>3. Deposits(id)' = 0
    <2>1. nftAssetToAuction'[id] = [nftAssetToAuction[id] EXCEPT !.isActive = FALSE]
      BY <1>1 DEF Deactivate, AuctionTypes
    <2>2. nftAssetToAuction[id] \in AuctionDetails
      BY <1>1 DEF AuctionTypes, IsActive
    <2>3. ~IsActive(id)'
      BY <2>1, <2>2 DEF IsActive, AuctionDetails
    <2> QED BY <2>3 DEF Deposits
  <1>4. FirstAuctions' => FirstAuctions
    BY DEF FirstAuctions
  <1>5. balances[This] \in Nat /\ Deposits(id) \in Nat
    BY <1>1, DepositTypes, PartiesAssumption
    DEF DepositsInv, AssetInv, BooksInv, DepositsAreNumbers
  <1>6. CASE UNCHANGED vars
    <2>1. AssetInv' /\ ApprovesNobody(This)' /\ balances' = balances
      BY <1>6, SameAssets DEF DepositsInv
    <2> QED BY <1>2, <1>3, <1>4, <1>5, <2>1, CallStep
  <1>7. ASSUME NEW due \in [Accounts -> Nat], BatchSend(This, due),
               FirstAuctions => SumFunction(due) <= Deposits(id)
        PROVE  DepositsInv'
    <2>1. /\ BooksInv' /\ allowed' = allowed
          /\ balances'[This] = balances[This] - SumFunction(due)
      BY <1>7, BatchBooks, PartiesAssumption DEF DepositsInv, AssetInv
    <2>2. RolesTypeOK'
      BY <1>7, RolesTypes DEF BatchSend, DepositsInv, AssetInv
    <2>3. AssetInv' /\ ApprovesNobody(This)'
      BY <2>1, <2>2 DEF AssetInv, ApprovesNobody, DepositsInv
    <2>4. SumFunction(due) \in Nat
      BY SumInNat, PartiesAssumption
    <2>5. FirstAuctions' =>
            balances'[This] >= (balances[This] - Deposits(id)) + Deposits(id)'
      BY <1>3, <1>4, <1>5, <1>7, <2>1, <2>4
    <2> QED BY <1>2, <1>4, <2>3, <2>5, CallStep
  <1> QED BY <1>6, <1>7

(* The seller gets the deposit of the winner, the others get theirs back:   *)
(* together that is, in a first auction, what the auction owes.             *)
LEMMA SaleDeposits ==
  ASSUME DepositsInv, AuctionInv', NEW caller \in Users, NEW id \in Assets,
         ExecuteSale(caller, id), IsCalled
  PROVE  DepositsInv'
  <1> DEFINE auction == nftAssetToAuction[id]
             winner == auction.maxBidUser
             refunds == Refunds(id, winner)
             sold == [refunds EXCEPT ![caller] = @ + auction.maxBid]
  <1>1. /\ IsActive(id) /\ Deactivate(id) /\ UNCHANGED <<bids, auctions>>
        /\ auction.bidAmounts = <<>> => UNCHANGED vars
        /\ auction.bidAmounts # <<>> => BatchSend(This, sold)
    BY DEF ExecuteSale
  <1>2. auction \in AuctionDetails /\ AuctionTypes
    BY <1>1 DEF DepositsInv, AuctionInv, AuctionTypes, IsActive
  <1>3. auction.maxBid \in Nat /\ caller \in Accounts /\ Users \subseteq Accounts
    BY <1>2, PartiesAssumption DEF AuctionDetails
  <1>4. PICK rest, due, all : rest = refunds /\ due = sold /\ all = Refunds(id, None)
    OBVIOUS
  <1>5. rest \in [Accounts -> Nat] /\ all \in [Accounts -> Nat]
    BY <1>1, <1>2, <1>4, RefundTypes
  <1>6. due \in [Accounts -> Nat] /\ due = [rest EXCEPT ![caller] = @ + auction.maxBid]
    BY <1>3, <1>4, <1>5
  <1>7. ASSUME auction.bidAmounts # <<>>, FirstAuctions
        PROVE  SumFunction(due) = Deposits(id)
    <2>1. auctions[id] = 1 /\ Live(id)
      <3>1. Live(id) /\ auctions[id] # 0 /\ auctions[id] \in Nat
        BY <1>1, <1>2, ActivesAreLive
        DEF DepositsInv, AuctionInv, ActiveIsLive, Live, AuctionTypes
      <3> QED BY <1>7, <3>1 DEF FirstAuctions
    <2>2. BiddersAreListed(id)
      BY <2>1 DEF DepositsInv, AuctionInv, AuctionOk
    <2>3. /\ winner \in Range(auction.users) /\ auction.maxBid = bids[id][winner]
          /\ winner \in Accounts /\ winner # None
      <3>1. winner # None
        BY <1>7, <2>1 DEF DepositsInv, AuctionInv, AuctionOk, HasWinner, Auction
      <3> QED BY <1>2, <1>3, <2>2, <3>1 DEF BiddersAreListed, Auction, AuctionDetails
    <2>4. all[winner] = auction.maxBid /\ rest[winner] = 0
      BY <1>4, <2>3 DEF Refunds
    <2>5. \A a \in Accounts : a # winner => rest[a] = all[a]
      BY <1>4, PartiesAssumption DEF Refunds
    <2>6. IsFiniteSet(Accounts)
      BY PartiesAssumption
    <2> HIDE DEF auction, winner, refunds, sold
    <2>7. SumFunction(rest) = (SumFunction(all) - all[winner]) + rest[winner]
      BY <1>5, <2>3, <2>5, <2>6, SumChange
    <2>8. SumFunction(due) = (SumFunction(rest) - rest[caller]) + due[caller]
      <3>1. \A a \in Accounts : a # caller => due[a] = rest[a]
        BY <1>5, <1>6
      <3>2. due \in [Accounts -> Nat]
        BY <1>6
      <3> QED BY <1>3, <1>5, <2>6, <3>1, <3>2, SumChange
    <2>9. due[caller] = rest[caller] + auction.maxBid /\ rest[caller] \in Nat
      BY <1>3, <1>5, <1>6
    <2>10. /\ SumFunction(all) \in Nat /\ SumFunction(rest) \in Nat
           /\ SumFunction(due) \in Nat
      BY <1>5, <1>6, <2>6, SumInNat
    <2>11. Deposits(id) = SumFunction(all)
      BY <1>1, <1>4 DEF Deposits
    <2> QED BY <1>3, <2>4, <2>7, <2>8, <2>9, <2>10, <2>11
  <1>8. Deposits(id) \in Nat
    BY <1>2, DepositTypes DEF DepositsAreNumbers
  <1>9. CASE auction.bidAmounts = <<>>
    BY <1>1, <1>9, PaidDeposits
  <1>10. CASE auction.bidAmounts # <<>>
    <2>1. BatchSend(This, due) /\ (FirstAuctions => SumFunction(due) <= Deposits(id))
      BY <1>1, <1>4, <1>7, <1>8, <1>10
    <2> QED BY <1>1, <1>6, <2>1, PaidDeposits
  <1> QED BY <1>9, <1>10

(* A cancelled auction pays what it owes.                                   *)
LEMMA CancelDeposits ==
  ASSUME DepositsInv, AuctionInv', NEW caller \in Users, NEW id \in Assets,
         CancelAution(caller, id), IsCalled
  PROVE  DepositsInv'
  <1>1. /\ IsActive(id) /\ Deactivate(id) /\ UNCHANGED <<bids, auctions>>
        /\ UNCHANGED vars \/ BatchSend(This, Refunds(id, None))
    BY DEF CancelAution
  <1>2. AuctionTypes
    BY DEF DepositsInv, AuctionInv
  <1>3. Refunds(id, None) \in [Accounts -> Nat]
    BY <1>1, <1>2, RefundTypes
  <1>4. SumFunction(Refunds(id, None)) = Deposits(id)
    BY <1>1 DEF Deposits
  <1>5. SumFunction(Refunds(id, None)) <= Deposits(id)
    BY <1>2, <1>4, DepositTypes DEF DepositsAreNumbers
  <1> QED BY <1>1, <1>3, <1>5, PaidDeposits

(* Nothing is on auction yet.                                               *)
LEMMA InitDepositsInv == AuctionInit => DepositsInv
  <1> SUFFICES ASSUME AuctionInit PROVE DepositsInv
    OBVIOUS
  <1>1. AuctionInv
    BY InitAuctionInv
  <1>2. AssetInv /\ ApprovesNobody(This)
    BY InitAssetInv, PartiesAssumption DEF AuctionInit, BACInit, Init, ApprovesNobody
  <1>3. \A id \in Assets : Deposits(id) = 0
    BY DEF AuctionInit, Deposits, IsActive
  <1>4. Owed = 0
    <2>1. [id \in Assets |-> Deposits(id)] = [id \in Assets |-> 0]
      BY <1>3
    <2> QED BY <2>1, SumOfZeros, AssetsAssumption DEF Owed
  <1>5. balances[This] \in Nat
    BY <1>2, PartiesAssumption DEF AssetInv, BooksInv
  <1>6. OwedIsThere
    BY <1>4, <1>5 DEF OwedIsThere, AuctionInit, Returned
  <1> QED BY <1>1, <1>2, <1>6 DEF DepositsInv

(* What users do with their assets leaves the contract its own.             *)
LEMMA BACDeposits ==
  ASSUME DepositsInv, AuctionInv', UNCHANGED auctionVars,
         BACNext \/ UNCHANGED <<bacVars, auctionVars>>
  PROVE  DepositsInv'
  <1>1. AssetInv /\ ApprovesNobody(This) /\ This \in Accounts \ Users
    BY PartiesAssumption DEF DepositsInv
  <1>2. [Next]_vars
    <2>1. CASE UNCHANGED vars
      BY <2>1
    <2>2. ASSUME NEW caller \in Users, NEW value \in Values,
                 \/ IncreaseAllowance(caller, This, value)
                 \/ \E to \in Users : Send(caller, to, value)
          PROVE  Next
      BY <1>1, <2>2, PartiesAssumption DEF Next, HolderNext
    <2> QED BY <2>1, <2>2 DEF BACNext, HoldersNext, TradersNext, Tick, bacVars
  <1>3. AssetInv' /\ ApprovesNobody(This)' /\ balances'[This] >= balances[This]
    BY <1>1, <1>2, NextAssetInv DEF Retains
  <1> QED BY <1>3, OthersDeposits

(* The contract stays able to pay its debts, and the books balance. *)
LEMMA NextDepositsInv ==
  DepositsInv /\ [UnfixedPriceNext]_<<bacVars, auctionVars>> => DepositsInv'
  <1> SUFFICES ASSUME DepositsInv, [UnfixedPriceNext]_<<bacVars, auctionVars>>
               PROVE  DepositsInv'
    OBVIOUS
  <1>1. AuctionInv'
    BY NextAuctionInv DEF DepositsInv
  <1>2. CASE AuctionNext
    <2>1. ASSUME NEW caller \in Users, NEW id \in Assets,
                 \/ \E price \in Prices, duration \in Durations :
                      CreateNFTAssetAuction(caller, id, price, duration)
                 \/ \E amount \in Bids : Bid(caller, id, amount)
                 \/ ExecuteSale(caller, id)
                 \/ CancelAution(caller, id),
                 bidReentered' = (bidReentered \/ pendingBids # <<>>)
          PROVE  DepositsInv'
      <3>1. IsCalled
        BY <2>1 DEF IsCalled, CreateNFTAssetAuction, Bid, ExecuteSale, CancelAution
      <3> QED BY <1>1, <2>1, <3>1, CreateDeposits, BidDeposits, SaleDeposits, CancelDeposits
    <2> QED BY <1>1, <1>2, <2>1, BidCallsOutDeposits, BidReturnsDeposits DEF AuctionNext
  <1>3. CASE (BACNext /\ UNCHANGED auctionVars) \/ UNCHANGED <<bacVars, auctionVars>>
    BY <1>1, <1>3, BACDeposits
  <1> QED BY <1>2, <1>3 DEF UnfixedPriceNext

(* As long as no asset is put on auction twice and no bidder calls the      *)
(* contract while a bid sends him his deposit back, the balance covers the  *)
(* deposits of all active auctions whenever none is on its way, so that     *)
(* neither executeSale nor cancelAution reverts for want of means: whatever *)
(* bidders raise, sellers cancel and users send in the meantime.            *)
THEOREM DepositsAreCovered == UnfixedPriceSpec => []DepositsAreHeld
  <1> QED BY InitDepositsInv, NextDepositsInv, DepositsInvHolds, PTL DEF UnfixedPriceSpec

(* Deposits, refunds and payments keep the books of the BAC001.             *)
THEOREM AuctionBooksBalance == UnfixedPriceSpec => []BooksBalance
  <1>1. DepositsInv => BooksBalance
    BY DEF DepositsInv, AssetInv, BooksInv
  <1> QED BY InitDepositsInv, NextDepositsInv, <1>1, PTL DEF UnfixedPriceSpec

(* So they do its types.                                                    *)
THEOREM AuctionAssetTypes == UnfixedPriceSpec => []TypeOK
  <1>1. DepositsInv => TypeOK
    BY DEF DepositsInv, AssetInv, BooksInv, TypeOK
  <1> QED BY InitDepositsInv, NextDepositsInv, <1>1, PTL DEF UnfixedPriceSpec

-----------------------------------------------------------------------------
(* The other auction, with the same assets.                                *)

Fixed == INSTANCE AuctionFixedPrice

(* The fixed auction has the asset of the unfixed one: a transfer is the same. *)
LEMMA SameSendFrom ==
  ASSUME NEW caller, NEW from, NEW to, NEW id, Fixed!NFT!SendFrom(caller, from, to, id)
  PROVE  NFT!SendFrom(caller, from, to, id)
  BY DEF NFT!SendFrom, Fixed!NFT!SendFrom, NFT!HandOver, Fixed!NFT!HandOver,
         NFT!IsApprovedOrOwner, Fixed!NFT!IsApprovedOrOwner, NFT!Exists, Fixed!NFT!Exists,
         NFT!ListsWithout, Fixed!NFT!ListsWithout, NFT!PositionsWithout,
         Fixed!NFT!PositionsWithout, NFT!SwapAndPop, Fixed!NFT!SwapAndPop, NFT!MovedIndex,
         Fixed!NFT!MovedIndex, NFT!roleVars, Fixed!NFT!roleVars, NFT!ownerVars,
         Fixed!NFT!ownerVars, NFT!listVars, Fixed!NFT!listVars, NFT!allVars, Fixed!NFT!allVars

(* So are all its transactions. *)
LEMMA SameAssetNext == Fixed!NFT!Next => NFT!Next
  BY DEF NFT!SendFrom, Fixed!NFT!SendFrom, NFT!HandOver, Fixed!NFT!HandOver,
         NFT!IsApprovedOrOwner, Fixed!NFT!IsApprovedOrOwner, NFT!Exists, Fixed!NFT!Exists,
         NFT!ListsWithout, Fixed!NFT!ListsWithout, NFT!PositionsWithout,
         Fixed!NFT!PositionsWithout, NFT!SwapAndPop, Fixed!NFT!SwapAndPop, NFT!MovedIndex,
         Fixed!NFT!MovedIndex, NFT!roleVars, Fixed!NFT!roleVars, NFT!ownerVars,
         Fixed!NFT!ownerVars, NFT!listVars, Fixed!NFT!listVars, NFT!allVars,
         Fixed!NFT!allVars, NFT!Next, Fixed!NFT!Next, NFT!HolderNext, Fixed!NFT!HolderNext,
         NFT!IssuerNext, Fixed!NFT!IssuerNext, NFT!Destroy, Fixed!NFT!Destroy, NFT!Approve,
         Fixed!NFT!Approve, NFT!SetApprovalForAll, Fixed!NFT!SetApprovalForAll, NFT!Issue,
         Fixed!NFT!Issue, NFT!RemoveFromAllAssets, Fixed!NFT!RemoveFromAllAssets,
         NFT!RolesNext, Fixed!NFT!RolesNext, NFT!AddIssuer, Fixed!NFT!AddIssuer,
         NFT!RenounceIssuer, Fixed!NFT!RenounceIssuer, NFT!AddSuspender,
         Fixed!NFT!AddSuspender, NFT!RenounceSuspender, Fixed!NFT!RenounceSuspender,
         NFT!Suspend, Fixed!NFT!Suspend, NFT!UnSuspend, Fixed!NFT!UnSuspend, NFT!assetVars,
         Fixed!NFT!assetVars

FixedInv ==
  /\ HeldInv
  /\ nftAssetToAuction \in [Assets -> Fixed!AuctionDetails \cup {None}]
  /\ \A id \in Assets : Fixed!IsActive(id) => IsHeld(id)

(* Before the first sale the invariant holds. *)
LEMMA InitFixedInv == Fixed!AuctionInit => FixedInv
  <1> SUFFICES ASSUME Fixed!AuctionInit PROVE FixedInv
    OBVIOUS
  <1>1. HeldInv
    BY PartiesAssumption DEF Fixed!AuctionInit, Fixed!BACInit, Fixed!NFT!Init, HeldInv
  <1>2. nftAssetToAuction = [id \in Assets |-> None]
    BY DEF Fixed!AuctionInit
  <1>3. \A id \in Assets : ~Fixed!IsActive(id)
    BY <1>2 DEF Fixed!IsActive
  <1> QED BY <1>1, <1>2, <1>3 DEF FixedInv

(* A new sale takes its asset over. *)
LEMMA CreateFixedInv ==
  ASSUME FixedInv, NEW caller \in Users, NEW id \in Assets, NEW price \in Prices,
         NEW duration \in Durations, Fixed!CreateNFTAssetAuction(caller, id, price, duration)
  PROVE  FixedInv'
  <1> DEFINE auction ==
               [seller |-> caller, price |-> price, duration |-> duration, isActive |-> TRUE]
  <1>1. /\ NFT!SendFrom(This, caller, This, id)
        /\ nftAssetToAuction' = [nftAssetToAuction EXCEPT ![id] = auction]
    BY SameSendFrom DEF Fixed!CreateNFTAssetAuction
  <1>2. HeldInv' /\ StillHeld(Assets \ {id}) /\ IsHeld(id)'
    BY <1>1, SendFromHeld, PartiesAssumption DEF FixedInv
  <1>3. auction \in Fixed!AuctionDetails
    BY DEF Fixed!AuctionDetails
  <1> HIDE DEF auction
  <1>4. nftAssetToAuction' \in [Assets -> Fixed!AuctionDetails \cup {None}]
    BY <1>1, <1>3 DEF FixedInv
  <1>5. \A x \in Assets : x # id => (Fixed!IsActive(x)' <=> Fixed!IsActive(x))
    BY <1>1 DEF Fixed!IsActive, FixedInv
  <1> QED BY <1>2, <1>4, <1>5 DEF FixedInv, StillHeld

(* purchaseNFTAsset and cancelAution.                                       *)
LEMMA EndFixedInv ==
  ASSUME FixedInv, NEW caller \in Users, NEW id \in Assets,
         Fixed!PurchaseNFTAsset(caller, id) \/ Fixed!CancelAution(caller, id)
  PROVE  FixedInv'
  <1>1. /\ Fixed!IsActive(id) /\ Fixed!Deactivate(id)
        /\ NFT!SendFrom(This, This, caller, id)
    BY SameSendFrom DEF Fixed!PurchaseNFTAsset, Fixed!CancelAution
  <1>2. HeldInv' /\ StillHeld(Assets \ {id})
    BY <1>1, SendFromHeld, PartiesAssumption DEF FixedInv
  <1>3. nftAssetToAuction[id] \in Fixed!AuctionDetails
    BY <1>1 DEF FixedInv, Fixed!IsActive
  <1>4. nftAssetToAuction' =
          [nftAssetToAuction EXCEPT ![id] = [@ EXCEPT !.isActive = FALSE]]
    BY <1>1 DEF Fixed!Deactivate
  <1>5. /\ [nftAssetToAuction[id] EXCEPT !.isActive = FALSE] \in Fixed!AuctionDetails
        /\ ~[nftAssetToAuction[id] EXCEPT !.isActive = FALSE].isActive
    BY <1>3 DEF Fixed!AuctionDetails
  <1>6. /\ nftAssetToAuction' \in [Assets -> Fixed!AuctionDetails \cup {None}]
        /\ ~Fixed!IsActive(id)'
    BY <1>4, <1>5 DEF FixedInv, Fixed!IsActive
  <1>7. \A x \in Assets : x # id => (Fixed!IsActive(x)' <=> Fixed!IsActive(x))
    BY <1>4 DEF Fixed!IsActive, FixedInv
  <1> QED BY <1>2, <1>6, <1>7 DEF FixedInv, StillHeld

(* The invariant is kept by sales, by the assets and by the clock. *)
LEMMA NextFixedInv ==
  FixedInv /\ [Fixed!FixedPriceNext]_<<Fixed!bacVars, nftAssetToAuction>> => FixedInv'
  <1> SUFFICES ASSUME FixedInv, [Fixed!FixedPriceNext]_<<Fixed!bacVars, nftAssetToAuction>>
               PROVE  FixedInv'
    OBVIOUS
  <1>1. This \in Accounts /\ Users \subseteq Accounts
    BY PartiesAssumption
  <1>2. ASSUME UNCHANGED nftAssetToAuction, HeldInv', StillHeld(Assets) PROVE FixedInv'
    BY <1>2 DEF FixedInv, StillHeld, Fixed!IsActive
  <1>3. ASSUME UNCHANGED <<Fixed!nftVars, nftAssetToAuction>> PROVE FixedInv'
    <2>1. HeldInv' /\ StillHeld(Assets)
      BY <1>3 DEF Fixed!nftVars, FixedInv, HeldInv, StillHeld, IsHeld
    <2> QED BY <1>2, <1>3, <2>1
  <1>4. ASSUME Fixed!NFT!Next, UNCHANGED nftAssetToAuction PROVE FixedInv'
    BY <1>2, <1>4, SameAssetNext, UsersLeaveHeld DEF FixedInv
  <1>5. CASE Fixed!AuctionNext
    BY <1>5, CreateFixedInv, EndFixedInv DEF Fixed!AuctionNext
  <1>6. CASE Fixed!BACNext /\ UNCHANGED nftAssetToAuction
    <2>1. CASE Fixed!Tick \/ UNCHANGED Fixed!nftVars
      BY <1>3, <1>6, <2>1 DEF Fixed!Tick
    <2>2. CASE Fixed!HoldersNext
      <3>1. ASSUME NEW caller \in Users, NEW id \in Assets,
                   \/ Fixed!NFT!Approve(caller, This, id)
                   \/ Fixed!NFT!Issue(caller, caller, id)
                   \/ Fixed!NFT!Destroy(caller, id)
                   \/ \E from, to \in Accounts : Fixed!NFT!SendFrom(caller, from, to, id)
            PROVE  Fixed!NFT!Next
        BY <1>1, <3>1 DEF Fixed!NFT!Next, Fixed!NFT!HolderNext, Fixed!NFT!IssuerNext
      <3> QED BY <1>4, <1>6, <2>1, <2>2, <3>1 DEF Fixed!HoldersNext, Fixed!TradersNext
    <2> QED BY <1>4, <1>6, <2>1, <2>2 DEF Fixed!BACNext
  <1>7. CASE UNCHANGED <<Fixed!bacVars, nftAssetToAuction>>
    BY <1>3, <1>7 DEF Fixed!bacVars
  <1> QED BY <1>5, <1>6, <1>7 DEF Fixed!FixedPriceNext

(* The same of the auction at a fixed price: what it sells it can deliver.  *)
THEOREM AssetForSaleIsHeld == Fixed!FixedPriceSpec => []ActiveAssetIsHeld
  <1>1. FixedInv => ActiveAssetIsHeld
    BY DEF FixedInv, IsHeld, ActiveAssetIsHeld, IsActive, Fixed!IsActive
  <1> QED BY InitFixedInv, NextFixedInv, <1>1, PTL DEF Fixed!FixedPriceSpec

(* The fungible asset of that module is this one's.                         *)
LEMMA SameSums == \A f : Fixed!SumFunction(f) = SumFunction(f)
  BY Zenon DEF SumFunction, Fixed!SumFunction, SumFunctionOnSet, Fixed!SumFunctionOnSet,
               FoldFunctionOnSet, Fixed!FoldFunctionOnSet, MapThenFoldSet, Fixed!MapThenFoldSet

(* The fixed auction has the money of the unfixed one: a batch is the same. *)
LEMMA SameBatchSend ==
  ASSUME NEW caller, NEW due, Fixed!BatchSend(caller, due) PROVE BatchSend(caller, due)
  BY SameSums DEF BatchSend, Fixed!BatchSend, PaidOut, Fixed!PaidOut, roleVars, Fixed!roleVars

(* So is a transfer of an amount. *)
LEMMA SameTransfer ==
  ASSUME NEW caller, NEW from, NEW to, NEW value, Fixed!SendFrom(caller, from, to, value)
  PROVE  SendFrom(caller, from, to, value)
  BY DEF SendFrom, Fixed!SendFrom, Sent, Fixed!Sent, roleVars, Fixed!roleVars

(* So are all transactions of the fungible asset. *)
LEMMA SameNext == Fixed!Next => Next
  BY SameBatchSend, SameTransfer
  DEF Next, Fixed!Next, HolderNext, Fixed!HolderNext, OwnerNext, Fixed!OwnerNext, RolesNext,
      Fixed!RolesNext, AddIssuer, Fixed!AddIssuer, RenounceIssuer, Fixed!RenounceIssuer,
      AddSuspender, Fixed!AddSuspender, RenounceSuspender, Fixed!RenounceSuspender, Suspend,
      Fixed!Suspend, UnSuspend, Fixed!UnSuspend, Send, Fixed!Send, Sent, Fixed!Sent, Approve,
      Fixed!Approve, IncreaseAllowance, Fixed!IncreaseAllowance, DecreaseAllowance,
      Fixed!DecreaseAllowance, SetAllowance, Fixed!SetAllowance, Destroy, Fixed!Destroy,
      DestroyFrom, Fixed!DestroyFrom, Destroyed, Fixed!Destroyed, Issue, Fixed!Issue,
      roleVars, Fixed!roleVars, assetVars, Fixed!assetVars

(* A sale pays the seller out of what the buyer allowed, and nothing else    *)
(* of the contract's touches the asset.                                     *)
SaleInv == FixedInv /\ AssetInv /\ ClockInv

(* Before the first sale types and books are right. *)
LEMMA InitSaleInv == Fixed!AuctionInit => SaleInv
  <1> SUFFICES ASSUME Fixed!AuctionInit PROVE SaleInv
    OBVIOUS
  <1>1. Init /\ now = 0
    BY DEF Fixed!AuctionInit, Fixed!BACInit, Init, Fixed!Init, RolesInit, Fixed!RolesInit
  <1> QED BY <1>1, InitFixedInv, InitAssetInv, TermsAssumption DEF SaleInv, ClockInv

(* A purchase pays the seller and keeps the books. *)
LEMMA PurchaseBooks ==
  ASSUME SaleInv, NEW caller \in Users, NEW id \in Assets, Fixed!PurchaseNFTAsset(caller, id)
  PROVE  AssetInv' /\ now' = now
  <1> DEFINE seller == nftAssetToAuction[id].seller
             price == nftAssetToAuction[id].price
  <1>1. /\ Fixed!IsActive(id) /\ SendFrom(This, caller, seller, price) /\ now' = now
    BY SameTransfer DEF Fixed!PurchaseNFTAsset
  <1>2. seller \in Users /\ price \in Nat
    <2>1. nftAssetToAuction[id] \in Fixed!AuctionDetails
      BY <1>1 DEF SaleInv, FixedInv, Fixed!IsActive
    <2> QED BY <2>1, TermsAssumption DEF Fixed!AuctionDetails
  <1>3. This \in Accounts /\ caller \in Accounts /\ seller \in Accounts
    BY <1>2, PartiesAssumption
  <1> HIDE DEF seller, price
  <1>4. BooksInv'
    BY <1>1, <1>2, <1>3, SendFromBooks DEF SaleInv, AssetInv
  <1>5. RolesTypeOK'
    BY <1>1, RolesTypes DEF SendFrom, SaleInv, AssetInv
  <1> QED BY <1>1, <1>4, <1>5 DEF AssetInv

(* Types and books are kept by every step. *)
LEMMA NextSaleInv ==
  SaleInv /\ [Fixed!FixedPriceNext]_<<Fixed!bacVars, nftAssetToAuction>> => SaleInv'
  <1> SUFFICES ASSUME SaleInv, [Fixed!FixedPriceNext]_<<Fixed!bacVars, nftAssetToAuction>>
               PROVE  SaleInv'
    OBVIOUS
  <1>1. FixedInv'
    BY NextFixedInv DEF SaleInv
  <1>2. ASSUME [Next]_vars, now' = now \/ Fixed!Tick PROVE SaleInv'
    <2>1. AssetInv'
      BY <1>2, NextAssetInv DEF SaleInv
    <2>2. ClockInv'
      BY <1>2, TermsAssumption DEF SaleInv, ClockInv, Fixed!Tick
    <2> QED BY <1>1, <2>1, <2>2 DEF SaleInv
  <1>3. UNCHANGED Fixed!vars => UNCHANGED vars
    BY DEF vars, Fixed!vars, roleVars, Fixed!roleVars, assetVars, Fixed!assetVars
  <1>4. ASSUME NEW caller \in Users, NEW id \in Assets, Fixed!PurchaseNFTAsset(caller, id)
        PROVE  SaleInv'
    BY <1>1, <1>4, PurchaseBooks DEF SaleInv, ClockInv
  <1>5. CASE Fixed!AuctionNext
    BY <1>2, <1>3, <1>4, <1>5
    DEF Fixed!AuctionNext, Fixed!CreateNFTAssetAuction, Fixed!CancelAution
  <1>6. CASE Fixed!BACNext
    <2>1. Fixed!TradersNext => [Next]_vars /\ (now' = now \/ Fixed!Tick)
      <3>1. ASSUME NEW caller \in Users, NEW value \in Values,
                   \/ Fixed!IncreaseAllowance(caller, This, value)
                   \/ \E to \in Users : Fixed!Send(caller, to, value)
            PROVE  Next
        <4>1. Fixed!Next
          BY <3>1, PartiesAssumption DEF Fixed!Next, Fixed!HolderNext
        <4> QED BY <4>1, SameNext
      <3> QED BY <1>3, <3>1 DEF Fixed!TradersNext, Fixed!Tick
    <2> QED BY <1>2, <1>3, <1>6, <2>1, SameNext DEF Fixed!BACNext, Fixed!HoldersNext
  <1>7. CASE UNCHANGED <<Fixed!bacVars, nftAssetToAuction>>
    BY <1>2, <1>3, <1>7 DEF Fixed!bacVars
  <1> QED BY <1>5, <1>6, <1>7 DEF Fixed!FixedPriceNext

(* They hold in every reachable state. *)
LEMMA SpecSaleInv == Fixed!FixedPriceSpec => []SaleInv
  <1> QED BY InitSaleInv, NextSaleInv, PTL DEF Fixed!FixedPriceSpec

(* Sales keep the types of all variables,                                   *)
THEOREM SalesAreTyped == Fixed!FixedPriceSpec => [](Fixed!AuctionTypeOK /\ TypeOK)
  <1>1. SaleInv => Fixed!AuctionTypeOK /\ TypeOK
    BY DEF SaleInv, FixedInv, AssetInv, BooksInv, ClockInv, Fixed!AuctionTypeOK, TypeOK
  <1> QED BY SpecSaleInv, <1>1, PTL

(* and the books of the asset prices are paid in.                           *)
THEOREM SaleBooksBalance == Fixed!FixedPriceSpec => []BooksBalance
  <1>1. SaleInv => BooksBalance
    BY DEF SaleInv, AssetInv, BooksInv
  <1> QED BY SpecSaleInv, <1>1, PTL
=============================================================================
