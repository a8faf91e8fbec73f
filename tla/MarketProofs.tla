----------------------------- MODULE MarketProofs -----------------------------
(***************************************************************************)
(* Whichever contract is deployed, Market lets it do what its own module   *)
(* specifies, so that the theorems about the contracts hold side by side;  *)
(* and the lists of the assets are right also where contracts, which are   *)
(* not users, send them.                                                   *)
(*                                                                         *)
(* The contracts are instances in Market, and again here with the modules  *)
(* that prove things of them: the first lemmas say they are the same.      *)
(***************************************************************************)
EXTENDS Market, TLAPS

FTP == INSTANCE BAC001Proofs

NFTP ==
  INSTANCE BAC002Proofs
    WITH issuers <- nftIssuers, suspenders <- nftSuspenders, suspended <- nftSuspended

AP == INSTANCE AuctionProofs

LP == INSTANCE LotteryProofs

-----------------------------------------------------------------------------
(* A contract is the same in both instances: a BAC001 by itself,           *)
LEMMA SameFungible == FT!Spec => FTP!Spec
  <1>1. \A f : FT!SumFunction(f) = FTP!SumFunction(f)
    BY Zenon
    DEF FT!SumFunction, FTP!SumFunction, FT!SumFunctionOnSet, FTP!SumFunctionOnSet,
        FT!FoldFunctionOnSet, FTP!FoldFunctionOnSet, FT!MapThenFoldSet, FTP!MapThenFoldSet
  <1>2. \A a, due : FT!BatchSend(a, due) <=> FTP!BatchSend(a, due)
    BY <1>1
    DEF FT!BatchSend, FTP!BatchSend, FT!PaidOut, FTP!PaidOut, FT!roleVars, FTP!roleVars
  <1>3. FT!Init => FTP!Init
    BY DEF FT!Init, FTP!Init, FT!RolesInit, FTP!RolesInit
  <1>4. [FT!Next]_FT!vars => [FTP!Next]_FTP!vars
    BY <1>2
    DEF FT!RolesNext, FTP!RolesNext, FT!AddIssuer, FTP!AddIssuer, FT!RenounceIssuer,
        FTP!RenounceIssuer, FT!AddSuspender, FTP!AddSuspender, FT!RenounceSuspender,
        FTP!RenounceSuspender, FT!Suspend, FTP!Suspend, FT!UnSuspend, FTP!UnSuspend,
        FT!roleVars, FTP!roleVars, FT!Next, FTP!Next, FT!HolderNext, FTP!HolderNext,
        FT!OwnerNext, FTP!OwnerNext, FT!Send, FTP!Send, FT!Sent, FTP!Sent, FT!SendFrom,
        FTP!SendFrom, FT!Approve, FTP!Approve, FT!IncreaseAllowance, FTP!IncreaseAllowance,
        FT!DecreaseAllowance, FTP!DecreaseAllowance, FT!SetAllowance, FTP!SetAllowance,
        FT!Destroy, FTP!Destroy, FT!DestroyFrom, FTP!DestroyFrom, FT!Destroyed,
        FTP!Destroyed, FT!Issue, FTP!Issue, FT!assetVars, FTP!assetVars, FT!vars, FTP!vars
  <1> QED
    BY <1>3, <1>4, PTL DEF FT!Spec, FTP!Spec

(* a BAC002 by itself,                                                     *)
LEMMA SameNonFungible == NFT!Spec => NFTP!Spec
  <1>1. NFT!Init => NFTP!Init
    BY DEF NFT!Init, NFTP!Init, NFT!RolesInit, NFTP!RolesInit
  <1>2. [NFT!Next]_NFT!vars => [NFTP!Next]_NFTP!vars
    BY DEF NFT!RolesNext, NFTP!RolesNext, NFT!AddIssuer, NFTP!AddIssuer, NFT!RenounceIssuer,
           NFTP!RenounceIssuer, NFT!AddSuspender, NFTP!AddSuspender, NFT!RenounceSuspender,
           NFTP!RenounceSuspender, NFT!Suspend, NFTP!Suspend, NFT!UnSuspend, NFTP!UnSuspend,
           NFT!roleVars, NFTP!roleVars, NFT!SendFrom, NFTP!SendFrom, NFT!HandOver,
           NFTP!HandOver, NFT!IsApprovedOrOwner, NFTP!IsApprovedOrOwner, NFT!Exists,
           NFTP!Exists, NFT!ListsWithout, NFTP!ListsWithout, NFT!PositionsWithout,
           NFTP!PositionsWithout, NFT!SwapAndPop, NFTP!SwapAndPop, NFT!MovedIndex,
           NFTP!MovedIndex, NFT!ownerVars, NFTP!ownerVars, NFT!listVars, NFTP!listVars,
           NFT!allVars, NFTP!allVars, NFT!Next, NFTP!Next, NFT!HolderNext, NFTP!HolderNext,
           NFT!IssuerNext, NFTP!IssuerNext, NFT!Destroy, NFTP!Destroy, NFT!Approve,
           NFTP!Approve, NFT!SetApprovalForAll, NFTP!SetApprovalForAll, NFT!Issue,
           NFTP!Issue, NFT!RemoveFromAllAssets, NFTP!RemoveFromAllAssets, NFT!assetVars,
           NFTP!assetVars, NFT!vars, NFTP!vars
  <1> QED
    BY <1>1, <1>2, PTL DEF NFT!Spec, NFTP!Spec

(* that of the auctions,                                                   *)
LEMMA SameAuctioned ==
  /\ AP!NFT!Init => NFTP!Init
  /\ AP!NFT!Next => NFTP!Next
  /\ \A caller, from, to, id :
       AP!NFT!SendFrom(caller, from, to, id) => NFTP!SendFrom(caller, from, to, id)
  <1>1. AP!NFT!Init => NFTP!Init
    BY DEF AP!NFT!Init, NFTP!Init, AP!NFT!RolesInit, NFTP!RolesInit
  <1>2. ASSUME NEW caller, NEW from, NEW to, NEW id, AP!NFT!SendFrom(caller, from, to, id)
        PROVE  NFTP!SendFrom(caller, from, to, id)
    BY <1>2
    DEF AP!NFT!SendFrom, NFTP!SendFrom, AP!NFT!HandOver, NFTP!HandOver,
        AP!NFT!IsApprovedOrOwner, NFTP!IsApprovedOrOwner, AP!NFT!Exists, NFTP!Exists,
        AP!NFT!ListsWithout, NFTP!ListsWithout, AP!NFT!PositionsWithout,
        NFTP!PositionsWithout, AP!NFT!SwapAndPop, NFTP!SwapAndPop, AP!NFT!MovedIndex,
        NFTP!MovedIndex, AP!NFT!ownerVars, NFTP!ownerVars, AP!NFT!listVars, NFTP!listVars,
        AP!NFT!allVars, NFTP!allVars, AP!NFT!roleVars, NFTP!roleVars
  <1> QED
    BY <1>1, <1>2
    DEF AP!NFT!RolesNext, NFTP!RolesNext, AP!NFT!AddIssuer, NFTP!AddIssuer,
        AP!NFT!RenounceIssuer, NFTP!RenounceIssuer, AP!NFT!AddSuspender, NFTP!AddSuspender,
        AP!NFT!RenounceSuspender, NFTP!RenounceSuspender, AP!NFT!Suspend, NFTP!Suspend,
        AP!NFT!UnSuspend, NFTP!UnSuspend, AP!NFT!roleVars, NFTP!roleVars, AP!NFT!SendFrom,
        NFTP!SendFrom, AP!NFT!HandOver, NFTP!HandOver, AP!NFT!IsApprovedOrOwner,
        NFTP!IsApprovedOrOwner, AP!NFT!Exists, NFTP!Exists, AP!NFT!ListsWithout,
        NFTP!ListsWithout, AP!NFT!PositionsWithout, NFTP!PositionsWithout,
        AP!NFT!SwapAndPop, NFTP!SwapAndPop, AP!NFT!MovedIndex, NFTP!MovedIndex,
        AP!NFT!ownerVars, NFTP!ownerVars, AP!NFT!listVars, NFTP!listVars, AP!NFT!allVars,
        NFTP!allVars, AP!NFT!Next, NFTP!Next, AP!NFT!HolderNext, NFTP!HolderNext,
        AP!NFT!IssuerNext, NFTP!IssuerNext, AP!NFT!Destroy, NFTP!Destroy, AP!NFT!Approve,
        NFTP!Approve, AP!NFT!SetApprovalForAll, NFTP!SetApprovalForAll, AP!NFT!Issue,
        NFTP!Issue, AP!NFT!RemoveFromAllAssets, NFTP!RemoveFromAllAssets, AP!NFT!assetVars,
        NFTP!assetVars, AP!NFT!vars, NFTP!vars

(* a blind box,                                                            *)
LEMMA SameBox == Box!BoxSpec => NFTP!BoxSpec
  <1>1. Box!BoxInit => NFTP!BoxInit
    BY DEF Box!BoxInit, NFTP!BoxInit, Box!Init, NFTP!Init, Box!RolesInit, NFTP!RolesInit,
           Box!OracleInit, NFTP!OracleInit, Box!RequestIds, NFTP!RequestIds
  <1>2. Box!BoxNext => NFTP!BoxNext
    BY DEF Box!BoxNext, NFTP!BoxNext, Box!RequestNewBlindboxCat, NFTP!RequestNewBlindboxCat,
           Box!GenerateBlindBoxCat, NFTP!GenerateBlindBoxCat, Box!RemoveCatSpecies,
           NFTP!RemoveCatSpecies, Box!Request, NFTP!Request, Box!CheckIdFulfilled,
           NFTP!CheckIdFulfilled, Box!RequestIds, NFTP!RequestIds, Box!Issue, NFTP!Issue,
           Box!SwapAndPop, NFTP!SwapAndPop, Box!Exists, NFTP!Exists, Box!oracleVars,
           NFTP!oracleVars, Box!vars, NFTP!vars, Box!roleVars, NFTP!roleVars, Box!assetVars,
           NFTP!assetVars, Box!ownerVars, NFTP!ownerVars, Box!listVars, NFTP!listVars,
           Box!allVars, NFTP!allVars
  <1>3. Box!OracleNext => NFTP!OracleNext
    BY DEF Box!OracleNext, NFTP!OracleNext, Box!Request, NFTP!Request, Box!Callback,
           NFTP!Callback, Box!RequestIds, NFTP!RequestIds
  <1>4. Box!Next => NFTP!Next
    BY DEF Box!RolesNext, NFTP!RolesNext, Box!AddIssuer, NFTP!AddIssuer, Box!RenounceIssuer,
           NFTP!RenounceIssuer, Box!AddSuspender, NFTP!AddSuspender, Box!RenounceSuspender,
           NFTP!RenounceSuspender, Box!Suspend, NFTP!Suspend, Box!UnSuspend, NFTP!UnSuspend,
           Box!roleVars, NFTP!roleVars, Box!SendFrom, NFTP!SendFrom, Box!HandOver,
           NFTP!HandOver, Box!IsApprovedOrOwner, NFTP!IsApprovedOrOwner, Box!Exists,
           NFTP!Exists, Box!ListsWithout, NFTP!ListsWithout, Box!PositionsWithout,
           NFTP!PositionsWithout, Box!SwapAndPop, NFTP!SwapAndPop, Box!MovedIndex,
           NFTP!MovedIndex, Box!ownerVars, NFTP!ownerVars, Box!listVars, NFTP!listVars,
           Box!allVars, NFTP!allVars, Box!Next, NFTP!Next, Box!HolderNext, NFTP!HolderNext,
           Box!IssuerNext, NFTP!IssuerNext, Box!Destroy, NFTP!Destroy, Box!Approve,
           NFTP!Approve, Box!SetApprovalForAll, NFTP!SetApprovalForAll, Box!Issue,
           NFTP!Issue, Box!RemoveFromAllAssets, NFTP!RemoveFromAllAssets, Box!assetVars,
           NFTP!assetVars, Box!vars, NFTP!vars
  <1>5. [Box!GroupNext]_<<Box!vars, Box!oracleVars, Box!boxVars>>
          => [NFTP!GroupNext]_<<NFTP!vars, NFTP!oracleVars, NFTP!boxVars>>
    BY <1>2, <1>3, <1>4
    DEF Box!GroupNext, NFTP!GroupNext, Box!oracleVars, NFTP!oracleVars, Box!boxVars,
        NFTP!boxVars, Box!vars, NFTP!vars, Box!roleVars, NFTP!roleVars, Box!assetVars,
        NFTP!assetVars, Box!ownerVars, NFTP!ownerVars, Box!listVars, NFTP!listVars,
        Box!allVars, NFTP!allVars
  <1> QED
    BY <1>1, <1>5, PTL DEF Box!BoxSpec, NFTP!BoxSpec

(* an auction: what it does with the assets, which its group has, too,     *)
LEMMA SameGroup ==
  /\ Unfixed!BACInit => AP!BACInit
  /\ Unfixed!BACNext => AP!BACNext
  /\ \A a, due : Unfixed!BatchSend(a, due) => AP!BatchSend(a, due)
  /\ \A a, from, to, id : Unfixed!NFT!SendFrom(a, from, to, id) => AP!NFT!SendFrom(a, from, to, id)
  <1>1. \A f : Unfixed!SumFunction(f) = AP!SumFunction(f)
    BY Zenon
    DEF Unfixed!SumFunction, AP!SumFunction, Unfixed!SumFunctionOnSet, AP!SumFunctionOnSet,
        Unfixed!FoldFunctionOnSet, AP!FoldFunctionOnSet, Unfixed!MapThenFoldSet,
        AP!MapThenFoldSet
  <1>2. \A a, due : Unfixed!BatchSend(a, due) <=> AP!BatchSend(a, due)
    BY <1>1
    DEF Unfixed!BatchSend, AP!BatchSend, Unfixed!PaidOut, AP!PaidOut, Unfixed!roleVars,
        AP!roleVars
  <1>3. \A a, from, to, id :
          Unfixed!NFT!SendFrom(a, from, to, id) <=> AP!NFT!SendFrom(a, from, to, id)
    BY DEF Unfixed!NFT!SendFrom, AP!NFT!SendFrom, Unfixed!NFT!HandOver, AP!NFT!HandOver,
           Unfixed!NFT!IsApprovedOrOwner, AP!NFT!IsApprovedOrOwner, Unfixed!NFT!Exists,
           AP!NFT!Exists, Unfixed!NFT!ListsWithout, AP!NFT!ListsWithout,
           Unfixed!NFT!PositionsWithout, AP!NFT!PositionsWithout, Unfixed!NFT!SwapAndPop,
           AP!NFT!SwapAndPop, Unfixed!NFT!MovedIndex, AP!NFT!MovedIndex,
           Unfixed!NFT!ownerVars, AP!NFT!ownerVars, Unfixed!NFT!listVars, AP!NFT!listVars,
           Unfixed!NFT!allVars, AP!NFT!allVars, Unfixed!NFT!roleVars, AP!NFT!roleVars
  <1>4. Unfixed!BACInit => AP!BACInit
    BY DEF Unfixed!BACInit, AP!BACInit, Unfixed!Init, AP!Init, Unfixed!RolesInit,
           AP!RolesInit, Unfixed!NFT!Init, AP!NFT!Init, Unfixed!NFT!RolesInit,
           AP!NFT!RolesInit
  <1>5. Unfixed!Next => AP!Next
    BY <1>2
    DEF Unfixed!RolesNext, AP!RolesNext, Unfixed!AddIssuer, AP!AddIssuer,
        Unfixed!RenounceIssuer, AP!RenounceIssuer, Unfixed!AddSuspender, AP!AddSuspender,
        Unfixed!RenounceSuspender, AP!RenounceSuspender, Unfixed!Suspend, AP!Suspend,
        Unfixed!UnSuspend, AP!UnSuspend, Unfixed!roleVars, AP!roleVars, Unfixed!Next,
        AP!Next, Unfixed!HolderNext, AP!HolderNext, Unfixed!OwnerNext, AP!OwnerNext,
        Unfixed!Send, AP!Send, Unfixed!Sent, AP!Sent, Unfixed!SendFrom, AP!SendFrom,
        Unfixed!Approve, AP!Approve, Unfixed!IncreaseAllowance, AP!IncreaseAllowance,
        Unfixed!DecreaseAllowance, AP!DecreaseAllowance, Unfixed!SetAllowance,
        AP!SetAllowance, Unfixed!Destroy, AP!Destroy, Unfixed!DestroyFrom, AP!DestroyFrom,
        Unfixed!Destroyed, AP!Destroyed, Unfixed!Issue, AP!Issue, Unfixed!assetVars,
        AP!assetVars, Unfixed!vars, AP!vars
  <1>6. Unfixed!NFT!Next => AP!NFT!Next
    BY DEF Unfixed!NFT!RolesNext, AP!NFT!RolesNext, Unfixed!NFT!AddIssuer, AP!NFT!AddIssuer,
           Unfixed!NFT!RenounceIssuer, AP!NFT!RenounceIssuer, Unfixed!NFT!AddSuspender,
           AP!NFT!AddSuspender, Unfixed!NFT!RenounceSuspender, AP!NFT!RenounceSuspender,
           Unfixed!NFT!Suspend, AP!NFT!Suspend, Unfixed!NFT!UnSuspend, AP!NFT!UnSuspend,
           Unfixed!NFT!roleVars, AP!NFT!roleVars, Unfixed!NFT!SendFrom, AP!NFT!SendFrom,
           Unfixed!NFT!HandOver, AP!NFT!HandOver, Unfixed!NFT!IsApprovedOrOwner,
           AP!NFT!IsApprovedOrOwner, Unfixed!NFT!Exists, AP!NFT!Exists,
           Unfixed!NFT!ListsWithout, AP!NFT!ListsWithout, Unfixed!NFT!PositionsWithout,
           AP!NFT!PositionsWithout, Unfixed!NFT!SwapAndPop, AP!NFT!SwapAndPop,
           Unfixed!NFT!MovedIndex, AP!NFT!MovedIndex, Unfixed!NFT!ownerVars,
           AP!NFT!ownerVars, Unfixed!NFT!listVars, AP!NFT!listVars, Unfixed!NFT!allVars,
           AP!NFT!allVars, Unfixed!NFT!Next, AP!NFT!Next, Unfixed!NFT!HolderNext,
           AP!NFT!HolderNext, Unfixed!NFT!IssuerNext, AP!NFT!IssuerNext,
           Unfixed!NFT!Destroy, AP!NFT!Destroy, Unfixed!NFT!Approve, AP!NFT!Approve,
           Unfixed!NFT!SetApprovalForAll, AP!NFT!SetApprovalForAll, Unfixed!NFT!Issue,
           AP!NFT!Issue, Unfixed!NFT!RemoveFromAllAssets, AP!NFT!RemoveFromAllAssets,
           Unfixed!NFT!assetVars, AP!NFT!assetVars, Unfixed!NFT!vars, AP!NFT!vars
  <1>7. Unfixed!TradersNext => AP!TradersNext
    BY DEF Unfixed!TradersNext, AP!TradersNext, Unfixed!Tick, AP!Tick,
           Unfixed!IncreaseAllowance, AP!IncreaseAllowance, Unfixed!SetAllowance,
           AP!SetAllowance, Unfixed!Send, AP!Send, Unfixed!Sent, AP!Sent, Unfixed!roleVars,
           AP!roleVars, Unfixed!assetVars, AP!assetVars, Unfixed!vars, AP!vars,
           Unfixed!nftVars, AP!nftVars, Unfixed!NFT!Approve, AP!NFT!Approve,
           Unfixed!NFT!Issue, AP!NFT!Issue, Unfixed!NFT!Exists, AP!NFT!Exists,
           Unfixed!NFT!roleVars, AP!NFT!roleVars, Unfixed!NFT!ownerVars, AP!NFT!ownerVars,
           Unfixed!NFT!listVars, AP!NFT!listVars, Unfixed!NFT!allVars, AP!NFT!allVars
  <1>8. Unfixed!HoldersNext => AP!HoldersNext
    BY <1>3, <1>7
    DEF Unfixed!HoldersNext, AP!HoldersNext, Unfixed!roleVars, AP!roleVars,
        Unfixed!assetVars, AP!assetVars, Unfixed!vars, AP!vars, Unfixed!NFT!Destroy,
        AP!NFT!Destroy, Unfixed!NFT!RemoveFromAllAssets, AP!NFT!RemoveFromAllAssets,
        Unfixed!NFT!HandOver, AP!NFT!HandOver, Unfixed!NFT!IsApprovedOrOwner,
        AP!NFT!IsApprovedOrOwner, Unfixed!NFT!Exists, AP!NFT!Exists,
        Unfixed!NFT!ListsWithout, AP!NFT!ListsWithout, Unfixed!NFT!PositionsWithout,
        AP!NFT!PositionsWithout, Unfixed!NFT!SwapAndPop, AP!NFT!SwapAndPop,
        Unfixed!NFT!MovedIndex, AP!NFT!MovedIndex, Unfixed!NFT!roleVars, AP!NFT!roleVars
  <1> QED
    BY <1>2, <1>3, <1>4, <1>5, <1>6, <1>8
    DEF Unfixed!BACNext, AP!BACNext, Unfixed!roleVars, AP!roleVars, Unfixed!assetVars,
        AP!assetVars, Unfixed!vars, AP!vars, Unfixed!nftVars, AP!nftVars

(* and what it does itself,                                                *)
LEMMA SameUnfixed == Unfixed!UnfixedPriceSpec => AP!UnfixedPriceSpec
  <1>1. \A f : Unfixed!SumFunction(f) = AP!SumFunction(f)
    BY Zenon
    DEF Unfixed!SumFunction, AP!SumFunction, Unfixed!SumFunctionOnSet, AP!SumFunctionOnSet,
        Unfixed!FoldFunctionOnSet, AP!FoldFunctionOnSet, Unfixed!MapThenFoldSet,
        AP!MapThenFoldSet
  <1>2. \A id, winner : Unfixed!Refunds(id, winner) = AP!Refunds(id, winner)
    BY DEF Unfixed!Refunds, AP!Refunds, Unfixed!Range, AP!Range
  <1>3. \A a, id, price, duration :
          Unfixed!CreateNFTAssetAuction(a, id, price, duration)
            => AP!CreateNFTAssetAuction(a, id, price, duration)
    BY <1>1, SameGroup
    DEF Unfixed!CreateNFTAssetAuction, AP!CreateNFTAssetAuction, Unfixed!roleVars,
        AP!roleVars, Unfixed!assetVars, AP!assetVars, Unfixed!vars, AP!vars
  <1>4. \A a, id, amount : Unfixed!Bid(a, id, amount) => AP!Bid(a, id, amount)
    BY DEF Unfixed!Bid, AP!Bid, Unfixed!ExchangeDeposit, AP!ExchangeDeposit, Unfixed!Sent,
           AP!Sent, Unfixed!AfterBid, AP!AfterBid, Unfixed!MayBid, AP!MayBid,
           Unfixed!IsHigher, AP!IsHigher, Unfixed!nftVars, AP!nftVars, Unfixed!IsActive,
           AP!IsActive, Unfixed!roleVars, AP!roleVars
  <1>5. \A a, id : Unfixed!ExecuteSale(a, id) => AP!ExecuteSale(a, id)
    BY <1>2, SameGroup
    DEF Unfixed!ExecuteSale, AP!ExecuteSale, Unfixed!Deactivate, AP!Deactivate,
        Unfixed!IsActive, AP!IsActive, Unfixed!roleVars, AP!roleVars, Unfixed!assetVars,
        AP!assetVars, Unfixed!vars, AP!vars
  <1>6. \A a, id : Unfixed!CancelAution(a, id) => AP!CancelAution(a, id)
    BY <1>2, SameGroup
    DEF Unfixed!CancelAution, AP!CancelAution, Unfixed!Deactivate, AP!Deactivate,
        Unfixed!IsActive, AP!IsActive, Unfixed!roleVars, AP!roleVars, Unfixed!assetVars,
        AP!assetVars, Unfixed!vars, AP!vars
  <1>7. \A a, id, amount : Unfixed!BidCallsOut(a, id, amount) => AP!BidCallsOut(a, id, amount)
    BY DEF Unfixed!BidCallsOut, AP!BidCallsOut, Unfixed!Send, AP!Send, Unfixed!Sent, AP!Sent,
           Unfixed!MayBid, AP!MayBid, Unfixed!nftVars, AP!nftVars, Unfixed!IsActive,
           AP!IsActive, Unfixed!roleVars, AP!roleVars
  <1>8. Unfixed!BidReturns => AP!BidReturns
    BY DEF Unfixed!BidReturns, AP!BidReturns, Unfixed!SendFrom, AP!SendFrom, Unfixed!Sent,
           AP!Sent, Unfixed!AfterBid, AP!AfterBid, Unfixed!IsHigher, AP!IsHigher,
           Unfixed!nftVars, AP!nftVars, Unfixed!roleVars, AP!roleVars
  <1>9. Unfixed!AuctionNext => AP!AuctionNext
    BY <1>3, <1>4, <1>5, <1>6, <1>7, <1>8
    DEF Unfixed!AuctionNext, AP!AuctionNext
  <1>10. [Unfixed!UnfixedPriceNext]_<<Unfixed!bacVars, Unfixed!auctionVars>>
           => [AP!UnfixedPriceNext]_<<AP!bacVars, AP!auctionVars>>
    BY <1>9, SameGroup
    DEF Unfixed!UnfixedPriceNext, AP!UnfixedPriceNext, Unfixed!auctionVars, AP!auctionVars,
        Unfixed!bacVars, AP!bacVars, Unfixed!roleVars, AP!roleVars, Unfixed!assetVars,
        AP!assetVars, Unfixed!vars, AP!vars, Unfixed!nftVars, AP!nftVars
  <1>11. Unfixed!AuctionInit => AP!AuctionInit
    BY SameGroup
    DEF Unfixed!AuctionInit, AP!AuctionInit
  <1> QED
    BY <1>10, <1>11, PTL DEF Unfixed!UnfixedPriceSpec, AP!UnfixedPriceSpec

(* the other auction,                                                      *)
LEMMA SameFixed == Fixed!FixedPriceSpec => AP!Fixed!FixedPriceSpec
  <1>1. \A f : Fixed!SumFunction(f) = AP!Fixed!SumFunction(f)
    BY Zenon
    DEF Fixed!SumFunction, AP!Fixed!SumFunction, Fixed!SumFunctionOnSet,
        AP!Fixed!SumFunctionOnSet, Fixed!FoldFunctionOnSet, AP!Fixed!FoldFunctionOnSet,
        Fixed!MapThenFoldSet, AP!Fixed!MapThenFoldSet
  <1>2. \A a, due : Fixed!BatchSend(a, due) <=> AP!Fixed!BatchSend(a, due)
    BY <1>1
    DEF Fixed!BatchSend, AP!Fixed!BatchSend, Fixed!PaidOut, AP!Fixed!PaidOut,
        Fixed!roleVars, AP!Fixed!roleVars
  <1>3. \A a, from, to, id :
          Fixed!NFT!SendFrom(a, from, to, id) <=> AP!Fixed!NFT!SendFrom(a, from, to, id)
    BY DEF Fixed!NFT!SendFrom, AP!Fixed!NFT!SendFrom, Fixed!NFT!HandOver,
           AP!Fixed!NFT!HandOver, Fixed!NFT!IsApprovedOrOwner,
           AP!Fixed!NFT!IsApprovedOrOwner, Fixed!NFT!Exists, AP!Fixed!NFT!Exists,
           Fixed!NFT!ListsWithout, AP!Fixed!NFT!ListsWithout, Fixed!NFT!PositionsWithout,
           AP!Fixed!NFT!PositionsWithout, Fixed!NFT!SwapAndPop, AP!Fixed!NFT!SwapAndPop,
           Fixed!NFT!MovedIndex, AP!Fixed!NFT!MovedIndex, Fixed!NFT!ownerVars,
           AP!Fixed!NFT!ownerVars, Fixed!NFT!listVars, AP!Fixed!NFT!listVars,
           Fixed!NFT!allVars, AP!Fixed!NFT!allVars, Fixed!NFT!roleVars,
           AP!Fixed!NFT!roleVars
  <1>4. \A a, from, to, value :
          Fixed!SendFrom(a, from, to, value) <=> AP!Fixed!SendFrom(a, from, to, value)
    BY DEF Fixed!SendFrom, AP!Fixed!SendFrom, Fixed!Sent, AP!Fixed!Sent, Fixed!roleVars,
           AP!Fixed!roleVars
  <1>5. Fixed!Next => AP!Fixed!Next
    BY <1>2
    DEF Fixed!RolesNext, AP!Fixed!RolesNext, Fixed!AddIssuer, AP!Fixed!AddIssuer,
        Fixed!RenounceIssuer, AP!Fixed!RenounceIssuer, Fixed!AddSuspender,
        AP!Fixed!AddSuspender, Fixed!RenounceSuspender, AP!Fixed!RenounceSuspender,
        Fixed!Suspend, AP!Fixed!Suspend, Fixed!UnSuspend, AP!Fixed!UnSuspend,
        Fixed!roleVars, AP!Fixed!roleVars, Fixed!Next, AP!Fixed!Next, Fixed!HolderNext,
        AP!Fixed!HolderNext, Fixed!OwnerNext, AP!Fixed!OwnerNext, Fixed!Send, AP!Fixed!Send,
        Fixed!Sent, AP!Fixed!Sent, Fixed!SendFrom, AP!Fixed!SendFrom, Fixed!Approve,
        AP!Fixed!Approve, Fixed!IncreaseAllowance, AP!Fixed!IncreaseAllowance,
        Fixed!DecreaseAllowance, AP!Fixed!DecreaseAllowance, Fixed!SetAllowance,
        AP!Fixed!SetAllowance, Fixed!Destroy, AP!Fixed!Destroy, Fixed!DestroyFrom,
        AP!Fixed!DestroyFrom, Fixed!Destroyed, AP!Fixed!Destroyed, Fixed!Issue,
        AP!Fixed!Issue, Fixed!assetVars, AP!Fixed!assetVars, Fixed!vars, AP!Fixed!vars
  <1>6. Fixed!NFT!Next => AP!Fixed!NFT!Next
    BY DEF Fixed!NFT!RolesNext, AP!Fixed!NFT!RolesNext, Fixed!NFT!AddIssuer,
           AP!Fixed!NFT!AddIssuer, Fixed!NFT!RenounceIssuer, AP!Fixed!NFT!RenounceIssuer,
           Fixed!NFT!AddSuspender, AP!Fixed!NFT!AddSuspender, Fixed!NFT!RenounceSuspender,
           AP!Fixed!NFT!RenounceSuspender, Fixed!NFT!Suspend, AP!Fixed!NFT!Suspend,
           Fixed!NFT!UnSuspend, AP!Fixed!NFT!UnSuspend, Fixed!NFT!roleVars,
           AP!Fixed!NFT!roleVars, Fixed!NFT!SendFrom, AP!Fixed!NFT!SendFrom,
           Fixed!NFT!HandOver, AP!Fixed!NFT!HandOver, Fixed!NFT!IsApprovedOrOwner,
           AP!Fixed!NFT!IsApprovedOrOwner, Fixed!NFT!Exists, AP!Fixed!NFT!Exists,
           Fixed!NFT!ListsWithout, AP!Fixed!NFT!ListsWithout, Fixed!NFT!PositionsWithout,
           AP!Fixed!NFT!PositionsWithout, Fixed!NFT!SwapAndPop, AP!Fixed!NFT!SwapAndPop,
           Fixed!NFT!MovedIndex, AP!Fixed!NFT!MovedIndex, Fixed!NFT!ownerVars,
           AP!Fixed!NFT!ownerVars, Fixed!NFT!listVars, AP!Fixed!NFT!listVars,
           Fixed!NFT!allVars, AP!Fixed!NFT!allVars, Fixed!NFT!Next, AP!Fixed!NFT!Next,
           Fixed!NFT!HolderNext, AP!Fixed!NFT!HolderNext, Fixed!NFT!IssuerNext,
           AP!Fixed!NFT!IssuerNext, Fixed!NFT!Destroy, AP!Fixed!NFT!Destroy,
           Fixed!NFT!Approve, AP!Fixed!NFT!Approve, Fixed!NFT!SetApprovalForAll,
           AP!Fixed!NFT!SetApprovalForAll, Fixed!NFT!Issue, AP!Fixed!NFT!Issue,
           Fixed!NFT!RemoveFromAllAssets, AP!Fixed!NFT!RemoveFromAllAssets,
           Fixed!NFT!assetVars, AP!Fixed!NFT!assetVars, Fixed!NFT!vars, AP!Fixed!NFT!vars
  <1>7. Fixed!TradersNext => AP!Fixed!TradersNext
    BY DEF Fixed!TradersNext, AP!Fixed!TradersNext, Fixed!Tick, AP!Fixed!Tick,
           Fixed!IncreaseAllowance, AP!Fixed!IncreaseAllowance, Fixed!SetAllowance,
           AP!Fixed!SetAllowance, Fixed!Send, AP!Fixed!Send, Fixed!Sent, AP!Fixed!Sent,
           Fixed!roleVars, AP!Fixed!roleVars, Fixed!assetVars, AP!Fixed!assetVars,
           Fixed!vars, AP!Fixed!vars, Fixed!nftVars, AP!Fixed!nftVars, Fixed!NFT!Approve,
           AP!Fixed!NFT!Approve, Fixed!NFT!Issue, AP!Fixed!NFT!Issue, Fixed!NFT!Exists,
           AP!Fixed!NFT!Exists, Fixed!NFT!roleVars, AP!Fixed!NFT!roleVars,
           Fixed!NFT!ownerVars, AP!Fixed!NFT!ownerVars, Fixed!NFT!listVars,
           AP!Fixed!NFT!listVars, Fixed!NFT!allVars, AP!Fixed!NFT!allVars
  <1>8. Fixed!HoldersNext => AP!Fixed!HoldersNext
    BY <1>3, <1>7
    DEF Fixed!HoldersNext, AP!Fixed!HoldersNext, Fixed!roleVars, AP!Fixed!roleVars,
        Fixed!assetVars, AP!Fixed!assetVars, Fixed!vars, AP!Fixed!vars, Fixed!NFT!Destroy,
        AP!Fixed!NFT!Destroy, Fixed!NFT!RemoveFromAllAssets,
        AP!Fixed!NFT!RemoveFromAllAssets, Fixed!NFT!HandOver, AP!Fixed!NFT!HandOver,
        Fixed!NFT!IsApprovedOrOwner, AP!Fixed!NFT!IsApprovedOrOwner, Fixed!NFT!Exists,
        AP!Fixed!NFT!Exists, Fixed!NFT!ListsWithout, AP!Fixed!NFT!ListsWithout,
        Fixed!NFT!PositionsWithout, AP!Fixed!NFT!PositionsWithout, Fixed!NFT!SwapAndPop,
        AP!Fixed!NFT!SwapAndPop, Fixed!NFT!MovedIndex, AP!Fixed!NFT!MovedIndex,
        Fixed!NFT!roleVars, AP!Fixed!NFT!roleVars
  <1>9. Fixed!BACNext => AP!Fixed!BACNext
    BY <1>5, <1>6, <1>8
    DEF Fixed!BACNext, AP!Fixed!BACNext, Fixed!roleVars, AP!Fixed!roleVars, Fixed!assetVars,
        AP!Fixed!assetVars, Fixed!vars, AP!Fixed!vars, Fixed!nftVars, AP!Fixed!nftVars
  <1>10. Fixed!AuctionNext => AP!Fixed!AuctionNext
    BY <1>3, <1>4
    DEF Fixed!AuctionNext, AP!Fixed!AuctionNext, Fixed!CreateNFTAssetAuction,
        AP!Fixed!CreateNFTAssetAuction, Fixed!PurchaseNFTAsset, AP!Fixed!PurchaseNFTAsset,
        Fixed!CancelAution, AP!Fixed!CancelAution, Fixed!Deactivate, AP!Fixed!Deactivate,
        Fixed!IsActive, AP!Fixed!IsActive, Fixed!vars, AP!Fixed!vars, Fixed!assetVars,
        AP!Fixed!assetVars, Fixed!roleVars, AP!Fixed!roleVars
  <1>11. [Fixed!FixedPriceNext]_<<Fixed!bacVars, nftAssetToAuction>>
           => [AP!Fixed!FixedPriceNext]_<<AP!Fixed!bacVars, nftAssetToAuction>>
    BY <1>9, <1>10
    DEF Fixed!FixedPriceNext, AP!Fixed!FixedPriceNext, Fixed!bacVars, AP!Fixed!bacVars,
        Fixed!roleVars, AP!Fixed!roleVars, Fixed!assetVars, AP!Fixed!assetVars, Fixed!vars,
        AP!Fixed!vars, Fixed!nftVars, AP!Fixed!nftVars
  <1>12. Fixed!AuctionInit => AP!Fixed!AuctionInit
    BY DEF Fixed!AuctionInit, AP!Fixed!AuctionInit, Fixed!BACInit, AP!Fixed!BACInit,
           Fixed!Init, AP!Fixed!Init, Fixed!RolesInit, AP!Fixed!RolesInit, Fixed!NFT!Init,
           AP!Fixed!NFT!Init, Fixed!NFT!RolesInit, AP!Fixed!NFT!RolesInit
  <1> QED
    BY <1>11, <1>12, PTL DEF Fixed!FixedPriceSpec, AP!Fixed!FixedPriceSpec

(* and a lottery.                                                          *)
LEMMA SameLottery == Lotteries!LotterySpec => LP!LotterySpec
  <1>1. Lotteries!LotteryInit => LP!LotteryInit
    BY DEF Lotteries!LotteryInit, LP!LotteryInit, Lotteries!Init, LP!Init,
           Lotteries!RolesInit, LP!RolesInit, Lotteries!OracleInit, LP!OracleInit,
           Lotteries!RequestIds, LP!RequestIds
  <1>2. \A list, amount :
          Lotteries!StartNewLottery(list, amount) => LP!StartNewLottery(list, amount)
    BY DEF Lotteries!StartNewLottery, LP!StartNewLottery, Lotteries!Request, LP!Request,
           Lotteries!oracleVars, LP!oracleVars, Lotteries!vars, LP!vars, Lotteries!roleVars,
           LP!roleVars, Lotteries!assetVars, LP!assetVars
  <1>3. \A a : Lotteries!Deposit(a) => LP!Deposit(a)
    BY DEF Lotteries!Deposit, LP!Deposit, Lotteries!SendFrom, LP!SendFrom, Lotteries!Sent,
           LP!Sent, Lotteries!oracleVars, LP!oracleVars, Lotteries!gameVars, LP!gameVars,
           Lotteries!roleVars, LP!roleVars
  <1>4. Lotteries!StopDeposit => LP!StopDeposit
    BY DEF Lotteries!StopDeposit, LP!StopDeposit, Lotteries!Request, LP!Request,
           Lotteries!vars, LP!vars, Lotteries!roleVars, LP!roleVars, Lotteries!assetVars,
           LP!assetVars
  <1>5. Lotteries!PickWinner => LP!PickWinner
    BY DEF Lotteries!PickWinner, LP!PickWinner, Lotteries!MayPick, LP!MayPick,
           Lotteries!Winner, LP!Winner, Lotteries!EndLottery, LP!EndLottery,
           Lotteries!CheckIdFulfilled, LP!CheckIdFulfilled, Lotteries!Send, LP!Send,
           Lotteries!Sent, LP!Sent, Lotteries!oracleVars, LP!oracleVars, Lotteries!vars,
           LP!vars, Lotteries!roleVars, LP!roleVars, Lotteries!assetVars, LP!assetVars
  <1>6. Lotteries!PickWinnerCallsOut => LP!PickWinnerCallsOut
    BY DEF Lotteries!PickWinnerCallsOut, LP!PickWinnerCallsOut, Lotteries!MayPick, LP!MayPick,
           Lotteries!Winner, LP!Winner, Lotteries!CheckIdFulfilled, LP!CheckIdFulfilled,
           Lotteries!Send, LP!Send, Lotteries!Sent, LP!Sent, Lotteries!oracleVars,
           LP!oracleVars, Lotteries!gameVars, LP!gameVars, Lotteries!roleVars, LP!roleVars
  <1>7. Lotteries!PickWinnerReturns => LP!PickWinnerReturns
    BY DEF Lotteries!PickWinnerReturns, LP!PickWinnerReturns, Lotteries!EndLottery,
           LP!EndLottery, Lotteries!oracleVars, LP!oracleVars, Lotteries!vars, LP!vars,
           Lotteries!roleVars, LP!roleVars, Lotteries!assetVars, LP!assetVars
  <1>8. Lotteries!LotteryNext => LP!LotteryNext
    BY <1>2, <1>3, <1>4, <1>5, <1>6, <1>7
    DEF Lotteries!LotteryNext, LP!LotteryNext, Lotteries!PlayerLists, LP!PlayerLists
  <1>9. Lotteries!OracleNext => LP!OracleNext
    BY DEF Lotteries!OracleNext, LP!OracleNext, Lotteries!Request, LP!Request,
           Lotteries!Callback, LP!Callback, Lotteries!RequestIds, LP!RequestIds
  <1>10. \A f : Lotteries!SumFunction(f) = LP!SumFunction(f)
    BY Zenon
    DEF Lotteries!SumFunction, LP!SumFunction, Lotteries!SumFunctionOnSet,
        LP!SumFunctionOnSet, Lotteries!FoldFunctionOnSet, LP!FoldFunctionOnSet,
        Lotteries!MapThenFoldSet, LP!MapThenFoldSet
  <1>11. \A a, due : Lotteries!BatchSend(a, due) <=> LP!BatchSend(a, due)
    BY <1>10
    DEF Lotteries!BatchSend, LP!BatchSend, Lotteries!PaidOut, LP!PaidOut,
        Lotteries!roleVars, LP!roleVars
  <1>12. Lotteries!Next => LP!Next
    BY <1>11
    DEF Lotteries!RolesNext, LP!RolesNext, Lotteries!AddIssuer, LP!AddIssuer,
        Lotteries!RenounceIssuer, LP!RenounceIssuer, Lotteries!AddSuspender,
        LP!AddSuspender, Lotteries!RenounceSuspender, LP!RenounceSuspender,
        Lotteries!Suspend, LP!Suspend, Lotteries!UnSuspend, LP!UnSuspend,
        Lotteries!roleVars, LP!roleVars, Lotteries!Next, LP!Next, Lotteries!HolderNext,
        LP!HolderNext, Lotteries!OwnerNext, LP!OwnerNext, Lotteries!Send, LP!Send,
        Lotteries!Sent, LP!Sent, Lotteries!SendFrom, LP!SendFrom, Lotteries!Approve,
        LP!Approve, Lotteries!IncreaseAllowance, LP!IncreaseAllowance,
        Lotteries!DecreaseAllowance, LP!DecreaseAllowance, Lotteries!SetAllowance,
        LP!SetAllowance, Lotteries!Destroy, LP!Destroy, Lotteries!DestroyFrom,
        LP!DestroyFrom, Lotteries!Destroyed, LP!Destroyed, Lotteries!Issue, LP!Issue,
        Lotteries!assetVars, LP!assetVars, Lotteries!vars, LP!vars
  <1>13. [Lotteries!GroupNext]_<<Lotteries!vars, Lotteries!oracleVars, Lotteries!lotteryVars>>
           => [LP!GroupNext]_<<LP!vars, LP!oracleVars, LP!lotteryVars>>
    BY <1>8, <1>9, <1>12
    DEF Lotteries!GroupNext, LP!GroupNext, Lotteries!oracleVars, LP!oracleVars,
        Lotteries!lotteryVars, LP!lotteryVars, Lotteries!gameVars, LP!gameVars,
        Lotteries!vars, LP!vars, Lotteries!roleVars, LP!roleVars, Lotteries!assetVars,
        LP!assetVars
  <1> QED
    BY <1>1, <1>13, PTL DEF Lotteries!LotterySpec, LP!LotterySpec

-----------------------------------------------------------------------------
(* The steps of a group: in those without auctions and lotteries a BAC001   *)
(* does what it may by itself, or nothing;                                  *)
LEMMA FungibleStep ==
  ASSUME app \in {"BAC001", "BAC002", "CatBlindbox"}, [Next]_allVars
  PROVE  [FT!Next]_FT!vars
  BY DEF Next, allVars, ftVars, FT!vars, FT!roleVars, FT!assetVars

(* where neither auctions nor a blind box is deployed a BAC002 does.        *)
LEMMA NonFungibleStep ==
  ASSUME app \in {"BAC001", "BAC002", "Lottery"}, [Next]_allVars
  PROVE  [NFT!Next]_NFT!vars
  BY DEF Next, allVars, nftVars, NFT!vars, NFT!roleVars, NFT!assetVars, NFT!ownerVars,
         NFT!listVars, NFT!allVars

(* Sellers and buyers, with the assets they deal in,                       *)
LEMMA FixedStep ==
  ASSUME app = "AuctionFixedPrice", [Next]_allVars
  PROVE  [Fixed!FixedPriceNext]_<<Fixed!bacVars, nftAssetToAuction>>
  BY DEF Next, allVars, ftVars, nftVars, auctionVars, Fixed!FixedPriceNext, Fixed!BACNext,
         Fixed!bacVars, Fixed!vars, Fixed!roleVars, Fixed!assetVars, Fixed!nftVars

(* bidders, too,                                                           *)
LEMMA UnfixedStep ==
  ASSUME app = "AuctionUnfixedPrice", [Next]_allVars
  PROVE  [Unfixed!UnfixedPriceNext]_<<Unfixed!bacVars, Unfixed!auctionVars>>
  BY DEF Next, allVars, ftVars, nftVars, auctionVars, Unfixed!UnfixedPriceNext,
         Unfixed!BACNext, Unfixed!HoldersNext, Unfixed!auctionVars, Unfixed!bacVars,
         Unfixed!vars, Unfixed!roleVars, Unfixed!assetVars, Unfixed!nftVars

(* players of a lottery, who approve fewer spenders than they might,       *)
LEMMA LotteryStep ==
  ASSUME app = "Lottery", [Next]_allVars
  PROVE  [Lotteries!GroupNext]_<<Lotteries!vars, Lotteries!oracleVars, Lotteries!lotteryVars>>
  <1>1. Lotteries!PlayersNext(Approved) => Lotteries!Next
    BY MarketAssumption
    DEF Lotteries!PlayersNext, Lotteries!Next, Lotteries!HolderNext
  <1> QED
    BY <1>1
    DEF Next, allVars, ftVars, oracleVars, lotteryVars, gameVars, Lotteries!GroupNext,
        Lotteries!oracleVars, Lotteries!lotteryVars, Lotteries!gameVars, Lotteries!vars,
        Lotteries!roleVars, Lotteries!assetVars

(* and those who have cats, who approve the box only.                      *)
LEMMA BoxStep ==
  ASSUME app = "CatBlindbox", [Next]_allVars
  PROVE  [Box!GroupNext]_<<Box!vars, Box!oracleVars, Box!boxVars>>
  <1>1. Box!HolderNext({This}) => Box!HolderNext(Accounts)
    BY PartiesAssumption
    DEF Box!HolderNext
  <1> QED
    BY <1>1
    DEF Next, allVars, nftVars, oracleVars, boxVars, Box!GroupNext, Box!Next,
        Box!oracleVars, Box!boxVars, Box!vars, Box!roleVars, Box!assetVars, Box!ownerVars,
        Box!listVars, Box!allVars

(* Whichever contract is deployed behaves as its own module says.          *)
THEOREM EachRunsAsSpecified ==
  Spec => /\ app \in {"BAC001", "BAC002", "CatBlindbox"} => FT!Spec
          /\ app \in {"BAC001", "BAC002", "Lottery"} => NFT!Spec
          /\ app = "AuctionFixedPrice" => Fixed!FixedPriceSpec
          /\ app = "AuctionUnfixedPrice" => Unfixed!UnfixedPriceSpec
          /\ app = "Lottery" => Lotteries!LotterySpec
          /\ app = "CatBlindbox" => Box!BoxSpec
  <1>1. [Next]_allVars => app' = app
    BY DEF Next, allVars
  <1>2. Init => /\ FT!Init /\ NFT!Init /\ Fixed!AuctionInit /\ Unfixed!AuctionInit
                /\ Lotteries!LotteryInit /\ Box!BoxInit
    BY DEF Init, Unfixed!AuctionInit, Unfixed!BACInit, Unfixed!Init, Unfixed!RolesInit,
           Unfixed!NFT!Init, Unfixed!NFT!RolesInit, Fixed!AuctionInit, Fixed!BACInit,
           Fixed!Init, Fixed!RolesInit, Fixed!NFT!Init, Fixed!NFT!RolesInit, FT!Init,
           FT!RolesInit, NFT!Init, NFT!RolesInit
  <1>3. app \in {"BAC001", "BAC002", "CatBlindbox"} /\ app' = app /\ [Next]_allVars
          => [FT!Next]_FT!vars /\ (app \in {"BAC001", "BAC002", "CatBlindbox"})'
    BY FungibleStep
  <1>4. app \in {"BAC001", "BAC002", "Lottery"} /\ app' = app /\ [Next]_allVars
          => [NFT!Next]_NFT!vars /\ (app \in {"BAC001", "BAC002", "Lottery"})'
    BY NonFungibleStep
  <1>5. app = "AuctionFixedPrice" /\ app' = app /\ [Next]_allVars
          => /\ [Fixed!FixedPriceNext]_<<Fixed!bacVars, nftAssetToAuction>>
             /\ (app = "AuctionFixedPrice")'
    BY FixedStep
  <1>6. app = "AuctionUnfixedPrice" /\ app' = app /\ [Next]_allVars
          => /\ [Unfixed!UnfixedPriceNext]_<<Unfixed!bacVars, Unfixed!auctionVars>>
             /\ (app = "AuctionUnfixedPrice")'
    BY UnfixedStep
  <1>7. app = "Lottery" /\ app' = app /\ [Next]_allVars
          => /\ [Lotteries!GroupNext]_<<Lotteries!vars, Lotteries!oracleVars, Lotteries!lotteryVars>>
             /\ (app = "Lottery")'
    BY LotteryStep
  <1>8. app = "CatBlindbox" /\ app' = app /\ [Next]_allVars
          => /\ [Box!GroupNext]_<<Box!vars, Box!oracleVars, Box!boxVars>>
             /\ (app = "CatBlindbox")'
    BY BoxStep
  <1> QED
    BY <1>1, <1>2, <1>3, <1>4, <1>5, <1>6, <1>7, <1>8, PTL
    DEF Spec, FT!Spec, NFT!Spec, Fixed!FixedPriceSpec, Unfixed!UnfixedPriceSpec,
        Lotteries!LotterySpec, Box!BoxSpec

-----------------------------------------------------------------------------
(* What is not deployed stays as it was made.                              *)
Idle ==
  /\ app \notin {"AuctionFixedPrice", "AuctionUnfixedPrice"} =>
       now = 0 /\ nftAssetToAuction = [id \in Assets |-> None]
  /\ app # "AuctionUnfixedPrice" =>
       /\ bids = [id \in Assets |-> [a \in Accounts |-> 0]] /\ pendingBids = <<>>
       /\ auctions = [id \in Assets |-> 0] /\ bidReentered = FALSE
  /\ app # "Lottery" =>
       /\ withPot \in BOOLEAN /\ lotteryState = "CLOSED" /\ players = <<>>
       /\ depositAmount = 0 /\ lotteryId = 0 /\ requestId = 0 /\ drawn = <<>>
       /\ pendingDraws = <<>> /\ drawReentered = FALSE
  /\ app # "CatBlindbox" =>
       /\ catSpeciesPool = CatsSpecies /\ generatedCats = <<>>
       /\ requestToSender = [id \in Lotteries!RequestIds |-> None]
  /\ app \notin {"Lottery", "CatBlindbox"} => Lotteries!OracleInit

(* Contracts that are not deployed, and oracles that nobody asks, do        *)
(* nothing.                                                                 *)
THEOREM OthersAreIdle == Spec => []Idle
  <1>1. Init => Idle
    BY DEF Init, Idle, Unfixed!AuctionInit, Unfixed!BACInit, Lotteries!LotteryInit,
           Box!BoxInit, Box!RequestIds, Lotteries!RequestIds
  <1>2. Idle /\ [Next]_allVars => Idle'
    <2> SUFFICES ASSUME Idle, [Next]_allVars PROVE Idle'
      OBVIOUS
    <2>1. CASE UNCHANGED allVars
      BY <2>1
      DEF Idle, allVars, auctionVars, lotteryVars, gameVars, boxVars, oracleVars,
          Lotteries!OracleInit, Lotteries!RequestIds
    <2>2. CASE Next
      <3>1. /\ app' = app
            /\ app \notin {"AuctionFixedPrice", "AuctionUnfixedPrice"} =>
                 UNCHANGED <<now, auctionVars>>
            /\ app # "AuctionUnfixedPrice" =>
                 UNCHANGED <<bids, pendingBids, auctions, bidReentered>>
            /\ app # "Lottery" => UNCHANGED lotteryVars
            /\ app # "CatBlindbox" => UNCHANGED boxVars
            /\ app \notin {"Lottery", "CatBlindbox"} => UNCHANGED oracleVars
        BY <2>2
        DEF Next, auctionVars
      <3> QED BY <3>1
      DEF Idle, auctionVars, lotteryVars, gameVars, boxVars, oracleVars,
          Lotteries!OracleInit, Lotteries!RequestIds
    <2> QED BY <2>1, <2>2
  <1> QED BY <1>1, <1>2, PTL DEF Spec

-----------------------------------------------------------------------------
(* The lists of the assets.                                                *)

(* What a step leaves of them: they are right, and of whatever changed      *)
(* hands no approval is left.                                               *)
ListsKept == NFTP!IInv' /\ NFTP!ApprovalsEndNow

ApprovalsKept ==
  \A id \in Assets : assetOwner'[id] # assetOwner[id] => assetApprovals'[id] = None

(* The steps of a BAC002, on the assumptions of this module,               *)
LEMMA ListsStep == NFTP!IInv /\ [NFTP!Next]_NFTP!vars => ListsKept
  BY NFTP!NextIInv, NFTP!NextEndsApprovals, PartiesAssumption, AssetsAssumption,
     OracleAssumption, BoxAssumption
  DEF NFTP!IsFiniteSet, IsFiniteSet, NFTP!Species, Species, ListsKept

(* and the transfers of others.                                            *)
LEMMA ListsSend ==
  ASSUME NFTP!IInv, NEW caller, NEW from \in Accounts, NEW to \in Accounts, NEW id \in Assets,
         NFTP!SendFrom(caller, from, to, id)
  PROVE  ListsKept
  BY NFTP!SendFromIInv, NFTP!SendFromEndsApproval, PartiesAssumption, AssetsAssumption,
     OracleAssumption, BoxAssumption
  DEF NFTP!IsFiniteSet, IsFiniteSet, NFTP!Species, Species, ListsKept

(* Auctions send assets as an account does: executeSale to a bidder, for   *)
(* where bids are listed there is a highest bidder.                        *)
LEMMA UnfixedKeepsLists ==
  ASSUME AP!AuctionInv, NFTP!IInv,
         [AP!UnfixedPriceNext]_<<AP!bacVars, AP!auctionVars>>
  PROVE  ListsKept
  <1> DEFINE Sends == \E caller, from, to \in Accounts, id \in Assets :
                        AP!NFT!SendFrom(caller, from, to, id)
  <1>1. This \in Accounts /\ Users \subseteq Accounts
    BY PartiesAssumption
  <1>2. CASE AP!NFT!Next
    BY <1>2, SameAuctioned, ListsStep
  <1>3. CASE UNCHANGED AP!nftVars
    <2>1. UNCHANGED NFTP!vars
      BY <1>3
      DEF AP!nftVars, NFTP!vars, NFTP!roleVars, NFTP!assetVars, NFTP!ownerVars,
          NFTP!listVars, NFTP!allVars
    <2> QED BY <2>1, ListsStep
  <1>4. CASE Sends
    BY <1>4, SameAuctioned, ListsSend
  <1>5. CASE AP!AuctionNext
    <2>1. CASE AP!BidReturns
      BY <2>1, <1>3 DEF AP!BidReturns
    <2> SUFFICES ASSUME NEW caller \in Users, NEW id \in Assets,
                        \/ \E price \in Prices, duration \in Durations :
                             AP!CreateNFTAssetAuction(caller, id, price, duration)
                        \/ \E amount \in Bids :
                             AP!Bid(caller, id, amount) \/ AP!BidCallsOut(caller, id, amount)
                        \/ AP!ExecuteSale(caller, id)
                        \/ AP!CancelAution(caller, id)
                 PROVE  ListsKept
      BY <1>5, <2>1 DEF AP!AuctionNext
    <2>2. CASE \E price \in Prices, duration \in Durations :
                 AP!CreateNFTAssetAuction(caller, id, price, duration)
      BY <2>2, <1>1, <1>4 DEF AP!CreateNFTAssetAuction
    <2>3. CASE \E amount \in Bids : AP!Bid(caller, id, amount) \/ AP!BidCallsOut(caller, id, amount)
      BY <2>3, <1>3 DEF AP!Bid, AP!BidCallsOut
    <2>4. CASE AP!ExecuteSale(caller, id)
      <3>1. nftAssetToAuction[id].bidAmounts # <<>> => nftAssetToAuction[id].maxBidUser \in Users
        <4>1. AP!Live(id)
          BY <2>4, AP!ActivesAreLive, PartiesAssumption, AssetsAssumption, TermsAssumption
          DEF AP!IsFiniteSet, IsFiniteSet, AP!ActiveIsLive, AP!ExecuteSale
        <4>2. AP!HasWinner(id) /\ AP!Auction(id) \in AP!AuctionDetails
          BY <4>1 DEF AP!AuctionInv, AP!AuctionOk, AP!Live
        <4> QED BY <4>2 DEF AP!HasWinner, AP!Auction, AP!AuctionDetails
      <3> QED BY <2>4, <3>1, <1>1, <1>4 DEF AP!ExecuteSale
    <2>5. CASE AP!CancelAution(caller, id)
      BY <2>5, <1>1, <1>4 DEF AP!CancelAution
    <2> QED BY <2>2, <2>3, <2>4, <2>5
  <1>6. CASE AP!BACNext
    <2>1. AP!NFT!Next \/ UNCHANGED AP!nftVars \/ Sends
      BY <1>6, <1>1
      DEF AP!BACNext, AP!HoldersNext, AP!TradersNext, AP!Tick, AP!NFT!Next, AP!NFT!HolderNext,
          AP!NFT!IssuerNext
    <2> QED BY <2>1, <1>2, <1>3, <1>4
  <1>7. CASE UNCHANGED <<AP!bacVars, AP!auctionVars>>
    BY <1>7, <1>3 DEF AP!bacVars
  <1> QED BY <1>5, <1>6, <1>7 DEF AP!UnfixedPriceNext

(* Sales send assets to the buyer or back to the seller.                   *)
LEMMA FixedKeepsLists ==
  ASSUME NFTP!IInv, [AP!Fixed!FixedPriceNext]_<<AP!Fixed!bacVars, nftAssetToAuction>>
  PROVE  ListsKept
  <1> DEFINE Sends == \E caller, from, to \in Accounts, id \in Assets :
                        AP!Fixed!NFT!SendFrom(caller, from, to, id)
  <1>1. This \in Accounts /\ Users \subseteq Accounts
    BY PartiesAssumption
  <1>2. CASE AP!Fixed!NFT!Next
    BY <1>2, SameAuctioned, ListsStep, AP!SameAssetNext, PartiesAssumption,
       AssetsAssumption, TermsAssumption
    DEF AP!IsFiniteSet, IsFiniteSet
  <1>3. CASE UNCHANGED AP!Fixed!nftVars
    <2>1. UNCHANGED NFTP!vars
      BY <1>3
      DEF AP!Fixed!nftVars, NFTP!vars, NFTP!roleVars, NFTP!assetVars, NFTP!ownerVars,
          NFTP!listVars, NFTP!allVars
    <2> QED BY <2>1, ListsStep
  <1>4. CASE Sends
    <2> PICK caller \in Accounts, from \in Accounts, to \in Accounts, id \in Assets :
          AP!Fixed!NFT!SendFrom(caller, from, to, id)
      BY <1>4
    <2>1. AP!NFT!SendFrom(caller, from, to, id)
      BY AP!SameSendFrom, PartiesAssumption, AssetsAssumption, TermsAssumption
      DEF AP!IsFiniteSet, IsFiniteSet
    <2>2. NFTP!SendFrom(caller, from, to, id)
      BY <2>1, SameAuctioned
    <2> QED BY <2>2, ListsSend
  <1>5. CASE AP!Fixed!AuctionNext
    BY <1>5, <1>1, <1>4
    DEF AP!Fixed!AuctionNext, AP!Fixed!CreateNFTAssetAuction, AP!Fixed!PurchaseNFTAsset,
        AP!Fixed!CancelAution
  <1>6. CASE AP!Fixed!BACNext
    <2>1. AP!Fixed!NFT!Next \/ UNCHANGED AP!Fixed!nftVars \/ Sends
      BY <1>6, <1>1
      DEF AP!Fixed!BACNext, AP!Fixed!HoldersNext, AP!Fixed!TradersNext, AP!Fixed!Tick,
          AP!Fixed!NFT!Next, AP!Fixed!NFT!HolderNext, AP!Fixed!NFT!IssuerNext
    <2> QED BY <2>1, <1>2, <1>3, <1>4
  <1>7. CASE UNCHANGED <<AP!Fixed!bacVars, nftAssetToAuction>>
    BY <1>7, <1>3 DEF AP!Fixed!bacVars
  <1> QED BY <1>5, <1>6, <1>7 DEF AP!Fixed!FixedPriceNext

-----------------------------------------------------------------------------
(* What the modules prove of each contract, in the words of this one: of a *)
(* BAC001,                                                                 *)
LEMMA FungibleRun == FT!Spec => [](FT!TypeOK /\ BooksBalance)
  <1>1. FTP!Spec => [](FTP!TypeOK /\ FTP!BooksBalance)
    BY FTP!FungibleTypes, FTP!BooksAlwaysBalance, PartiesAssumption, TermsAssumption, PTL
    DEF FTP!IsFiniteSet, IsFiniteSet
  <1>2. FTP!TypeOK => FT!TypeOK
    BY DEF FT!TypeOK, FTP!TypeOK, FT!RolesTypeOK, FTP!RolesTypeOK
  <1>3. SumFunction(balances) = FTP!SumFunction(balances)
    BY Zenon
    DEF SumFunction, FTP!SumFunction, SumFunctionOnSet, FTP!SumFunctionOnSet,
        FoldFunctionOnSet, FTP!FoldFunctionOnSet, MapThenFoldSet, FTP!MapThenFoldSet
  <1>4. FTP!BooksBalance => BooksBalance
    BY <1>3
    DEF BooksBalance, FTP!BooksBalance
  <1> QED BY <1>1, <1>2, <1>4, SameFungible, PTL

(* of a BAC002,                                                            *)
LEMMA NonFungibleRun == NFT!Spec => []NFTP!IInv /\ ApprovalsEndWithOwnership
  <1>1. NFTP!Spec => []NFTP!IInv /\ NFTP!ApprovalsEndWithOwnership
    BY NFTP!SpecIInv, NFTP!ApprovalsEnd, PartiesAssumption, AssetsAssumption,
       OracleAssumption, BoxAssumption, PTL
    DEF NFTP!IsFiniteSet, IsFiniteSet, NFTP!Species, Species
  <1> QED
    BY <1>1, SameNonFungible, PTL
    DEF ApprovalsEndWithOwnership, NFTP!ApprovalsEndWithOwnership

(* of a blind box,                                                         *)
LEMMA BoxRun ==
  Box!BoxSpec => /\ [](NFTP!IInv /\ Box!BoxTypeOK /\ SpeciesDrawnOnce)
                 /\ ApprovalsEndWithOwnership
  <1>1. NFTP!BoxSpec => /\ [](NFTP!IInv /\ NFTP!BoxTypeOK /\ NFTP!SpeciesDrawnOnce)
                        /\ NFTP!ApprovalsEndWithOwnership
    BY NFTP!BlindBoxImplementsBAC002, NFTP!SpecIInv, NFTP!ApprovalsEnd, NFTP!BlindBoxTypes,
       NFTP!EachSpeciesIsDrawnOnce, PartiesAssumption, AssetsAssumption, OracleAssumption,
       BoxAssumption, PTL
    DEF NFTP!IsFiniteSet, IsFiniteSet, NFTP!Species, Species
  <1>2. NFTP!BoxTypeOK => Box!BoxTypeOK
    BY DEF Box!BoxTypeOK, NFTP!BoxTypeOK, Box!OracleTypeOK, NFTP!OracleTypeOK,
           Box!RequestIds, NFTP!RequestIds, Box!Species, NFTP!Species, Box!Cats, NFTP!Cats
  <1>3. NFTP!SpeciesDrawnOnce => SpeciesDrawnOnce
    BY DEF SpeciesDrawnOnce, NFTP!SpeciesDrawnOnce
  <1> QED
    BY <1>1, <1>2, <1>3, SameBox, PTL
    DEF ApprovalsEndWithOwnership, NFTP!ApprovalsEndWithOwnership

(* of the auctions, which share what is said of their assets,              *)
LEMMA AuctionWords ==
  /\ AP!TypeOK => FT!TypeOK
  /\ AP!BooksBalance => BooksBalance
  /\ AP!ActiveAssetIsHeld => ActiveAssetIsHeld
  <1>1. SumFunction(balances) = AP!SumFunction(balances)
    BY Zenon
    DEF SumFunction, AP!SumFunction, SumFunctionOnSet, AP!SumFunctionOnSet,
        FoldFunctionOnSet, AP!FoldFunctionOnSet, MapThenFoldSet, AP!MapThenFoldSet
  <1>2. AP!TypeOK => FT!TypeOK
    BY DEF FT!TypeOK, AP!TypeOK, FT!RolesTypeOK, AP!RolesTypeOK
  <1> QED
    BY <1>1, <1>2
    DEF BooksBalance, AP!BooksBalance, ActiveAssetIsHeld, AP!ActiveAssetIsHeld, AP!IsActive,
        IsActive

(* of those for bids,                                                      *)
LEMMA UnfixedRun ==
  Unfixed!UnfixedPriceSpec =>
    [](/\ FT!TypeOK /\ BooksBalance /\ NFTP!IInv /\ Unfixed!AuctionTypeOK
       /\ ActiveAssetIsHeld /\ Unfixed!DepositsAreHeld /\ WinnerPaysHisBid)
    /\ ApprovalsEndWithOwnership
  <1>1. AP!UnfixedPriceSpec =>
          [](/\ AP!AuctionInv /\ AP!TypeOK /\ AP!BooksBalance /\ AP!AuctionTypeOK
             /\ AP!ActiveAssetIsHeld /\ AP!DepositsAreHeld /\ AP!WinnerPaysHisBid)
    BY AP!SpecAuctionInv, AP!AuctionAssetTypes, AP!AuctionBooksBalance, AP!AuctionsAreTyped,
       AP!AuctionedAssetIsHeld, AP!DepositsAreCovered, AP!FirstAuctionIsPaid,
       PartiesAssumption, AssetsAssumption, TermsAssumption, PTL
    DEF AP!IsFiniteSet, IsFiniteSet
  <1>2. NFTP!Init => NFTP!IInv
    BY NFTP!InitIInv, PartiesAssumption, AssetsAssumption, OracleAssumption, BoxAssumption
    DEF NFTP!IsFiniteSet, IsFiniteSet, NFTP!Species, Species
  <1>3. AP!AuctionInit => NFTP!IInv
    BY <1>2, SameAuctioned DEF AP!AuctionInit, AP!BACInit
  <1>4. AP!AuctionInv /\ NFTP!IInv /\ [AP!UnfixedPriceNext]_<<AP!bacVars, AP!auctionVars>>
          => NFTP!IInv' /\ [ApprovalsKept]_<<assetOwner, assetApprovals>>
    BY UnfixedKeepsLists DEF ListsKept, NFTP!ApprovalsEndNow, ApprovalsKept
  <1>5. AP!UnfixedPriceSpec => []NFTP!IInv /\ ApprovalsEndWithOwnership
    BY <1>1, <1>3, <1>4, PTL DEF AP!UnfixedPriceSpec, ApprovalsEndWithOwnership, ApprovalsKept
  <1>6. AP!AuctionTypeOK => Unfixed!AuctionTypeOK
    BY DEF Unfixed!AuctionTypeOK, AP!AuctionTypeOK, Unfixed!AuctionDetails,
           AP!AuctionDetails, Unfixed!BidCalls, AP!BidCalls
  <1>7. \A f : AP!SumFunction(f) = Unfixed!SumFunction(f)
    BY Zenon
    DEF Unfixed!SumFunction, AP!SumFunction, Unfixed!SumFunctionOnSet, AP!SumFunctionOnSet,
        Unfixed!FoldFunctionOnSet, AP!FoldFunctionOnSet, Unfixed!MapThenFoldSet,
        AP!MapThenFoldSet
  <1>8. \A id \in Assets : AP!Deposits(id) = Unfixed!Deposits(id)
    BY <1>7
    DEF Unfixed!Deposits, AP!Deposits, Unfixed!Refunds, AP!Refunds, Unfixed!Range, AP!Range,
        Unfixed!IsActive, AP!IsActive
  <1>9. AP!DepositsAreHeld => Unfixed!DepositsAreHeld
    BY <1>7, <1>8
    DEF Unfixed!DepositsAreHeld, AP!DepositsAreHeld
  <1>10. AP!WinnerPaysHisBid => WinnerPaysHisBid
    BY DEF WinnerPaysHisBid, AP!WinnerPaysHisBid, Range, AP!Range, IsInjective,
           AP!IsInjective, IsActive, AP!IsActive
  <1> QED BY <1>1, <1>5, <1>6, <1>9, <1>10, AuctionWords, SameUnfixed, PTL

(* of those at a fixed price,                                              *)
LEMMA FixedRun ==
  Fixed!FixedPriceSpec =>
    [](/\ FT!TypeOK /\ BooksBalance /\ NFTP!IInv /\ Fixed!AuctionTypeOK /\ ActiveAssetIsHeld)
    /\ ApprovalsEndWithOwnership
  <1>1. AP!Fixed!FixedPriceSpec =>
          [](AP!TypeOK /\ AP!BooksBalance /\ AP!Fixed!AuctionTypeOK /\ AP!ActiveAssetIsHeld)
    BY AP!SalesAreTyped, AP!SaleBooksBalance, AP!AssetForSaleIsHeld, PartiesAssumption,
       AssetsAssumption, TermsAssumption, PTL
    DEF AP!IsFiniteSet, IsFiniteSet
  <1>2. NFTP!Init => NFTP!IInv
    BY NFTP!InitIInv, PartiesAssumption, AssetsAssumption, OracleAssumption, BoxAssumption
    DEF NFTP!IsFiniteSet, IsFiniteSet, NFTP!Species, Species
  <1>3. AP!Fixed!AuctionInit => NFTP!IInv
    BY <1>2
    DEF AP!Fixed!AuctionInit, AP!Fixed!BACInit, AP!Fixed!NFT!Init, NFTP!Init,
        AP!Fixed!NFT!RolesInit, NFTP!RolesInit
  <1>4. NFTP!IInv /\ [AP!Fixed!FixedPriceNext]_<<AP!Fixed!bacVars, nftAssetToAuction>>
          => NFTP!IInv' /\ [ApprovalsKept]_<<assetOwner, assetApprovals>>
    BY FixedKeepsLists DEF ListsKept, NFTP!ApprovalsEndNow, ApprovalsKept
  <1>5. AP!Fixed!FixedPriceSpec => []NFTP!IInv /\ ApprovalsEndWithOwnership
    BY <1>3, <1>4, PTL
    DEF AP!Fixed!FixedPriceSpec, ApprovalsEndWithOwnership, ApprovalsKept
  <1>6. AP!Fixed!AuctionTypeOK => Fixed!AuctionTypeOK
    BY DEF Fixed!AuctionTypeOK, AP!Fixed!AuctionTypeOK, Fixed!AuctionDetails,
           AP!Fixed!AuctionDetails
  <1> QED BY <1>1, <1>5, <1>6, AuctionWords, SameFixed, PTL

(* and of a lottery.                                                       *)
LEMMA LotteryRun ==
  Lotteries!LotterySpec =>
    [](FT!TypeOK /\ BooksBalance /\ Lotteries!LotteryTypeOK /\ DrawnOnce) /\ PotStays
  <1>1. LP!LotterySpec =>
          [](LP!TypeOK /\ LP!BooksBalance /\ LP!LotteryTypeOK /\ LP!DrawnOnce) /\ LP!PotStays
    BY LP!LotteryAssetTypes, LP!LotteryBooksBalance, LP!LotteryTypes, LP!EachLotteryIsDrawnOnce,
       LP!PotIsKept, PartiesAssumption, TermsAssumption, OracleAssumption, PTL
    DEF LP!IsFiniteSet, IsFiniteSet
  <1>2. LP!TypeOK => FT!TypeOK
    BY DEF FT!TypeOK, LP!TypeOK, FT!RolesTypeOK, LP!RolesTypeOK
  <1>3. SumFunction(balances) = LP!SumFunction(balances)
    BY Zenon
    DEF SumFunction, LP!SumFunction, SumFunctionOnSet, LP!SumFunctionOnSet,
        FoldFunctionOnSet, LP!FoldFunctionOnSet, MapThenFoldSet, LP!MapThenFoldSet
  <1>4. LP!BooksBalance => BooksBalance
    BY <1>3
    DEF BooksBalance, LP!BooksBalance
  <1>5. LP!LotteryTypeOK => Lotteries!LotteryTypeOK
    BY DEF Lotteries!LotteryTypeOK, LP!LotteryTypeOK, Lotteries!OracleTypeOK,
           LP!OracleTypeOK, Lotteries!RequestIds, LP!RequestIds, Lotteries!Draws, LP!Draws,
           Lotteries!PendingDraws, LP!PendingDraws
  <1>6. LP!DrawnOnce => DrawnOnce
    BY DEF DrawnOnce, LP!DrawnOnce
  <1> QED BY <1>1, <1>2, <1>4, <1>5, <1>6, SameLottery, PTL DEF PotStays, LP!PotStays

-----------------------------------------------------------------------------
(* A group has one of the six, as long as it lasts.                        *)
LEMMA OneRuns ==
  Spec => \/ [](app = "BAC001") /\ FT!Spec /\ NFT!Spec
          \/ [](app = "BAC002") /\ FT!Spec /\ NFT!Spec
          \/ [](app = "AuctionFixedPrice") /\ Fixed!FixedPriceSpec
          \/ [](app = "AuctionUnfixedPrice") /\ Unfixed!UnfixedPriceSpec
          \/ [](app = "Lottery") /\ Lotteries!LotterySpec /\ NFT!Spec
          \/ [](app = "CatBlindbox") /\ Box!BoxSpec /\ FT!Spec
  <1>1. [Next]_allVars => app' = app
    BY DEF Next, allVars
  <1>2. Init => \/ app = "BAC001" \/ app = "BAC002" \/ app = "AuctionFixedPrice"
                \/ app = "AuctionUnfixedPrice" \/ app = "Lottery" \/ app = "CatBlindbox"
    BY MarketAssumption DEF Init
  <1>3. /\ app = "BAC001" /\ app' = app => (app = "BAC001")'
        /\ app = "BAC002" /\ app' = app => (app = "BAC002")'
        /\ app = "AuctionFixedPrice" /\ app' = app => (app = "AuctionFixedPrice")'
        /\ app = "AuctionUnfixedPrice" /\ app' = app => (app = "AuctionUnfixedPrice")'
        /\ app = "Lottery" /\ app' = app => (app = "Lottery")'
        /\ app = "CatBlindbox" /\ app' = app => (app = "CatBlindbox")'
    OBVIOUS
  <1>4. /\ app = "BAC001" => /\ app \in {"BAC001", "BAC002", "CatBlindbox"}
                             /\ app \in {"BAC001", "BAC002", "Lottery"}
        /\ app = "BAC002" => /\ app \in {"BAC001", "BAC002", "CatBlindbox"}
                             /\ app \in {"BAC001", "BAC002", "Lottery"}
        /\ app = "Lottery" => app \in {"BAC001", "BAC002", "Lottery"}
        /\ app = "CatBlindbox" => app \in {"BAC001", "BAC002", "CatBlindbox"}
    OBVIOUS
  <1> QED BY <1>1, <1>2, <1>3, <1>4, EachRunsAsSpecified, PTL DEF Spec

(* The fungible asset keeps its types, and its books balance, whichever     *)
(* contract is paid in it: deposits, refunds, prices and pots included.     *)
THEOREM BooksBalanceForAll == Spec => [](FT!TypeOK /\ BooksBalance)
  BY OneRuns, FungibleRun, FixedRun, UnfixedRun, LotteryRun, PTL

(* However accounts, auctions and blind boxes issue, send on and destroy    *)
(* assets, their lists enumerate them, and no approval outlives the         *)
(* ownership it was given under.                                            *)
THEOREM ListsEnumerateForAll ==
  Spec => [](NFT!TypeOK /\ EnumerationOK) /\ ApprovalsEndWithOwnership
  <1>1. Spec => []NFTP!IInv /\ ApprovalsEndWithOwnership
    BY OneRuns, NonFungibleRun, BoxRun, FixedRun, UnfixedRun, PTL
  <1>2. NFTP!IInv => NFTP!TypeOK /\ NFTP!EnumerationOK
    BY NFTP!IInvTypeOK, NFTP!IInvEnumerationOK, PartiesAssumption, AssetsAssumption,
       OracleAssumption, BoxAssumption
    DEF NFTP!IsFiniteSet, IsFiniteSet, NFTP!Species, Species
  <1>3. NFTP!TypeOK => NFT!TypeOK
    BY DEF NFT!TypeOK, NFTP!TypeOK, NFT!RolesTypeOK, NFTP!RolesTypeOK
  <1>4. NFTP!EnumerationOK => EnumerationOK
    BY DEF EnumerationOK, NFTP!EnumerationOK, Enumerates, NFTP!Enumerates, Exists,
           NFTP!Exists
  <1> QED BY <1>1, <1>2, <1>3, <1>4, PTL

(* What an auction has to give it has, and its first winner pays his bid.   *)
THEOREM AuctionsHoldForAll == Spec => [](ActiveAssetIsHeld /\ WinnerPaysHisBid)
  <1>1. Idle /\ (app = "BAC001" \/ app = "BAC002" \/ app = "Lottery" \/ app = "CatBlindbox")
          => ActiveAssetIsHeld /\ WinnerPaysHisBid
    BY DEF Idle, ActiveAssetIsHeld, WinnerPaysHisBid, IsActive
  <1>2. Idle /\ app = "AuctionFixedPrice" => WinnerPaysHisBid
    BY DEF Idle, WinnerPaysHisBid
  <1> QED BY <1>1, <1>2, OneRuns, OthersAreIdle, FixedRun, UnfixedRun, PTL

(* The auctions for bids can pay everybody they owe in their first round,   *)
(* unless they are called while a bid sends a deposit back.                 *)
THEOREM DepositsAreHeldForAll == Spec => []DepositsAreHeld
  <1>1. (app = "BAC001" \/ app = "BAC002" \/ app = "AuctionFixedPrice" \/ app = "Lottery"
           \/ app = "CatBlindbox") => DepositsAreHeld
    BY DEF DepositsAreHeld
  <1>2. Unfixed!DepositsAreHeld => DepositsAreHeld
    BY DEF DepositsAreHeld
  <1> QED BY <1>1, <1>2, OneRuns, UnfixedRun, PTL

(* Each lottery is drawn once, unless it is called while it sends the pot,  *)
(* and so is each species of a blind box.                                   *)
THEOREM DrawsHoldForAll == Spec => [](DrawnOnce /\ SpeciesDrawnOnce)
  <1>1. Idle /\ (app = "BAC001" \/ app = "BAC002" \/ app = "AuctionFixedPrice"
                 \/ app = "AuctionUnfixedPrice" \/ app = "CatBlindbox") => DrawnOnce
    BY DEF Idle, DrawnOnce
  <1>2. Idle /\ (app = "BAC001" \/ app = "BAC002" \/ app = "AuctionFixedPrice"
                 \/ app = "AuctionUnfixedPrice" \/ app = "Lottery") => SpeciesDrawnOnce
    <2> SUFFICES ASSUME catSpeciesPool = CatsSpecies, generatedCats = <<>>,
                        NEW i \in 1..Len(CatsSpecies)
                 PROVE  /\ {p \in 1..Len(catSpeciesPool) : catSpeciesPool[p] = CatsSpecies[i]} = {i}
                        /\ {c \in 1..Len(generatedCats) :
                              generatedCats[c].species = CatsSpecies[i]} = {}
      BY DEF Idle, SpeciesDrawnOnce
    <2>1. \A p \in 1..Len(CatsSpecies) : CatsSpecies[p] = CatsSpecies[i] => p = i
      <3> SUFFICES ASSUME NEW p \in 1..Len(CatsSpecies), p # i
                   PROVE  CatsSpecies[p] # CatsSpecies[i]
        OBVIOUS
      <3>1. p \in 1..i - 1 \/ i \in 1..p - 1
        OBVIOUS
      <3> QED BY <3>1, BoxAssumption
    <2> QED BY <2>1
  <1> QED BY <1>1, <1>2, OneRuns, OthersAreIdle, LotteryRun, BoxRun, PTL

(* The pot of a lottery stays until it is sent to a winner.                 *)
THEOREM PotStaysForAll == Spec => PotStays
  <1> DEFINE PotKept ==
        lotteryState # "CLOSED" /\ lotteryState' # "CLOSED" /\ balances'[This] < balances[This]
          => Len(pendingDraws') > Len(pendingDraws)
  <1>1. Idle /\ (app = "BAC001" \/ app = "BAC002" \/ app = "AuctionFixedPrice"
                 \/ app = "AuctionUnfixedPrice" \/ app = "CatBlindbox")
          => [PotKept]_<<lotteryState, balances, pendingDraws>>
    BY DEF Idle
  <1> QED BY <1>1, OneRuns, OthersAreIdle, LotteryRun, PTL DEF PotStays

(* All variables of a group hold values of their types.                     *)
THEOREM AllVariablesAreTyped == Spec => []MarketTypeOK
  <1>1. 0 \in 0..MaxTime /\ 0 \in 0..MaxAuctions /\ 0 \in 0..MaxLotteries /\ 0 \in 0..MaxRequests
    BY TermsAssumption, OracleAssumption
  <1>2. Idle /\ (app = "BAC001" \/ app = "BAC002" \/ app = "Lottery" \/ app = "CatBlindbox")
          => Unfixed!AuctionTypeOK
    <2> SUFFICES ASSUME Idle, app \notin {"AuctionFixedPrice", "AuctionUnfixedPrice"}
                 PROVE  Unfixed!AuctionTypeOK
      OBVIOUS
    <2>1. /\ now \in 0..MaxTime
          /\ nftAssetToAuction \in [Assets -> Unfixed!AuctionDetails \cup {None}]
      BY <1>1 DEF Idle
    <2>2. /\ bids = [id \in Assets |-> [a \in Accounts |-> 0]] /\ pendingBids = <<>>
          /\ auctions = [id \in Assets |-> 0] /\ bidReentered = FALSE
      BY DEF Idle
    <2>3. /\ bids \in [Assets -> [Accounts -> Nat]] /\ pendingBids \in Seq(Unfixed!BidCalls)
          /\ auctions \in [Assets -> 0..MaxAuctions]
      BY <1>1, <2>2
    <2>4. bidReentered \in BOOLEAN
      BY Zenon, <2>2
    <2> QED BY Zenon, <2>1, <2>3, <2>4 DEF Unfixed!AuctionTypeOK
  <1>3. Idle /\ (app = "BAC001" \/ app = "BAC002" \/ app = "AuctionFixedPrice"
                 \/ app = "AuctionUnfixedPrice")
          => Lotteries!OracleTypeOK
    BY <1>1 DEF Idle, Lotteries!OracleInit, Lotteries!OracleTypeOK, Lotteries!RequestIds
  <1>4. Box!OracleTypeOK <=> Lotteries!OracleTypeOK
    BY DEF Box!OracleTypeOK, Lotteries!OracleTypeOK, Box!RequestIds, Lotteries!RequestIds
  <1>5. Idle /\ (app = "BAC001" \/ app = "BAC002" \/ app = "AuctionFixedPrice"
                 \/ app = "AuctionUnfixedPrice" \/ app = "CatBlindbox") /\ Lotteries!OracleTypeOK
          => Lotteries!LotteryTypeOK
    <2> SUFFICES ASSUME Idle, app # "Lottery", Lotteries!OracleTypeOK
                 PROVE  Lotteries!LotteryTypeOK
      OBVIOUS
    <2>1. 0 \in 0..requests
      BY <1>1 DEF Lotteries!OracleTypeOK
    <2>2. withPot \in BOOLEAN /\ lotteryState = "CLOSED" /\ players = <<>> /\ depositAmount = 0
      BY DEF Idle
    <2>3. /\ lotteryId = 0 /\ requestId = 0 /\ drawn = <<>>
          /\ pendingDraws = <<>> /\ drawReentered = FALSE
      BY DEF Idle
    <2>4. /\ players \in Seq(Users) /\ drawn \in Seq(Lotteries!Draws)
          /\ pendingDraws \in Seq(Lotteries!PendingDraws)
      BY <2>2, <2>3
    <2>5. drawReentered \in BOOLEAN
      BY Zenon, <2>3
    <2>6. lotteryState \in {"OPEN", "PENDING", "CLOSED"} /\ depositAmount \in Nat
      BY <2>2
    <2>7. lotteryId \in 0..MaxLotteries /\ requestId \in 0..requests
      BY <1>1, <2>1, <2>3
    <2> QED BY Zenon, <2>2, <2>4, <2>6, <2>7, <2>5 DEF Lotteries!LotteryTypeOK
  <1>6. Idle /\ (app = "BAC001" \/ app = "BAC002" \/ app = "AuctionFixedPrice"
                 \/ app = "AuctionUnfixedPrice" \/ app = "Lottery") /\ Box!OracleTypeOK
          => Box!BoxTypeOK
    <2>1. CatsSpecies \in Seq(Box!Species)
      BY BoxAssumption DEF Species, Box!Species
    <2>2. Idle /\ app # "CatBlindbox"
            => /\ catSpeciesPool = CatsSpecies /\ generatedCats = <<>>
               /\ requestToSender = [id \in Box!RequestIds |-> None]
      BY DEF Idle, Box!RequestIds, Lotteries!RequestIds
    <2>3. <<>> \in Seq(Box!Cats)
      OBVIOUS
    <2> QED BY <2>1, <2>2, <2>3 DEF Box!BoxTypeOK
  <1>7. Lotteries!LotteryTypeOK => Lotteries!OracleTypeOK
    BY DEF Lotteries!LotteryTypeOK
  <1>8. Box!BoxTypeOK => Box!OracleTypeOK
    BY DEF Box!BoxTypeOK
  <1>9. Init => app \in Apps
    BY DEF Init
  <1>10. app \in Apps /\ [Next]_allVars => (app \in Apps)'
    BY DEF Next, allVars
  <1>11. Spec => [](app \in Apps)
    BY <1>9, <1>10, PTL DEF Spec
  <1>12. /\ app \in Apps /\ FT!TypeOK /\ NFT!TypeOK /\ Lotteries!LotteryTypeOK /\ Box!BoxTypeOK
         /\ \/ app = "AuctionFixedPrice" /\ Fixed!AuctionTypeOK
            \/ (app = "BAC001" \/ app = "BAC002" \/ app = "AuctionUnfixedPrice"
                \/ app = "Lottery" \/ app = "CatBlindbox") /\ Unfixed!AuctionTypeOK
         => MarketTypeOK
    BY DEF MarketTypeOK
  <1> QED
    BY <1>2, <1>3, <1>4, <1>5, <1>6, <1>7, <1>8, <1>11, <1>12, OneRuns, OthersAreIdle,
       BooksBalanceForAll, ListsEnumerateForAll, FixedRun, UnfixedRun, LotteryRun, BoxRun, PTL
=============================================================================
