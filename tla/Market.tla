-------------------------------- MODULE Market --------------------------------
(***************************************************************************)
(* The contracts of contracts/BAC and the sample lotteries side by side: a *)
(* group in which one of them, app, is deployed with the assets and the    *)
(* oracle it uses. Each is specified in a module of its own.               *)
(***************************************************************************)
EXTENDS Terms, BAC001State, BidState, LotteryState, BoxState

CONSTANTS
  Apps,      \* those that may be deployed, named as their modules
  Approved   \* bound: whom the players of a lottery approve as spenders

ASSUME MarketAssumption ==
  /\ Apps \subseteq {"BAC001", "BAC002", "AuctionFixedPrice", "AuctionUnfixedPrice", "Lottery",
                     "CatBlindbox"}
  /\ Approved \subseteq Accounts

VARIABLES
  app,  \* the contract that is deployed
  issuers, suspenders, suspended, nftIssuers, nftSuspenders, nftSuspended,
  now

FT == INSTANCE BAC001

NFT ==
  INSTANCE BAC002
    WITH issuers <- nftIssuers, suspenders <- nftSuspenders, suspended <- nftSuspended

Fixed == INSTANCE AuctionFixedPrice

Unfixed == INSTANCE AuctionUnfixedPrice

Lotteries == INSTANCE Lottery

Box ==
  INSTANCE CatBlindbox
    WITH issuers <- nftIssuers, suspenders <- nftSuspenders, suspended <- nftSuspended

ftVars == <<issuers, suspenders, suspended, balances, allowed, totalAmount>>
nftVars ==
  <<nftIssuers, nftSuspenders, nftSuspended, assetOwner, assetApprovals, operatorApprovals,
    ownedAssetsCount, ownedAssets, ownedAssetsIndex, allAssets, allAssetsIndex>>
auctionVars == <<nftAssetToAuction, bids, pendingBids, auctions, bidReentered>>
allVars == <<app, ftVars, nftVars, now, auctionVars, oracleVars, lotteryVars, boxVars>>

Init ==
  /\ app \in Apps
  /\ Unfixed!AuctionInit
  /\ Lotteries!LotteryInit
  /\ Box!BoxInit
  /\ withPot => app = "Lottery"

(* The contracts that are not deployed do nothing. Roles and suspensions    *)
(* are left to the assets by themselves: all they do to the others is to    *)
(* make transactions revert.                                                *)
Next ==
  /\ app' = app
  /\ \/ /\ app = "BAC001" /\ FT!Next
        /\ UNCHANGED <<nftVars, now, auctionVars, oracleVars, lotteryVars, boxVars>>
     \/ /\ app = "BAC002" /\ NFT!Next
        /\ UNCHANGED <<ftVars, now, auctionVars, oracleVars, lotteryVars, boxVars>>
     \/ /\ app = "AuctionFixedPrice"
        /\ Fixed!AuctionNext \/ (Fixed!HoldersNext /\ UNCHANGED nftAssetToAuction)
        /\ UNCHANGED <<bids, pendingBids, auctions, bidReentered, oracleVars, lotteryVars, boxVars>>
     \/ /\ app = "AuctionUnfixedPrice"
        /\ \/ Unfixed!AuctionNext
           \/ /\ Unfixed!TradersNext /\ UNCHANGED auctionVars
              /\ pendingBids # <<>> => now' = now
        /\ UNCHANGED <<oracleVars, lotteryVars, boxVars>>
     \/ /\ app = "Lottery"
        /\ \/ Lotteries!LotteryNext
           \/ Lotteries!OracleNext /\ UNCHANGED <<ftVars, lotteryVars>>
           \/ Lotteries!PlayersNext(Approved) /\ UNCHANGED <<oracleVars, lotteryVars>>
        /\ UNCHANGED <<nftVars, now, auctionVars, boxVars>>
     \/ /\ app = "CatBlindbox"
        /\ \/ Box!BoxNext
           \/ Box!OracleNext /\ UNCHANGED <<nftVars, boxVars>>
           \/ (Box!HolderNext({This}) \/ Box!IssuerNext) /\ UNCHANGED <<oracleVars, boxVars>>
        /\ UNCHANGED <<ftVars, now, auctionVars, lotteryVars>>

Spec == Init /\ [][Next]_allVars

-----------------------------------------------------------------------------
(* Every variable holds a value of its type. *)
MarketTypeOK ==
  /\ app \in Apps
  /\ FT!TypeOK /\ NFT!TypeOK
  /\ IF app = "AuctionFixedPrice" THEN Fixed!AuctionTypeOK ELSE Unfixed!AuctionTypeOK
  /\ Lotteries!LotteryTypeOK
  /\ Box!BoxTypeOK

(* The contract can pay what its first auctions of assets owe to bidders,   *)
(* unless it is called while it sends a deposit back.                       *)
DepositsAreHeld == app = "AuctionUnfixedPrice" => Unfixed!DepositsAreHeld

(* "so the bidders get back the locked eeth": the highest among them.       *)
HighestBidderIsRefunded == app = "AuctionUnfixedPrice" => Unfixed!HighestBidderIsRefunded

(* "the hightest bid user get's the nft".                                   *)
HighestBidWins == app = "AuctionUnfixedPrice" => Unfixed!HighestBidWins
=============================================================================
