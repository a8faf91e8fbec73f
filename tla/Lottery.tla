------------------------------- MODULE Lottery -------------------------------
(***************************************************************************)
(* The lotteries: LotteryBacOracle and LotteryBacUseVrf, which collect     *)
(* deposits in a BAC001 before they ask for a random number, and           *)
(* LotteryOracle and LotteryOracleUseVrf, which have no pot and ask at     *)
(* once. Within each pair only the oracle differs.                         *)
(*                                                                         *)
(* A winner may be a contract, whose onBAC001Received is called when it is *)
(* sent the pot, before the draw is written: PickWinnerCallsOut is what    *)
(* pickWinner does up to that call, PickWinnerReturns the rest, PickWinner *)
(* all of it, when nothing is called from there. Without a pot nothing is  *)
(* sent.                                                                   *)
(***************************************************************************)
EXTENDS BAC001, LotteryState

PlayerLists == UNION {[1..n -> Users] : n \in 0..MaxPlayers}

LotteryInit ==
  /\ Init
  /\ OracleInit
  /\ withPot \in BOOLEAN
  /\ lotteryState = "CLOSED"
  /\ players = <<>>
  /\ depositAmount = 0
  /\ lotteryId = 0
  /\ requestId = 0
  /\ drawn = <<>>
  /\ pendingDraws = <<>>
  /\ drawReentered = FALSE

StartNewLottery(list, amount) ==
  /\ lotteryState = "CLOSED" /\ lotteryId < MaxLotteries
  /\ lotteryState' = "OPEN"
  /\ players' = list
  /\ lotteryId' = lotteryId + 1
  /\ IF withPot
     THEN depositAmount' = amount /\ UNCHANGED <<requestId, oracleVars>>
     ELSE Request /\ requestId' = requests' /\ UNCHANGED depositAmount
  /\ UNCHANGED <<withPot, drawn, pendingDraws, vars>>

Deposit(caller) ==
  /\ withPot /\ lotteryState = "OPEN"
  /\ SendFrom(This, caller, This, depositAmount)
  /\ UNCHANGED <<oracleVars, gameVars, pendingDraws>>

StopDeposit ==
  /\ withPot /\ lotteryState = "OPEN"
  /\ Request
  /\ requestId' = requests'
  /\ lotteryState' = "PENDING"
  /\ UNCHANGED <<withPot, players, depositAmount, lotteryId, drawn, pendingDraws, vars>>

(* pickWinner looks at the state only if there is a pot.                    *)
MayPick == (withPot => lotteryState = "PENDING") /\ ~CheckIdFulfilled(requestId)

(* The number is reduced modulo the number of players, which reverts for 0. *)
Winner == players[(resultMap[requestId] % Len(players)) + 1]

(* Mutant: the players are not reset. *)
EndLottery_KeepsPlayers(winner, request) ==
  /\ drawn' = Append(drawn, [lotteryId |-> lotteryId, winner |-> winner, requestId |-> request])
  /\ lotteryState' = "CLOSED"
  /\ UNCHANGED <<withPot, players, depositAmount, lotteryId, requestId>>

EndLottery(winner, request) ==
  /\ drawn' = Append(drawn, [lotteryId |-> lotteryId, winner |-> winner, requestId |-> request])
  /\ players' = <<>>
  /\ lotteryState' = "CLOSED"
  /\ UNCHANGED <<withPot, depositAmount, lotteryId, requestId>>

PickWinner ==
  /\ MayPick /\ players # <<>>
  /\ EndLottery(Winner, requestId)
  /\ IF withPot THEN Send(This, Winner, balances[This]) ELSE UNCHANGED vars
  /\ UNCHANGED <<oracleVars, pendingDraws>>

(* The pot is with the winner, whose contract has control.                  *)
PickWinnerCallsOut ==
  /\ Len(pendingDraws) < MaxCalls
  /\ withPot /\ MayPick /\ players # <<>>
  /\ Send(This, Winner, balances[This])
  /\ pendingDraws' = <<[winner |-> Winner, requestId |-> requestId]>> \o pendingDraws
  /\ UNCHANGED <<oracleVars, gameVars>>

(* The latest call goes on: its winner is that of the lottery of now.       *)
PickWinnerReturns ==
  /\ pendingDraws # <<>>
  /\ EndLottery(Head(pendingDraws).winner, Head(pendingDraws).requestId)
  /\ pendingDraws' = Tail(pendingDraws)
  /\ UNCHANGED <<vars, oracleVars, drawReentered>>

(* Calls of users, also those made while others wait.                       *)
LotteryNext ==
  \/ /\ \/ \E list \in PlayerLists, amount \in Amounts : StartNewLottery(list, amount)
        \/ \E caller \in Users : Deposit(caller)
        \/ StopDeposit
        \/ PickWinner
        \/ PickWinnerCallsOut
     /\ drawReentered' = (drawReentered \/ pendingDraws # <<>>)
  \/ PickWinnerReturns

(* What players do to take part, and what anybody does instead; holders     *)
(* approve these spenders.                                                  *)
PlayersNext(spenders) ==
  \E caller \in Users, value \in Values :
    \/ \E spender \in spenders : IncreaseAllowance(caller, spender, value)
    \/ \E to \in Accounts : Send(caller, to, value)
    \/ \E from, to \in Accounts : SendFrom(caller, from, to, value)

GroupNext ==
  \/ LotteryNext
  \/ OracleNext /\ UNCHANGED <<vars, lotteryVars>>
  \/ Next /\ UNCHANGED <<oracleVars, lotteryVars>>

LotterySpec == LotteryInit /\ [][GroupNext]_<<vars, oracleVars, lotteryVars>>

-----------------------------------------------------------------------------
Draws == [lotteryId : 1..MaxLotteries, winner : Users, requestId : 1..MaxRequests]

PendingDraws == [winner : Users, requestId : 1..MaxRequests]

(* The variables hold values of their types. *)
LotteryTypeOK ==
  /\ OracleTypeOK
  /\ withPot \in BOOLEAN
  /\ lotteryState \in {"OPEN", "PENDING", "CLOSED"}
  /\ players \in Seq(Users)
  /\ depositAmount \in Nat
  /\ lotteryId \in 0..MaxLotteries
  /\ requestId \in 0..requests
  /\ drawn \in Seq(Draws)
  /\ pendingDraws \in Seq(PendingDraws)
  /\ drawReentered \in BOOLEAN
=============================================================================
