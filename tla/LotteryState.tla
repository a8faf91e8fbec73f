---------------------------- MODULE LotteryState -----------------------------
(***************************************************************************)
(* The storage of a lottery, with the oracle and the BAC001 it uses, and   *)
(* what holds of it.                                                       *)
(***************************************************************************)
EXTENDS Parties, BAC001State, RandomOracle, Sequences

VARIABLES
  withPot,        \* the contract collects deposits
  lotteryState,   \* lottery_state
  players,        \* whom the host named, not who deposited
  depositAmount,  \* deposit_amount
  lotteryId,      \* number of the lottery
  requestId,      \* the request that decides it
  drawn,          \* the Winner events so far, and the request each was drawn by
  pendingDraws,   \* calls of pickWinner, the latest first, that sent the pot and
                  \* wait for the winner's onBAC001Received to return
  drawReentered   \* history: the contract was called while one waited

gameVars == <<withPot, lotteryState, players, depositAmount, lotteryId, requestId, drawn>>
lotteryVars == <<gameVars, pendingDraws, drawReentered>>

(* Every lottery before the current one was decided, once, and so was the   *)
(* current one if it is closed; each by a request of its own that was       *)
(* answered, although anybody may call pickWinner at any time, and without  *)
(* a pot its state is not looked at. That no winner calls the contract when *)
(* he is sent the pot is presupposed: state and requestId are written after *)
(* that, so that a second pickWinner would pass all checks of the first.    *)
DrawnOnce ==
  ~drawReentered =>
    /\ Len(drawn) = IF lotteryState = "CLOSED" THEN lotteryId ELSE lotteryId - 1
    /\ \A i \in 1..Len(drawn) :
         /\ drawn[i].lotteryId = i
         /\ drawn[i].requestId \notin validIds
         /\ \A j \in 1..i - 1 : drawn[j].requestId < drawn[i].requestId

(* Until it is sent to the winner, nothing is taken out of the pot: not by  *)
(* those who were given allowances, nor by destroying, nor by what a winner *)
(* of an earlier lottery calls when he is sent his.                         *)
PotStays ==
  [][lotteryState # "CLOSED" /\ lotteryState' # "CLOSED" /\ balances'[This] < balances[This]
       => Len(pendingDraws') > Len(pendingDraws)]_<<lotteryState, balances, pendingDraws>>
=============================================================================
