-------------------------------- MODULE Terms --------------------------------
(***************************************************************************)
(* The numbers that a BAC001 starts with, and that transactions of it and  *)
(* of the contracts that are paid in it name. The latter are bounds: each  *)
(* is any uint256 in the code, which a require makes positive for prices,  *)
(* durations and deposits. So is how long a behaviour may go on.           *)
(***************************************************************************)
EXTENDS Naturals

CONSTANTS
  MaxTotal,   \* the greatest uint256
  Supply,     \* what the constructor issues to the deployer
  Values,     \* amounts to send, approve, issue or destroy
  Prices,     \* prices, or least bids, a seller may ask
  Durations,  \* durations a seller may name
  Bids,       \* amounts of a bid
  Amounts,    \* deposits the host of a lottery may ask
  MaxTime,    \* bound: the last block.timestamp
  MaxAuctions, \* bound: auctions of a behaviour
  MaxCalls,    \* bound: calls of a contract that are suspended at once
  MaxPlayers, \* bound: players of a lottery
  MaxLotteries \* bound: lotteries of a behaviour

ASSUME TermsAssumption ==
  /\ MaxTotal \in Nat /\ Supply \in 0..MaxTotal
  /\ Values \cup Bids \subseteq Nat
  /\ Prices \cup Durations \cup Amounts \subseteq Nat \ {0}
  /\ {MaxTime, MaxAuctions, MaxCalls, MaxPlayers, MaxLotteries} \subseteq Nat
=============================================================================
