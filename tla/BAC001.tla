-------------------------------- MODULE BAC001 --------------------------------
(***************************************************************************)
(* The fungible asset of contracts/BAC/bac001/BAC001.sol.                  *)
(*                                                                         *)
(* As in Suspendable, an action is a transaction that does not revert:     *)
(* SafeMath's checks are guards. An addition to a balance cannot overflow  *)
(* once that to the total does not, and has no guard.                      *)
(*                                                                         *)
(* A recipient that is a contract must implement onBAC001Received, which   *)
(* send and sendFrom call when all their own is written: what it does then *)
(* is like calls that follow, as far as this contract goes. It matters to  *)
(* a caller who still has something to write, and is in the module of that *)
(* caller (AuctionUnfixedPrice, Lottery). That of This does nothing.       *)
(***************************************************************************)
EXTENDS Suspendable, Terms, BAC001State

assetVars == <<balances, allowed, totalAmount>>
vars == <<roleVars, assetVars>>

Init ==
  /\ RolesInit
  /\ balances = [a \in Accounts |-> IF a = Deployer THEN Supply ELSE 0]
  /\ allowed = [a \in Accounts |-> [spender \in Accounts |-> 0]]
  /\ totalAmount = Supply

-----------------------------------------------------------------------------
(* Balances after _send, also of an account to itself. *)
Sent(held, from, to, value) ==
  LET taken == [held EXCEPT ![from] = @ - value]
  IN  [taken EXCEPT ![to] = @ + value]

(* Balances after a series of _send of one account to others, due[a] to a. *)
PaidOut(held, from, due) ==
  [a \in Accounts |-> IF a = from THEN held[a] - SumFunction(due) ELSE held[a] + due[a]]

Send(caller, to, value) ==
  /\ ~suspended
  /\ value <= balances[caller]
  /\ balances' = Sent(balances, caller, to, value)
  /\ UNCHANGED <<roleVars, allowed, totalAmount>>

(* batchSend, and what other contracts send in one transaction. A recipient *)
(* who calls something meanwhile does so when the rest is not paid yet,     *)
(* which makes a difference only to who would then lack the means to pay.   *)
BatchSend(caller, due) ==
  /\ ~suspended
  /\ due[caller] = 0
  /\ SumFunction(due) <= balances[caller]
  /\ balances' = PaidOut(balances, caller, due)
  /\ UNCHANGED <<roleVars, allowed, totalAmount>>

(* Mutant: the allowance is not looked at. *)
SendFrom_NotAllowed(caller, from, to, value) ==
  /\ ~suspended
  /\ value <= balances[from]
  /\ balances' = Sent(balances, from, to, value)
  /\ UNCHANGED <<roleVars, allowed, totalAmount>>

SendFrom(caller, from, to, value) ==
  /\ ~suspended
  /\ value <= balances[from] /\ value <= allowed[from][caller]
  /\ balances' = Sent(balances, from, to, value)
  /\ allowed' = [allowed EXCEPT ![from][caller] = @ - value]
  /\ UNCHANGED <<roleVars, totalAmount>>

(* approve, increaseAllowance and decreaseAllowance. *)
SetAllowance(caller, spender, value) ==
  /\ ~suspended
  /\ allowed' = [allowed EXCEPT ![caller][spender] = value]
  /\ UNCHANGED <<roleVars, balances, totalAmount>>

Approve(caller, spender, value) == SetAllowance(caller, spender, value)

IncreaseAllowance(caller, spender, addedValue) ==
  /\ allowed[caller][spender] + addedValue <= MaxTotal
  /\ SetAllowance(caller, spender, allowed[caller][spender] + addedValue)

DecreaseAllowance(caller, spender, subtractedValue) ==
  /\ subtractedValue <= allowed[caller][spender]
  /\ SetAllowance(caller, spender, allowed[caller][spender] - subtractedValue)

(* _destroy, which a suspension does not stop. *)
Destroyed(account, value) ==
  /\ value <= balances[account]
  /\ balances' = [balances EXCEPT ![account] = @ - value]
  /\ totalAmount' = totalAmount - value

Destroy(caller, value) ==
  /\ Destroyed(caller, value)
  /\ UNCHANGED <<roleVars, allowed>>

(* Mutant: only the balance is reduced. *)
DestroyFrom_KeepsTotal(caller, from, value) ==
  /\ value <= balances[from] /\ value <= allowed[from][caller]
  /\ balances' = [balances EXCEPT ![from] = @ - value]
  /\ allowed' = [allowed EXCEPT ![from][caller] = @ - value]
  /\ UNCHANGED <<roleVars, totalAmount>>

DestroyFrom(caller, from, value) ==
  /\ Destroyed(from, value)
  /\ value <= allowed[from][caller]
  /\ allowed' = [allowed EXCEPT ![from][caller] = @ - value]
  /\ UNCHANGED roleVars

(* Mutant: the total is added to without a check. *)
Issue_Unchecked(caller, to, value) ==
  /\ caller \in issuers
  /\ totalAmount' = totalAmount + value
  /\ balances' = [balances EXCEPT ![to] = @ + value]
  /\ UNCHANGED <<roleVars, allowed>>

(* Nor is issuing stopped. *)
Issue(caller, to, value) ==
  /\ caller \in issuers
  /\ totalAmount + value <= MaxTotal
  /\ totalAmount' = totalAmount + value
  /\ balances' = [balances EXCEPT ![to] = @ + value]
  /\ UNCHANGED <<roleVars, allowed>>

-----------------------------------------------------------------------------
(* What holders and spenders do. *)
HolderNext ==
  \/ \E caller \in Users, value \in Values :
       \/ Destroy(caller, value)
       \/ \E to \in Accounts : Send(caller, to, value)
       \/ \E from \in Accounts : DestroyFrom(caller, from, value)
       \/ \E from, to \in Accounts : SendFrom(caller, from, to, value)
       \/ \E spender \in Accounts :
            \/ Approve(caller, spender, value)
            \/ IncreaseAllowance(caller, spender, value)
            \/ DecreaseAllowance(caller, spender, value)
  \/ \E caller \in Users, due \in [Accounts -> Values \cup {0}] : BatchSend(caller, due)

(* What issuers and suspenders do. *)
OwnerNext ==
  \/ RolesNext /\ UNCHANGED assetVars
  \/ \E caller \in Users, to \in Accounts, value \in Values : Issue(caller, to, value)

Next == HolderNext \/ OwnerNext

Spec == Init /\ [][Next]_vars

-----------------------------------------------------------------------------
(* Every variable holds a value of its type. *)
TypeOK ==
  /\ RolesTypeOK
  /\ balances \in [Accounts -> Nat]
  /\ allowed \in [Accounts -> [Accounts -> Nat]]
  /\ totalAmount \in 0..MaxTotal
=============================================================================
