----------------------------- MODULE BAC001State -----------------------------
(***************************************************************************)
(* The storage of a BAC001, and what holds of it.                          *)
(* The transactions are in BAC001.                                         *)
(***************************************************************************)
EXTENDS Naturals, Functions

VARIABLES
  balances,    \* balances[account]
  allowed,     \* allowed[owner][spender]
  totalAmount  \* assets issued and not destroyed

(* Issuing, destroying and sending, directly, through an allowance or in a  *)
(* batch, keep the books: what the accounts hold is what there is, so that  *)
(* the additions SafeMath checks cannot overflow.                           *)
BooksBalance == totalAmount = SumFunction(balances)
=============================================================================
