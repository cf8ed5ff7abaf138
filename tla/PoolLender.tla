----------------------------- MODULE PoolLender -----------------------------
(***************************************************************************)
(* The lender side of the liquidity pool (contracts/lpp/src/contract/      *)
(* lender.rs): lenders deposit the pool's currency (Lpn) for nTokens       *)
(* (nLpn) and withdraw nTokens for Lpn, while leases borrow from the pool  *)
(* and repay it with interest.                                             *)
(*                                                                         *)
(* Each handler is one transaction: an error returns before anything is   *)
(* saved. The LiquidityPool and the Deposit store are not under src/; the *)
(* arithmetic the handlers rely on (the deposit capacity under the         *)
(* minimal utilization, the nToken price, the receipts and the payment) is *)
(* the one lender.rs's own tests assert. The loans are the pool's          *)
(* collaborators of the spec (borrow, repay) plus interest accrual.        *)
(* A Percent is its units out of Hundred.                                  *)
(***************************************************************************)
EXTENDS Integers, Sequences, Folds, Functions

CONSTANTS
    Lenders,        \* lender addresses
    MinUtilization, \* Config's min_utilization, in units of Hundred
    Hundred,        \* Percent::HUNDRED, scaled down
    Amounts,        \* the amounts of a deposit, withdrawal, loan or repayment
    MaxValue        \* bound on the pool's balance plus loans

ASSUME /\ Hundred \in Nat \ {0} /\ MinUtilization \in 0..Hundred
       /\ Amounts \subseteq Nat \ {0} /\ MaxValue \in Nat

VARIABLES
    balance,   \* the pool contract's Lpn balance, pending deposit included
    loans,     \* Lpn owed to the pool by leases, interest included
    deposits,  \* Deposit per lender: its nLpn balance (absent: 0, no Deposit)
    sent       \* the bank messages of the last handler: a sequence of amounts

vars == <<balance, loans, deposits, sent>>

\* A withdrawal that brings no reward (maybe_reward is None).
NoReward == -1

\* The nLpn in circulation.
TotalNLpn == FoldFunction(+, 0, deposits)

\* The value of the pool: what it holds and what it lent.
PoolValue == balance + loans

-----------------------------------------------------------------------------
\* Mutant: utilization taken as loans / balance.
DepositCapacityOfBalance(bal, pending) ==
    IF MinUtilization = 0 THEN {}
    ELSE LET room == (loans * Hundred) \div MinUtilization - (bal - pending)
         IN  {IF room > 0 THEN room ELSE 0}

(* LiquidityPool::deposit_capacity (the min_utilization tests of lender.rs): *)
(* with no minimal utilization none; otherwise the largest deposit that    *)
(* keeps loans / (loans + balance) at the minimum, bal being the balance   *)
(* the handler sees and the pending deposit taken out of it; zero when     *)
(* utilization is already below the minimum.                               *)
DepositCapacity(bal, pending) ==
    IF MinUtilization = 0 THEN {}
    ELSE LET room == (loans * Hundred) \div MinUtilization
                     - (loans + bal - pending)
         IN  {IF room > 0 THEN room ELSE 0}

(* LiquidityPool::calculate_price (test_nlpn_price): Lpn per nLpn, the     *)
(* pool's value without the pending deposit over the nLpn out; the        *)
(* identity while no nLpn is out. A price is [lpn, nlpn].                  *)
CalculatePrice(bal, pending) ==
    IF TotalNLpn = 0 THEN [lpn |-> 1, nlpn |-> 1]
    ELSE [lpn |-> bal + loans - pending, nlpn |-> TotalNLpn]

(* Deposit::deposit (test_deposit): the nLpn bought by the amount at the   *)
(* price, rounded down.                                                    *)
Receipts(amount, price) == (amount * price.nlpn) \div price.lpn

(* LiquidityPool::withdraw_lpn (the withdraw tests): the Lpn the nLpn are  *)
(* worth at the price, rounded down.                                       *)
WithdrawLpn(amount, price) == (amount * price.lpn) \div price.nlpn

\* query_balance: a lender's nLpn, zero without a Deposit.
QueryBalance(l) == deposits[l]

\* deposit_capacity, the query: the capacity with no pending deposit.
QueryDepositCapacity == DepositCapacity(balance, 0)

\* query_ntoken_price: the price with no pending deposit.
QueryNTokenPrice == CalculatePrice(balance, 0)

-----------------------------------------------------------------------------
(* A pool whose lenders deposited at the identity price, and part of whose *)
(* funds are lent: the state a pool reaches while its min_utilization was  *)
(* zero, the empty pool included.                                          *)
Init ==
    /\ deposits \in [Lenders -> {0} \cup Amounts]
    /\ TotalNLpn <= MaxValue
    /\ loans \in 0..TotalNLpn
    /\ balance = TotalNLpn - loans
    /\ sent = <<>>

(* try_deposit: the funds (received_one, a non-zero amount) come with the  *)
(* message, so the balance the handler sees holds them; the deposit fails  *)
(* (and the funds go back) when it exceeds the capacity, otherwise it buys *)
(* nLpn at the price without it, added to the lender's Deposit.            *)
Deposit(l, amount) ==
    LET bal == balance + amount IN
    /\ bal + loans <= MaxValue
    /\ \A c \in DepositCapacity(bal, amount) : ~(amount > c)
    /\ balance' = bal
    /\ deposits' = [deposits EXCEPT ![l] = @ +
                       Receipts(amount, CalculatePrice(bal, amount))]
    /\ sent' = <<>>
    /\ UNCHANGED loans

\* Mutant: the payment sent whether or not the balance holds it.
WithdrawUnfunded(l, amount) ==
    LET payment == WithdrawLpn(amount, QueryNTokenPrice) IN
    /\ deposits[l] # 0
    /\ amount <= deposits[l]
    /\ balance' = balance - payment
    /\ deposits' = [deposits EXCEPT ![l] = @ - amount]
    /\ sent' = <<[coin |-> "Lpn", amount |-> payment]>>
    /\ UNCHANGED loans

(* try_withdraw of a non-zero nLpn amount: withdraw_lpn prices it at the   *)
(* pool's price (NoLiquidity when the balance cannot pay), the lender's    *)
(* Deposit must exist and hold the amount, and the payment, then a         *)
(* non-zero reward, are sent to the lender. A failed withdrawal changes   *)
(* nothing. The reward, in Nls, comes from the Deposit store: any of       *)
(* none, zero or one.                                                      *)
Withdraw(l, amount) ==
    LET payment == WithdrawLpn(amount, QueryNTokenPrice) IN
    /\ payment <= balance
    /\ deposits[l] # 0
    /\ amount <= deposits[l]
    /\ balance' = balance - payment
    /\ deposits' = [deposits EXCEPT ![l] = @ - amount]
    /\ \E reward \in {NoReward, 0, 1} :
          sent' = <<[coin |-> "Lpn", amount |-> payment]>> \o
                  (IF reward \in {NoReward, 0} THEN <<>>
                   ELSE <<[coin |-> "Nls", amount |-> reward]>>)
    /\ UNCHANGED loans

(* The pool lends to a lease (borrow) from its balance, is repaid from the *)
(* lease (repay) and accrues interest on its loans.                        *)
OpenLoan(amount) ==
    /\ amount <= balance
    /\ balance' = balance - amount
    /\ loans' = loans + amount
    /\ UNCHANGED <<deposits, sent>>

RepayLoan(amount) ==
    /\ amount <= loans
    /\ balance' = balance + amount
    /\ loans' = loans - amount
    /\ UNCHANGED <<deposits, sent>>

Accrue ==
    /\ loans > 0
    /\ PoolValue < MaxValue
    /\ loans' = loans + 1
    /\ UNCHANGED <<balance, deposits, sent>>

Next ==
    \/ \E l \in Lenders, a \in Amounts : Deposit(l, a) \/ Withdraw(l, a)
    \/ \E a \in Amounts : OpenLoan(a) \/ RepayLoan(a)
    \/ Accrue

Spec == Init /\ [][Next]_vars

-----------------------------------------------------------------------------
TypeOK ==
    /\ balance \in 0..MaxValue /\ loans \in 0..MaxValue
    /\ deposits \in [Lenders -> Nat]
    /\ PoolValue <= MaxValue

(* An accepted deposit leaves the pool's utilization at least the minimal *)
(* one of the Config: loans / (loans + balance) >= min_utilization.        *)
DepositKeepsUtilization ==
    [][\A l \in Lenders : deposits'[l] > deposits[l] /\ MinUtilization > 0 =>
           loans' * Hundred >= MinUtilization * PoolValue']_vars

=============================================================================
