--------------------------------- MODULE Loan ---------------------------------
(***************************************************************************)
(* The interest and margin accrual engine of a lease                       *)
(* (contracts/lease/src/loan/mod.rs) against the loan kept by the          *)
(* liquidity pool.                                                         *)
(*                                                                         *)
(* The lease keeps the current margin-interest period, an InterestPeriod   *)
(* {start, length} at the annual margin rate; the pool keeps the loan's    *)
(* principal and the time up to which its own interest is paid. A         *)
(* repayment is allocated to the margin period first; what is left over    *)
(* ("change") goes to the pool, and when the margin period is used up and  *)
(* the change covers the pool's interest due at the period's end, the      *)
(* margin period rolls over and the remainder pays margin of the new one.  *)
(*                                                                         *)
(* The repay request is a submessage of the same transaction, so the pool  *)
(* applies it atomically with the lease's update. Interest is              *)
(* principal * rate * elapsed / YearLen, truncated, with time in seconds.  *)
(***************************************************************************)
EXTENDS Integers

CONSTANTS
    Principal0,    \* the amount borrowed when the loan is opened
    MarginRate,    \* annual_margin_interest, per YearLen
    PoolRate,      \* the pool's annual interest rate, per YearLen
    YearLen,       \* seconds in the year of the rates
    DuePeriod,     \* interest_due_period_secs
    Payments,      \* the amounts a customer may pay at once
    MaxTime,       \* the last block time, in seconds, that the model reaches
    MaxRepays      \* the number of repayments in a behaviour

ASSUME /\ {Principal0, MarginRate, PoolRate, DuePeriod} \subseteq Nat \ {0}
       /\ YearLen \in Nat \ {0}
       /\ Payments \subseteq Nat \ {0}
       /\ MaxTime \in Nat /\ MaxRepays \in Nat

VARIABLES
    now,          \* block time
    period,       \* current_period: [start, length]
    pool,         \* the pool's loan: [principal, paidTo]; principal 0 = closed
    paid,         \* history: sum of the payments handed to Loan::repay
    marginPaid,   \* history: sum of the payments kept as margin interest
    requested,    \* history: sum of the amounts of the repay requests to the pool
    surplus,      \* history: what the pool returned beyond the loan's total due
    periodFrom,   \* history: the time the current margin period was opened from
    repays        \* history: the number of repayments

vars == <<now, period, pool, paid, marginPaid, requested, surplus, periodFrom,
          repays>>

Lesser(a, b) == IF a < b THEN a ELSE b
Greater(a, b) == IF a > b THEN a ELSE b

(* Duration::annualized_slice_of: the share of an annual amount for a     *)
(* duration, annual * nanos / YEAR truncated (a Rational's safe_mul).      *)
AnnualizedSliceOf(d, annual) == (annual * d) \div YearLen

(* Duration::into_slice_per_ratio: the part of a duration in the ratio     *)
(* amount / annual, Rational::new(amount, annual).of(d), truncated.        *)
IntoSlicePerRatio(d, amount, annual) == (d * amount) \div annual

(* The interest on a principal at an annual rate over a duration: the      *)
(* rate's share of the principal (exact, rates being whole units per       *)
(* YearLen) annualized over the duration.                                  *)
Interest(principal, rate, elapsed) == AnnualizedSliceOf(elapsed, principal * rate)

-----------------------------------------------------------------------------
(* InterestPeriod (packages/finance, interest.rs): a period from `start`   *)
(* spanning `length`.                                                      *)
Till(p) == p.start + p.length
ZeroLength(p) == p.length = 0

(* InterestPeriod::pay(principal, payment, by): `by` is moved within the   *)
(* period, the margin due up to it is paid as far as the payment goes, and *)
(* the start is shifted by the part of the elapsed time paid for,          *)
(* pro-rata (in full when the whole due is paid). Result: [period, change] *)
Pay(p, principal, payment, by) ==
    LET within    == Lesser(Greater(by, p.start), Till(p))
        elapsed   == within - p.start
        due       == Interest(principal, MarginRate, elapsed)
        repayment == Lesser(due, payment)
        paidFor   == IF repayment = due THEN elapsed
                     ELSE IntoSlicePerRatio(elapsed, repayment, due)
    IN  [period |-> [start |-> p.start + paidFor, length |-> p.length - paidFor],
         change |-> payment - repayment]

(* The pool's loan (lpp): interest due by a time, and the repayment of an  *)
(* amount at `by`, interest first (pro-rata in time), then principal; what *)
(* exceeds the principal is returned.                                      *)
PoolInterestDue(l, by) == Interest(l.principal, PoolRate, Greater(by - l.paidTo, 0))

PoolRepay(l, amount, by) ==
    LET due == PoolInterestDue(l, by)
        toPrincipal == Lesser(amount - due, l.principal)
    IN  IF amount >= due
        THEN [loan |-> [principal |-> l.principal - toPrincipal,
                        paidTo |-> Greater(by, l.paidTo)],
              excess |-> amount - due - toPrincipal]
        ELSE [loan |-> [principal |-> l.principal,
                        paidTo |-> l.paidTo + ((by - l.paidTo) * amount) \div due],
              excess |-> 0]

-----------------------------------------------------------------------------
(* open / open_next_period: a margin period from a time, spanning          *)
(* interest_due_period_secs.                                               *)
PeriodFrom(t) == [start |-> t, length |-> DuePeriod]

\* Mutant: the rollover that does not wait for the period to be used up.
RolloverAnyLength(p, loanDue, change) == loanDue <= change

(* repay: the margin period is rolled over when it is used up and the      *)
(* change covers the loan interest due as of its start.                    *)
Rollover(p, loanDue, change) == loanDue <= change /\ ZeroLength(p)

\* Mutant: the second margin payment's change shadowed by the first one.
RolledPaymentShadowed(loanDue, change, change2) == loanDue + change

\* Mutant: the loan interest dropped from the rolled-over payment.
RolledPaymentNoInterest(loanDue, change, change2) == change2

\* loan_interest_due + change, where change is the second margin payment's.
RolledPayment(loanDue, change, change2) == loanDue + change2

\* Mutant: the loan interest subtracted from the change that is not rolled over.
KeptPaymentNet(loanDue, change) == change - loanDue

\* Otherwise only the margin change is paid to the pool.
KeptPayment(loanDue, change) == change

(* Loan::repay(payment, by = now): the margin period, the margin interest *)
(* kept, the amount of the repay request to the pool (0: no request) and  *)
(* the time the margin period was opened from.                            *)
Repayment(payment) ==
    LET principalDue == pool.principal
        first == Pay(period, principalDue, payment, now)
        loanDue == PoolInterestDue(pool, first.period.start)
        next == PeriodFrom(Till(first.period))
        second == Pay(next, principalDue, first.change - loanDue, now)
    IN  IF first.change = 0
        THEN [period |-> first.period, margin |-> payment,
              loanPayment |-> 0, from |-> periodFrom]
        ELSE IF Rollover(first.period, loanDue, first.change)
        THEN [period |-> second.period,
              margin |-> (payment - first.change)
                         + (first.change - loanDue - second.change),
              loanPayment |-> RolledPayment(loanDue, first.change, second.change),
              from |-> next.start]
        ELSE [period |-> first.period, margin |-> payment - first.change,
              loanPayment |-> KeptPayment(loanDue, first.change),
              from |-> periodFrom]

-----------------------------------------------------------------------------
Init ==
    /\ now = 0
    /\ period = PeriodFrom(now)
    /\ pool = [principal |-> Principal0, paidTo |-> now]
    /\ paid = 0 /\ marginPaid = 0 /\ requested = 0 /\ surplus = 0
    /\ periodFrom = now
    /\ repays = 0

(* A repayment of the lease's loan at the current block time. It fails     *)
(* (LoanClosed) once the pool has closed the loan. The repay request, if   *)
(* any, is executed by the pool in the same transaction.                   *)
Repay(payment) ==
    /\ pool.principal > 0
    /\ repays < MaxRepays
    /\ LET r == Repayment(payment)
           back == PoolRepay(pool, r.loanPayment, now)
       IN  /\ period' = r.period
           /\ pool' = IF r.loanPayment = 0 THEN pool ELSE back.loan
           /\ surplus' = surplus + IF r.loanPayment = 0 THEN 0 ELSE back.excess
           /\ requested' = requested + r.loanPayment
           /\ marginPaid' = marginPaid + r.margin
           /\ periodFrom' = r.from
    /\ paid' = paid + payment
    /\ repays' = repays + 1
    /\ UNCHANGED now

\* A new block.
Tick ==
    /\ now < MaxTime
    /\ now' = now + 1
    /\ UNCHANGED <<period, pool, paid, marginPaid, requested, surplus,
                   periodFrom, repays>>

(* The loan is closed by the pool, or the bounds of the model are reached *)
(* (MaxTime, MaxRepays): the behaviour ends.                              *)
Done ==
    /\ pool.principal = 0 \/ repays = MaxRepays
    /\ now = MaxTime
    /\ UNCHANGED vars

Next ==
    \/ \E payment \in Payments : Repay(payment)
    \/ Tick
    \/ Done

Spec == Init /\ [][Next]_vars

-----------------------------------------------------------------------------
TypeOK ==
    /\ now \in 0..MaxTime
    /\ period.start \in 0..(MaxTime + (MaxRepays + 1) * DuePeriod)
    /\ period.length \in 0..DuePeriod
    /\ pool.principal \in 0..Principal0
    /\ pool.paidTo \in 0..MaxTime
    /\ {paid, marginPaid, requested, surplus} \subseteq Nat
    /\ periodFrom \in Nat
    /\ repays \in 0..MaxRepays

(* state(now), merge_state_with: the debt reported for the loan, the       *)
(* pool's principal and interest plus the margin interest of the current  *)
(* period up to now.                                                      *)
Debt ==
    pool.principal + PoolInterestDue(pool, now)
    + Interest(pool.principal, MarginRate, now - period.start)

(* Every coin handed to Loan::repay is accounted for: it is either kept as *)
(* margin interest or requested to be repaid to the pool, across the two  *)
(* margin payments and the rollover of one repayment.                     *)
PaymentConserved ==
    paid = marginPaid + requested

(* The current margin period never starts after the last repayment's time *)
(* (no margin interest is paid for time that has not elapsed), although a *)
(* rollover opens the new period at the end of the old one.               *)
MarginNotPrepaid ==
    period.start <= now

(* The margin period is rolled over only once the pool's interest up to   *)
(* the end of the old period is paid: the pool's interest is paid at     *)
(* least up to the time the current margin period was opened from.       *)
PoolPaidBeforeRollover ==
    pool.principal > 0 => pool.paidTo >= periodFrom

(* A repayment never increases the reported debt, and never lowers it by *)
(* more than the part of the payment the pool did not return.            *)
RepayReducesDebt ==
    [][repays' = repays + 1 =>
         /\ Debt' <= Debt
         /\ Debt' >= Debt - ((paid' - paid) - (surplus' - surplus))]_vars

=============================================================================
