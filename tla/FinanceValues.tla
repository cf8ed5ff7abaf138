---------------------------- MODULE FinanceValues ----------------------------
(***************************************************************************)
(* Value primitives of packages/finance used by the accrual engine and the *)
(* price alarms: the subtraction of Durations (duration.rs) and the        *)
(* ordering of PriceDTOs (price/dto/mod.rs), each beside the definition it *)
(* is meant to implement, over every pair of small inputs.                 *)
(*                                                                         *)
(* The inputs are chosen once; the behaviour then stutters. A Duration is  *)
(* its nanoseconds; a PriceDTO is a base and a quote coin, each an amount  *)
(* and a currency ticker.                                                  *)
(***************************************************************************)
EXTENDS Integers

CONSTANTS
    MaxNanos,     \* the largest Duration of the inputs
    MaxAmount,    \* the largest coin amount of the inputs
    Tickers       \* currency tickers

ASSUME MaxNanos \in Nat /\ MaxAmount \in Nat \ {0} /\ Tickers # {}

VARIABLES
    a, b,   \* two Durations
    p, q    \* two PriceDTOs

vars == <<a, b, p, q>>

\* Amounts of prices: Price::new takes non-zero amounts.
Coin == [amount : 1..MaxAmount, ticker : Tickers]
PriceDTO == [amount : Coin, amount_quote : Coin]

-----------------------------------------------------------------------------
(* Sub<Duration> for Duration: from_nanos(self.nanos().add(rhs.nanos())). *)
DurationSub(x, y) == x + y

(* PartialOrd for PriceDTO: self.quote * other.base against               *)
(* self.base * other.quote, in the double-width type (no overflow); the   *)
(* currencies are not looked at.                                           *)
PriceCmp(x, y) ==
    LET lhs == x.amount_quote.amount * y.amount.amount
        rhs == x.amount.amount * y.amount_quote.amount
    IN  IF lhs < rhs THEN "Less" ELSE IF lhs = rhs THEN "Equal" ELSE "Greater"

-----------------------------------------------------------------------------
Init ==
    /\ a \in 0..MaxNanos /\ b \in 0..MaxNanos
    /\ p \in PriceDTO /\ q \in PriceDTO

\* The inputs are fixed; the properties are about the operators.
Hold == UNCHANGED vars

Spec == Init /\ [][Hold]_vars

-----------------------------------------------------------------------------
(* Subtracting a Duration undoes adding it: (a - b) + b = a for b <= a,   *)
(* as the Sub trait promises of the Durations the accrual engine computes *)
(* with.                                                                   *)
SubUndoesAdd ==
    b <= a => DurationSub(a, b) + b = a

(* The ordering of prices agrees with their equality, as PartialOrd must  *)
(* with the derived PartialEq: partial_cmp is Equal exactly for equal     *)
(* DTOs.                                                                   *)
PriceOrderAgreesWithEq ==
    PriceCmp(p, q) = "Equal" <=> p = q

=============================================================================
