------------------------------ MODULE CoinIndex ------------------------------
(***************************************************************************)
(* visit_at_index (packages/dex/src/coin_index.rs): the visit of only the  *)
(* coin at a given position of a swap task. The task's on_coins walks its  *)
(* coins in their declared order, calling the visitor on each; a visit     *)
(* returns Continue or Stop, and an error aborts the walk (on_coins is not *)
(* under src/ and follows the spec's visitor protocol). CoinsIndexVisitor *)
(* counts the coins down to the wanted one, hands that one to the real     *)
(* visitor and stops.                                                      *)
(*                                                                         *)
(* A coin is its position 1..n in the task; failing is the set of coins   *)
(* on which the real visitor returns an error.                             *)
(***************************************************************************)
EXTENDS Integers, Sequences

CONSTANTS
    MaxCoins,   \* the most coins of a task
    MaxIndex    \* the largest coin_index asked for (CoinsNb)

ASSUME MaxCoins \in Nat \ {0} /\ MaxIndex \in Nat

VARIABLES
    n,          \* the number of the task's coins
    index,      \* the coin_index argument, 0-based
    failing,    \* the coins the real visitor fails on
    counter,    \* CoinsIndexVisitor.0: coins still to skip
    pos,        \* the coin on_coins visits next
    visited,    \* the coins the real visitor was called on, in order
    result      \* Running, or what visit_at_index returned: Stop, Complete, Err

vars == <<n, index, failing, counter, pos, visited, result>>

-----------------------------------------------------------------------------
\* Mutant: the target taken to be one coin further.
AtCoinLate == counter = 1

\* at_coin: no coins left to skip.
AtCoin == counter = 0

\* Mutant: a skipped coin not counted.
NextCoinUncounted == counter

\* next_coin: one coin fewer to skip.
NextCoin == counter - 1

(* The coin visit_at_index is meant to hand to the visitor: the one at    *)
(* 0-based position index, if the task has that many coins.                *)
Target == IF index < n THEN {index + 1} ELSE {}

-----------------------------------------------------------------------------
\* visit_at_index over a task of one to MaxCoins coins.
Init ==
    /\ n \in 1..MaxCoins
    /\ index \in 0..MaxIndex
    /\ failing \in SUBSET (1..n)
    /\ counter = index
    /\ pos = 1
    /\ visited = <<>>
    /\ result = "Running"

(* on_coins calls CoinsIndexVisitor::visit on the next coin: at the       *)
(* target, the real visitor is called (its error aborts the walk) and the *)
(* walk stops; before it, the coin is skipped and the walk continues.     *)
Visit ==
    /\ result = "Running"
    /\ pos <= n
    /\ \/ /\ AtCoin /\ pos \in failing
          /\ result' = "Err"
          /\ UNCHANGED <<counter, pos, visited>>
       \/ /\ AtCoin /\ pos \notin failing
          /\ visited' = Append(visited, pos)
          /\ result' = "Stop"
          /\ UNCHANGED <<counter, pos>>
       \/ /\ ~AtCoin
          /\ counter' = NextCoin
          /\ pos' = pos + 1
          /\ UNCHANGED <<visited, result>>
    /\ UNCHANGED <<n, index, failing>>

\* on_coins has visited every coin without a Stop.
Complete ==
    /\ result = "Running"
    /\ pos > n
    /\ result' = "Complete"
    /\ UNCHANGED <<n, index, failing, counter, pos, visited>>

\* visit_at_index has returned.
Returned ==
    /\ result # "Running"
    /\ UNCHANGED vars

Next == Visit \/ Complete \/ Returned

Spec == Init /\ [][Next]_vars

-----------------------------------------------------------------------------
TypeOK ==
    /\ n \in 1..MaxCoins
    /\ index \in 0..MaxIndex
    /\ counter \in 0..MaxIndex
    /\ pos \in 1..(n + 1)
    /\ visited \in Seq(1..n)
    /\ result \in {"Running", "Stop", "Complete", "Err"}

(* visit_at_index hands to the real visitor exactly the coin at the given *)
(* position and no other, walking past the coins before it: it stops      *)
(* there, or fails with the visitor's error, and it visits nothing and    *)
(* completes when the task has fewer coins than the index.                 *)
VisitsOnlyTarget ==
    result # "Running" =>
        /\ {visited[i] : i \in 1..Len(visited)} \cup
               (IF result = "Err" THEN {pos} ELSE {}) = Target
        /\ Len(visited) <= 1
        /\ (result = "Complete") <=> (Target = {})

=============================================================================
