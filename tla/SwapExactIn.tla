----------------------------- MODULE SwapExactIn -----------------------------
(***************************************************************************)
(* SwapExactIn (packages/dex/src/swap_exact_in.rs): the swap of a task's  *)
(* coins into its output currency on the remote venue, in one transaction *)
(* of the interchain account.                                              *)
(*                                                                         *)
(* Entering visits the task's coins in order and builds one swap message  *)
(* per coin (enter_state); the venue executes the transaction and its     *)
(* response carries one result per message. on_response decodes it by    *)
(* visiting the coins again, taking the next result for each and adding  *)
(* up the amounts out (decode_response). The out_local variant then       *)
(* enters TransferInInit with that amount; the out_remote variant         *)
(* finishes the task. A timeout repairs the channel and the transaction   *)
(* is submitted again. An error of a handler fails the invocation: the    *)
(* state is left as it was and the error is returned to the caller.       *)
(***************************************************************************)
EXTENDS Integers, Sequences, SequencesExt

CONSTANTS
    MaxCoins,     \* the most coins of a task
    Outputs,      \* the amounts a single swap can yield
    MaxTimeouts   \* bound on the timeouts of the swap transaction

ASSUME /\ MaxCoins \in Nat \ {0}
       /\ Outputs \subseteq Nat
       /\ MaxTimeouts \in Nat

VARIABLES
    variant,     \* the state enum: OutLocal or OutRemote
    n,           \* the number of the task's coins
    stage,       \* Ready (entering), Swap, TransferIn, Finished
    batch,       \* the swap messages of the transaction: the coins' indexes
    trx,         \* the transaction: None, InFlight, Repairing, Answered
    reply,       \* the response: whether it decodes, and its message results
    produced,    \* history: what the venue's swaps yielded, per message
    amountOut,   \* the amount handed to TransferInInit or to finish
    outcome,     \* what the last invocation returned: None, Ok, Err
    timeouts     \* history: timeouts of the transaction

vars == <<variant, n, stage, batch, trx, reply, produced, amountOut, outcome,
          timeouts>>

Variants == {"OutLocal", "OutRemote"}
Malformed == [decodes |-> FALSE, results |-> <<>>]
NoReply == Malformed

\* A result of a message of the transaction: a swap's amount out.
SwapResult(o) == [kind |-> "Swap", out |-> o]

-----------------------------------------------------------------------------
(* enter_state: SwapWorker visits every coin and adds a swap of it to the *)
(* transaction; a coin that cannot be swapped (swap_exact_in fails) fails *)
(* the whole visit. The visit never stops early (debug_assert Complete).  *)
\* Mutant: the visit runs one coin past the end of the task.
RECURSIVE SwapsPastEnd(_, _)
SwapsPastEnd(i, failing) ==
    IF i > n + 1 THEN [ok |-> TRUE, msgs |-> <<>>]
    ELSE LET rest == SwapsPastEnd(i + 1, failing)
         IN  [ok |-> rest.ok, msgs |-> <<i>> \o rest.msgs]

\* Mutant: the worker returns Stop after the first coin.
SwapsStopFirst(i, failing) ==
    IF i \in failing THEN [ok |-> FALSE, msgs |-> <<>>]
    ELSE [ok |-> TRUE, msgs |-> <<i>>]

RECURSIVE SwapsFrom(_, _)
SwapsFrom(i, failing) ==
    IF i > n THEN [ok |-> TRUE, msgs |-> <<>>]
    ELSE IF i \in failing THEN [ok |-> FALSE, msgs |-> <<>>]
    ELSE LET rest == SwapsFrom(i + 1, failing)
         IN  [ok |-> rest.ok, msgs |-> <<i>> \o rest.msgs]

\* Mutant: each coin's result read from the response's first message.
TakeResultFirst(results, i) == results[1]

\* swap_trx::exact_amount_in_resp: the next message result of the iterator.
TakeResult(results, i) == results[i]

(* decode_response: decode_msg_responses fails on a malformed response;   *)
(* then ExactInResponse visits the coins, each taking the next result,    *)
(* which must be there and be a swap's, and adds up the amounts out.      *)
(* Results beyond the task's coins are not looked at.                      *)
RECURSIVE DecodeFrom(_, _)
DecodeFrom(results, i) ==
    IF i > n THEN [ok |-> TRUE, sum |-> 0]
    ELSE IF i > Len(results) \/ TakeResult(results, i).kind # "Swap"
    THEN [ok |-> FALSE, sum |-> 0]
    ELSE LET rest == DecodeFrom(results, i + 1)
         IN  [ok |-> rest.ok, sum |-> TakeResult(results, i).out + rest.sum]

Decode(resp) ==
    IF resp.decodes THEN DecodeFrom(resp.results, 1) ELSE [ok |-> FALSE, sum |-> 0]

-----------------------------------------------------------------------------
\* SwapExactIn::new(spec) of a task of one to MaxCoins coins.
Init ==
    /\ variant \in Variants
    /\ n \in 1..MaxCoins
    /\ stage = "Ready"
    /\ batch = <<>>
    /\ trx = "None"
    /\ reply = NoReply
    /\ produced = <<>>
    /\ amountOut = 0
    /\ outcome = "None"
    /\ timeouts = 0

(* enter (Enterable): the transaction of the swaps is submitted, or the   *)
(* visit fails and the invocation with it.                                *)
Enter(failing) ==
    /\ stage = "Ready"
    /\ LET r == SwapsFrom(1, failing) IN
       \/ /\ r.ok
          /\ stage' = "Swap" /\ batch' = r.msgs /\ trx' = "InFlight"
          /\ outcome' = "Ok"
       \/ /\ ~r.ok
          /\ outcome' = "Err"
          /\ UNCHANGED <<stage, batch, trx>>
    /\ UNCHANGED <<variant, n, reply, produced, amountOut, timeouts>>

(* The venue executes the transaction: each swap yields an amount and the *)
(* response carries their results in message order, possibly followed by  *)
(* a result of no message of the batch; or the response comes back in a   *)
(* form that does not decode.                                              *)
RemoteExecute ==
    /\ trx = "InFlight"
    /\ trx' = "Answered"
    /\ \/ \E o \in [1..Len(batch) -> Outputs], extra \in {<<>>} \cup
                   {<<SwapResult(x)>> : x \in Outputs} :
             /\ produced' = o
             /\ reply' = [decodes |-> TRUE,
                           results |-> [m \in 1..Len(batch) |-> SwapResult(o[m])]
                                       \o extra]
       \/ /\ reply' = Malformed
          /\ UNCHANGED produced
    /\ UNCHANGED <<variant, n, stage, batch, amountOut, outcome, timeouts>>

(* on_response: out_local enters TransferInInit with the amount out (its  *)
(* enter may fail); out_remote finishes the task. A decoding error, or a  *)
(* failed enter, is returned and the state stays SwapExactIn.              *)
OnResponse(enterOk) ==
    /\ stage = "Swap"
    /\ trx = "Answered"
    /\ LET d == Decode(reply)
           next == IF variant = "OutLocal" THEN "TransferIn" ELSE "Finished"
       IN  \/ /\ d.ok
              /\ variant = "OutLocal" => enterOk
              /\ stage' = next /\ amountOut' = d.sum /\ trx' = "None"
              /\ outcome' = "Ok"
           \/ /\ ~d.ok \/ (variant = "OutLocal" /\ ~enterOk)
              /\ outcome' = "Err"
              /\ UNCHANGED <<stage, amountOut, trx>>
    /\ UNCHANGED <<variant, n, batch, reply, produced, timeouts>>

(* on_timeout: on_timeout_repair_channel; the state stays SwapExactIn.    *)
OnTimeout ==
    /\ stage = "Swap"
    /\ trx = "InFlight"
    /\ timeouts < MaxTimeouts
    /\ trx' = "Repairing"
    /\ timeouts' = timeouts + 1
    /\ outcome' = "Ok"
    /\ UNCHANGED <<variant, n, stage, batch, reply, produced, amountOut>>

\* The channel is repaired and the transaction submitted again.
ChannelRepaired ==
    /\ trx = "Repairing"
    /\ trx' = "InFlight"
    /\ UNCHANGED <<variant, n, stage, batch, reply, produced, amountOut,
                   outcome, timeouts>>

\* The swap is over: the lease has moved on to the next state.
Done ==
    /\ stage \in {"TransferIn", "Finished"}
    /\ UNCHANGED vars

Next ==
    \/ \E failing \in SUBSET (1..n) : Enter(failing)
    \/ RemoteExecute
    \/ \E enterOk \in BOOLEAN : OnResponse(enterOk)
    \/ OnTimeout
    \/ ChannelRepaired
    \/ Done

Spec == Init /\ [][Next]_vars

-----------------------------------------------------------------------------
TypeOK ==
    /\ variant \in Variants
    /\ n \in 1..MaxCoins
    /\ stage \in {"Ready", "Swap", "TransferIn", "Finished"}
    /\ batch \in Seq(1..n)
    /\ trx \in {"None", "InFlight", "Repairing", "Answered"}
    /\ produced \in Seq(Outputs)
    /\ amountOut \in Nat
    /\ outcome \in {"None", "Ok", "Err"}
    /\ timeouts \in 0..MaxTimeouts

(* The transaction in flight swaps every coin of the task exactly once,   *)
(* in the task's order, whatever coin failed an earlier attempt to enter. *)
OneSwapPerCoin ==
    stage # "Ready" => batch = [i \in 1..n |-> i]

(* What SwapExactIn hands on, to TransferInInit or to the task's finish,  *)
(* is exactly the total the venue's swaps yielded: the decoding pairs     *)
(* each coin with its own result and misses or repeats none.              *)
AmountOutIsSwapped ==
    stage \in {"TransferIn", "Finished"} =>
        amountOut = FoldSeq(LAMBDA x, acc : x + acc, 0, produced)

(* A response with more results than the task has coins is rejected, as  *)
(* the spec requires of decode_response ("must fail rather than silently  *)
(* truncate"): no swap is handed on from such a response.                  *)
ExtraResultsRejected ==
    stage \in {"TransferIn", "Finished"} => Len(reply.results) = n

=============================================================================
