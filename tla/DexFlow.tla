------------------------------- MODULE DexFlow -------------------------------
(***************************************************************************)
(* A swap through the lease's interchain account, composed with the        *)
(* account itself and the transfer that brings the swap's output back     *)
(* (packages/dex/src/swap_exact_in.rs with packages/platform: ica.rs,     *)
(* bank_ibc/remote.rs).                                                    *)
(*                                                                         *)
(* The lease's account on the dex is opened first (register_account, the *)
(* open ack); the swap's transaction is submitted through it. When the    *)
(* response of an out_local swap decodes, on_response builds the next     *)
(* state, TransferInInit, with the amount out and enters it in the same   *)
(* handler: the transfer of the output back to the lease is submitted     *)
(* through the same account (Sender::send). If that enter fails, the      *)
(* whole on_response fails and the state stays SwapExactIn. TransferInInit *)
(* is not under src/: its enter sends the one coin of the swap's output,   *)
(* as the lease's own TransferInInit sends its amount.                    *)
(***************************************************************************)
EXTENDS Integers, Sequences

CONSTANTS
    MaxCoins, Outputs, MaxTimeouts,         \* of SwapExactIn
    Coins, OnDex, Addrs, Lease, MaxTrx      \* of RemoteTransfer

VARIABLES
    variant, n, stage, batch, trx, reply, produced, amountOut, timeouts,
    outcome,                     \* the last handler's result, shared
    account, task, submitted     \* the account and its transfers; task: the
                                 \* swap's output currency

swVars == <<variant, n, stage, batch, trx, reply, produced, amountOut, timeouts>>
rtVars == <<account, task, submitted>>
vars == <<swVars, rtVars, outcome>>

SW == INSTANCE SwapExactIn
RT == INSTANCE RemoteTransfer WITH MaxCoins <- 1

-----------------------------------------------------------------------------
(* A lease with no account yet and a swap task not entered; the output   *)
(* currency is any coin, one with no denomination on the dex included.   *)
Init == SW!Init /\ RT!Init

\* The account's registration and its open ack, while the swap waits.
OpenAccount ==
    /\ \/ RT!Register
       \/ \E resp \in Addrs \cup {RT!NoAddr, RT!Malformed} : RT!OpenAck(resp)
    /\ UNCHANGED swVars

(* enter of SwapExactIn: its transaction is submitted through the account *)
(* (dex_account), which exists only once the host opened it.              *)
Enter(failing) ==
    /\ account \notin {RT!NoAccount, RT!Pending}
    /\ SW!Enter(failing)
    /\ UNCHANGED rtVars

\* Mutant: the result of TransferInInit's enter ignored.
OnResponseIgnoringEnter ==
    /\ variant = "OutLocal"
    /\ SW!Decode(reply).ok
    /\ SW!OnResponse(TRUE)
    /\ UNCHANGED rtVars

(* on_response of out_local with a decoding response: TransferInInit is  *)
(* entered, the transfer of the output submitted through the account, and *)
(* the swap moves on only if that succeeded (and_then).                   *)
OnResponseLocal ==
    /\ variant = "OutLocal"
    /\ SW!Decode(reply).ok
    /\ RT!TransferIn
    /\ SW!OnResponse(RT!TransferMsgs(account, task).ok)

(* on_response otherwise: out_remote finishes, and a response that does   *)
(* not decode fails the handler; nothing is sent through the account.     *)
OnResponseOther ==
    /\ ~(variant = "OutLocal" /\ SW!Decode(reply).ok)
    /\ SW!OnResponse(TRUE)
    /\ UNCHANGED rtVars

\* The venue's execution, a timeout and the channel's repair.
Remote ==
    /\ SW!RemoteExecute \/ SW!OnTimeout \/ SW!ChannelRepaired
    /\ UNCHANGED rtVars

\* The swap is over: the lease has moved on.
Done ==
    /\ stage \in {"TransferIn", "Finished"}
    /\ UNCHANGED vars

Next ==
    \/ OpenAccount
    \/ \E failing \in SUBSET (1..n) : Enter(failing)
    \/ Remote
    \/ OnResponseLocal
    \/ OnResponseOther
    \/ Done

Spec == Init /\ [][Next]_vars

-----------------------------------------------------------------------------
TypeOK == SW!TypeOK /\ RT!TypeOK

OneSwapPerCoin == SW!OneSwapPerCoin
AmountOutIsSwapped == SW!AmountOutIsSwapped
SubmittedFromHostAccount == RT!SubmittedFromHostAccount

(* The swap hands its output on to TransferInInit exactly when the        *)
(* transfer back to the lease was submitted: on_response's two steps, the *)
(* swap's decoding and the next state's enter, take effect together or    *)
(* not at all, so no lease waits in TransferInInit for a transfer never   *)
(* sent, and none is sent for a swap still waiting for its response.      *)
TransferInWithTransfer ==
    (stage = "TransferIn") <=> (Len(submitted) = 1)

=============================================================================
