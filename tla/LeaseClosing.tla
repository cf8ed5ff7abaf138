---------------------------- MODULE LeaseClosing ----------------------------
(***************************************************************************)
(* The closing of a paid lease (contracts/lease/src/contract/state):       *)
(*                                                                         *)
(*   Active --Close--> TransferInInit --response--> TransferInFinish       *)
(*        --collateral received--> Closed                                  *)
(*                                                                         *)
(* Active (paid/mod.rs) accepts Close and enters TransferInInit, whose     *)
(* enter sends one ICA transaction transferring the collateral from the    *)
(* lease's remote account back to the lease. A timeout repairs the         *)
(* channel and the transaction is submitted again. The remote execution    *)
(* starts an ICS-20 transfer whose funds reach the lease independently of  *)
(* the ICA response: before or after it. On the response, TransferInFinish *)
(* checks the lease's balance: once the collateral is there the lease is   *)
(* Closed (Closed::enter_state pays it out to the customer), otherwise it  *)
(* polls again at its next time alarm. Time alarms for states that do not *)
(* wait for one are ignored; one may be pending from an earlier state.     *)
(*                                                                         *)
(* The time-alarms service is represented by its guarantees, checked on   *)
(* TimeAlarms within ResponseDelivery: one pending alarm per subscriber,   *)
(* never lost, eventually dispatched, a failed delivery retried.           *)
(***************************************************************************)
EXTENDS Integers

CONSTANTS
    Amount,        \* the lease's collateral
    MaxTimeouts    \* bound on the timeouts of the transfer transaction

ASSUME Amount \in Nat \ {0} /\ MaxTimeouts \in Nat

VARIABLES
    state,      \* the lease's persisted state
    alarm,      \* the lease has an alarm pending at the time-alarms service
    ica,        \* the transfer-in transaction: None, Sent, Executed, Repairing
    remote,     \* collateral on the lease's remote (dex) account
    inTransit,  \* collateral in an ICS-20 transfer to the lease
    local,      \* collateral on the lease's own account
    customer,   \* collateral paid out to the customer
    timeouts,   \* history: timeouts of the transfer transaction
    reply,      \* the answer to the last message executed: Ok, Ignored or Err
    sendable    \* the collateral's currency has a dex denomination (held)

vars == <<state, alarm, ica, remote, inTransit, local, customer, timeouts,
          reply, sendable>>
funds == <<remote, inTransit, local, customer>>

States == {"Active", "TransferInInit", "TransferInFinish", "Closed"}

\* The commands of ExecuteMsg other than TimeAlarm.
Commands == {"Repay", "Close", "PriceAlarm"}

-----------------------------------------------------------------------------
\* Mutant: Close accepted again while the transfer is in progress.
AcceptsCloseAlsoTransferIn == {"Active", "TransferInInit"}

\* Mutant: Close accepted by a closed lease.
AcceptsCloseAlsoClosed == {"Active", "Closed"}

(* The states whose execute accepts Close: Active; TransferInInit and      *)
(* Closed answer it with an error (controller::err, handler::err).         *)
AcceptsClose == {"Active"}

\* The states whose execute ignores a TimeAlarm (state::ignore_msg).
IgnoresTimeAlarm == {"Active", "TransferInInit", "Closed"}

\* TransferInInit::enter_state: the transfer of the collateral is sent.
EnterTransferIn == ica' = "Sent"

(* Closed::enter_state: the Close command pays the lease's balance out to  *)
(* the customer.                                                           *)
EnterClosed ==
    /\ state' = "Closed"
    /\ customer' = customer + local
    /\ local' = 0

(* TransferInFinish::try_complete, with the alarm pending or not before    *)
(* it: Closed once the collateral is on the lease's account, otherwise     *)
(* TransferInFinish with an alarm set up to poll again.                    *)
TryComplete(pending) ==
    \/ /\ local >= Amount
       /\ EnterClosed
       /\ alarm' = pending
    \/ /\ local < Amount
       /\ state' = "TransferInFinish"
       /\ alarm' = TRUE
       /\ UNCHANGED <<local, customer>>

-----------------------------------------------------------------------------
Init ==
    /\ state = "Active"
    /\ alarm \in BOOLEAN
    /\ ica = "None"
    /\ remote = Amount
    /\ inTransit = 0 /\ local = 0 /\ customer = 0
    /\ timeouts = 0
    /\ reply = "None"
    /\ sendable \in BOOLEAN

(* execute(msg) of the current state: Active accepts Close and enters      *)
(* TransferInInit; Repay, a Close the state does not accept and a Close    *)
(* whose enter_state fails at sender.send (the collateral's currency has  *)
(* no dex denomination) are errors (the transaction fails, nothing        *)
(* changes); a PriceAlarm is ignored.                                      *)
Execute(cmd) ==
    \/ /\ cmd = "Close" /\ state \in AcceptsClose /\ sendable
       /\ state' = "TransferInInit"
       /\ EnterTransferIn
       /\ reply' = "Ok"
       /\ UNCHANGED <<alarm, funds, timeouts, sendable>>
    \/ /\ \/ cmd = "Repay"
          \/ cmd = "Close" /\ state \notin AcceptsClose
          \/ cmd = "Close" /\ ~sendable
       /\ reply' = "Err"
       /\ UNCHANGED <<state, alarm, ica, funds, timeouts, sendable>>
    \/ /\ cmd = "PriceAlarm"
       /\ reply' = "Ignored"
       /\ UNCHANGED <<state, alarm, ica, funds, timeouts, sendable>>

(* The remote host executes the transaction: the collateral leaves the     *)
(* remote account in an ICS-20 transfer; the response is yet to come.      *)
RemoteExecute ==
    /\ ica = "Sent"
    /\ ica' = "Executed"
    /\ remote' = remote - Amount
    /\ inTransit' = inTransit + Amount
    /\ UNCHANGED <<state, alarm, local, customer, timeouts, reply, sendable>>

\* The ICS-20 transfer is received on the lease's account.
TransferArrives ==
    /\ inTransit > 0
    /\ local' = local + inTransit
    /\ inTransit' = 0
    /\ UNCHANGED <<state, alarm, ica, remote, customer, timeouts, reply, sendable>>

(* TransferInInit::on_timeout: the transaction was not executed; the       *)
(* channel is repaired (on_timeout_repair_channel).                        *)
OnTimeout ==
    /\ state = "TransferInInit"
    /\ ica = "Sent"
    /\ timeouts < MaxTimeouts
    /\ ica' = "Repairing"
    /\ timeouts' = timeouts + 1
    /\ UNCHANGED <<state, alarm, funds, reply, sendable>>

\* The repaired channel is open and the transaction is submitted again.
ChannelRepaired ==
    /\ ica = "Repairing"
    /\ ica' = "Sent"
    /\ UNCHANGED <<state, alarm, funds, timeouts, reply, sendable>>

\* TransferInInit::on_response: TransferInFinish::try_complete.
OnResponse ==
    /\ state = "TransferInInit"
    /\ ica = "Executed"
    /\ ica' = "None"
    /\ TryComplete(alarm)
    /\ UNCHANGED <<remote, inTransit, timeouts, reply, sendable>>

(* The lease's alarm is delivered (and removed from the service): ignored, *)
(* or TransferInFinish polls its balance again.                            *)
OnTimeAlarm ==
    /\ alarm
    /\ \/ /\ state \in IgnoresTimeAlarm
          /\ alarm' = FALSE
          /\ reply' = "Ignored"
          /\ UNCHANGED <<state, local, customer>>
       \/ /\ state \notin IgnoresTimeAlarm
          /\ TryComplete(FALSE)
          /\ reply' = "Ok"
    /\ UNCHANGED <<ica, remote, inTransit, timeouts, sendable>>

Next ==
    \/ \E cmd \in Commands : Execute(cmd)
    \/ RemoteExecute
    \/ TransferArrives
    \/ OnTimeout
    \/ ChannelRepaired
    \/ OnResponse
    \/ OnTimeAlarm

(* The host delivers one outcome, an execution or a timeout, for every     *)
(* transaction in flight; a repaired channel opens; a response and an      *)
(* ICS-20 transfer are eventually relayed; the time-alarms service         *)
(* eventually delivers a pending alarm. The owner need never close.        *)
Fairness ==
    /\ WF_vars(RemoteExecute \/ OnTimeout)
    /\ WF_vars(ChannelRepaired)
    /\ WF_vars(OnResponse)
    /\ WF_vars(TransferArrives)
    /\ WF_vars(OnTimeAlarm)

Spec == Init /\ [][Next]_vars /\ Fairness

-----------------------------------------------------------------------------
TypeOK ==
    /\ state \in States
    /\ alarm \in BOOLEAN
    /\ ica \in {"None", "Sent", "Executed", "Repairing"}
    /\ {remote, inTransit, local, customer} \subseteq 0..Amount
    /\ timeouts \in 0..MaxTimeouts
    /\ reply \in {"None", "Ok", "Ignored", "Err"}
    /\ sendable \in BOOLEAN

(* The refinement mapping: TransferInInit and TransferInFinish are the     *)
(* spec's ClosingTransferIn; the collateral returned is what the customer  *)
(* received.                                                               *)
Phase == IF state \in {"TransferInInit", "TransferInFinish"}
         THEN "ClosingTransferIn" ELSE state

Abstract == INSTANCE LeaseAbstract WITH phase <- Phase, returned <- customer

(* The closing of a lease implements the life-cycle of the spec: Active,   *)
(* then closing, then Closed for good with the whole collateral returned   *)
(* to the customer, and a started closing eventually completes.            *)
ImplementsLifeCycle == Abstract!Spec

=============================================================================
