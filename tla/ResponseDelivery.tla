--------------------------- MODULE ResponseDelivery ---------------------------
(***************************************************************************)
(* Guaranteed delivery of a remote outcome in the dex framework            *)
(* (packages/dex): one lease, a subscriber of the time-alarms service,     *)
(* goes through                                                            *)
(*                                                                         *)
(*   EntryDelay --alarm--> SwapExactIn --ICA response--> ResponseDelivery  *)
(*        --delivered--> TransferInInit                                    *)
(*                                                                         *)
(* EntryDelay (entry_delay.rs) waits one alarm before entering the swap.   *)
(* SwapExactIn (swap_exact_in.rs) has one transaction in flight on the     *)
(* remote venue; a timeout repairs the channel and the step is submitted   *)
(* again. The response is wrapped in a ResponseDelivery                    *)
(* (resp_delivery/mod.rs) whose self-call delivers it at once; if that     *)
(* fails, the reply schedules an alarm and every alarm retries; an error   *)
(* of an alarm-driven attempt escapes to the time-alarms service, which    *)
(* re-schedules the alarm (last_failed). The other subscribers of the      *)
(* service compete for the same dispatches.                                *)
(***************************************************************************)
EXTENDS Integers, Sequences

CONSTANTS
    Subscribers, UnitsPerSecond, MaxTime, MaxCount,  \* of TimeAlarms
    Lease,         \* the lease's address, one of Subscribers
    MaxTimeouts    \* bound on the timeouts of the swap transaction

ASSUME /\ Lease \in Subscribers
       /\ MaxTimeouts \in Nat

VARIABLES
    now, alarms, inDelivery, asked, owed,  \* the time-alarms service
    stage,      \* the lease's persisted dex state
    trx,        \* the swap transaction on the remote venue
    response,   \* the payload held by the ResponseDelivery
    attempts,   \* history: delivery attempts of the held response
    timeouts    \* history: timeouts of the swap transaction

TA == INSTANCE TimeAlarms

taVars == <<now, alarms, inDelivery, asked, owed>>
leaseVars == <<stage, trx, response, attempts, timeouts>>
vars == <<taVars, leaseVars>>

Stages == {"EntryDelay", "SwapExactIn", "ResponseDelivery", "TransferInInit"}

\* A response either decodes or is malformed (bad encoding, wrong currency).
Payloads == {"Good", "Malformed"}
NoResponse == "None"

\* The lease is the subscriber being called by the current dispatch.
LeaseCalled == inDelivery # <<>> /\ Head(inDelivery) = Lease

\* attempts is a history counter that saturates at AttemptsCap.
AttemptsCap == 3
Counted(n) == IF n < AttemptsCap THEN n + 1 ELSE n

-----------------------------------------------------------------------------
(* Delivery::deliver: SwapExactIn::on_response decodes the payload and     *)
(* enters TransferInInit. A malformed payload never decodes; a good one    *)
(* may still fail, transiently, while the next state is entered.           *)
Delivered(p, ok) == ok /\ p = "Good"

\* Mutant: the error reply of the self-call does not schedule a retry.
NoNextDelivery == UNCHANGED taVars

(* setup_next_delivery: an alarm RIGHT_AFTER_NOW (1ns; it falls in the     *)
(* current second of the index).                                           *)
SetupNextDelivery == TA!AddAlarm(Lease, now)

\* Mutant: an alarm-driven attempt that swallows the error.
SwallowError == TA!DeliverOk(TA!NoAlarm)

(* on_time_alarm: "we leave the error to escape since the time alarms      *)
(* delivery is reliable": the dispatch records the failure (last_failed). *)
AlarmAttemptFailed == TA!DeliverFail

-----------------------------------------------------------------------------
\* The lease has just entered EntryDelay, whose enter set up an alarm.
Init ==
    /\ now = UnitsPerSecond
    /\ alarms = [s \in Subscribers |-> IF s = Lease THEN TA!Seconds(now)
                                                  ELSE TA!NoAlarm]
    /\ inDelivery = <<>>
    /\ asked = [s \in Subscribers |-> IF s = Lease THEN now ELSE TA!NoAlarm]
    /\ owed = {Lease}
    /\ stage = "EntryDelay"
    /\ trx = "None"
    /\ response = NoResponse
    /\ attempts = 0
    /\ timeouts = 0

(* EntryDelay::on_time_alarm: the inner SwapExactIn is entered (its swap   *)
(* transaction submitted); if entering fails the error fails the alarm.    *)
EntryDelayOnTimeAlarm(ok) ==
    /\ LeaseCalled
    /\ stage = "EntryDelay"
    /\ \/ /\ ok
          /\ stage' = "SwapExactIn"
          /\ trx' = "InFlight"
          /\ TA!DeliverOk(TA!NoAlarm)
       \/ /\ ~ok
          /\ TA!DeliverFail
          /\ UNCHANGED <<stage, trx>>
    /\ UNCHANGED <<response, attempts, timeouts>>

(* The ICA response of the swap arrives (its own transaction): it is       *)
(* wrapped in a ResponseDelivery whose enter schedules the self-call; the *)
(* self-call (on_inner) delivers it and, if that fails, the state stays a  *)
(* ResponseDelivery and the error reply sets up the next delivery.         *)
OnSwapResponse(p, ok) ==
    /\ TA!Idle
    /\ stage = "SwapExactIn"
    /\ trx = "InFlight"
    /\ now <= TA!Horizon
    /\ trx' = "None"
    /\ attempts' = 1
    /\ IF Delivered(p, ok)
       THEN /\ stage' = "TransferInInit"
            /\ response' = NoResponse
            /\ UNCHANGED taVars
       ELSE /\ stage' = "ResponseDelivery"
            /\ response' = p
            /\ SetupNextDelivery
    /\ UNCHANGED timeouts

(* on_timeout: the channel is repaired (on_timeout_repair_channel) and the *)
(* state stays SwapExactIn.                                                *)
OnSwapTimeout ==
    /\ TA!Idle
    /\ stage = "SwapExactIn"
    /\ trx = "InFlight"
    /\ timeouts < MaxTimeouts
    /\ trx' = "Repairing"
    /\ timeouts' = timeouts + 1
    /\ UNCHANGED <<taVars, stage, response, attempts>>

\* The repaired channel is open and the step's transaction is submitted again.
OnChannelRepaired ==
    /\ TA!Idle
    /\ trx = "Repairing"
    /\ trx' = "InFlight"
    /\ UNCHANGED <<taVars, stage, response, attempts, timeouts>>

\* ResponseDelivery::on_time_alarm: a new attempt to deliver the response.
OnTimeAlarm(ok) ==
    /\ LeaseCalled
    /\ stage = "ResponseDelivery"
    /\ attempts' = Counted(attempts)
    /\ IF Delivered(response, ok)
       THEN /\ stage' = "TransferInInit"
            /\ response' = NoResponse
            /\ TA!DeliverOk(TA!NoAlarm)
       ELSE /\ AlarmAttemptFailed
            /\ UNCHANGED <<stage, response>>
    /\ UNCHANGED <<trx, timeouts>>

\* The other subscribers of the time-alarms service.
OtherSubscriber ==
    \/ \E s \in Subscribers \ {Lease}, t \in TA!Time :
          TA!AddAlarm(s, t) /\ t <= TA!Horizon
    \/ \E s \in Subscribers \ {Lease} : TA!RemoveAlarm(s)
    \/ /\ inDelivery # <<>> /\ Head(inDelivery) # Lease
       /\ \/ \E t \in {TA!NoAlarm} \cup TA!Time : TA!DeliverOk(t)
          \/ TA!DeliverFail

\* The time-alarms service's own steps: a dispatch, a new block.
NotifyStep == TA!Notify /\ UNCHANGED leaseVars
TickStep == TA!Tick /\ UNCHANGED leaseVars

Next ==
    \/ \E ok \in BOOLEAN : EntryDelayOnTimeAlarm(ok)
    \/ \E p \in Payloads, ok \in BOOLEAN : OnSwapResponse(p, ok)
    \/ OnSwapTimeout
    \/ OnChannelRepaired
    \/ \E ok \in BOOLEAN : OnTimeAlarm(ok)
    \/ OtherSubscriber /\ UNCHANGED leaseVars
    \/ NotifyStep
    \/ TickStep

(* The host delivers exactly one outcome, a response or a timeout, for     *)
(* every transaction in flight, and a repaired channel eventually opens.   *)
(* Blocks keep coming and the dispatcher is called. A lease's failure to   *)
(* handle a delivery of a good response is transient. Nothing is assumed   *)
(* of the other subscribers beyond the service's own fairness.             *)
Fairness ==
    /\ WF_vars(NotifyStep)
    /\ SF_vars(TickStep)
    /\ WF_vars(OnSwapTimeout \/ \E p \in Payloads, ok \in BOOLEAN :
                                    OnSwapResponse(p, ok))
    /\ WF_vars(OnChannelRepaired)
    /\ WF_vars(OtherSubscriber /\ inDelivery # <<>> /\ UNCHANGED leaseVars)
    /\ WF_vars(\E ok \in BOOLEAN : EntryDelayOnTimeAlarm(ok) \/ OnTimeAlarm(ok))
    /\ SF_vars(EntryDelayOnTimeAlarm(TRUE))
    /\ SF_vars(OnTimeAlarm(TRUE))

Spec == Init /\ [][Next]_vars /\ Fairness

-----------------------------------------------------------------------------
TypeOK ==
    /\ TA!TypeOK
    /\ stage \in Stages
    /\ trx \in {"None", "InFlight", "Repairing"}
    /\ response \in Payloads \cup {NoResponse}
    /\ attempts \in 0..AttemptsCap
    /\ timeouts \in 0..MaxTimeouts

(* The lease has exactly one wake-up scheduled, an alarm in the index or a *)
(* call in the current dispatch, while it is in a state that waits for     *)
(* one (EntryDelay, ResponseDelivery), and none in any other state: a      *)
(* failed attempt is neither dropped nor doubled, across the self-call's   *)
(* reply, the alarm's error and the service's last_failed.                 *)
OneWakeUpScheduled ==
    LET scheduled == alarms[Lease] # TA!NoAlarm \/ TA!InDelivery(Lease)
    IN  scheduled <=> stage \in {"EntryDelay", "ResponseDelivery"}

(* A response that decodes is eventually delivered to the swap handler,    *)
(* however many attempts fail and however the dispatches are shared.       *)
GuaranteedDelivery ==
    response = "Good" ~> stage = "TransferInInit"

(* The time-alarms service's own safety, with the lease among its          *)
(* subscribers (TimeAlarms states them for any subscribers):               *)
(* no alarm is lost: a subscriber owed an alarm has it in the index or in  *)
(* the delivery queue, across the lease's failed attempts (last_failed);   *)
NoLostAlarm == TA!NoLostAlarm

(* the store, driven by the lease's and the other subscribers' handlers, *)
(* implements AlarmService: nobody is woken before the time it asked for   *)
(* (the lease's RIGHT_AFTER_NOW alarm and the one-second-back re-scheduling *)
(* included), nor for an alarm it removed or already handled;              *)
ImplementsAlarmService == TA!ImplementsAlarmService

(* and when try_any_alarm answers that none remains, no subscriber owed an *)
(* alarm asked for a second already past.                                  *)
NoneRemainingMeansNoneOverdue == TA!NoneRemainingMeansNoneOverdue

(* Every alarm in the index eventually leaves it, taken out for delivery   *)
(* (or removed by its subscriber): the dispatches, max_count at a time in  *)
(* index order, starve no subscriber, the lease's attempts failing and     *)
(* putting its alarm back one second in the past included. Block time is   *)
(* bounded in the model, and in its last second a subscriber that fails   *)
(* for good keeps winning the tie on the alarm's second; a lease retrying  *)
(* a malformed response for good is such a subscriber, so the property is *)
(* stated for behaviours without one (DecodeErrorNotRetried is about it).  *)
AlarmEventuallyDispatched ==
    [](response # "Malformed") =>
        \A s \in Subscribers : alarms[s] # TA!NoAlarm ~> alarms[s] = TA!NoAlarm

(* The spec (error handling, decode errors): a malformed reply is fatal to *)
(* the sub-operation and is not retried; a delivery failure gets one       *)
(* alarm-driven re-delivery (4.6). A malformed response is attempted at    *)
(* most twice: the self-call and that one re-delivery.                     *)
DecodeErrorNotRetried ==
    response = "Malformed" => attempts <= 2

=============================================================================
