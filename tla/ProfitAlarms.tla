---------------------------- MODULE ProfitAlarms ----------------------------
(***************************************************************************)
(* The profit contract's Idle state (contracts/profit/src/state/idle.rs)  *)
(* as a subscriber of the time-alarms service (TimeAlarms), beside another *)
(* subscriber that competes for the same dispatches.                       *)
(*                                                                         *)
(* ProfitIdle states the Idle state over a boolean `alarm`, the service's *)
(* guarantees taken for granted. Here that boolean is the service's own    *)
(* state: the profit contract has a wake-up while its alarm is in the      *)
(* index or its call is in the dispatch in progress. Idle's enter sets the *)
(* next alarm cadence hours after the block time; a failed on_time_alarm   *)
(* is rolled back and the service puts the alarm back (last_failed); the  *)
(* start of the buy-back asks for no alarm.                                *)
(*                                                                         *)
(* Block time stops at LastBlock, early enough that every alarm the        *)
(* profit contract asks for lies within the service's horizon.            *)
(***************************************************************************)
EXTENDS Integers, Sequences

CONSTANTS
    Subscribers, UnitsPerSecond, MaxTime, MaxCount,  \* of TimeAlarms
    Cadences, MaxAmount, MaxReceipts,                 \* of ProfitIdle
    Profit,        \* the profit contract's address, one of Subscribers
    UnitsPerHour,  \* the Units of block time in an hour of cadence
    LastBlock      \* the last block time, in Units, the model reaches

VARIABLES
    now, alarms, inDelivery, asked, owed,                   \* the service
    state, cadence, nls, others, treasury, receipts         \* the profit contract

taVars == <<now, alarms, inDelivery, asked, owed>>
profitVars == <<state, cadence, nls, others, treasury, receipts>>
vars == <<taVars, profitVars>>

TA == INSTANCE TimeAlarms

(* Duration::from_hours(cadence_hours) in Units of block time. *)
CadenceUnits(c) == c * UnitsPerHour

ASSUME /\ Profit \in Subscribers
       /\ Cadences \subseteq Nat \ {0} /\ UnitsPerHour \in Nat \ {0}
       /\ LastBlock \in UnitsPerSecond..MaxTime
       /\ \A c \in Cadences : LastBlock + CadenceUnits(c) <= TA!Horizon

\* The profit contract has a wake-up: its alarm in the index, or its
\* TimeAlarm message in the dispatch in progress.
Scheduled == alarms[Profit] # TA!NoAlarm \/ TA!InDelivery(Profit)

PI == INSTANCE ProfitIdle WITH alarm <- Scheduled

ProfitCalled == inDelivery # <<>> /\ Head(inDelivery) = Profit

-----------------------------------------------------------------------------
(* Idle's Enterable::enter: setup_alarm(now + from_hours(cadence_hours)), *)
(* with the cadence of the configuration the contract holds.              *)
NextAlarm == now + CadenceUnits(cadence)

\* Mutant: a failed on_time_alarm whose error does not reach the service.
AlarmFailedSwallowed == TA!DeliverOk(TA!NoAlarm)

(* The error of on_time_alarm escapes the handler; the service's reply    *)
(* puts the alarm back (last_failed).                                      *)
AlarmFailed == TA!DeliverFail

(* Idle::new, entered at instantiation: the contract's first alarm is set  *)
(* up cadence hours after the block time.                                  *)
Init ==
    /\ cadence \in Cadences
    /\ now = UnitsPerSecond
    /\ inDelivery = <<>>
    /\ asked = [s \in Subscribers |-> IF s = Profit THEN NextAlarm ELSE TA!NoAlarm]
    /\ alarms = [s \in Subscribers |-> IF s = Profit THEN TA!Seconds(asked[s])
                                                   ELSE TA!NoAlarm]
    /\ owed = {Profit}
    /\ PI!Init

\* Profit arrives on the contract's account, a transaction of its own.
Receive ==
    /\ TA!Idle
    /\ UNCHANGED taVars
    /\ PI!Receive

\* try_update_config: the cadence changes; the pending alarm stays.
UpdateConfig(c) ==
    /\ TA!Idle
    /\ UNCHANGED taVars
    /\ PI!UpdateConfig(c)

(* Handler for Idle: the TimeAlarm message at the head of the dispatch is  *)
(* handled by Idle::on_time_alarm (enterOk: whether the enter of the next  *)
(* state succeeds). With no other coins, Idle's enter sets up the next     *)
(* alarm and the Nls goes to the treasury; with other coins the buy-back   *)
(* starts and asks for no alarm; on an error nothing the handler wrote     *)
(* survives and the service puts the alarm back.                           *)
OnTimeAlarm(enterOk) ==
    /\ ProfitCalled
    /\ state = "Idle"
    /\ \/ /\ PI!NoOtherCoins /\ enterOk
          /\ TA!DeliverOk(NextAlarm)
          /\ PI!SendNls
          /\ UNCHANGED <<state, others>>
       \/ /\ ~PI!NoOtherCoins /\ enterOk
          /\ TA!DeliverOk(TA!NoAlarm)
          /\ state' = "BuyBack"
          /\ UNCHANGED <<nls, others, treasury>>
       \/ /\ ~enterOk
          /\ AlarmFailed
          /\ UNCHANGED <<state, nls, others, treasury>>
    /\ UNCHANGED <<cadence, receipts>>

\* The buy-back has started; what follows is not modelled.
InBuyBack ==
    /\ UNCHANGED taVars
    /\ PI!InBuyBack

\* The other subscriber: sets, removes, handles or fails its own alarms.
OtherSubscriber ==
    \/ \E s \in Subscribers \ {Profit}, t \in TA!Time :
          TA!AddAlarm(s, t) /\ t <= TA!Horizon
    \/ \E s \in Subscribers \ {Profit} : TA!RemoveAlarm(s)
    \/ /\ inDelivery # <<>> /\ Head(inDelivery) # Profit
       /\ \/ \E t \in {TA!NoAlarm} \cup TA!Time : TA!DeliverOk(t)
          \/ TA!DeliverFail

NotifyStep == TA!Notify /\ UNCHANGED profitVars

TickStep == TA!Tick /\ now < LastBlock /\ UNCHANGED profitVars

Next ==
    \/ Receive
    \/ \E c \in Cadences : UpdateConfig(c)
    \/ \E ok \in BOOLEAN : OnTimeAlarm(ok)
    \/ InBuyBack
    \/ OtherSubscriber /\ UNCHANGED profitVars
    \/ NotifyStep
    \/ TickStep

(* Blocks keep coming and the dispatcher is called; a subscriber in the    *)
(* dispatch is called; the profit contract's failures (setup_alarm,        *)
(* balance query, buy-back enter) are transient.                           *)
Fairness ==
    /\ WF_vars(NotifyStep)
    /\ SF_vars(TickStep)
    /\ WF_vars(\E ok \in BOOLEAN : OnTimeAlarm(ok))
    /\ SF_vars(OnTimeAlarm(TRUE))
    /\ WF_vars(OtherSubscriber /\ inDelivery # <<>> /\ UNCHANGED profitVars)

Spec == Init /\ [][Next]_vars /\ Fairness

-----------------------------------------------------------------------------
TypeOK == TA!TypeOK /\ PI!TypeOK

(* The profit contract holds exactly one wake-up, in the index or in the   *)
(* dispatch, while it is Idle, and none once the buy-back has started: a   *)
(* failed setup_alarm or buy-back enter, a batch shared with the other     *)
(* subscriber, a config update or profit arriving neither loses nor        *)
(* doubles it.                                                             *)
ProfitWakeUpScheduled ==
    /\ Scheduled <=> state = "Idle"
    /\ ~(alarms[Profit] # TA!NoAlarm /\ TA!InDelivery(Profit))

(* The profit contract's alarm falls within the modelled block time: it    *)
(* is in the dispatch, or in the index at a second before the last block's *)
(* second.                                                                 *)
AlarmWithinModel ==
    \/ TA!InDelivery(Profit)
    \/ alarms[Profit] # TA!NoAlarm /\ alarms[Profit] < TA!Seconds(LastBlock)

(* Nls collected while Idle is eventually sent to the treasury, unless the *)
(* contract moves on to buy back other coins: the alarm becomes due, the   *)
(* service dispatches it among the other subscriber's, and failures put it *)
(* back until a handler succeeds. Stated while the alarm falls within the *)
(* modelled block time.                                                    *)
NlsForwarded ==
    nls > 0 /\ state = "Idle" /\ AlarmWithinModel ~> nls = 0 \/ state = "BuyBack"

=============================================================================
