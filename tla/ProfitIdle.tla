----------------------------- MODULE ProfitIdle -----------------------------
(***************************************************************************)
(* The Idle state of the profit contract                                   *)
(* (contracts/profit/src/state/idle.rs): profit collected by the contract *)
(* waits for the contract's cadence alarm. On the alarm, the contract's   *)
(* balances are split into native coins and other payment coins           *)
(* (CoinToDTO, SplitCoins). With no other coins, Idle is entered again    *)
(* (its enter sets up the next alarm, cadence hours later) and the Nls     *)
(* balance, if any, is sent to the treasury. With other coins, the        *)
(* contract starts the buy-back of them (BuyBack, not under src/, where   *)
(* this model ends). An error fails the alarm's delivery, and the         *)
(* time-alarms service puts the alarm back (last_failed).                  *)
(*                                                                         *)
(* The contract's alarm at the time-alarms service is a boolean here;     *)
(* ProfitAlarms composes these actions with TimeAlarms and shows that it   *)
(* implements this module with `alarm` the service's own state.            *)
(***************************************************************************)
EXTENDS Integers

CONSTANTS
    Cadences,     \* the cadence_hours a configuration may hold
    MaxAmount,    \* the largest balance of a coin
    MaxReceipts   \* bound on the profit received in a behaviour

ASSUME /\ Cadences \subseteq Nat \ {0}
       /\ MaxAmount \in Nat \ {0} /\ MaxReceipts \in Nat

VARIABLES
    state,      \* Idle or BuyBack
    alarm,      \* the contract has an alarm pending at the time-alarms service
    cadence,    \* config.cadence_hours
    nls,        \* the contract's Nls balance
    others,     \* the contract's balance of payment coins that are not native
    treasury,   \* Nls sent to the treasury
    receipts    \* history: profit received

vars == <<state, alarm, cadence, nls, others, treasury, receipts>>

-----------------------------------------------------------------------------
(* Mutant: the native coins searched for a coin that is not Nls.           *)
NlsFoundNone(native) == 0

(* send_nls: the first of the native coins that converts to Nls           *)
(* (find_map(try_into)); the contract's native balance is its Nls.        *)
NlsFound(native) == native

\* Profit::transfer_nls of what was found to the treasury.
SendNls ==
    treasury' = treasury + NlsFound(nls) /\ nls' = nls - NlsFound(nls)

\* CoinToDTO::on puts every payment coin outside the native group into
\* SplitCoins::second; Idle sends the Nls only when none was.
NoOtherCoins == others = 0

(* An error of the alarm's handler escapes: its writes are rolled back    *)
(* and the time-alarms service saves the alarm again (last_failed).       *)
EnterFailed == alarm' = TRUE

-----------------------------------------------------------------------------
\* Idle::new, entered: its alarm is set up.
Init ==
    /\ state = "Idle"
    /\ alarm = TRUE
    /\ cadence \in Cadences
    /\ nls = 0 /\ others = 0 /\ treasury = 0
    /\ receipts = 0

(* Profit arrives on the contract's account: Nls, or another payment coin *)
(* (the lease's interest and fees).                                        *)
Receive ==
    /\ receipts < MaxReceipts
    /\ \/ nls < MaxAmount /\ nls' = nls + 1 /\ UNCHANGED others
       \/ others < MaxAmount /\ others' = others + 1 /\ UNCHANGED nls
    /\ receipts' = receipts + 1
    /\ UNCHANGED <<state, alarm, cadence, treasury>>

\* try_update_config: the cadence of the alarms set up from now on.
UpdateConfig(c) ==
    /\ state = "Idle"
    /\ cadence' = c
    /\ UNCHANGED <<state, alarm, nls, others, treasury, receipts>>

(* Idle::on_time_alarm, with the alarm taken out for delivery. enterOk:   *)
(* whether the enter of the next state (Idle's setup_alarm, or the       *)
(* buy-back's start) succeeds.                                             *)
OnTimeAlarm(enterOk) ==
    /\ state = "Idle"
    /\ alarm
    /\ \/ /\ NoOtherCoins /\ enterOk
          /\ alarm' = TRUE
          /\ SendNls
          /\ UNCHANGED <<state, others>>
       \/ /\ ~NoOtherCoins /\ enterOk
          /\ state' = "BuyBack"
          /\ alarm' = FALSE
          /\ UNCHANGED <<nls, others, treasury>>
       \/ /\ ~enterOk
          /\ EnterFailed
          /\ UNCHANGED <<state, nls, others, treasury>>
    /\ UNCHANGED <<cadence, receipts>>

\* The buy-back has started; what follows is not modelled.
InBuyBack ==
    /\ state = "BuyBack"
    /\ UNCHANGED vars

Next ==
    \/ Receive
    \/ \E c \in Cadences : UpdateConfig(c)
    \/ \E ok \in BOOLEAN : OnTimeAlarm(ok)
    \/ InBuyBack

Spec == Init /\ [][Next]_vars

-----------------------------------------------------------------------------
TypeOK ==
    /\ state \in {"Idle", "BuyBack"}
    /\ alarm \in BOOLEAN
    /\ cadence \in Cadences
    /\ {nls, others} \subseteq 0..MaxAmount
    /\ treasury \in 0..MaxReceipts
    /\ receipts \in 0..MaxReceipts

=============================================================================
