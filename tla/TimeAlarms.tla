----------------------------- MODULE TimeAlarms -----------------------------
(***************************************************************************)
(* The time-alarms service: the per-subscriber alarm index and delivery    *)
(* queue of packages/time-oracle/src/alarms.rs driven by the dispatch of   *)
(* contracts/timealarms/src/alarms.rs.                                     *)
(*                                                                         *)
(* A dispatch (try_notify) is one transaction of the host: the selected    *)
(* alarms are moved out of the index into the in-delivery queue, then each *)
(* subscriber is called in turn and its reply pops the queue's head: on    *)
(* success (last_delivered) the alarm is gone, on failure (last_failed)    *)
(* the subscriber's own writes are rolled back and its alarm is put back   *)
(* one second in the past. No other transaction runs while the queue is    *)
(* non-empty, and block time does not advance inside a transaction.        *)
(*                                                                         *)
(* Time is counted in Units, UnitsPerSecond of them per second, so that    *)
(* the truncation of a Timestamp to seconds (as_seconds) is modelled.      *)
(***************************************************************************)
EXTENDS Integers, Sequences, SequencesExt

CONSTANTS
    Subscribers,     \* contract addresses; their numeric order is Addr order
    UnitsPerSecond,  \* sub-second resolution of a Timestamp
    MaxTime,         \* the last block time, in Units, that the model reaches
    MaxCount         \* max_count of one dispatch

ASSUME /\ Subscribers \subseteq Nat /\ Subscribers # {}
       /\ UnitsPerSecond \in Nat \ {0}
       /\ MaxTime \in Nat /\ MaxTime >= 3 * UnitsPerSecond
       /\ MaxCount \in Nat \ {0}

VARIABLES
    now,          \* block time, in Units
    alarms,       \* the IndexedMap subscriber -> TimeSeconds (NoAlarm if absent)
    inDelivery,   \* ALARMS_IN_DELIVERY, the Deque of subscribers
    asked,        \* history: the time, in Units, a subscriber last asked for
    owed          \* history: subscribers with an alarm not yet delivered

vars == <<now, alarms, inDelivery, asked, owed>>

NoAlarm == -1

\* as_seconds: a Timestamp truncated to whole seconds
Seconds(t) == t \div UnitsPerSecond

\* Alarms are only asked for at times the model can still deliver them at.
Horizon == MaxTime - UnitsPerSecond

Time == 0..MaxTime

InDelivery(s) == \E i \in 1..Len(inDelivery) : inDelivery[i] = s

\* No other transaction interleaves with a dispatch in progress.
Idle == inDelivery = <<>>

-----------------------------------------------------------------------------
\* AlarmsMut::add_internal: the subscriber's alarm saved at a TimeSeconds,
\* replacing the one it had.
AddInternal(s, secs) == [alarms EXCEPT ![s] = secs]

\* AlarmsMut::add: add_internal at the Timestamp truncated to seconds.
Add(s, t) == AddInternal(s, Seconds(t))

\* AlarmsMut::remove: the subscriber's alarm, if any, removed from the map.
RemoveIndexed(s) == [alarms EXCEPT ![s] = NoAlarm]

\* Mutant: a selection that includes the alarms of the current second.
DueInclusive ==
    {s \in Subscribers : alarms[s] # NoAlarm /\ alarms[s] <= Seconds(now)}

(* alarms_selection: the range of the time index up to the inclusive bound *)
(* (ctime, ""). Every index key is (time, address) with a non-empty        *)
(* address, so an alarm whose second equals ctime is above the bound.      *)
Due == {s \in Subscribers : alarms[s] # NoAlarm /\ alarms[s] < Seconds(now)}

\* Ascending order of the index: by time, then by address.
Before(a, b) == \/ alarms[a] < alarms[b]
                \/ alarms[a] = alarms[b] /\ a < b

Selection == SetToSortSeq(Due, Before)

\* Mutant: an off-by-one in the number of alarms taken.
TakenOneLess == SubSeq(Selection, 1, IF Len(Selection) < MaxCount
                                     THEN Len(Selection) - 1 ELSE MaxCount - 1)

\* .take(max_count)
Taken == SubSeq(Selection, 1, IF Len(Selection) < MaxCount
                              THEN Len(Selection) ELSE MaxCount)

\* out_for_delivery of every taken alarm: removed from the index
OutForDelivery(taken) ==
    [s \in Subscribers |-> IF \E i \in 1..Len(taken) : taken[i] = s
                           THEN NoAlarm ELSE alarms[s]]

\* Mutant: a failed delivery that only pops the queue.
LastFailedDropped(s) == alarms

\* last_failed: the subscriber's alarm is saved again one second before now
LastFailed(s) == AddInternal(s, Seconds(now) - 1)

(* try_any_alarm: whether the selection at the block time yields a first   *)
(* alarm; the dispatcher asks it to know whether to dispatch again.        *)
AnyAlarm == Due # {}

-----------------------------------------------------------------------------
Init ==
    /\ now = UnitsPerSecond
    /\ alarms = [s \in Subscribers |-> NoAlarm]
    /\ inDelivery = <<>>
    /\ asked = [s \in Subscribers |-> NoAlarm]
    /\ owed = {}

\* Mutant: the alarm saved at the time asked for, not truncated to seconds.
AddAlarmUnconverted(s, t) ==
    /\ Idle
    /\ t >= now
    /\ alarms' = [alarms EXCEPT ![s] = t]
    /\ asked' = [asked EXCEPT ![s] = t]
    /\ owed' = owed \cup {s}
    /\ UNCHANGED <<now, inDelivery>>

\* try_add: a subscriber asks to be woken at time t; rejected if t < now;
\* a subscriber has at most one alarm, a new one replaces the old.
AddAlarm(s, t) ==
    /\ Idle
    /\ t >= now
    /\ alarms' = Add(s, t)
    /\ asked' = [asked EXCEPT ![s] = t]
    /\ owed' = owed \cup {s}
    /\ UNCHANGED <<now, inDelivery>>

\* remove: the subscriber's alarm, if any, is dropped
RemoveAlarm(s) ==
    /\ Idle
    /\ alarms' = RemoveIndexed(s)
    /\ owed' = owed \ {s}
    /\ UNCHANGED <<now, inDelivery, asked>>

\* try_notify: the due alarms, at most MaxCount of them in index order, go
\* out for delivery and a TimeAlarm message is sent to each.
Notify ==
    /\ Idle
    /\ Taken # <<>>
    /\ inDelivery' = Taken
    /\ alarms' = OutForDelivery(Taken)
    /\ UNCHANGED <<now, asked, owed>>

\* The subscriber at the head of the queue handles its TimeAlarm
\* successfully, possibly asking for its next alarm (t = NoAlarm: it does
\* not), and the reply pops the queue (last_delivered).
DeliverOk(t) ==
    /\ inDelivery # <<>>
    /\ LET s == Head(inDelivery) IN
       \/ /\ t = NoAlarm
          /\ owed' = owed \ {s}
          /\ UNCHANGED <<alarms, asked>>
       \/ /\ t \in now..Horizon
          /\ alarms' = Add(s, t)
          /\ asked' = [asked EXCEPT ![s] = t]
          /\ UNCHANGED owed
    /\ inDelivery' = Tail(inDelivery)
    /\ UNCHANGED now

\* The subscriber at the head fails: its writes are rolled back and the
\* error reply re-schedules its alarm (last_failed).
DeliverFail ==
    /\ inDelivery # <<>>
    /\ alarms' = LastFailed(Head(inDelivery))
    /\ inDelivery' = Tail(inDelivery)
    /\ UNCHANGED <<now, asked, owed>>

\* A new block.
Tick ==
    /\ Idle
    /\ now < MaxTime
    /\ now' = now + 1
    /\ UNCHANGED <<alarms, inDelivery, asked, owed>>

Next ==
    \/ \E s \in Subscribers, t \in Time : AddAlarm(s, t) /\ t <= Horizon
    \/ \E s \in Subscribers : RemoveAlarm(s)
    \/ Notify
    \/ \E t \in {NoAlarm} \cup Time : DeliverOk(t)
    \/ DeliverFail
    \/ Tick

Spec == Init /\ [][Next]_vars

(* The refinement mapping: a subscriber wants the time it last asked for   *)
(* as long as that alarm is owed, and the subscribers in the delivery      *)
(* queue are the ones woken; the index, its seconds and the queue's order  *)
(* are hidden.                                                             *)
Wanted == [s \in Subscribers |-> IF s \in owed THEN asked[s] ELSE NoAlarm]

Abstract == INSTANCE AlarmService WITH wanted <- Wanted,
                                       woken <- ToSet(inDelivery)

-----------------------------------------------------------------------------
TypeOK ==
    /\ now \in Time
    /\ alarms \in [Subscribers -> {NoAlarm} \cup 0..Seconds(MaxTime)]
    /\ inDelivery \in Seq(Subscribers)
    /\ asked \in [Subscribers -> {NoAlarm} \cup Time]
    /\ owed \subseteq Subscribers

(* No alarm is lost: a subscriber that asked for an alarm and has not yet  *)
(* handled it successfully still has it, in the index or in the delivery   *)
(* queue, whatever number of failed deliveries (last_failed) happened.     *)
NoLostAlarm ==
    \A s \in owed : alarms[s] # NoAlarm \/ InDelivery(s)

(* Between transactions, when try_any_alarm answers that no alarm remains, *)
(* no subscriber still owed an alarm asked for a second already past: a    *)
(* dispatcher that trusts the query and stops leaves nobody overdue, also  *)
(* after failed deliveries.                                                *)
NoneRemainingMeansNoneOverdue ==
    Idle /\ ~AnyAlarm =>
        \A s \in owed : Seconds(asked[s]) >= Seconds(now)

(* The store implements the alarm service: every dispatch, successful or  *)
(* failed, every add and remove is a step of AlarmService. A subscriber is *)
(* woken only for an alarm it still holds (not one it removed, not twice  *)
(* in one dispatch, not again after handling it) and not before its time, *)
(* through the second-truncated index, the out_for_delivery / last_failed *)
(* round trip and the batching of try_notify.                              *)
ImplementsAlarmService == Abstract!Spec

=============================================================================
