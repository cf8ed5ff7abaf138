---------------------------- MODULE AlarmService ----------------------------
(***************************************************************************)
(* What the time-alarms service promises its subscribers, with no index,   *)
(* no seconds and no delivery queue: each subscriber has at most one       *)
(* wanted wake-up time and may set or cancel it. A dispatch wakes some     *)
(* subscribers whose time has come, each once; each of them then either   *)
(* handles the wake-up, asking for its next one or for none, or fails, and *)
(* a failure changes nothing it can observe: it still wants the same time. *)
(***************************************************************************)
EXTENDS Integers

CONSTANTS Subscribers, NoAlarm, Time   \* Time: the block times, a set of Nat

VARIABLES
    now,      \* block time
    wanted,   \* subscriber -> the time it wants to be woken at, or NoAlarm
    woken     \* the subscribers woken by the dispatch in progress

vars == <<now, wanted, woken>>

\* Whether s has a wake-up whose time has come.
IsDue(s) == wanted[s] # NoAlarm /\ wanted[s] <= now

\* No dispatch in progress; every wanted time was not in the past when asked.
Init ==
    /\ woken = {}
    /\ \A s \in Subscribers : wanted[s] = NoAlarm \/ wanted[s] >= now

\* A subscriber asks to be woken at t, never in the past.
Set(s, t) ==
    /\ woken = {}
    /\ t >= now
    /\ wanted' = [wanted EXCEPT ![s] = t]
    /\ UNCHANGED <<now, woken>>

\* A subscriber drops its wake-up, if it had one.
Cancel(s) ==
    /\ woken = {}
    /\ wanted' = [wanted EXCEPT ![s] = NoAlarm]
    /\ UNCHANGED <<now, woken>>

\* A dispatch wakes a non-empty set of subscribers, all of them due.
Wake(S) ==
    /\ woken = {}
    /\ S # {}
    /\ \A s \in S : IsDue(s)
    /\ woken' = S
    /\ UNCHANGED <<now, wanted>>

\* A woken subscriber handles its wake-up and asks for its next one (t) or
\* for none (t = NoAlarm).
Handled(s, t) ==
    /\ s \in woken
    /\ t = NoAlarm \/ t >= now
    /\ wanted' = [wanted EXCEPT ![s] = t]
    /\ woken' = woken \ {s}
    /\ UNCHANGED now

\* A woken subscriber fails; it still wants the time it wanted.
Failed(s) ==
    /\ s \in woken
    /\ woken' = woken \ {s}
    /\ UNCHANGED <<now, wanted>>

\* Time goes on between transactions.
Tick ==
    /\ woken = {}
    /\ now' > now
    /\ UNCHANGED <<wanted, woken>>

Next ==
    \/ \E s \in Subscribers, t \in Time : Set(s, t) \/ Handled(s, t)
    \/ \E s \in Subscribers :
          Cancel(s) \/ Handled(s, NoAlarm) \/ Failed(s)
    \/ \E S \in SUBSET Subscribers : Wake(S)
    \/ Tick

Spec == Init /\ [][Next]_vars

=============================================================================
