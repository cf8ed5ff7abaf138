------------------------------ MODULE MC_DexFlow ------------------------------
(***************************************************************************)
(* The dex package checked in one model: the swap composed with the       *)
(* account and its transfer (DexFlow), and beside it visit_at_index       *)
(* (CoinIndex) over the same swap task's coins. visit_at_index changes    *)
(* no state of the swap, so the two interleave freely.                    *)
(***************************************************************************)
EXTENDS DexFlow, TLC

CONSTANTS C1, C2, C3, A1, A2, L, MaxIndex

VARIABLES index, failing, counter, pos, visited, result

ciVars == <<index, failing, counter, pos, visited, result>>

CI == INSTANCE CoinIndex

\* Three coins, the last of a currency with no denomination on the dex.
MC_Coins == {C1, C2, C3}
MC_OnDex == {C1, C2}
MC_Addrs == {A1, A2}

MC_Init == Init /\ CI!Init

MC_Next ==
    \/ Next /\ UNCHANGED ciVars
    \/ CI!Next /\ UNCHANGED vars

MC_Spec == MC_Init /\ [][MC_Next]_<<vars, ciVars>>

MC_TypeOK == TypeOK /\ CI!TypeOK

VisitsOnlyTarget == CI!VisitsOnlyTarget

=============================================================================
