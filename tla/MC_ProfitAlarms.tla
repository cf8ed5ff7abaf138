--------------------------- MODULE MC_ProfitAlarms ---------------------------
(* The profit contract and one other subscriber; the profit contract has  *)
(* the higher address, so in a batch of the same second it is called      *)
(* after the other one.                                                   *)
EXTENDS ProfitAlarms

MC_Subscribers == {1, 2}
=============================================================================
