------------------------ MODULE MC_ResponseDelivery ------------------------
(* The lease and two other subscribers of the time-alarms service, which   *)
(* takes up to two alarms per dispatch: a dispatch carries a batch whose   *)
(* handlers run in turn, and the three compete for its places.            *)
EXTENDS ResponseDelivery

MC_Subscribers == {1, 2, 3}
=============================================================================
