---------------------------- MODULE LeaseAbstract ----------------------------
(***************************************************************************)
(* What the lease life-cycle promises once the loan is paid (spec.md,      *)
(* lease contract state machine): the lease is Active until its owner asks *)
(* to close it, then it moves its collateral back (ClosingTransferIn) and  *)
(* is Closed, for good. Once closing has started it completes, and the     *)
(* collateral has reached the customer when the lease is Closed.           *)
(***************************************************************************)
EXTENDS Naturals

CONSTANT Amount   \* the lease's collateral

VARIABLES
    phase,     \* Active, ClosingTransferIn or Closed
    returned   \* the collateral paid out to the customer

vars == <<phase, returned>>

Init == phase = "Active" /\ returned = 0

RequestClose ==
    /\ phase = "Active"
    /\ phase' = "ClosingTransferIn"
    /\ UNCHANGED returned

Complete ==
    /\ phase = "ClosingTransferIn"
    /\ phase' = "Closed"
    /\ returned' = Amount

Next == RequestClose \/ Complete

Spec == Init /\ [][Next]_vars /\ WF_vars(Complete)

=============================================================================
