------------------------- MODULE MC_ContractUpgrade -------------------------
(***************************************************************************)
(* The two upgrade paths of the platform checked in one model: a contract  *)
(* migrated from release to release under the versioning checks            *)
(* (Versioning), and the leaser migrating its customers' leases to a new   *)
(* code (LeaserMigrate). They share no state and interleave freely.        *)
(* Up to three customers of up to three leases each; MaxLeases::MAX scaled *)
(* down to 2 so that a customer with more leases than it can hold is read. *)
(***************************************************************************)
CONSTANTS SegmentMax, MaxSoftware, RELEASE_LABEL, MaxCustomers, MaxLen, MaxLeasesMax

VARIABLES current, installed,
          customers, maxLeases, pos, left, lease, msgs, result

vVars == <<current, installed>>
lmVars == <<customers, maxLeases, pos, left, lease, msgs, result>>

V == INSTANCE Versioning
LM == INSTANCE LeaserMigrate

Init == V!Init /\ LM!Init

Next ==
    \/ V!Next /\ UNCHANGED lmVars
    \/ LM!Next /\ UNCHANGED vVars

Spec == Init /\ [][Next]_<<vVars, lmVars>>

TypeOK == LM!TypeOK
ResultIsPlan == LM!ResultIsPlan
BudgetAccounted == LM!BudgetAccounted
NoSoftwareReinstalled == V!NoSoftwareReinstalled
NoStorageSkipped == V!NoStorageSkipped

=============================================================================
