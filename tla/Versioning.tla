------------------------------ MODULE Versioning ------------------------------
(***************************************************************************)
(* The migration guard of packages/versioning/src/release.rs over a        *)
(* sequence of releases deployed to one contract. A contract's Version is *)
(* a storage version, a VersionSegment (u16), and a software version, a   *)
(* semantic version abstracted to its rank in semver order. A release      *)
(* either keeps the storage layout (allow_software_update) or migrates it *)
(* from the layout FROM_STORAGE_VERSION it was built for to the next one  *)
(* (allow_software_and_storage_update). An accepted migration saves the    *)
(* release's version; a rejected one fails and changes nothing.            *)
(***************************************************************************)
EXTENDS Integers

CONSTANTS
    SegmentMax,    \* VersionSegment::MAX (u16::MAX), scaled down
    MaxSoftware,   \* the highest software version of the releases
    RELEASE_LABEL  \* the RELEASE_VERSION the build was compiled with

ASSUME /\ SegmentMax \in Nat \ {0} /\ MaxSoftware \in Nat
       /\ RELEASE_LABEL \in STRING

VARIABLES
    current,     \* the contract's saved Version [storage, software]
    installed    \* history: every Version the contract has run with

vars == <<current, installed>>

Segment == 0..SegmentMax
Software == 0..MaxSoftware
Version == [storage : Segment, software : Software]

-----------------------------------------------------------------------------
\* label(): the build's release label.
Label == RELEASE_LABEL

\* release_type(): a Dev build is one labelled RELEASE_LABEL_DEV.
ReleaseType == IF Label = "dev-release" THEN "Dev" ELSE "Prod"

\* u16::wrapping_add(1)
WrappingInc(s) == (s + 1) % (SegmentMax + 1)

\* Mutant: the Dev relaxation applied whatever the release type.
SoftwareUpgradeIgnoringType(cur, new) ==
    cur.software <= new.software

(* allow_software_update_int: the software version increases, or stays    *)
(* the same in a Dev build.                                                *)
SoftwareUpgrade(cur, new) ==
    \/ cur.software < new.software
    \/ ReleaseType = "Dev" /\ cur.software = new.software

(* allow_software_update_type: the storage version is the same.           *)
AllowSoftwareUpdate(cur, new) ==
    /\ cur.storage = new.storage
    /\ SoftwareUpgrade(cur, new)

\* Mutant: the adjacency of the storage versions not checked.
AllowStorageUpdateAnyStep(from, cur, new) ==
    /\ cur.storage = from
    /\ SoftwareUpgrade(cur, new)

(* allow_software_and_storage_update_type::<FROM>: the saved storage is   *)
(* the one the release migrates from, the new one its wrapping successor. *)
AllowStorageUpdate(from, cur, new) ==
    /\ cur.storage = from
    /\ WrappingInc(cur.storage) = new.storage
    /\ SoftwareUpgrade(cur, new)

-----------------------------------------------------------------------------
\* A contract instantiated with any version.
Init ==
    /\ current \in Version
    /\ installed = {current}

(* migrate of a release that keeps the storage layout: accepted, the new  *)
(* version is saved; rejected, the migration fails.                        *)
MigrateSoftware(new) ==
    /\ \/ AllowSoftwareUpdate(current, new)
          /\ current' = new
          /\ installed' = installed \cup {new}
       \/ ~AllowSoftwareUpdate(current, new)
          /\ UNCHANGED vars

(* migrate of a release built to migrate the storage from `from`.          *)
MigrateStorage(from, new) ==
    /\ \/ AllowStorageUpdate(from, current, new)
          /\ current' = new
          /\ installed' = installed \cup {new}
       \/ ~AllowStorageUpdate(from, current, new)
          /\ UNCHANGED vars

Next ==
    \/ \E new \in Version : MigrateSoftware(new)
    \/ \E from \in Segment, new \in Version : MigrateStorage(from, new)

Spec == Init /\ [][Next]_vars

-----------------------------------------------------------------------------
(* A production contract never runs a software version again once it has  *)
(* moved past it, over any sequence of software and storage migrations:   *)
(* every version it ran before has a lower software version.               *)
NoSoftwareReinstalled ==
    ReleaseType = "Prod" =>
        \A v \in installed \ {current} : v.software < current.software

(* The storage versions a contract has run with are the ones from the     *)
(* first up to the current, each reached from the one before: no layout   *)
(* migration is skipped. The successor wraps past SegmentMax.              *)
NoStorageSkipped ==
    LET seen == {v.storage : v \in installed}
    IN  \A s \in seen : s # current.storage => WrappingInc(s) \in seen

=============================================================================
