CONSTANTS
    SegmentMax = 2
    MaxSoftware = 3
    RELEASE_LABEL = "v0.5.3"
    MaxCustomers = 3
    MaxLen = 3
    MaxLeasesMax = 2
SPECIFICATION Spec
INVARIANT TypeOK
INVARIANT ResultIsPlan
INVARIANT BudgetAccounted
INVARIANT NoSoftwareReinstalled
INVARIANT NoStorageSkipped
