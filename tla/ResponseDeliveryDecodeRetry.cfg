CONSTANTS
    Subscribers <- MC_Subscribers
    Lease = 1
    UnitsPerSecond = 2
    MaxTime = 8
    MaxCount = 1
    MaxTimeouts = 1

SPECIFICATION Spec

INVARIANT DecodeErrorNotRetried
