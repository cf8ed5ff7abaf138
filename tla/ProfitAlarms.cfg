CONSTANTS
    Subscribers <- MC_Subscribers
    Profit = 2
    UnitsPerSecond = 2
    MaxTime = 12
    MaxCount = 2
    Cadences = {1, 2}
    UnitsPerHour = 1
    LastBlock = 8
    MaxAmount = 2
    MaxReceipts = 3

SPECIFICATION Spec

INVARIANT TypeOK
INVARIANT ProfitWakeUpScheduled
PROPERTY NlsForwarded
