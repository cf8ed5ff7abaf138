CONSTANTS
    Subscribers <- MC_Subscribers
    Lease = 1
    UnitsPerSecond = 2
    MaxTime = 8
    MaxCount = 2
    MaxTimeouts = 1

SPECIFICATION Spec

INVARIANT TypeOK
INVARIANT OneWakeUpScheduled
INVARIANT NoLostAlarm
INVARIANT NoneRemainingMeansNoneOverdue
PROPERTY ImplementsAlarmService
PROPERTY GuaranteedDelivery
PROPERTY AlarmEventuallyDispatched
