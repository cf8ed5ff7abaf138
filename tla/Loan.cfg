CONSTANTS
    Principal0 = 4
    MarginRate = 1
    PoolRate = 2
    YearLen = 1
    DuePeriod = 2
    Payments <- MC_Payments
    MaxTime = 5
    MaxRepays = 3
SPECIFICATION Spec
INVARIANT TypeOK
INVARIANT PaymentConserved
INVARIANT MarginNotPrepaid
INVARIANT PoolPaidBeforeRollover
PROPERTY RepayReducesDebt
