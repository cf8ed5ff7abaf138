CONSTANTS
    Principal0 = 4
    MarginRate = 1
    PoolRate = 2
    YearLen = 2
    DuePeriod = 2
    Payments <- MC_Payments
    MaxTime = 5
    MaxRepays = 3
SPECIFICATION Spec
PROPERTY RepayReducesDebt
