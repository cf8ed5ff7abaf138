CONSTANTS
    C1 = C1
    C2 = C2
    C3 = C3
    A1 = A1
    A2 = A2
    L = L
    Coins <- MC_Coins
    OnDex <- MC_OnDex
    Addrs <- MC_Addrs
    Lease <- L
    MaxCoins = 3
    Outputs = {1, 2}
    MaxTimeouts = 1
    MaxTrx = 1
    MaxIndex = 3
SPECIFICATION MC_Spec
INVARIANT MC_TypeOK
INVARIANT OneSwapPerCoin
INVARIANT AmountOutIsSwapped
INVARIANT SubmittedFromHostAccount
INVARIANT TransferInWithTransfer
INVARIANT VisitsOnlyTarget
