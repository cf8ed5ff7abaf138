CONSTANTS
    MaxNanos = 3
    MaxAmount = 2
    USDC = USDC
    DAI = DAI
    Tickers <- MC_Tickers
SPECIFICATION Spec
INVARIANT SubUndoesAdd
