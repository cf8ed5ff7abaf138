CONSTANTS
    MaxCoins = 2
    Outputs = {1, 2}
    MaxTimeouts = 0
SPECIFICATION Spec
INVARIANT ExtraResultsRejected
