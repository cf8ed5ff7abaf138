CONSTANTS
    L1 = L1
    L2 = L2
    Lenders <- MC_Lenders
    MinUtilization = 1
    Hundred = 2
    Amounts = {1, 2, 3}
    MaxValue = 7
SYMMETRY Symmetry
SPECIFICATION Spec
INVARIANT TypeOK
PROPERTY DepositKeepsUtilization
CHECK_DEADLOCK FALSE
