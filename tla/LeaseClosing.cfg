CONSTANTS
    Amount = 2
    MaxTimeouts = 2
SPECIFICATION Spec
INVARIANT TypeOK
PROPERTY ImplementsLifeCycle
