CONSTANTS
    j1 = j1
    Jobs = {j1}
    MaxTerm = 4
    MayStop = TRUE
    MetaMayFail = FALSE
CHECK_DEADLOCK FALSE
SPECIFICATION Spec
INVARIANTS
    TypeOK
    MetaNeverAhead
PROPERTY DowngradeRefused
