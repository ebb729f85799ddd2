SPECIFICATION FairSpec
CONSTANTS
    a1 = a1  a2 = a2
    r1 = r1  r2 = r2
    Update = {a1, a2}
    Removal = {r1, r2}
    Original = Original
    Tables <- TwoTables
    Shared = "beneficiaries"
    Total = {60, 100}
    None = None
CHECK_DEADLOCK FALSE
INVARIANTS TypeOK ReplacedWhole AllocatedAlone RemovedIsEmpty WillIsLocked
PROPERTY RequestsEnd
