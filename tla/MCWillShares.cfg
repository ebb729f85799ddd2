SPECIFICATION Spec
CONSTANTS
    a1 = a1  a2 = a2
    r1 = r1  r2 = r2
    Update = {a1, a2}
    Removal = {}
    Original = Original
    Tables <- TwoTables
    Shared = "beneficiaries"
    Total = {100}
    None = None
CHECK_DEADLOCK FALSE
INVARIANT FullyAllocated
