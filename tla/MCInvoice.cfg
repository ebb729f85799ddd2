SPECIFICATION Spec
CONSTANTS
    c1 = c1  c2 = c2
    i1 = i1  i2 = i2  i3 = i3
    Client = {c1, c2}
    Invoice = {i1, i2}
    None = None
    MaxFaults = 2
CHECK_DEADLOCK FALSE
SYMMETRY Interchangeable
INVARIANTS TypeOK OnePendingAlone SameCustomerAlone PendingIsPayable
    CancelledIsClosed
