SPECIFICATION FairSpec
CONSTANTS
    c1 = c1  c2 = c2
    i1 = i1  i2 = i2  i3 = i3
    Client = {c1}
    Invoice = {i1, i2}
    None = None
    MaxFaults = 0
CHECK_DEADLOCK FALSE
PROPERTY PaidIsRecorded
