SPECIFICATION FairSpec
CONSTANTS
    u1 = u1  u2 = u2
    d1 = d1  d2 = d2
    w1 = w1  w2 = w2
    h1 = h1  h2 = h2
    User = {u1}
    Billed = {u1}
    Connected = {u1}
    Deposit = {d1, d2}
    Withdrawal = {}
    Delivery = {h1, h2}
    Amount = {2}
    NoDeposit = NoDeposit
    MaxFaults = 2
CHECK_DEADLOCK FALSE
INVARIANT AckedIsCredited
PROPERTY PaidIsCredited
