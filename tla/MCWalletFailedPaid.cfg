SPECIFICATION Spec
CONSTANTS
    u1 = u1  u2 = u2
    d1 = d1  d2 = d2
    w1 = w1  w2 = w2
    h1 = h1  h2 = h2
    User = {u1}
    Billed = {u1}
    Connected = {u1}
    Deposit = {d1}
    Withdrawal = {w1, w2}
    Delivery = {h1}
    Amount = {2}
    NoDeposit = NoDeposit
    MaxFaults = 1
CHECK_DEADLOCK FALSE
INVARIANT FailedIsNotPaidOut
