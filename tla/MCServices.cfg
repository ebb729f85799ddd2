SPECIFICATION MCSpec
CONSTANTS
    c1 = c1  c2 = c2  g1 = g1  x2 = x2  r1 = r1  r2 = r2  b2 = b2  u1 = u1
    u2 = u2  m2 = m2  n2 = n2  e1 = e1  e2 = e2  e3 = e3  i1 = i1  v1 = v1
    v2 = v2
    Client = {c1}
    Agent = {g1}
    Booking = {b1, b2}
    Edit = {x1, x2}
    Report = {r1}
    assigned <- MCAssigned
    Open = {c1, c2}
    Post = {m1, m2}
    Reading = {r1, r2}
    Name = {n1, n2}
    Caller = {u1}
    Socket = {s1, s2}
    Username = {n1, n2}
    Recording = {r1}
    MaxChunk = 2
    Device = {d1}
    Single = {t1, t2}
    Request = {r1}
    Kind = {k1}
    Setting = {x1, x2}
    Grant = {q1}
    Amendment = {x1, x2}
    Beneficiary = {y1, y2}
    MaxRow = 3
    NewStatus = {"PENDING", "CANCELLED"}
    Limit = 1
    MaxAt = 3
    User = {u1, u2}
    Setup = {r1, r2}
    Withdrawal = {w1}
    Nobody = Nobody
    MaxFaults = 1
CHECK_DEADLOCK FALSE
INVARIANTS ServicesTypeOK AppointmentsAreSound ChatIsSound GatewayIsSound NoticesAreSound
    BequestsAreSound PayoutsAreSound ListsAreSound
PROPERTIES AllAreTold CodesGoOn
