SPECIFICATION MCSpec
CONSTANTS
    u1 = u1  u2 = u2  e1 = e1  e2 = e2  l1 = l1  l2 = l2
    s1 = s1  s2 = s2  d1 = d1  w1 = w1  w2 = w2
    x1 = x1  x2 = x2  r1 = r1  r2 = r2  n1 = n1
    y1 = y1  y2 = y2  b1 = b1  z1 = z1  z2 = z2
    User = {u1, u2}
    Email = {e1, e2, e3}
    Home <- MCHome
    Issue = {i1, i2}
    Use = {v1}
    Holder = {s1, s2}
    Login = {l1, l2}
    Refresh = {f1}
    Logout = {o1}
    Change = {w1, w2}
    Inbox = {d1, d2}
    Person = {a1}
    Update = {x1, x2}
    Register = {r1, r2}
    Phone = {p1}
    Mailbox = {h1}
    Name = {n1, n2}
    Plans <- MCPlans
    Roles <- MCRoles
    Seeds <- MCSeeds
    TypeOf <- MCTypeOf
    PlanOf <- MCPlanOf
    Agent = y1
    Run = {z1, z2}
    Row = {j1, j2, j3}
    Other = {y3}
    Request = {q1}
    Nobody = Nobody
    MaxFaults = 1
CHECK_DEADLOCK FALSE
SYMMETRY Interchangeable
INVARIANTS AccountTypeOK CodesAreSound SessionsAreSound  SeedIsSound
