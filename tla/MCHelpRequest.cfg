SPECIFICATION FairSpec
CONSTANTS
    s = s  v1 = v1  v2 = v2
    a1 = a1  a2 = a2
    f1 = f1  f2 = f2  f3 = f3
    Person = {s, v1, v2}
    Seeker = s
    AcceptCall = {a1, a2}
    FeedbackCall = {f1, f2}
    None = None
    PoolSize = 2
    MaxFaults = 1
CHECK_DEADLOCK FALSE
INVARIANTS TypeOK OneVolunteerAlone CompletedByFeedback OneFeedbackAlone
    PointPerFeedback
PROPERTY CallsEnd
