SPECIFICATION FairSpec
CONSTANTS
    r1 = r1  r2 = r2  r3 = r3
    p1 = p1  p2 = p2  s1 = s1  s2 = s2
    Req = {r1, r2, r3}
    Project = {p1}
    ProjOf <- OneProject
    Span = {s1, s2}
    NoSpan = NoSpan
    SpanOf <- Redelivered
    Pass = {f1, f2}
    NoPass = NoPass
    NoProject = NoProject
    FlushSize = 2
    QueueMax = 1
    UniqueIndex = FALSE
    MaxFaults = 1
    LostAcks = TRUE
    MaxCrashes = 1
    MayStop = FALSE
    ForcedClose = FALSE
INVARIANTS
    RollupsLoseNothing
PROPERTIES
    EveryAcceptedSettles EveryStoredIsChecked ImplementsDelivery
