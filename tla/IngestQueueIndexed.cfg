SPECIFICATION Spec
CONSTANTS
    r1 = r1  r2 = r2  r3 = r3
    p1 = p1  p2 = p2  s1 = s1  s2 = s2
    Req = {r1, r2, r3}
    Project = {p1, p2}
    ProjOf <- TwoProjects
    Span = {s1}
    NoSpan = NoSpan
    SpanOf <- OneUnkeyed
    Pass = {f1, f2}
    NoPass = NoPass
    NoProject = NoProject
    FlushSize = 2
    QueueMax = 2
    UniqueIndex = TRUE
    MaxFaults = 1
    LostAcks = TRUE
    MaxCrashes = 1
    MayStop = TRUE
    ForcedClose = TRUE
INVARIANTS
    NoStrandedSpan AckIsDurable OneRowPerSpan CheckedOncePerSpan
    DrainSettlesWhatItFound
