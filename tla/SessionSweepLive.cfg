SPECIFICATION FairSpec
CONSTANTS
    a = a  b = b  j1 = j1  j2 = j2  t1 = t1  t2 = t2  t3 = t3  m1 = m1
    p1 = p1  p2 = p2  p3 = p3  p4 = p4  p5 = p5  x1 = x1  c1 = c1
    Replica = {a}
    Sweep = {t1}
    Trace = {}
    Rerun = {c1}
    At <- TwoReplicas
    ScopeOf <- Scopes
    Global = Global
    Project = {j1, j2}
    ProjectRows <- Rows
    Pair = {p1, p2, p3, p4, p5}
    ProjOf <- LastTwoOfJ2
    Panel <- PanelOfP5
    Verdicts <- Stuck
    RerunOf <- RerunP5
    NoPair = NoPair
    Nobody = Nobody
    Departed = Departed
    Unseeded = Unseeded
    MaxJudged = 1
    RetryTicks = 3
    Cap = 0
    Lively = {p5}
    MaxGrowth = 1
    MaxPruned = 1
    MaxFaults = 1
    MaxCrashes = 0
    MaxMidnights = 0
INVARIANTS
    NeverRejudged

    
