SPECIFICATION Spec
CONSTANTS
    a = a  b = b  j1 = j1  j2 = j2  t1 = t1  t2 = t2  t3 = t3  m1 = m1
    p1 = p1  p2 = p2  p3 = p3  p4 = p4  p5 = p5  x1 = x1  c1 = c1
    Replica = {a, b}
    Sweep = {t1, t3, m1}
    Trace = {x1}
    Rerun = {}
    At <- TwoReplicas
    ScopeOf <- Scopes
    Global = Global
    Project = {j1}
    ProjectRows <- OneRow
    Pair = {p1}
    ProjOf <- FirstOfJ1
    Panel <- OnePanel
    Verdicts <- AnyVerdict
    RerunOf <- RerunP1
    NoPair = NoPair
    Nobody = Nobody
    Departed = Departed
    Unseeded = Unseeded
    MaxJudged = 2
    RetryTicks = 0
    Cap = 1
    Lively = {}
    MaxGrowth = 0
    MaxPruned = 0
    MaxFaults = 0
    MaxCrashes = 1
    MaxMidnights = 1
INVARIANTS
    OneSweepPerProject LeaseElectsOne BudgetHolds
