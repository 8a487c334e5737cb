SPECIFICATION FairSpec
CONSTANTS
    e1 = e1  e2 = e2  e3 = e3
    x1 = x1  x2 = x2  x3 = x3
    Export = {e1, e2, e3}
    Sdk = {e3}
    Root = {x1, x2, x3}
    RootsOf <- Overlap
    Started <- Starts
    Quota = 2
    FirstDay = 2
    LastDay = 3
    MaxFaults = 1
    MaxCrashes = 1
INVARIANTS
    OverrunIsBounded CounterCoversStore CreditIsAccountedFor
PROPERTIES
    EveryExportAnswered
\* A process with nothing left to answer stops; the liveness property says that
\* it does not stop earlier
CHECK_DEADLOCK FALSE
