SPECIFICATION Spec
CONSTANTS
    Publisher = {p1, p2, p3}
    Adopter = {p1}
    Creator = creator
    MaxAttempts = 2
    Deletes = TRUE
    MaxCrashes = 1
SYMMETRY Edits
INVARIANTS AnsweredIsStored CurrentIsNewest RefusedOnlyWhenOutraced
PROPERTY ImplementsLog
\* every request is made once and answered
CHECK_DEADLOCK FALSE
