SPECIFICATION InboxSpec
CONSTANTS
    Publisher = {p1, p2}
    Adopter = {}
    Creator = creator
    MaxAttempts = 1
    Deletes = TRUE
    MaxCrashes = 1
    Sweep = {s1, s2, s3}
    Manual = {s3}
    Approval = {p1, p2}
    Dismissal = {h1}
    NoProposal = NoProposal
SYMMETRY Alike
INVARIANTS
    ProposalsAreSpaced PublishedIsInLog PublishedOnce
\* every request is made once and answered
CHECK_DEADLOCK FALSE
