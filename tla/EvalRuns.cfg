SPECIFICATION FairSpec
CONSTANTS
    drive = drive  submit = submit  again = again  finalize = finalize
    k1 = k1  k2 = k2
    Caller = {drive, submit, again, finalize}
    Driver = {drive}
    Finisher = {drive, finalize}
    Key = {k1, k2}
    Invalid = Invalid
    None = None
    Work <- TwoChunks
    MaxFaults = 1
    MaxCrashes = 1
INVARIANTS AcceptedOnce AnswersAgree DoneIsStored
PROPERTIES SealedIsFinal DrivenRunEnds
