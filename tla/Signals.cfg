SPECIFICATION Spec
CONSTANTS
    a = a  d1 = d1  d2 = d2  c1 = c1  c2 = c2  k1 = k1  r1 = r1
    Detection = {d1, d2}
    Triage = {c1, c2}
    Verdict <- AnyVerdict
    Correction = {k1}
    Report = {r1}
    At <- AllOnA
    Replica = {a}
    NoEvent = NoEvent
    Nobody = Nobody
SYMMETRY Alike
INVARIANTS
    CountIsExact NoSilentRecurrence ReasonTravelsWithResolved
    OneCollecting EvidenceOnce BaselineYields
CHECK_DEADLOCK FALSE
