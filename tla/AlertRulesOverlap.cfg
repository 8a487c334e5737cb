SPECIFICATION Spec
CONSTANTS
    Sweep = {s1, s2}
    Edit = {r1}
    Kinds = {"pause", "enable"}
    Def = {d1}
    MaxOpen = 2
    MaxDeaths = 0
    MaxLost = 0
SYMMETRY Evaluations
INVARIANTS ReceiverMatchesRule
PROPERTIES EpisodeTriggersOnce RepeatsKeepCooldown
