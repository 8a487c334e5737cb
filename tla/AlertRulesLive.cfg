SPECIFICATION FairSpec
CONSTANTS
    Sweep = {s1}
    Edit = {r1, r2}
    Kinds = {"rename", "enable", "delete"}
    Def = {d1}
    MaxOpen = 2
    MaxDeaths = 1
    MaxLost = 1
PROPERTIES LastingBreachIsPaged
