SPECIFICATION Spec
CONSTANTS
    one = one
    two = two
    bad = bad
    broken = broken
    x = x
    y = y
    z = z
    Texts = {one, two, bad, broken}
    Broken = {broken}
    Names = {x, y, z}
    Scheduled <- FourTexts
    Invalid = {z}
    Refresh = Refresh
    NoEtag = NoEtag
    Ticks = {t1}
    MaxEdits = 4
    MaxFailures = 2
INVARIANTS
    EntriesAreTheConfig
PROPERTIES
    LastEditWins
CHECK_DEADLOCK FALSE
