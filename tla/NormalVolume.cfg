CONSTANTS
    Levels <- SomeLevels
    Wrap = 6
    AmpScenarios <- EcoScenario
    AmpAsks = 4
    Chords <- SomeChords
    Longest = 2
    SystemQueue = 2
    Words <- SomeWords
    Tree <- SomeTree
    Handlers <- SomeHandlers
    Helped <- SomeHelped
    Numeric <- SomeNumeric
    Numbers = {"7"}
    ArgcMax = 4
    k1 = k1
    k2 = k2
    v1 = v1
    v2 = v2
    Key = {k1, k2}
    Value = {v1, v2}
    NoKey = NoKey
    NoValue = NoValue
    NoPage = NoPage
    Table <- Both
    Slots = 3
    Cuts = {"downward", "between", "other"}
    MaxCuts = 1
SPECIFICATION MCSpec
CHECK_DEADLOCK FALSE
INVARIANTS
    NormalVolume
