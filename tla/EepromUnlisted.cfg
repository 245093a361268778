SPECIFICATION Spec
CONSTANTS
    k1 = k1
    k2 = k2
    v1 = v1
    v2 = v2
    Key = {k1, k2}
    Value = {v1, v2}
    NoKey = NoKey
    NoValue = NoValue
    NoPage = NoPage
    Table <- Only1
    Slots = 5
    Cuts = {}
    MaxCuts = 1
PROPERTIES StaysStored
