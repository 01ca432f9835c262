CONSTANTS
    v1 = v1
    v2 = v2
    v3 = v3
    b1 = b1
    b2 = b2
    b3 = b3
    b4 = b4
    x1 = x1
    x2 = x2
    None = None
    Vars <- MCVars
    Bodies <- MCBodies
    Keys <- MCKeys
    Values <- MCValues
    Lists <- MCLists
    Puts = TRUE
SPECIFICATION Spec
SYMMETRY Symmetry
PROPERTIES
    ByValue
