CONSTANTS
    v1 = v1
    v2 = v2
    b1 = b1
    b2 = b2
    b3 = b3
    static = static
    e1 = e1
    e2 = e2
    Null = Null
    Vars <- MCVars
    Bodies <- MCBodies
    Statics <- MCStatics
    Elements <- MCElements
    Text <- MCText
    Inputs <- MCInputs
    Predicates <- MCPredicates
    Functions <- MCFunctions
    MaxLen = 3
    MaxBody = 4
    IndexSize = 16
SPECIFICATION Spec
SYMMETRY Symmetry
PROPERTIES
    ByValue
