CONSTANTS
    t1 = t1
    t2 = t2
    t3 = t3
    v1 = v1
    v2 = v2
    v3 = v3
    b1 = b1
    b2 = b2
    b3 = b3
    b4 = b4
    d1 = d1
    d2 = d2
    Threads <- MCThreads
    Vars <- MCVars
    Bodies <- MCBodies
    Data <- MCData
    Shared = Shared
    Null = Null
SPECIFICATION Spec
SYMMETRY Symmetry
INVARIANTS
    TypeOK
    CountIsReferences
    NoUseAfterFree
    NoLeak
    ExclusiveMutation
    AssertionsHold
PROPERTIES
    ByValueSemantics
    AssignCopiesValue
