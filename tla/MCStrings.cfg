CONSTANTS
    v1 = v1
    v2 = v2
    b1 = b1
    b2 = b2
    b3 = b3
    null = null
    static = static
    Vars <- MCVars
    Bodies <- MCBodies
    Statics <- MCStatics
    NullBody = null
    Letters <- MCLetters
    StaticText <- MCStaticText
    Inputs <- MCInputs
    Conversions <- MCConversions
    MaxBytes = 5
    MaxBody = 5
    Margin = 0
    IndexSize = 128
    Avoids = {"parts", "marks"}
SPECIFICATION Spec
SYMMETRY Symmetry
INVARIANTS
    TypeOK
    ByValue
    ReadsRight
    CountsExact
