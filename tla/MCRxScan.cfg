CONSTANTS
  Texts <- MCTexts
  Configurations <- MCConfigurations
  Refuses <- MCRefuses
  White <- MCWhite
  DigitValue <- MCDigitValue
  RangeLimit = 65536
  LongSize = 1048576
  IntSize = 262144
  MaxText = 3
SPECIFICATION MCSpec
INVARIANTS
    InOrder
    NothingLost
    RepeatsOne
