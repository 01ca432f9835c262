CONSTANTS
  Tokens <- MCTokens
  MayScan <- MCMayScan
  RxMaxNesting = 12
  MaxNames = 2
  MaxRepetition = 3
  OneByte = 24
  TwoBytes = 10000
  Texts <- MCTexts
  Newline = 3
  PropertyOf <- MCPropertyOf
  Garbage = {0, 1}
  MaxTokens = 4
  MaxMatched = 3
  MaxText = 3
SPECIFICATION Spec
INVARIANTS
    CodeIsRight
    RoomForCode
    FixupFindsAll
    MatchesRight
    NoFault
