CONSTANTS
  Tokens <- CrossingTokens
  MayScan <- IntoCrossing
  RxMaxNesting = 12
  MaxNames = 2
  MaxRepetition = 254
  OneByte = 128
  TwoBytes = 2048
  Texts <- MCTexts
  Newline = 3
  PropertyOf <- MCPropertyOf
  Garbage = {0, 1}
  MaxTokens = 2
  MaxMatched = 0
  MaxText = 3
SPECIFICATION Spec
INVARIANTS
    CodeIsRight
