CONSTANTS
  Grammars <- MCGrammars
  Texts <- MCTexts
  CodeOf <- MCCodeOf
  Property <- MCProperty
  Newline <- MCNewline
  MaxText = 3
SPECIFICATION MCSpec
INVARIANTS
    MatchesAsPeg
    CapturesAsParsed
    LookupFinds
    FailuresThere
