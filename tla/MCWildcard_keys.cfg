CONSTANTS
  Tokens <- AllTokens
  KeyBytes <- SomeBytes
  MaxTokens = 3
  MaxKey = 3
SPECIFICATION Spec
INVARIANTS MatchesMeaning
