\* The alphabets of Texts_all.
CONSTANTS
  Alphabets <- MCAlphabets
  MaxText = 4
  Word = {"a", "b", "A"}
  Lower <- MCLower
  Letters <- MCLetters
  Patterns <- MCPatterns
  Samples <- MCSamples
SPECIFICATION TextSpec
INVARIANTS
  CursorsRemap
CHECK_DEADLOCK FALSE
