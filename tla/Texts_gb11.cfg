\* The alphabets of Texts_all.
CONSTANTS
  Alphabets <- MCAlphabets
  MaxText = 4
  Word = {"a", "b", "A"}
  Lower <- MCLower
  Letters <- MCLetters
  Patterns <- MCPatterns
  Samples <- MCSamples
SPECIFICATION TextSpec
INVARIANTS
  SegmentsFollowUAX29
CHECK_DEADLOCK FALSE
