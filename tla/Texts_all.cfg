\* Texts of what joins into clusters, and of what words, rows and lines are made of;
\* two buffers and a snapshot that share strings.
CONSTANTS
  Alphabets <- MCAlphabets
  MaxText = 4
  Word = {"a", "b", "A"}
  Lower <- MCLower
  Letters <- MCLetters
  Patterns <- MCPatterns
  Samples <- MCSamples
  Buffers = {b1, b2}
  Snapshots = {s1}
  None = None
  Cells = {c1, c2, c3, c4}
  Values <- MCValues
  Places <- MCPlaces
  MaxVersion = 2
SPECIFICATION MCSpec
SYMMETRY Symmetry
INVARIANTS
  SegmentsAreClusters
  PositionsAgree
  CaretMoves
  InsertsInPlace
  SearchExact
  WrapKeepsText
  PatchApplies
  GenerationNamesText
PROPERTY ValueSemantics
CHECK_DEADLOCK FALSE
