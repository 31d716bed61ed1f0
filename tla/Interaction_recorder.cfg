\* The instance of Interaction.cfg.
CONSTANTS
  Readers <- MCReaders
  Cp437 <- MCCp437
  ZeroWidth = {127, 128, 143, 2080}
  Ambiguous = {191}
  Wide <- MCWide
  Shells = {1, 2}
  Texts = {"ls", "make", "long", "two lines"}
  Long = {"long"}
  Broken = {"two lines"}
  MaxAppends = 3
  Codes = {27, 34, 233}
  RingLimit = 3
  ClipLimit = 1
  MaxLine = 3
  MaxLines = 2
  MaxOutput = 3
  Widgets = {1, 2, 3, 4}
  Roots = {1, 2}
  Skipped = {2}
  MaxChains = 2
  Places <- MCPlaces
  Ratios <- MCRatios
  Tabs = {"a", "b", "c"}
  Rows = 4
  Paths = {"x", "y", "z"}
  Height = 2
  Width = 5
  Amounts <- MCAmounts
  Totals <- MCTotals
  Inputs <- MCInputs
  Masks <- MCMasks
  MaxTasks = 3
SPECIFICATION Spec
INVARIANTS
  RecordingReadsBack
CHECK_DEADLOCK FALSE
