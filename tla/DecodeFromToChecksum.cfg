SPECIFICATION FtSpec
CONSTANTS
  d = d
  NoDict = NoDict
  None = None
  Dicts = {d}
  MaxWindow = 2
  ReadSizes = {1, 3}
  MaxSources = 1
  Inputs <- MCSlices
  Strategies <- MCStrategies
INVARIANTS ReadsOnlyWhatIsOffered
CHECK_DEADLOCK FALSE
