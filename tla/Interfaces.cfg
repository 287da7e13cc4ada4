SPECIFICATION InterfaceSpec
CONSTANTS
  d = d
  NoDict = NoDict
  None = None
  Dicts = {d}
  MaxWindow = 2
  ReadSizes = {1, 4}
  MaxSources = 2
  Batch = 2
  Capacity = 8
  Outputs = {0, 3, 7}
  Inputs <- MCInputs
  InputsOf <- MCInputsOf
  Strategies <- MCStrategies
INVARIANTS TypeOK PlaceIsKept MemoryIsBounded FinishedFrameIsWhole OutputBelongsToFrame
PROPERTIES EveryCallReturns FailedResetKeepsBytes ShortReadOnlyAtEnd IntactFrameIsRead EverythingArrives AnswerIsTrue IntactInputIsDecoded
CHECK_DEADLOCK FALSE
