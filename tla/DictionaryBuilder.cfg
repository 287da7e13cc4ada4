SPECIFICATION Spec
CONSTANTS
  Calls <- MCCalls
  Gives = {6, 128000}
  Fails = FALSE
  MaxScore = 1
INVARIANT DictionaryFits
CHECK_DEADLOCK FALSE
