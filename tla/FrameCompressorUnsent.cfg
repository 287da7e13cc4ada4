SPECIFICATION Spec
CONSTANTS
  None = None
  Levels = {"uncompressed", "fastest", "default"}
  SpaceSizes = {2, 4}
  WindowSize = 3
  FewLiterals = 1
  MaxFrames = 2
  MinMatch = 1
  MaxMatches = 2
  Byte = {"a", "b"}
  Inputs <- MCInputs
INVARIANTS LiteralsAreDecodable
CHECK_DEADLOCK FALSE
