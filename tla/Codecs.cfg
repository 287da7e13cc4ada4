SPECIFICATION Spec
CONSTANTS
  Absent = Absent
  Inputs <- MCInputs
  Counts <- MCCounts
  Distributions <- MCDistributions
  Literals <- MCLiterals
  FrameHeaders <- MCFrameHeaders
  BlockHeaders <- MCBlockHeaders
  LiteralsHeaders <- MCLiteralsHeaders
  Sections <- MCSections
  Sources = {0, 3, 8, 9, 17}
  ReadWidths = {1, 8, 11, 56}
  Triples <- MCTriples
  MaxExtra = 12
  WriteWidths = {1, 5, 13, 56, 64}
  Changes <- MCChanges
  Lengths = {0, 1, 2}
  MaxBits = 136
INVARIANTS SequencesArrive TablesAreTheSameAutomaton HuffmanCodesAreUnderstood LiteralsArrive HeadersArrive
PROPERTIES ImplementsBitSource ImplementsBitSink
CHECK_DEADLOCK FALSE
