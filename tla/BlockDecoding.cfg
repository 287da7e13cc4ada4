SPECIFICATION BlockSpec
CONSTANTS
    Trees <- MCTrees
    Dists <- MCDists
    TreeBits <- MCTreeBits
    AccLog <- MCAccLog
    Symbols = {"s"}
    Predefined = "predefined"
    None = "none"
    BadBits = {12}
    BadLogs = {15}
    a = a
    b = b
    c = c
    Byte = {a, b, c}
    Histories <- MCHistories
    Literals <- MCLiterals
    Lengths = {0, 1, 2}
    Offsets = {1, 2, 3, 4, 5}
    Reach = 1
    MaxU32 = 99
    MaxOut = 4
    MaxOffset = 8
INVARIANTS LogsMatchTables OnlyDictionariesBringZeroes CountedIsPushed HistoryIsMoveToFront LiteralsAreUsedInOrder
PROPERTIES UsesWhatWasSentLast
