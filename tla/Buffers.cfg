SPECIFICATION BuffersSpec
CONSTANTS
    a = a
    b = b
    Byte = {a, b}
    Uninit = Uninit
    Chunk = 2
    Pow2s <- MCPow2s
    MaxCall = 4
    MaxGrown = 3
    Extensions <- MCExtensions
    Windows = {1, 2}
    MaxOffset = 5
    MaxMatch = 3
    MaxOut = 4
    Dicts <- MCDicts
    Payloads <- MCPayloads
INVARIANTS IndicesInBounds DataInitialized CopiesStayApart MemoryFollowsUse
           NothingLostOrReordered HashCoversWhatLeft WindowIsKept ChunksAreSafe
PROPERTIES ImplementsByteQueue ConformingMatchesSucceed
