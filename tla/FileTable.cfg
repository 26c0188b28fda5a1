CONSTANTS
    NumBlocks = 6
    Direct = 2
    PerBlock = 2
    BitsPerSector = 4
    TableWord = 1
    Others = {}
    Fds = {1}
    Counts = {2, 5, 8}
    TableCalls = TRUE
    DirNames = {101}
SPECIFICATION MCSpec
INVARIANT ReadsExact
