CONSTANTS
    NumBlocks = 6
    Direct = 2
    PerBlock = 2
    BitsPerSector = 4
    TableWord = 1
    Others = {2}
    Fds = {1, 2}
    Counts = {2, 5, 8}
    TableCalls = FALSE
    DirNames = {101, 102, 103, 104, 105}
SPECIFICATION MCSpec
CONSTRAINT Intact
INVARIANTS FileExact DirExact OthersUntouched BitmapWritten
PROPERTY ImplementsByteFile
