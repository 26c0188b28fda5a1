CONSTANTS
    NULL = NULL
    foo = foo
    bar = bar
    Names <- MCNames
    MaxInodes = 4
    NumBlocks = 6
    Direct = 2
    PerBlock = 3
    BlockSize = 2
    BitsPerSector = 8
    SyncWidth = 2
    MAX_FILE_OPEN = 5
    MAX_FILES_OPEN_PER_PROC = 5
    HeapSize = 4
    MaxLeaks = 1
    CreatePaths <- All
    OpenPaths <- Shallow
    UnlinkPaths <- All
    MkdirPaths <- All
    RmdirPaths <- All
    WriteCounts = {2}
    Premarked = {2}
SPECIFICATION Spec
VIEW View
INVARIANT InodeInItsSlot
