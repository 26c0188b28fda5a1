CONSTANTS
    NULL = NULL
    foo = foo
    bar = bar
    Names <- MCNames
    MaxInodes = 3
    NumBlocks = 6
    Direct = 2
    PerBlock = 3
    BlockSize = 2
    BitsPerSector = 8
    SyncWidth = 4
    MAX_FILE_OPEN = 4
    MAX_FILES_OPEN_PER_PROC = 4
    HeapSize = 4
    MaxLeaks = 1
    CreatePaths <- CreateIn
    OpenPaths <- Shallow
    UnlinkPaths <- CreateIn
    MkdirPaths <- CreateIn
    RmdirPaths <- CreateIn
    WriteCounts = {2}
    Premarked = {2}
    MaxCrashes = 1
SPECIFICATION DiskSpec
VIEW View
INVARIANTS WritesCoverCall UnsafeExactlyWhenExposed LooksEmptyIsEmpty
PROPERTY NamesChangeAtOnce
