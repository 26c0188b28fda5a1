CONSTANTS
    NULL = NULL
    foo = foo
    bar = bar
    Names <- MCNames
    MaxInodes = 4
    NumBlocks = 5
    Direct = 2
    PerBlock = 3
    BlockSize = 2
    BitsPerSector = 8
    SyncWidth = 4
    MAX_FILE_OPEN = 5
    MAX_FILES_OPEN_PER_PROC = 5
    HeapSize = 4
    MaxLeaks = 1
    CreatePaths <- WithUp
    OpenPaths <- All
    UnlinkPaths <- AllAndUp
    MkdirPaths <- All
    RmdirPaths <- OnlyBar
    WriteCounts = {}
    Premarked = {2}
    ChdirPaths <- OnlyFoo
    CwdLimit = 1
SPECIFICATION WorkingDirSpec
VIEW WorkingDirView
INVARIANTS NamespaceSound CacheCoherent CwdPathLeadsBack ListingExact
