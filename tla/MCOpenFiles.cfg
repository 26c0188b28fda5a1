CONSTANTS
    NULL = NULL
    Inodes <- MCInodes
    MAX_FILE_OPEN = 5
    MAX_FILES_OPEN_PER_PROC = 5
    HeapSize = 4
    MaxLeaks = 1
SPECIFICATION Spec
INVARIANTS TypeOK ListIsLive CountsMatchHolders DescriptorsWired
PROPERTY DescriptorKeepsItsInode
