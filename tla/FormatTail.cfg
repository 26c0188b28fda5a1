CONSTANTS
    BLOCK_SIZE = 4
    ByteBits = 2
    InodeBitmapLbc = 1
    InodeTableLbc = 2
    FirstSector = 3
    MinSectors = 2
    SectorCounts = {1, 8, 9, 12, 13, 14, 20, 21, 22}
    MaxPartitions = 2
    Remains = {0,1}
SPECIFICATION Spec
INVARIANT TailMarked
