----------------------------- MODULE FileSystem -----------------------------
(***************************************************************************)
(* The system calls of fs.cpp on one mounted partition: bitmaps, inode     *)
(* table and directory blocks on the virtual disk, their copies in memory, *)
(* path search, and the descriptors of OpenFiles.tla.  The simulator runs  *)
(* one call at a time, so a call is one step.                              *)
(*                                                                         *)
(* Data: names are model values; blocks are numbered from the data area    *)
(* (block 0 is the root directory's) and hold directory entries or file    *)
(* data; a directory's i_size counts entries, a file's counts bytes.       *)
(* Bound: no file or directory outgrows its direct blocks; and what is in  *)
(* the uninitialised words of all_blocks (dir.cpp:35) leads to no entry of *)
(* the name that is searched.  DirData.tla has both.                       *)
(***************************************************************************)
EXTENDS Integers, Sequences, FiniteSets

CONSTANTS
    Names,           \* file names
    MaxInodes,       \* MAX_FILES_PER_PART, 4096 in fs.h
    NumBlocks,       \* blocks of the data area
    Direct,          \* direct blocks of an inode, 12
    PerBlock,        \* directory entries in a block, 512 / 24 = 21
    BlockSize,       \* BLOCK_SIZE, 512
    BitsPerSector,   \* bits of a bitmap in one sector, 4096
    SyncWidth,       \* values of the uint8_t inode_no of inode_sync, 256
    MAX_FILE_OPEN, MAX_FILES_OPEN_PER_PROC, HeapSize, MaxLeaks, NULL,
    CreatePaths, OpenPaths, UnlinkPaths, MkdirPaths, RmdirPaths, \* arguments of the calls
    WriteCounts,     \* byte counts of sys_write
    Premarked        \* blocks that partition_format marks besides the root's

Root == 0
Inodes == 0 .. MaxInodes - 1
Blocks == 0 .. NumBlocks - 1
NoBlock == -1                            \* a 0 in i_block
BlockIdx == 0 .. Direct - 1
EntryIdx == 0 .. PerBlock - 1
Positions == BlockIdx \X EntryIdx        \* of an entry in a directory
Components == Names \cup {".", ".."}
Paths == CreatePaths \cup OpenPaths \cup UnlinkPaths \cup MkdirPaths \cup RmdirPaths

ASSUME SizesAssumption ==
    /\ MaxInodes \in Nat \ {0} /\ NumBlocks \in Nat \ {0}
    /\ Direct \in Nat \ {0} /\ PerBlock \in Nat /\ PerBlock >= 2
    /\ BlockSize \in Nat \ {0} /\ BitsPerSector \in Nat \ {0} /\ SyncWidth \in Nat \ {0}
(* The fill at fs.cpp:153 starts at a wrong byte and marks blocks that     *)
(* exist: Marked in Format.tla, bits 712 to 1423 of two megabytes.         *)
ASSUME PremarkedAssumption == Premarked \subseteq Blocks \ {0}
ASSUME InputsAssumption ==
    /\ \A p \in Paths : p \in Seq(Components) /\ p # <<>>
    /\ WriteCounts \subseteq Nat \ {0}
    /\ NULL \notin Components /\ {".", ".."} \cap Names = {}
ASSUME OpenFilesAssumption ==
    /\ MAX_FILE_OPEN \in Nat /\ MAX_FILE_OPEN = MAX_FILES_OPEN_PER_PROC
    /\ HeapSize \in Nat \ {0} /\ MaxLeaks \in Nat
    /\ NULL \notin Nat /\ NULL \notin [i_no : Nat, i_open_counts : Nat]

VARIABLES
    inodeBitmap, blockBitmap,           \* cur_part->inode_bitmap, block_bitmap
    diskInodeBitmap, diskBlockBitmap,   \* the same on the virtual disk
    inodeTable, blocks,                 \* inode table and data area on the disk
    contents,                           \* what every in-core inode holds
    open_inodes, fileTable, fdTable, leaked,
    diedMidCall                         \* history: a call died after its first write

OF == INSTANCE OpenFiles

bitmaps == <<inodeBitmap, blockBitmap, diskInodeBitmap, diskBlockBitmap>>
vars == <<bitmaps, inodeTable, blocks, contents, open_inodes, fileTable, fdTable, leaked,
          diedMidCall>>

FileTypes == {"FT_UNKNOWN", "FT_REGULAR", "FT_DIRECTORY", "DATA"}
Entries == [filename : Components \cup {NULL}, i_no : Inodes, f_type : FileTypes]
ASSUME NullAssumption == NULL \notin Entries
Entry(name, n, type) == [filename |-> name, i_no |-> n, f_type |-> type]
ZeroBlock == [k \in EntryIdx |-> Entry(NULL, Root, "FT_UNKNOWN")]
DataBlock == [k \in EntryIdx |-> Entry(NULL, Root, "DATA")]
DotBlock(n, parent) == [ZeroBlock EXCEPT ![0] = Entry(".", n, "FT_DIRECTORY"),
                                         ![1] = Entry("..", parent, "FT_DIRECTORY")]

(* A negative i_size stands for the unsigned one after a wrap.             *)
InodeImages == [i_no : Inodes, i_size : Int, i_block : [BlockIdx -> Blocks \cup {NoBlock}]]
inode_init(n) == [i_no |-> n, i_size |-> 0, i_block |-> [k \in BlockIdx |-> NoBlock]]
ZeroInode == inode_init(0)               \* also what a cleared slot reads as

-----------------------------------------------------------------------------
(* Inodes: in core when open_inodes has them, else read from the table.    *)

inode_at(n) == IF OF!IsOpen(open_inodes, n) THEN contents[OF!InCoreOf(open_inodes, n)]
                                            ELSE inodeTable[n]

inode_sync(table, i) == [table EXCEPT ![i.i_no % SyncWidth] = i]

(* Definitions named _seeded hold a plausible bug, as in OpenFiles.tla.    *)
Updated_seeded(n, i) == contents                \* a copy that nobody shares

(* Assigning to the fields of an inode reached by inode_open(n).           *)
Updated(n, i) == IF OF!IsOpen(open_inodes, n)
                 THEN [contents EXCEPT ![OF!InCoreOf(open_inodes, n)] = i]
                 ELSE contents

(* inode_open reads the table only for an inode that is not in core.       *)
Loaded(cont, c, n) == IF OF!IsOpen(c, n) THEN cont
                      ELSE [cont EXCEPT ![OF!malloc(c)] = inodeTable[n]]

-----------------------------------------------------------------------------
(* Bitmaps.                                                                *)

IsLowestFree(x, used, all) == x \in all \ used /\ \A y \in all \ used : x <= y

bitmap_sync_seeded(mem, disk, S) == disk \cup (mem \cap S)   \* only sets bits

(* The sectors with the bits of S go to disk as they stand in memory.      *)
bitmap_sync(mem, disk, S) ==
    LET written(b) == \E s \in S : b \div BitsPerSector = s \div BitsPerSector
    IN  {b \in disk : ~written(b)} \cup {b \in mem : written(b)}

Takes_seeded(new, K, used) ==                   \* the bit is set too late
    \A k \in K : IsLowestFree(new[k], used, Blocks)

(* block_bitmap_alloc for each index of K in increasing order.             *)
Takes(new, K, used) ==
    \A k \in K : Cardinality({b \in Blocks \ used : b < new[k]})
                     = Cardinality({j \in K : j < k})

-----------------------------------------------------------------------------
(* Directories.                                                            *)

Precedes(p, q) == p[1] < q[1] \/ (p[1] = q[1] /\ p[2] < q[2])
First(S) == CHOOSE p \in S : \A q \in S : ~Precedes(q, p)

(* dir stands for the inode of an open struct dir.                         *)
InDir(dir, pos) == dir.i_block[pos[1]] # NoBlock
EntryAt(dir, pos) == blocks[dir.i_block[pos[1]]][pos[2]]

Matches(dir, name) == {pos \in Positions : InDir(dir, pos) /\ EntryAt(dir, pos).filename = name}

(* Where sync_dir_entry puts an entry: the first unused one, or the start  *)
(* of the first block the directory does not have yet.                     *)
Vacant(dir) == {pos \in Positions : IF InDir(dir, pos)
                                    THEN EntryAt(dir, pos).f_type = "FT_UNKNOWN"
                                    ELSE pos[2] = 0}

DirWithEntry_seeded(dir, pos, b) ==             \* i_size is left alone
    [dir EXCEPT !.i_block[pos[1]] = b]
DirWithEntry(dir, pos, b) == [dir EXCEPT !.i_size = @ + 1, !.i_block[pos[1]] = b]
BlockWithEntry(dir, pos, old, e) ==
    [(IF InDir(dir, pos) THEN old ELSE ZeroBlock) EXCEPT ![pos[2]] = e]

(* delete_dir_entry looks the entry up by inode number and passes over "." *)
(* and ".."; the last entry of a block other than the first frees it.      *)
Named(e) == e.f_type # "FT_UNKNOWN" /\ e.filename \notin {".", ".."}
EntriesOf(dir, n) == {pos \in Positions : /\ InDir(dir, pos)
                                          /\ Named(EntryAt(dir, pos))
                                          /\ EntryAt(dir, pos).i_no = n}
(* Two such entries in the first block that has one make it give up.       *)
Deletable(S) == S # {} /\ \A pos \in S : pos[1] = First(S)[1] => pos = First(S)
Reclaims_seeded(b, k) ==                        \* the first block too
    \A j \in EntryIdx : Named(blocks[b][j]) => j = k
Reclaims(b, k) == \A j \in EntryIdx : /\ blocks[b][j].filename # "."
                                      /\ Named(blocks[b][j]) => j = k

delete_dir_entry(d, n) ==
    LET old == inode_at(d)
        found == EntriesOf(old, n)
        pos == First(found)
        b == old.i_block[pos[1]]
        dir == [old EXCEPT !.i_size = @ - 1,
                           !.i_block[pos[1]] = IF Reclaims(b, pos[2]) THEN NoBlock ELSE b]
    IN  IF Deletable(found)
        THEN [freed    |-> IF Reclaims(b, pos[2]) THEN {b} ELSE {},
              blocks   |-> IF Reclaims(b, pos[2]) THEN blocks
                           ELSE [blocks EXCEPT ![b][pos[2]] = ZeroBlock[pos[2]]],
              contents |-> Updated(d, dir),
              table    |-> inode_sync(inodeTable, dir)]
        ELSE [freed |-> {}, blocks |-> blocks, contents |-> contents, table |-> inodeTable]

-----------------------------------------------------------------------------
(* The first entry of that name, NULL if there is none.                    *)
search_dir_entry[dir \in InodeImages] ==
    [name \in Components |->
        LET found == Matches(dir, name)
        IN  IF found = {} THEN NULL ELSE EntryAt(dir, First(found))]

(* The loop of search_file: dir is the directory open now, above the one   *)
(* before it, depth the components read; a component that is no directory  *)
(* ends the walk.  root_dir, where the walk starts, is the first in-core   *)
(* inode with its number as long as CacheCoherent holds.                   *)
Walks == [f_type : FileTypes, i_no : Inodes, dir : Inodes, above : Inodes, depth : Nat]
SearchResults == [f_type : FileTypes, i_no : Inodes, depth : Nat, parent_dir : Inodes]

follow[r \in Walks] ==
    [e \in Entries \cup {NULL} |->
        IF r.f_type # "FT_DIRECTORY" THEN r
        ELSE IF e = NULL THEN [r EXCEPT !.f_type = "FT_UNKNOWN", !.depth = @ + 1]
        ELSE IF e.f_type = "FT_DIRECTORY"
        THEN [r EXCEPT !.i_no = e.i_no, !.dir = e.i_no, !.above = inode_at(r.dir).i_no, !.depth = @ + 1]
        ELSE [r EXCEPT !.i_no = e.i_no, !.f_type = e.f_type, !.depth = @ + 1]]

search_file(p) ==
    LET walk[k \in 0 .. Len(p)] ==
            IF k = 0
            THEN [f_type |-> "FT_DIRECTORY", i_no |-> Root, dir |-> Root, above |-> Root,
                  depth |-> 0]
            ELSE follow[walk[k - 1]][search_dir_entry[inode_at(walk[k - 1].dir)][p[k]]]
        r == walk[Len(p)]
    IN  [f_type |-> r.f_type, i_no |-> r.i_no, depth |-> r.depth,
         parent_dir |-> IF r.f_type = "FT_DIRECTORY" THEN r.above ELSE r.dir]

Creatable_seeded(p, r) == r \in SearchResults /\ r.f_type = "FT_UNKNOWN"   \* at any depth

(* Every directory of p was reached but the last component is not there.   *)
Creatable(p, r) == r \in SearchResults /\ r.f_type = "FT_UNKNOWN" /\ r.depth = Len(p)
FindsFile(r) == r \in SearchResults /\ r.f_type = "FT_REGULAR"
FindsDir(r) == r \in SearchResults /\ r.f_type = "FT_DIRECTORY"

-----------------------------------------------------------------------------
Init ==
    /\ inodeBitmap = {Root} /\ diskInodeBitmap = {Root}
    /\ blockBitmap = {0} \cup Premarked /\ diskBlockBitmap = blockBitmap
    /\ inodeTable = [n \in Inodes |->
           IF n = Root THEN [i_no |-> Root, i_size |-> 2, i_block |-> [k \in BlockIdx |->
                                IF k = 0 THEN 0 ELSE NoBlock]]
                       ELSE ZeroInode]
    /\ blocks = [b \in Blocks |-> IF b = 0 THEN DotBlock(Root, Root) ELSE ZeroBlock]
    /\ contents = [a \in OF!Addrs |-> IF a = OF!RootAddr THEN inodeTable[Root] ELSE ZeroInode]
    /\ diedMidCall = FALSE
    /\ OF!Init

(* Entry e for a new inode i lands in directory d, b the block it goes to  *)
(* and own the blocks of i: sync_dir_entry, then inode_sync of the         *)
(* directory and of i, then bitmap_sync of i's bit.                        *)
Enter(d, e, i, own, image) ==
    LET dir == inode_at(d)
        free == Vacant(dir)
    IN  \E pos \in free : \E b \in Blocks :
        LET grown == DirWithEntry(dir, pos, b)
            taken == own \cup (IF InDir(dir, pos) THEN {} ELSE {b})
        IN  /\ \A q \in free : ~Precedes(q, pos)
            /\ IF InDir(dir, pos) THEN b = dir.i_block[pos[1]]
                                  ELSE IsLowestFree(b, blockBitmap \cup own, Blocks)
            /\ blockBitmap' = blockBitmap \cup taken
            /\ diskBlockBitmap' = bitmap_sync(blockBitmap', diskBlockBitmap, taken)
            /\ blocks' = [image EXCEPT ![b] = BlockWithEntry(dir, pos, @, e)]
            /\ inodeTable' = inode_sync(inode_sync(inodeTable, grown), i)
            /\ contents' = IF e.f_type = "FT_REGULAR"
                           THEN [Updated(d, grown) EXCEPT ![OF!malloc(open_inodes)] = i]
                           ELSE Updated(d, grown)
            /\ inodeBitmap' = inodeBitmap \cup {i.i_no}
            /\ diskInodeBitmap' = bitmap_sync(inodeBitmap', diskInodeBitmap, {i.i_no})
            /\ UNCHANGED diedMidCall

(* sys_open with O_CREAT of a name that is not there, and file_create.     *)
sys_open_create(p) ==
    LET r == search_file(p) IN
    /\ Creatable(p, r)
    /\ \E n \in Inodes :
          /\ IsLowestFree(n, inodeBitmap, Inodes)
          /\ Enter(r.parent_dir, Entry(p[Len(p)], n, "FT_REGULAR"), inode_init(n), {}, blocks)
          /\ OF!file_create(n)

sys_mkdir(p) ==
    LET r == search_file(p)
        d == r.parent_dir
    IN
    /\ Creatable(p, r)
    /\ \E n \in Inodes, b \in Blocks :
          /\ IsLowestFree(n, inodeBitmap, Inodes)
          /\ IsLowestFree(b, blockBitmap, Blocks)
          /\ Enter(d, Entry(p[Len(p)], n, "FT_DIRECTORY"),
                   [inode_init(n) EXCEPT !.i_size = 2, !.i_block[0] = b],
                   {b}, [blocks EXCEPT ![b] = DotBlock(n, inode_at(d).i_no)])
    /\ UNCHANGED <<open_inodes, fileTable, fdTable, leaked>>

(* sys_open of an existing file.  Only &root_dir needs no dir_close.       *)
sys_open_existing(p) ==
    LET r == search_file(p)
        n == r.i_no
        d == r.parent_dir
        searched == OF!inode_open(open_inodes, d, inodeTable[d].i_no)
    IN
    /\ FindsFile(r) /\ r.depth = Len(p)
    /\ IF Len(p) = 1
       THEN /\ OF!file_open(n, inodeTable[n].i_no)
            /\ contents' = Loaded(contents, open_inodes, n)
       ELSE /\ OF!file_open_below(n, inodeTable[n].i_no, d, inodeTable[d].i_no)
            /\ contents' = Loaded(Loaded(contents, open_inodes, d), searched, n)
    /\ UNCHANGED <<bitmaps, inodeTable, blocks, diedMidCall>>

(* A call returns and leaves the parent directory open: sys_open below the *)
(* root with a full file_table, and sys_unlink or sys_rmdir of a path that *)
(* leads back to the root (inode 0) through other directories.             *)
LeavesOpen(d) ==
    /\ OF!leak(d, inodeTable[d].i_no)
    /\ contents' = Loaded(contents, open_inodes, d)
    /\ UNCHANGED <<bitmaps, inodeTable, blocks, diedMidCall>>

sys_open_table_full(p) ==
    LET r == search_file(p) IN
    /\ FindsFile(r) /\ r.depth = Len(p) /\ Len(p) > 1
    /\ OF!FreeSlots = {}
    /\ LeavesOpen(r.parent_dir)

sys_remove_root(p) ==
    LET r == search_file(p) IN
    /\ FindsDir(r) /\ r.i_no = Root /\ Len(p) > 1
    /\ LeavesOpen(r.parent_dir)

sys_close_seeded(f) ==                          \* without inode_close
    /\ fdTable[f] # -1
    /\ fileTable' = [fileTable EXCEPT ![fdTable[f]] = NULL]
    /\ fdTable' = [fdTable EXCEPT ![f] = -1]
    /\ UNCHANGED <<bitmaps, inodeTable, blocks, contents, open_inodes, leaked, diedMidCall>>

sys_close(f) ==
    /\ OF!sys_close(f)
    /\ contents' = [a \in OF!Addrs |-> IF open_inodes'.object[a] = NULL THEN ZeroInode
                                                                       ELSE contents[a]]
    /\ UNCHANGED <<bitmaps, inodeTable, blocks, diedMidCall>>

(* The block indexes file_write allocates for: 0 on a first write, and all *)
(* from has_used_blocks to will_use_blocks - 1.                            *)
Missing(i, count) == (IF i.i_block[0] = NoBlock THEN {0} ELSE {}) \cup
                     ((i.i_size \div BlockSize + 1) .. ((i.i_size + count) \div BlockSize))
Touched(i, count) == (i.i_size \div BlockSize) .. ((i.i_size + count - 1) \div BlockSize)

(* Guards: the write ends in a direct block, and i_block has no address    *)
(* yet where file_write asserts it.                                        *)
Writable(i, count) == \A k \in Missing(i, count) : k \in BlockIdx /\ i.i_block[k] = NoBlock

sys_write(f, count) ==
    LET a == fileTable[fdTable[f]]
        i == contents[a]
        K == Missing(i, count)
    IN  /\ f \in OF!OpenFds
        /\ Writable(i, count)
        /\ \E new \in [K -> Blocks \ blockBitmap] :
              LET block == [k \in BlockIdx |-> IF k \in K THEN new[k] ELSE i.i_block[k]]
                  j == [i EXCEPT !.i_size = @ + count, !.i_block = block]
                  taken == {new[k] : k \in K}
              IN  /\ Takes(new, K, blockBitmap)
                  /\ blockBitmap' = blockBitmap \cup taken
                  /\ diskBlockBitmap' = bitmap_sync(blockBitmap', diskBlockBitmap, taken)
                  /\ blocks' = [b \in Blocks |-> IF \E k \in Touched(i, count) : block[k] = b
                                                 THEN DataBlock ELSE blocks[b]]
                  /\ contents' = [contents EXCEPT ![a] = j]
                  /\ inodeTable' = inode_sync(inodeTable, j)
        /\ UNCHANGED <<inodeBitmap, diskInodeBitmap, open_inodes, fileTable, fdTable, leaked,
                       diedMidCall>>

(* delete_dir_entry in directory d, then inode_release of n.               *)
(* Guard: inode_release finds inode n where it looks for it.               *)
Remove(d, n) ==
    LET del == delete_dir_entry(d, n)
        freed == del.freed \cup ({inode_at(n).i_block[k] : k \in BlockIdx} \ {NoBlock})
    IN  /\ inode_at(n).i_no = n
        /\ blockBitmap' = blockBitmap \ freed
        /\ diskBlockBitmap' = bitmap_sync(blockBitmap', diskBlockBitmap, freed)
        /\ inodeBitmap' = inodeBitmap \ {n}
        /\ diskInodeBitmap' = bitmap_sync(inodeBitmap', diskInodeBitmap, {n})
        /\ inodeTable' = [del.table EXCEPT ![n] = ZeroInode]
        /\ blocks' = del.blocks
        /\ contents' = del.contents
        /\ UNCHANGED <<open_inodes, fileTable, fdTable, leaked, diedMidCall>>

sys_unlink_seeded(p) ==                         \* of a file somebody has open
    LET r == search_file(p) IN
    FindsFile(r) /\ r.i_no # Root /\ Remove(r.parent_dir, r.i_no)

(* Unlike sys_open and sys_mkdir, no check that the whole path was read.   *)
sys_unlink(p) ==
    LET r == search_file(p) IN
    /\ FindsFile(r) /\ r.i_no # Root
    /\ ~OF!InUse(r.i_no)
    /\ Remove(r.parent_dir, r.i_no)

sys_rmdir(p) ==
    LET r == search_file(p)
        dir == inode_at(r.i_no)
    IN
    /\ FindsDir(r) /\ r.i_no # Root
    /\ dir.i_size = 2
    /\ \A k \in BlockIdx \ {0} : dir.i_block[k] = NoBlock
    /\ Remove(r.parent_dir, r.i_no)

-----------------------------------------------------------------------------
(* The process ends between two calls, or in one that has not written yet  *)
(* (file_create with no inode or no block left is one); the next process   *)
(* mounts what is on the disk.                                             *)
Mounts ==
    /\ inodeBitmap' = diskInodeBitmap' /\ blockBitmap' = diskBlockBitmap'
    /\ contents' = [a \in OF!Addrs |-> IF a = OF!RootAddr THEN inodeTable'[Root] ELSE ZeroInode]
    /\ OF!mount_partition

Restart ==
    /\ UNCHANGED <<diskInodeBitmap, diskBlockBitmap, inodeTable, blocks, diedMidCall>>
    /\ Mounts

(* A block is allocated and synced, the next allocation finds the bitmap   *)
(* full: bitmap_scan says -2, bitmap_set(-2) ends the process.             *)
DiesOutOfBlocks(image) ==
    /\ diskBlockBitmap' = bitmap_sync(Blocks, diskBlockBitmap, Blocks \ blockBitmap)
    /\ blocks' = image
    /\ diedMidCall' = TRUE
    /\ UNCHANGED <<diskInodeBitmap, inodeTable>>
    /\ Mounts

sys_mkdir_dies(p) ==
    LET r == search_file(p)
        dir == inode_at(r.parent_dir)
    IN
    /\ Creatable(p, r)
    /\ \A pos \in Vacant(dir) : ~InDir(dir, pos)
    /\ Vacant(dir) # {}
    /\ \E n \in Inodes, b \in Blocks :
          /\ IsLowestFree(n, inodeBitmap, Inodes)
          /\ Blocks \ blockBitmap = {b}
          /\ DiesOutOfBlocks([blocks EXCEPT ![b] = DotBlock(n, dir.i_no)])

sys_write_dies(f, count) ==
    LET i == contents[fileTable[fdTable[f]]] IN
    /\ f \in OF!OpenFds
    /\ Writable(i, count)
    /\ Blocks \ blockBitmap # {}
    /\ Cardinality(Blocks \ blockBitmap) < Cardinality(Missing(i, count))
    /\ DiesOutOfBlocks(blocks)

-----------------------------------------------------------------------------
Next ==
    \/ \E p \in CreatePaths : sys_open_create(p)
    \/ \E p \in OpenPaths : sys_open_existing(p) \/ sys_open_table_full(p)
    \/ \E f \in OF!Fds : sys_close(f)
    \/ \E f \in OF!Fds, count \in WriteCounts : sys_write(f, count) \/ sys_write_dies(f, count)
    \/ \E p \in UnlinkPaths : sys_unlink(p)
    \/ \E p \in UnlinkPaths \cup RmdirPaths : sys_remove_root(p)
    \/ \E p \in MkdirPaths : sys_mkdir(p) \/ sys_mkdir_dies(p)
    \/ \E p \in RmdirPaths : sys_rmdir(p)
    \/ Restart

Spec == Init /\ [][Next]_vars

-----------------------------------------------------------------------------
TypeOK ==
    /\ inodeBitmap \subseteq Inodes /\ diskInodeBitmap \subseteq Inodes
    /\ blockBitmap \subseteq Blocks /\ diskBlockBitmap \subseteq Blocks
    /\ inodeTable \in [Inodes -> InodeImages]
    /\ blocks \in [Blocks -> [EntryIdx -> Entries]]
    /\ contents \in [OF!Addrs -> InodeImages]
    /\ diedMidCall \in BOOLEAN
    /\ OF!TypeOK

LiveEntries(d) ==
    LET dir == inode_at(d) IN
    {EntryAt(dir, pos) : pos \in
        {q \in Positions : InDir(dir, q) /\ EntryAt(dir, q).f_type # "FT_UNKNOWN"}}
Children(d) == {e \in LiveEntries(d) : Named(e)}
Subdirs(d) == {e.i_no : e \in {c \in Children(d) : c.f_type = "FT_DIRECTORY"}}

(* The directories that can be reached from the root.                      *)
Directories ==
    LET within[k \in 0 .. MaxInodes] ==
            IF k = 0 THEN {Root}
            ELSE LET D == within[k - 1] IN D \cup UNION {Subdirs(d) : d \in D}
    IN  within[MaxInodes]

(* The directories form a tree: every allocated inode but the root has one *)
(* name in one reachable directory, no name leads to a free inode, every   *)
(* directory has its first block, where "." and ".." lead to itself and to *)
(* its parent, names do not repeat.                                        *)
NamespaceSound ==
    LET D == Directories
        links == UNION {{<<d, e>> : e \in Children(d)} : d \in D}
        Dot(d, k) == blocks[inode_at(d).i_block[0]][k]
    IN  /\ \A d \in D : InDir(inode_at(d), <<0, 0>>)
        /\ {x[2].i_no : x \in links} = inodeBitmap \ {Root}
        /\ \A x, y \in links : x[2].i_no = y[2].i_no => x = y
        /\ \A x, y \in links : x[1] = y[1] /\ x[2].filename = y[2].filename => x = y
        /\ \A d \in D : Dot(d, 0) = Entry(".", d, "FT_DIRECTORY")
        /\ Dot(Root, 1) = Entry("..", Root, "FT_DIRECTORY")
        /\ \A x \in links : x[2].f_type = "FT_DIRECTORY" =>
              Dot(x[2].i_no, 1) = Entry("..", x[1], "FT_DIRECTORY")

Owners == {x \in inodeBitmap \X BlockIdx : inode_at(x[1]).i_block[x[2]] # NoBlock}
OwnedBlocks == {inode_at(x[1]).i_block[x[2]] : x \in Owners}

(* No two places of the inodes in use name the same block, and a block an  *)
(* inode names is never free for the next allocation.                      *)
BlocksOwnedOnce ==
    /\ OwnedBlocks \subseteq blockBitmap
    /\ Cardinality(OwnedBlocks) = Cardinality(Owners)

(* The blocks that the format marked are lost for good: no inode ever gets *)
(* one and no call frees it.  Every other block that is marked used        *)
(* belongs to an inode, unless some call died between taking a block and   *)
(* recording it (fs.cpp:656).                                              *)
NoLostBlocks ==
    /\ Premarked \subseteq blockBitmap \ OwnedBlocks
    /\ ~diedMidCall => blockBitmap \subseteq OwnedBlocks \cup Premarked

(* open_inodes is only a buffer (inode.cpp:97): an inode in core is in use *)
(* on the disk, reads the same there, and is in core once.                 *)
CacheCoherent ==
    /\ \A a \in OF!Live(open_inodes) :
          LET n == open_inodes.object[a].i_no IN
          n \in inodeBitmap /\ contents[a] = inodeTable[n] /\ contents[a].i_no = n
    /\ \A a, c \in OF!Live(open_inodes) :
          open_inodes.object[a].i_no = open_inodes.object[c].i_no => a = c

(* i_size of a directory, all that dir_is_empty looks at, is the number of *)
(* its entries; every block but the first holds an entry of its own.       *)
DirSizesExact ==
    \A d \in Directories :
        LET dir == inode_at(d)
            used(k) == {j \in EntryIdx : EntryAt(dir, <<k, j>>).f_type # "FT_UNKNOWN"}
            held == {k \in BlockIdx : dir.i_block[k] # NoBlock}
        IN  /\ dir.i_size = Cardinality(UNION {{k} \X used(k) : k \in held})
            /\ \A k \in held : used(k) # {}

(* Between two calls nothing waits in memory to be written: the bitmaps    *)
(* and the inodes of the disk are those of memory.                         *)
DiskUpToDate ==
    /\ diskInodeBitmap = inodeBitmap /\ diskBlockBitmap = blockBitmap
    /\ \A n \in inodeBitmap : inodeTable[n] = inode_at(n)

(* inode.cpp:45: inode_sync writes an inode to the table, and inode_open   *)
(* reads it back: the slot of an inode in use holds that inode.            *)
InodeInItsSlot == \A n \in inodeBitmap : inodeTable[n].i_no = n
=============================================================================
