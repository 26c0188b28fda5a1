-------------------------- MODULE FileSystemProofs --------------------------
(***************************************************************************)
(* Every system call changes descriptors and open inodes as OpenFiles.tla  *)
(* allows, and keeps the types, for every size of the partition.  The two  *)
(* need each other: a call reads the inode numbers it opens from the disk, *)
(* and reaches the inodes it writes through the descriptors.  From these,  *)
(* the tree of names, the owners of the blocks and the cached inodes stay  *)
(* right through every system call.                                        *)
(*                                                                         *)
(* Hypotheses of the second part, each of them broken by a run of this     *)
(* project: inode numbers fit in the uint8_t of inode_sync (Usable), rmdir *)
(* is not asked for "." or ".." (Usable), and not for a directory that is  *)
(* still in core (Careful).                                                *)
(***************************************************************************)
EXTENDS FileSystem, RecursionFacts

OFP == INSTANCE OpenFilesProofs

USE SizesAssumption, InputsAssumption, OpenFilesAssumption

-----------------------------------------------------------------------------
(* OF is OpenFiles as FileSystem uses it, OFP as its proofs know it.       *)

LEMMA OFAssumptions ==
    OFP!InodesAssumption /\ OFP!TablesAssumption /\ OFP!BoundsAssumption /\ OFP!NullAssumption
BY DEF OFP!InodesAssumption, OFP!TablesAssumption, OFP!BoundsAssumption, OFP!NullAssumption,
       OFP!Root, Inodes

LEMMA SameSets == OF!Addrs = OFP!Addrs /\ OF!Slots = OFP!Slots /\ OF!Fds = OFP!Fds
BY DEF OF!Addrs, OFP!Addrs, OF!Slots, OFP!Slots, OF!Fds, OFP!Fds

LEMMA SameLookup ==
    ASSUME NEW n
    PROVE  /\ OF!IsOpen(open_inodes, n) <=> OFP!IsOpen(open_inodes, n)
           /\ OF!InCoreOf(open_inodes, n) = OFP!InCoreOf(open_inodes, n)
BY Zenon DEF OF!IsOpen, OFP!IsOpen, OF!Matching, OFP!Matching, OF!InCoreOf, OFP!InCoreOf

LEMMA SameInit == OF!Init <=> OFP!Init
BY Zenon DEF OF!Init, OFP!Init, OF!OnlyRoot, OFP!OnlyRoot, OF!Addrs, OFP!Addrs, OF!RootAddr,
    OFP!RootAddr, OF!Root, OFP!Root, OF!Slots, OFP!Slots, OF!Fds, OFP!Fds

LEMMA SameNext == OF!Next <=> OFP!Next
BY Zenon DEF OF!Next, OFP!Next, OF!file_create, OFP!file_create, OF!file_open, OFP!file_open,
    OF!leak, OFP!leak, OF!file_open_below, OFP!file_open_below, OF!sys_close, OFP!sys_close,
    OF!mount_partition, OFP!mount_partition, OF!HasHeap, OFP!HasHeap, OF!Live, OFP!Live,
    OF!Addrs, OFP!Addrs, OF!malloc, OFP!malloc, OF!InstallFd, OFP!InstallFd, OF!Slots, OFP!Slots,
    OF!Fds, OFP!Fds, OF!IsFirst, OFP!IsFirst, OF!FreeSlots, OFP!FreeSlots, OF!FreeFds,
    OFP!FreeFds, OF!list_push, OFP!list_push, OF!IsOpen, OFP!IsOpen, OF!Matching, OFP!Matching,
    OF!InCoreOf, OFP!InCoreOf, OF!AddrOf, OFP!AddrOf, OF!inode_open, OFP!inode_open,
    OF!inode_close, OFP!inode_close, OF!IndexOf, OFP!IndexOf, OF!RemoveAt, OFP!RemoveAt,
    OF!OnlyRoot, OFP!OnlyRoot, OF!RootAddr, OFP!RootAddr, OF!Root, OFP!Root

LEMMA SameTypeOK == OF!TypeOK <=> OFP!TypeOK
BY Zenon DEF OF!TypeOK, OFP!TypeOK, OF!InCore, OFP!InCore, OF!Addrs, OFP!Addrs, OF!Slots,
    OFP!Slots, OF!Fds, OFP!Fds

OFvars == <<open_inodes, fileTable, fdTable, leaked>>

(* The inductive invariant.                                                *)
DiskType ==
    /\ inodeBitmap \subseteq Inodes /\ diskInodeBitmap \subseteq Inodes
    /\ blockBitmap \subseteq Blocks /\ diskBlockBitmap \subseteq Blocks
    /\ inodeTable \in [Inodes -> InodeImages]
    /\ blocks \in [Blocks -> [EntryIdx -> Entries]]
    /\ contents \in [OF!Addrs -> InodeImages]
    /\ diedMidCall \in BOOLEAN

IInv == DiskType /\ OFP!IInv

(* What the invariant of the descriptors says here.                        *)
LEMMA InCoreAddr ==
    ASSUME IInv, NEW n, OF!IsOpen(open_inodes, n)
    PROVE  OF!InCoreOf(open_inodes, n) \in OF!Addrs
<1>1. OFP!ListType(open_inodes) /\ OFP!Threaded(open_inodes)
  BY OFAssumptions, OFP!Disassemble DEF IInv
<1>2. OFP!InCoreOf(open_inodes, n) \in OFP!Addrs
  BY <1>1, OFAssumptions, SameLookup, OFP!InCoreOfIsLive
<1> QED BY <1>2, SameLookup, SameSets

LEMMA FdAddr ==
    ASSUME IInv, NEW f \in OF!OpenFds
    PROVE  fileTable[fdTable[f]] \in OF!Addrs
<1>1. OFP!FdsHold
  BY OFAssumptions, OFP!HeldIsLive DEF IInv
<1>2. f \in OFP!Fds /\ fdTable[f] # -1
  BY SameSets DEF OF!OpenFds, OF!FreeFds
<1> QED BY <1>1, <1>2, SameSets DEF OFP!FdsHold

-----------------------------------------------------------------------------
(* The operators keep the types.                                           *)

LEMMA IndexSets ==
    /\ Root \in Inodes /\ 0 \in BlockIdx /\ 0 \in EntryIdx /\ 1 \in EntryIdx
    /\ 0 \in Blocks /\ Inodes \subseteq Nat
BY DEF Root, Inodes, BlockIdx, EntryIdx, Blocks

LEMMA EntryType ==
    ASSUME NEW name \in Components \cup {NULL}, NEW n \in Inodes, NEW type \in FileTypes
    PROVE  Entry(name, n, type) \in Entries
BY DEF Entry, Entries

LEMMA ZeroBlockType == ZeroBlock \in [EntryIdx -> Entries] /\ DataBlock \in [EntryIdx -> Entries]
BY EntryType, IndexSets DEF ZeroBlock, DataBlock, FileTypes

LEMMA DotBlockType ==
    ASSUME NEW n \in Inodes, NEW parent \in Inodes
    PROVE  DotBlock(n, parent) \in [EntryIdx -> Entries]
<1>1. Entry(".", n, "FT_DIRECTORY") \in Entries /\ Entry("..", parent, "FT_DIRECTORY") \in Entries
  BY EntryType DEF Components, FileTypes
<1> QED BY <1>1, ZeroBlockType DEF DotBlock

(* Another size, and another address at one block index.                   *)
LEMMA WrittenInodeType ==
    ASSUME NEW i \in InodeImages, NEW s \in Int, NEW x, NEW v,
           x \in BlockIdx => v \in Blocks \cup {NoBlock}
    PROVE  [i EXCEPT !.i_size = s, !.i_block[x] = v] \in InodeImages
<1> DEFINE m == [i.i_block EXCEPT ![x] = v]
<1>1. /\ i.i_block \in [BlockIdx -> Blocks \cup {NoBlock}] /\ i.i_no \in Inodes
      /\ i = [i_no |-> i.i_no, i_size |-> i.i_size, i_block |-> i.i_block]
  BY DEF InodeImages
<1>2. m \in [BlockIdx -> Blocks \cup {NoBlock}]
  BY <1>1
<1>3. [i EXCEPT !.i_size = s, !.i_block[x] = v] = [i EXCEPT !.i_size = s, !.i_block = m]
  OBVIOUS
<1> HIDE DEF m
<1>4. [i EXCEPT !.i_size = s, !.i_block = m] \in InodeImages
  BY <1>1, <1>2 DEF InodeImages
<1> QED BY <1>3, <1>4

LEMMA NewInodeType ==
    ASSUME NEW n \in Inodes
    PROVE  /\ inode_init(n) \in InodeImages
           /\ inode_init(n).i_no = n
           /\ \A b \in Blocks : LET i == [inode_init(n) EXCEPT !.i_size = 2, !.i_block[0] = b]
                             IN  i \in InodeImages /\ i.i_no = n
<1>1. [k \in BlockIdx |-> NoBlock] \in [BlockIdx -> Blocks \cup {NoBlock}]
  OBVIOUS
<1>2. inode_init(n) \in InodeImages /\ inode_init(n).i_no = n
  BY <1>1 DEF inode_init, InodeImages
<1>3. ASSUME NEW b \in Blocks
      PROVE  LET i == [inode_init(n) EXCEPT !.i_size = 2, !.i_block[0] = b]
             IN  i \in InodeImages /\ i.i_no = n
  <2>1. inode_init(n) = [i_no |-> n, i_size |-> 0, i_block |-> inode_init(n).i_block]
    BY DEF inode_init
  <2>2. [inode_init(n) EXCEPT !.i_size = 2, !.i_block[0] = b].i_no = n
    BY <2>1
  <2>3. 2 \in Int /\ b \in Blocks \cup {NoBlock}
    OBVIOUS
  <2>4. [inode_init(n) EXCEPT !.i_size = 2, !.i_block[0] = b] \in InodeImages
    BY <1>2, <2>3, WrittenInodeType, Zenon
  <2> QED BY <2>2, <2>4, Zenon
<1> QED BY <1>2, <1>3

LEMMA ZeroInodeType == ZeroInode \in InodeImages
BY NewInodeType, IndexSets DEF ZeroInode, Root

LEMMA InodeAtType ==
    ASSUME IInv, NEW n \in Inodes
    PROVE  inode_at(n) \in InodeImages
BY InCoreAddr DEF inode_at, IInv, DiskType

LEMMA InodeSyncType ==
    ASSUME NEW table \in [Inodes -> InodeImages], NEW i \in InodeImages
    PROVE  inode_sync(table, i) \in [Inodes -> InodeImages]
BY DEF inode_sync

LEMMA UpdatedType ==
    ASSUME IInv, NEW n, NEW i \in InodeImages
    PROVE  Updated(n, i) \in [OF!Addrs -> InodeImages]
BY DEF Updated, IInv, DiskType

LEMMA LoadedType ==
    ASSUME IInv, NEW cont \in [OF!Addrs -> InodeImages], NEW c, NEW n \in Inodes
    PROVE  Loaded(cont, c, n) \in [OF!Addrs -> InodeImages]
<1>1. inodeTable[n] \in InodeImages
  BY DEF IInv, DiskType
<1> QED BY <1>1 DEF Loaded

LEMMA BitmapSyncType ==
    ASSUME NEW X, NEW mem \in SUBSET X, NEW disk \in SUBSET X, NEW S
    PROVE  bitmap_sync(mem, disk, S) \subseteq X
BY DEF bitmap_sync

LEMMA DirWithEntryType ==
    ASSUME NEW dir \in InodeImages, NEW pos \in Positions, NEW b \in Blocks
    PROVE  DirWithEntry(dir, pos, b) \in InodeImages
<1>1. dir.i_size + 1 \in Int
  BY DEF InodeImages
<1>2. [dir EXCEPT !.i_size = dir.i_size + 1, !.i_block[pos[1]] = b] \in InodeImages
  BY <1>1, WrittenInodeType, Zenon
<1> QED BY <1>2 DEF DirWithEntry

LEMMA BlockWithEntryType ==
    ASSUME NEW dir, NEW pos \in Positions, NEW old \in [EntryIdx -> Entries], NEW e \in Entries
    PROVE  BlockWithEntry(dir, pos, old, e) \in [EntryIdx -> Entries]
BY ZeroBlockType DEF BlockWithEntry, Positions

LEMMA TableInodes ==
    ASSUME IInv, NEW n \in Inodes
    PROVE  inodeTable[n].i_no \in Inodes
<1>1. inodeTable[n] \in InodeImages
  BY DEF IInv, DiskType
<1> QED BY <1>1 DEF InodeImages

(* sys_write extends the size and replaces the addresses of an image.       *)
LEMMA GrownInodeType ==
    ASSUME NEW i \in InodeImages, NEW count \in Nat,
           NEW block \in [BlockIdx -> Blocks \cup {NoBlock}]
    PROVE  [i EXCEPT !.i_size = @ + count, !.i_block = block] \in InodeImages
<1>1. i.i_size \in Int
  BY DEF InodeImages
<1>2. i.i_size + count \in Int
  BY <1>1
<1> QED BY <1>2 DEF InodeImages

(* Where an entry is not found, b and pos index nothing and an EXCEPT with *)
(* them changes nothing.                                                   *)
LEMMA DeleteType ==
    ASSUME IInv, NEW d \in Inodes, NEW n
    PROVE  LET del == delete_dir_entry(d, n)
           IN  /\ del.blocks \in [Blocks -> [EntryIdx -> Entries]]
               /\ del.contents \in [OF!Addrs -> InodeImages]
               /\ del.table \in [Inodes -> InodeImages]
<1> DEFINE old == inode_at(d)
           pos == First(EntriesOf(old, n))
           b == old.i_block[pos[1]]
           dir == [old EXCEPT !.i_size = @ - 1,
                              !.i_block[pos[1]] = IF Reclaims(b, pos[2]) THEN NoBlock ELSE b]
           wiped == [blocks EXCEPT ![b][pos[2]] = ZeroBlock[pos[2]]]
<1>1. old \in InodeImages
  BY InodeAtType
<1>2. dir \in InodeImages
  <2> DEFINE v == IF Reclaims(b, pos[2]) THEN NoBlock ELSE b
  <2>1. old.i_size - 1 \in Int /\ old.i_block \in [BlockIdx -> Blocks \cup {NoBlock}]
    BY <1>1 DEF InodeImages
  <2>2. pos[1] \in BlockIdx => v \in Blocks \cup {NoBlock}
    BY <2>1
  <2>3. dir = [old EXCEPT !.i_size = old.i_size - 1, !.i_block[pos[1]] = v]
    OBVIOUS
  <2> HIDE DEF old, pos, v, dir
  <2>4. [old EXCEPT !.i_size = old.i_size - 1, !.i_block[pos[1]] = v] \in InodeImages
    BY <1>1, <2>1, <2>2, WrittenInodeType, Zenon
  <2> QED BY <2>3, <2>4
<1>3. wiped \in [Blocks -> [EntryIdx -> Entries]]
  <2>1. blocks \in [Blocks -> [EntryIdx -> Entries]]
    BY DEF IInv, DiskType
  <2> HIDE DEF b, pos
  <2> QED BY <2>1, ZeroBlockType
<1> HIDE DEF dir, wiped
<1>4. Updated(d, dir) \in [OF!Addrs -> InodeImages] /\ inode_sync(inodeTable, dir) \in [Inodes -> InodeImages]
  BY <1>2, UpdatedType, InodeSyncType DEF IInv, DiskType
<1> USE DEF dir, wiped
<1>5. /\ blocks \in [Blocks -> [EntryIdx -> Entries]]
      /\ contents \in [OF!Addrs -> InodeImages]
      /\ inodeTable \in [Inodes -> InodeImages]
  BY DEF IInv, DiskType
<1> QED BY <1>3, <1>4, <1>5, Zenon DEF delete_dir_entry

-----------------------------------------------------------------------------
(* One lemma per action: the types again, and a step of OpenFiles.         *)

Fine == DiskType' /\ (OF!Next \/ UNCHANGED OFvars)

LEMMA EnterType ==
    ASSUME IInv, NEW d \in Inodes, NEW e \in Entries, NEW i \in InodeImages,
           NEW own \in SUBSET Blocks, NEW image \in [Blocks -> [EntryIdx -> Entries]],
           Enter(d, e, i, own, image)
    PROVE  DiskType'
<1> DEFINE dir == inode_at(d)
<1>1. PICK pos \in Vacant(dir), b \in Blocks :
        LET grown == DirWithEntry(dir, pos, b)
            taken == own \cup (IF InDir(dir, pos) THEN {} ELSE {b})
        IN  /\ blockBitmap' = blockBitmap \cup taken
            /\ diskBlockBitmap' = bitmap_sync(blockBitmap', diskBlockBitmap, taken)
            /\ blocks' = [image EXCEPT ![b] = BlockWithEntry(dir, pos, @, e)]
            /\ inodeTable' = inode_sync(inode_sync(inodeTable, grown), i)
            /\ contents' = IF e.f_type = "FT_REGULAR"
                           THEN [Updated(d, grown) EXCEPT ![OF!malloc(open_inodes)] = i]
                           ELSE Updated(d, grown)
            /\ inodeBitmap' = inodeBitmap \cup {i.i_no}
            /\ diskInodeBitmap' = bitmap_sync(inodeBitmap', diskInodeBitmap, {i.i_no})
            /\ diedMidCall' = diedMidCall
  BY Zenon DEF Enter
<1> DEFINE grown == DirWithEntry(dir, pos, b)
           taken == own \cup (IF InDir(dir, pos) THEN {} ELSE {b})
<1>2. pos \in Positions /\ dir \in InodeImages
  BY InodeAtType DEF Vacant
<1>3. grown \in InodeImages
  BY <1>2, DirWithEntryType
<1>4. /\ inodeBitmap \subseteq Inodes /\ diskInodeBitmap \subseteq Inodes
      /\ blockBitmap \subseteq Blocks /\ diskBlockBitmap \subseteq Blocks
      /\ inodeTable \in [Inodes -> InodeImages]
      /\ diedMidCall \in BOOLEAN
  BY DEF IInv, DiskType
<1>5. taken \subseteq Blocks
  OBVIOUS
<1> HIDE DEF taken, grown, dir
<1>6. blockBitmap' \subseteq Blocks /\ diskBlockBitmap' \subseteq Blocks
  <2>1. blockBitmap' = blockBitmap \cup taken /\ diskBlockBitmap' = bitmap_sync(blockBitmap', diskBlockBitmap, taken)
    BY <1>1 DEF taken
  <2>2. blockBitmap' \subseteq Blocks
    BY <1>4, <1>5, <2>1
  <2> QED BY <1>4, <2>1, <2>2, BitmapSyncType
<1>7. inodeBitmap' \subseteq Inodes /\ diskInodeBitmap' \subseteq Inodes
  <2>1. i.i_no \in Inodes
    BY DEF InodeImages
  <2>2. inodeBitmap' \subseteq Inodes
    BY <1>1, <1>4, <2>1
  <2> QED BY <1>1, <1>4, <2>2, BitmapSyncType
<1>8. blocks' \in [Blocks -> [EntryIdx -> Entries]]
  <2>1. BlockWithEntry(dir, pos, image[b], e) \in [EntryIdx -> Entries]
    BY <1>2, BlockWithEntryType
  <2> QED BY <1>1, <2>1
<1>9. inodeTable' \in [Inodes -> InodeImages]
  <2>1. inodeTable' = inode_sync(inode_sync(inodeTable, grown), i)
    BY <1>1 DEF grown
  <2> QED BY <1>3, <1>4, <2>1, InodeSyncType
<1>10. contents' \in [OF!Addrs -> InodeImages]
  <2>1. Updated(d, grown) \in [OF!Addrs -> InodeImages]
    BY <1>3, UpdatedType
  <2>2. contents' = IF e.f_type = "FT_REGULAR"
                    THEN [Updated(d, grown) EXCEPT ![OF!malloc(open_inodes)] = i]
                    ELSE Updated(d, grown)
    BY <1>1 DEF grown
  <2> QED BY <2>1, <2>2
<1> QED BY <1>1, <1>4, <1>6, <1>7, <1>8, <1>9, <1>10 DEF DiskType

LEMMA PathParts ==
    ASSUME NEW p \in Paths
    PROVE  p[Len(p)] \in Components
<1>1. p \in Seq(Components) /\ p # <<>>
  OBVIOUS
<1> QED BY <1>1

LEMMA FoundInodes ==
    ASSUME NEW p, search_file(p) \in SearchResults
    PROVE  search_file(p).i_no \in Inodes /\ search_file(p).parent_dir \in Inodes
BY DEF SearchResults

LEMMA sys_open_createStep ==
    ASSUME IInv, NEW p \in CreatePaths, sys_open_create(p)
    PROVE  Fine
<1> DEFINE r == search_file(p)
<1>1. r.parent_dir \in Inodes
  BY FoundInodes DEF sys_open_create, Creatable
<1>2. PICK n \in Inodes :
        /\ Enter(r.parent_dir, Entry(p[Len(p)], n, "FT_REGULAR"), inode_init(n), {}, blocks)
        /\ OF!file_create(n)
  BY DEF sys_open_create
<1>3. Entry(p[Len(p)], n, "FT_REGULAR") \in Entries
  BY PathParts, EntryType DEF Paths, FileTypes
<1>4. inode_init(n) \in InodeImages /\ blocks \in [Blocks -> [EntryIdx -> Entries]]
  BY NewInodeType DEF IInv, DiskType
<1>5. DiskType'
  BY <1>1, <1>2, <1>3, <1>4, EnterType
<1>6. OF!Next
  BY <1>2 DEF OF!Next
<1> QED BY <1>5, <1>6 DEF Fine

LEMMA sys_mkdirStep ==
    ASSUME IInv, NEW p \in MkdirPaths, sys_mkdir(p)
    PROVE  Fine
<1> DEFINE d == search_file(p).parent_dir
<1>1. d \in Inodes
  BY FoundInodes DEF sys_mkdir, Creatable
<1>2. PICK n \in Inodes, b \in Blocks :
        Enter(d, Entry(p[Len(p)], n, "FT_DIRECTORY"),
              [inode_init(n) EXCEPT !.i_size = 2, !.i_block[0] = b],
              {b}, [blocks EXCEPT ![b] = DotBlock(n, inode_at(d).i_no)])
  BY DEF sys_mkdir
<1>3. Entry(p[Len(p)], n, "FT_DIRECTORY") \in Entries
  BY PathParts, EntryType DEF Paths, FileTypes
<1>4. [inode_init(n) EXCEPT !.i_size = 2, !.i_block[0] = b] \in InodeImages
  BY NewInodeType
<1>5. [blocks EXCEPT ![b] = DotBlock(n, inode_at(d).i_no)] \in [Blocks -> [EntryIdx -> Entries]]
  <2>1. inode_at(d).i_no \in Inodes
    BY <1>1, InodeAtType DEF InodeImages
  <2> QED BY <2>1, DotBlockType DEF IInv, DiskType
<1> HIDE DEF d
<1>6. DiskType'
  BY <1>1, <1>2, <1>3, <1>4, <1>5, EnterType
<1>7. UNCHANGED OFvars
  BY DEF sys_mkdir, OFvars
<1> QED BY <1>6, <1>7 DEF Fine

LEMMA sys_open_existingStep ==
    ASSUME IInv, NEW p \in OpenPaths, sys_open_existing(p)
    PROVE  Fine
<1> DEFINE r == search_file(p)
           n == r.i_no
           d == r.parent_dir
           searched == OF!inode_open(open_inodes, d, inodeTable[d].i_no)
<1>1. n \in Inodes /\ d \in Inodes
  BY FoundInodes DEF sys_open_existing, FindsFile
<1>2. inodeTable[n].i_no \in Inodes /\ inodeTable[d].i_no \in Inodes
  BY <1>1, TableInodes
<1>3. IF Len(p) = 1
      THEN /\ OF!file_open(n, inodeTable[n].i_no)
           /\ contents' = Loaded(contents, open_inodes, n)
      ELSE /\ OF!file_open_below(n, inodeTable[n].i_no, d, inodeTable[d].i_no)
           /\ contents' = Loaded(Loaded(contents, open_inodes, d), searched, n)
  BY Zenon DEF sys_open_existing
<1> HIDE DEF r, n, d, searched
<1>4. OF!Next
  BY <1>1, <1>2, <1>3, Zenon DEF OF!Next
<1>5. contents \in [OF!Addrs -> InodeImages]
  BY DEF IInv, DiskType
<1>6. contents' \in [OF!Addrs -> InodeImages]
  <2>1. Loaded(contents, open_inodes, d) \in [OF!Addrs -> InodeImages]
    BY <1>1, <1>5, LoadedType
  <2>2. Loaded(Loaded(contents, open_inodes, d), searched, n) \in [OF!Addrs -> InodeImages]
    BY <1>1, <2>1, LoadedType
  <2>3. Loaded(contents, open_inodes, n) \in [OF!Addrs -> InodeImages]
    BY <1>1, <1>5, LoadedType
  <2> QED BY <1>3, <2>2, <2>3
<1>7. UNCHANGED <<bitmaps, inodeTable, blocks, diedMidCall>>
  BY DEF sys_open_existing
<1>8. DiskType'
  BY <1>6, <1>7 DEF IInv, DiskType, bitmaps
<1> QED BY <1>4, <1>8 DEF Fine

LEMMA LeavesOpenStep ==
    ASSUME IInv, NEW d \in Inodes, LeavesOpen(d)
    PROVE  Fine
<1>1. OF!Next
  BY TableInodes, Zenon DEF LeavesOpen, OF!Next
<1>2. contents' \in [OF!Addrs -> InodeImages]
  BY LoadedType DEF LeavesOpen, IInv, DiskType
<1>3. DiskType'
  BY <1>2 DEF LeavesOpen, IInv, DiskType, bitmaps
<1> QED BY <1>1, <1>3 DEF Fine

LEMMA sys_open_table_fullStep ==
    ASSUME IInv, NEW p, sys_open_table_full(p)
    PROVE  Fine
BY FoundInodes, LeavesOpenStep DEF sys_open_table_full, FindsFile

LEMMA sys_remove_rootStep ==
    ASSUME IInv, NEW p, sys_remove_root(p)
    PROVE  Fine
BY FoundInodes, LeavesOpenStep DEF sys_remove_root, FindsDir

LEMMA sys_closeStep ==
    ASSUME IInv, NEW f \in OF!Fds, sys_close(f)
    PROVE  Fine
<1>1. OF!Next
  BY Zenon DEF sys_close, OF!Next
<1>2. contents' \in [OF!Addrs -> InodeImages]
  BY ZeroInodeType DEF sys_close, IInv, DiskType
<1>3. DiskType'
  BY <1>2 DEF sys_close, IInv, DiskType, bitmaps
<1> QED BY <1>1, <1>3 DEF Fine

(* The blocks of a written file are its old ones and the new ones.         *)
LEMMA sys_writeStep ==
    ASSUME IInv, NEW f \in OF!Fds, NEW count \in WriteCounts, sys_write(f, count)
    PROVE  Fine
<1> DEFINE a == fileTable[fdTable[f]]
           i == contents[a]
           K == Missing(i, count)
<1>1. a \in OF!Addrs /\ i \in InodeImages
  <2>1. f \in OF!OpenFds
    BY Zenon DEF sys_write
  <2>2. a \in OF!Addrs
    BY <2>1, FdAddr
  <2> QED BY <2>2 DEF IInv, DiskType
<1>2. PICK new \in [K -> Blocks \ blockBitmap] :
        LET block == [k \in BlockIdx |-> IF k \in K THEN new[k] ELSE i.i_block[k]]
            j == [i EXCEPT !.i_size = @ + count, !.i_block = block]
            taken == {new[k] : k \in K}
        IN  /\ blockBitmap' = blockBitmap \cup taken
            /\ diskBlockBitmap' = bitmap_sync(blockBitmap', diskBlockBitmap, taken)
            /\ blocks' = [b \in Blocks |-> IF \E k \in Touched(i, count) : block[k] = b
                                           THEN DataBlock ELSE blocks[b]]
            /\ contents' = [contents EXCEPT ![a] = j]
            /\ inodeTable' = inode_sync(inodeTable, j)
  BY Zenon DEF sys_write
<1> DEFINE block == [k \in BlockIdx |-> IF k \in K THEN new[k] ELSE i.i_block[k]]
           j == [i EXCEPT !.i_size = @ + count, !.i_block = block]
           taken == {new[k] : k \in K}
<1>3. block \in [BlockIdx -> Blocks \cup {NoBlock}] /\ taken \subseteq Blocks
  <2>1. i.i_block \in [BlockIdx -> Blocks \cup {NoBlock}]
    BY <1>1 DEF InodeImages
  <2> HIDE DEF i, K
  <2> QED BY <2>1
<1>4. UNCHANGED <<inodeBitmap, diskInodeBitmap, diedMidCall>> /\ UNCHANGED OFvars
  BY Zenon DEF sys_write, OFvars
<1> HIDE DEF a, K, taken, block
<1>5. j \in InodeImages
  <2>1. count \in Nat
    BY InputsAssumption
  <2> HIDE DEF i
  <2>2. i \in InodeImages
    BY <1>1
  <2> QED BY <1>3, <2>1, <2>2, GrownInodeType
<1> HIDE DEF j
<1>6. /\ blockBitmap' = blockBitmap \cup taken
      /\ diskBlockBitmap' = bitmap_sync(blockBitmap', diskBlockBitmap, taken)
      /\ contents' = [contents EXCEPT ![a] = j]
      /\ inodeTable' = inode_sync(inodeTable, j)
      /\ blocks' = [b \in Blocks |-> IF \E k \in Touched(i, count) : block[k] = b
                                     THEN DataBlock ELSE blocks[b]]
  BY <1>2 DEF a, K, taken, block, j
<1>7. blockBitmap' \subseteq Blocks /\ diskBlockBitmap' \subseteq Blocks
  <2>1. blockBitmap' \subseteq Blocks
    BY <1>3, <1>6 DEF IInv, DiskType
  <2> QED BY <1>6, <2>1, BitmapSyncType DEF IInv, DiskType
<1>8. blocks' \in [Blocks -> [EntryIdx -> Entries]]
  <2>1. blocks \in [Blocks -> [EntryIdx -> Entries]]
    BY DEF IInv, DiskType
  <2> QED BY <1>6, <2>1, ZeroBlockType
<1>9. contents' \in [OF!Addrs -> InodeImages] /\ inodeTable' \in [Inodes -> InodeImages]
  BY <1>1, <1>5, <1>6, InodeSyncType DEF IInv, DiskType
<1>10. DiskType'
  BY <1>4, <1>7, <1>8, <1>9 DEF IInv, DiskType
<1> QED BY <1>4, <1>10 DEF Fine

LEMMA RemoveStep ==
    ASSUME IInv, NEW d \in Inodes, NEW n \in Inodes, Remove(d, n)
    PROVE  Fine
<1> DEFINE del == delete_dir_entry(d, n)
           freed == del.freed \cup ({inode_at(n).i_block[k] : k \in BlockIdx} \ {NoBlock})
<1>1. /\ blockBitmap' = blockBitmap \ freed
      /\ diskBlockBitmap' = bitmap_sync(blockBitmap', diskBlockBitmap, freed)
      /\ inodeBitmap' = inodeBitmap \ {n}
      /\ diskInodeBitmap' = bitmap_sync(inodeBitmap', diskInodeBitmap, {n})
      /\ inodeTable' = [del.table EXCEPT ![n] = ZeroInode]
      /\ blocks' = del.blocks
      /\ contents' = del.contents
      /\ diedMidCall' = diedMidCall
      /\ UNCHANGED OFvars
  BY Zenon DEF Remove, OFvars
<1>2. /\ del.blocks \in [Blocks -> [EntryIdx -> Entries]]
      /\ del.contents \in [OF!Addrs -> InodeImages]
      /\ del.table \in [Inodes -> InodeImages]
  BY DeleteType, Zenon
<1> HIDE DEF del, freed
<1>3. inodeTable' \in [Inodes -> InodeImages]
  BY <1>1, <1>2, ZeroInodeType
<1>4. blockBitmap' \subseteq Blocks /\ inodeBitmap' \subseteq Inodes
  BY <1>1 DEF IInv, DiskType
<1>5. diskBlockBitmap' \subseteq Blocks /\ diskInodeBitmap' \subseteq Inodes
  BY <1>1, <1>4, BitmapSyncType DEF IInv, DiskType
<1>6. DiskType'
  BY <1>1, <1>2, <1>3, <1>4, <1>5 DEF IInv, DiskType
<1> QED BY <1>1, <1>6 DEF Fine

LEMMA sys_unlinkStep ==
    ASSUME IInv, NEW p, sys_unlink(p)
    PROVE  Fine
BY FoundInodes, RemoveStep DEF sys_unlink, FindsFile

LEMMA sys_rmdirStep ==
    ASSUME IInv, NEW p, sys_rmdir(p)
    PROVE  Fine
BY FoundInodes, RemoveStep DEF sys_rmdir, FindsDir

LEMMA MountsStep ==
    ASSUME inodeTable' \in [Inodes -> InodeImages], blocks' \in [Blocks -> [EntryIdx -> Entries]],
           diskInodeBitmap' \subseteq Inodes, diskBlockBitmap' \subseteq Blocks,
           diedMidCall' \in BOOLEAN, Mounts
    PROVE  Fine
<1>1. OF!Next
  BY Zenon DEF Mounts, OF!Next
<1>2. inodeTable'[Root] \in InodeImages
  BY IndexSets
<1>3. contents' \in [OF!Addrs -> InodeImages]
  BY <1>2, ZeroInodeType DEF Mounts
<1>4. DiskType'
  BY <1>3 DEF Mounts, DiskType
<1> QED BY <1>1, <1>4 DEF Fine

LEMMA RestartStep ==
    ASSUME IInv, Restart
    PROVE  Fine
<1>1. /\ inodeTable' \in [Inodes -> InodeImages] /\ blocks' \in [Blocks -> [EntryIdx -> Entries]]
      /\ diskInodeBitmap' \subseteq Inodes /\ diskBlockBitmap' \subseteq Blocks
      /\ diedMidCall' \in BOOLEAN
  BY DEF IInv, DiskType, Restart
<1> QED BY <1>1, MountsStep DEF Restart

LEMMA DiesOutOfBlocksStep ==
    ASSUME IInv, NEW image \in [Blocks -> [EntryIdx -> Entries]], DiesOutOfBlocks(image)
    PROVE  Fine
<1>1. diskBlockBitmap' \subseteq Blocks
  BY BitmapSyncType DEF DiesOutOfBlocks, IInv, DiskType
<1>2. /\ inodeTable' \in [Inodes -> InodeImages] /\ blocks' \in [Blocks -> [EntryIdx -> Entries]]
      /\ diskInodeBitmap' \subseteq Inodes /\ diedMidCall' \in BOOLEAN
  BY DEF IInv, DiskType, DiesOutOfBlocks
<1> QED BY <1>1, <1>2, MountsStep DEF DiesOutOfBlocks

LEMMA sys_mkdir_diesStep ==
    ASSUME IInv, NEW p, sys_mkdir_dies(p)
    PROVE  Fine
<1> DEFINE d == search_file(p).parent_dir
<1>1. d \in Inodes
  BY FoundInodes DEF sys_mkdir_dies, Creatable
<1>2. PICK n \in Inodes, b \in Blocks :
        DiesOutOfBlocks([blocks EXCEPT ![b] = DotBlock(n, inode_at(d).i_no)])
  BY Zenon DEF sys_mkdir_dies
<1>3. inode_at(d).i_no \in Inodes
  BY <1>1, InodeAtType DEF InodeImages
<1>4. [blocks EXCEPT ![b] = DotBlock(n, inode_at(d).i_no)] \in [Blocks -> [EntryIdx -> Entries]]
  BY <1>3, DotBlockType DEF IInv, DiskType
<1> QED BY <1>2, <1>4, DiesOutOfBlocksStep

LEMMA sys_write_diesStep ==
    ASSUME IInv, NEW f, NEW count, sys_write_dies(f, count)
    PROVE  Fine
<1>1. blocks \in [Blocks -> [EntryIdx -> Entries]] /\ DiesOutOfBlocks(blocks)
  BY Zenon DEF sys_write_dies, IInv, DiskType
<1> QED BY <1>1, DiesOutOfBlocksStep

-----------------------------------------------------------------------------
LEMMA NextFine ==
    ASSUME IInv, [Next]_vars
    PROVE  Fine
<1>1. CASE Next
  BY <1>1, sys_open_createStep, sys_open_existingStep, sys_open_table_fullStep, sys_closeStep,
     sys_writeStep, sys_write_diesStep, sys_unlinkStep, sys_remove_rootStep, sys_mkdirStep,
     sys_mkdir_diesStep, sys_rmdirStep, RestartStep, Zenon DEF Next
<1>2. CASE UNCHANGED vars
  BY <1>2 DEF vars, bitmaps, OFvars, IInv, DiskType, Fine
<1> QED BY <1>1, <1>2

LEMMA InitIInv == Init => IInv
<1> SUFFICES ASSUME Init PROVE IInv
  OBVIOUS
<1>1. OFP!IInv
  BY OFAssumptions, SameInit, OFP!InitIInv DEF Init
<1>2. [k \in BlockIdx |-> IF k = 0 THEN 0 ELSE NoBlock] \in [BlockIdx -> Blocks \cup {NoBlock}]
  BY IndexSets
<1>3. [i_no |-> Root, i_size |-> 2, i_block |-> [k \in BlockIdx |-> IF k = 0 THEN 0 ELSE NoBlock]]
          \in InodeImages
  BY <1>2, IndexSets DEF InodeImages
<1>4. inodeTable \in [Inodes -> InodeImages]
  BY <1>3, ZeroInodeType DEF Init
<1>5. contents \in [OF!Addrs -> InodeImages]
  BY <1>4, ZeroInodeType, IndexSets DEF Init
<1>6. blocks \in [Blocks -> [EntryIdx -> Entries]]
  BY DotBlockType, ZeroBlockType, IndexSets DEF Init
<1>7. inodeBitmap \subseteq Inodes /\ diskInodeBitmap \subseteq Inodes
      /\ blockBitmap \subseteq Blocks /\ diskBlockBitmap \subseteq Blocks
  <2>1. Root \in Inodes /\ {0} \cup Premarked \subseteq Blocks
    BY IndexSets, PremarkedAssumption
  <2> QED BY <2>1 DEF Init
<1>8. diedMidCall \in BOOLEAN
  BY DEF Init
<1>9. DiskType
  BY <1>4, <1>5, <1>6, <1>7, <1>8 DEF DiskType
<1> QED BY <1>1, <1>9 DEF IInv

LEMMA NextIInv ==
    ASSUME IInv, [Next]_vars
    PROVE  IInv' /\ [OF!Next]_OFvars
<1>1. Fine
  BY NextFine
<1>2. [OFP!Next]_(OFP!vars)
  BY <1>1, SameNext DEF Fine, OFvars, OFP!vars
<1>3. OFP!IInv'
  BY <1>2, OFAssumptions, OFP!NextStep DEF IInv
<1> QED BY <1>1, <1>3 DEF Fine, IInv

(* The invariant holds in every reachable state.                           *)
THEOREM SpecIInv == Spec => []IInv
<1>1. IInv /\ [Next]_vars => IInv'
  BY NextIInv
<1> QED BY <1>1, InitIInv, PTL DEF Spec

(* Whatever the sizes of the partition and the arguments of the calls,     *)
(* every inode number, block number and inode address that memory or disk  *)
(* holds is one there is: no call indexes a table outside its bounds.      *)
THEOREM TypeCorrect == Spec => []TypeOK
<1>1. IInv => TypeOK
  <2> SUFFICES ASSUME IInv PROVE TypeOK
    OBVIOUS
  <2>1. OFP!TypeOK
    BY DEF IInv, OFP!IInv
  <2> QED BY <2>1, SameTypeOK DEF IInv, DiskType, TypeOK
<1> QED BY <1>1, SpecIInv, PTL

(* In the whole program too, every reference count is the number of its    *)
(* holders and descriptor f names slot f: whatever else the calls do to    *)
(* the disk, no close frees an in-core inode twice or one still in use.    *)
THEOREM DescriptorsSound == Spec => [](OFP!CountsMatchHolders /\ OFP!DescriptorsWired)
<1>1. IInv => OFP!CountsMatchHolders /\ OFP!DescriptorsWired
  BY DEF IInv, OFP!IInv
<1> QED BY <1>1, SpecIInv, PTL

HIDE SizesAssumption
HIDE InputsAssumption
HIDE OpenFilesAssumption

-----------------------------------------------------------------------------
(* The tree of directories on the disk, as one inode table t, one data     *)
(* area bl and one set ib of inodes in use hold it, and what adding an     *)
(* entry, taking one out and writing a file do to it.  No variable occurs  *)
(* here: the second part reads these facts for the state before and the    *)
(* state after a call.                                                     *)


(* An address in an inode, a directory entry, and the places that have one.*)
At(t, n, k) == t[n].i_block[k]
Has(t, d, q) == At(t, d, q[1]) # NoBlock
Ent(t, bl, d, q) == bl[At(t, d, q[1])][q[2]]
Unused == Entry(NULL, Root, "FT_UNKNOWN")
Used(t, bl, d) == {q \in Positions : Has(t, d, q) /\ Ent(t, bl, d, q).f_type # "FT_UNKNOWN"}
Dots == {<<0, 0>>, <<0, 1>>}

(* The tree: D the directories, up[n] the one that has the entry of n,     *)
(* place[n] where, and depth[n] its distance from the root.                *)
TreeType(ib, D, up, place, depth) ==
    /\ Root \in D /\ D \subseteq ib /\ ib \subseteq Inodes
    /\ up \in [Inodes -> Inodes] /\ \A n \in ib : up[n] \in D
    /\ place \in [Inodes -> Positions] /\ depth \in [Inodes -> Nat]
    /\ up[Root] = Root

DotsRight(D, up, t, bl) ==
    \A d \in D : /\ Dots \subseteq Used(t, bl, d)
                 /\ Ent(t, bl, d, <<0, 0>>) = Entry(".", d, "FT_DIRECTORY")
                 /\ Ent(t, bl, d, <<0, 1>>) = Entry("..", up[d], "FT_DIRECTORY")

(* Entry e at place q of d leads to an inode in use whose home is there.   *)
Leads(ib, D, up, place, d, q, e) ==
    /\ e.filename \in Names
    /\ e.i_no \in ib /\ e.i_no # Root
    /\ e.f_type = IF e.i_no \in D THEN "FT_DIRECTORY" ELSE "FT_REGULAR"
    /\ up[e.i_no] = d /\ place[e.i_no] = q
EntriesRight(ib, D, up, place, t, bl) ==
    \A d \in D : \A q \in Used(t, bl, d) \ Dots : Leads(ib, D, up, place, d, q, Ent(t, bl, d, q))
HomesRight(ib, up, place, t, bl) ==
    \A n \in ib : n # Root =>
        /\ place[n] \in Used(t, bl, up[n]) \ Dots
        /\ Ent(t, bl, up[n], place[n]).i_no = n

NamesOnce(D, t, bl) ==
    \A d \in D : \A q, r \in Used(t, bl, d) :
        Ent(t, bl, d, q).filename = Ent(t, bl, d, r).filename => q = r
RestUnused(D, t, bl) ==
    \A d \in D, q \in Positions :
        Has(t, d, q) /\ q \notin Used(t, bl, d) => Ent(t, bl, d, q) = Unused
SizesRight(D, t, bl) ==
    \A d \in D : /\ t[d].i_size = Cardinality(Used(t, bl, d))
                 /\ \A k \in BlockIdx : At(t, d, k) # NoBlock =>
                        \E j \in EntryIdx : <<k, j>> \in Used(t, bl, d)
DepthsRight(D, up, depth) ==
    depth[Root] = 0 /\ \A d \in D : d # Root => depth[d] = depth[up[d]] + 1
FilesRight(ib, D, t) ==
    \A n \in ib : n \notin D => t[n].i_size \in Nat /\ t[n].i_size \div BlockSize \in BlockIdx

Tree(ib, D, up, place, depth, t, bl) ==
    /\ TreeType(ib, D, up, place, depth)
    /\ DotsRight(D, up, t, bl)
    /\ EntriesRight(ib, D, up, place, t, bl) /\ HomesRight(ib, up, place, t, bl)
    /\ NamesOnce(D, t, bl) /\ RestUnused(D, t, bl) /\ SizesRight(D, t, bl)
    /\ DepthsRight(D, up, depth) /\ FilesRight(ib, D, t)

LEMMA PlaceFacts ==
    /\ IsFiniteSet(Positions) /\ Dots \subseteq Positions
    /\ IsFiniteSet(Dots) /\ Cardinality(Dots) = 2
    /\ \A t, bl, d : Used(t, bl, d) \subseteq Positions /\ IsFiniteSet(Used(t, bl, d))
                     /\ Cardinality(Used(t, bl, d)) \in Nat
<1>1. IsFiniteSet(BlockIdx) /\ IsFiniteSet(EntryIdx)
  <2>1. 0 \in Int /\ Direct - 1 \in Int /\ PerBlock - 1 \in Int
    BY SizesAssumption
  <2> QED BY <2>1, FS_Interval DEF BlockIdx, EntryIdx
<1>2. IsFiniteSet(Positions)
  BY <1>1, FS_Product DEF Positions
<1>3. Dots \subseteq Positions
  BY IndexSets DEF Dots, Positions
<1>4. IsFiniteSet(Dots) /\ Cardinality(Dots) = 2
  <2>1. Dots = {<<0, 0>>} \cup {<<0, 1>>} /\ <<0, 1>> \notin {<<0, 0>>}
    BY DEF Dots
  <2>2. IsFiniteSet({<<0, 0>>}) /\ Cardinality({<<0, 0>>}) = 1
    BY FS_Singleton
  <2>3. /\ IsFiniteSet({<<0, 0>>} \cup {<<0, 1>>})
        /\ Cardinality({<<0, 0>>} \cup {<<0, 1>>}) = Cardinality({<<0, 0>>}) + 1
    BY <2>1, <2>2, FS_AddElement
  <2> QED BY <2>1, <2>2, <2>3
<1>5. ASSUME NEW t, NEW bl, NEW d
      PROVE  Used(t, bl, d) \subseteq Positions /\ IsFiniteSet(Used(t, bl, d))
             /\ Cardinality(Used(t, bl, d)) \in Nat
  <2>1. Used(t, bl, d) \subseteq Positions
    BY DEF Used
  <2>2. IsFiniteSet(Used(t, bl, d))
    BY <1>2, <2>1, FS_Subset
  <2> QED BY <2>1, <2>2, FS_CardinalityType
<1> QED BY <1>2, <1>3, <1>4, <1>5

-----------------------------------------------------------------------------
(* The directories of D from (t, bl) to (u, cl): only entry e is new, at   *)
(* place pos of d.                                                         *)
Grows(D, t, bl, u, cl, d, pos, e) ==
    /\ d \in D /\ pos \in Positions /\ pos \notin Used(t, bl, d)
    /\ \A m \in D : Used(u, cl, m) = IF m = d THEN Used(t, bl, m) \cup {pos} ELSE Used(t, bl, m)
    /\ \A m \in D : \A q \in Used(t, bl, m) : Ent(u, cl, m, q) = Ent(t, bl, m, q)
    /\ Ent(u, cl, d, pos) = e
    /\ RestUnused(D, u, cl)
    /\ \A m \in D : u[m].i_size = IF m = d THEN t[m].i_size + 1 ELSE t[m].i_size
    /\ \A m \in D, k \in BlockIdx :
          At(u, m, k) # NoBlock => \E j \in EntryIdx : <<k, j>> \in Used(u, cl, m)

(* A new directory n in d.                                                 *)
FreshDir(u, cl, n, d) ==
    /\ Used(u, cl, n) = Dots
    /\ Ent(u, cl, n, <<0, 0>>) = Entry(".", n, "FT_DIRECTORY")
    /\ Ent(u, cl, n, <<0, 1>>) = Entry("..", d, "FT_DIRECTORY")
    /\ \A q \in Positions : Has(u, n, q) /\ q \notin Dots => Ent(u, cl, n, q) = Unused
    /\ u[n].i_size = 2
    /\ \A k \in BlockIdx : At(u, n, k) # NoBlock => k = 0

LEMMA TreeGrows ==
    ASSUME NEW ib, NEW D, NEW up, NEW place, NEW depth, NEW t, NEW bl, NEW u, NEW cl,
           Tree(ib, D, up, place, depth, t, bl),
           NEW d, NEW pos, NEW n \in Inodes, n \notin ib, NEW e, NEW D2,
           Grows(D, t, bl, u, cl, d, pos, e),
           \A m \in ib : m \notin D => u[m] = t[m],
           e.filename \in Names, e.i_no = n,
           \A q \in Used(t, bl, d) : Ent(t, bl, d, q).filename # e.filename,
           \/ D2 = D /\ e.f_type = "FT_REGULAR" /\ u[n].i_size = 0
           \/ D2 = D \cup {n} /\ e.f_type = "FT_DIRECTORY" /\ FreshDir(u, cl, n, d)
    PROVE  Tree(ib \cup {n}, D2, [up EXCEPT ![n] = d], [place EXCEPT ![n] = pos],
                [depth EXCEPT ![n] = depth[d] + 1], u, cl)
<1> DEFINE up2 == [up EXCEPT ![n] = d]
           place2 == [place EXCEPT ![n] = pos]
           depth2 == [depth EXCEPT ![n] = depth[d] + 1]
           ib2 == ib \cup {n}
<1>1. /\ Root \in D /\ D \subseteq ib /\ ib \subseteq Inodes /\ n # Root /\ n \notin D
      /\ up \in [Inodes -> Inodes] /\ \A m \in ib : up[m] \in D
      /\ place \in [Inodes -> Positions] /\ depth \in [Inodes -> Nat]
      /\ up[Root] = Root
  BY DEF Tree, TreeType
<1>2. d \in D /\ d \in Inodes /\ d # n /\ pos \in Positions /\ pos \notin Used(t, bl, d)
      /\ pos \notin Dots
  BY <1>1 DEF Grows, Tree, DotsRight
<1>3. /\ \A m \in Inodes : m # n => up2[m] = up[m] /\ place2[m] = place[m] /\ depth2[m] = depth[m]
      /\ up2[n] = d /\ place2[n] = pos /\ depth2[n] = depth[d] + 1
      /\ up2 \in [Inodes -> Inodes] /\ place2 \in [Inodes -> Positions]
      /\ depth2 \in [Inodes -> Nat]
  BY <1>1, <1>2
<1> HIDE DEF up2, place2, depth2, ib2
<1>4. D \subseteq D2 /\ D2 \subseteq D \cup {n} /\ (n \in D2 => D2 = D \cup {n} /\ FreshDir(u, cl, n, d))
      /\ (n \in D2 <=> e.f_type = "FT_DIRECTORY") /\ (n \notin D2 <=> e.f_type = "FT_REGULAR")
      /\ (n \notin D2 => u[n].i_size = 0)
  BY <1>1
<1>5. ASSUME NEW m \in D
      PROVE  /\ Used(u, cl, m) = IF m = d THEN Used(t, bl, m) \cup {pos} ELSE Used(t, bl, m)
             /\ \A q \in Used(t, bl, m) : Ent(u, cl, m, q) = Ent(t, bl, m, q)
  BY DEF Grows
<1>6. Ent(u, cl, d, pos) = e
  BY DEF Grows
<1>10. TreeType(ib2, D2, up2, place2, depth2)
  BY <1>1, <1>2, <1>3, <1>4 DEF TreeType, ib2
<1>11. DotsRight(D2, up2, u, cl)
  <2> SUFFICES ASSUME NEW m \in D2
               PROVE  /\ Dots \subseteq Used(u, cl, m)
                      /\ Ent(u, cl, m, <<0, 0>>) = Entry(".", m, "FT_DIRECTORY")
                      /\ Ent(u, cl, m, <<0, 1>>) = Entry("..", up2[m], "FT_DIRECTORY")
    BY DEF DotsRight
  <2>1. CASE m \in D
    <3>1. /\ Dots \subseteq Used(t, bl, m)
          /\ Ent(t, bl, m, <<0, 0>>) = Entry(".", m, "FT_DIRECTORY")
          /\ Ent(t, bl, m, <<0, 1>>) = Entry("..", up[m], "FT_DIRECTORY")
      BY <2>1 DEF Tree, DotsRight
    <3>2. <<0, 0>> \in Dots /\ <<0, 1>> \in Dots
      BY DEF Dots
    <3>3. up2[m] = up[m]
      BY <1>1, <1>3, <2>1
    <3> QED BY <1>5, <2>1, <3>1, <3>2, <3>3
  <2>2. CASE m = n
    BY <1>3, <1>4, <2>2 DEF FreshDir
  <2> QED BY <1>4, <2>1, <2>2
<1>12. EntriesRight(ib2, D2, up2, place2, u, cl)
  <2> SUFFICES ASSUME NEW m \in D2, NEW q \in Used(u, cl, m), q \notin Dots
               PROVE  Leads(ib2, D2, up2, place2, m, q, Ent(u, cl, m, q))
    BY DEF EntriesRight
  <2>1. m \in D
    BY <1>4 DEF FreshDir
  <2>2. CASE m = d /\ q = pos
    BY <1>3, <1>1, <1>4, <1>6, <2>2, Zenon DEF Leads, ib2
  <2>3. CASE q \in Used(t, bl, m)
    <3> DEFINE f == Ent(t, bl, m, q)
    <3>1. Leads(ib, D, up, place, m, q, f) /\ Ent(u, cl, m, q) = f
      BY <1>5, <2>1, <2>3 DEF Tree, EntriesRight
    <3> HIDE DEF f
    <3>2. f.i_no \in ib /\ f.i_no \in Inodes /\ f.i_no # n
      BY <1>1, <3>1 DEF Leads
    <3>3. f.i_no \in D <=> f.i_no \in D2
      BY <1>4, <3>2
    <3> QED BY <1>3, <3>1, <3>2, <3>3 DEF Leads, ib2
  <2> QED BY <1>5, <2>1, <2>2, <2>3
<1>13. HomesRight(ib2, up2, place2, u, cl)
  <2> SUFFICES ASSUME NEW m \in ib2, m # Root
               PROVE  /\ place2[m] \in Used(u, cl, up2[m]) /\ place2[m] \notin Dots
                      /\ Ent(u, cl, up2[m], place2[m]).i_no = m
    BY DEF HomesRight
  <2>1. CASE m = n
    BY <1>2, <1>3, <1>5, <1>6, <2>1
  <2>2. CASE m \in ib
    <3>1. m \in Inodes /\ m # n /\ up[m] \in D
      BY <1>1, <2>2
    <3>2. /\ place[m] \in Used(t, bl, up[m]) /\ place[m] \notin Dots
          /\ Ent(t, bl, up[m], place[m]).i_no = m
      BY <2>2 DEF Tree, HomesRight
    <3>3. up2[m] = up[m] /\ place2[m] = place[m]
      BY <1>3, <3>1
    <3>4. place[m] \in Used(u, cl, up[m]) /\ Ent(u, cl, up[m], place[m]).i_no = m
      BY <1>5, <3>1, <3>2
    <3> QED BY <3>2, <3>3, <3>4
  <2> QED BY <2>1, <2>2 DEF ib2
<1>14. NamesOnce(D2, u, cl)
  <2> SUFFICES ASSUME NEW m \in D2, NEW q \in Used(u, cl, m), NEW r \in Used(u, cl, m),
                      Ent(u, cl, m, q).filename = Ent(u, cl, m, r).filename
               PROVE  q = r
    BY DEF NamesOnce
  <2>1. CASE m \in D /\ q \in Used(t, bl, m) /\ r \in Used(t, bl, m)
    <3>1. Ent(t, bl, m, q).filename = Ent(t, bl, m, r).filename
      BY <1>5, <2>1
    <3> QED BY <2>1, <3>1 DEF Tree, NamesOnce
  <2>2. CASE m \in D /\ ~(q \in Used(t, bl, m) /\ r \in Used(t, bl, m))
    BY <1>5, <1>6, <2>2
  <2>3. CASE m = n
    <3>1. /\ q \in Dots /\ r \in Dots
          /\ Ent(u, cl, n, <<0, 0>>).filename = "."
          /\ Ent(u, cl, n, <<0, 1>>).filename = ".."
      BY <1>4, <2>3 DEF FreshDir, Entry
    <3> QED BY <2>3, <3>1 DEF Dots
  <2> QED BY <1>4, <2>1, <2>2, <2>3
<1>15. RestUnused(D2, u, cl)
  BY <1>4 DEF Grows, RestUnused, FreshDir
<1>16. SizesRight(D2, u, cl)
  <2> SUFFICES ASSUME NEW m \in D2
               PROVE  /\ u[m].i_size = Cardinality(Used(u, cl, m))
                      /\ \A k \in BlockIdx : At(u, m, k) # NoBlock =>
                             \E j \in EntryIdx : <<k, j>> \in Used(u, cl, m)
    BY DEF SizesRight
  <2>1. CASE m \in D
    <3>1. t[m].i_size = Cardinality(Used(t, bl, m))
      BY <2>1 DEF Tree, SizesRight
    <3>2. m = d => Cardinality(Used(t, bl, m) \cup {pos}) = Cardinality(Used(t, bl, m)) + 1
      BY <1>2, PlaceFacts, FS_AddElement
    <3>3. u[m].i_size = Cardinality(Used(u, cl, m))
      BY <1>5, <2>1, <3>1, <3>2 DEF Grows
    <3> QED BY <2>1, <3>3 DEF Grows
  <2>2. CASE m = n
    <3>1. FreshDir(u, cl, n, d)
      BY <1>4, <2>2
    <3>2. u[n].i_size = Cardinality(Used(u, cl, n))
      BY <3>1, PlaceFacts DEF FreshDir
    <3>3. ASSUME NEW k \in BlockIdx, At(u, n, k) # NoBlock
          PROVE  \E j \in EntryIdx : <<k, j>> \in Used(u, cl, n)
      <4>1. k = 0 /\ <<0, 0>> \in Used(u, cl, n)
        BY <3>1, <3>3 DEF FreshDir, Dots
      <4> QED BY <4>1, IndexSets
    <3> QED BY <2>2, <3>2, <3>3
  <2> QED BY <1>4, <2>1, <2>2
<1>17. DepthsRight(D2, up2, depth2)
  <2>1. depth2[Root] = 0
    BY <1>1, <1>3 DEF Tree, DepthsRight
  <2>2. ASSUME NEW m \in D2, m # Root PROVE depth2[m] = depth2[up2[m]] + 1
    <3>1. CASE m = n
      BY <1>2, <1>3, <3>1
    <3>2. CASE m \in D
      <4>1. m \in Inodes /\ m # n /\ up[m] \in Inodes /\ up[m] # n
        BY <1>1, <3>2
      <4>2. depth[m] = depth[up[m]] + 1
        BY <2>2, <3>2 DEF Tree, DepthsRight
      <4>3. up2[m] = up[m] /\ depth2[m] = depth[m] /\ depth2[up[m]] = depth[up[m]]
        BY <1>3, <4>1
      <4> QED BY <4>2, <4>3
    <3> QED BY <1>4, <3>1, <3>2
  <2> QED BY <2>1, <2>2 DEF DepthsRight
<1>18. FilesRight(ib2, D2, u)
  <2> SUFFICES ASSUME NEW m \in ib2, m \notin D2
               PROVE  u[m].i_size \in Nat /\ u[m].i_size \div BlockSize \in BlockIdx
    BY DEF FilesRight
  <2>1. CASE m = n
    <3>1. u[n].i_size = 0
      BY <1>4, <2>1
    <3>2. 0 \div BlockSize = 0
      BY SizesAssumption
    <3> QED BY <2>1, <3>1, <3>2, IndexSets
  <2>2. CASE m \in ib
    BY <1>4, <2>2 DEF Tree, FilesRight
  <2> QED BY <2>1, <2>2 DEF ib2
<1> QED BY <1>10, <1>11, <1>12, <1>13, <1>14, <1>15, <1>16, <1>17, <1>18
        DEF Tree, up2, place2, depth2, ib2

-----------------------------------------------------------------------------
(* The directories of D from (t, bl) to (u, cl): the entry at place pos of *)
(* d is gone.                                                              *)
Shrinks(D, t, bl, u, cl, d, pos) ==
    /\ d \in D /\ pos \in Used(t, bl, d)
    /\ \A m \in D : Used(u, cl, m) = IF m = d THEN Used(t, bl, m) \ {pos} ELSE Used(t, bl, m)
    /\ \A m \in D : \A q \in Used(u, cl, m) : Ent(u, cl, m, q) = Ent(t, bl, m, q)
    /\ RestUnused(D, u, cl)
    /\ \A m \in D : u[m].i_size = IF m = d THEN t[m].i_size - 1 ELSE t[m].i_size
    /\ \A m \in D, k \in BlockIdx :
          At(u, m, k) # NoBlock => \E j \in EntryIdx : <<k, j>> \in Used(u, cl, m)

(* A directory to be removed has no other entries than the dots.           *)
LEMMA TreeShrinks ==
    ASSUME NEW ib, NEW D, NEW up, NEW place, NEW depth, NEW t, NEW bl, NEW u, NEW cl,
           Tree(ib, D, up, place, depth, t, bl),
           NEW n \in ib, n # Root, n \in D => Used(t, bl, n) = Dots,
           Shrinks(D \ {n}, t, bl, u, cl, up[n], place[n]),
           \A m \in ib : m \notin D /\ m # n => u[m] = t[m]
    PROVE  Tree(ib \ {n}, D \ {n}, up, place, depth, u, cl)
<1> DEFINE D2 == D \ {n}
           ib2 == ib \ {n}
           d == up[n]
           pos == place[n]
<1>1. /\ Root \in D /\ D \subseteq ib /\ ib \subseteq Inodes /\ Root \in Inodes
      /\ up \in [Inodes -> Inodes] /\ \A m \in ib : up[m] \in D
      /\ place \in [Inodes -> Positions] /\ depth \in [Inodes -> Nat]
      /\ up[Root] = Root
  BY DEF Tree, TreeType
<1>2. d \in D2 /\ pos \in Used(t, bl, d) /\ pos \notin Dots /\ n \in Inodes /\ d \in Inodes
  BY <1>1 DEF Shrinks, Tree, HomesRight
<1>3. \A m \in ib : m # Root => up[m] # n
  <2> SUFFICES ASSUME NEW m \in ib, m # Root, up[m] = n PROVE FALSE
    OBVIOUS
  <2>1. place[m] \in Used(t, bl, n) /\ place[m] \notin Dots
    BY DEF Tree, HomesRight
  <2>2. n \in D
    BY <1>1
  <2> QED BY <2>1, <2>2
<1>4. ASSUME NEW m \in D2
      PROVE  /\ m \in D /\ m # n /\ m \in Inodes
             /\ Used(u, cl, m) = IF m = d THEN Used(t, bl, m) \ {pos} ELSE Used(t, bl, m)
             /\ \A q \in Used(u, cl, m) : Ent(u, cl, m, q) = Ent(t, bl, m, q)
  BY <1>1 DEF Shrinks
<1>5. TreeType(ib2, D2, up, place, depth)
  BY <1>1, <1>3 DEF TreeType
<1> HIDE DEF d, pos, D2, ib2
<1>6. DotsRight(D2, up, u, cl)
  <2>1. <<0, 0>> \in Dots /\ <<0, 1>> \in Dots
    BY DEF Dots
  <2> QED BY <1>2, <1>4, <2>1 DEF Tree, DotsRight
<1>7. EntriesRight(ib2, D2, up, place, u, cl)
  <2> SUFFICES ASSUME NEW m \in D2, NEW q \in Used(u, cl, m), q \notin Dots
               PROVE  Leads(ib2, D2, up, place, m, q, Ent(u, cl, m, q))
    BY DEF EntriesRight
  <2> DEFINE f == Ent(t, bl, m, q)
  <2>1. q \in Used(t, bl, m) /\ Ent(u, cl, m, q) = f /\ (m = d => q # pos)
    BY <1>4
  <2>2. Leads(ib, D, up, place, m, q, f)
    BY <1>4, <2>1 DEF Tree, EntriesRight
  <2> HIDE DEF f
  <2>3. f.i_no # n
    BY <2>1, <2>2 DEF Leads, d, pos
  <2> QED BY <2>1, <2>2, <2>3 DEF Leads, ib2, D2
<1>8. HomesRight(ib2, up, place, u, cl)
  <2> SUFFICES ASSUME NEW m \in ib2, m # Root
               PROVE  /\ place[m] \in Used(u, cl, up[m]) /\ place[m] \notin Dots
                      /\ Ent(u, cl, up[m], place[m]).i_no = m
    BY DEF HomesRight
  <2>1. m \in ib /\ m # n /\ up[m] \in D2
    BY <1>1, <1>3 DEF ib2, D2
  <2>2. /\ place[m] \in Used(t, bl, up[m]) /\ place[m] \notin Dots
        /\ Ent(t, bl, up[m], place[m]).i_no = m /\ Ent(t, bl, d, pos).i_no = n
    BY <1>1, <2>1 DEF Tree, HomesRight, d, pos
  <2>3. ~(up[m] = d /\ place[m] = pos)
    BY <2>1, <2>2
  <2> QED BY <1>4, <2>1, <2>2, <2>3
<1>9. NamesOnce(D2, u, cl)
  <2> SUFFICES ASSUME NEW m \in D2, NEW q \in Used(u, cl, m), NEW r \in Used(u, cl, m),
                      Ent(u, cl, m, q).filename = Ent(u, cl, m, r).filename
               PROVE  q = r
    BY DEF NamesOnce
  <2>1. q \in Used(t, bl, m) /\ r \in Used(t, bl, m)
        /\ Ent(t, bl, m, q).filename = Ent(t, bl, m, r).filename
    BY <1>4
  <2> QED BY <1>4, <2>1 DEF Tree, NamesOnce
<1>10. RestUnused(D2, u, cl)
  BY DEF Shrinks, D2
<1>11. SizesRight(D2, u, cl)
  <2> SUFFICES ASSUME NEW m \in D2
               PROVE  /\ u[m].i_size = Cardinality(Used(u, cl, m))
                      /\ \A k \in BlockIdx : At(u, m, k) # NoBlock =>
                             \E j \in EntryIdx : <<k, j>> \in Used(u, cl, m)
    BY DEF SizesRight
  <2>1. t[m].i_size = Cardinality(Used(t, bl, m))
    BY <1>4 DEF Tree, SizesRight
  <2>2. m = d => Cardinality(Used(t, bl, m) \ {pos}) = Cardinality(Used(t, bl, m)) - 1
    BY <1>2, PlaceFacts, FS_RemoveElement
  <2> QED BY <1>4, <2>1, <2>2 DEF Shrinks, D2, d
<1>12. DepthsRight(D2, up, depth)
  BY <1>4 DEF Tree, DepthsRight
<1>13. FilesRight(ib2, D2, u)
  <2> SUFFICES ASSUME NEW m \in ib2, m \notin D2
               PROVE  u[m].i_size \in Nat /\ u[m].i_size \div BlockSize \in BlockIdx
    BY DEF FilesRight
  <2>1. m \in ib /\ m \notin D /\ u[m] = t[m]
    BY DEF ib2, D2
  <2> QED BY <2>1 DEF Tree, FilesRight
<1> QED BY <1>5, <1>6, <1>7, <1>8, <1>9, <1>10, <1>11, <1>12, <1>13 DEF Tree, D2, ib2

-----------------------------------------------------------------------------
(* Nothing changes for a directory, and a file's size stays in its blocks. *)
LEMMA TreeKeeps ==
    ASSUME NEW ib, NEW D, NEW up, NEW place, NEW depth, NEW t, NEW bl, NEW u, NEW cl,
           Tree(ib, D, up, place, depth, t, bl),
           \A m \in D : u[m] = t[m],
           \A m \in D, q \in Positions : Has(t, m, q) => Ent(u, cl, m, q) = Ent(t, bl, m, q),
           \A m \in ib : m \notin D => u[m].i_size \in Nat /\ u[m].i_size \div BlockSize \in BlockIdx
    PROVE  Tree(ib, D, up, place, depth, u, cl)
<1>1. ASSUME NEW m \in D
      PROVE  /\ u[m] = t[m] /\ \A k : At(u, m, k) = At(t, m, k)
             /\ \A q : Has(u, m, q) <=> Has(t, m, q)
  BY DEF Has, At
<1>2. ASSUME NEW m \in D PROVE Used(u, cl, m) = Used(t, bl, m)
  BY <1>1 DEF Used
<1>3. ASSUME NEW m \in D, NEW q \in Used(t, bl, m) PROVE Ent(u, cl, m, q) = Ent(t, bl, m, q)
  BY DEF Used
<1>4. <<0, 0>> \in Dots /\ <<0, 1>> \in Dots
  BY DEF Dots
<1>5. TreeType(ib, D, up, place, depth) /\ \A m \in ib : up[m] \in D
  BY DEF Tree, TreeType
<1>6. DotsRight(D, up, u, cl)
  BY <1>2, <1>3, <1>4 DEF Tree, DotsRight
<1>7. EntriesRight(ib, D, up, place, u, cl)
  BY <1>2, <1>3 DEF Tree, EntriesRight
<1>8. HomesRight(ib, up, place, u, cl)
  BY <1>2, <1>3, <1>5 DEF Tree, HomesRight
<1>9. NamesOnce(D, u, cl)
  BY <1>2, <1>3 DEF Tree, NamesOnce
<1>10. RestUnused(D, u, cl)
  BY <1>1, <1>2 DEF Tree, RestUnused
<1>11. SizesRight(D, u, cl)
  BY <1>1, <1>2 DEF Tree, SizesRight
<1>12. FilesRight(ib, D, u)
  BY DEF FilesRight
<1> QED BY <1>5, <1>6, <1>7, <1>8, <1>9, <1>10, <1>11, <1>12 DEF Tree

-----------------------------------------------------------------------------
(* Who owns the blocks: an address occurs at one place of one inode in use *)
(* at most, and is in the bitmap bb; every block of bb is owned, but those *)
(* that the format marked are in bb and nobody's.                          *)
OneOwner(ib, t) ==
    \A m, n \in ib : \A k, l \in BlockIdx :
        At(t, m, k) # NoBlock /\ At(t, m, k) = At(t, n, l) => m = n /\ k = l
OwnedUsed(ib, bb, t) ==
    \A n \in ib : \A k \in BlockIdx : At(t, n, k) # NoBlock => At(t, n, k) \in bb
UsedOwned(ib, bb, t) ==
    \A b \in bb : b \in Premarked \/ \E n \in ib : \E k \in BlockIdx : At(t, n, k) = b
KeepsPremarked(ib, bb, t) ==
    Premarked \subseteq bb /\ \A n \in ib : \A k \in BlockIdx : At(t, n, k) \notin Premarked

(* Every address is an old one at its old place or one of those taken.     *)
LEMMA OwnsMore ==
    ASSUME NEW ib, NEW ib2, NEW bb, NEW t, NEW u, NEW taken \in SUBSET Blocks,
           OneOwner(ib, t), OwnedUsed(ib, bb, t),
           taken \cap bb = {},
           \A m \in ib2 : \A k \in BlockIdx :
               At(u, m, k) # NoBlock /\ At(u, m, k) \notin taken => m \in ib /\ At(t, m, k) = At(u, m, k),
           \A m, n \in ib2 : \A k, l \in BlockIdx :
               At(u, m, k) \in taken /\ At(u, m, k) = At(u, n, l) => m = n /\ k = l,
           \A b \in taken : \E m \in ib2 : \E k \in BlockIdx : At(u, m, k) = b,
           \A m \in ib : \A k \in BlockIdx :
               At(t, m, k) # NoBlock => m \in ib2 /\ At(u, m, k) = At(t, m, k)
    PROVE  /\ OneOwner(ib2, u) /\ OwnedUsed(ib2, bb \cup taken, u)
           /\ NoBlock \notin bb /\ UsedOwned(ib, bb, t) => UsedOwned(ib2, bb \cup taken, u)
           /\ NoBlock \notin bb /\ KeepsPremarked(ib, bb, t) => KeepsPremarked(ib2, bb \cup taken, u)
<1>1. OneOwner(ib2, u)
  <2> SUFFICES ASSUME NEW m \in ib2, NEW n \in ib2, NEW k \in BlockIdx, NEW l \in BlockIdx,
                      At(u, m, k) # NoBlock, At(u, m, k) = At(u, n, l)
               PROVE  m = n /\ k = l
    BY DEF OneOwner
  <2>1. CASE At(u, m, k) \in taken
    BY <2>1
  <2>2. CASE At(u, m, k) \notin taken
    <3>1. m \in ib /\ n \in ib /\ At(t, m, k) = At(u, m, k) /\ At(t, n, l) = At(u, m, k)
      BY <2>2
    <3> QED BY <3>1 DEF OneOwner
  <2> QED BY <2>1, <2>2
<1>2. OwnedUsed(ib2, bb \cup taken, u)
  BY DEF OwnedUsed
<1>3. NoBlock \notin bb /\ UsedOwned(ib, bb, t) => UsedOwned(ib2, bb \cup taken, u)
  <2> SUFFICES ASSUME NoBlock \notin bb, UsedOwned(ib, bb, t), NEW b \in bb, b \notin Premarked
               PROVE  \E m \in ib2 : \E k \in BlockIdx : At(u, m, k) = b
    BY DEF UsedOwned
  <2>1. PICK m \in ib, k \in BlockIdx : At(t, m, k) = b
    BY DEF UsedOwned
  <2> QED BY <2>1
<1>4. NoBlock \notin bb /\ KeepsPremarked(ib, bb, t) => KeepsPremarked(ib2, bb \cup taken, u)
  <2> SUFFICES ASSUME NoBlock \notin bb, KeepsPremarked(ib, bb, t)
               PROVE  KeepsPremarked(ib2, bb \cup taken, u)
    OBVIOUS
  <2>1. Premarked \subseteq bb /\ NoBlock \notin Premarked /\ taken \cap Premarked = {}
    BY DEF KeepsPremarked
  <2>2. ASSUME NEW m \in ib2, NEW k \in BlockIdx PROVE At(u, m, k) \notin Premarked
    BY <2>1 DEF KeepsPremarked
  <2> QED BY <2>1, <2>2 DEF KeepsPremarked
<1> QED BY <1>1, <1>2, <1>3, <1>4

(* The addresses that are left are the old ones but those of freed.        *)
LEMMA OwnsLess ==
    ASSUME NEW ib, NEW ib2, NEW bb, NEW t, NEW u, NEW freed, ib2 \subseteq ib,
           OneOwner(ib, t), OwnedUsed(ib, bb, t),
           \A m \in ib2 : \A k \in BlockIdx :
               At(u, m, k) # NoBlock => At(u, m, k) = At(t, m, k) /\ At(u, m, k) \notin freed,
           \A m \in ib : \A k \in BlockIdx :
               At(t, m, k) # NoBlock /\ At(t, m, k) \notin freed => m \in ib2 /\ At(u, m, k) = At(t, m, k),
           \A b \in freed : \E m \in ib : \E k \in BlockIdx : At(t, m, k) = b
    PROVE  /\ OneOwner(ib2, u) /\ OwnedUsed(ib2, bb \ freed, u)
           /\ NoBlock \notin bb /\ UsedOwned(ib, bb, t) => UsedOwned(ib2, bb \ freed, u)
           /\ NoBlock \notin bb /\ KeepsPremarked(ib, bb, t) => KeepsPremarked(ib2, bb \ freed, u)
<1>1. OneOwner(ib2, u)
  <2> SUFFICES ASSUME NEW m \in ib2, NEW n \in ib2, NEW k \in BlockIdx, NEW l \in BlockIdx,
                      At(u, m, k) # NoBlock, At(u, m, k) = At(u, n, l)
               PROVE  m = n /\ k = l
    BY DEF OneOwner
  <2>1. m \in ib /\ n \in ib /\ At(t, m, k) = At(u, m, k) /\ At(t, n, l) = At(u, m, k)
    OBVIOUS
  <2> QED BY <2>1 DEF OneOwner
<1>2. OwnedUsed(ib2, bb \ freed, u)
  BY DEF OwnedUsed
<1>3. NoBlock \notin bb /\ UsedOwned(ib, bb, t) => UsedOwned(ib2, bb \ freed, u)
  <2> SUFFICES ASSUME NoBlock \notin bb, UsedOwned(ib, bb, t), NEW b \in bb \ freed,
                      b \notin Premarked
               PROVE  \E m \in ib2 : \E k \in BlockIdx : At(u, m, k) = b
    BY DEF UsedOwned
  <2>1. PICK m \in ib, k \in BlockIdx : At(t, m, k) = b
    BY DEF UsedOwned
  <2> QED BY <2>1
<1>4. NoBlock \notin bb /\ KeepsPremarked(ib, bb, t) => KeepsPremarked(ib2, bb \ freed, u)
  <2> SUFFICES ASSUME NoBlock \notin bb, KeepsPremarked(ib, bb, t)
               PROVE  KeepsPremarked(ib2, bb \ freed, u)
    OBVIOUS
  <2>1. Premarked \subseteq bb /\ NoBlock \notin Premarked
        /\ \A m \in ib : \A k \in BlockIdx : At(t, m, k) \notin Premarked
    BY DEF KeepsPremarked
  <2>2. freed \cap Premarked = {}
    BY <2>1
  <2>3. ASSUME NEW m \in ib2, NEW k \in BlockIdx PROVE At(u, m, k) \notin Premarked
    BY <2>1
  <2> QED BY <2>1, <2>2, <2>3 DEF KeepsPremarked
<1> QED BY <1>1, <1>2, <1>3, <1>4

-----------------------------------------------------------------------------
DiskTyped(ib, bb, t, bl) ==
    /\ ib \subseteq Inodes /\ bb \subseteq Blocks
    /\ t \in [Inodes -> InodeImages] /\ bl \in [Blocks -> [EntryIdx -> Entries]]

LEMMA Images ==
    ASSUME NEW t \in [Inodes -> InodeImages], NEW n \in Inodes
    PROVE  /\ t[n].i_no \in Inodes /\ t[n].i_size \in Int
           /\ t[n].i_block \in [BlockIdx -> Blocks \cup {NoBlock}]
           /\ \A k \in BlockIdx : At(t, n, k) \in Blocks \cup {NoBlock}
           /\ NoBlock \notin Blocks
<1>1. t[n] \in InodeImages
  OBVIOUS
<1>2. NoBlock \notin Blocks
  BY DEF NoBlock, Blocks
<1> QED BY <1>1, <1>2 DEF InodeImages, At

LEMMA PositionParts ==
    ASSUME NEW q \in Positions
    PROVE  q[1] \in BlockIdx /\ q[2] \in EntryIdx /\ q = <<q[1], q[2]>>
BY DEF Positions

LEMMA ZeroBlockEntries == \A j \in EntryIdx : ZeroBlock[j] = Unused
BY DEF ZeroBlock, Unused

(* sync_dir_entry: DirWithEntry and BlockWithEntry, for the first vacant   *)
(* place or any other.  img may differ from bl in free blocks.             *)
LEMMA EntryPut ==
    ASSUME NEW ib, NEW bb, NEW t, NEW bl, DiskTyped(ib, bb, t, bl),
           NEW D, NEW up, NEW place, NEW depth, Tree(ib, D, up, place, depth, t, bl),
           OneOwner(ib, t), OwnedUsed(ib, bb, t),
           NEW d \in D, NEW pos \in Positions, NEW b \in Blocks, NEW e \in Entries,
           e.f_type # "FT_UNKNOWN",
           IF Has(t, d, pos) THEN b = At(t, d, pos[1]) /\ Ent(t, bl, d, pos).f_type = "FT_UNKNOWN"
                             ELSE b \notin bb /\ pos[2] = 0,
           NEW img \in [Blocks -> [EntryIdx -> Entries]], \A x \in bb : img[x] = bl[x],
           NEW u, \A m \in D : u[m] = IF m = d THEN DirWithEntry(t[d], pos, b) ELSE t[m],
           NEW cl, cl = [img EXCEPT ![b] = BlockWithEntry(t[d], pos, @, e)]
    PROVE  Grows(D, t, bl, u, cl, d, pos, e)
<1> DEFINE base == IF Has(t, d, pos) THEN bl[b] ELSE ZeroBlock
           x == pos[1]
<1>1. /\ D \subseteq Inodes /\ D \subseteq ib /\ d \in Inodes
      /\ t \in [Inodes -> InodeImages] /\ bl \in [Blocks -> [EntryIdx -> Entries]]
  BY DEF Tree, TreeType, DiskTyped
<1>2. pos[1] \in BlockIdx /\ pos[2] \in EntryIdx /\ pos = <<pos[1], pos[2]>>
  BY PositionParts
<1>3. ASSUME NEW m \in D
      PROVE  /\ u[m].i_size = IF m = d THEN t[m].i_size + 1 ELSE t[m].i_size
             /\ \A k \in BlockIdx : At(u, m, k) = IF m = d /\ k = x THEN b ELSE At(t, m, k)
  <2>1. CASE m = d
    <3>1. t[d] \in InodeImages /\ t[d].i_block \in [BlockIdx -> Blocks \cup {NoBlock}]
      BY <1>1, Images
    <3>2. u[d] = [t[d] EXCEPT !.i_size = @ + 1, !.i_block[x] = b]
      BY DEF DirWithEntry
    <3> QED BY <1>2, <2>1, <3>1, <3>2 DEF At, InodeImages
  <2>2. CASE m # d
    BY <2>2 DEF At
  <2> QED BY <2>1, <2>2
<1>4. ASSUME NEW m \in D, NEW k \in BlockIdx, At(t, m, k) # NoBlock, ~(m = d /\ k = x)
      PROVE  At(t, m, k) # b /\ At(t, m, k) \in bb /\ At(t, m, k) \in Blocks
  <2>1. m \in ib /\ d \in ib /\ At(t, m, k) \in bb
    BY <1>1, <1>4 DEF OwnedUsed
  <2>2. At(t, m, k) # b
    BY <1>2, <1>4, <2>1 DEF OneOwner, Has
  <2> QED BY <2>1, <2>2 DEF DiskTyped
<1>5. Has(t, d, pos) => b \in bb
  BY <1>1, <1>2 DEF OwnedUsed, Has
<1>6. cl[b] = [base EXCEPT ![pos[2]] = e]
  <2>1. InDir(t[d], pos) <=> Has(t, d, pos)
    BY DEF InDir, Has, At
  <2>2. cl[b] = BlockWithEntry(t[d], pos, img[b], e)
    OBVIOUS
  <2> QED BY <1>5, <2>1, <2>2 DEF BlockWithEntry
<1>7. \A y \in bb : y # b => cl[y] = bl[y]
  BY DEF DiskTyped
<1>8. base \in [EntryIdx -> Entries] /\ (~Has(t, d, pos) => \A j \in EntryIdx : base[j] = Unused)
  BY <1>1, ZeroBlockType, ZeroBlockEntries
<1> HIDE DEF base
<1>9. ASSUME NEW m \in D, NEW q \in Positions
      PROVE  IF m = d /\ q[1] = x
             THEN /\ Has(u, m, q) /\ (Has(t, m, q) <=> Has(t, d, pos))
                  /\ Ent(u, cl, m, q) = IF q = pos THEN e ELSE base[q[2]]
                  /\ Has(t, m, q) => Ent(t, bl, m, q) = base[q[2]]
             ELSE /\ Has(u, m, q) <=> Has(t, m, q)
                  /\ Has(t, m, q) => Ent(u, cl, m, q) = Ent(t, bl, m, q)
  <2>1. q[1] \in BlockIdx /\ q[2] \in EntryIdx /\ (q = pos <=> q[1] = x /\ q[2] = pos[2])
    BY <1>2, PositionParts
  <2>2. CASE m = d /\ q[1] = x
    <3>1. At(u, m, q[1]) = b /\ b # NoBlock
      BY <1>1, <1>3, <2>1, <2>2, Images
    <3>2. Ent(u, cl, m, q) = IF q[2] = pos[2] THEN e ELSE base[q[2]]
      BY <1>2, <1>6, <1>8, <2>1, <3>1 DEF Ent
    <3>3. Has(t, m, q) => Ent(t, bl, m, q) = base[q[2]]
      BY <2>2 DEF Ent, Has, base
    <3> QED BY <2>1, <2>2, <3>1, <3>2, <3>3 DEF Has
  <2>3. CASE ~(m = d /\ q[1] = x)
    <3>1. At(u, m, q[1]) = At(t, m, q[1])
      BY <1>3, <2>1, <2>3
    <3>2. Has(t, m, q) => cl[At(t, m, q[1])] = bl[At(t, m, q[1])]
      BY <1>4, <1>7, <2>1, <2>3 DEF Has
    <3> QED BY <2>3, <3>1, <3>2 DEF Has, Ent
  <2> QED BY <2>2, <2>3
<1>10. pos \notin Used(t, bl, d) /\ Used(t, bl, d) \subseteq Positions
  BY DEF Used
<1>11. ASSUME NEW m \in D
       PROVE  /\ Used(u, cl, m) = IF m = d THEN Used(t, bl, m) \cup {pos} ELSE Used(t, bl, m)
              /\ \A q \in Used(t, bl, m) : Ent(u, cl, m, q) = Ent(t, bl, m, q)
              /\ \A q \in Positions : Has(u, m, q) /\ q \notin Used(u, cl, m) => Ent(u, cl, m, q) = Unused
  <2>1. ASSUME NEW q \in Positions, ~(m = d /\ q = pos)
        PROVE  /\ q \in Used(u, cl, m) <=> q \in Used(t, bl, m)
               /\ q \in Used(t, bl, m) => Ent(u, cl, m, q) = Ent(t, bl, m, q)
               /\ Has(u, m, q) /\ q \notin Used(u, cl, m) => Ent(u, cl, m, q) = Unused
    <3>1. q[1] \in BlockIdx /\ q[2] \in EntryIdx
      BY PositionParts
    <3>2. Unused.f_type = "FT_UNKNOWN"
      BY DEF Unused, Entry
    <3>3. Has(t, m, q) /\ q \notin Used(t, bl, m) => Ent(t, bl, m, q) = Unused
      BY DEF Tree, RestUnused
    <3>4. CASE m = d /\ q[1] = x /\ ~Has(t, d, pos)
      <4>1. Ent(u, cl, m, q) = Unused /\ Has(u, m, q) /\ ~Has(t, m, q)
        BY <1>8, <1>9, <2>1, <3>1, <3>4
      <4>2. q \notin Used(u, cl, m) /\ q \notin Used(t, bl, m)
        BY <3>2, <4>1 DEF Used
      <4> QED BY <4>1, <4>2
    <3>5. CASE m = d /\ q[1] = x /\ Has(t, d, pos)
      <4>1. Ent(u, cl, m, q) = Ent(t, bl, m, q) /\ Has(u, m, q) /\ Has(t, m, q)
        BY <1>9, <2>1, <3>5
      <4>2. q \in Used(u, cl, m) <=> q \in Used(t, bl, m)
        BY <4>1 DEF Used
      <4> QED BY <3>3, <4>1, <4>2
    <3>6. CASE ~(m = d /\ q[1] = x)
      BY <1>9, <3>3, <3>6 DEF Used
    <3> QED BY <3>4, <3>5, <3>6
  <2>2. m = d => pos \in Used(u, cl, m)
    BY <1>9 DEF Used
  <2>3. Used(u, cl, m) \subseteq Positions /\ Used(t, bl, m) \subseteq Positions
    BY DEF Used
  <2>4. CASE m = d
    <3>1. \A q \in Positions : q \in Used(u, cl, m) <=> q \in Used(t, bl, m) \cup {pos}
      BY <2>1, <2>2, <2>4
    <3>2. Used(u, cl, m) = Used(t, bl, m) \cup {pos}
      BY <2>3, <3>1
    <3> QED BY <1>10, <2>1, <2>2, <2>3, <2>4, <3>2
  <2>5. CASE m # d
    <3>1. \A q \in Positions : q \in Used(u, cl, m) <=> q \in Used(t, bl, m)
      BY <2>1, <2>5
    <3>2. Used(u, cl, m) = Used(t, bl, m)
      BY <2>3, <3>1
    <3> QED BY <2>1, <2>3, <2>5, <3>2
  <2> QED BY <2>4, <2>5
<1>12. ASSUME NEW m \in D, NEW k \in BlockIdx, At(u, m, k) # NoBlock
       PROVE  \E j \in EntryIdx : <<k, j>> \in Used(u, cl, m)
  <2>1. CASE m = d /\ k = x
    BY <1>2, <1>11, <2>1
  <2>2. CASE ~(m = d /\ k = x)
    <3>1. At(t, m, k) # NoBlock
      BY <1>3, <1>12, <2>2
    <3>2. \E j \in EntryIdx : <<k, j>> \in Used(t, bl, m)
      BY <3>1 DEF Tree, SizesRight
    <3> QED BY <1>11, <3>2
  <2> QED BY <2>1, <2>2
<1>13. RestUnused(D, u, cl)
  BY <1>11 DEF RestUnused
<1>14. Ent(u, cl, d, pos) = e
  BY <1>9
<1> QED BY <1>3, <1>10, <1>11, <1>12, <1>13, <1>14 DEF Grows

(* What delete_dir_entry makes of the parent d and of the block b of the   *)
(* entry of n at pos.                                                      *)
Wipes(ib, bb, D, up, place, depth, t, bl, u, cl, n, d, pos, b, reclaims) ==
    /\ DiskTyped(ib, bb, t, bl) /\ Tree(ib, D, up, place, depth, t, bl)
    /\ OneOwner(ib, t) /\ OwnedUsed(ib, bb, t)
    /\ n \in ib /\ n # Root /\ reclaims \in BOOLEAN
    /\ d = up[n] /\ pos = place[n] /\ b = At(t, d, pos[1]) /\ d # n
    /\ reclaims <=> \A j \in EntryIdx : bl[b][j].filename # "."
                                         /\ (Named(bl[b][j]) => j = pos[2])
    /\ \A m \in D \ {n} : u[m] =
           IF m = d THEN [t[d] EXCEPT !.i_size = @ - 1,
                                      !.i_block[pos[1]] = IF reclaims THEN NoBlock ELSE b]
                    ELSE t[m]
    /\ cl = IF reclaims THEN bl ELSE [bl EXCEPT ![b][pos[2]] = Unused]

(* delete_dir_entry of the entry of n: it is cleared, or its block, with   *)
(* no other entry in it, is given back.                                    *)
LEMMA EntryTaken ==
    ASSUME NEW ib, NEW bb, NEW D, NEW up, NEW place, NEW depth, NEW t, NEW bl, NEW u, NEW cl,
           NEW n, NEW d, NEW pos, NEW b, NEW reclaims,
           Wipes(ib, bb, D, up, place, depth, t, bl, u, cl, n, d, pos, b, reclaims)
    PROVE  Shrinks(D \ {n}, t, bl, u, cl, d, pos)
<1>a. /\ DiskTyped(ib, bb, t, bl) /\ Tree(ib, D, up, place, depth, t, bl)
      /\ OneOwner(ib, t) /\ OwnedUsed(ib, bb, t)
      /\ n \in ib /\ n # Root /\ reclaims \in BOOLEAN
      /\ d = up[n] /\ pos = place[n] /\ b = At(t, d, pos[1]) /\ d # n
      /\ cl = IF reclaims THEN bl ELSE [bl EXCEPT ![b][pos[2]] = Unused]
  BY DEF Wipes
<1>b. reclaims <=> \A j \in EntryIdx : bl[b][j].filename # "."
                                      /\ (Named(bl[b][j]) => j = pos[2])
  BY DEF Wipes
<1>c. \A m \in D \ {n} : u[m] =
         IF m = d THEN [t[d] EXCEPT !.i_size = @ - 1,
                                    !.i_block[pos[1]] = IF reclaims THEN NoBlock ELSE b]
                  ELSE t[m]
  BY Zenon DEF Wipes
<1> USE <1>a, <1>b, <1>c
<1> DEFINE x == pos[1]
           D2 == D \ {n}
<1>1. /\ D \subseteq Inodes /\ D \subseteq ib /\ d \in D2 /\ d \in Inodes
      /\ t \in [Inodes -> InodeImages] /\ bl \in [Blocks -> [EntryIdx -> Entries]]
  BY DEF Tree, TreeType, DiskTyped
<1>2. /\ pos \in Used(t, bl, d) /\ pos \notin Dots /\ pos \in Positions /\ Has(t, d, pos)
      /\ Leads(ib, D, up, place, d, pos, Ent(t, bl, d, pos))
  BY <1>1 DEF Tree, HomesRight, EntriesRight, Used
<1>3. x \in BlockIdx /\ pos[2] \in EntryIdx /\ pos = <<x, pos[2]>>
  BY <1>2, PositionParts
<1>4. b \in Blocks /\ b # NoBlock /\ bl[b] \in [EntryIdx -> Entries]
  BY <1>1, <1>2, <1>3, Images DEF Has
<1>5. ASSUME NEW m \in D2
      PROVE  /\ u[m].i_size = IF m = d THEN t[m].i_size - 1 ELSE t[m].i_size
             /\ \A k \in BlockIdx : At(u, m, k) = IF m = d /\ k = x
                                                 THEN IF reclaims THEN NoBlock ELSE b
                                                 ELSE At(t, m, k)
  <2>1. CASE m = d
    <3> DEFINE v == IF reclaims THEN NoBlock ELSE b
    <3>1. t[d] \in InodeImages /\ t[d].i_block \in [BlockIdx -> Blocks \cup {NoBlock}]
      BY <1>1, Images
    <3>2. u[d] = [t[d] EXCEPT !.i_size = @ - 1, !.i_block[x] = v]
      BY <1>1
    <3> HIDE DEF v
    <3>3. /\ u[d].i_size = t[d].i_size - 1
          /\ \A k \in BlockIdx : u[d].i_block[k] = IF k = x THEN v ELSE t[d].i_block[k]
      BY <3>1, <3>2 DEF InodeImages
    <3> QED BY <2>1, <3>3 DEF At, v
  <2>2. CASE m # d
    BY <2>2 DEF At
  <2> QED BY <2>1, <2>2
<1>6. ASSUME NEW m \in D2, NEW k \in BlockIdx, At(t, m, k) # NoBlock, ~(m = d /\ k = x)
      PROVE  At(t, m, k) # b
  BY <1>1, <1>3, <1>6 DEF OneOwner
<1>7. \A y : y # b => cl[y] = bl[y]
  <2>1. CASE reclaims
    BY <2>1
  <2>2. CASE ~reclaims
    BY <2>2
  <2> QED BY <2>1, <2>2
<1>8. ~reclaims => cl[b] = [bl[b] EXCEPT ![pos[2]] = Unused]
  BY <1>1, <1>4
<1>9. \A j \in EntryIdx : bl[b][j] = Ent(t, bl, d, <<x, j>>) /\ <<x, j>> \in Positions
                           /\ Has(t, d, <<x, j>>)
  BY <1>2, <1>3 DEF Ent, Has, Positions
<1>10. reclaims => \A q \in Used(t, bl, d) : q[1] = x => q = pos
  <2> SUFFICES ASSUME reclaims, NEW q \in Used(t, bl, d), q[1] = x PROVE q = pos
    OBVIOUS
  <2>1. q \in Positions /\ q[2] \in EntryIdx /\ q = <<x, q[2]>> /\ bl[b][q[2]] = Ent(t, bl, d, q)
    BY <1>9, PositionParts DEF Used
  <2>2. q \notin Dots
    <3> SUFFICES ASSUME q \in Dots PROVE FALSE
      OBVIOUS
    <3>1. x = 0
      BY DEF Dots
    <3>2. d \in D /\ Ent(t, bl, d, <<0, 0>>) = Entry(".", d, "FT_DIRECTORY")
      BY <1>1 DEF Tree, DotsRight
    <3>3. bl[b][0].filename = "."
      BY <1>9, <3>1, <3>2, IndexSets DEF Entry
    <3> QED BY <3>3, IndexSets
  <2>3. Leads(ib, D, up, place, d, q, Ent(t, bl, d, q))
    BY <1>1, <2>2 DEF Tree, EntriesRight
  <2>4. Named(Ent(t, bl, d, q))
    BY <2>3, InputsAssumption DEF Leads, Named
  <2> QED BY <1>3, <2>1, <2>4
<1>11. ~reclaims => \E j \in EntryIdx : <<x, j>> \in Used(t, bl, d) /\ <<x, j>> # pos
  <2> SUFFICES ASSUME ~reclaims PROVE \E j \in EntryIdx : <<x, j>> \in Used(t, bl, d) /\ <<x, j>> # pos
    OBVIOUS
  <2>1. PICK j \in EntryIdx : bl[b][j].filename = "." \/ (Named(bl[b][j]) /\ j # pos[2])
    OBVIOUS
  <2> DEFINE q == <<x, j>>
  <2>2. q \in Positions /\ Has(t, d, q) /\ bl[b][j] = Ent(t, bl, d, q)
    BY <1>9
  <2>3. bl[b][j] # Unused
    <3>1. Unused.filename # "." /\ Unused.f_type = "FT_UNKNOWN"
      BY InputsAssumption DEF Unused, Entry, Components
    <3> QED BY <2>1, <3>1 DEF Named
  <2>4. q \in Used(t, bl, d)
    BY <1>1, <2>2, <2>3 DEF Tree, RestUnused
  <2>5. q # pos
    <3>1. Ent(t, bl, d, pos).filename # "."
      BY <1>2, InputsAssumption DEF Leads
    <3> QED BY <1>3, <2>1, <2>2, <3>1
  <2> QED BY <2>4, <2>5
<1>12. ASSUME NEW m \in D2, NEW q \in Positions
       PROVE  /\ q \in Used(u, cl, m) <=> q \in Used(t, bl, m) /\ ~(m = d /\ q = pos)
              /\ q \in Used(u, cl, m) => Ent(u, cl, m, q) = Ent(t, bl, m, q)
              /\ Has(u, m, q) /\ q \notin Used(u, cl, m) => Ent(u, cl, m, q) = Unused
  <2>1. q[1] \in BlockIdx /\ q[2] \in EntryIdx /\ (q = pos <=> q[1] = x /\ q[2] = pos[2])
    BY <1>3, PositionParts
  <2>2. Has(t, m, q) /\ q \notin Used(t, bl, m) => Ent(t, bl, m, q) = Unused
    BY DEF Tree, RestUnused
  <2>3. CASE m = d /\ q[1] = x /\ reclaims
    <3>1. ~Has(u, m, q)
      BY <1>5, <2>1, <2>3 DEF Has
    <3> QED BY <1>10, <2>3, <3>1 DEF Used
  <2>4. CASE m = d /\ q[1] = x /\ ~reclaims
    <3>1. At(u, m, q[1]) = b /\ At(t, m, q[1]) = b
      BY <1>5, <2>1, <2>4
    <3>2. Ent(u, cl, m, q) = IF q = pos THEN Unused ELSE Ent(t, bl, m, q)
      BY <1>3, <1>4, <1>8, <2>1, <2>4, <3>1 DEF Ent
    <3>3. Unused.f_type = "FT_UNKNOWN"
      BY DEF Unused, Entry
    <3> QED BY <2>2, <2>4, <3>1, <3>2, <3>3 DEF Used, Has
  <2>5. CASE ~(m = d /\ q[1] = x)
    <3>1. At(u, m, q[1]) = At(t, m, q[1])
      BY <1>5, <2>1, <2>5
    <3>2. Has(t, m, q) => cl[At(t, m, q[1])] = bl[At(t, m, q[1])]
      BY <1>6, <1>7, <2>1, <2>5 DEF Has
    <3> QED BY <2>2, <2>5, <3>1, <3>2 DEF Has, Ent, Used
  <2> QED BY <2>3, <2>4, <2>5
<1>13. ASSUME NEW m \in D2
       PROVE  /\ Used(u, cl, m) = IF m = d THEN Used(t, bl, m) \ {pos} ELSE Used(t, bl, m)
              /\ \A q \in Used(u, cl, m) : Ent(u, cl, m, q) = Ent(t, bl, m, q)
  <2>1. Used(u, cl, m) \subseteq Positions /\ Used(t, bl, m) \subseteq Positions
    BY DEF Used
  <2> HIDE DEF D2, x
  <2>2. \A q \in Positions :
           /\ q \in Used(u, cl, m) <=> q \in Used(t, bl, m) /\ ~(m = d /\ q = pos)
           /\ q \in Used(u, cl, m) => Ent(u, cl, m, q) = Ent(t, bl, m, q)
    <3> HIDE <1>a, <1>b, <1>c, SizesAssumption, InputsAssumption, OpenFilesAssumption
    <3> QED BY <1>12
  <2> DEFINE U == Used(u, cl, m)
             T == Used(t, bl, m)
  <2>3. U = IF m = d THEN T \ {pos} ELSE T
    <3> HIDE DEF U, T
    <3>1. U \subseteq Positions /\ T \subseteq Positions
          /\ \A q \in Positions : q \in U <=> q \in T /\ ~(m = d /\ q = pos)
      BY <2>1, <2>2 DEF U, T
    <3>2. CASE m = d
      <4>1. \A q \in Positions : q \in U <=> q \in T \ {pos}
        BY <3>1, <3>2
      <4>2. U = T \ {pos}
        BY <3>1, <4>1
      <4> QED BY <3>2, <4>2
    <3>3. CASE m # d
      <4>1. \A q \in Positions : q \in U <=> q \in T
        BY <3>1, <3>3
      <4>2. U = T
        BY <3>1, <4>1
      <4> QED BY <3>3, <4>2
    <3> QED BY <3>2, <3>3
  <2> QED BY <2>1, <2>2, <2>3
<1>14. ASSUME NEW m \in D2, NEW k \in BlockIdx, At(u, m, k) # NoBlock
       PROVE  \E j \in EntryIdx : <<k, j>> \in Used(u, cl, m)
  <2>1. CASE m = d /\ k = x
    <3>1. ~reclaims
      BY <1>5, <1>14, <2>1
    <3>2. PICK j \in EntryIdx : <<x, j>> \in Used(t, bl, d) /\ <<x, j>> # pos
      BY <1>11, <3>1
    <3> QED BY <1>13, <2>1, <3>2
  <2>2. CASE ~(m = d /\ k = x)
    <3>1. At(t, m, k) # NoBlock
      BY <1>5, <1>14, <2>2
    <3>2. PICK j \in EntryIdx : <<k, j>> \in Used(t, bl, m)
      BY <3>1 DEF Tree, SizesRight
    <3>3. ~(m = d /\ <<k, j>> = pos)
      BY <1>3, <2>2
    <3>4. <<k, j>> \in Used(u, cl, m)
      BY <1>13, <3>2, <3>3
    <3> QED BY <3>4
  <2> QED BY <2>1, <2>2
<1>15. RestUnused(D2, u, cl)
  BY <1>12 DEF RestUnused
<1>16. d \in D2 /\ pos \in Used(t, bl, d)
  BY <1>1, <1>2
<1>17. \A m \in D2 : u[m].i_size = IF m = d THEN t[m].i_size - 1 ELSE t[m].i_size
  BY <1>5
<1>18. Shrinks(D2, t, bl, u, cl, d, pos)
  <2> HIDE <1>a, <1>b, <1>c DEF D2, x
  <2> QED BY <1>13, <1>14, <1>15, <1>16, <1>17, Zenon DEF Shrinks
<1> QED BY <1>18

(* file_write: blocks that change are free ones or belong to the file.     *)
LEMMA FileWritten ==
    ASSUME NEW ib, NEW bb, NEW t, NEW bl, DiskTyped(ib, bb, t, bl),
           NEW D, NEW up, NEW place, NEW depth, Tree(ib, D, up, place, depth, t, bl),
           OneOwner(ib, t), OwnedUsed(ib, bb, t),
           NEW n \in ib, n \notin D, NEW u, \A m \in ib : m # n => u[m] = t[m],
           u[n].i_size \in Nat, u[n].i_size \div BlockSize \in BlockIdx,
           NEW cl, \A b \in bb : (\A k \in BlockIdx : At(t, n, k) # b) => cl[b] = bl[b]
    PROVE  /\ Tree(ib, D, up, place, depth, u, cl)
           /\ \A m \in D : \A q \in Used(t, bl, m) : Ent(u, cl, m, q) = Ent(t, bl, m, q)
<1>1. D \subseteq ib
  BY DEF Tree, TreeType
<1>2. ASSUME NEW m \in D, NEW q \in Positions, Has(t, m, q)
      PROVE  Ent(u, cl, m, q) = Ent(t, bl, m, q)
  <2>1. m \in ib /\ m # n /\ q[1] \in BlockIdx /\ u[m] = t[m]
    BY <1>1, PositionParts
  <2>2. At(t, m, q[1]) \in bb /\ \A k \in BlockIdx : At(t, n, k) # At(t, m, q[1])
    BY <1>2, <2>1 DEF OneOwner, OwnedUsed, Has
  <2> QED BY <2>1, <2>2 DEF Ent, At
<1>3. \A m \in ib : m \notin D => u[m].i_size \in Nat /\ u[m].i_size \div BlockSize \in BlockIdx
  BY DEF Tree, FilesRight
<1>4. \A m \in D : u[m] = t[m]
  BY <1>1
<1>5. \A m \in D : \A q \in Used(t, bl, m) : Ent(u, cl, m, q) = Ent(t, bl, m, q)
  BY <1>2 DEF Used
<1> QED BY <1>2, <1>3, <1>4, <1>5, TreeKeeps

-----------------------------------------------------------------------------
(* Names, blocks and cached inodes, call by call.                          *)

Usable == SyncWidth >= MaxInodes /\ \A p \in RmdirPaths : p[Len(p)] \in Names
Careful == \A p \in RmdirPaths : sys_rmdir(p) => ~OF!IsOpen(open_inodes, search_file(p).i_no)
CarefulSpec == Spec /\ [][Careful]_vars

-----------------------------------------------------------------------------
(* The inductive invariant.  In core is a copy of what the table has of an *)
(* inode in use, once; the root is, the descriptors' inodes are files, and *)
(* what was leaked are directories.                                        *)

Cached(ib, t, c, cont) ==
    /\ \A a \in OFP!Live(c) : c.object[a].i_no \in ib /\ cont[a] = t[c.object[a].i_no]
    /\ \A a, x \in OFP!Live(c) : c.object[a].i_no = c.object[x].i_no => a = x
HoldsFiles(D, c, ft, l) ==
    /\ OFP!RootAddr \in OFP!Live(c) /\ c.object[OFP!RootAddr].i_no = Root
    /\ \A s \in OFP!Slots : ft[s] # NULL => ft[s] \in OFP!Live(c) /\ c.object[ft[s]].i_no \notin D
    /\ \A a \in OFP!Addrs : l[a] # 0 => a \in OFP!Live(c) /\ c.object[a].i_no \in D
Numbered(ib, t) == \A n \in ib : t[n].i_no = n
Owned(ib, bb, t, died) ==
    /\ OneOwner(ib, t) /\ OwnedUsed(ib, bb, t) /\ KeepsPremarked(ib, bb, t)
    /\ ~died => UsedOwned(ib, bb, t)
DiskSame == diskInodeBitmap = inodeBitmap /\ diskBlockBitmap = blockBitmap

InTree(D, up, place, depth) ==
    /\ Tree(inodeBitmap, D, up, place, depth, inodeTable, blocks)
    /\ HoldsFiles(D, open_inodes, fileTable, leaked)
Sound ==
    /\ Numbered(inodeBitmap, inodeTable)
    /\ Owned(inodeBitmap, blockBitmap, inodeTable, diedMidCall)
    /\ Cached(inodeBitmap, inodeTable, open_inodes, contents)
    /\ DiskSame
TreeInv == IInv /\ Sound /\ \E D, up, place, depth : InTree(D, up, place, depth)

-----------------------------------------------------------------------------
(* Open inodes: OF and OFP have the same operators.                        *)

LEMMA SameOps ==
    /\ OF!RootAddr = OFP!RootAddr /\ OF!Root = Root /\ OFP!Root = Root
    /\ \A c : /\ OF!Live(c) = OFP!Live(c) /\ OF!malloc(c) = OFP!malloc(c)
              /\ OF!HasHeap(c) <=> OFP!HasHeap(c)
    /\ \A c, n : /\ OF!IsOpen(c, n) <=> OFP!IsOpen(c, n)
                 /\ OF!InCoreOf(c, n) = OFP!InCoreOf(c, n) /\ OF!AddrOf(c, n) = OFP!AddrOf(c, n)
    /\ \A c, n, i : /\ OF!inode_open(c, n, i) = OFP!inode_open(c, n, i)
                    /\ OF!list_push(c, n, i) = OFP!list_push(c, n, i)
    /\ \A c, a : OF!inode_close(c, a) = OFP!inode_close(c, a)
<1>1. OF!RootAddr = OFP!RootAddr /\ OF!Root = Root /\ OFP!Root = Root
  BY Zenon DEF OF!RootAddr, OFP!RootAddr, OF!Root, OFP!Root, Root
<1>2. ASSUME NEW c
      PROVE  /\ OF!Live(c) = OFP!Live(c) /\ OF!malloc(c) = OFP!malloc(c)
             /\ OF!HasHeap(c) <=> OFP!HasHeap(c)
  BY Zenon DEF OF!Live, OFP!Live, OF!Addrs, OFP!Addrs, OF!malloc, OFP!malloc, OF!HasHeap, OFP!HasHeap
<1>3. ASSUME NEW c, NEW n
      PROVE  /\ OF!IsOpen(c, n) <=> OFP!IsOpen(c, n)
             /\ OF!InCoreOf(c, n) = OFP!InCoreOf(c, n) /\ OF!AddrOf(c, n) = OFP!AddrOf(c, n)
  <2>1. (OF!IsOpen(c, n) <=> OFP!IsOpen(c, n)) /\ OF!InCoreOf(c, n) = OFP!InCoreOf(c, n)
    BY Zenon DEF OF!IsOpen, OFP!IsOpen, OF!InCoreOf, OFP!InCoreOf, OF!Matching, OFP!Matching
  <2>2. OF!malloc(c) = OFP!malloc(c)
    BY <1>2
  <2> QED BY <2>1, <2>2 DEF OF!AddrOf, OFP!AddrOf
<1>4. ASSUME NEW c, NEW n, NEW i
      PROVE  /\ OF!inode_open(c, n, i) = OFP!inode_open(c, n, i)
             /\ OF!list_push(c, n, i) = OFP!list_push(c, n, i)
  <2>1. \A a : OF!list_push(c, a, i) = OFP!list_push(c, a, i)
    BY Zenon DEF OF!list_push, OFP!list_push
  <2>2. OF!malloc(c) = OFP!malloc(c)
    BY <1>2
  <2>3. (OF!IsOpen(c, n) <=> OFP!IsOpen(c, n)) /\ OF!InCoreOf(c, n) = OFP!InCoreOf(c, n)
    BY <1>3
  <2>4. OF!inode_open(c, n, i) = OFP!inode_open(c, n, i)
    BY <2>1, <2>2, <2>3 DEF OF!inode_open, OFP!inode_open
  <2> QED BY <2>1, <2>4
<1>5. ASSUME NEW c, NEW a
      PROVE  OF!inode_close(c, a) = OFP!inode_close(c, a)
  BY Zenon DEF OF!inode_close, OFP!inode_close, OF!IndexOf, OFP!IndexOf, OF!RemoveAt, OFP!RemoveAt
<1> QED BY <1>1, <1>2, <1>3, <1>4, <1>5, Zenon

(* What the invariant of OpenFilesProofs says of the state.                *)
LEMMA OpenFacts ==
    ASSUME IInv
    PROVE  /\ OFP!ListType(open_inodes) /\ OFP!Threaded(open_inodes)
           /\ OFP!SlotsType(fileTable) /\ leaked \in [OFP!Addrs -> Nat]
           /\ OFP!DescriptorsWired /\ OFP!CountsMatchHolders /\ OFP!FdsHold
           /\ fdTable \in [OFP!Fds -> OFP!Slots \cup {-1}]
           /\ OFP!Balanced(open_inodes, fileTable, leaked)
BY OFAssumptions, OFP!Disassemble, OFP!HeldIsLive DEF IInv, OFP!IInv

LEMMA IsOpenLive ==
    ASSUME NEW c, OFP!ListType(c), OFP!Threaded(c), NEW n
    PROVE  OFP!IsOpen(c, n) <=> \E a \in OFP!Live(c) : c.object[a].i_no = n
<1>1. ASSUME OFP!IsOpen(c, n) PROVE \E a \in OFP!Live(c) : c.object[a].i_no = n
  <2>1. /\ OFP!InCoreOf(c, n) \in OFP!Addrs /\ c.object[OFP!InCoreOf(c, n)] \in OFP!InCore
        /\ c.object[OFP!InCoreOf(c, n)].i_no = n
    BY <1>1, OFAssumptions, OFP!InCoreOfIsLive
  <2>2. NULL \notin OFP!InCore
    BY OFAssumptions, OFP!NullIsNoInode
  <2> QED BY <2>1, <2>2 DEF OFP!Live
<1>2. ASSUME NEW a \in OFP!Live(c), c.object[a].i_no = n PROVE OFP!IsOpen(c, n)
  <2>1. PICK k \in DOMAIN c.list : c.list[k] = a
    BY DEF OFP!Threaded
  <2> QED BY <1>2, <2>1 DEF OFP!IsOpen, OFP!Matching
<1> QED BY <1>1, <1>2

(* An inode is the same in core and in the table.                          *)
LEMMA InodeAtIsTable ==
    ASSUME IInv, Cached(inodeBitmap, inodeTable, open_inodes, contents), NEW n
    PROVE  inode_at(n) = inodeTable[n]
<1>1. CASE OFP!IsOpen(open_inodes, n)
  <2>1. /\ OFP!InCoreOf(open_inodes, n) \in OFP!Addrs
        /\ open_inodes.object[OFP!InCoreOf(open_inodes, n)] \in OFP!InCore
        /\ open_inodes.object[OFP!InCoreOf(open_inodes, n)].i_no = n
    BY <1>1, OpenFacts, OFAssumptions, OFP!InCoreOfIsLive
  <2>2. NULL \notin OFP!InCore
    BY OFAssumptions, OFP!NullIsNoInode
  <2>3. OFP!InCoreOf(open_inodes, n) \in OFP!Live(open_inodes)
    BY <2>1, <2>2 DEF OFP!Live
  <2> QED BY <1>1, <2>1, <2>3, SameOps DEF inode_at, Cached
<1>2. CASE ~OFP!IsOpen(open_inodes, n)
  BY <1>2, SameOps DEF inode_at
<1> QED BY <1>1, <1>2

(* A change to an inode in use, in core and in the table.                  *)
LEMMA UpdatedCached ==
    ASSUME IInv, Cached(inodeBitmap, inodeTable, open_inodes, contents), NEW n \in inodeBitmap,
           NEW i
    PROVE  Cached(inodeBitmap, [inodeTable EXCEPT ![n] = i], open_inodes, Updated(n, i))
<1> DEFINE c == open_inodes
           u == [inodeTable EXCEPT ![n] = i]
           x == OFP!InCoreOf(c, n)
<1>1. /\ inodeBitmap \subseteq Inodes /\ inodeTable \in [Inodes -> InodeImages]
      /\ contents \in [OFP!Addrs -> InodeImages]
  BY SameSets DEF IInv, DiskType
<1> SUFFICES ASSUME NEW a \in OFP!Live(c)
             PROVE  Updated(n, i)[a] = u[c.object[a].i_no]
  BY DEF Cached
<1>2. a \in OFP!Addrs /\ c.object[a].i_no \in inodeBitmap /\ contents[a] = inodeTable[c.object[a].i_no]
  BY DEF Cached, OFP!Live
<1>3. CASE c.object[a].i_no = n
  <2>1. OFP!IsOpen(c, n)
    BY <1>3, IsOpenLive, OpenFacts
  <2>2. x \in OFP!Addrs /\ c.object[x] \in OFP!InCore /\ c.object[x].i_no = n
    BY <2>1, OpenFacts, OFAssumptions, OFP!InCoreOfIsLive
  <2>3. NULL \notin OFP!InCore
    BY OFAssumptions, OFP!NullIsNoInode
  <2>4. x = a
    BY <1>3, <2>2, <2>3 DEF Cached, OFP!Live
  <2>5. Updated(n, i) = [contents EXCEPT ![a] = i]
    BY <2>1, <2>4, SameOps DEF Updated
  <2> QED BY <1>1, <1>2, <1>3, <2>5
<1>4. CASE c.object[a].i_no # n
  <2>1. Updated(n, i)[a] = contents[a]
    <3>1. CASE OFP!IsOpen(c, n)
      <4>1. x # a
        BY <1>4, <3>1, OpenFacts, OFAssumptions, OFP!InCoreOfIsLive
      <4> QED BY <1>1, <1>2, <3>1, <4>1, SameOps DEF Updated
    <3>2. CASE ~OFP!IsOpen(c, n)
      BY <3>2, SameOps DEF Updated
    <3> QED BY <3>1, <3>2
  <2> QED BY <1>1, <1>2, <1>4, <2>1
<1> QED BY <1>3, <1>4

-----------------------------------------------------------------------------
(* Path search.                                                            *)

LEMMA NamesApart ==
    /\ NULL \notin Components /\ "." \notin Names /\ ".." \notin Names
    /\ Names \subseteq Components
BY InputsAssumption DEF Components

(* search_dir_entry in a directory of the tree.                            *)
LEMMA DirLookup ==
    ASSUME IInv, NEW D, NEW up, NEW place, NEW depth, InTree(D, up, place, depth),
           NEW d \in D, NEW name \in Components
    PROVE  LET e == search_dir_entry[inodeTable[d]][name]
           IN  \/ e = NULL /\ \A q \in Used(inodeTable, blocks, d) :
                                  Ent(inodeTable, blocks, d, q).filename # name
               \/ \E q \in Used(inodeTable, blocks, d) :
                      e = Ent(inodeTable, blocks, d, q) /\ e.filename = name
<1> DEFINE t == inodeTable
           bl == blocks
           M == Matches(t[d], name)
           e == search_dir_entry[t[d]][name]
<1>1. D \subseteq Inodes /\ d \in Inodes /\ t \in [Inodes -> InodeImages] /\ t[d] \in InodeImages
  BY DEF InTree, Tree, TreeType, IInv, DiskType
<1>2. e = IF M = {} THEN NULL ELSE EntryAt(t[d], First(M))
  BY <1>1 DEF search_dir_entry
<1>3. M = {q \in Used(t, bl, d) : Ent(t, bl, d, q).filename = name}
  <2>1. ASSUME NEW q \in Positions, Has(t, d, q), Ent(t, bl, d, q).filename = name
        PROVE  q \in Used(t, bl, d)
    <3>1. Ent(t, bl, d, q) # Unused
      BY <2>1, NamesApart DEF Unused, Entry
    <3> QED BY <2>1, <3>1 DEF InTree, Tree, RestUnused
  <2>2. M = {q \in Positions : Has(t, d, q) /\ Ent(t, bl, d, q).filename = name}
    BY DEF Matches, InDir, EntryAt, Has, Ent, At
  <2> QED BY <2>1, <2>2 DEF Used
<1>4. CASE M = {}
  BY <1>2, <1>3, <1>4
<1>5. CASE M # {}
  <2>1. PICK q \in M : TRUE
    BY <1>5
  <2>2. M = {q}
    BY <1>3, <2>1 DEF InTree, Tree, NamesOnce
  <2>3. First(M) = q
    <3>1. q[1] \in Nat /\ q[2] \in Nat
      BY <1>3, <2>1, PositionParts DEF Used, BlockIdx, EntryIdx
    <3> HIDE DEF M
    <3> QED BY <2>2, <3>1 DEF First, Precedes
  <2>4. e = Ent(t, bl, d, q)
    BY <1>2, <1>5, <2>3 DEF EntryAt, Ent, At
  <2> QED BY <1>3, <2>1, <2>4
<1> QED BY <1>4, <1>5

(* What an entry of a directory leads to.                                  *)
LEMMA EntryLeads ==
    ASSUME NEW ib, NEW D, NEW up, NEW place, NEW depth, NEW t, NEW bl,
           Tree(ib, D, up, place, depth, t, bl), NEW d \in D, NEW q \in Used(t, bl, d),
           NEW e, e = Ent(t, bl, d, q)
    PROVE  \/ e.f_type = "FT_DIRECTORY" /\ e.i_no \in D
              /\ (e.filename \in Names => up[e.i_no] = d /\ e.i_no # Root)
           \/ e.f_type = "FT_REGULAR" /\ e.i_no \in ib /\ e.i_no \notin D /\ up[e.i_no] = d
<1>1. CASE q \in Dots
  <2>1. up[d] \in D /\ d \in D
    BY DEF Tree, TreeType
  <2>2. e = Entry(".", d, "FT_DIRECTORY") \/ e = Entry("..", up[d], "FT_DIRECTORY")
    BY <1>1 DEF Tree, DotsRight, Dots
  <2> QED BY <2>1, <2>2, NamesApart DEF Entry
<1>2. CASE q \notin Dots
  BY <1>2 DEF Tree, EntriesRight, Leads
<1> QED BY <1>1, <1>2

(* One component of a path: what follow makes of walk r.                   *)
Follows(ib, D, up, t, bl, r, name, r2) ==
    IF r.f_type # "FT_DIRECTORY" THEN r2 = r
    ELSE /\ r2.depth = r.depth + 1
         /\ \/ /\ r2.f_type = "FT_UNKNOWN" /\ r2.dir = r.dir
               /\ \A q \in Used(t, bl, r.dir) : Ent(t, bl, r.dir, q).filename # name
            \/ /\ r2.f_type = "FT_DIRECTORY" /\ r2.i_no = r2.dir /\ r2.above = r.dir
               /\ name \in Names => up[r2.i_no] = r.dir /\ r2.i_no # Root
            \/ /\ r2.f_type = "FT_REGULAR" /\ r2.dir = r.dir
               /\ r2.i_no \in ib /\ r2.i_no \notin D /\ up[r2.i_no] = r.dir

WalksIn(D) == {r \in Walks : r.dir \in D /\ r.above \in D}
Step(r, name) == follow[r][search_dir_entry[inode_at(r.dir)][name]]

LEMMA WalkStep ==
    ASSUME IInv, Cached(inodeBitmap, inodeTable, open_inodes, contents),
           Numbered(inodeBitmap, inodeTable),
           NEW D, NEW up, NEW place, NEW depth, InTree(D, up, place, depth),
           NEW r \in WalksIn(D), NEW name \in Components
    PROVE  /\ Step(r, name) \in WalksIn(D)
           /\ Follows(inodeBitmap, D, up, inodeTable, blocks, r, name, Step(r, name))
<1> DEFINE t == inodeTable
           bl == blocks
           e == search_dir_entry[t[r.dir]][name]
           d == r.dir
<1>1. /\ r \in Walks /\ d \in D /\ r.above \in D /\ D \subseteq Inodes
      /\ t \in [Inodes -> InodeImages] /\ bl \in [Blocks -> [EntryIdx -> Entries]]
      /\ inodeBitmap \subseteq Inodes /\ D \subseteq inodeBitmap
  BY DEF WalksIn, InTree, Tree, TreeType, IInv, DiskType
<1>2. Step(r, name) = follow[r][e]
  BY InodeAtIsTable DEF Step
<1>3. \/ e = NULL /\ \A q \in Used(t, bl, d) : Ent(t, bl, d, q).filename # name
      \/ /\ \E q \in Used(t, bl, d) : e = Ent(t, bl, d, q)
         /\ e.filename = name
  BY <1>1, DirLookup
<1> HIDE DEF e
<1> DEFINE r2 == Step(r, name)
<1>4. /\ r = [f_type |-> r.f_type, i_no |-> r.i_no, dir |-> r.dir, above |-> r.above,
              depth |-> r.depth]
      /\ r.f_type \in FileTypes /\ r.i_no \in Inodes /\ r.depth \in Nat /\ r.depth + 1 \in Nat
      /\ d \in Inodes /\ r.above \in Inodes
  BY <1>1 DEF Walks
<1>5. ASSUME r.f_type # "FT_DIRECTORY", r2 = r
      PROVE  r2 \in WalksIn(D) /\ Follows(inodeBitmap, D, up, t, bl, r, name, r2)
  BY <1>5 DEF Follows
<1>6. CASE e = NULL /\ \A q \in Used(t, bl, d) : Ent(t, bl, d, q).filename # name
  <2>1. r2 = IF r.f_type # "FT_DIRECTORY" THEN r
             ELSE [r EXCEPT !.f_type = "FT_UNKNOWN", !.depth = @ + 1]
    BY <1>1, <1>2, <1>6 DEF follow
  <2>2. CASE r.f_type = "FT_DIRECTORY"
    <3>1. r2 = [f_type |-> "FT_UNKNOWN", i_no |-> r.i_no, dir |-> d, above |-> r.above,
                depth |-> r.depth + 1]
      BY <1>4, <2>1, <2>2
    <3> HIDE DEF r2
    <3>2. r2 \in WalksIn(D)
      BY <1>1, <1>4, <3>1 DEF Walks, WalksIn, FileTypes
    <3>3. r2.f_type = "FT_UNKNOWN" /\ r2.dir = d /\ r2.depth = r.depth + 1
      BY <3>1
    <3>4. Follows(inodeBitmap, D, up, t, bl, r, name, r2)
      BY <1>6, <2>2, <3>3 DEF Follows
    <3> QED BY <3>2, <3>4 DEF r2
  <2> QED BY <1>5, <2>1, <2>2
<1>7. CASE e.filename = name /\ \E q \in Used(t, bl, d) : e = Ent(t, bl, d, q)
  <2>1. PICK q \in Used(t, bl, d) : e = Ent(t, bl, d, q)
    BY <1>7
  <2>2. e \in Entries
    <3>1. At(t, d, q[1]) \in Blocks /\ q[2] \in EntryIdx
      BY <1>1, Images, PositionParts DEF Used, Has
    <3> QED BY <1>1, <2>1, <3>1 DEF Ent
  <2>3. e # NULL
    BY <2>2, NullAssumption
  <2>4. \/ e.f_type = "FT_DIRECTORY" /\ e.i_no \in D
           /\ (e.filename \in Names => up[e.i_no] = d /\ e.i_no # Root)
        \/ e.f_type = "FT_REGULAR" /\ e.i_no \in inodeBitmap /\ e.i_no \notin D /\ up[e.i_no] = d
    BY <1>1, <2>1, EntryLeads DEF InTree
  <2>8. inode_at(r.dir).i_no = r.dir
    BY <1>1, InodeAtIsTable DEF Numbered
  <2>5. r2 = IF r.f_type # "FT_DIRECTORY" THEN r
             ELSE IF e.f_type = "FT_DIRECTORY"
             THEN [r EXCEPT !.i_no = e.i_no, !.dir = e.i_no, !.above = r.dir, !.depth = @ + 1]
             ELSE [r EXCEPT !.i_no = e.i_no, !.f_type = e.f_type, !.depth = @ + 1]
    <3>1. follow[r][e] =
             IF r.f_type # "FT_DIRECTORY" THEN r
             ELSE IF e = NULL THEN [r EXCEPT !.f_type = "FT_UNKNOWN", !.depth = @ + 1]
             ELSE IF e.f_type = "FT_DIRECTORY"
             THEN [r EXCEPT !.i_no = e.i_no, !.dir = e.i_no, !.above = inode_at(r.dir).i_no,
                            !.depth = @ + 1]
             ELSE [r EXCEPT !.i_no = e.i_no, !.f_type = e.f_type, !.depth = @ + 1]
      BY <1>1, <2>2 DEF follow
    <3> QED BY <1>2, <2>3, <2>8, <3>1
  <2>6. CASE r.f_type = "FT_DIRECTORY" /\ e.f_type = "FT_DIRECTORY"
    <3>1. r2 = [f_type |-> "FT_DIRECTORY", i_no |-> e.i_no, dir |-> e.i_no, above |-> d,
                depth |-> r.depth + 1]
      BY <1>4, <2>5, <2>6
    <3>2. e.i_no \in D /\ e.i_no \in Inodes
          /\ (e.filename \in Names => up[e.i_no] = d /\ e.i_no # Root)
      BY <1>1, <2>4, <2>6
    <3> HIDE DEF r2
    <3>3. r2 \in WalksIn(D)
      BY <1>1, <1>4, <3>1, <3>2 DEF Walks, WalksIn, FileTypes
    <3>4. r2.f_type = "FT_DIRECTORY" /\ r2.dir = e.i_no /\ r2.i_no = e.i_no /\ r2.above = d
          /\ r2.depth = r.depth + 1
      BY <3>1
    <3>5. Follows(inodeBitmap, D, up, t, bl, r, name, r2)
      BY <1>7, <2>6, <3>2, <3>4 DEF Follows
    <3> QED BY <3>3, <3>5 DEF r2
  <2>7. CASE r.f_type = "FT_DIRECTORY" /\ e.f_type # "FT_DIRECTORY"
    <3>1. e.f_type = "FT_REGULAR" /\ e.i_no \in inodeBitmap /\ e.i_no \notin D
          /\ up[e.i_no] = d /\ e.i_no \in Inodes
      BY <1>1, <2>4, <2>7
    <3>2. r2 = [f_type |-> "FT_REGULAR", i_no |-> e.i_no, dir |-> d, above |-> r.above,
                depth |-> r.depth + 1]
      BY <1>4, <2>5, <2>7, <3>1
    <3> HIDE DEF r2
    <3>3. r2 \in WalksIn(D)
      BY <1>1, <1>4, <3>1, <3>2 DEF Walks, WalksIn, FileTypes
    <3>4. r2.f_type = "FT_REGULAR" /\ r2.dir = d /\ r2.i_no = e.i_no /\ r2.depth = r.depth + 1
      BY <3>2
    <3>5. Follows(inodeBitmap, D, up, t, bl, r, name, r2)
      BY <2>7, <3>1, <3>4 DEF Follows
    <3> QED BY <3>3, <3>5 DEF r2
  <2> QED BY <1>5, <2>5, <2>6, <2>7
<1> QED BY <1>3, <1>6, <1>7

(* search_file as a walk that takes one step for each component.           *)
Start == [f_type |-> "FT_DIRECTORY", i_no |-> Root, dir |-> Root, above |-> Root, depth |-> 0]
Walked(p, w) ==
    /\ w[0] = Start /\ \A k \in 1 .. Len(p) : w[k] = Step(w[k - 1], p[k])
    /\ LET r == w[Len(p)]
       IN  search_file(p) = [f_type |-> r.f_type, i_no |-> r.i_no, depth |-> r.depth,
                             parent_dir |-> IF r.f_type = "FT_DIRECTORY" THEN r.above ELSE r.dir]

LEMMA SearchWalk ==
    ASSUME IInv, Cached(inodeBitmap, inodeTable, open_inodes, contents),
           Numbered(inodeBitmap, inodeTable),
           NEW D, NEW up, NEW place, NEW depth, InTree(D, up, place, depth),
           NEW p \in Seq(Components)
    PROVE  \E w \in [0 .. Len(p) -> WalksIn(D)] : Walked(p, w)
<1> DEFINE n == Len(p)
           A == WalksIn(D)
           G(k) == [r \in A |-> Step(r, p[k])]
           g == [k \in 1 .. n |-> G(k)]
           body(walk) == [k \in 0 .. n |-> IF k = 0 THEN Start
               ELSE follow[walk[k - 1]][search_dir_entry[inode_at(walk[k - 1].dir)][p[k]]]]
           walk == CHOOSE walk : walk = body(walk)
<1>1. n \in Nat /\ p \in Seq(Components)
  OBVIOUS
<1>2. ASSUME NEW k \in 1 .. n PROVE p[k] \in Components
  BY <1>1
<1>3. ASSUME NEW k \in 1 .. n PROVE G(k) \in [A -> A]
  <2>1. \A r \in A : Step(r, p[k]) \in A
    BY <1>2, WalkStep
  <2> HIDE DEF A
  <2> QED BY <2>1
<1>4. Start \in A
  BY IndexSets DEF Start, WalksIn, Walks, FileTypes, InTree, Tree, TreeType
<1> HIDE DEF A
<1>5. PICK w \in [0 .. n -> A] : w[0] = Start /\ \A k \in 1 .. n : w[k] = Step(w[k - 1], p[k])
  <2> HIDE DEF G, n
  <2>1. g \in [1 .. n -> [A -> A]]
    BY <1>3, Zenon
  <2> HIDE DEF g
  <2>2. PICK f \in [0 .. n -> A] : Iterates(f, n, Start, g)
    BY <1>1, <1>4, <2>1, IntervalRecursion
  <2>3. ASSUME NEW k \in 1 .. n PROVE f[k] = Step(f[k - 1], p[k])
    <3>1. f[k] = g[k][f[k - 1]]
      BY <2>2 DEF Iterates
    <3>2. k - 1 \in 0 .. n
      BY <1>1
    <3>3. f[k - 1] \in A
      BY <3>2
    <3> QED BY <3>1, <3>3 DEF g, G
  <2> QED BY <2>2, <2>3 DEF Iterates
<1>6. w = body(w)
  <2>1. \A k \in 0 .. n : w[k] = body(w)[k]
    BY <1>1, <1>5 DEF Step
  <2> HIDE DEF n
  <2> QED BY <2>1
<1>7. ASSUME NEW v, v = body(v) PROVE v = w
  <2>1. \A k \in 0 .. n : v[k] = IF k = 0 THEN Start ELSE Step(v[k - 1], p[k])
    BY <1>7 DEF Step
  <2> DEFINE S == {k \in 0 .. n : v[k] = w[k]}
  <2>2. 0 \in S
    BY <1>1, <1>5, <2>1
  <2>3. \A k \in 0 .. n - 1 : k \in S => k + 1 \in S
    <3> SUFFICES ASSUME NEW k \in 0 .. n - 1, v[k] = w[k] PROVE k + 1 \in S
      OBVIOUS
    <3>1. k + 1 \in 1 .. n /\ k + 1 \in 0 .. n /\ k + 1 # 0 /\ k + 1 - 1 = k
      BY <1>1
    <3> QED BY <1>5, <2>1, <3>1
  <2>4. 0 .. n \subseteq S
    <3> HIDE DEF S
    <3> QED BY <1>1, <2>2, <2>3, IntervalInduction
  <2>5. v = [k \in 0 .. n |-> v[k]] /\ w = [k \in 0 .. n |-> w[k]]
    BY <1>5, <1>7
  <2> QED BY <2>4, <2>5
<1>8. walk = w
  <2> HIDE DEF body
  <2> QED BY <1>6, <1>7
<1>9. LET r == walk[n]
      IN  search_file(p) = [f_type |-> r.f_type, i_no |-> r.i_no, depth |-> r.depth,
                            parent_dir |-> IF r.f_type = "FT_DIRECTORY" THEN r.above ELSE r.dir]
  BY Zenon DEF search_file, Start
<1> QED BY <1>5, <1>8, <1>9 DEF Walked, A

(* What search_file promises.  A directory found by name is in the parent; *)
(* so is a file; and a name can be created where nothing has it.           *)
FoundDir(D, up, p, r) ==
    r.i_no \in D /\ (p[Len(p)] \in Names => up[r.i_no] = r.parent_dir /\ r.i_no # Root)
FoundFile(ib, D, up, r) == r.i_no \in ib /\ r.i_no \notin D /\ up[r.i_no] = r.parent_dir
FoundNone(t, bl, p, r) ==
    p[Len(p)] \in Names
    /\ \A q \in Used(t, bl, r.parent_dir) : Ent(t, bl, r.parent_dir, q).filename # p[Len(p)]

LEMMA SearchFile ==
    ASSUME IInv, Cached(inodeBitmap, inodeTable, open_inodes, contents),
           Numbered(inodeBitmap, inodeTable),
           NEW D, NEW up, NEW place, NEW depth, InTree(D, up, place, depth),
           NEW p \in Paths, NEW r, r = search_file(p)
    PROVE  /\ r.parent_dir \in D
           /\ r.f_type = "FT_DIRECTORY" => FoundDir(D, up, p, r)
           /\ r.f_type = "FT_REGULAR" => FoundFile(inodeBitmap, D, up, r)
           /\ r.f_type = "FT_UNKNOWN" /\ r.depth = Len(p) => FoundNone(inodeTable, blocks, p, r)
<1> DEFINE n == Len(p)
           t == inodeTable
           bl == blocks
           OK(k, v) ==
              /\ v.depth \in Nat /\ v.depth <= k
              /\ v.f_type = "FT_DIRECTORY" =>
                    v.i_no = v.dir /\ (k > 0 /\ p[k] \in Names => up[v.i_no] = v.above /\ v.i_no # Root)
              /\ v.f_type = "FT_REGULAR" =>
                    v.i_no \in inodeBitmap /\ v.i_no \notin D /\ up[v.i_no] = v.dir
              /\ v.f_type = "FT_UNKNOWN" /\ v.depth = k =>
                    k > 0 /\ \A q \in Used(t, bl, v.dir) : Ent(t, bl, v.dir, q).filename # p[k]
<1>1. n \in Nat /\ n > 0 /\ p \in Seq(Components)
  BY InputsAssumption
<1>2. PICK w \in [0 .. n -> WalksIn(D)] : Walked(p, w)
  BY <1>1, SearchWalk
<1>3. \A k \in 0 .. n : OK(k, w[k])
  <2> DEFINE S == {k \in 0 .. n : OK(k, w[k])}
  <2>1. 0 \in S
    <3>1. OK(0, Start)
      BY DEF Start
    <3> QED BY <1>1, <1>2, <3>1 DEF Walked
  <2>2. ASSUME NEW k \in 0 .. n - 1, OK(k, w[k]) PROVE OK(k + 1, w[k + 1])
    <3> DEFINE v == w[k]
               v2 == w[k + 1]
    <3>1. k + 1 \in 1 .. n /\ k + 1 - 1 = k /\ k \in 0 .. n /\ v \in WalksIn(D)
          /\ p[k + 1] \in Components
      BY <1>1, <1>2
    <3>2. v2 = Step(v, p[k + 1])
      BY <1>2, <3>1 DEF Walked
    <3>3. Follows(inodeBitmap, D, up, t, bl, v, p[k + 1], v2)
      BY <3>1, <3>2, WalkStep
    <3> HIDE DEF v, v2
    <3>4. OK(k, v) /\ k \in Nat
      BY <2>2 DEF v
    <3>5. OK(k + 1, v2)
      <4>1. CASE v.f_type # "FT_DIRECTORY"
        BY <3>3, <3>4, <4>1 DEF Follows
      <4>2. CASE v.f_type = "FT_DIRECTORY"
        BY <3>3, <3>4, <4>2 DEF Follows
      <4> QED BY <4>1, <4>2
    <3> QED BY <3>5 DEF v2
  <2> HIDE DEF OK
  <2>3. \A k \in 0 .. n - 1 : k \in S => k + 1 \in S
    BY <1>1, <2>2
  <2>4. 0 .. n \subseteq S
    <3> HIDE DEF S
    <3> QED BY <1>1, <2>1, <2>3, IntervalInduction
  <2> QED BY <2>4
<1> DEFINE v == w[n]
<1>4. OK(n, v) /\ v \in WalksIn(D)
  <2> HIDE DEF OK
  <2>1. n \in 0 .. n
    BY <1>1
  <2> QED BY <1>2, <1>3, <2>1
<1>5. r = [f_type |-> v.f_type, i_no |-> v.i_no, depth |-> v.depth,
           parent_dir |-> IF v.f_type = "FT_DIRECTORY" THEN v.above ELSE v.dir]
  BY <1>2 DEF Walked
<1> HIDE DEF v
<1>6. /\ r.f_type = v.f_type /\ r.i_no = v.i_no /\ r.depth = v.depth
      /\ r.parent_dir = IF v.f_type = "FT_DIRECTORY" THEN v.above ELSE v.dir
      /\ v.dir \in D /\ v.above \in D
  BY <1>4, <1>5 DEF WalksIn
<1>7. p[n] \in Components
  BY <1>1
<1>8. ASSUME v.f_type = "FT_UNKNOWN", v.depth = n
      PROVE  FoundNone(t, bl, p, r)
  <2>1. \A q \in Used(t, bl, v.dir) : Ent(t, bl, v.dir, q).filename # p[n]
    BY <1>4, <1>8
  <2>2. /\ <<0, 0>> \in Used(t, bl, v.dir) /\ <<0, 1>> \in Used(t, bl, v.dir)
        /\ Ent(t, bl, v.dir, <<0, 0>>).filename = "."
        /\ Ent(t, bl, v.dir, <<0, 1>>).filename = ".."
    <3>1. /\ Dots \subseteq Used(t, bl, v.dir)
          /\ Ent(t, bl, v.dir, <<0, 0>>) = Entry(".", v.dir, "FT_DIRECTORY")
          /\ Ent(t, bl, v.dir, <<0, 1>>) = Entry("..", up[v.dir], "FT_DIRECTORY")
      BY <1>6 DEF InTree, Tree, DotsRight
    <3> QED BY <3>1 DEF Dots, Entry
  <2>3. p[n] \in Names
    BY <1>7, <2>1, <2>2 DEF Components
  <2> QED BY <1>6, <1>8, <2>1, <2>3 DEF FoundNone
<1> QED BY <1>1, <1>4, <1>6, <1>8 DEF FoundDir, FoundFile

-----------------------------------------------------------------------------
(* What a step must show, and the calls that change only descriptors and   *)
(* open inodes.                                                            *)

(* The name of every inode in use but the root: the directory that has it  *)
(* and the entry.                                                          *)
Links(ib, up, place, t, bl) == [n \in ib \ {Root} |-> <<up[n], Ent(t, bl, up[n], place[n])>>]
LinksNow(up, place) == Links(inodeBitmap, up, place, inodeTable, blocks)
WithLink(L, n, d, e) == [m \in DOMAIN L \cup {n} |-> IF m = n THEN <<d, e>> ELSE L[m]]
WithoutLink(L, n) == [m \in DOMAIN L \ {n} |-> L[m]]

(* The invariant holds again, and the names are L.                         *)
Stays(L) ==
    /\ Sound'
    /\ \E D, up, place, depth : /\ InTree(D, up, place, depth)'
                                 /\ Links(inodeBitmap', up, place, inodeTable', blocks') = L

LEMMA SoundStays ==
    ASSUME NEW D, NEW up, NEW place, NEW depth, NEW L,
           Links(inodeBitmap', up, place, inodeTable', blocks') = L,
           Tree(inodeBitmap', D, up, place, depth, inodeTable', blocks'),
           HoldsFiles(D, open_inodes', fileTable', leaked'),
           Numbered(inodeBitmap', inodeTable'),
           Owned(inodeBitmap', blockBitmap', inodeTable', diedMidCall'),
           Cached(inodeBitmap', inodeTable', open_inodes', contents'),
           diskInodeBitmap' = inodeBitmap', diskBlockBitmap' = blockBitmap'
    PROVE  Stays(L)
<1>1. InTree(D, up, place, depth)'
  BY DEF InTree
<1>2. \E E, f, g, h : InTree(E, f, g, h)' /\ Links(inodeBitmap', f, g, inodeTable', blocks') = L
  BY <1>1
<1> QED BY <1>2 DEF Stays, Sound, DiskSame

(* The entries stay where they are.                                        *)
LEMMA LinksKeep ==
    ASSUME NEW ib, NEW D, NEW up, NEW place, NEW depth, NEW t, NEW bl, NEW u, NEW cl,
           Tree(ib, D, up, place, depth, t, bl),
           \A m \in D : \A q \in Used(t, bl, m) : Ent(u, cl, m, q) = Ent(t, bl, m, q)
    PROVE  Links(ib, up, place, u, cl) = Links(ib, up, place, t, bl)
<1>1. \A n \in ib \ {Root} : up[n] \in D /\ place[n] \in Used(t, bl, up[n])
  BY DEF Tree, TreeType, HomesRight
<1>2. \A n \in ib \ {Root} : Ent(u, cl, up[n], place[n]) = Ent(t, bl, up[n], place[n])
  BY <1>1
<1> QED BY <1>2, Zenon DEF Links

(* From c to d a reference to inode n came, at address a.                  *)
Opens(c, d, a, n) ==
    /\ a \in OFP!Addrs /\ d.object[a] # NULL /\ d.object[a].i_no = n
    /\ c.object[a] # NULL => c.object[a].i_no = n
    /\ \A x \in OFP!Addrs \ {a} : d.object[x] = c.object[x]

LEMMA OpensInode ==
    ASSUME NEW c, OFP!ListType(c), OFP!Threaded(c), NEW n \in Inodes,
           OFP!IsOpen(c, n) \/ OFP!HasHeap(c),
           NEW d, d = OFP!inode_open(c, n, n)
    PROVE  /\ OFP!ListType(d) /\ OFP!Threaded(d) /\ Opens(c, d, OFP!AddrOf(c, n), n)
           /\ c.object[OFP!AddrOf(c, n)] = NULL <=> ~OFP!IsOpen(c, n)
<1> DEFINE a == OFP!AddrOf(c, n)
<1>1. OFP!ListType(d) /\ OFP!Threaded(d) /\ OFP!Gained(c, d, a)
  BY OFAssumptions, OFP!OpenOK
<1>2. CASE OFP!IsOpen(c, n)
  <2>1. a \in OFP!Addrs /\ c.object[a] \in OFP!InCore /\ c.object[a].i_no = n
    BY <1>2, OFAssumptions, OFP!InCoreOfIsLive DEF OFP!AddrOf
  <2>2. c.object[a] # NULL
    BY <2>1, OFAssumptions, OFP!NullIsNoInode
  <2> QED BY <1>1, <1>2, <2>1, <2>2 DEF Opens, OFP!Gained
<1>3. CASE ~OFP!IsOpen(c, n)
  <2>1. a = OFP!malloc(c) /\ a \in OFP!Addrs /\ c.object[a] = NULL
    BY <1>3, OFAssumptions, OFP!MallocIsFree DEF OFP!AddrOf
  <2>2. d = OFP!list_push(c, a, n)
    BY <1>3, <2>1 DEF OFP!inode_open
  <2>3. d.object[a].i_no = n
    BY <2>1, <2>2, OFAssumptions, OFP!PushOK
  <2> QED BY <1>1, <1>3, <2>1, <2>3 DEF Opens, OFP!Gained
<1> QED BY <1>2, <1>3

LEMMA OpensLive ==
    ASSUME NEW c, NEW d, NEW a, NEW n, Opens(c, d, a, n)
    PROVE  /\ OFP!Live(d) = OFP!Live(c) \cup {a}
           /\ \A x \in OFP!Live(c) : d.object[x].i_no = c.object[x].i_no
BY DEF Opens, OFP!Live

(* A slot of file_table takes a file, an open that is leaked a directory.  *)
LEMMA OpensHolds ==
    ASSUME NEW c, NEW d, NEW a, NEW n, Opens(c, d, a, n),
           NEW D, NEW ft, NEW l, HoldsFiles(D, c, ft, l), NEW ft2, NEW l2,
           \A s \in OFP!Slots : ft2[s] = ft[s] \/ (ft2[s] = a /\ n \notin D),
           \A x \in OFP!Addrs : l2[x] = l[x] \/ (x = a /\ n \in D)
    PROVE  HoldsFiles(D, d, ft2, l2)
<1>1. /\ OFP!Live(d) = OFP!Live(c) \cup {a}
      /\ \A x \in OFP!Live(c) : d.object[x].i_no = c.object[x].i_no
  BY OpensLive
<1>2. d.object[a].i_no = n
  BY DEF Opens
<1> QED BY <1>1, <1>2 DEF HoldsFiles

LEMMA OpensCached ==
    ASSUME NEW c, NEW d, NEW a, NEW n, Opens(c, d, a, n), NEW ib, NEW t, NEW cont, NEW cont2,
           Cached(ib, t, c, cont), n \in ib,
           cont2[a] = t[n], \A x \in OFP!Live(c) : cont2[x] = cont[x],
           c.object[a] = NULL => \A x \in OFP!Live(c) : c.object[x].i_no # n
    PROVE  Cached(ib, t, d, cont2)
<1>1. /\ OFP!Live(d) = OFP!Live(c) \cup {a} /\ d.object[a].i_no = n
      /\ \A x \in OFP!Live(c) : d.object[x].i_no = c.object[x].i_no
  BY OpensLive DEF Opens
<1>2. \A x \in OFP!Live(c) : c.object[x].i_no = n => x = a
  BY DEF Cached, Opens, OFP!Live
<1> QED BY <1>1, <1>2 DEF Cached

(* inode_open with the load from the table.                                *)
LEMMA LoadedCached ==
    ASSUME NEW c, OFP!ListType(c), OFP!Threaded(c), NEW cont \in [OFP!Addrs -> InodeImages],
           Cached(inodeBitmap, inodeTable, c, cont),
           NEW n \in inodeBitmap, n \in Inodes, OFP!IsOpen(c, n) \/ OFP!HasHeap(c)
    PROVE  Cached(inodeBitmap, inodeTable, OFP!inode_open(c, n, n), Loaded(cont, c, n))
<1> DEFINE d == OFP!inode_open(c, n, n)
           a == OFP!AddrOf(c, n)
           cont2 == Loaded(cont, c, n)
<1>1. /\ Opens(c, d, a, n)
      /\ c.object[a] = NULL <=> ~OFP!IsOpen(c, n)
  BY OpensInode
<1>2. c.object[a] = NULL => \A x \in OFP!Live(c) : c.object[x].i_no # n
  BY <1>1, IsOpenLive
<1>3. CASE OFP!IsOpen(c, n)
  <2>1. a \in OFP!Live(c) /\ c.object[a].i_no = n
    BY <1>1, <1>3 DEF Opens, OFP!Live
  <2>2. cont2 = cont /\ cont2[a] = inodeTable[n]
    BY <1>3, <2>1, SameOps DEF Loaded, Cached
  <2> QED BY <1>1, <1>2, <2>2, OpensCached
<1>4. CASE ~OFP!IsOpen(c, n)
  <2>1. a = OFP!malloc(c) /\ c.object[a] = NULL /\ a \in OFP!Addrs
    BY <1>1, <1>4 DEF OFP!AddrOf, Opens
  <2>2. cont2 = [cont EXCEPT ![a] = inodeTable[n]]
    BY <1>4, <2>1, SameOps DEF Loaded
  <2>3. cont2[a] = inodeTable[n] /\ \A x \in OFP!Live(c) : cont2[x] = cont[x]
    BY <2>1, <2>2 DEF OFP!Live
  <2> QED BY <1>1, <1>2, <2>3, OpensCached
<1> QED BY <1>3, <1>4

LEMMA DiskUnchanged ==
    ASSUME Sound, NEW D, NEW up, NEW place, NEW depth, InTree(D, up, place, depth),
           UNCHANGED <<bitmaps, inodeTable, blocks, diedMidCall>>,
           Cached(inodeBitmap, inodeTable, open_inodes', contents'),
           HoldsFiles(D, open_inodes', fileTable', leaked')
    PROVE  Stays(LinksNow(up, place))
<1>1. /\ inodeBitmap' = inodeBitmap /\ blockBitmap' = blockBitmap
      /\ diskInodeBitmap' = diskInodeBitmap /\ diskBlockBitmap' = diskBlockBitmap
      /\ inodeTable' = inodeTable /\ blocks' = blocks /\ diedMidCall' = diedMidCall
  BY DEF bitmaps
<1>2. /\ Tree(inodeBitmap', D, up, place, depth, inodeTable', blocks')
      /\ Numbered(inodeBitmap', inodeTable')
      /\ Owned(inodeBitmap', blockBitmap', inodeTable', diedMidCall')
      /\ Cached(inodeBitmap', inodeTable', open_inodes', contents')
      /\ diskInodeBitmap' = inodeBitmap' /\ diskBlockBitmap' = blockBitmap'
  BY <1>1 DEF Sound, InTree, DiskSame
<1>3. Links(inodeBitmap', up, place, inodeTable', blocks') = LinksNow(up, place)
  BY <1>1 DEF LinksNow
<1> QED BY <1>2, <1>3, SoundStays

LEMMA InstallSlots ==
    ASSUME IInv, NEW a, OF!InstallFd(a)
    PROVE  \A s \in OFP!Slots : fileTable'[s] = fileTable[s] \/ fileTable'[s] = a
<1>1. PICK s \in OF!Slots : fileTable' = [fileTable EXCEPT ![s] = a]
  BY DEF OF!InstallFd
<1> QED BY <1>1, OpenFacts DEF OFP!SlotsType

(* A descriptor comes to point to inode n.                                 *)
Installs(n) == \E a : OF!InstallFd(a) /\ open_inodes'.object[a].i_no = n

LEMMA sys_open_existingStays ==
    ASSUME IInv, Sound, NEW D, NEW up, NEW place, NEW depth, InTree(D, up, place, depth),
           NEW p \in OpenPaths, sys_open_existing(p)
    PROVE  Stays(LinksNow(up, place)) /\ \E n \in inodeBitmap : n \notin D /\ Installs(n)
<1> DEFINE r == search_file(p)
           n == r.i_no
           d == r.parent_dir
           c == open_inodes
           a == OFP!AddrOf(c, n)
           x == OFP!AddrOf(c, d)
           searched == OFP!inode_open(c, d, d)
           b == OFP!AddrOf(searched, n)
<1>1. n \in inodeBitmap /\ n \notin D /\ d \in D /\ D \subseteq inodeBitmap
      /\ inodeBitmap \subseteq Inodes /\ d \in inodeBitmap /\ d \in Inodes /\ n \in Inodes
  <2>1. r.f_type = "FT_REGULAR" /\ p \in Paths
    BY DEF sys_open_existing, FindsFile, Paths
  <2>2. d \in D /\ FoundFile(inodeBitmap, D, up, r)
    BY <2>1, SearchFile DEF Sound
  <2> QED BY <2>2 DEF FoundFile, InTree, Tree, TreeType
<1>2. inodeTable[n].i_no = n /\ inodeTable[d].i_no = d
  BY <1>1 DEF Sound, Numbered
<1>3. UNCHANGED <<bitmaps, inodeTable, blocks, diedMidCall>>
  BY Zenon DEF sys_open_existing
<1>4. IF Len(p) = 1
      THEN OF!file_open(n, n) /\ contents' = Loaded(contents, c, n)
      ELSE /\ OF!file_open_below(n, n, d, d)
           /\ contents' = Loaded(Loaded(contents, c, d), searched, n)
  BY <1>2, SameOps DEF sys_open_existing
<1>5. OFP!ListType(c) /\ OFP!Threaded(c) /\ contents \in [OFP!Addrs -> InodeImages]
      /\ leaked \in [OFP!Addrs -> Nat]
  BY OpenFacts, SameSets DEF IInv, DiskType
<1>6. Cached(inodeBitmap, inodeTable, c, contents) /\ HoldsFiles(D, c, fileTable, leaked)
  BY DEF Sound, InTree
<1> HIDE DEF r, n, d
<1>7. CASE Len(p) = 1
  <2>1. OF!file_open(n, n) /\ contents' = Loaded(contents, c, n)
    BY <1>4, <1>7
  <2>2. /\ OFP!IsOpen(c, n) \/ OFP!HasHeap(c)
        /\ OF!InstallFd(a) /\ open_inodes' = OFP!inode_open(c, n, n) /\ leaked' = leaked
    BY <2>1, SameOps DEF OF!file_open
  <2>3. Opens(c, open_inodes', a, n)
    BY <1>1, <1>5, <2>2, OpensInode
  <2>4. HoldsFiles(D, open_inodes', fileTable', leaked')
    BY <1>1, <1>6, <2>2, <2>3, InstallSlots, OpensHolds
  <2>5. Cached(inodeBitmap, inodeTable, open_inodes', contents')
    BY <1>1, <1>5, <1>6, <2>1, <2>2, LoadedCached
  <2>6. Installs(n)
    BY <2>2, <2>3 DEF Installs, Opens
  <2> QED BY <1>1, <1>3, <2>4, <2>5, <2>6, DiskUnchanged
<1>8. CASE Len(p) # 1
  <2>1. OF!file_open_below(n, n, d, d) /\ contents' = Loaded(Loaded(contents, c, d), searched, n)
    BY <1>4, <1>8
  <2>2. /\ OFP!IsOpen(c, d) \/ OFP!HasHeap(c)
        /\ leaked' = [leaked EXCEPT ![x] = @ + 1]
        /\ OFP!IsOpen(searched, n) \/ OFP!HasHeap(searched)
        /\ OF!InstallFd(b) /\ open_inodes' = OFP!inode_open(searched, n, n)
    BY <2>1, SameOps DEF OF!file_open_below
  <2>3. OFP!ListType(searched) /\ OFP!Threaded(searched) /\ Opens(c, searched, x, d)
    BY <1>1, <1>5, <2>2, OpensInode
  <2> HIDE DEF searched
  <2>4. Opens(searched, open_inodes', b, n)
    BY <1>1, <2>2, <2>3, OpensInode
  <2>5. \A y \in OFP!Addrs : leaked'[y] = leaked[y] \/ (y = x /\ d \in D)
    BY <1>1, <1>5, <2>2
  <2>6. HoldsFiles(D, searched, fileTable, leaked')
    BY <1>6, <2>3, <2>5, OpensHolds
  <2>7. HoldsFiles(D, open_inodes', fileTable', leaked')
    BY <1>1, <2>2, <2>4, <2>6, InstallSlots, OpensHolds
  <2>8. Cached(inodeBitmap, inodeTable, searched, Loaded(contents, c, d))
    BY <1>1, <1>5, <1>6, <2>2, LoadedCached DEF searched
  <2>9. Loaded(contents, c, d) \in [OFP!Addrs -> InodeImages]
    BY <1>1, <1>5, SameSets, LoadedType
  <2>10. Cached(inodeBitmap, inodeTable, open_inodes', contents')
    BY <1>1, <2>1, <2>2, <2>3, <2>8, <2>9, LoadedCached
  <2>11. Installs(n)
    BY <2>2, <2>4 DEF Installs, Opens
  <2> QED BY <1>1, <1>3, <2>7, <2>10, <2>11, DiskUnchanged
<1> QED BY <1>7, <1>8

LEMMA LeavesOpenStays ==
    ASSUME IInv, Sound, NEW D, NEW up, NEW place, NEW depth, InTree(D, up, place, depth),
           NEW d \in D, LeavesOpen(d)
    PROVE  Stays(LinksNow(up, place))
<1> DEFINE c == open_inodes
           a == OFP!AddrOf(c, d)
<1>1. D \subseteq inodeBitmap /\ inodeBitmap \subseteq Inodes /\ d \in inodeBitmap /\ d \in Inodes
  BY DEF InTree, Tree, TreeType
<1>2. inodeTable[d].i_no = d
  BY <1>1 DEF Sound, Numbered
<1>3. UNCHANGED <<bitmaps, inodeTable, blocks, diedMidCall>>
  BY DEF LeavesOpen
<1>4. OF!leak(d, d) /\ contents' = Loaded(contents, c, d)
  BY <1>2 DEF LeavesOpen
<1>5. OFP!ListType(c) /\ OFP!Threaded(c) /\ contents \in [OFP!Addrs -> InodeImages]
      /\ leaked \in [OFP!Addrs -> Nat]
  BY OpenFacts, SameSets DEF IInv, DiskType
<1>6. Cached(inodeBitmap, inodeTable, c, contents) /\ HoldsFiles(D, c, fileTable, leaked)
  BY DEF Sound, InTree
<1>7. /\ OFP!IsOpen(c, d) \/ OFP!HasHeap(c)
      /\ leaked' = [leaked EXCEPT ![a] = @ + 1]
      /\ open_inodes' = OFP!inode_open(c, d, d) /\ fileTable' = fileTable
  BY <1>4, SameOps DEF OF!leak
<1>8. Opens(c, open_inodes', a, d)
  BY <1>1, <1>5, <1>7, OpensInode
<1>9. \A y \in OFP!Addrs : leaked'[y] = leaked[y] \/ (y = a /\ d \in D)
  BY <1>5, <1>7
<1>10. HoldsFiles(D, open_inodes', fileTable', leaked')
  <2> HIDE DEF a
  <2>1. \A s \in OFP!Slots : fileTable'[s] = fileTable[s] \/ (fileTable'[s] = a /\ d \notin D)
    BY <1>7
  <2> QED BY <1>6, <1>8, <1>9, <2>1, OpensHolds
<1>11. Cached(inodeBitmap, inodeTable, open_inodes', contents')
  BY <1>1, <1>4, <1>5, <1>6, <1>7, LoadedCached
<1> QED BY <1>3, <1>10, <1>11, DiskUnchanged

(* The holders of an in-core inode are counted, so they find it there.     *)
HoldersLive ==
    /\ \A s \in OFP!Slots : fileTable[s] # NULL => fileTable[s] \in OFP!Live(open_inodes)
    /\ \A a \in OFP!Addrs : leaked[a] # 0 => a \in OFP!Live(open_inodes)
    /\ OFP!RootAddr \in OFP!Live(open_inodes)

LEMMA HeldLive == IInv => HoldersLive
<1> SUFFICES ASSUME IInv PROVE HoldersLive
  OBVIOUS
<1>1. \A a \in OFP!Addrs : open_inodes.object[a] = NULL =>
          OFP!HoldersOf(a) = {} /\ leaked[a] = 0 /\ a # OFP!RootAddr
  BY OpenFacts DEF OFP!CountsMatchHolders
<1>2. \A s \in OFP!Slots : fileTable[s] # NULL => fileTable[s] \in OFP!Addrs
  BY OpenFacts DEF OFP!SlotsType
<1>3. \A s \in OFP!Slots : s \in OFP!HoldersOf(fileTable[s])
  BY DEF OFP!HoldersOf
<1>4. OFP!RootAddr \in OFP!Addrs
  BY OpenFilesAssumption DEF OFP!RootAddr, OFP!Addrs
<1> QED BY <1>1, <1>2, <1>3, <1>4 DEF OFP!Live, HoldersLive

LEMMA sys_closeStays ==
    ASSUME IInv, IInv', Sound, NEW D, NEW up, NEW place, NEW depth, InTree(D, up, place, depth),
           NEW f \in OF!Fds, sys_close(f)
    PROVE  Stays(LinksNow(up, place))
<1> DEFINE c == open_inodes
           a == fileTable[f]
           d == OFP!inode_close(c, a)
<1>1. OFP!ListType(c) /\ OFP!Threaded(c) /\ OFP!FdsHold /\ OFP!SlotsType(fileTable)
      /\ leaked \in [OFP!Addrs -> Nat]
  BY OpenFacts
<1>2. fdTable[f] = f /\ f \in OFP!Slots /\ a \in OFP!Addrs /\ c.object[a] # NULL /\ f \in OFP!Fds
  BY <1>1, SameSets DEF OFP!FdsHold, sys_close, OF!sys_close
<1>3. /\ open_inodes' = d /\ leaked' = leaked
      /\ fileTable' = [fileTable EXCEPT ![f] = NULL]
  BY <1>2, SameOps DEF sys_close, OF!sys_close
<1>4. /\ contents' = [y \in OF!Addrs |-> IF open_inodes'.object[y] = NULL THEN ZeroInode
                                                                     ELSE contents[y]]
      /\ UNCHANGED <<bitmaps, inodeTable, blocks, diedMidCall>>
  BY DEF sys_close
<1>5. /\ d.object[a] # NULL => d.object[a].i_no = c.object[a].i_no
      /\ \A y \in OFP!Addrs \ {a} : d.object[y] = c.object[y]
  BY <1>1, <1>2, OFAssumptions, OFP!CloseOK
<1> HIDE DEF a, d, c
<1>6. \A y \in OFP!Live(d) : y \in OFP!Live(c) /\ d.object[y].i_no = c.object[y].i_no
  BY <1>2, <1>5 DEF OFP!Live
<1>7. Cached(inodeBitmap, inodeTable, c, contents) /\ HoldsFiles(D, c, fileTable, leaked)
  BY DEF Sound, InTree, c
<1>8. /\ \A s \in OFP!Slots : fileTable'[s] # NULL => fileTable'[s] \in OFP!Live(d)
      /\ \A y \in OFP!Addrs : leaked'[y] # 0 => y \in OFP!Live(d)
      /\ OFP!RootAddr \in OFP!Live(d)
  <2>1. (IInv => HoldersLive)'
    BY HeldLive, PTL
  <2> QED BY <1>3, <2>1 DEF HoldersLive
<1>9. HoldsFiles(D, open_inodes', fileTable', leaked')
  <2>1. \A s \in OFP!Slots : fileTable'[s] = NULL \/ fileTable'[s] = fileTable[s]
    BY <1>1, <1>2, <1>3 DEF OFP!SlotsType
  <2> QED BY <1>3, <1>6, <1>7, <1>8, <2>1 DEF HoldsFiles
<1>10. Cached(inodeBitmap, inodeTable, open_inodes', contents')
  <2>1. \A y \in OFP!Live(d) : contents'[y] = contents[y]
    BY <1>3, <1>4, SameSets DEF OFP!Live
  <2> QED BY <1>3, <1>6, <1>7, <2>1 DEF Cached
<1> QED BY <1>4, <1>9, <1>10, DiskUnchanged

-----------------------------------------------------------------------------
(* A new process.                                                          *)

LEMMA MountsFresh ==
    ASSUME NEW D, Root \in D, NEW ib, Root \in ib, NEW t,
           OF!mount_partition,
           contents' = [a \in OF!Addrs |-> IF a = OF!RootAddr THEN t[Root] ELSE ZeroInode]
    PROVE  HoldsFiles(D, open_inodes', fileTable', leaked') /\ Cached(ib, t, open_inodes', contents')
<1> DEFINE root == [i_no |-> Root, i_open_counts |-> 1]
<1>1. OFP!RootAddr \in OFP!Addrs /\ root # NULL
  BY OpenFilesAssumption, IndexSets DEF OFP!RootAddr, OFP!Addrs
<1>2. /\ open_inodes' = OF!OnlyRoot
      /\ fileTable' = [s \in OFP!Slots |-> NULL] /\ leaked' = [a \in OFP!Addrs |-> 0]
  BY SameSets DEF OF!mount_partition
<1>3. open_inodes'.object = [a \in OFP!Addrs |-> IF a = OFP!RootAddr THEN root ELSE NULL]
  BY <1>2, SameOps, SameSets DEF OF!OnlyRoot
<1> HIDE DEF root
<1>4. OFP!Live(open_inodes') = {OFP!RootAddr} /\ open_inodes'.object[OFP!RootAddr] = root
  BY <1>1, <1>3 DEF OFP!Live
<1>5. root.i_no = Root
  BY DEF root
<1>6. contents'[OFP!RootAddr] = t[Root]
  BY <1>1, SameOps, SameSets
<1> QED BY <1>2, <1>4, <1>5, <1>6 DEF HoldsFiles, Cached

LEMMA RestartStays ==
    ASSUME IInv, Sound, NEW D, NEW up, NEW place, NEW depth, InTree(D, up, place, depth),
           Restart
    PROVE  Stays(LinksNow(up, place))
<1>1. /\ diskInodeBitmap' = diskInodeBitmap /\ diskBlockBitmap' = diskBlockBitmap
      /\ inodeTable' = inodeTable /\ blocks' = blocks /\ diedMidCall' = diedMidCall
      /\ inodeBitmap' = diskInodeBitmap' /\ blockBitmap' = diskBlockBitmap'
      /\ OF!mount_partition
      /\ contents' = [a \in OF!Addrs |-> IF a = OF!RootAddr THEN inodeTable'[Root] ELSE ZeroInode]
  BY DEF Restart, Mounts
<1>2. inodeBitmap' = inodeBitmap /\ blockBitmap' = blockBitmap
  BY <1>1 DEF Sound, DiskSame
<1>3. Root \in D /\ Root \in inodeBitmap
  BY DEF InTree, Tree, TreeType
<1>4. HoldsFiles(D, open_inodes', fileTable', leaked')
      /\ Cached(inodeBitmap, inodeTable, open_inodes', contents')
  BY <1>1, <1>3, MountsFresh
<1>5. /\ Tree(inodeBitmap', D, up, place, depth, inodeTable', blocks')
      /\ Numbered(inodeBitmap', inodeTable')
      /\ Owned(inodeBitmap', blockBitmap', inodeTable', diedMidCall')
      /\ Cached(inodeBitmap', inodeTable', open_inodes', contents')
  BY <1>1, <1>2, <1>4 DEF Sound, InTree
<1>6. Links(inodeBitmap', up, place, inodeTable', blocks') = LinksNow(up, place)
  BY <1>1, <1>2 DEF LinksNow
<1> QED BY <1>1, <1>4, <1>5, <1>6, SoundStays

(* A call that dies has changed free blocks only, and lost them.           *)
LEMMA DiesOutOfBlocksStays ==
    ASSUME IInv, Sound, NEW D, NEW up, NEW place, NEW depth, InTree(D, up, place, depth),
           NEW image, \A b \in blockBitmap : image[b] = blocks[b], DiesOutOfBlocks(image)
    PROVE  Stays(LinksNow(up, place))
<1>1. /\ diskInodeBitmap' = diskInodeBitmap
      /\ diskBlockBitmap' = bitmap_sync(Blocks, diskBlockBitmap, Blocks \ blockBitmap)
      /\ inodeTable' = inodeTable /\ blocks' = image /\ diedMidCall' = TRUE
      /\ inodeBitmap' = diskInodeBitmap' /\ blockBitmap' = diskBlockBitmap'
      /\ OF!mount_partition
      /\ contents' = [a \in OF!Addrs |-> IF a = OF!RootAddr THEN inodeTable'[Root] ELSE ZeroInode]
  BY DEF DiesOutOfBlocks, Mounts
<1>2. blockBitmap' = Blocks /\ inodeBitmap' = inodeBitmap
  <2>1. diskBlockBitmap = blockBitmap /\ blockBitmap \subseteq Blocks
    BY DEF Sound, DiskSame, IInv, DiskType
  <2>2. diskBlockBitmap' = Blocks
    BY <1>1, <2>1 DEF bitmap_sync
  <2> QED BY <1>1, <2>2 DEF Sound, DiskSame
<1>3. Root \in D /\ Root \in inodeBitmap /\ D \subseteq inodeBitmap
  BY DEF InTree, Tree, TreeType
<1>4. HoldsFiles(D, open_inodes', fileTable', leaked')
      /\ Cached(inodeBitmap, inodeTable, open_inodes', contents')
  BY <1>1, <1>3, MountsFresh
<1>5. /\ Tree(inodeBitmap, D, up, place, depth, inodeTable, image)
      /\ Links(inodeBitmap, up, place, inodeTable, image) = LinksNow(up, place)
  <2>1. OwnedUsed(inodeBitmap, blockBitmap, inodeTable)
    BY DEF Sound, Owned
  <2>2. \A m \in D, q \in Positions : Has(inodeTable, m, q) =>
            Ent(inodeTable, image, m, q) = Ent(inodeTable, blocks, m, q)
    BY <1>3, <2>1, PositionParts DEF OwnedUsed, Ent, Has
  <2>3. Tree(inodeBitmap, D, up, place, depth, inodeTable, blocks)
    BY DEF InTree
  <2>4. \A m \in inodeBitmap : m \notin D =>
            inodeTable[m].i_size \in Nat /\ inodeTable[m].i_size \div BlockSize \in BlockIdx
    BY <2>3 DEF Tree, FilesRight
  <2>5. Tree(inodeBitmap, D, up, place, depth, inodeTable, image)
    BY <2>2, <2>3, <2>4, TreeKeeps
  <2>6. \A m \in D : \A q \in Used(inodeTable, blocks, m) :
            Ent(inodeTable, image, m, q) = Ent(inodeTable, blocks, m, q)
    BY <2>2 DEF Used
  <2> QED BY <2>3, <2>5, <2>6, LinksKeep DEF LinksNow
<1>6. Owned(inodeBitmap, Blocks, inodeTable, TRUE)
  <2>1. blockBitmap \subseteq Blocks /\ OneOwner(inodeBitmap, inodeTable)
        /\ OwnedUsed(inodeBitmap, blockBitmap, inodeTable)
        /\ KeepsPremarked(inodeBitmap, blockBitmap, inodeTable)
    BY DEF Sound, Owned, IInv, DiskType
  <2> QED BY <2>1 DEF Owned, OwnedUsed, KeepsPremarked
<1>7. /\ Tree(inodeBitmap', D, up, place, depth, inodeTable', blocks')
      /\ Numbered(inodeBitmap', inodeTable')
      /\ Owned(inodeBitmap', blockBitmap', inodeTable', diedMidCall')
      /\ Cached(inodeBitmap', inodeTable', open_inodes', contents')
  BY <1>1, <1>2, <1>4, <1>5, <1>6 DEF Sound
<1>8. Links(inodeBitmap', up, place, inodeTable', blocks') = LinksNow(up, place)
  BY <1>1, <1>2, <1>5
<1> QED BY <1>1, <1>4, <1>7, <1>8, SoundStays

LEMMA LeavesOpenSteps ==
    ASSUME IInv, Sound, NEW D, NEW up, NEW place, NEW depth, InTree(D, up, place, depth),
           NEW p \in Paths, sys_open_table_full(p) \/ sys_remove_root(p)
    PROVE  Stays(LinksNow(up, place))
<1> DEFINE d == search_file(p).parent_dir
<1>1. d \in D
  BY SearchFile DEF Sound
<1>2. LeavesOpen(d)
  BY DEF sys_open_table_full, sys_remove_root
<1> HIDE DEF d
<1> QED BY <1>1, <1>2, LeavesOpenStays

LEMMA sys_write_diesStays ==
    ASSUME IInv, Sound, NEW D, NEW up, NEW place, NEW depth, InTree(D, up, place, depth),
           NEW f, NEW count, sys_write_dies(f, count)
    PROVE  Stays(LinksNow(up, place))
<1>1. DiesOutOfBlocks(blocks)
  BY DEF sys_write_dies
<1> QED BY <1>1, DiesOutOfBlocksStays

LEMMA sys_mkdir_diesStays ==
    ASSUME IInv, Sound, NEW D, NEW up, NEW place, NEW depth, InTree(D, up, place, depth),
           NEW p, sys_mkdir_dies(p)
    PROVE  Stays(LinksNow(up, place))
<1> DEFINE d == inode_at(search_file(p).parent_dir)
<1>1. PICK n \in Inodes, b \in Blocks :
          Blocks \ blockBitmap = {b} /\ DiesOutOfBlocks([blocks EXCEPT ![b] = DotBlock(n, d.i_no)])
  BY DEF sys_mkdir_dies
<1> DEFINE image == [blocks EXCEPT ![b] = DotBlock(n, d.i_no)]
<1>2. \A x \in blockBitmap : image[x] = blocks[x]
  BY <1>1 DEF IInv, DiskType
<1> HIDE DEF image
<1>3. DiesOutOfBlocks(image)
  BY <1>1 DEF image
<1> QED BY <1>2, <1>3, DiesOutOfBlocksStays

-----------------------------------------------------------------------------
(* What a call writes back.                                                *)

(* The bits that changed are in the sectors written.                       *)
LEMMA SyncAll ==
    ASSUME NEW mem, NEW disk, NEW S, \A b \in mem \cup disk : b \in S \/ (b \in mem <=> b \in disk)
    PROVE  bitmap_sync(mem, disk, S) = mem
BY DEF bitmap_sync

LEMMA SyncSlot ==
    ASSUME Usable, NEW t, NEW i, i.i_no \in Inodes
    PROVE  inode_sync(t, i) = [t EXCEPT ![i.i_no] = i]
<1>1. i.i_no % SyncWidth = i.i_no
  BY SizesAssumption DEF Usable, Inodes
<1> QED BY <1>1 DEF inode_sync

-----------------------------------------------------------------------------
(* sys_write.                                                              *)

LEMMA DivGrows ==
    ASSUME NEW x \in Nat, NEW y \in Nat, x <= y
    PROVE  x \div BlockSize \in Nat /\ y \div BlockSize \in Nat /\ x \div BlockSize <= y \div BlockSize
<1> DEFINE q == x \div BlockSize
           r == y \div BlockSize
<1>1. BlockSize \in Nat /\ BlockSize > 0
  BY SizesAssumption
<1>2. q \in Int /\ r \in Int /\ BlockSize * q <= x /\ y < BlockSize * r + BlockSize
  BY <1>1
<1>3. q \in Nat /\ r \in Nat
  BY <1>1
<1> HIDE DEF q, r
<1>4. SUFFICES ASSUME r + 1 <= q PROVE FALSE
  BY <1>3 DEF q, r
<1>5. BlockSize * (r + 1) <= BlockSize * q
  BY <1>1, <1>3, <1>4
<1>6. BlockSize * (r + 1) = BlockSize * r + BlockSize
  BY <1>1, <1>3
<1> QED BY <1>1, <1>2, <1>3, <1>5, <1>6

(* The bitmap has every block taken before the next is looked for.         *)
LEMMA TakesApart ==
    ASSUME NEW K \in SUBSET BlockIdx, NEW used, NEW new \in [K -> Blocks], Takes(new, K, used),
           NEW k \in K, NEW l \in K, new[k] = new[l]
    PROVE  k = l
<1> DEFINE below(x) == {j \in K : j < x}
<1>1. ASSUME NEW x \in K, NEW y \in K, x < y PROVE Cardinality(below(x)) # Cardinality(below(y))
  <2>1. IsFiniteSet(BlockIdx)
    BY SizesAssumption, FS_Interval DEF BlockIdx
  <2>2. IsFiniteSet(below(y))
    BY <2>1, FS_Subset
  <2>3. below(x) \subseteq below(y) /\ x \in below(y) /\ x \notin below(x)
    <3>1. \A j \in K : j \in Int
      BY SizesAssumption DEF BlockIdx
    <3> QED BY <1>1, <3>1
  <2> HIDE DEF below
  <2> QED BY <2>2, <2>3, FS_Subset
<1>2. Cardinality(below(k)) = Cardinality(below(l))
  BY DEF Takes
<1> HIDE DEF below
<1> QED BY <1>1, <1>2, SizesAssumption DEF BlockIdx

(* file_write stays in the direct blocks and asserts that they are new.    *)
LEMMA WriteIndexes ==
    ASSUME NEW i, i.i_size \in Nat, i.i_size \div BlockSize \in BlockIdx,
           NEW count \in Nat \ {0}, Writable(i, count)
    PROVE  /\ Missing(i, count) \subseteq BlockIdx /\ Touched(i, count) \subseteq BlockIdx
           /\ \A k \in Missing(i, count) : i.i_block[k] = NoBlock
           /\ i.i_size + count \in Nat /\ (i.i_size + count) \div BlockSize \in BlockIdx
<1> DEFINE p == i.i_size \div BlockSize
           q == (i.i_size + count) \div BlockSize
           r == (i.i_size + count - 1) \div BlockSize
<1>1. i.i_size + count \in Nat /\ i.i_size + count - 1 \in Nat
      /\ i.i_size <= i.i_size + count /\ i.i_size + count - 1 <= i.i_size + count
  OBVIOUS
<1>2. p \in Nat /\ q \in Nat /\ r \in Nat /\ p <= q /\ r <= q
  BY <1>1, DivGrows
<1>3. Missing(i, count) \subseteq BlockIdx /\ \A k \in Missing(i, count) : i.i_block[k] = NoBlock
  BY DEF Writable
<1>4. p + 1 .. q \subseteq Missing(i, count) /\ Touched(i, count) = p .. r
  BY DEF Missing, Touched
<1> HIDE DEF p, q, r
<1>5. p \in BlockIdx
  BY DEF p
<1>6. q \in BlockIdx
  BY <1>2, <1>3, <1>4, <1>5
<1>7. Touched(i, count) \subseteq BlockIdx
  BY <1>2, <1>4, <1>5, <1>6, SizesAssumption DEF BlockIdx
<1> QED BY <1>1, <1>3, <1>6, <1>7 DEF q
LEMMA WrittenImage ==
    ASSUME NEW i \in InodeImages, NEW s, NEW block
    PROVE  [i EXCEPT !.i_size = s, !.i_block = block]
           = [i_no |-> i.i_no, i_size |-> s, i_block |-> block]
<1> DEFINE k == [i EXCEPT !.i_size = s]
<1>1. k = [i_no |-> i.i_no, i_size |-> s, i_block |-> i.i_block]
  BY DEF InodeImages
<1> HIDE DEF k
<1>2. [k EXCEPT !.i_block = block] = [i_no |-> k.i_no, i_size |-> k.i_size, i_block |-> block]
  BY <1>1
<1> QED BY <1>1, <1>2 DEF k

LEMMA sys_writeStays ==
    ASSUME IInv, Sound, Usable, NEW D, NEW up, NEW place, NEW depth, InTree(D, up, place, depth),
           NEW f \in OF!Fds, NEW count \in WriteCounts, sys_write(f, count)
    PROVE  Stays(LinksNow(up, place))
<1> DEFINE c == open_inodes
           t == inodeTable
           a == fileTable[fdTable[f]]
           n == c.object[a].i_no
           i == contents[a]
           K == Missing(i, count)
<1>1. /\ a \in OFP!Live(c) /\ a \in OFP!Addrs /\ n \in inodeBitmap /\ n \notin D /\ i = t[n]
      /\ n \in Inodes /\ t[n].i_no = n /\ i \in InodeImages
  <2>1. f \in OF!OpenFds
    BY Zenon DEF sys_write
  <2>2. f \in OFP!Fds /\ fdTable[f] # -1
    BY <2>1, SameSets DEF OF!OpenFds, OF!FreeFds
  <2>3. fdTable[f] = f /\ f \in OFP!Slots /\ fileTable[f] # NULL
    BY <2>2, OpenFacts, OFAssumptions DEF OFP!FdsHold, OFP!DescriptorsWired
  <2>4. a \in OFP!Live(c) /\ n \notin D
    BY <2>3 DEF InTree, HoldsFiles
  <2>5. n \in inodeBitmap /\ i = t[n]
    BY <2>4 DEF Sound, Cached
  <2>6. inodeBitmap \subseteq Inodes /\ t \in [Inodes -> InodeImages]
    BY DEF IInv, DiskType
  <2>7. t[n].i_no = n
    BY <2>5 DEF Sound, Numbered
  <2> HIDE DEF a, n, i
  <2> QED BY <2>4, <2>5, <2>6, <2>7 DEF OFP!Live
<1>2. PICK new \in [K -> Blocks \ blockBitmap] :
        LET block == [k \in BlockIdx |-> IF k \in K THEN new[k] ELSE i.i_block[k]]
            j == [i EXCEPT !.i_size = @ + count, !.i_block = block]
            taken == {new[k] : k \in K}
        IN  /\ Takes(new, K, blockBitmap)
            /\ blockBitmap' = blockBitmap \cup taken
            /\ diskBlockBitmap' = bitmap_sync(blockBitmap', diskBlockBitmap, taken)
            /\ blocks' = [b \in Blocks |-> IF \E k \in Touched(i, count) : block[k] = b
                                           THEN DataBlock ELSE blocks[b]]
            /\ contents' = [contents EXCEPT ![a] = j]
            /\ inodeTable' = inode_sync(inodeTable, j)
  BY Zenon DEF sys_write
<1>3. /\ inodeBitmap' = inodeBitmap /\ diskInodeBitmap' = diskInodeBitmap
      /\ open_inodes' = c /\ fileTable' = fileTable /\ leaked' = leaked /\ diedMidCall' = diedMidCall
      /\ Writable(i, count)
  BY Zenon DEF sys_write
<1> DEFINE block == [k \in BlockIdx |-> IF k \in K THEN new[k] ELSE i.i_block[k]]
           j == [i EXCEPT !.i_size = @ + count, !.i_block = block]
           taken == {new[k] : k \in K}
           u == [t EXCEPT ![n] = j]
<1> HIDE DEF a, n, i, K, block, taken
<1>4. /\ DiskTyped(inodeBitmap, blockBitmap, t, blocks)
      /\ Tree(inodeBitmap, D, up, place, depth, t, blocks)
      /\ OneOwner(inodeBitmap, t) /\ OwnedUsed(inodeBitmap, blockBitmap, t)
      /\ inodeBitmap \subseteq Inodes /\ t \in [Inodes -> InodeImages]
  BY DEF IInv, DiskType, DiskTyped, InTree, Sound, Owned
<1>5. /\ K \subseteq BlockIdx /\ Touched(i, count) \subseteq BlockIdx
      /\ \A k \in K : i.i_block[k] = NoBlock
      /\ i.i_size + count \in Nat /\ (i.i_size + count) \div BlockSize \in BlockIdx
  <2>1. i.i_size \in Nat /\ i.i_size \div BlockSize \in BlockIdx
    BY <1>1, <1>4 DEF Tree, FilesRight
  <2>2. count \in Nat \ {0}
    BY InputsAssumption
  <2> QED BY <1>3, <2>1, <2>2, WriteIndexes DEF K
<1>6. /\ j = [i_no |-> n, i_size |-> i.i_size + count, i_block |-> block]
      /\ block \in [BlockIdx -> Blocks \cup {NoBlock}] /\ taken \subseteq Blocks
      /\ taken \cap blockBitmap = {}
  <2>1. i = [i_no |-> i.i_no, i_size |-> i.i_size, i_block |-> i.i_block]
        /\ i.i_no = n /\ i.i_block \in [BlockIdx -> Blocks \cup {NoBlock}]
    BY <1>1 DEF InodeImages
  <2>2. j = [i_no |-> i.i_no, i_size |-> i.i_size + count, i_block |-> block]
    <3> DEFINE s == i.i_size + count
    <3>1. i \in InodeImages
      BY <1>1
    <3> HIDE DEF s
    <3>2. [i EXCEPT !.i_size = s, !.i_block = block] = [i_no |-> i.i_no, i_size |-> s, i_block |-> block]
      BY <3>1, WrittenImage
    <3> QED BY <3>2, Zenon DEF s
  <2> QED BY <1>5, <2>1, <2>2 DEF block, taken
<1> HIDE DEF j
<1>7. /\ blockBitmap' = blockBitmap \cup taken /\ diskBlockBitmap' = blockBitmap'
      /\ inodeTable' = u /\ contents' = [contents EXCEPT ![a] = j]
      /\ blocks' = [b \in Blocks |-> IF \E k \in Touched(i, count) : block[k] = b
                                     THEN DataBlock ELSE blocks[b]]
  <2>1. /\ blockBitmap' = blockBitmap \cup taken
        /\ diskBlockBitmap' = bitmap_sync(blockBitmap', diskBlockBitmap, taken)
        /\ inodeTable' = inode_sync(t, j) /\ contents' = [contents EXCEPT ![a] = j]
        /\ blocks' = [b \in Blocks |-> IF \E k \in Touched(i, count) : block[k] = b
                                       THEN DataBlock ELSE blocks[b]]
    BY <1>2 DEF block, taken, j
  <2>2. diskBlockBitmap = blockBitmap
    BY DEF Sound, DiskSame
  <2>3. diskBlockBitmap' = blockBitmap'
    BY <2>1, <2>2, SyncAll
  <2>4. j.i_no = n
    BY <1>6
  <2>5. inode_sync(t, j) = u
    BY <1>1, <2>4, SyncSlot
  <2> QED BY <2>1, <2>3, <2>5
<1>8. /\ \A m \in inodeBitmap : m # n => u[m] = t[m]
      /\ u[n] = j /\ u[n].i_size = i.i_size + count
      /\ \A k \in BlockIdx : At(u, n, k) = IF k \in K THEN new[k] ELSE At(t, n, k)
      /\ \A m \in inodeBitmap : m # n => \A k : At(u, m, k) = At(t, m, k)
  BY <1>1, <1>4, <1>6 DEF At, block
<1> HIDE DEF u
<1>9. /\ Tree(inodeBitmap, D, up, place, depth, u, blocks')
      /\ Links(inodeBitmap, up, place, u, blocks') = LinksNow(up, place)
  <2>1. ASSUME NEW b \in blockBitmap, \A k \in BlockIdx : At(t, n, k) # b
        PROVE  blocks'[b] = blocks[b]
    <3>1. b \in Blocks
      BY <1>4 DEF DiskTyped
    <3>2. ASSUME NEW k \in Touched(i, count) PROVE block[k] # b
      <4>1. k \in BlockIdx /\ block[k] = At(u, n, k)
        BY <1>5, <1>6, <1>8 DEF At
      <4> QED BY <1>2, <1>8, <2>1, <4>1
    <3> QED BY <1>7, <3>1, <3>2
  <2> DEFINE cl == blocks'
  <2>2. \A b \in blockBitmap : (\A k \in BlockIdx : At(t, n, k) # b) => cl[b] = blocks[b]
    BY <2>1
  <2> HIDE DEF cl
  <2>3. /\ Tree(inodeBitmap, D, up, place, depth, u, cl)
        /\ \A m \in D : \A q \in Used(t, blocks, m) : Ent(u, cl, m, q) = Ent(t, blocks, m, q)
    BY <1>1, <1>4, <1>5, <1>8, <2>2, FileWritten
  <2>4. Links(inodeBitmap, up, place, u, cl) = LinksNow(up, place)
    BY <1>4, <2>3, LinksKeep DEF LinksNow
  <2> QED BY <2>3, <2>4 DEF cl
<1>10. Owned(inodeBitmap, blockBitmap', u, diedMidCall)
  <2>1. ASSUME NEW m \in inodeBitmap, NEW k \in BlockIdx
        PROVE  /\ At(u, m, k) # NoBlock /\ At(u, m, k) \notin taken => At(t, m, k) = At(u, m, k)
               /\ At(t, m, k) # NoBlock => At(u, m, k) = At(t, m, k)
               /\ At(u, m, k) \in taken => m = n /\ k \in K /\ At(u, m, k) = new[k]
    <3>1. At(t, m, k) \notin taken
      BY <1>4, <1>6, Images DEF OwnedUsed
    <3>2. CASE m = n
      <4>1. k \in K => new[k] \in taken /\ At(t, m, k) = NoBlock
        BY <1>1, <1>5, <3>2 DEF taken, At
      <4> QED BY <1>8, <3>1, <3>2, <4>1
    <3>3. CASE m # n
      BY <1>8, <3>1, <3>3
    <3> QED BY <3>2, <3>3
  <2>2. ASSUME NEW k \in K, NEW l \in K, new[k] = new[l] PROVE k = l
    <3>1. Takes(new, K, blockBitmap) /\ new \in [K -> Blocks]
      BY <1>2
    <3> QED BY <1>5, <2>2, <3>1, TakesApart
  <2>3. \A b \in taken : \E m \in inodeBitmap : \E k \in BlockIdx : At(u, m, k) = b
    <3> SUFFICES ASSUME NEW k \in K PROVE At(u, n, k) = new[k] /\ k \in BlockIdx /\ n \in inodeBitmap
      BY DEF taken
    <3> QED BY <1>1, <1>5, <1>8
  <2>4. \A m, x \in inodeBitmap : \A k, l \in BlockIdx :
            At(u, m, k) \in taken /\ At(u, m, k) = At(u, x, l) => m = x /\ k = l
    BY <2>1, <2>2
  <2>5. /\ OneOwner(inodeBitmap, u) /\ OwnedUsed(inodeBitmap, blockBitmap \cup taken, u)
        /\ NoBlock \notin blockBitmap /\ UsedOwned(inodeBitmap, blockBitmap, t) =>
               UsedOwned(inodeBitmap, blockBitmap \cup taken, u)
        /\ NoBlock \notin blockBitmap /\ KeepsPremarked(inodeBitmap, blockBitmap, t) =>
               KeepsPremarked(inodeBitmap, blockBitmap \cup taken, u)
    BY <1>4, <1>6, <2>1, <2>3, <2>4, OwnsMore
  <2>6. NoBlock \notin blockBitmap
    BY <1>4 DEF DiskTyped, NoBlock, Blocks
  <2> QED BY <1>7, <2>5, <2>6 DEF Sound, Owned
<1>11. Numbered(inodeBitmap, u)
  BY <1>6, <1>8 DEF Sound, Numbered
<1>12. Cached(inodeBitmap, u, c, contents')
  <2>1. Cached(inodeBitmap, t, c, contents) /\ contents \in [OFP!Addrs -> InodeImages]
    BY SameSets DEF Sound, IInv, DiskType
  <2>2. ASSUME NEW y \in OFP!Live(c)
        PROVE  contents'[y] = u[c.object[y].i_no]
    <3>1. y \in OFP!Addrs /\ c.object[y].i_no \in inodeBitmap /\ contents[y] = t[c.object[y].i_no]
          /\ (c.object[y].i_no = n => y = a)
      BY <1>1, <2>1 DEF Cached, OFP!Live, n
    <3>2. contents'[y] = IF y = a THEN j ELSE contents[y]
      BY <1>7, <2>1, <3>1
    <3> QED BY <1>8, <3>1, <3>2 DEF n
  <2> QED BY <2>1, <2>2 DEF Cached
<1>13. /\ Tree(inodeBitmap', D, up, place, depth, inodeTable', blocks')
       /\ HoldsFiles(D, open_inodes', fileTable', leaked')
       /\ Numbered(inodeBitmap', inodeTable')
       /\ Owned(inodeBitmap', blockBitmap', inodeTable', diedMidCall')
       /\ Cached(inodeBitmap', inodeTable', open_inodes', contents')
  BY <1>3, <1>7, <1>9, <1>10, <1>11, <1>12 DEF InTree
<1>14. diskInodeBitmap' = inodeBitmap'
  BY <1>3 DEF Sound, DiskSame
<1>15. Links(inodeBitmap', up, place, inodeTable', blocks') = LinksNow(up, place)
  BY <1>3, <1>7, <1>9
<1> QED BY <1>7, <1>13, <1>14, <1>15, SoundStays

-----------------------------------------------------------------------------
(* sys_open with O_CREAT and sys_mkdir: a new inode and its entry.         *)

(* A new inode n, in directory d if it is one itself.                      *)
NewInode(n, d, type, i, own, image) ==
    \/ /\ type = "FT_REGULAR" /\ i = inode_init(n)
       /\ own = {} /\ image = blocks
    \/ /\ type = "FT_DIRECTORY"
       /\ \E b \in Blocks \ blockBitmap :
             /\ i = [inode_init(n) EXCEPT !.i_size = 2, !.i_block[0] = b]
             /\ own = {b} /\ image = [blocks EXCEPT ![b] = DotBlock(n, d)]

LEMMA NewInodeBlocks ==
    ASSUME NEW n \in Inodes, NEW b \in Blocks
    PROVE  /\ inode_init(n).i_size = 0 /\ \A k \in BlockIdx : inode_init(n).i_block[k] = NoBlock
           /\ LET i == [inode_init(n) EXCEPT !.i_size = 2, !.i_block[0] = b]
              IN  i.i_size = 2 /\ \A k \in BlockIdx : i.i_block[k] = IF k = 0 THEN b ELSE NoBlock
BY IndexSets DEF inode_init

LEMMA NewInodeFacts ==
    ASSUME IInv, NEW n \in Inodes, NEW d \in Inodes, NEW type, NEW i, NEW own, NEW image,
           NewInode(n, d, type, i, own, image)
    PROVE  /\ i.i_no = n /\ i \in InodeImages
           /\ own \subseteq Blocks /\ own \cap blockBitmap = {}
           /\ \A k \in BlockIdx : i.i_block[k] # NoBlock => k = 0 /\ own = {i.i_block[k]}
           /\ \A b \in own : i.i_block[0] = b
           /\ image \in [Blocks -> [EntryIdx -> Entries]]
           /\ \A x \in blockBitmap : image[x] = blocks[x]
           /\ type = "FT_REGULAR" \/ type = "FT_DIRECTORY"
           /\ type = "FT_REGULAR" => i.i_size = 0
           /\ type = "FT_DIRECTORY" =>
                  /\ i.i_size = 2 /\ \A k \in BlockIdx : i.i_block[k] # NoBlock => k = 0
                  /\ i.i_block[0] \in Blocks /\ own = {i.i_block[0]}
                  /\ image[i.i_block[0]] = DotBlock(n, d)
<1>1. blocks \in [Blocks -> [EntryIdx -> Entries]] /\ blockBitmap \subseteq Blocks
  BY DEF IInv, DiskType
<1>2. CASE /\ type = "FT_REGULAR" /\ i = inode_init(n)
           /\ own = {} /\ image = blocks
  <2>1. i.i_no = n /\ i \in InodeImages
    BY <1>2, NewInodeType
  <2>2. i.i_size = 0 /\ \A k \in BlockIdx : i.i_block[k] = NoBlock
    BY <1>2, NewInodeBlocks, IndexSets
  <2> QED BY <1>1, <1>2, <2>1, <2>2
<1>3. CASE /\ type = "FT_DIRECTORY"
           /\ \E b \in Blocks \ blockBitmap :
                 /\ i = [inode_init(n) EXCEPT !.i_size = 2, !.i_block[0] = b]
                 /\ own = {b} /\ image = [blocks EXCEPT ![b] = DotBlock(n, d)]
  <2>1. PICK b \in Blocks \ blockBitmap :
                 /\ i = [inode_init(n) EXCEPT !.i_size = 2, !.i_block[0] = b]
                 /\ own = {b} /\ image = [blocks EXCEPT ![b] = DotBlock(n, d)]
    BY <1>3
  <2>2. i.i_no = n /\ i \in InodeImages
    BY <2>1, NewInodeType
  <2>3. i.i_size = 2 /\ \A k \in BlockIdx : i.i_block[k] = IF k = 0 THEN b ELSE NoBlock
    BY <2>1, NewInodeBlocks
  <2>4. /\ image \in [Blocks -> [EntryIdx -> Entries]] /\ image[b] = DotBlock(n, d)
        /\ \A x \in blockBitmap : image[x] = blocks[x]
    BY <1>1, <2>1, DotBlockType
  <2>5. 0 \in BlockIdx /\ b # NoBlock
    BY IndexSets DEF NoBlock, Blocks
  <2>6. type = "FT_DIRECTORY" /\ own = {b}
    BY <1>3, <2>1
  <2> QED BY <2>2, <2>3, <2>4, <2>5, <2>6
<1> QED BY <1>2, <1>3 DEF NewInode

(* The two entries of a new directory.                                     *)
LEMMA DotBlockEntries ==
    ASSUME NEW n, NEW d
    PROVE  /\ DotBlock(n, d)[0] = Entry(".", n, "FT_DIRECTORY")
           /\ DotBlock(n, d)[1] = Entry("..", d, "FT_DIRECTORY")
           /\ \A j \in EntryIdx \ {0, 1} : DotBlock(n, d)[j] = Unused
<1>1. \A j \in EntryIdx : ZeroBlock[j] = Unused
  BY ZeroBlockEntries
<1>2. DOMAIN ZeroBlock = EntryIdx
  BY DEF ZeroBlock
<1> DEFINE e == Entry(".", n, "FT_DIRECTORY")
           f == Entry("..", d, "FT_DIRECTORY")
<1>3. DotBlock(n, d) = [ZeroBlock EXCEPT ![0] = e, ![1] = f]
  BY DEF DotBlock
<1> HIDE DEF e, f
<1>4. DotBlock(n, d)[0] = e /\ DotBlock(n, d)[1] = f
      /\ \A j \in EntryIdx \ {0, 1} : DotBlock(n, d)[j] = ZeroBlock[j]
  BY <1>2, <1>3, IndexSets
<1> QED BY <1>1, <1>4 DEF e, f

LEMMA FreshDirMade ==
    ASSUME NEW u, NEW cl, NEW n, NEW d,
           u[n].i_size = 2, At(u, n, 0) \in Blocks, cl[At(u, n, 0)] = DotBlock(n, d),
           \A k \in BlockIdx : At(u, n, k) # NoBlock => k = 0
    PROVE  FreshDir(u, cl, n, d)
<1>1. At(u, n, 0) # NoBlock
  BY DEF NoBlock, Blocks
<1>2. <<0, 0>> \in Positions /\ <<0, 1>> \in Positions
  BY IndexSets DEF Positions
<1>3. ASSUME NEW q \in Positions
      PROVE  /\ Has(u, n, q) <=> q[1] = 0
             /\ Has(u, n, q) => Ent(u, cl, n, q) = DotBlock(n, d)[q[2]]
             /\ q[2] \in EntryIdx /\ q = <<q[1], q[2]>>
  BY <1>1, PositionParts DEF Has, Ent
<1>4. /\ Ent(u, cl, n, <<0, 0>>) = Entry(".", n, "FT_DIRECTORY") /\ Has(u, n, <<0, 0>>)
      /\ Ent(u, cl, n, <<0, 1>>) = Entry("..", d, "FT_DIRECTORY") /\ Has(u, n, <<0, 1>>)
  BY <1>1, DotBlockEntries DEF Has, Ent
<1>5. ASSUME NEW q \in Positions, Has(u, n, q), q \notin Dots PROVE Ent(u, cl, n, q) = Unused
  <2>1. q[2] \in EntryIdx \ {0, 1}
    BY <1>3, <1>5 DEF Dots
  <2> QED BY <1>3, <1>5, <2>1, DotBlockEntries
<1>6. Unused.f_type = "FT_UNKNOWN" /\ Entry(".", n, "FT_DIRECTORY").f_type # "FT_UNKNOWN"
      /\ Entry("..", d, "FT_DIRECTORY").f_type # "FT_UNKNOWN"
  BY DEF Unused, Entry
<1>7. Used(u, cl, n) = Dots
  BY <1>2, <1>4, <1>5, <1>6 DEF Used, Dots
<1> QED BY <1>4, <1>5, <1>7 DEF FreshDir

(* The addresses of u are those of t and those taken, each at one place.   *)
OwnsAlso(ib, ib2, t, u, taken) ==
    /\ \A m \in ib2 : \A k \in BlockIdx :
          At(u, m, k) # NoBlock /\ At(u, m, k) \notin taken => m \in ib /\ At(t, m, k) = At(u, m, k)
    /\ \A m, n \in ib2 : \A k, l \in BlockIdx :
          At(u, m, k) \in taken /\ At(u, m, k) = At(u, n, l) => m = n /\ k = l
    /\ \A b \in taken : \E m \in ib2 : \E k \in BlockIdx : At(u, m, k) = b
    /\ \A m \in ib : \A k \in BlockIdx :
          At(t, m, k) # NoBlock => m \in ib2 /\ At(u, m, k) = At(t, m, k)

LEMMA OwnedMore ==
    ASSUME NEW ib, NEW ib2, NEW bb, NEW t, NEW u, NEW died, NEW taken \in SUBSET Blocks,
           Owned(ib, bb, t, died), NoBlock \notin bb, taken \cap bb = {},
           OwnsAlso(ib, ib2, t, u, taken)
    PROVE  Owned(ib2, bb \cup taken, u, died)
<1>1. OneOwner(ib, t) /\ OwnedUsed(ib, bb, t) /\ KeepsPremarked(ib, bb, t)
      /\ (~died => UsedOwned(ib, bb, t))
  BY DEF Owned
<1>2. /\ OneOwner(ib2, u) /\ OwnedUsed(ib2, bb \cup taken, u)
      /\ NoBlock \notin bb /\ UsedOwned(ib, bb, t) => UsedOwned(ib2, bb \cup taken, u)
      /\ NoBlock \notin bb /\ KeepsPremarked(ib, bb, t) => KeepsPremarked(ib2, bb \cup taken, u)
  BY <1>1, OwnsMore DEF OwnsAlso
<1> QED BY <1>1, <1>2 DEF Owned

(* Directory d gets block b at index x unless it has it, n is new.         *)
Homes(ib, bb, t, u, n, d, x, b, own) ==
    /\ n \notin ib /\ d \in ib /\ x \in BlockIdx /\ b \in Blocks
    /\ own \subseteq Blocks /\ own \cap bb = {}
    /\ At(t, d, x) # NoBlock => b = At(t, d, x)
    /\ At(t, d, x) = NoBlock => b \notin bb \cup own
    /\ \A m \in ib : m # d => u[m] = t[m]
    /\ \A k \in BlockIdx : At(u, d, k) = IF k = x THEN b ELSE At(t, d, k)
    /\ \A k \in BlockIdx : At(u, n, k) # NoBlock => k = 0 /\ own = {At(u, n, k)}
    /\ \A y \in own : At(u, n, 0) = y

LEMMA EntryOwns ==
    ASSUME NEW ib, NEW bb, NEW t, NEW u, NEW died, Owned(ib, bb, t, died), NoBlock \notin bb,
           NEW n, NEW d, NEW x, NEW b, NEW own, Homes(ib, bb, t, u, n, d, x, b, own),
           NEW taken, taken = own \cup (IF At(t, d, x) # NoBlock THEN {} ELSE {b})
    PROVE  Owned(ib \cup {n}, bb \cup taken, u, died)
<1>0. /\ n \notin ib /\ d \in ib /\ x \in BlockIdx /\ b \in Blocks
      /\ own \subseteq Blocks /\ own \cap bb = {}
      /\ At(t, d, x) # NoBlock => b = At(t, d, x)
      /\ At(t, d, x) = NoBlock => b \notin bb \cup own
      /\ \A m \in ib : m # d => u[m] = t[m]
      /\ \A k \in BlockIdx : At(u, d, k) = IF k = x THEN b ELSE At(t, d, k)
      /\ \A k \in BlockIdx : At(u, n, k) # NoBlock => k = 0 /\ own = {At(u, n, k)}
      /\ \A y \in own : At(u, n, 0) = y
  BY DEF Homes
<1>1. OneOwner(ib, t) /\ OwnedUsed(ib, bb, t)
  BY DEF Owned
<1>2. taken \subseteq Blocks /\ taken \cap bb = {} /\ NoBlock \notin Blocks
      /\ own \subseteq taken /\ b # NoBlock /\ 0 \in BlockIdx
  BY <1>0, IndexSets DEF NoBlock, Blocks
<1>3. ASSUME NEW m \in ib, NEW k \in BlockIdx
      PROVE  /\ At(u, m, k) # NoBlock /\ At(u, m, k) \notin taken => At(t, m, k) = At(u, m, k)
             /\ At(t, m, k) # NoBlock => At(u, m, k) = At(t, m, k)
             /\ At(u, m, k) \in taken =>
                    m = d /\ k = x /\ At(u, m, k) = b /\ At(t, d, x) = NoBlock
  <2>1. At(t, m, k) \notin taken
    BY <1>1, <1>2 DEF OwnedUsed
  <2>2. CASE m = d
    BY <1>0, <1>2, <2>1, <2>2
  <2>3. CASE m # d
    <3>1. At(u, m, k) = At(t, m, k)
      BY <1>0, <2>3 DEF At
    <3> QED BY <2>1, <3>1
  <2> QED BY <2>2, <2>3
<1>4. ASSUME NEW k \in BlockIdx, At(u, n, k) # NoBlock
      PROVE  k = 0 /\ At(u, n, k) \in own /\ At(u, n, k) \in taken
  BY <1>0, <1>2, <1>4
<1>5. ASSUME NEW m \in ib \cup {n}, NEW y \in ib \cup {n}, NEW k \in BlockIdx, NEW l \in BlockIdx,
             At(u, m, k) \in taken, At(u, m, k) = At(u, y, l)
      PROVE  m = y /\ k = l
  <2>1. At(u, m, k) # NoBlock
    BY <1>2, <1>5
  <2>2. CASE m = n
    BY <1>0, <1>3, <1>4, <1>5, <2>1, <2>2
  <2>3. CASE m # n
    BY <1>0, <1>3, <1>4, <1>5, <2>1, <2>3
  <2> QED BY <2>2, <2>3
<1>6. \A y \in taken : \E m \in ib \cup {n} : \E k \in BlockIdx : At(u, m, k) = y
  <2>1. ASSUME NEW y \in own PROVE \E m \in ib \cup {n} : \E k \in BlockIdx : At(u, m, k) = y
    BY <1>0, <1>2
  <2>2. At(u, d, x) = b
    BY <1>0
  <2> QED BY <1>0, <2>1, <2>2
<1>7. OwnsAlso(ib, ib \cup {n}, t, u, taken)
  <2> DEFINE ib2 == ib \cup {n}
  <2>1. \A m, y \in ib2 : \A k, l \in BlockIdx :
          At(u, m, k) \in taken /\ At(u, m, k) = At(u, y, l) => m = y /\ k = l
    BY <1>5
  <2>2. \A y \in taken : \E m \in ib2 : \E k \in BlockIdx : At(u, m, k) = y
    BY <1>6
  <2>3. /\ \A m \in ib2 : \A k \in BlockIdx :
              At(u, m, k) # NoBlock /\ At(u, m, k) \notin taken => m \in ib /\ At(t, m, k) = At(u, m, k)
        /\ \A m \in ib : \A k \in BlockIdx :
              At(t, m, k) # NoBlock => m \in ib2 /\ At(u, m, k) = At(t, m, k)
    BY <1>3, <1>4
  <2> HIDE DEF ib2
  <2>4. OwnsAlso(ib, ib2, t, u, taken)
    BY <2>1, <2>2, <2>3 DEF OwnsAlso
  <2> QED BY <2>4 DEF ib2
<1> QED BY <1>2, <1>7, OwnedMore

TreeOfLinks(ib, D, t, bl, L) ==
    \E up, place, depth : Tree(ib, D, up, place, depth, t, bl) /\ Links(ib, up, place, t, bl) = L

(* The tree with the entry, as TreeGrows has it.                           *)
Adds(ib, D, D2, t, bl, u, cl, d, pos, n, e) ==
    /\ n \in Inodes /\ n \notin ib
    /\ Grows(D, t, bl, u, cl, d, pos, e) /\ \A m \in ib : m \notin D => u[m] = t[m]
    /\ e.filename \in Names /\ e.i_no = n
    /\ \A q \in Used(t, bl, d) : Ent(t, bl, d, q).filename # e.filename
    /\ \/ D2 = D /\ e.f_type = "FT_REGULAR" /\ u[n].i_size = 0
       \/ D2 = D \cup {n} /\ e.f_type = "FT_DIRECTORY" /\ FreshDir(u, cl, n, d)

LEMMA TreeAdds ==
    ASSUME NEW ib, NEW D, NEW up, NEW place, NEW depth, NEW t, NEW bl, NEW u, NEW cl,
           Tree(ib, D, up, place, depth, t, bl),
           NEW D2, NEW d, NEW pos, NEW n, NEW e, Adds(ib, D, D2, t, bl, u, cl, d, pos, n, e)
    PROVE  TreeOfLinks(ib \cup {n}, D2, u, cl, WithLink(Links(ib, up, place, t, bl), n, d, e))
<1> DEFINE f == [up EXCEPT ![n] = d]
           g == [place EXCEPT ![n] = pos]
<1>1. Tree(ib \cup {n}, D2, f, g, [depth EXCEPT ![n] = depth[d] + 1], u, cl)
  BY TreeGrows DEF Adds
<1>2. /\ Root \in ib /\ ib \subseteq Inodes /\ up \in [Inodes -> Inodes]
      /\ place \in [Inodes -> Positions] /\ n \in Inodes /\ n \notin ib
      /\ \A m \in ib \ {Root} : up[m] \in D /\ place[m] \in Used(t, bl, up[m])
  BY DEF Tree, TreeType, HomesRight, Adds
<1>3. f[n] = d /\ g[n] = pos /\ \A m \in ib : f[m] = up[m] /\ g[m] = place[m]
  BY <1>2
<1> HIDE DEF f, g
<1>4. /\ \A m \in D : \A q \in Used(t, bl, m) : Ent(u, cl, m, q) = Ent(t, bl, m, q)
      /\ Ent(u, cl, d, pos) = e
  BY DEF Adds, Grows
<1>5. \A m \in (ib \cup {n}) \ {Root} :
          <<f[m], Ent(u, cl, f[m], g[m])>>
          = IF m = n THEN <<d, e>> ELSE <<up[m], Ent(t, bl, up[m], place[m])>>
  BY <1>2, <1>3, <1>4
<1>6. Links(ib \cup {n}, f, g, u, cl) = WithLink(Links(ib, up, place, t, bl), n, d, e)
  <2> DEFINE L == Links(ib, up, place, t, bl)
  <2>1. DOMAIN L = ib \ {Root} /\ \A m \in ib \ {Root} : L[m] = <<up[m], Ent(t, bl, up[m], place[m])>>
    BY DEF Links
  <2>2. (ib \cup {n}) \ {Root} = DOMAIN L \cup {n}
    BY <1>2, <2>1
  <2> HIDE DEF L
  <2>3. \A m \in DOMAIN L \cup {n} :
            <<f[m], Ent(u, cl, f[m], g[m])>> = IF m = n THEN <<d, e>> ELSE L[m]
    BY <1>2, <1>5, <2>1
  <2>4. [m \in DOMAIN L \cup {n} |-> <<f[m], Ent(u, cl, f[m], g[m])>>] = WithLink(L, n, d, e)
    BY <2>3, Zenon DEF WithLink
  <2> QED BY <2>2, <2>4 DEF Links, L
<1> QED BY <1>1, <1>6 DEF TreeOfLinks

(* Enter: the tree, the owners and the copies in core of the old inodes.   *)
Entered(ib, D, L, d, n, i, type) ==
    /\ TreeOfLinks(ib, D, inodeTable', blocks', L)
    /\ inodeBitmap' = ib /\ Numbered(ib, inodeTable')
    /\ Owned(ib, blockBitmap', inodeTable', diedMidCall')
    /\ diskInodeBitmap' = ib /\ diskBlockBitmap' = blockBitmap'
    /\ inodeTable'[n] = i
    /\ \E g : /\ Cached(ib, inodeTable', open_inodes, Updated(d, g))
              /\ Updated(d, g) \in [OFP!Addrs -> InodeImages]
              /\ contents' = IF type = "FT_REGULAR"
                             THEN [Updated(d, g) EXCEPT ![OFP!malloc(open_inodes)] = i]
                             ELSE Updated(d, g)

LEMMA EnterStays ==
    ASSUME IInv, Sound, Usable, NEW D, NEW up, NEW place, NEW depth, InTree(D, up, place, depth),
           NEW d \in D, NEW n \in Inodes \ inodeBitmap,
           NEW e \in Entries, e.i_no = n, e.filename \in Names,
           \A q \in Used(inodeTable, blocks, d) : Ent(inodeTable, blocks, d, q).filename # e.filename,
           NEW i, NEW own, NEW image, NewInode(n, d, e.f_type, i, own, image),
           Enter(d, e, i, own, image)
    PROVE  Entered(inodeBitmap \cup {n}, IF e.f_type = "FT_DIRECTORY" THEN D \cup {n} ELSE D,
                   WithLink(LinksNow(up, place), n, d, e), d, n, i, e.f_type)
<1> DEFINE t == inodeTable
           bl == blocks
           ib == inodeBitmap
           bb == blockBitmap
           D2 == IF e.f_type = "FT_DIRECTORY" THEN D \cup {n} ELSE D
<1>1. /\ DiskTyped(ib, bb, t, bl) /\ Tree(ib, D, up, place, depth, t, bl)
      /\ OneOwner(ib, t) /\ OwnedUsed(ib, bb, t)
      /\ d \in ib /\ D \subseteq ib /\ ib \subseteq Inodes /\ d \in Inodes /\ d # n
      /\ n \in Inodes /\ n \notin ib
      /\ t \in [Inodes -> InodeImages] /\ bl \in [Blocks -> [EntryIdx -> Entries]]
      /\ diskInodeBitmap = ib /\ diskBlockBitmap = bb /\ bb \subseteq Blocks
      /\ t[d].i_no = d /\ t[d] \in InodeImages
  BY DEF IInv, DiskType, DiskTyped, InTree, Sound, Owned, Tree, TreeType, DiskSame, Numbered
<1>2. inode_at(d) = t[d]
  BY InodeAtIsTable DEF Sound
<1>3. PICK pos \in Vacant(t[d]), b \in Blocks :
        LET grown == DirWithEntry(t[d], pos, b)
            taken == own \cup (IF InDir(t[d], pos) THEN {} ELSE {b})
        IN  /\ IF InDir(t[d], pos) THEN b = t[d].i_block[pos[1]]
                                   ELSE IsLowestFree(b, bb \cup own, Blocks)
            /\ blockBitmap' = bb \cup taken
            /\ diskBlockBitmap' = bitmap_sync(blockBitmap', diskBlockBitmap, taken)
            /\ blocks' = [image EXCEPT ![b] = BlockWithEntry(t[d], pos, @, e)]
            /\ inodeTable' = inode_sync(inode_sync(t, grown), i)
            /\ contents' = IF e.f_type = "FT_REGULAR"
                           THEN [Updated(d, grown) EXCEPT ![OF!malloc(open_inodes)] = i]
                           ELSE Updated(d, grown)
            /\ inodeBitmap' = ib \cup {i.i_no}
            /\ diskInodeBitmap' = bitmap_sync(inodeBitmap', diskInodeBitmap, {i.i_no})
            /\ diedMidCall' = diedMidCall
  BY <1>2, Zenon DEF Enter
<1> DEFINE grown == DirWithEntry(t[d], pos, b)
           taken == own \cup (IF InDir(t[d], pos) THEN {} ELSE {b})
           s == [t EXCEPT ![d] = grown]
           u == [s EXCEPT ![n] = i]
           x == pos[1]
<1>4. /\ pos \in Positions /\ x \in BlockIdx
      /\ InDir(t[d], pos) <=> Has(t, d, pos)
      /\ IF Has(t, d, pos) THEN b = At(t, d, x) /\ Ent(t, bl, d, pos).f_type = "FT_UNKNOWN"
                           ELSE b \notin bb \cup own /\ pos[2] = 0
  BY <1>3, PositionParts DEF Vacant, InDir, EntryAt, Has, Ent, At, IsLowestFree
<1>5. /\ grown \in InodeImages /\ grown.i_no = d
      /\ \A k \in BlockIdx : grown.i_block[k] = IF k = x THEN b ELSE t[d].i_block[k]
  <2>1. grown \in InodeImages
    BY <1>1, <1>4, DirWithEntryType
  <2>2. grown = [i_no |-> t[d].i_no, i_size |-> t[d].i_size + 1,
                 i_block |-> [t[d].i_block EXCEPT ![x] = b]]
    <3> DEFINE m == [t[d].i_block EXCEPT ![x] = b]
    <3>1. grown = [t[d] EXCEPT !.i_size = t[d].i_size + 1, !.i_block = m]
      BY <1>1 DEF DirWithEntry, InodeImages
    <3> HIDE DEF m, grown
    <3>2. grown = [i_no |-> t[d].i_no, i_size |-> t[d].i_size + 1, i_block |-> m]
      BY <1>1, <3>1, WrittenImage
    <3> QED BY <3>2 DEF m
  <2>3. t[d].i_block \in [BlockIdx -> Blocks \cup {NoBlock}]
    BY <1>1, Images
  <2> HIDE DEF grown
  <2> QED BY <1>1, <2>1, <2>2, <2>3
<1> HIDE DEF D2, grown
<1>6. /\ i.i_no = n /\ i \in InodeImages
      /\ own \subseteq Blocks /\ own \cap bb = {}
      /\ \A k \in BlockIdx : i.i_block[k] # NoBlock => k = 0 /\ own = {i.i_block[k]}
      /\ \A y \in own : i.i_block[0] = y
      /\ image \in [Blocks -> [EntryIdx -> Entries]]
      /\ \A y \in bb : image[y] = bl[y]
      /\ e.f_type = "FT_REGULAR" \/ e.f_type = "FT_DIRECTORY"
      /\ e.f_type = "FT_REGULAR" => i.i_size = 0
      /\ e.f_type = "FT_DIRECTORY" =>
             /\ i.i_size = 2 /\ \A k \in BlockIdx : i.i_block[k] # NoBlock => k = 0
             /\ i.i_block[0] \in Blocks /\ own = {i.i_block[0]}
             /\ image[i.i_block[0]] = DotBlock(n, d)
  BY <1>1, NewInodeFacts
<1>7. /\ inodeTable' = u /\ inodeBitmap' = ib \cup {n} /\ diskInodeBitmap' = ib \cup {n}
      /\ blockBitmap' = bb \cup taken /\ diskBlockBitmap' = bb \cup taken
      /\ blocks' = [image EXCEPT ![b] = BlockWithEntry(t[d], pos, @, e)]
      /\ diedMidCall' = diedMidCall
      /\ contents' = IF e.f_type = "FT_REGULAR"
                     THEN [Updated(d, grown) EXCEPT ![OFP!malloc(open_inodes)] = i]
                     ELSE Updated(d, grown)
  <2> HIDE DEF taken
  <2>1. /\ blockBitmap' = bb \cup taken
        /\ diskBlockBitmap' = bitmap_sync(blockBitmap', diskBlockBitmap, taken)
        /\ blocks' = [image EXCEPT ![b] = BlockWithEntry(t[d], pos, @, e)]
        /\ inodeTable' = inode_sync(inode_sync(t, grown), i)
        /\ contents' = IF e.f_type = "FT_REGULAR"
                       THEN [Updated(d, grown) EXCEPT ![OFP!malloc(open_inodes)] = i]
                       ELSE Updated(d, grown)
        /\ inodeBitmap' = ib \cup {i.i_no}
        /\ diskInodeBitmap' = bitmap_sync(inodeBitmap', diskInodeBitmap, {i.i_no})
        /\ diedMidCall' = diedMidCall
    BY <1>3, SameOps DEF taken, grown
  <2>2. inode_sync(t, grown) = s
    BY <1>1, <1>5, SyncSlot
  <2>3. inode_sync(s, i) = u
    <3> HIDE DEF s
    <3> QED BY <1>6, SyncSlot
  <2>4. diskBlockBitmap' = bb \cup taken
    BY <1>1, <2>1, SyncAll
  <2>5. diskInodeBitmap' = ib \cup {n}
    BY <1>1, <1>6, <2>1, SyncAll
  <2> QED BY <1>6, <2>1, <2>2, <2>3, <2>4, <2>5
<1>8. /\ \A m \in ib : u[m] = IF m = d THEN grown ELSE t[m]
      /\ u[n] = i /\ \A k : At(u, n, k) = i.i_block[k]
      /\ \A k \in BlockIdx : At(u, d, k) = IF k = x THEN b ELSE At(t, d, k)
  BY <1>1, <1>5 DEF At
<1> HIDE DEF taken, u, s
<1> DEFINE cl == blocks'
<1>9. Grows(D, t, bl, u, cl, d, pos, e)
  <2>1. \A m \in D : u[m] = IF m = d THEN DirWithEntry(t[d], pos, b) ELSE t[m]
    BY <1>1, <1>8 DEF grown
  <2>2. cl = [image EXCEPT ![b] = BlockWithEntry(t[d], pos, @, e)]
    BY <1>7
  <2>3. e.f_type # "FT_UNKNOWN"
    BY <1>6
  <2> HIDE DEF cl
  <2>4. IF Has(t, d, pos) THEN b = At(t, d, pos[1]) /\ Ent(t, bl, d, pos).f_type = "FT_UNKNOWN"
                          ELSE b \notin bb /\ pos[2] = 0
    BY <1>4
  <2> QED BY <1>1, <1>4, <1>6, <2>1, <2>2, <2>3, <2>4, EntryPut
<1>10. e.f_type = "FT_DIRECTORY" => FreshDir(u, cl, n, d)
  <2> SUFFICES ASSUME e.f_type = "FT_DIRECTORY" PROVE FreshDir(u, cl, n, d)
    OBVIOUS
  <2>1. /\ u[n].i_size = 2 /\ At(u, n, 0) \in Blocks /\ image[At(u, n, 0)] = DotBlock(n, d)
        /\ \A k \in BlockIdx : At(u, n, k) # NoBlock => k = 0
        /\ own = {At(u, n, 0)}
    BY <1>6, <1>8
  <2>2. b # At(u, n, 0)
    <3>1. Has(t, d, pos) => b \in bb
      BY <1>1, <1>4 DEF OwnedUsed, Has
    <3> QED BY <1>4, <1>6, <2>1, <3>1
  <2>3. cl[At(u, n, 0)] = DotBlock(n, d)
    BY <1>6, <1>7, <2>1, <2>2
  <2> HIDE DEF cl
  <2> QED BY <2>1, <2>3, FreshDirMade
<1>11. TreeOfLinks(ib \cup {n}, D2, u, cl, WithLink(LinksNow(up, place), n, d, e))
  <2>1. \/ D2 = D /\ e.f_type = "FT_REGULAR" /\ u[n].i_size = 0
        \/ D2 = D \cup {n} /\ e.f_type = "FT_DIRECTORY" /\ FreshDir(u, cl, n, d)
    BY <1>6, <1>8, <1>10 DEF D2
  <2>2. \A m \in ib : m \notin D => u[m] = t[m]
    BY <1>8
  <2> HIDE DEF cl
  <2>3. Adds(ib, D, D2, t, bl, u, cl, d, pos, n, e)
    BY <1>1, <1>9, <2>1, <2>2 DEF Adds
  <2> QED BY <1>1, <2>3, TreeAdds DEF LinksNow
<1>12. Owned(ib \cup {n}, bb \cup taken, u, diedMidCall)
  <2>1. Owned(ib, bb, t, diedMidCall) /\ NoBlock \notin bb
    BY <1>1 DEF Sound, NoBlock, Blocks
  <2>2. /\ At(t, d, x) # NoBlock => b = At(t, d, x)
        /\ At(t, d, x) = NoBlock => b \notin bb \cup own
        /\ taken = own \cup (IF At(t, d, x) # NoBlock THEN {} ELSE {b})
    BY <1>4 DEF Has, taken
  <2>3. /\ \A m \in ib : m # d => u[m] = t[m]
        /\ \A k \in BlockIdx : At(u, n, k) # NoBlock => k = 0 /\ own = {At(u, n, k)}
        /\ \A y \in own : At(u, n, 0) = y
    BY <1>6, <1>8
  <2> HIDE DEF x
  <2>4. x \in BlockIdx /\ \A k \in BlockIdx : At(u, d, k) = IF k = x THEN b ELSE At(t, d, k)
    BY <1>4, <1>8 DEF x
  <2>5. Homes(ib, bb, t, u, n, d, x, b, own)
    BY <1>1, <1>6, <2>2, <2>3, <2>4 DEF Homes
  <2> QED BY <2>1, <2>2, <2>5, EntryOwns
<1>13. Numbered(ib \cup {n}, u)
  BY <1>5, <1>6, <1>8 DEF Sound, Numbered
<1>14. Cached(ib \cup {n}, u, open_inodes, Updated(d, grown))
       /\ Updated(d, grown) \in [OFP!Addrs -> InodeImages]
  <2>1. Cached(ib, s, open_inodes, Updated(d, grown))
    BY <1>1, UpdatedCached DEF Sound, s
  <2>2. \A a \in OFP!Live(open_inodes) : open_inodes.object[a].i_no \in ib
    BY DEF Sound, Cached
  <2>3. \A m \in ib : u[m] = s[m]
    BY DEF u
  <2> QED BY <1>5, <2>1, <2>2, <2>3, UpdatedType, SameSets DEF Cached
<1> QED BY <1>7, <1>8, <1>11, <1>12, <1>13, <1>14 DEF Entered, D2

(* A name that can be created, and an inode that is free.                  *)
MayEnter(D, d, n, e, type) ==
    /\ d \in D /\ d \in Inodes /\ d \in inodeBitmap /\ n \in Inodes \ inodeBitmap
    /\ e \in Entries /\ e.i_no = n /\ e.f_type = type /\ e.filename \in Names
    /\ \A q \in Used(inodeTable, blocks, d) : Ent(inodeTable, blocks, d, q).filename # e.filename
    /\ ~OFP!IsOpen(open_inodes, n)
LEMMA CreatableName ==
    ASSUME IInv, Sound, NEW D, NEW up, NEW place, NEW depth, InTree(D, up, place, depth),
           NEW p \in Paths, NEW r, r = search_file(p), Creatable(p, r),
           NEW n \in Inodes, IsLowestFree(n, inodeBitmap, Inodes),
           NEW type \in {"FT_REGULAR", "FT_DIRECTORY"}
    PROVE  MayEnter(D, r.parent_dir, n, Entry(p[Len(p)], n, type), type)
<1> DEFINE e == Entry(p[Len(p)], n, type)
<1>1. r.parent_dir \in D /\ FoundNone(inodeTable, blocks, p, r)
  BY SearchFile DEF Creatable, Sound
<1>2. e \in Entries
  BY PathParts, EntryType DEF FileTypes
<1>3. D \subseteq inodeBitmap /\ inodeBitmap \subseteq Inodes
  BY DEF InTree, Tree, TreeType
<1>4. n \notin inodeBitmap
  BY DEF IsLowestFree
<1>5. ~OFP!IsOpen(open_inodes, n)
  BY <1>4, IsOpenLive, OpenFacts DEF Sound, Cached
<1>6. e.i_no = n /\ e.f_type = type /\ e.filename = p[Len(p)]
  BY DEF Entry
<1> HIDE DEF e
<1>7. MayEnter(D, r.parent_dir, n, e, type)
  BY <1>1, <1>2, <1>3, <1>4, <1>5, <1>6 DEF FoundNone, MayEnter
<1> QED BY <1>7 DEF e

LEMMA sys_mkdirStays ==
    ASSUME IInv, Sound, Usable, NEW D, NEW up, NEW place, NEW depth, InTree(D, up, place, depth),
           NEW p \in MkdirPaths, sys_mkdir(p), NEW r, r = search_file(p)
    PROVE  \E n \in Inodes \ inodeBitmap :
               LET e == Entry(p[Len(p)], n, "FT_DIRECTORY")
               IN  /\ MayEnter(D, r.parent_dir, n, e, "FT_DIRECTORY")
                   /\ Stays(WithLink(LinksNow(up, place), n, r.parent_dir, e))
<1> DEFINE d == r.parent_dir
           e(n) == Entry(p[Len(p)], n, "FT_DIRECTORY")
           i(n, b) == [inode_init(n) EXCEPT !.i_size = 2, !.i_block[0] = b]
           image(n, b) == [blocks EXCEPT ![b] = DotBlock(n, inode_at(d).i_no)]
<1>1. PICK n \in Inodes, b \in Blocks :
          /\ IsLowestFree(n, inodeBitmap, Inodes) /\ IsLowestFree(b, blockBitmap, Blocks)
          /\ Enter(d, e(n), i(n, b), {b}, image(n, b))
  BY Zenon DEF sys_mkdir
<1>2. Creatable(p, r) /\ UNCHANGED <<open_inodes, fileTable, fdTable, leaked>> /\ p \in Paths
  BY Zenon DEF sys_mkdir, Paths
<1>0. MayEnter(D, d, n, e(n), "FT_DIRECTORY")
  <2>1. IsLowestFree(n, inodeBitmap, Inodes)
    BY <1>1
  <2> QED BY <1>2, <2>1, CreatableName
<1>3. /\ d \in D /\ d \in Inodes /\ d \in inodeBitmap /\ n \in Inodes \ inodeBitmap
      /\ e(n) \in Entries /\ e(n).i_no = n /\ e(n).f_type = "FT_DIRECTORY" /\ e(n).filename \in Names
      /\ \A q \in Used(inodeTable, blocks, d) :
             Ent(inodeTable, blocks, d, q).filename # e(n).filename
  BY <1>0, Zenon DEF MayEnter
<1>4. inode_at(d).i_no = d
  BY <1>3, InodeAtIsTable DEF Sound, Numbered
<1>5. NewInode(n, d, "FT_DIRECTORY", i(n, b), {b}, image(n, b))
  <2>1. b \in Blocks \ blockBitmap
    BY <1>1 DEF IsLowestFree
  <2> QED BY <1>4, <2>1 DEF NewInode
<1> HIDE DEF d, e, i, image
<1> DEFINE ib == inodeBitmap \cup {n}
           D2 == D \cup {n}
           L == WithLink(LinksNow(up, place), n, d, e(n))
<1>6. Entered(ib, D2, L, d, n, i(n, b), "FT_DIRECTORY")
  <2>1. Entered(ib, IF e(n).f_type = "FT_DIRECTORY" THEN D \cup {n} ELSE D, L, d, n, i(n, b),
                e(n).f_type)
    BY <1>1, <1>3, <1>5, EnterStays
  <2> HIDE DEF L, ib
  <2> QED BY <1>3, <2>1
<1>7. open_inodes' = open_inodes /\ fileTable' = fileTable /\ leaked' = leaked
  BY <1>2
<1>8. HoldsFiles(D2, open_inodes', fileTable', leaked')
  <2>1. HoldsFiles(D, open_inodes, fileTable, leaked)
        /\ \A a \in OFP!Live(open_inodes) : open_inodes.object[a].i_no \in inodeBitmap
    BY DEF InTree, Sound, Cached
  <2> QED BY <1>3, <1>7, <2>1 DEF HoldsFiles
<1> HIDE DEF ib, D2, L
<1>9. PICK up2, place2, depth2 : /\ Tree(ib, D2, up2, place2, depth2, inodeTable', blocks')
                                 /\ Links(ib, up2, place2, inodeTable', blocks') = L
  BY <1>6 DEF Entered, TreeOfLinks
<1>10. /\ inodeBitmap' = ib /\ Numbered(ib, inodeTable')
       /\ Owned(ib, blockBitmap', inodeTable', diedMidCall')
       /\ diskInodeBitmap' = ib /\ diskBlockBitmap' = blockBitmap'
       /\ Cached(ib, inodeTable', open_inodes, contents')
  BY <1>6 DEF Entered
<1>11. Stays(L)
  BY <1>7, <1>8, <1>9, <1>10, SoundStays
<1> QED BY <1>0, <1>3, <1>11 DEF L, d, e

LEMMA sys_open_createStays ==
    ASSUME IInv, Sound, Usable, NEW D, NEW up, NEW place, NEW depth, InTree(D, up, place, depth),
           NEW p \in CreatePaths, sys_open_create(p), NEW r, r = search_file(p)
    PROVE  \E n \in Inodes \ inodeBitmap :
               LET e == Entry(p[Len(p)], n, "FT_REGULAR")
               IN  /\ MayEnter(D, r.parent_dir, n, e, "FT_REGULAR") /\ Installs(n)
                   /\ Stays(WithLink(LinksNow(up, place), n, r.parent_dir, e))
<1> DEFINE d == r.parent_dir
           c == open_inodes
           a == OFP!malloc(c)
           e(n) == Entry(p[Len(p)], n, "FT_REGULAR")
<1>1. PICK n \in Inodes :
          /\ IsLowestFree(n, inodeBitmap, Inodes)
          /\ Enter(d, e(n), inode_init(n), {}, blocks)
          /\ OF!file_create(n)
  BY Zenon DEF sys_open_create
<1>2. Creatable(p, r) /\ p \in Paths
  BY Zenon DEF sys_open_create, Paths
<1>0. MayEnter(D, d, n, e(n), "FT_REGULAR")
  <2>1. IsLowestFree(n, inodeBitmap, Inodes)
    BY <1>1
  <2> QED BY <1>2, <2>1, CreatableName
<1>3. /\ d \in D /\ d \in Inodes /\ d \in inodeBitmap /\ n \in Inodes \ inodeBitmap
      /\ e(n) \in Entries /\ e(n).i_no = n /\ e(n).f_type = "FT_REGULAR" /\ e(n).filename \in Names
      /\ \A q \in Used(inodeTable, blocks, d) :
             Ent(inodeTable, blocks, d, q).filename # e(n).filename
      /\ ~OFP!IsOpen(c, n)
  BY <1>0, Zenon DEF MayEnter
<1>4. NewInode(n, d, "FT_REGULAR", inode_init(n), {}, blocks)
  BY DEF NewInode
<1> HIDE DEF d, e
<1> DEFINE ib == inodeBitmap \cup {n}
           L == WithLink(LinksNow(up, place), n, d, e(n))
<1>5. Entered(ib, D, L, d, n, inode_init(n), "FT_REGULAR")
  BY <1>1, <1>3, <1>4, EnterStays
<1>6. /\ OFP!HasHeap(c) /\ OF!InstallFd(a) /\ open_inodes' = OFP!list_push(c, a, n)
      /\ leaked' = leaked
  BY <1>1, SameOps DEF OF!file_create
<1>7. /\ Opens(c, open_inodes', a, n) /\ c.object[a] = NULL /\ a \in OFP!Addrs
  <2>1. OFP!AddrOf(c, n) = a /\ OFP!inode_open(c, n, n) = OFP!list_push(c, a, n)
    BY <1>3 DEF OFP!AddrOf, OFP!inode_open
  <2>2. Opens(c, open_inodes', a, n) /\ c.object[a] = NULL
    BY <1>3, <1>6, <2>1, OpensInode, OpenFacts
  <2> QED BY <2>2 DEF Opens
<1>13. Installs(n)
  BY <1>6, <1>7 DEF Installs, Opens
<1> HIDE DEF a, c, ib, L
<1>8. HoldsFiles(D, open_inodes', fileTable', leaked')
  <2>1. HoldsFiles(D, c, fileTable, leaked) /\ n \notin D
    BY <1>3 DEF InTree, Tree, TreeType, c
  <2>2. \A s \in OFP!Slots : fileTable'[s] = fileTable[s] \/ (fileTable'[s] = a /\ n \notin D)
    BY <1>6, <2>1, InstallSlots
  <2>3. \A y \in OFP!Addrs : leaked'[y] = leaked[y] \/ (y = a /\ n \in D)
    BY <1>6
  <2> QED BY <1>7, <2>1, <2>2, <2>3, OpensHolds
<1>9. PICK up2, place2, depth2 : /\ Tree(ib, D, up2, place2, depth2, inodeTable', blocks')
                                 /\ Links(ib, up2, place2, inodeTable', blocks') = L
  BY <1>5 DEF Entered, TreeOfLinks
<1>10. /\ inodeBitmap' = ib /\ Numbered(ib, inodeTable')
       /\ Owned(ib, blockBitmap', inodeTable', diedMidCall')
       /\ diskInodeBitmap' = ib /\ diskBlockBitmap' = blockBitmap'
       /\ inodeTable'[n] = inode_init(n)
  BY <1>5 DEF Entered
<1>11. Cached(ib, inodeTable', open_inodes', contents')
  <2>1. PICK g : /\ Cached(ib, inodeTable', c, Updated(d, g))
                 /\ Updated(d, g) \in [OFP!Addrs -> InodeImages]
                 /\ contents' = [Updated(d, g) EXCEPT ![a] = inode_init(n)]
    BY <1>5 DEF Entered, c, a
  <2> DEFINE cont == Updated(d, g)
  <2> HIDE DEF cont
  <2>2. contents'[a] = inodeTable'[n] /\ \A x \in OFP!Live(c) : contents'[x] = cont[x]
    BY <1>7, <1>10, <2>1 DEF OFP!Live, cont
  <2>3. \A x \in OFP!Live(c) : c.object[x].i_no # n
    BY <1>3, IsOpenLive, OpenFacts DEF c
  <2>4. Cached(ib, inodeTable', c, cont) /\ n \in ib
    BY <2>1 DEF cont, ib
  <2> QED BY <1>7, <2>2, <2>3, <2>4, OpensCached
<1>12. Stays(L)
  BY <1>8, <1>9, <1>10, <1>11, SoundStays
<1> QED BY <1>0, <1>3, <1>12, <1>13 DEF L, d, e

-----------------------------------------------------------------------------
(* sys_unlink and sys_rmdir: an inode and its entry go.                    *)

(* delete_dir_entry finds the one entry of n.                              *)
LEMMA OneEntry ==
    ASSUME NEW ib, NEW D, NEW up, NEW place, NEW depth, NEW t,
           Tree(ib, D, up, place, depth, t, blocks), NEW n \in ib, n # Root
    PROVE  /\ EntriesOf(t[up[n]], n) = {place[n]} /\ Deletable({place[n]})
           /\ First({place[n]}) = place[n]
<1> DEFINE d == up[n]
           pos == place[n]
           S == EntriesOf(t[d], n)
<1>1. /\ d \in D /\ pos \in Used(t, blocks, d) /\ pos \notin Dots /\ pos \in Positions
      /\ Ent(t, blocks, d, pos).i_no = n
  BY DEF Tree, TreeType, HomesRight, Used
<1> HIDE DEF d, pos
<1>2. S = {q \in Used(t, blocks, d) : /\ Ent(t, blocks, d, q).filename \notin {".", ".."}
                                      /\ Ent(t, blocks, d, q).i_no = n}
  BY DEF EntriesOf, InDir, EntryAt, Named, Used, Has, Ent, At
<1>3. ASSUME NEW q \in S PROVE q = pos
  <2>1. q \in Used(t, blocks, d) /\ Ent(t, blocks, d, q).i_no = n
        /\ Ent(t, blocks, d, q).filename # "." /\ Ent(t, blocks, d, q).filename # ".."
    BY <1>2
  <2>2. q \notin Dots
    <3>1. /\ Ent(t, blocks, d, <<0, 0>>) = Entry(".", d, "FT_DIRECTORY")
          /\ Ent(t, blocks, d, <<0, 1>>) = Entry("..", up[d], "FT_DIRECTORY")
      BY <1>1 DEF Tree, DotsRight
    <3> QED BY <2>1, <3>1 DEF Dots, Entry
  <2>3. place[n] = q
    BY <1>1, <2>1, <2>2 DEF Tree, EntriesRight, Leads
  <2> QED BY <2>3 DEF pos
<1>4. pos \in S
  <2>1. Ent(t, blocks, d, pos).filename \in Names
    BY <1>1 DEF Tree, EntriesRight, Leads
  <2> QED BY <1>1, <1>2, <2>1, NamesApart
<1>5. S = {pos}
  BY <1>3, <1>4
<1>6. First({pos}) = pos
  <2>1. pos[1] \in Nat /\ pos[2] \in Nat
    BY <1>1, PositionParts DEF BlockIdx, EntryIdx
  <2> QED BY <2>1 DEF First, Precedes
<1>7. Deletable({pos})
  BY <1>6 DEF Deletable
<1> QED BY <1>5, <1>6, <1>7 DEF d, pos

(* The addresses of u are those of t that are not freed.                   *)
OwnsOnly(ib, ib2, t, u, freed) ==
    /\ ib2 \subseteq ib
    /\ \A m \in ib2 : \A k \in BlockIdx :
          At(u, m, k) # NoBlock => At(u, m, k) = At(t, m, k) /\ At(u, m, k) \notin freed
    /\ \A m \in ib : \A k \in BlockIdx :
          At(t, m, k) # NoBlock /\ At(t, m, k) \notin freed => m \in ib2 /\ At(u, m, k) = At(t, m, k)
    /\ \A b \in freed : \E m \in ib : \E k \in BlockIdx : At(t, m, k) = b

LEMMA OwnedLess ==
    ASSUME NEW ib, NEW ib2, NEW bb, NEW t, NEW u, NEW died, NEW freed,
           Owned(ib, bb, t, died), NoBlock \notin bb, OwnsOnly(ib, ib2, t, u, freed)
    PROVE  Owned(ib2, bb \ freed, u, died)
<1>1. OneOwner(ib, t) /\ OwnedUsed(ib, bb, t) /\ KeepsPremarked(ib, bb, t)
      /\ (~died => UsedOwned(ib, bb, t))
  BY DEF Owned
<1>2. /\ OneOwner(ib2, u) /\ OwnedUsed(ib2, bb \ freed, u)
      /\ NoBlock \notin bb /\ UsedOwned(ib, bb, t) => UsedOwned(ib2, bb \ freed, u)
      /\ NoBlock \notin bb /\ KeepsPremarked(ib, bb, t) => KeepsPremarked(ib2, bb \ freed, u)
  BY <1>1, OwnsLess DEF OwnsOnly
<1> QED BY <1>1, <1>2 DEF Owned

(* The addresses that inode_release and delete_dir_entry give back: all    *)
(* of the removed inode n, and that of block x of its directory d when no  *)
(* name is left in it.                                                     *)
GivesBack(ib, bb, t, u, n, d, x, reclaims, freed) ==
    /\ n \in ib /\ d \in ib /\ d # n /\ x \in BlockIdx /\ At(t, d, x) # NoBlock
    /\ NoBlock \notin bb /\ reclaims \in BOOLEAN
    /\ \A m \in ib : m # d /\ m # n => u[m] = t[m]
    /\ \A k \in BlockIdx : At(u, d, k) = IF k = x THEN IF reclaims THEN NoBlock ELSE At(t, d, x)
                                                   ELSE At(t, d, k)
    /\ freed = (IF reclaims THEN {At(t, d, x)} ELSE {})
               \cup ({At(t, n, k) : k \in BlockIdx} \ {NoBlock})

LEMMA EntryDisowns ==
    ASSUME NEW ib, NEW bb, NEW t, NEW u, NEW died, Owned(ib, bb, t, died),
           NEW n, NEW d, NEW x, NEW reclaims, NEW freed,
           GivesBack(ib, bb, t, u, n, d, x, reclaims, freed)
    PROVE  Owned(ib \ {n}, bb \ freed, u, died)
<1> DEFINE ib2 == ib \ {n}
<1> USE DEF GivesBack
<1>1. OneOwner(ib, t) /\ OwnedUsed(ib, bb, t)
  BY DEF Owned
<1>2. ASSUME NEW m \in ib2, NEW k \in BlockIdx
      PROVE  At(u, m, k) = IF m = d /\ k = x /\ reclaims THEN NoBlock ELSE At(t, m, k)
  BY DEF At
<1>3. \A k \in BlockIdx : At(t, n, k) # NoBlock => At(t, n, k) \in freed
  OBVIOUS
<1>4. ASSUME NEW m \in ib2, NEW k \in BlockIdx, At(u, m, k) # NoBlock
      PROVE  At(u, m, k) = At(t, m, k) /\ At(u, m, k) \notin freed
  <2>1. At(u, m, k) = At(t, m, k) /\ ~(m = d /\ k = x /\ reclaims)
    BY <1>2, <1>4
  <2>2. ASSUME NEW l \in BlockIdx PROVE At(t, m, k) # At(t, n, l)
    BY <1>1, <1>4, <2>1 DEF OneOwner
  <2>3. reclaims => At(t, m, k) # At(t, d, x)
    BY <1>1, <1>4, <2>1 DEF OneOwner
  <2> QED BY <2>1, <2>2, <2>3
<1>5. ASSUME NEW m \in ib, NEW k \in BlockIdx, At(t, m, k) # NoBlock, At(t, m, k) \notin freed
      PROVE  m \in ib2 /\ At(u, m, k) = At(t, m, k)
  <2>1. m \in ib2
    BY <1>3, <1>5
  <2>2. ~(m = d /\ k = x /\ reclaims)
    BY <1>5
  <2> QED BY <1>2, <2>1, <2>2
<1> HIDE DEF ib2
<1>6. ib2 \subseteq ib
  BY DEF ib2
<1>9. \A b \in freed : \E m \in ib : \E k \in BlockIdx : At(t, m, k) = b
  OBVIOUS
<1>7. OwnsOnly(ib, ib2, t, u, freed)
  BY <1>4, <1>5, <1>6, <1>9 DEF OwnsOnly
<1>8. Owned(ib2, bb \ freed, u, died)
  BY <1>7, OwnedLess
<1> QED BY <1>8 DEF ib2

(* What is not in core does not miss its slot in the table.                *)
LEMMA RemoveStays ==
    ASSUME IInv, Sound, Usable, NEW D, NEW up, NEW place, NEW depth, InTree(D, up, place, depth),
           NEW n \in inodeBitmap, n # Root, ~OFP!IsOpen(open_inodes, n),
           n \in D => Used(inodeTable, blocks, n) = Dots,
           Remove(up[n], n)
    PROVE  Stays(WithoutLink(LinksNow(up, place), n))
<1> DEFINE t == inodeTable
           bl == blocks
           ib == inodeBitmap
           bb == blockBitmap
           c == open_inodes
           d == up[n]
           pos == place[n]
           x == pos[1]
           b == t[d].i_block[x]
           reclaims == Reclaims(b, pos[2])
           dir == [t[d] EXCEPT !.i_size = @ - 1,
                               !.i_block[x] = IF reclaims THEN NoBlock ELSE b]
           s == [t EXCEPT ![d] = dir]
           u == [s EXCEPT ![n] = ZeroInode]
           freed == (IF reclaims THEN {b} ELSE {}) \cup ({t[n].i_block[k] : k \in BlockIdx} \ {NoBlock})
           cl == IF reclaims THEN bl ELSE [bl EXCEPT ![b][pos[2]] = ZeroBlock[pos[2]]]
<1>1. /\ DiskTyped(ib, bb, t, bl) /\ Tree(ib, D, up, place, depth, t, bl)
      /\ OneOwner(ib, t) /\ OwnedUsed(ib, bb, t)
      /\ D \subseteq ib /\ ib \subseteq Inodes /\ n \in Inodes /\ d \in D /\ d \in ib /\ d \in Inodes
      /\ t \in [Inodes -> InodeImages] /\ bb \subseteq Blocks
      /\ diskInodeBitmap = ib /\ diskBlockBitmap = bb
      /\ t[d].i_no = d /\ t[d] \in InodeImages
  BY DEF IInv, DiskType, DiskTyped, InTree, Sound, Owned, Tree, TreeType, DiskSame, Numbered
<1>2. d # n
  <2>1. n \in D => depth[n] = depth[d] + 1 /\ depth[d] \in Nat
    BY <1>1 DEF Tree, DepthsRight, TreeType
  <2> QED BY <1>1, <2>1
<1>3. pos \in Positions /\ x \in BlockIdx /\ pos[2] \in EntryIdx /\ pos \in Used(t, bl, d)
      /\ b = At(t, d, x) /\ b # NoBlock
  <2>1. pos \in Used(t, bl, d) /\ pos \in Positions
    BY <1>1 DEF Tree, HomesRight, Used
  <2> QED BY <2>1, PositionParts DEF Used, Has, At
<1>4. /\ inode_at(d) = t[d] /\ inode_at(n) = t[n]
      /\ EntriesOf(t[d], n) = {pos} /\ Deletable({pos}) /\ First({pos}) = pos
  <2>1. inode_at(d) = t[d] /\ inode_at(n) = t[n]
    BY InodeAtIsTable DEF Sound
  <2>2. EntriesOf(t[d], n) = {pos} /\ Deletable({pos}) /\ First({pos}) = pos
    BY <1>1, OneEntry
  <2> QED BY <2>1, <2>2
<1>5. delete_dir_entry(d, n) = [freed    |-> IF reclaims THEN {b} ELSE {},
                                blocks   |-> cl,
                                contents |-> Updated(d, dir),
                                table    |-> inode_sync(t, dir)]
  BY <1>4, Zenon DEF delete_dir_entry
<1>6. /\ dir \in InodeImages /\ dir.i_no = d
      /\ \A k \in BlockIdx : dir.i_block[k] =
             IF k = x THEN IF reclaims THEN NoBlock ELSE b ELSE t[d].i_block[k]
  <2> DEFINE v == IF reclaims THEN NoBlock ELSE b
             m == [t[d].i_block EXCEPT ![x] = v]
  <2>1. t[d].i_block \in [BlockIdx -> Blocks \cup {NoBlock}] /\ t[d].i_size - 1 \in Int
    BY <1>1 DEF InodeImages
  <2>2. v \in Blocks \cup {NoBlock}
    BY <1>3, <2>1
  <2> HIDE DEF v
  <2>3. dir = [t[d] EXCEPT !.i_size = t[d].i_size - 1, !.i_block = m]
    BY DEF v
  <2> HIDE DEF m, dir
  <2>4. dir = [i_no |-> t[d].i_no, i_size |-> t[d].i_size - 1, i_block |-> m]
    BY <1>1, <2>3, WrittenImage
  <2>5. m \in [BlockIdx -> Blocks \cup {NoBlock}] /\ \A k \in BlockIdx :
            m[k] = IF k = x THEN v ELSE t[d].i_block[k]
    BY <1>3, <2>1, <2>2 DEF m
  <2> QED BY <1>1, <2>1, <2>4, <2>5 DEF InodeImages, v
<1> HIDE DEF cl, dir, freed, b, reclaims
<1>7. /\ inodeTable' = u /\ inodeBitmap' = ib \ {n} /\ diskInodeBitmap' = ib \ {n}
      /\ blockBitmap' = bb \ freed /\ diskBlockBitmap' = bb \ freed
      /\ blocks' = cl /\ contents' = Updated(d, dir)
      /\ open_inodes' = c /\ fileTable' = fileTable /\ leaked' = leaked /\ diedMidCall' = diedMidCall
  <2> DEFINE del == delete_dir_entry(d, n)
  <2>1. /\ del.freed = (IF reclaims THEN {b} ELSE {}) /\ del.blocks = cl
        /\ del.contents = Updated(d, dir) /\ del.table = inode_sync(t, dir)
    BY <1>5
  <2> HIDE DEF del
  <2>2. del.freed \cup ({t[n].i_block[k] : k \in BlockIdx} \ {NoBlock}) = freed
    BY <2>1 DEF freed
  <2>3. /\ blockBitmap' = bb \ freed
        /\ diskBlockBitmap' = bitmap_sync(blockBitmap', diskBlockBitmap, freed)
        /\ inodeBitmap' = ib \ {n}
        /\ diskInodeBitmap' = bitmap_sync(inodeBitmap', diskInodeBitmap, {n})
        /\ inodeTable' = [del.table EXCEPT ![n] = ZeroInode]
        /\ blocks' = del.blocks
        /\ contents' = del.contents
        /\ UNCHANGED <<open_inodes, fileTable, fdTable, leaked, diedMidCall>>
    BY <1>4, <2>2 DEF Remove, del
  <2>4. del.table = s
    BY <1>1, <1>6, <2>1, SyncSlot
  <2>5. diskBlockBitmap' = bb \ freed
    BY <1>1, <2>3, SyncAll
  <2>6. diskInodeBitmap' = ib \ {n}
    BY <1>1, <2>3, SyncAll
  <2> QED BY <2>1, <2>3, <2>4, <2>5, <2>6
<1>8. /\ \A m \in ib \ {n} : u[m] = IF m = d THEN dir ELSE t[m]
      /\ u[d] = dir
      /\ \A k \in BlockIdx : At(u, d, k) = IF k = x THEN IF reclaims THEN NoBlock ELSE b
                                                    ELSE At(t, d, k)
  BY <1>1, <1>2, <1>6 DEF At
<1>9. \A m \in ib \ {n} : u[m] = s[m]
  <2>1. DOMAIN s = Inodes
    BY <1>1
  <2> HIDE DEF s
  <2> QED BY <1>1, <2>1
<1> HIDE DEF u, s
<1>10. /\ Tree(ib \ {n}, D \ {n}, up, place, depth, u, cl)
       /\ Links(ib \ {n}, up, place, u, cl) = WithoutLink(LinksNow(up, place), n)
  <2>1. \A m \in D \ {n} : u[m] = IF m = d
                THEN [t[d] EXCEPT !.i_size = @ - 1,
                                  !.i_block[pos[1]] = IF reclaims THEN NoBlock ELSE b]
                ELSE t[m]
    BY <1>1, <1>8 DEF dir
  <2>2. cl = IF reclaims THEN bl ELSE [bl EXCEPT ![b][pos[2]] = Unused]
    BY <1>3, ZeroBlockEntries, Zenon DEF cl
  <2>3. reclaims \in BOOLEAN /\ (reclaims <=> \A j \in EntryIdx :
            bl[b][j].filename # "." /\ (Named(bl[b][j]) => j = pos[2]))
    BY DEF reclaims, Reclaims
  <2>4. b = At(t, d, pos[1])
    BY <1>3
  <2>5. Shrinks(D \ {n}, t, bl, u, cl, d, pos)
    <3>1. d = up[n] /\ pos = place[n]
      OBVIOUS
    <3> HIDE DEF d, pos
    <3>2. Wipes(ib, bb, D, up, place, depth, t, bl, u, cl, n, d, pos, b, reclaims)
      BY <1>1, <1>2, <2>1, <2>2, <2>3, <2>4, <3>1 DEF Wipes
    <3> QED BY <3>2, EntryTaken
  <2>6. \A m \in ib : m \notin D /\ m # n => u[m] = t[m]
    BY <1>1, <1>8
  <2>7. Tree(ib \ {n}, D \ {n}, up, place, depth, u, cl)
    BY <1>1, <2>5, <2>6, TreeShrinks
  <2>8. Links(ib \ {n}, up, place, u, cl) = WithoutLink(Links(ib, up, place, t, bl), n)
    <3>1. \A m \in (ib \ {n}) \ {Root} : up[m] \in D \ {n} /\ place[m] \in Used(u, cl, up[m])
      BY <2>7 DEF Tree, TreeType, HomesRight
    <3>2. \A m \in D \ {n} : \A q \in Used(u, cl, m) : Ent(u, cl, m, q) = Ent(t, bl, m, q)
      BY <2>5 DEF Shrinks
    <3>3. \A m \in (ib \ {n}) \ {Root} : Ent(u, cl, up[m], place[m]) = Ent(t, bl, up[m], place[m])
      BY <3>1, <3>2
    <3> HIDE DEF t, bl, u, cl
    <3> QED BY <3>3 DEF Links, WithoutLink
  <2> QED BY <2>7, <2>8 DEF LinksNow
<1>11. Owned(ib \ {n}, bb \ freed, u, diedMidCall)
  <2>1. Owned(ib, bb, t, diedMidCall) /\ NoBlock \notin bb
    BY <1>1 DEF Sound, NoBlock, Blocks
  <2>2. freed = (IF reclaims THEN {At(t, d, x)} ELSE {}) \cup ({At(t, n, k) : k \in BlockIdx} \ {NoBlock})
    BY <1>3 DEF freed, At
  <2>3. reclaims \in BOOLEAN
    BY DEF reclaims, Reclaims
  <2>4. \A m \in ib : m # d /\ m # n => u[m] = t[m]
    BY <1>8
  <2>5. At(t, d, x) # NoBlock /\ \A k \in BlockIdx :
            At(u, d, k) = IF k = x THEN IF reclaims THEN NoBlock ELSE At(t, d, x) ELSE At(t, d, k)
    BY <1>3, <1>8
  <2>6. n \in ib /\ d \in ib /\ d # n /\ x \in BlockIdx
    BY <1>1, <1>2, <1>3
  <2> HIDE DEF d, x, freed, reclaims, u
  <2>7. GivesBack(ib, bb, t, u, n, d, x, reclaims, freed)
    BY <2>1, <2>2, <2>3, <2>4, <2>5, <2>6 DEF GivesBack
  <2> QED BY <2>1, <2>7, EntryDisowns
<1>12. Numbered(ib \ {n}, u)
  BY <1>6, <1>8 DEF Sound, Numbered
<1>13. \A a \in OFP!Live(c) : c.object[a].i_no # n /\ c.object[a].i_no \in ib
  BY IsOpenLive, OpenFacts DEF Sound, Cached
<1>14. Cached(ib \ {n}, u, c, Updated(d, dir))
  <2>1. Cached(ib, s, c, Updated(d, dir))
    BY <1>1, UpdatedCached DEF Sound, s
  <2> QED BY <1>9, <1>13, <2>1 DEF Cached
<1>15. HoldsFiles(D \ {n}, c, fileTable, leaked)
  BY <1>13 DEF InTree, HoldsFiles
<1>16. /\ Tree(inodeBitmap', D \ {n}, up, place, depth, inodeTable', blocks')
       /\ HoldsFiles(D \ {n}, open_inodes', fileTable', leaked')
       /\ Numbered(inodeBitmap', inodeTable')
       /\ Owned(inodeBitmap', blockBitmap', inodeTable', diedMidCall')
       /\ Cached(inodeBitmap', inodeTable', open_inodes', contents')
       /\ diskInodeBitmap' = inodeBitmap' /\ diskBlockBitmap' = blockBitmap'
       /\ Links(inodeBitmap', up, place, inodeTable', blocks') = WithoutLink(LinksNow(up, place), n)
  BY <1>7, <1>10, <1>11, <1>12, <1>14, <1>15
<1> HIDE DEF d, pos, t, c
<1> QED BY <1>16, SoundStays

(* A file in core that no descriptor has open would be held by nobody.     *)
LEMMA UnusedNotOpen ==
    ASSUME IInv, NEW D, NEW up, NEW place, NEW depth, InTree(D, up, place, depth),
           NEW n, n # Root, n \notin D, ~OF!InUse(n)
    PROVE  ~OFP!IsOpen(open_inodes, n)
<1> SUFFICES ASSUME NEW a \in OFP!Live(open_inodes), open_inodes.object[a].i_no = n PROVE FALSE
  BY IsOpenLive, OpenFacts
<1>1. a \in OFP!Addrs /\ open_inodes.object[a] # NULL
  BY DEF OFP!Live
<1>2. leaked[a] = 0 /\ a # OFP!RootAddr
  BY <1>1 DEF InTree, HoldsFiles
<1>3. OFP!HoldersOf(a) = {}
  <2>1. a # NULL
    BY <1>1, OpenFilesAssumption DEF OFP!Addrs
  <2> QED BY <2>1, SameSets DEF OF!InUse, OFP!HoldersOf
<1>4. open_inodes.object[a].i_open_counts = 0
  <2>1. open_inodes.object[a].i_open_counts =
            OFP!Cardinality(OFP!HoldersOf(a)) + leaked[a] + OFP!RootHold(a)
    BY <1>1, OpenFacts DEF OFP!CountsMatchHolders
  <2>2. OFP!Cardinality(OFP!HoldersOf(a)) = 0
    BY <1>3, OFP!FS_EmptySet
  <2>3. OFP!RootHold(a) = 0
    BY <1>2 DEF OFP!RootHold
  <2> QED BY <1>2, <2>1, <2>2, <2>3
<1>5. open_inodes.object[a] \in OFP!InCore
  BY <1>1, OpenFacts DEF OFP!ListType
<1> QED BY <1>4, <1>5 DEF OFP!InCore

LEMMA sys_unlinkStays ==
    ASSUME IInv, Sound, Usable, NEW D, NEW up, NEW place, NEW depth, InTree(D, up, place, depth),
           NEW p \in UnlinkPaths, sys_unlink(p), NEW n, n = search_file(p).i_no
    PROVE  /\ n \in inodeBitmap /\ n # Root /\ n \notin D /\ ~OFP!IsOpen(open_inodes, n)
           /\ Stays(WithoutLink(LinksNow(up, place), n))
<1> DEFINE r == search_file(p)
<1>1. r.f_type = "FT_REGULAR" /\ n # Root /\ ~OF!InUse(n) /\ Remove(r.parent_dir, n) /\ p \in Paths
  BY DEF sys_unlink, FindsFile, Paths
<1>2. FoundFile(inodeBitmap, D, up, r) /\ n = r.i_no
  BY <1>1, SearchFile DEF Sound
<1> HIDE DEF r
<1>3. n \in inodeBitmap /\ n \notin D /\ Remove(up[n], n)
  BY <1>1, <1>2 DEF FoundFile
<1>4. ~OFP!IsOpen(open_inodes, n)
  BY <1>1, <1>3, UnusedNotOpen
<1> QED BY <1>1, <1>3, <1>4, RemoveStays

LEMMA sys_rmdirStays ==
    ASSUME IInv, Sound, Usable, Careful,
           NEW D, NEW up, NEW place, NEW depth, InTree(D, up, place, depth),
           NEW p \in RmdirPaths, sys_rmdir(p), NEW n, n = search_file(p).i_no
    PROVE  /\ n \in D /\ n # Root /\ Used(inodeTable, blocks, n) = Dots
           /\ Stays(WithoutLink(LinksNow(up, place), n))
<1> DEFINE r == search_file(p)
<1>1. /\ r.f_type = "FT_DIRECTORY" /\ n # Root /\ Remove(r.parent_dir, n)
      /\ inode_at(n).i_size = 2 /\ p \in Paths
  BY DEF sys_rmdir, FindsDir, Paths
<1>2. FoundDir(D, up, p, r) /\ n = r.i_no
  BY <1>1, SearchFile DEF Sound
<1>3. ~OFP!IsOpen(open_inodes, n)
  BY SameOps DEF Careful
<1> HIDE DEF r
<1>4. n \in D /\ n \in inodeBitmap /\ Remove(up[n], n)
  BY <1>1, <1>2 DEF FoundDir, Usable, InTree, Tree, TreeType
<1>5. Used(inodeTable, blocks, n) = Dots
  <2>1. inodeTable[n].i_size = 2
    BY <1>1, InodeAtIsTable DEF Sound
  <2>2. Dots \subseteq Used(inodeTable, blocks, n) /\ Cardinality(Used(inodeTable, blocks, n)) = 2
    BY <1>4, <2>1 DEF InTree, Tree, DotsRight, SizesRight
  <2> QED BY <2>2, PlaceFacts, FS_Subset
<1> QED BY <1>1, <1>3, <1>4, <1>5, RemoveStays

-----------------------------------------------------------------------------
(* The invariant holds at first and every careful step keeps it.           *)

LEMMA InitTree == Init => TreeInv
<1> SUFFICES ASSUME Init PROVE TreeInv
  OBVIOUS
<1> DEFINE t == inodeTable
           bl == blocks
           D == {Root}
           up == [n \in Inodes |-> Root]
           place == [n \in Inodes |-> <<0, 0>>]
           depth == [n \in Inodes |-> 0]
           root == [i_no |-> Root, i_size |-> 2, i_block |-> [k \in BlockIdx |->
                       IF k = 0 THEN 0 ELSE NoBlock]]
<1>1. IInv
  BY InitIInv
<1>2. Root \in Inodes /\ 0 \in Blocks /\ 0 \in BlockIdx /\ <<0, 0>> \in Positions
  BY IndexSets DEF Positions
<1>3. t[Root] = root /\ bl[0] = DotBlock(Root, Root)
  BY <1>2 DEF Init
<1>4. t[Root].i_no = Root /\ t[Root].i_size = 2
      /\ \A k \in BlockIdx : At(t, Root, k) = IF k = 0 THEN 0 ELSE NoBlock
  BY <1>3 DEF At
<1>5. FreshDir(t, bl, Root, Root)
  <2>1. At(t, Root, 0) = 0
    BY <1>2, <1>4
  <2>2. \A k \in BlockIdx : At(t, Root, k) # NoBlock => k = 0
    BY <1>4
  <2> QED BY <1>2, <1>3, <1>4, <2>1, <2>2, FreshDirMade
<1>6. /\ inodeBitmap = D /\ blockBitmap = {0} \cup Premarked /\ diskInodeBitmap = inodeBitmap
      /\ diskBlockBitmap = blockBitmap
  BY DEF Init
<1>7. /\ up \in [Inodes -> Inodes] /\ place \in [Inodes -> Positions] /\ depth \in [Inodes -> Nat]
      /\ up[Root] = Root /\ depth[Root] = 0
  BY <1>2
<1>8. Tree(D, D, up, place, depth, t, bl)
  <2> HIDE DEF up, place, depth
  <2>1. TreeType(D, D, up, place, depth)
    BY <1>2, <1>7 DEF TreeType
  <2>2. DotsRight(D, up, t, bl)
    BY <1>5, <1>7 DEF FreshDir, DotsRight
  <2>3. EntriesRight(D, D, up, place, t, bl) /\ HomesRight(D, up, place, t, bl)
    BY <1>5 DEF FreshDir, EntriesRight, HomesRight
  <2>4. NamesOnce(D, t, bl)
    <3> SUFFICES ASSUME NEW q \in Dots, NEW r \in Dots,
                        Ent(t, bl, Root, q).filename = Ent(t, bl, Root, r).filename
                 PROVE  q = r
      BY <1>5 DEF FreshDir, NamesOnce
    <3>1. Ent(t, bl, Root, <<0, 0>>).filename = "." /\ Ent(t, bl, Root, <<0, 1>>).filename = ".."
      BY <1>5 DEF FreshDir, Entry
    <3> QED BY <3>1 DEF Dots
  <2>5. RestUnused(D, t, bl)
    BY <1>5 DEF FreshDir, RestUnused
  <2>6. SizesRight(D, t, bl)
    <3>1. <<0, 0>> \in Used(t, bl, Root)
      BY <1>5 DEF FreshDir, Dots
    <3>2. 0 \in EntryIdx
      BY IndexSets
    <3>3. t[Root].i_size = Cardinality(Used(t, bl, Root))
      BY <1>4, <1>5, PlaceFacts DEF FreshDir
    <3>4. \A k \in BlockIdx : At(t, Root, k) # NoBlock => <<k, 0>> \in Used(t, bl, Root)
      BY <1>4, <3>1
    <3> QED BY <3>2, <3>3, <3>4 DEF SizesRight
  <2>7. DepthsRight(D, up, depth) /\ FilesRight(D, D, t)
    BY <1>7 DEF DepthsRight, FilesRight
  <2> QED BY <2>1, <2>2, <2>3, <2>4, <2>5, <2>6, <2>7 DEF Tree
<1> HIDE DEF up, place, depth, root
<1>9. Numbered(D, t)
  BY <1>4 DEF Numbered
<1>10. Owned(D, {0} \cup Premarked, t, diedMidCall)
  <2>1. 0 # NoBlock /\ NoBlock \notin Premarked /\ 0 \notin Premarked
    BY PremarkedAssumption DEF NoBlock, Blocks
  <2> QED BY <1>2, <1>4, <2>1 DEF Owned, OneOwner, OwnedUsed, UsedOwned, KeepsPremarked
<1>11. HoldsFiles(D, open_inodes, fileTable, leaked) /\ Cached(D, t, open_inodes, contents)
  <2> DEFINE r == [i_no |-> Root, i_open_counts |-> 1]
  <2>1. OFP!RootAddr \in OFP!Addrs /\ r # NULL /\ r.i_no = Root
    BY OpenFilesAssumption, IndexSets DEF OFP!RootAddr, OFP!Addrs
  <2>2. /\ open_inodes = OF!OnlyRoot
        /\ fileTable = [s \in OFP!Slots |-> NULL] /\ leaked = [a \in OFP!Addrs |-> 0]
    BY SameSets DEF Init, OF!Init
  <2>3. open_inodes.object = [a \in OFP!Addrs |-> IF a = OFP!RootAddr THEN r ELSE NULL]
    BY <2>2, SameOps, SameSets DEF OF!OnlyRoot
  <2>4. contents[OFP!RootAddr] = t[Root]
    BY <2>1, SameOps, SameSets DEF Init
  <2> HIDE DEF r
  <2>5. OFP!Live(open_inodes) = {OFP!RootAddr} /\ open_inodes.object[OFP!RootAddr] = r
    BY <2>1, <2>3 DEF OFP!Live
  <2> QED BY <2>1, <2>2, <2>4, <2>5 DEF HoldsFiles, Cached
<1>12. InTree(D, up, place, depth)
  BY <1>6, <1>8, <1>11 DEF InTree
<1>13. Sound
  BY <1>6, <1>9, <1>10, <1>11 DEF Sound, DiskSame
<1>14. \E E, f, g, h : InTree(E, f, g, h)
  BY <1>12
<1> QED BY <1>1, <1>13, <1>14 DEF TreeInv

LEMMA StuttersStays ==
    ASSUME Sound, NEW D, NEW up, NEW place, NEW depth, InTree(D, up, place, depth),
           UNCHANGED vars
    PROVE  Stays(LinksNow(up, place))
<1>1. /\ UNCHANGED <<bitmaps, inodeTable, blocks, diedMidCall>>
      /\ contents' = contents /\ open_inodes' = open_inodes /\ fileTable' = fileTable
      /\ leaked' = leaked
  BY DEF vars
<1>2. Cached(inodeBitmap, inodeTable, open_inodes', contents')
      /\ HoldsFiles(D, open_inodes', fileTable', leaked')
  BY <1>1 DEF Sound, InTree
<1> QED BY <1>1, <1>2, DiskUnchanged

LEMMA NextTree ==
    ASSUME Usable, TreeInv, [Next]_vars, [Careful]_vars
    PROVE  TreeInv'
<1>1. IInv /\ Sound
  BY DEF TreeInv
<1>2. PICK D, up, place, depth : InTree(D, up, place, depth)
  BY DEF TreeInv
<1>3. IInv'
  BY <1>1, NextIInv
<1>4. ASSUME UNCHANGED vars PROVE \E L : Stays(L)
  BY <1>1, <1>2, <1>4, StuttersStays
<1>5. ASSUME NEW p \in CreatePaths, sys_open_create(p) PROVE \E L : Stays(L)
  BY <1>1, <1>2, <1>5, sys_open_createStays
<1>6. ASSUME NEW p \in OpenPaths, sys_open_existing(p) \/ sys_open_table_full(p) PROVE \E L : Stays(L)
  <2>1. p \in Paths
    BY DEF Paths
  <2> QED BY <1>1, <1>2, <1>6, <2>1, sys_open_existingStays, LeavesOpenSteps
<1>7. ASSUME NEW f \in OF!Fds, sys_close(f) PROVE \E L : Stays(L)
  BY <1>1, <1>2, <1>3, <1>7, sys_closeStays
<1>8. ASSUME NEW f \in OF!Fds, NEW count \in WriteCounts,
             sys_write(f, count) \/ sys_write_dies(f, count)
      PROVE  \E L : Stays(L)
  BY <1>1, <1>2, <1>8, sys_writeStays, sys_write_diesStays
<1>9. ASSUME NEW p \in UnlinkPaths, sys_unlink(p) PROVE \E L : Stays(L)
  BY <1>1, <1>2, <1>9, sys_unlinkStays
<1>10. ASSUME NEW p \in UnlinkPaths \cup RmdirPaths, sys_remove_root(p) PROVE \E L : Stays(L)
  <2>1. p \in Paths
    BY DEF Paths
  <2> QED BY <1>1, <1>2, <1>10, <2>1, LeavesOpenSteps
<1>11. ASSUME NEW p \in MkdirPaths, sys_mkdir(p) \/ sys_mkdir_dies(p) PROVE \E L : Stays(L)
  BY <1>1, <1>2, <1>11, sys_mkdirStays, sys_mkdir_diesStays
<1>12. ASSUME NEW p \in RmdirPaths, sys_rmdir(p), Careful PROVE \E L : Stays(L)
  BY <1>1, <1>2, <1>12, sys_rmdirStays
<1>13. ASSUME Restart PROVE \E L : Stays(L)
  BY <1>1, <1>2, <1>13, RestartStays
<1>14. \E L : Stays(L)
  <2>1. ASSUME Next, Careful PROVE \E L : Stays(L)
    <3>1. CASE \E p \in CreatePaths : sys_open_create(p)
      BY <3>1, <1>5
    <3>2. CASE \E p \in OpenPaths : sys_open_existing(p) \/ sys_open_table_full(p)
      BY <3>2, <1>6
    <3>3. CASE \E f \in OF!Fds : sys_close(f)
      BY <3>3, <1>7
    <3>4. CASE \E f \in OF!Fds, count \in WriteCounts :
                  sys_write(f, count) \/ sys_write_dies(f, count)
      BY <3>4, <1>8
    <3>5. CASE \E p \in UnlinkPaths : sys_unlink(p)
      BY <3>5, <1>9
    <3>6. CASE \E p \in UnlinkPaths \cup RmdirPaths : sys_remove_root(p)
      BY <3>6, <1>10
    <3>7. CASE \E p \in MkdirPaths : sys_mkdir(p) \/ sys_mkdir_dies(p)
      BY <3>7, <1>11
    <3>8. CASE \E p \in RmdirPaths : sys_rmdir(p)
      BY <2>1, <3>8, <1>12
    <3> QED BY <2>1, <3>1, <3>2, <3>3, <3>4, <3>5, <3>6, <3>7, <3>8, <1>13 DEF Next
  <2> QED BY <1>4, <2>1
<1> QED BY <1>3, <1>14 DEF Stays, TreeInv

THEOREM SpecTreeInv == Usable => (CarefulSpec => []TreeInv)
<1> SUFFICES ASSUME Usable PROVE CarefulSpec => []TreeInv
  OBVIOUS
<1>1. TreeInv /\ [Next]_vars /\ [Careful]_vars => TreeInv'
  BY NextTree
<1> QED BY <1>1, InitTree, PTL DEF CarefulSpec, Spec

-----------------------------------------------------------------------------
(* Theorems.                                                               *)

(* Whatever the sizes, an inode in core is in use on the disk, reads the   *)
(* same there and is in core once, as long as no directory is removed that *)
(* is in core: open_inodes is only a buffer (inode.cpp:97).                *)
THEOREM CacheIsCopy == Usable => (CarefulSpec => []CacheCoherent)
<1>1. TreeInv => CacheCoherent
  <2> SUFFICES ASSUME TreeInv PROVE CacheCoherent
    OBVIOUS
  <2>1. Cached(inodeBitmap, inodeTable, open_inodes, contents) /\ Numbered(inodeBitmap, inodeTable)
    BY DEF TreeInv, Sound
  <2>2. OF!Live(open_inodes) = OFP!Live(open_inodes)
    BY SameOps
  <2> QED BY <2>1, <2>2 DEF CacheCoherent, Cached, Numbered
<1> QED BY <1>1, SpecTreeInv, PTL

(* Between two calls the disk has the bitmaps and the inodes of memory: a  *)
(* process that ends there loses nothing.                                  *)
THEOREM NothingUnwritten == Usable => (CarefulSpec => []DiskUpToDate)
<1>1. TreeInv => DiskUpToDate
  BY InodeAtIsTable DEF TreeInv, Sound, DiskSame, DiskUpToDate
<1> QED BY <1>1, SpecTreeInv, PTL

(* The slot of the inode table that inode_open reads has the inode that    *)
(* inode_sync wrote there, when inode numbers fit its eight bits, rmdir is *)
(* given names only and no directory that is in core is removed.           *)
THEOREM SlotsHoldTheirInodes == Usable => (CarefulSpec => []InodeInItsSlot)
<1>1. TreeInv => InodeInItsSlot
  BY DEF TreeInv, Sound, Numbered, InodeInItsSlot
<1> QED BY <1>1, SpecTreeInv, PTL

(* Two different places of the inodes in use name two different blocks,    *)
(* and every block an inode names is marked used: bitmap_scan never hands  *)
(* out a block that holds somebody's data.                                 *)
THEOREM NoSharedBlock == Usable => (CarefulSpec => []BlocksOwnedOnce)
<1>1. TreeInv => BlocksOwnedOnce
  <2> SUFFICES ASSUME TreeInv PROVE BlocksOwnedOnce
    OBVIOUS
  <2> DEFINE own == [x \in Owners |-> inode_at(x[1]).i_block[x[2]]]
  <2>1. \A n : inode_at(n) = inodeTable[n]
    BY InodeAtIsTable DEF TreeInv, Sound
  <2>2. OneOwner(inodeBitmap, inodeTable) /\ OwnedUsed(inodeBitmap, blockBitmap, inodeTable)
    BY DEF TreeInv, Sound, Owned
  <2>3. ASSUME NEW x \in Owners
        PROVE  /\ x[1] \in inodeBitmap /\ x[2] \in BlockIdx /\ x = <<x[1], x[2]>>
               /\ own[x] = At(inodeTable, x[1], x[2]) /\ own[x] # NoBlock
    BY <2>1 DEF Owners, At
  <2>4. OwnedBlocks = {own[x] : x \in Owners}
    BY DEF OwnedBlocks
  <2> HIDE DEF own
  <2>5. OwnedBlocks \subseteq blockBitmap
    BY <2>2, <2>3, <2>4 DEF OwnedUsed
  <2>6. \A x, y \in Owners : own[x] = own[y] => x = y
    BY <2>2, <2>3 DEF OneOwner
  <2>7. own \in [Owners -> OwnedBlocks]
    BY <2>4 DEF own
  <2>8. own \in Bijection(Owners, OwnedBlocks)
    BY <2>4, <2>6, <2>7, Zenon DEF Bijection, Injection, Surjection, IsInjective
  <2>9. IsFiniteSet(Owners)
    <3>1. IsFiniteSet(Inodes) /\ IsFiniteSet(BlockIdx)
      <4>1. 0 \in Int /\ Direct - 1 \in Int /\ MaxInodes - 1 \in Int
        BY SizesAssumption
      <4> QED BY <4>1, FS_Interval DEF BlockIdx, Inodes
    <3>2. IsFiniteSet(Inodes \X BlockIdx)
      BY <3>1, FS_Product
    <3>3. Owners \in SUBSET (Inodes \X BlockIdx)
      BY DEF Owners, TreeInv, IInv, DiskType
    <3> QED BY <3>2, <3>3, FS_Subset
  <2>10. Cardinality(OwnedBlocks) = Cardinality(Owners)
    BY <2>8, <2>9, FS_Bijection DEF ExistsBijection
  <2> QED BY <2>5, <2>10 DEF BlocksOwnedOnce
<1> QED BY <1>1, SpecTreeInv, PTL

(* A block marked used belongs to an inode in use, until a call dies       *)
(* between taking a block and recording it: removing gives all back.  Only *)
(* the blocks that the format marked, whichever these are, are nobody's,   *)
(* and stay so.                                                            *)
THEOREM NoneLost == Usable => (CarefulSpec => []NoLostBlocks)
<1>1. TreeInv => NoLostBlocks
  <2> SUFFICES ASSUME TreeInv PROVE NoLostBlocks
    OBVIOUS
  <2>1. \A n : inode_at(n) = inodeTable[n]
    BY InodeAtIsTable DEF TreeInv, Sound
  <2>2. KeepsPremarked(inodeBitmap, blockBitmap, inodeTable)
        /\ (~diedMidCall => UsedOwned(inodeBitmap, blockBitmap, inodeTable))
    BY DEF TreeInv, Sound, Owned
  <2>3. \A x \in Owners : x[1] \in inodeBitmap /\ x[2] \in BlockIdx
    BY DEF Owners
  <2>4. Premarked \cap OwnedBlocks = {}
    BY <2>1, <2>2, <2>3 DEF OwnedBlocks, KeepsPremarked, At
  <2>5. ASSUME ~diedMidCall, NEW b \in blockBitmap, b \notin Premarked PROVE b \in OwnedBlocks
    <3>1. PICK n \in inodeBitmap, k \in BlockIdx : At(inodeTable, n, k) = b
      BY <2>2, <2>5 DEF UsedOwned
    <3>2. b # NoBlock
      BY DEF TreeInv, IInv, DiskType, NoBlock, Blocks
    <3>3. <<n, k>> \in Owners
      BY <2>1, <3>1, <3>2 DEF Owners, At
    <3> QED BY <2>1, <3>1, <3>3 DEF OwnedBlocks, At
  <2> QED BY <2>2, <2>4, <2>5 DEF NoLostBlocks, KeepsPremarked
<1> QED BY <1>1, SpecTreeInv, PTL

-----------------------------------------------------------------------------
(* The directories that can be reached from the root are those of the      *)
(* tree.                                                                   *)

LEMMA TreeFacts ==
    ASSUME IInv, Sound, NEW D, NEW up, NEW place, NEW depth, InTree(D, up, place, depth)
    PROVE  /\ Tree(inodeBitmap, D, up, place, depth, inodeTable, blocks)
           /\ \A n : inode_at(n) = inodeTable[n]
           /\ \A d : {q \in Positions : InDir(inode_at(d), q)
                                        /\ EntryAt(inode_at(d), q).f_type # "FT_UNKNOWN"}
                     = Used(inodeTable, blocks, d)
<1>1. \A n : inode_at(n) = inodeTable[n]
  BY InodeAtIsTable DEF Sound
<1>2. ASSUME NEW d
      PROVE  {q \in Positions : InDir(inode_at(d), q)
                                /\ EntryAt(inode_at(d), q).f_type # "FT_UNKNOWN"}
             = Used(inodeTable, blocks, d)
  BY <1>1 DEF InDir, EntryAt, Used, Has, Ent, At
<1> QED BY <1>1, <1>2 DEF InTree

(* What Children has of a directory: all its entries but the dots.         *)
LEMMA ChildrenFacts ==
    ASSUME IInv, Sound, NEW D, NEW up, NEW place, NEW depth, InTree(D, up, place, depth),
           NEW d \in D
    PROVE  /\ Children(d) = {Ent(inodeTable, blocks, d, q) : q \in Used(inodeTable, blocks, d) \ Dots}
           /\ \A e \in Children(d) :
                 /\ e.filename \in Names /\ e.i_no \in inodeBitmap /\ e.i_no # Root
                 /\ up[e.i_no] = d /\ e = Ent(inodeTable, blocks, d, place[e.i_no])
                 /\ e.f_type = IF e.i_no \in D THEN "FT_DIRECTORY" ELSE "FT_REGULAR"
<1> DEFINE t == inodeTable
           bl == blocks
           U == Used(t, bl, d)
<1>1. Tree(inodeBitmap, D, up, place, depth, t, bl) /\ inode_at(d) = t[d]
      /\ {q \in Positions : InDir(inode_at(d), q) /\ EntryAt(inode_at(d), q).f_type # "FT_UNKNOWN"} = U
  BY TreeFacts
<1>2. LiveEntries(d) = {Ent(t, bl, d, q) : q \in U}
  BY <1>1 DEF LiveEntries, EntryAt, Ent, At
<1>3. ASSUME NEW q \in U \cap Dots PROVE ~Named(Ent(t, bl, d, q))
  <2>1. Ent(t, bl, d, <<0, 0>>).filename = "." /\ Ent(t, bl, d, <<0, 1>>).filename = ".."
    <3>1. Ent(t, bl, d, <<0, 0>>) = Entry(".", d, "FT_DIRECTORY")
          /\ Ent(t, bl, d, <<0, 1>>) = Entry("..", up[d], "FT_DIRECTORY")
      BY <1>1 DEF Tree, DotsRight
    <3> QED BY <3>1 DEF Entry
  <2> QED BY <2>1 DEF Dots, Named
<1>4. ASSUME NEW q \in U \ Dots
      PROVE  Leads(inodeBitmap, D, up, place, d, q, Ent(t, bl, d, q)) /\ Named(Ent(t, bl, d, q))
  <2>1. Leads(inodeBitmap, D, up, place, d, q, Ent(t, bl, d, q))
    BY <1>1 DEF Tree, EntriesRight
  <2>2. Ent(t, bl, d, q).f_type # "FT_UNKNOWN"
    BY DEF Used
  <2> QED BY <2>1, <2>2, NamesApart DEF Leads, Named
<1> HIDE DEF U
<1>5. Children(d) = {Ent(t, bl, d, q) : q \in U \ Dots}
  BY <1>2, <1>3, <1>4 DEF Children
<1>6. ASSUME NEW e \in Children(d)
      PROVE  /\ e.filename \in Names /\ e.i_no \in inodeBitmap /\ e.i_no # Root
             /\ up[e.i_no] = d /\ e = Ent(t, bl, d, place[e.i_no])
             /\ e.f_type = IF e.i_no \in D THEN "FT_DIRECTORY" ELSE "FT_REGULAR"
  <2>1. PICK q \in U \ Dots : e = Ent(t, bl, d, q)
    BY <1>5
  <2> QED BY <1>4, <2>1 DEF Leads
<1> QED BY <1>5, <1>6 DEF U

(* A chain of parents passes every depth, and there are not more depths    *)
(* than inodes.                                                            *)
LEMMA DepthBounded ==
    ASSUME NEW ib, NEW D, NEW up, NEW place, NEW depth, TreeType(ib, D, up, place, depth),
           DepthsRight(D, up, depth), NEW d \in D
    PROVE  depth[d] < MaxInodes
<1> DEFINE n == depth[d]
           at == [m \in D |-> depth[m]]
           R == {at[m] : m \in D}
           S == {k \in 0 .. n : n - k \in R}
<1>1. /\ \A m \in D : depth[m] \in Nat /\ up[m] \in D /\ m \in Inodes
      /\ depth[Root] = 0 /\ \A m \in D : m # Root => depth[m] = depth[up[m]] + 1
  BY DEF TreeType, DepthsRight
<1>2. n \in Nat /\ \A m \in D : at[m] = depth[m]
  BY <1>1
<1> HIDE DEF at, n
<1>3. 0 \in S
  BY <1>2 DEF n
<1>4. ASSUME NEW k \in 0 .. n - 1, k \in S PROVE k + 1 \in S
  <2>1. PICK m \in D : at[m] = n - k
    BY <1>4
  <2>2. m # Root
    BY <1>1, <1>2, <2>1
  <2>3. at[up[m]] = n - (k + 1)
    BY <1>1, <1>2, <2>1, <2>2
  <2> QED BY <1>1, <1>2, <2>3
<1>5. 0 .. n \subseteq S
  <2> HIDE DEF S
  <2> QED BY <1>2, <1>3, <1>4, IntervalInduction
<1>6. 0 .. n \subseteq R
  <2> SUFFICES ASSUME NEW k \in 0 .. n PROVE k \in R
    OBVIOUS
  <2>1. n - k \in 0 .. n /\ n - (n - k) = k
    BY <1>2
  <2> QED BY <1>5, <2>1
<1> HIDE DEF R, S
<1>7. IsFiniteSet(D) /\ Cardinality(D) <= MaxInodes /\ Cardinality(D) \in Nat
  <2>1. 0 \in Int /\ MaxInodes - 1 \in Int /\ ~(0 > MaxInodes - 1)
    BY SizesAssumption
  <2>2. IsFiniteSet(Inodes) /\ Cardinality(Inodes) = MaxInodes
    <3>1. Cardinality(Inodes) = MaxInodes - 1 - 0 + 1
      BY <2>1, FS_Interval DEF Inodes
    <3> QED BY <2>1, <3>1, FS_Interval, SizesAssumption DEF Inodes
  <2>3. D \in SUBSET Inodes
    BY <1>1
  <2> QED BY <2>2, <2>3, FS_Subset, FS_CardinalityType
<1>8. IsFiniteSet(R) /\ Cardinality(R) <= Cardinality(D)
  <2>1. at \in [D -> R] /\ \A r \in R : \E m \in D : at[m] = r
    BY DEF at, R
  <2>2. at \in Surjection(D, R)
    BY <2>1, Zenon DEF Surjection
  <2> QED BY <1>7, <2>2, FS_Surjection
<1>9. Cardinality(0 .. n) <= Cardinality(R) /\ Cardinality(0 .. n) = n + 1
  <2>1. 0 .. n \in SUBSET R
    BY <1>6
  <2>2. Cardinality(0 .. n) = n - 0 + 1
    BY <1>2, FS_Interval
  <2> QED BY <1>2, <1>8, <2>1, <2>2, FS_Subset
<1>10. Cardinality(R) \in Nat
  BY <1>8, FS_CardinalityType
<1>11. n < MaxInodes
  BY <1>2, <1>7, <1>8, <1>9, <1>10, SizesAssumption
<1> QED BY <1>11 DEF n

(* A pass over the directories found so far.                               *)
More(S) == S \cup UNION {Subdirs(d) : d \in S}

LEMMA SubdirsFacts ==
    ASSUME IInv, Sound, NEW D, NEW up, NEW place, NEW depth, InTree(D, up, place, depth),
           NEW d \in D
    PROVE  Subdirs(d) = {m \in D : m # Root /\ up[m] = d}
<1> DEFINE t == inodeTable
           bl == blocks
<1>1. ASSUME NEW m \in Subdirs(d) PROVE m \in D /\ m # Root /\ up[m] = d
  <2>1. PICK e \in Children(d) : e.f_type = "FT_DIRECTORY" /\ m = e.i_no
    BY <1>1 DEF Subdirs
  <2> QED BY <2>1, ChildrenFacts
<1>2. ASSUME NEW m \in D, m # Root, up[m] = d PROVE m \in Subdirs(d)
  <2> DEFINE e == Ent(t, bl, d, place[m])
  <2>1. Tree(inodeBitmap, D, up, place, depth, t, bl) /\ m \in inodeBitmap
    BY TreeFacts DEF Tree, TreeType
  <2>2. place[m] \in Used(t, bl, d) \ Dots /\ e.i_no = m
    BY <1>2, <2>1 DEF Tree, HomesRight
  <2>3. e \in Children(d)
    BY <2>2, ChildrenFacts
  <2>4. e.f_type = "FT_DIRECTORY"
    BY <2>2, <2>3, ChildrenFacts
  <2> QED BY <2>2, <2>3, <2>4 DEF Subdirs
<1> QED BY <1>1, <1>2

LEMMA MoreFacts ==
    ASSUME IInv, Sound, NEW D, NEW up, NEW place, NEW depth, InTree(D, up, place, depth),
           NEW S \in SUBSET D
    PROVE  More(S) \in SUBSET D /\ \A m \in D : m \in S \/ (m # Root /\ up[m] \in S) => m \in More(S)
<1>1. \A d \in S : Subdirs(d) = {m \in D : m # Root /\ up[m] = d}
  BY SubdirsFacts
<1> QED BY <1>1 DEF More

LEMMA Reached ==
    ASSUME IInv, Sound, NEW D, NEW up, NEW place, NEW depth, InTree(D, up, place, depth)
    PROVE  Directories = D
<1> DEFINE n == MaxInodes
           A == SUBSET D
           G == [S \in A |-> More(S)]
           g == [k \in 1 .. n |-> G]
           body(within) == [k \in 0 .. n |-> IF k = 0 THEN {Root}
               ELSE within[k - 1] \cup UNION {Subdirs(d) : d \in within[k - 1]}]
           within == CHOOSE within : within = body(within)
<1>1. n \in Nat /\ n # 0
  BY SizesAssumption
<1>2. Tree(inodeBitmap, D, up, place, depth, inodeTable, blocks)
      /\ TreeType(inodeBitmap, D, up, place, depth) /\ DepthsRight(D, up, depth)
  BY TreeFacts DEF Tree
<1>3. {Root} \in A
  BY <1>2 DEF TreeType
<1>4. G \in [A -> A]
  BY MoreFacts
<1> HIDE DEF A, G, n
<1>5. PICK w \in [0 .. n -> A] : w[0] = {Root} /\ \A k \in 1 .. n : w[k] = More(w[k - 1])
  <2>1. g \in [1 .. n -> [A -> A]]
    BY <1>4
  <2> HIDE DEF g
  <2>2. PICK f \in [0 .. n -> A] : Iterates(f, n, {Root}, g)
    BY <1>1, <1>3, <2>1, IntervalRecursion
  <2>3. ASSUME NEW k \in 1 .. n PROVE f[k] = More(f[k - 1])
    <3>1. f[k] = g[k][f[k - 1]]
      BY <2>2 DEF Iterates
    <3>2. k - 1 \in 0 .. n
      BY <1>1
    <3>3. f[k - 1] \in A
      BY <3>2
    <3> QED BY <3>1, <3>3 DEF g, G
  <2> QED BY <2>2, <2>3 DEF Iterates
<1>6. w = body(w)
  <2>1. \A k \in 0 .. n : w[k] = body(w)[k]
    BY <1>1, <1>5 DEF More
  <2> QED BY <2>1
<1>7. ASSUME NEW v, v = body(v) PROVE v = w
  <2>1. \A k \in 0 .. n : v[k] = IF k = 0 THEN {Root} ELSE More(v[k - 1])
    BY <1>7 DEF More
  <2> DEFINE S == {k \in 0 .. n : v[k] = w[k]}
  <2>2. 0 \in S
    <3>1. 0 \in 0 .. n
      BY <1>1
    <3>2. v[0] = {Root}
      BY <2>1, <3>1
    <3> QED BY <1>5, <3>1, <3>2
  <2>3. \A k \in 0 .. n - 1 : k \in S => k + 1 \in S
    <3> SUFFICES ASSUME NEW k \in 0 .. n - 1, v[k] = w[k] PROVE k + 1 \in S
      OBVIOUS
    <3>1. k + 1 \in 1 .. n /\ k + 1 \in 0 .. n /\ k + 1 # 0 /\ k + 1 - 1 = k
      BY <1>1
    <3> QED BY <1>5, <2>1, <3>1
  <2>4. 0 .. n \subseteq S
    <3> HIDE DEF S
    <3> QED BY <1>1, <2>2, <2>3, IntervalInduction
  <2>5. v = [k \in 0 .. n |-> v[k]] /\ w = [k \in 0 .. n |-> w[k]]
    BY <1>5, <1>7
  <2> QED BY <2>4, <2>5
<1>8. within = w
  <2> HIDE DEF body
  <2> QED BY <1>6, <1>7
<1>9. Directories = within[n]
  BY Zenon DEF Directories, n
<1> HIDE DEF body, within
<1>10. \A d \in D : depth[d] \in Nat /\ depth[d] < n /\ up[d] \in D
  BY <1>2, DepthBounded DEF TreeType, n
<1>11. D \subseteq w[n]
  <2> DEFINE S == {k \in 0 .. n : \A d \in D : depth[d] <= k => d \in w[k]}
  <2>1. \A d \in D : d # Root => depth[d] = depth[up[d]] + 1
    BY <1>2 DEF DepthsRight
  <2>2. 0 \in S
    <3>1. \A d \in D : depth[d] <= 0 => d = Root
      BY <1>10, <2>1
    <3> QED BY <1>1, <1>5, <3>1
  <2>3. ASSUME NEW k \in 0 .. n - 1, k \in S PROVE k + 1 \in S
    <3>1. k + 1 \in 1 .. n /\ k \in 0 .. n /\ k + 1 - 1 = k
      BY <1>1
    <3>2. w[k + 1] = More(w[k]) /\ w[k] \in SUBSET D
      BY <1>5, <3>1 DEF A
    <3>3. ASSUME NEW d \in D, depth[d] <= k + 1 PROVE d \in w[k + 1]
      <4>1. CASE d = Root
        <5>1. Root \in w[k]
          BY <1>2, <2>3, <3>1, <4>1 DEF DepthsRight
        <5> QED BY <3>2, <4>1, <5>1, MoreFacts
      <4>2. CASE d # Root
        <5>1. depth[up[d]] <= k
          BY <1>10, <2>1, <3>3, <4>2
        <5>2. up[d] \in w[k]
          BY <1>10, <2>3, <5>1
        <5> QED BY <3>2, <4>2, <5>2, MoreFacts
      <4> QED BY <4>1, <4>2
    <3>4. k + 1 \in 0 .. n
      BY <1>1
    <3> QED BY <3>3, <3>4
  <2>4. 0 .. n \subseteq S
    <3> HIDE DEF S
    <3> QED BY <1>1, <2>2, <2>3, IntervalInduction
  <2>5. n \in 0 .. n
    BY <1>1
  <2> QED BY <1>1, <1>10, <2>4, <2>5
<1>12. w[n] \subseteq D
  <2>1. n \in 0 .. n
    BY <1>1
  <2> QED BY <1>5, <2>1 DEF A
<1> QED BY <1>8, <1>9, <1>11, <1>12

(* Under the hypotheses above the directories are a tree: every inode in   *)
(* use but the root has one name, no name leads to a free inode, names do  *)
(* not repeat in a directory, and "." and ".." lead where they should,     *)
(* through creates, removals, full tables, restarts and calls that die.    *)
THEOREM TreeSound == Usable => (CarefulSpec => []NamespaceSound)
<1>1. TreeInv => NamespaceSound
  <2> SUFFICES ASSUME TreeInv PROVE NamespaceSound
    OBVIOUS
  <2>1. IInv /\ Sound
    BY DEF TreeInv
  <2>2. PICK D, up, place, depth : InTree(D, up, place, depth)
    BY DEF TreeInv
  <2> DEFINE t == inodeTable
             bl == blocks
             ib == inodeBitmap
             links == UNION {{<<d, e>> : e \in Children(d)} : d \in D}
             Dot(d, k) == bl[inode_at(d).i_block[0]][k]
  <2>3. Directories = D
    BY <2>1, <2>2, Reached
  <2>4. Tree(ib, D, up, place, depth, t, bl) /\ \A n : inode_at(n) = t[n]
    BY <2>1, <2>2, TreeFacts
  <2>5. \A d \in D : /\ InDir(inode_at(d), <<0, 0>>)
                     /\ Dot(d, 0) = Entry(".", d, "FT_DIRECTORY")
                     /\ Dot(d, 1) = Entry("..", up[d], "FT_DIRECTORY")
    <3> SUFFICES ASSUME NEW d \in D
                 PROVE  /\ InDir(inode_at(d), <<0, 0>>)
                        /\ Dot(d, 0) = Entry(".", d, "FT_DIRECTORY")
                        /\ Dot(d, 1) = Entry("..", up[d], "FT_DIRECTORY")
      OBVIOUS
    <3>1. <<0, 0>> \in Used(t, bl, d)
          /\ Ent(t, bl, d, <<0, 0>>) = Entry(".", d, "FT_DIRECTORY")
          /\ Ent(t, bl, d, <<0, 1>>) = Entry("..", up[d], "FT_DIRECTORY")
      BY <2>4 DEF Tree, DotsRight, Dots
    <3> QED BY <2>4, <3>1 DEF Used, Has, Ent, At, InDir
  <2>6. ASSUME NEW x \in links
        PROVE  /\ x = <<x[1], x[2]>> /\ x[1] \in D /\ x[2] \in Children(x[1])
               /\ x[2].i_no \in ib \ {Root} /\ up[x[2].i_no] = x[1]
               /\ x[2] = Ent(t, bl, x[1], place[x[2].i_no])
               /\ x[2].f_type = IF x[2].i_no \in D THEN "FT_DIRECTORY" ELSE "FT_REGULAR"
    <3>1. PICK d \in D : \E e \in Children(d) : x = <<d, e>>
      OBVIOUS
    <3> QED BY <2>1, <2>2, <3>1, ChildrenFacts
  <2>7. ASSUME NEW n \in ib, n # Root PROVE \E x \in links : x[2].i_no = n
    <3> DEFINE e == Ent(t, bl, up[n], place[n])
    <3>1. up[n] \in D /\ place[n] \in Used(t, bl, up[n]) \ Dots /\ e.i_no = n
      BY <2>4, <2>7 DEF Tree, TreeType, HomesRight
    <3>2. e \in Children(up[n])
      BY <2>1, <2>2, <3>1, ChildrenFacts
    <3> HIDE DEF e
    <3>3. <<up[n], e>> \in links
      BY <3>1, <3>2
    <3> QED BY <3>1, <3>3
  <2> HIDE DEF links
  <2>8. {x[2].i_no : x \in links} = ib \ {Root}
    BY <2>6, <2>7
  <2>9. \A x, y \in links : x[2].i_no = y[2].i_no => x = y
    BY <2>6
  <2>10. \A x, y \in links : x[1] = y[1] /\ x[2].filename = y[2].filename => x = y
    <3> SUFFICES ASSUME NEW x \in links, NEW y \in links, x[1] = y[1], x[2].filename = y[2].filename
                 PROVE  x = y
      OBVIOUS
    <3>1. Children(x[1]) = {Ent(t, bl, x[1], q) : q \in Used(t, bl, x[1]) \ Dots}
      BY <2>1, <2>2, <2>6, ChildrenFacts
    <3>2. PICK q \in Used(t, bl, x[1]), r \in Used(t, bl, x[1]) :
              x[2] = Ent(t, bl, x[1], q) /\ y[2] = Ent(t, bl, x[1], r)
      BY <2>6, <3>1
    <3>3. q = r
      BY <2>4, <2>6, <3>2 DEF Tree, NamesOnce
    <3> QED BY <2>6, <3>2, <3>3
  <2>11. Dot(Root, 1) = Entry("..", Root, "FT_DIRECTORY")
    BY <2>4, <2>5 DEF Tree, TreeType
  <2>12. \A x \in links : x[2].f_type = "FT_DIRECTORY" =>
             Dot(x[2].i_no, 1) = Entry("..", x[1], "FT_DIRECTORY")
    BY <2>5, <2>6
  <2> QED BY <2>3, <2>5, <2>8, <2>9, <2>10, <2>11, <2>12 DEF NamespaceSound, links
<1> QED BY <1>1, SpecTreeInv, PTL

(* i_size of a directory is the number of its entries, so a directory that *)
(* rmdir takes for empty is, and delete_dir_entry has given back every     *)
(* block whose last entry it took.                                         *)
THEOREM SizesCount == Usable => (CarefulSpec => []DirSizesExact)
<1>1. TreeInv => DirSizesExact
  <2> SUFFICES ASSUME TreeInv PROVE DirSizesExact
    OBVIOUS
  <2>1. IInv /\ Sound
    BY DEF TreeInv
  <2>2. PICK D, up, place, depth : InTree(D, up, place, depth)
    BY DEF TreeInv
  <2>3. Directories = D
    BY <2>1, <2>2, Reached
  <2>4. Tree(inodeBitmap, D, up, place, depth, inodeTable, blocks)
        /\ \A n : inode_at(n) = inodeTable[n]
    BY <2>1, <2>2, TreeFacts
  <2> SUFFICES ASSUME NEW d \in D
               PROVE  LET dir == inode_at(d)
                          used(k) == {j \in EntryIdx : EntryAt(dir, <<k, j>>).f_type # "FT_UNKNOWN"}
                          held == {k \in BlockIdx : dir.i_block[k] # NoBlock}
                      IN  /\ dir.i_size = Cardinality(UNION {{k} \X used(k) : k \in held})
                          /\ \A k \in held : used(k) # {}
    BY <2>3 DEF DirSizesExact
  <2> DEFINE U == Used(inodeTable, blocks, d)
             dir == inode_at(d)
             used(k) == {j \in EntryIdx : EntryAt(dir, <<k, j>>).f_type # "FT_UNKNOWN"}
             held == {k \in BlockIdx : dir.i_block[k] # NoBlock}
             places == UNION {{k} \X used(k) : k \in held}
  <2>5. \A k \in BlockIdx, j \in EntryIdx : <<k, j>> \in U <=> k \in held /\ j \in used(k)
    <3>1. \A k \in BlockIdx, j \in EntryIdx : <<k, j>> \in Positions
      BY DEF Positions
    <3> QED BY <2>4, <3>1 DEF Used, Has, Ent, At, EntryAt
  <2>6. U \subseteq places
    <3> SUFFICES ASSUME NEW q \in U PROVE q \in places
      OBVIOUS
    <3>1. q \in Positions
      BY DEF Used
    <3>2. q[1] \in BlockIdx /\ q[2] \in EntryIdx /\ q = <<q[1], q[2]>>
      BY <3>1, PositionParts
    <3> HIDE DEF U
    <3>3. q[1] \in held /\ q[2] \in used(q[1])
      BY <2>5, <3>2
    <3> HIDE DEF held, used
    <3>4. <<q[1], q[2]>> \in {q[1]} \X used(q[1])
      BY <3>3
    <3> QED BY <3>2, <3>3, <3>4
  <2>7. places \subseteq U
    <3> SUFFICES ASSUME NEW k \in held, NEW q \in {k} \X used(k) PROVE q \in U
      OBVIOUS
    <3>1. k \in BlockIdx /\ q = <<k, q[2]>> /\ q[2] \in used(k) /\ q[2] \in EntryIdx
      OBVIOUS
    <3> HIDE DEF U
    <3> QED BY <2>5, <3>1
  <2>8. inodeTable[d].i_size = Cardinality(U)
        /\ \A k \in BlockIdx : At(inodeTable, d, k) # NoBlock => \E j \in EntryIdx : <<k, j>> \in U
    BY <2>4 DEF Tree, SizesRight
  <2>9. \A k \in held : used(k) # {}
    BY <2>4, <2>5, <2>8 DEF At
  <2>10. places = U
    BY <2>6, <2>7
  <2> QED BY <2>4, <2>8, <2>9, <2>10
<1> QED BY <1>1, SpecTreeInv, PTL
=============================================================================
