------------------------------ MODULE BlockMap ------------------------------
(***************************************************************************)
(* How an inode reaches its blocks: Direct addresses in the inode and, in  *)
(* the block that i_block[Direct] names, a table of further ones.  Every   *)
(* routine that needs a block first gathers the addresses in an array      *)
(* all_blocks.  FileData.tla and DirData.tla use it.                       *)
(*                                                                         *)
(* A block is a function on Cells: bytes of a file, entries of a directory *)
(* or addresses of a table.  Addresses are numbers, 0 is none.             *)
(***************************************************************************)
EXTENDS Integers, Sequences, FiniteSets

CONSTANTS
    NumBlocks,   \* blocks of the data area behind the root directory's
    Direct,      \* direct blocks, 12
    PerBlock,    \* cells of a block: 512 bytes, 21 entries, 128 addresses
    BitsPerSector, \* bits of the bitmap that one sector holds, 4096
    TableWord,   \* the place that (char*)all_blocks + 12 is: 12 bytes, 3
    Others       \* bound: blocks that other files may have

ASSUME BlockMapAssumption ==
    /\ NumBlocks \in Nat \ {0} /\ Direct \in Nat \ {0} /\ PerBlock \in Nat \ {0}
    /\ BitsPerSector \in Nat \ {0}
    /\ TableWord \in 1 .. Direct - 1
    /\ Others \in SUBSET (1 .. NumBlocks)

VARIABLES
    inode,       \* the one in core: i_size, i_block
    used,        \* block bitmap in memory
    diskBitmap,  \* and on the disk
    disk,        \* the blocks
    foreign      \* blocks of other files

blockVars == <<inode, used, diskBitmap, disk, foreign>>

Blocks == 1 .. NumBlocks
Addresses == 0 .. NumBlocks
Cells == 0 .. PerBlock - 1
MaxBlocks == Direct + PerBlock            \* 140
Places == 0 .. MaxBlocks - 1              \* of all_blocks

inode_init == [i_size |-> 0, i_block |-> [k \in 0 .. Direct |-> 0]]
ZeroBlock == [c \in Cells |-> 0]
ForeignBlock == [c \in Cells |-> -1]      \* data of somebody else

Smallest(S) == CHOOSE x \in S : \A y \in S : x <= y

(* What successive calls of block_bitmap_alloc give.                       *)
FreeBlocks_seeded ==                            \* further ones without a look
    LET free == Blocks \ used
    IN  [j \in 1 .. Cardinality(free) |-> Smallest(free) + j - 1]
FreeBlocks ==
    LET free == Blocks \ used
    IN  [j \in 1 .. Cardinality(free) |->
            CHOOSE b \in free : Cardinality({x \in free : x < b}) = j - 1]

(* The sectors that hold the bits of S go to the disk as they are.         *)
bitmap_sync_seeded(old, mem, S) == old \cup (mem \cap S)   \* only sets bits
bitmap_sync(old, mem, S) ==
    {b \in Blocks : IF \E x \in S : x \div BitsPerSector = b \div BitsPerSector
                    THEN b \in mem ELSE b \in old}

HasTable == inode.i_block[Direct] # 0
Table == disk[inode.i_block[Direct]]

(* all_blocks, rest in the places beyond the direct ones.                  *)
DirectBlocks(rest) == [k \in Places |-> IF k < Direct THEN inode.i_block[k] ELSE rest]

(* The table is read into all_blocks from place at on.                     *)
ReadTable(all_blocks, at) ==
    [k \in Places |-> IF k - at \in Cells THEN Table[k - at] ELSE all_blocks[k]]

(* A disk with own blocks of the inode, which read as image, and others.   *)
BlockMapInit(own, image) ==
    /\ foreign \in SUBSET (Others \ own)
    /\ used = foreign \cup own /\ diskBitmap = used
    /\ disk = [b \in Blocks |-> IF b \in foreign THEN ForeignBlock
                               ELSE IF b \in own THEN image ELSE ZeroBlock]

(* Other files keep their blocks and what is in them.                      *)
OthersUntouched == \A b \in foreign : b \in used /\ disk[b] = ForeignBlock
=============================================================================
