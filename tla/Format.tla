------------------------------- MODULE Format -------------------------------
(***************************************************************************)
(* Start-up: create_disk and create_partitions (disk.cpp), fs_init, which  *)
(* formats every partition without a magic number and mounts one, and the  *)
(* layout that partition_format computes (fs.cpp).  The process may die    *)
(* between any two writes.                                                 *)
(*                                                                         *)
(* Sectors are numbered on the disk, blocks and bits on the partition.     *)
(* Bounds: no more than MaxPartitions, and sizes from SectorCounts; whole  *)
(* megabytes (main.cpp:35) leave room for the tables of a partition.       *)
(***************************************************************************)
EXTENDS Integers, Sequences, FiniteSets

CONSTANTS
    BLOCK_SIZE,        \* bytes of a block, and of a sector: 512
    ByteBits,          \* 8
    InodeBitmapLbc,    \* blocks of the inode bitmap
    InodeTableLbc,     \* blocks of the inode table
    FirstSector,       \* of the first partition, 1024
    MinSectors,        \* of a partition, 5
    SectorCounts, MaxPartitions,
    Remains            \* bits of the root directory's block in the buffer

BITS_PER_SECTOR == BLOCK_SIZE * ByteBits
UsedLbc == 2 + InodeBitmapLbc + InodeTableLbc

ASSUME FormatAssumption ==
    /\ BLOCK_SIZE \in Nat \ {0} /\ ByteBits \in Nat \ {0}
    /\ InodeBitmapLbc \in Nat \ {0} /\ InodeTableLbc \in Nat \ {0}
    /\ FirstSector \in Nat \ {0} /\ MinSectors \in Nat \ {0} /\ MaxPartitions \in Nat \ {0}
    /\ SectorCounts \subseteq Nat
    /\ \A c \in SectorCounts : c < MinSectors \/ c > UsedLbc + ByteBits
    /\ Remains \subseteq 0 .. BITS_PER_SECTOR - 1

Parts == <<"super block", "block bitmap", "inode bitmap", "inode table", "root">>

VARIABLES
    partitions,        \* sequence of [start_sector_no, sector_count]
    written,           \* parts that each partition has on disk
    bits,              \* its block bitmap on disk, the bits that are set
    at,                \* partition that fs_init looks at, 0 before it runs
    done,              \* writes partition_format has made to it
    dirtyBuffer,       \* this process formatted a partition before
    mounted,           \* the partition mounted, 0 when none
    interrupted        \* history: partitions whose format was cut short

vars == <<partitions, written, bits, at, done, dirtyBuffer, mounted, interrupted>>

Numbers == 1 .. MaxPartitions
DIV_ROUND_UP(x, step) == (x + step - 1) \div step

-----------------------------------------------------------------------------
(* The arithmetic of partition_format.  Definitions named _seeded hold a   *)
(* plausible bug.                                                          *)

FreeLbc(dp) ==
    LET rest == dp.sector_count - UsedLbc
    IN  rest - DIV_ROUND_UP(rest, BITS_PER_SECTOR)

\* A root directory has two entries, that is 48 bytes with bits in them; a
\* partition of a megabyte has more blocks than these are bits.
ASSUME RemainsAssumption ==
    \A c \in SectorCounts : c < MinSectors \/
        \A b \in Remains \cup {ByteBits - 1} : b < FreeLbc([sector_count |-> c])

Layout_seeded(dp) ==                            \* the inode bitmap has no room
    LET start == dp.start_sector_no
        lbc == DIV_ROUND_UP(FreeLbc(dp), BITS_PER_SECTOR)
    IN  [block_bitmap_lba |-> start + 2, block_bitmap_lbc |-> lbc,
         inode_bitmap_lba |-> start + 2 + lbc,
         inode_table_lba |-> start + 2 + lbc,
         data_start_lba |-> start + 2 + lbc + InodeTableLbc]
Layout(dp) ==
    LET start == dp.start_sector_no
        lbc == DIV_ROUND_UP(FreeLbc(dp), BITS_PER_SECTOR)
    IN  [block_bitmap_lba |-> start + 2, block_bitmap_lbc |-> lbc,
         inode_bitmap_lba |-> start + 2 + lbc,
         inode_table_lba |-> start + 2 + lbc + InodeBitmapLbc,
         data_start_lba |-> start + 2 + lbc + InodeBitmapLbc + InodeTableLbc]

LastByte(dp) == FreeLbc(dp) \div ByteBits       \* of the bitmap, as the code has it
LastSize(dp) == BLOCK_SIZE - (LastByte(dp) % BLOCK_SIZE)

(* The block bitmap, over what malloc left in the buffer and from whatever *)
(* bit_idx is on, which has no initial value.                              *)
Marked_seeded(dp, buf, bit_idx) == buf          \* the root's block is free
Marked(dp, buf, bit_idx) ==
    LET filled == ByteBits * LastSize(dp) .. 2 * ByteBits * LastSize(dp) - 1
        cleared == {ByteBits * LastByte(dp) + k : k \in bit_idx .. (FreeLbc(dp) % ByteBits)}
    IN  ((buf \cup {0} \cup filled) \ cleared)
            \cap (0 .. Layout(dp).block_bitmap_lbc * BITS_PER_SECTOR - 1)

-----------------------------------------------------------------------------
Init ==
    /\ partitions = <<>>
    /\ written = [i \in Numbers |-> {}] /\ bits = [i \in Numbers |-> {}]
    /\ at = 0 /\ done = 0 /\ dirtyBuffer = FALSE /\ mounted = 0
    /\ interrupted = {}

(* main with -i: create_disk empties the disk; create_partitions writes    *)
(* its table unless one of the partitions is too small.                    *)
create_partitions(counts) ==
    LET start[i \in 1 .. Len(counts)] ==
            IF i = 1 THEN FirstSector ELSE start[i - 1] + counts[i - 1]
    IN
    /\ at = 0
    /\ partitions' = IF \E i \in DOMAIN counts : counts[i] < MinSectors THEN <<>>
                     ELSE [i \in DOMAIN counts |->
                              [start_sector_no |-> start[i], sector_count |-> counts[i]]]
    /\ written' = [i \in Numbers |-> {}] /\ bits' = [i \in Numbers |-> {}]
    /\ interrupted' = {}
    /\ UNCHANGED <<at, done, dirtyBuffer, mounted>>

fs_init ==
    /\ at = 0 /\ at' = 1
    /\ UNCHANGED <<partitions, written, bits, done, dirtyBuffer, mounted, interrupted>>

HasFilesystem(i) == "super block" \in written[i]

(* One write of partition_format, the super block's with the magic number  *)
(* first.                                                                  *)
partition_format_seeded ==                      \* the root directory is left out
    /\ at \in DOMAIN partitions
    /\ done > 0 \/ ~HasFilesystem(at)
    /\ written' = [written EXCEPT ![at] = @ \cup {Parts[done + 1]}]
    /\ done' = (done + 1) % 4
    /\ at' = IF done' = 0 THEN at + 1 ELSE at
    /\ UNCHANGED <<partitions, bits, dirtyBuffer, mounted, interrupted>>
partition_format ==
    /\ at \in DOMAIN partitions
    /\ done > 0 \/ ~HasFilesystem(at)
    /\ written' = [written EXCEPT ![at] = @ \cup {Parts[done + 1]}]
    /\ IF Parts[done + 1] = "block bitmap"
       THEN \E buf \in {{}} \cup (IF dirtyBuffer THEN {Remains} ELSE {}), bit_idx \in 0 .. ByteBits :
                bits' = [bits EXCEPT ![at] = Marked(partitions[at], buf, bit_idx)]
       ELSE UNCHANGED bits
    /\ done' = (done + 1) % Len(Parts)
    /\ at' = IF done' = 0 THEN at + 1 ELSE at
    /\ dirtyBuffer' = (dirtyBuffer \/ done' = 0)
    /\ UNCHANGED <<partitions, mounted, interrupted>>

passes_over ==
    /\ at \in DOMAIN partitions
    /\ done = 0 /\ HasFilesystem(at)
    /\ at' = at + 1
    /\ UNCHANGED <<partitions, written, bits, done, dirtyBuffer, mounted, interrupted>>

mount_partition ==
    /\ at = Len(partitions) + 1 /\ mounted = 0
    /\ mounted' \in DOMAIN partitions
    /\ UNCHANGED <<partitions, written, bits, at, done, dirtyBuffer, interrupted>>

(* The process ends, or dies.                                              *)
Ends ==
    /\ at # 0
    /\ interrupted' = interrupted \cup (IF done # 0 THEN {at} ELSE {})
    /\ at' = 0 /\ done' = 0 /\ dirtyBuffer' = FALSE /\ mounted' = 0
    /\ UNCHANGED <<partitions, written, bits>>

CountSeqs == UNION {[1 .. n -> SectorCounts] : n \in Numbers}

Next ==
    \/ \E counts \in CountSeqs : create_partitions(counts)
    \/ fs_init \/ partition_format \/ passes_over \/ mount_partition \/ Ends

Spec == Init /\ [][Next]_vars

-----------------------------------------------------------------------------
Formatted == {i \in DOMAIN partitions : "block bitmap" \in written[i]}
EndLba(i) == partitions[i].start_sector_no + partitions[i].sector_count

(* The tables and the data area of a partition follow one another without  *)
(* overlap, end inside the partition, and stay off every other one; the    *)
(* block bitmap has a bit for every block it is computed for.              *)
RegionsApart ==
    \A i \in Formatted :
        LET dp == partitions[i]
            sb == Layout(dp)
        IN  /\ dp.start_sector_no >= FirstSector
            /\ sb.inode_bitmap_lba >= sb.block_bitmap_lba + sb.block_bitmap_lbc
            /\ sb.inode_table_lba >= sb.inode_bitmap_lba + InodeBitmapLbc
            /\ sb.data_start_lba >= sb.inode_table_lba + InodeTableLbc
            /\ sb.data_start_lba + FreeLbc(dp) <= EndLba(i)
            /\ sb.block_bitmap_lbc * BITS_PER_SECTOR >= FreeLbc(dp)
            /\ \A j \in DOMAIN partitions : EndLba(i) <= partitions[j].start_sector_no
                                            \/ EndLba(j) <= dp.start_sector_no \/ i = j

(* What fs.cpp:149-153 says of the block bitmap: the bits behind the last  *)
(* block are set, all others but the root directory's are not.             *)
TailMarked ==
    \A i \in Formatted :
        LET dp == partitions[i]
        IN  bits[i] = {0} \cup (FreeLbc(dp) .. Layout(dp).block_bitmap_lbc * BITS_PER_SECTOR - 1)

(* What becomes of it: the fill starts at byte last_size of the bitmap.    *)
(* There it marks blocks that exist and that nobody will ever have         *)
(* (Premarked in FileSystem.tla).  It reaches all that is behind the last  *)
(* block only when nothing is, or the last byte is in the middle of the    *)
(* first sector or starts the second; else blocks behind the partition may *)
(* be allocated.  The root directory's block is always marked.             *)
Phantoms(i) ==
    (FreeLbc(partitions[i]) .. Layout(partitions[i]).block_bitmap_lbc * BITS_PER_SECTOR - 1)
        \ bits[i]
TailMarkedByChance ==
    \A i \in Formatted :
        LET dp == partitions[i]
            start == ByteBits * LastSize(dp)
        IN  /\ 0 \in bits[i]
            /\ \A b \in start .. 2 * start - 1 : b < ByteBits * LastByte(dp) => b \in bits[i]
            /\ FreeLbc(dp) % BITS_PER_SECTOR = 0 => Phantoms(i) = {}
            /\ Phantoms(i) = {} => \/ FreeLbc(dp) % BITS_PER_SECTOR = 0
                                  \/ 2 * LastByte(dp) = BLOCK_SIZE
                                  \/ LastByte(dp) = BLOCK_SIZE

(* fs.cpp:243: fs_init takes a partition with the magic number for one     *)
(* with a file system.  It has all of it unless an earlier process died in *)
(* partition_format, and then no later one completes it.                   *)
MagicMeansWhole ==
    \A i \in DOMAIN partitions :
        HasFilesystem(i) /\ ~(at = i /\ done # 0) =>
            (i \in interrupted <=> \E k \in DOMAIN Parts : Parts[k] \notin written[i])
=============================================================================
