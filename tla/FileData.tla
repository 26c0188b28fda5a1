------------------------------ MODULE FileData ------------------------------
(***************************************************************************)
(* file_write, file_read, sys_lseek and inode_release on one regular file, *)
(* byte by byte: which blocks a write takes and fills, what a read finds.  *)
(* Bytes are numbers that tell who wrote them where.                       *)
(*                                                                         *)
(* Bounds: a call that would run out of blocks is not made (it ends the    *)
(* process, see FileSystem.tla), nor a restart when the table's bit is not *)
(* on the disk.                                                            *)
(***************************************************************************)
EXTENDS BlockMap

CONSTANTS
    Fds,         \* descriptors that may be open on the file
    Counts,      \* byte counts of reads and writes
    TableCalls   \* whether calls are made that read the table at TableWord

ASSUME FileDataAssumption ==
    /\ Counts \subseteq 1 .. MaxBlocks * PerBlock
    /\ TableCalls \in BOOLEAN

VARIABLES
    slot,        \* the inode on the disk
    fd_pos,      \* position of each descriptor, -1 when closed
    round,       \* the file was created anew an odd number of times
    answer,      \* the last read: where it started, the bytes it gave
    gaveUp       \* history: a first write took a block and failed

fileVars == <<slot, fd_pos, round, answer, gaveUp>>

BlockSize == PerBlock
MaxSize == MaxBlocks * BlockSize
Positions == 0 .. MaxSize - 1
Byte(r, pos) == NumBlocks + 1 + r * MaxSize + pos    \* no address

NoAnswer == [from |-> 0, bytes |-> <<>>]
OpenFds == {d \in Fds : fd_pos[d] # -1}

-----------------------------------------------------------------------------
(* Definitions named _seeded hold a plausible bug: a property must see it. *)
FileInit ==
    /\ BlockMapInit({}, ZeroBlock)
    /\ inode = inode_init /\ slot = inode_init
    /\ fd_pos = [d \in Fds |-> -1] /\ round = 0
    /\ answer = NoAnswer /\ gaveUp = FALSE

sys_open(d) ==
    /\ fd_pos[d] = -1 /\ fd_pos' = [fd_pos EXCEPT ![d] = 0]
    /\ answer' = NoAnswer
    /\ UNCHANGED <<blockVars, slot, round, gaveUp>>

(* With the last descriptor goes the inode in core: the next open reads    *)
(* the slot.                                                               *)
sys_close(d) ==
    /\ d \in OpenFds /\ fd_pos' = [fd_pos EXCEPT ![d] = -1]
    /\ inode' = IF OpenFds = {d} THEN slot ELSE inode
    /\ answer' = NoAnswer
    /\ UNCHANGED <<used, diskBitmap, disk, foreign, slot, round, gaveUp>>

(* The new position lies in the file, whichever of the three ways it is    *)
(* named in.                                                               *)
sys_lseek(d) ==
    /\ d \in OpenFds
    /\ \E new_pos \in 0 .. inode.i_size - 1 : fd_pos' = [fd_pos EXCEPT ![d] = new_pos]
    /\ answer' = NoAnswer
    /\ UNCHANGED <<blockVars, slot, round, gaveUp>>

-----------------------------------------------------------------------------
(* file_write.                                                             *)

HasUsed == inode.i_size \div BlockSize + 1
WillUse(count) == (inode.i_size + count) \div BlockSize + 1
FirstWrite == inode.i_block[0] = 0
MakesTable(count) == HasUsed <= Direct /\ Direct < WillUse(count)

(* all_blocks, given the blocks it allocates and what malloc left there.   *)
Gathered(lba, junk) ==
    [k \in Places |-> IF k \in DOMAIN lba THEN lba[k]
                      ELSE IF k < Direct THEN inode.i_block[k]
                      ELSE IF HasTable THEN Table[k - Direct] ELSE junk]

(* What a block holds after the write: only the first one is read before.  *)
Filled_seeded(old, k, count) ==                 \* none is read
    [c \in Cells |-> LET pos == k * BlockSize + c IN
        IF pos \in inode.i_size .. inode.i_size + count - 1 THEN Byte(round, pos) ELSE 0]
Filled(old, k, count) ==
    [c \in Cells |-> LET pos == k * BlockSize + c IN
        IF pos \in inode.i_size .. inode.i_size + count - 1 THEN Byte(round, pos)
        ELSE IF k = inode.i_size \div BlockSize THEN old[c] ELSE 0]

(* The indexes of the blocks that are written, once file_write has them.   *)
Touched(count) == inode.i_size \div BlockSize .. (inode.i_size + count - 1) \div BlockSize

(* Every block allocated has its bit synced, but for the table's.          *)
WritesBitmap(new, first, table, taken) ==
    LET bits(J) == {new[j] : j \in J}
    IN  bitmap_sync(bitmap_sync(diskBitmap, used \cup bits(1 .. first), bits(1 .. first)),
                    used \cup bits(1 .. taken), bits(first + table + 1 .. taken))

file_write(d, count) ==
    LET first == IF FirstWrite THEN 1 ELSE 0
        table == IF MakesTable(count) THEN 1 ELSE 0
        added == HasUsed .. WillUse(count) - 1
        taken == first + table + Cardinality(added)
        new == FreeBlocks
    IN
    /\ d \in OpenFds
    /\ inode.i_size + count <= MaxSize /\ WillUse(count) <= MaxBlocks
    /\ taken <= Len(new)
    /\ \E junk \in Addresses :
        LET lba == [k \in added \cup (IF FirstWrite THEN {0} ELSE {}) |->
                       IF k = 0 THEN new[1] ELSE new[first + table + k - HasUsed + 1]]
            all_blocks == Gathered(lba, junk)
            place(b) == {k \in Touched(count) : all_blocks[k] = b}
            i_block == [k \in 0 .. Direct |->
                           IF k < Direct THEN all_blocks[k]
                           ELSE IF MakesTable(count) THEN new[first + 1] ELSE inode.i_block[k]]
            synced == IF WillUse(count) > Direct /\ added # {} THEN {i_block[Direct]} ELSE {}
        IN
        /\ junk # 0 => MakesTable(count)
        /\ inode' = [i_size |-> inode.i_size + count, i_block |-> i_block]
        /\ slot' = inode'
        /\ used' = used \cup {new[j] : j \in 1 .. taken}
        /\ diskBitmap' = WritesBitmap(new, first, table, taken)
        /\ disk' = [b \in Blocks |->
              IF place(b) # {} THEN Filled(disk[b], CHOOSE k \in place(b) : TRUE, count)
              ELSE IF b \in synced THEN [c \in Cells |-> all_blocks[Direct + c]]
              ELSE disk[b]]
        /\ fd_pos' = [fd_pos EXCEPT ![d] = inode.i_size + count - 1]
        /\ answer' = NoAnswer
        /\ UNCHANGED <<foreign, round, gaveUp>>

(* The limit on blocks is seen only after the first one was allocated; the *)
(* inode in core has it, the slot does not.                                *)
file_write_gives_up(d, count) ==
    /\ d \in OpenFds
    /\ FirstWrite /\ FreeBlocks # <<>>
    /\ inode.i_size + count <= MaxSize /\ WillUse(count) > MaxBlocks
    /\ inode' = [inode EXCEPT !.i_block[0] = Head(FreeBlocks)]
    /\ used' = used \cup {Head(FreeBlocks)}
    /\ diskBitmap' = bitmap_sync(diskBitmap, used', {Head(FreeBlocks)})
    /\ gaveUp' = TRUE
    /\ answer' = NoAnswer
    /\ UNCHANGED <<disk, foreign, slot, fd_pos, round>>

-----------------------------------------------------------------------------
(* file_read: no answer at the end of the file, nor for a range that       *)
(* reaches the last index of all_blocks.                                   *)

Within(d, count) ==
    IF fd_pos[d] + count > inode.i_size THEN inode.i_size - fd_pos[d] ELSE count

ReadBlocks(end, junk) ==
    IF end < Direct THEN DirectBlocks(0) ELSE ReadTable(DirectBlocks(junk), TableWord)

file_read(d, count) ==
    LET size == Within(d, count)
        end == (fd_pos[d] + size) \div BlockSize
    IN
    /\ d \in OpenFds
    /\ size > 0
    /\ end < MaxBlocks - 1
    /\ end < Direct \/ TableCalls
    /\ \E junk \in Addresses :
        LET all_blocks == ReadBlocks(end, junk)
            byte(pos) == LET b == all_blocks[pos \div BlockSize] IN
                         IF b = 0 THEN -1 ELSE disk[b][pos % BlockSize]
        IN  /\ end < Direct => junk = 0
            /\ answer' = [from |-> fd_pos[d],
                          bytes |-> [j \in 1 .. size |-> byte(fd_pos[d] + j - 1)]]
    /\ fd_pos' = [fd_pos EXCEPT ![d] = @ + size]
    /\ UNCHANGED <<blockVars, slot, round, gaveUp>>

-----------------------------------------------------------------------------
inode_release_seeded == {slot.i_block[0]} \ {0}   \* only the first block
inode_release ==
    LET all_blocks == IF HasTable THEN ReadTable(DirectBlocks(0), TableWord) ELSE DirectBlocks(0)
    IN  ({all_blocks[k] : k \in Places} \cup {inode.i_block[Direct]}) \ {0}

(* sys_unlink, then sys_open with O_CREAT of the name.                     *)
sys_unlink ==
    /\ OpenFds = {}
    /\ ~HasTable \/ TableCalls
    /\ used' = used \ inode_release
    /\ diskBitmap' = bitmap_sync(diskBitmap, used', inode_release)
    /\ inode' = inode_init /\ slot' = inode_init
    /\ round' = 1 - round
    /\ answer' = NoAnswer
    /\ UNCHANGED <<disk, foreign, fd_pos, gaveUp>>

(* The process ends between two calls, the next one mounts the partition   *)
(* and opens the file anew.                                                *)
mount_partition ==
    /\ diskBitmap = used
    /\ inode' = slot
    /\ fd_pos' = [d \in Fds |-> -1]
    /\ answer' = NoAnswer
    /\ UNCHANGED <<used, diskBitmap, disk, foreign, slot, round, gaveUp>>

FileNext ==
    \/ \E d \in Fds : sys_open(d) \/ sys_close(d) \/ sys_lseek(d)
    \/ \E d \in Fds, count \in Counts :
          file_write(d, count) \/ file_write_gives_up(d, count) \/ file_read(d, count)
    \/ sys_unlink \/ mount_partition

-----------------------------------------------------------------------------
BlockOf(k) == IF k < Direct THEN inode.i_block[k] ELSE Table[k - Direct]
Content == [j \in 1 .. inode.i_size |-> disk[BlockOf((j - 1) \div BlockSize)][(j - 1) % BlockSize]]

(* The blocks of the file: those up to its last byte and the one after it, *)
(* and the table.                                                          *)
Held == IF FirstWrite THEN <<>>
        ELSE [k \in 1 .. HasUsed |-> BlockOf(k - 1)] \o (IF HasTable THEN <<inode.i_block[Direct]>>
                                                                      ELSE <<>>)

(* file_write takes exactly the blocks that the file then reaches, each    *)
(* for one purpose, and the file keeps them until it is removed: none is   *)
(* free, shared or, but for a first write that gave up, lost.              *)
FileBlocksExact ==
    /\ \A j, k \in DOMAIN Held : Held[j] = Held[k] => j = k
    /\ \A k \in DOMAIN Held : Held[k] \in used \ foreign
    /\ gaveUp \/ used = foreign \cup {Held[k] : k \in DOMAIN Held}

(* file.cpp:501: the bit of the table's block is set in memory only.  It   *)
(* is on the disk whenever a block that the table leads to has its bit in  *)
(* the same sector; of all other blocks the bitmap on disk is exact.       *)
OnlyTableBitLate ==
    LET late == used \ diskBitmap IN
    /\ diskBitmap \subseteq used
    /\ late # {} =>
        /\ late = {inode.i_block[Direct]}
        /\ \A k \in Direct .. HasUsed - 1 :
              BlockOf(k) \div BitsPerSector # inode.i_block[Direct] \div BitsPerSector

(* file.cpp:320 says that the table is read "to behind the place of the    *)
(* 13th block", for the blocks of a read to be found there: a read gives   *)
(* the bytes that the file holds from its position on.                     *)
ReadsExact ==
    answer.bytes = SubSeq(Content, answer.from + 1, answer.from + Len(answer.bytes))
=============================================================================
