------------------------------ MODULE DirData ------------------------------
(***************************************************************************)
(* A directory that may outgrow its direct blocks: sync_dir_entry,         *)
(* search_dir_entry, delete_dir_entry and dir_read on all its blocks.      *)
(*                                                                         *)
(* An entry is a number that stands for its name and its inode.  Bounds: a *)
(* call that would run out of blocks is not made (it ends the process),    *)
(* nor a removal from an indirect block: such a block never gets a second  *)
(* entry, and the loop at dir.cpp:345 that would give it back never ends;  *)
(* nor a removal of what is found by chance (see search_dir_entry).        *)
(***************************************************************************)
EXTENDS BlockMap

CONSTANT DirNames          \* entries other than "." and ".."

Dot == -2
DotDot == -3
Unused == 0                \* FT_UNKNOWN

ASSUME DirDataAssumption == DirNames \subseteq Int \ (-3 .. NumBlocks)

VARIABLES
    entered,     \* history: the names entered and not removed since
    spoiled      \* history: the directory outgrew what its table is kept for

dirVars == <<entered, spoiled>>

DotBlock == [c \in Cells |-> IF c = 0 THEN Dot ELSE IF c = 1 THEN DotDot ELSE Unused]

(* What delete_dir_entry, dir_read and inode_release gather.               *)
Collected == IF HasTable THEN ReadTable(DirectBlocks(0), TableWord) ELSE DirectBlocks(0)

(* dir_create left a directory with one block.                             *)
DirInit ==
    /\ BlockMapInit({1}, DotBlock)
    /\ inode = [i_size |-> 2, i_block |-> [inode_init.i_block EXCEPT ![0] = 1]]
    /\ entered = {} /\ spoiled = FALSE

(* search_dir_entry does the same in memory that it does not clear, and    *)
(* looks into all places: rest is what malloc left there, the address of   *)
(* any block or 0.  All words alike find what each of them does.           *)
Searched(rest) ==
    IF HasTable THEN ReadTable(DirectBlocks(rest), TableWord) ELSE DirectBlocks(rest)

search_dir_entry(rest) ==
    LET all_blocks == Searched(rest)
    IN  {disk[all_blocks[k]][c] : k \in {j \in Places : all_blocks[j] # 0}, c \in Cells}
            \cap DirNames

-----------------------------------------------------------------------------
(* sync_dir_entry.                                                         *)

Vacant(b) == {c \in Cells : disk[b][c] = Unused}
OnlyEntry(n) == [ZeroBlock EXCEPT ![0] = n]

(* The table is not read: the places behind the direct ones look free.     *)
Seen == DirectBlocks(0)
PlaceFor == Smallest({k \in Places : Seen[k] = 0 \/ Vacant(Seen[k]) # {}})

EntersBlock(n) ==                               \* a block has an unused entry
    LET b == Seen[PlaceFor] IN
    /\ b # 0
    /\ disk' = [disk EXCEPT ![b][Smallest(Vacant(b))] = n]
    /\ inode' = [inode EXCEPT !.i_size = @ + 1]
    /\ UNCHANGED <<used, diskBitmap, spoiled>>

EntersDirect(n) ==                              \* a new direct block
    LET b == Head(FreeBlocks) IN
    /\ Seen[PlaceFor] = 0 /\ PlaceFor < Direct /\ FreeBlocks # <<>>
    /\ used' = used \cup {b} /\ diskBitmap' = bitmap_sync(diskBitmap, used', {b})
    /\ disk' = [disk EXCEPT ![b] = OnlyEntry(n)]
    /\ inode' = [inode EXCEPT !.i_size = @ + 1, !.i_block[PlaceFor] = b]
    /\ UNCHANGED spoiled

(* A table and a block, whatever table there was; the table gets what      *)
(* stands in all_blocks from TableWord on.                                 *)
TableOf_seeded(b) == [c \in Cells |-> IF c = 0 THEN b ELSE 0]    \* from place Direct on
TableOf(b) == [c \in Cells |-> IF TableWord + c = Direct THEN b ELSE Seen[TableWord + c]]

EntersIndirect(n) ==
    LET table == FreeBlocks[1]
        b == FreeBlocks[2]
    IN
    /\ Seen[PlaceFor] = 0 /\ PlaceFor = Direct /\ Len(FreeBlocks) >= 2
    /\ used' = used \cup {table, b}
    /\ diskBitmap' = bitmap_sync(bitmap_sync(diskBitmap, used \cup {table}, {table}), used', {b})
    /\ disk' = [disk EXCEPT ![table] = TableOf(b), ![b] = OnlyEntry(n)]
    /\ inode' = [inode EXCEPT !.i_size = @ + 1, !.i_block[Direct] = table]
    /\ spoiled' = (spoiled \/ HasTable)

(* Only called for a name that search_dir_entry does not find.             *)
sync_dir_entry(n) ==
    /\ \E rest \in Addresses : n \notin search_dir_entry(rest)
    /\ EntersBlock(n) \/ EntersDirect(n) \/ EntersIndirect(n)
    /\ entered' = entered \cup {n}
    /\ UNCHANGED foreign

-----------------------------------------------------------------------------
(* delete_dir_entry, for an entry that search_dir_entry finds.  The last   *)
(* entry of a block other than the first gives the block back.             *)

Holds(b, n) == {c \in Cells : disk[b][c] = n}
Reclaims(b, n) == \A c \in Cells : disk[b][c] # Dot /\ (disk[b][c] \in DirNames => disk[b][c] = n)

delete_dir_entry(n) ==
    LET all_blocks == Collected
        found == {k \in Places : all_blocks[k] # 0 /\ Holds(all_blocks[k], n) # {}}
        k == Smallest(found)
        b == all_blocks[k]
    IN
    /\ n \in search_dir_entry(0)
    /\ k < Direct
    /\ Cardinality(Holds(b, n)) = 1
    /\ IF Reclaims(b, n)
       THEN /\ used' = used \ {b} /\ diskBitmap' = bitmap_sync(diskBitmap, used', {b})
            /\ inode' = [inode EXCEPT !.i_size = @ - 1, !.i_block[k] = 0]
            /\ spoiled' = (spoiled \/ HasTable)
            /\ UNCHANGED disk
       ELSE /\ disk' = [disk EXCEPT ![b] = [c \in Cells |-> IF @[c] = n THEN Unused ELSE @[c]]]
            /\ inode' = [inode EXCEPT !.i_size = @ - 1]
            /\ UNCHANGED <<used, diskBitmap, spoiled>>
    /\ entered' = entered \ {n}
    /\ UNCHANGED foreign

DirNext == \E n \in DirNames : sync_dir_entry(n) \/ delete_dir_entry(n)

-----------------------------------------------------------------------------
(* dir_read lists the entries in the order of their blocks, as many as     *)
(* i_size says.                                                            *)
Listed == {x \in Places \X Cells : Collected[x[1]] # 0 /\ disk[Collected[x[1]]][x[2]] # Unused}

(* The directory finds all names entered and not removed, whatever memory  *)
(* search_dir_entry gets, and no other ones in cleared memory; it lists    *)
(* and counts exactly these.  It does so through all direct blocks and the *)
(* first indirect one: the table is written and read at the same wrong     *)
(* place (dir.cpp:52, 210), which makes one block of it work.  With a      *)
(* table, one more block or one given back ends that (dir.cpp:189).        *)
DirectoryExact ==
    ~spoiled => /\ search_dir_entry(0) = entered
                /\ \A rest \in Addresses : entered \subseteq search_dir_entry(rest)
                /\ inode.i_size = Cardinality(entered) + 2
                /\ Cardinality(Listed) = inode.i_size

(* A directory keeps its blocks marked, each for itself; all of them are   *)
(* reached when it is removed or read, so that none is lost.  The bitmap   *)
(* on disk says the same.                                                  *)
DirBlocksExact ==
    LET K == {k \in Places : Collected[k] # 0}
        held == {Collected[k] : k \in K} \cup ({inode.i_block[Direct]} \ {0})
    IN  ~spoiled => /\ Cardinality(held) = Cardinality(K) + IF HasTable THEN 1 ELSE 0
                    /\ used = foreign \cup held
                    /\ diskBitmap = used
=============================================================================
