----------------------------- MODULE DiskWrites -----------------------------
(***************************************************************************)
(* The calls of FileSystem.tla write by write.  A call computes in memory  *)
(* and writes block bitmap, directory blocks, inodes and inode bitmap one  *)
(* after the other; the process may die between any two of these writes,   *)
(* and the next one mounts what is on the disk by then.                    *)
(*                                                                         *)
(* The variables of FileSystem hold what the call in progress leads to;    *)
(* disk is the virtual disk now, pending the writes the call still makes.  *)
(* Bound: nothing but a restart follows a death that left the partition    *)
(* unsafe.                                                                 *)
(***************************************************************************)
EXTENDS FileSystem

CONSTANT MaxCrashes        \* bound: deaths in the middle of a call

ASSUME CrashesAssumption == MaxCrashes \in Nat

VARIABLES
    disk,
    pending,               \* sequence of [part, at, value]
    crashes,
    unsafe                 \* history: a call died in a window of Exposed

diskVars == <<disk, pending, crashes, unsafe>>

EndOfCall == [inodeBitmap |-> diskInodeBitmap, blockBitmap |-> diskBlockBitmap,
              inodeTable |-> inodeTable, blocks |-> blocks]

(* The partition as mount_partition would find it now.                     *)
Mounted == INSTANCE FileSystem WITH
    inodeBitmap <- disk.inodeBitmap, diskInodeBitmap <- disk.inodeBitmap,
    blockBitmap <- disk.blockBitmap, diskBlockBitmap <- disk.blockBitmap,
    inodeTable <- disk.inodeTable, blocks <- disk.blocks,
    contents <- [a \in OF!Addrs |-> IF a = OF!RootAddr THEN disk.inodeTable[Root] ELSE ZeroInode],
    open_inodes <- OF!OnlyRoot, fileTable <- [s \in OF!Slots |-> NULL],
    fdTable <- [f \in OF!Fds |-> -1], leaked <- [a \in OF!Addrs |-> 0], diedMidCall <- FALSE

-----------------------------------------------------------------------------
(* One write: an inode, a block, or the sector of a bitmap that holds bit  *)
(* number at, as the bitmap stands in memory by then.                      *)

Write(part, at, value) == [part |-> part, at |-> at, value |-> value]

write_blocks_to_disk(d, w) ==
    IF w.part \in {"inodeBitmap", "blockBitmap"}
    THEN [d EXCEPT ![w.part] = bitmap_sync(w.value, @, {w.at})]
    ELSE [d EXCEPT ![w.part][w.at] = w.value]

(* The members of a set of numbers, in increasing order.                   *)
Increasing(S) == CHOOSE s \in [1 .. Cardinality(S) -> S] :
                     \A i, j \in DOMAIN s : i < j => s[i] < s[j]

(* The writes of the call that this step decides, hence the primes.        *)
SyncInode(n) == Write("inodeTable", n, inodeTable'[n])
WriteBlock(b) == Write("blocks", b, blocks'[b])

(* bitmap_sync for the block bits in s, that change in this order.         *)
SyncBlockBits(s, mem) == [j \in DOMAIN s |->
    Write("blockBitmap", s[j],
          {b \in Blocks : IF \E i \in 1 .. j : s[i] = b THEN b \notin mem ELSE b \in mem})]

-----------------------------------------------------------------------------
(* The writes of each call, in order.                                      *)

EnterWrites_seeded(d, n, b) ==                  \* the directory before its block
    <<SyncInode(d), WriteBlock(b), SyncInode(n), Write("inodeBitmap", n, inodeBitmap')>>

(* sync_dir_entry once it has its block, and what file_create and          *)
(* sys_mkdir do after it.                                                  *)
EnterWrites(d, n, b) ==
    <<WriteBlock(b), SyncInode(d), SyncInode(n), Write("inodeBitmap", n, inodeBitmap')>>

(* The block of "." and "..", if any, comes before one for the directory.  *)
CreationWrites(d) ==
    LET n == CHOOSE x \in Inodes : x \in inodeBitmap' \ inodeBitmap
        b == inodeTable'[d].i_block[First(Vacant(inode_at(d)))[1]]
        own == {inodeTable'[n].i_block[k] : k \in BlockIdx} \ {NoBlock}
        dots == Increasing(own)
        grown == Increasing((blockBitmap' \ blockBitmap) \ own)
    IN  SyncBlockBits(dots, blockBitmap) \o [j \in DOMAIN dots |-> WriteBlock(dots[j])]
            \o SyncBlockBits(grown, blockBitmap \cup own) \o EnterWrites(d, n, b)

(* file_write: the blocks it allocates, the data, the inode.               *)
WritingWrites(i, count) ==
    LET touched == Increasing(Touched(i, count))
    IN  SyncBlockBits(Increasing(blockBitmap' \ blockBitmap), blockBitmap)
            \o [j \in DOMAIN touched |-> WriteBlock(inodeTable'[i.i_no].i_block[touched[j]])]
            \o <<SyncInode(i.i_no)>>

(* inode_release: its blocks by index, the inode bit, the slot.            *)
ReleaseWrites(n, own, mem) ==
    SyncBlockBits(own, mem)
        \o <<Write("inodeBitmap", n, inodeBitmap'), Write("inodeTable", n, ZeroInode)>>

UnlinkWrites_seeded(d, n) ==                    \* the inode before the entry
    LET dir == inode_at(d)
        pos == First(EntriesOf(dir, n))
        b == dir.i_block[pos[1]]
    IN  <<SyncInode(d)>> \o
            (IF Reclaims(b, pos[2]) THEN SyncBlockBits(<<b>>, blockBitmap) ELSE <<WriteBlock(b)>>)
UnlinkWrites_seeded_short(d, n) == <<WriteBlock(inode_at(d).i_block[0])>>

(* delete_dir_entry: the bit of a block it gives back, or the entry; then  *)
(* the directory's inode.                                                  *)
UnlinkWrites(d, n) ==
    LET dir == inode_at(d)
        pos == First(EntriesOf(dir, n))
        b == dir.i_block[pos[1]]
    IN  (IF Reclaims(b, pos[2]) THEN SyncBlockBits(<<b>>, blockBitmap) ELSE <<WriteBlock(b)>>)
            \o <<SyncInode(d)>>

RemovalWrites(d, n) ==
    LET dir == inode_at(d)
        held == Increasing({k \in BlockIdx : inode_at(n).i_block[k] # NoBlock})
        given == (blockBitmap \ blockBitmap') \ {inode_at(n).i_block[k] : k \in BlockIdx}
    IN  UnlinkWrites(d, n)
            \o ReleaseWrites(n, [j \in DOMAIN held |-> inode_at(n).i_block[held[j]]],
                             blockBitmap \ given)

-----------------------------------------------------------------------------
Idle == pending = <<>> /\ ~unsafe
Decides(writes) ==
    /\ pending' = writes
    /\ UNCHANGED <<disk, crashes, unsafe>>

DiskInit ==
    /\ Init
    /\ disk = EndOfCall /\ pending = <<>>
    /\ crashes = 0 /\ unsafe = FALSE

Creates(p) ==
    /\ Idle
    /\ (p \in CreatePaths /\ sys_open_create(p)) \/ (p \in MkdirPaths /\ sys_mkdir(p))
    /\ Decides(CreationWrites(search_file(p).parent_dir))

Writes(f, count) ==
    /\ Idle
    /\ sys_write(f, count)
    /\ Decides(WritingWrites(contents[fileTable[fdTable[f]]], count))

Unlinks(p) ==
    /\ Idle
    /\ sys_unlink(p)
    /\ Decides(RemovalWrites(search_file(p).parent_dir, search_file(p).i_no))

Rmdirs(p) ==
    /\ Idle
    /\ sys_rmdir(p)
    /\ Decides(RemovalWrites(search_file(p).parent_dir, search_file(p).i_no))

(* Calls that write nothing.                                               *)
OpensFile(p) == Idle /\ (sys_open_existing(p) \/ sys_open_table_full(p)) /\ Decides(<<>>)
Closes(f) == Idle /\ sys_close(f) /\ Decides(<<>>)

(* A call that runs out of blocks and ends the process, its writes as one. *)
Dies ==
    /\ Idle
    /\ \/ \E p \in MkdirPaths : sys_mkdir_dies(p)
       \/ \E f \in OF!Fds, count \in WriteCounts : sys_write_dies(f, count)
    /\ disk' = EndOfCall'
    /\ UNCHANGED <<pending, crashes, unsafe>>

Writing ==
    /\ pending # <<>>
    /\ disk' = write_blocks_to_disk(disk, Head(pending))
    /\ pending' = Tail(pending)
    /\ UNCHANGED <<vars, crashes, unsafe>>

-----------------------------------------------------------------------------
(* The windows in which a death does harm.                                 *)

PendingWrites == {pending[k] : k \in DOMAIN pending}

(* A write that changes which blocks an inode in use has.                  *)
Relinks(w) == /\ w.part = "inodeTable" /\ w.at \in disk.inodeBitmap
              /\ w.value # ZeroInode
              /\ w.value.i_block # disk.inodeTable[w.at].i_block

(* dir.cpp:222: the name is on disk, its inode is not yet marked.          *)
NameBeforeInode ==
    /\ \E w \in PendingWrites : w.part = "inodeBitmap" /\ w.at \in w.value
    /\ \A w \in PendingWrites : w.part # "blocks" /\ ~Relinks(w)

(* dir.cpp:332: the block is free, the directory still has it.             *)
FreedBeforeUnlinked ==
    /\ pending # <<>> /\ Relinks(Head(pending))
    /\ \E k \in BlockIdx : Head(pending).value.i_block[k] = NoBlock
                              /\ disk.inodeTable[Head(pending).at].i_block[k] # NoBlock

Exposed == NameBeforeInode \/ FreedBeforeUnlinked

(* The process dies between two writes; the next one mounts.               *)
Crash ==
    /\ pending # <<>> /\ crashes < MaxCrashes
    /\ diskInodeBitmap' = disk.inodeBitmap /\ diskBlockBitmap' = disk.blockBitmap
    /\ inodeTable' = disk.inodeTable /\ blocks' = disk.blocks
    /\ diedMidCall' = TRUE
    /\ Mounts
    /\ pending' = <<>> /\ crashes' = crashes + 1 /\ unsafe' = Exposed
    /\ UNCHANGED disk

Restarts == pending = <<>> /\ Restart /\ UNCHANGED diskVars

DiskNext ==
    \/ \E p \in CreatePaths \cup MkdirPaths : Creates(p)
    \/ \E f \in OF!Fds, count \in WriteCounts : Writes(f, count)
    \/ \E p \in UnlinkPaths : Unlinks(p)
    \/ \E p \in RmdirPaths : Rmdirs(p)
    \/ \E p \in OpenPaths : OpensFile(p)
    \/ \E f \in OF!Fds : Closes(f)
    \/ Dies \/ Writing \/ Crash \/ Restarts

DiskSpec == DiskInit /\ [][DiskNext]_<<vars, diskVars>>

-----------------------------------------------------------------------------
(* When a call returns everything it changed is on disk, in whatever state *)
(* earlier deaths left the partition.                                      *)
WritesCoverCall == pending = <<>> => disk = EndOfCall

Kinds(search(_)) == [p \in Paths |-> LET r == search(p) IN
                                     IF r.depth = Len(p) THEN r.f_type ELSE "FT_UNKNOWN"]

(* A single write of the call changes the kind that a path has on disk,    *)
(* and changes it to what the call makes of it: a death at any moment      *)
(* leaves the names of before or those of after the call.  Excepted are    *)
(* paths through a directory that this write brings: an inode slot that an *)
(* earlier death left behind may still be there.                           *)
NamesChangeAtOnce ==
    [][disk' # disk =>
          LET before == Kinds(Mounted!search_file)
              now == Kinds(Mounted!search_file)'
              parent(p) == SubSeq(p, 1, Len(p) - 1)
          IN  \A p \in Paths :
                 \/ now[p] = before[p]
                 \/ now[p] = Kinds(search_file)'[p]
                 \/ Len(p) > 1 /\ parent(p) \in Paths /\ before[parent(p)] = "FT_UNKNOWN"]_disk

(* What a mount would find: the inodes that have names are marked, in      *)
(* their slots, and have blocks that are marked and nobody else's.         *)
MountSound ==
    LET named == {Root} \cup
                 UNION {{e.i_no : e \in Mounted!Children(d)} : d \in Mounted!Directories}
        places == {x \in named \X BlockIdx : disk.inodeTable[x[1]].i_block[x[2]] # NoBlock}
        held == {disk.inodeTable[x[1]].i_block[x[2]] : x \in places}
    IN  /\ named \subseteq disk.inodeBitmap /\ held \subseteq disk.blockBitmap
        /\ \A n \in named : disk.inodeTable[n].i_no = n
        /\ Cardinality(held) = Cardinality(places)

(* A death leaves blocks or inodes that nobody uses, and nothing worse,    *)
(* except in the two windows, and in these always.                         *)
UnsafeExactlyWhenExposed == ~unsafe => (MountSound <=> ~Exposed)

(* The entry of directory d is on disk in a block that d has already, the  *)
(* i_size that counts it is the next write.                                *)
CountedLate(d) ==
    /\ pending # <<>>
    /\ LET w == Head(pending) IN
       /\ w.part = "inodeTable" /\ w.at = d
       /\ w.value.i_size > disk.inodeTable[d].i_size
       /\ w.value.i_block = disk.inodeTable[d].i_block

(* dir.cpp:462: a directory that looks empty by its i_size, and so may be  *)
(* removed by the next process, is empty, unless the last one died between *)
(* the entry and the i_size of a creation (dir.cpp:236): then it has one.  *)
(* A directory whose own inode is not marked is one of NameBeforeInode.    *)
LooksEmptyIsEmpty ==
    ~unsafe => \A d \in Mounted!Directories \cap disk.inodeBitmap :
        disk.inodeTable[d].i_size = 2 => (Mounted!Children(d) # {} <=> CountedLate(d))
=============================================================================
