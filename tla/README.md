# The file system simulator in TLA+

The program is a single process that keeps a Unix-like file system inside one
disk file: partitions, a super block, two bitmaps, an inode table, directories
of fixed-size entries, and a shell that reads one command after the other. It
has no threads and no messages. What makes it hard to get right is the state
that is kept twice (bitmaps and inodes in memory and on the disk, an in-core
inode shared by several pointers), the reference counts over it, the long
sequences of calls it has to survive, and the process that may end anywhere
and leave the disk to the next one.

Line numbers below are those of the C++ sources.

## Inventory

| part | state | operations | used by | correct when |
|---|---|---|---|---|
| bitmap (`bitmap.cpp`) | bytes of a bitmap | `bitmap_scan`, `bitmap_set` | allocators of `file.cpp`, release in `inode.cpp` and `dir.cpp` | the scan is first fit |
| inode list (`list.cpp`, `inode.cpp`) | `open_inodes`, `i_open_counts` | `inode_open`, `inode_close`, `list_push`, `list_remove` | directories, descriptors, release | a count is the number of holders; the list is what is allocated |
| inode table (`inode.cpp`) | sectors of inodes on disk | `inode_locate`, `inode_sync`, `inode_delete`, `inode_release` | every call that writes | each inode is in its own slot; a released inode gives all its blocks back |
| directories (`dir.cpp`) | entries in blocks, `i_size` | `search_dir_entry`, `sync_dir_entry`, `delete_dir_entry`, `dir_read`, `dir_is_empty`, `dir_remove` | path search, system calls | names form a tree; `i_size` counts entries |
| files (`file.cpp`) | `file_table`, blocks, `fd_pos` | `file_create`, `file_open`, `file_close`, `file_read`, `file_write`, allocators, `bitmap_sync` | system calls | no block has two owners; bytes come back as written |
| descriptors (`pcb.cpp`, `file.cpp`) | `fd_table` | `pcb_fd_install`, `fd_local2global` | system calls | a descriptor stays on its inode until it is closed |
| path search (`fs.cpp`) | a `path_search_record`; leaves a directory open | `path_parse`, `path_depth_cnt`, `search_file` | system calls | finds what the whole path names; its parent directory is closed by the caller |
| system calls (`fs.cpp`) | all of the above | `sys_open` ... `sys_stat` | shell | each leaves disk and memory consistent, in success and failure |
| format, mount (`fs.cpp`) | super block, `cur_part`, `root_dir` | `partition_format`, `mount_partition`, `fs_init` | `main` | a new partition is empty; a mount sees what was synced |
| working directory (`fs.cpp`, `pcb.h`) | `cwd_inode_nr`, `cwd_buf` | `sys_chdir`, `sys_getcwd` | shell | its path leads back to it |
| shell (`sim_shell.cpp`) | `cur_user` | `cd ls touch mv cp rm wtf cat mkdir su` | user | closes what it opens; `mv` loses no file |
| disk (`disk.cpp`), `main.cpp` | the disk file, its table of partitions | create, partition, read | start-up | partitions do not overlap; what has a magic number is whole |

All interaction is by direct calls and shared memory: the shell calls the
system calls, these search a path (opening and closing directories through
`open_inodes` on the way), change directory blocks, inodes and bitmaps in
memory, and write each of them to the disk file before they return.

The behaviours that are hard: one inode reached through several descriptors
and forgotten opens; a removed inode number that is used again; a block freed
under a directory; allocation of several blocks in a call; tables and bitmaps
at their limits; a call that dies between any two of its writes; a restart;
files and directories that outgrow their direct blocks. The hazards, each at its line, are listed in `PROJECT.json`.

## Modules

| module | what it is |
|---|---|
| `OpenFiles` | `open_inodes`, `file_table` and `fd_table`, for inodes of which only the number is known |
| `FileSystem` | the system calls on one mounted partition: bitmaps, inode table and blocks in memory and on disk, composed with `OpenFiles` (`OF == INSTANCE OpenFiles`) |
| `Namespace` | the abstract file system: a tree of names and the files that descriptors hold |
| `NameView` | the mapping from `FileSystem` to `Namespace`: the names that are visible from the root |
| `WorkingDir` | `FileSystem` with `sys_chdir`, `sys_getcwd` and `dir_read` |
| `DiskWrites` | `FileSystem` with every write to the disk a step of its own, and a process that may die between any two |
| `BlockMap` | how an inode reaches its blocks: direct addresses and the indirect table |
| `FileData` | `file_write`, `file_read`, `sys_lseek`, `inode_release` on one file, byte by byte, over `BlockMap` |
| `DirData` | `sync_dir_entry`, `search_dir_entry`, `delete_dir_entry` on one directory that may need the table, over `BlockMap` |
| `ByteFile` | the abstract file: a sequence of bytes and positions in it |
| `Format` | `create_disk`, `create_partitions`, `partition_format`, `fs_init`, `mount_partition` |
| `BitmapScan` | `bitmap_scan` loop by loop, and its callers |
| `MCOpenFiles`, `MCFileSystem`, `MCNamespace`, `MCWorkingDir`, `MCDiskWrites`, `MCBlockMap`, `MCBitmapScan` | small instances; `MCBlockMap` also states the mapping from `FileData` to `ByteFile` |
| `OpenFilesProofs`, `FileSystemProofs`, `NamespaceProofs`, `DiskWritesProofs`, `BlockMapProofs`, `FormatProofs`, `BitmapScanProofs` | the theorems about the module of that name (`NamespaceProofs`: about `WorkingDir` and about `NameView` as a refinement mapping to `Namespace`; `BlockMapProofs`: about `FileData`, `DirData` and `ByteFile`) |
| `RecursionFacts` | lemmas: induction and recursion over an interval of numbers, counting and ranking |

`OpenFiles` is part of `FileSystem`, and `FileSystem` is extended by `WorkingDir` and
`DiskWrites`. `FileSystem` keeps everything in direct blocks and does not tell
bytes apart; `FileData` and `DirData` take one inode out of it and model both.
`Format` ends where `FileSystem` begins, with a partition mounted.

### OpenFiles

The heap is a set of addresses; `open_inodes.object` says what each holds,
`open_inodes.list` is the linked list from front to back. `inode_open` returns
the first match of the list or pushes a new object; `file_create` pushes
without looking, as `list_push` at file.cpp:136 does. `leaked` is a history
variable: it counts the opens whose pointer the program has dropped. There are
three places that drop one: `sys_open` of an existing file (fs.cpp:437-440 has no
`dir_close`), `sys_unlink` / `sys_rmdir` of a path that leads to inode 0
(fs.cpp:545, 774), and `sys_getcwd` after the working directory was removed (fs.cpp:805).
`CountsMatchHolders` counts the dropped ones among the holders, so it says nothing about them; what they
do to the buffer is the business of `CacheCoherent`.

A step is a call. Opens that are closed in the same call (the directories
`search_file` walks through, the `inode_open` in `inode_release`) do not
appear: an open followed by its close restores the list exactly, because the
inode is either there already, and its count goes up and down, or is pushed to
the front and taken from the front. The exception would be a slot of the inode
table that holds an inode of another number, where a push is not found again by
number; `FileSystem` keeps the number read from the slot (`i` in `file_open`) for the opens
that last, so these are exact in that case too.

`malloc` takes the lowest free address; nothing depends on which. A heap that
is full disables an open (`HeapSize` is a bound), and `MaxLeaks` bounds the opens of one
inode that are dropped.

### FileSystem

State: the two bitmaps in memory and on disk, the inode table and the data
blocks on disk, and `contents`, what each in-core inode of `OpenFiles` holds.
Memory and disk are different variables, and each action writes the disk
exactly where the code does (`inode_sync`, `bitmap_sync`, `write_blocks_to_disk`).

 - `inode_at(n)` is what an `inode_open(n)` now would return the contents of:
   the in-core inode if the list has one, else the slot of the table. `Updated`
   assigns to it, `Loaded` brings it in core.
 - `search_file(p)` follows a path component by component, and reports how
   many it read (`depth`), which is what `path_depth_cnt` of `searched_path` gives the callers.
   A component found as a regular file ends the walk.
 - `Enter` is the common end of `file_create` and `sys_mkdir`: the entry goes
   to the first unused place or to a new block (`sync_dir_entry`), both inodes are synced,
   and the inode bitmap last.
 - `delete_dir_entry` looks the entry up by inode number, frees a block that
   loses its last entry unless it has the entry ".", and syncs the directory.
   `Remove` adds `inode_release`: blocks, inode bit and table slot.
 - `sys_write` takes the blocks that `file_write` takes: block 0 on a first
   write, and one for each multiple of the block size it reaches (so a file
   that fills its last block owns one more).
 - `Restart` ends the process between calls and mounts the partition again.
   `sys_mkdir_dies` and `sys_write_dies` are calls that find the block bitmap
   full after they have already taken a block: `bitmap_scan` says -2, the
   allocators look for -1, and `bitmap_set(-2)` writes 512 MB past the bitmap,
   which ends the process. A call that dies before it wrote anything is a `Restart`.

Abstractions. Names are model values, a path is a sequence of names. A
directory's `i_size` counts entries, a file's counts bytes, data blocks of files are
all alike. Blocks are numbered from the data area, block 0 is the root's. `Init` marks it and the
blocks of `Premarked`: `partition_format` fills a stretch of the bitmap from the wrong byte (fs.cpp:152), which on
many partitions are blocks that exist (712 to 1423 on one of 2 MB), and nobody ever has them. Which ones they are is
computed in `Format`; here they are any set of blocks. The words that `search_dir_entry` does not clear
are taken to lead to no entry of the name it looks for; `DirData` has them.
A free entry is all zero; its `filename` is `NULL`. Only calls that change
state are actions: a call that is refused (name exists, path not found, file in
use, directory not empty) leaves everything as it was, and its disjunct is the
negation of a guard. Bounds: no file or directory outgrows its direct blocks (`Writable`, and
`Positions` in `Enter`), and `inode_release` finds the inode it is asked for (`Remove`, the early return at inode.cpp:192).
Descriptors are opened for reading and writing. `pcb_fd_install` after a slot
was found never fails, which is not assumed but proved (`TablesInStep`).

### Namespace

A map from the paths that exist to their kinds, and the path each descriptor is
open on. `Create`, `Mkdir`, `Open`, `Close`, `Unlink`, `Rmdir`, `Restart` each
say in two or three lines what the user is promised. The refinement mapping
(`NameView`) lists the directories level by level from the root, as `ls` of each of
them would, and takes every name with the path that leads to it (`Visible`); a descriptor's
path is that of its inode number. The two mapped values are kept in the variables `tree` and `handles` of
`NameView`, which are functions of the state of `FileSystem`, only so that TLC evaluates them
once in a step. `CwdPathLeadsBack` and `SearchFile` (below) tie `search_file` to the same tree.

### WorkingDir

`cwd_inode_nr` is all that a process keeps. A command makes its calls (`OneCall`; or `FileCall`s and a
`LastCall`), and then `main` calls `sys_getcwd`, which is a step of its own: `stage` says which of them is next.
`Climb` goes up from `cwd_inode_nr`: the
".." entry of a directory gives its parent, and the first entry of the parent
with the child's number its name. The climb is a recursive function, cut off
after as many steps as there are inodes. It stops below the root where it finds no parent or
no name; `sys_getcwd` then returns with the buffer already cleared (fs.cpp:883, 894), and if the
directory where it stopped has no first block, which is what a removed one looks like, `get_parent_dir_inode_nr`
does not close it again (fs.cpp:805, `LeavesOpen`).
`CwdLimit` counts components where
`sys_getcwd` compares lengths of strings with the 32 bytes of `cwd_buf`; too
long a path returns NULL with the buffer cleared, too (fs.cpp:898), and
the shell, which puts the buffer before relative names, then means the root.
In `fs_deep` no command removes the working directory (`OnlyFoo`, `OnlyBar`): `CacheCoherent` would not
survive the inode left open then (see below). The very first `sys_getcwd` of a process (main.cpp:73), before `sys_chdir("/")`, reads a `cwd_inode_nr`
that nothing has set; it is taken to be the root. `dir_read` is the pure function from
`dir_pos` to an entry; the shell opens, reads and closes a directory in one
command (sim_shell.cpp:40-52), so no call comes between.

### DiskWrites

A step of `FileSystem` computes what a call leads to; here it also decides the
sequence of writes, `pending`, and each `Writing` puts one of them on `disk`.
The order is the code's: entry, directory, new inode, inode bitmap for a
creation; block bit or entry, directory, then the removed inode's blocks, bit
and slot for a removal; block bits, data, inode for a write. A bitmap is
written by sectors as it stands in memory at that moment (`SyncBlockBits`
computes it after the j-th change). `Crash` takes the disk as it is for the
next process, whose calls go on from there. `Exposed` names the two windows in
which a death does harm:

 - `NameBeforeInode`: the entry and its directory are on the disk, the new
   inode is not yet marked (between dir.cpp:222 and file.cpp:125);
 - `FreedBeforeUnlinked`: a block is free and its directory still has it
   (between dir.cpp:333 and dir.cpp:386).

`UnsafeExactlyWhenExposed` says that these are all, and that both are real. A third place does no harm to what is
there but to what comes next: between an entry in a block that its directory has already (dir.cpp:236) and the
directory's inode, the `i_size` on the disk does not count the entry, and if it says 2 the next process may remove
the directory with the name in it. `CountedLate` names that place, and `LooksEmptyIsEmpty` says that a marked directory with
the size of an empty one has an entry exactly there.

### BlockMap, FileData, DirData, ByteFile

Every routine collects the addresses of an inode's blocks in an array
`all_blocks` of 140 words. `(char *)all_blocks + 12`, where `all_blocks + 12` was
meant, is word 3: `TableWord`. `ReadTable` puts the table there. file_write and
`get_child_dir_name` have it right, `file_read`, `inode_release` and all of
`dir.cpp` have it wrong. What malloc leaves in an array that is not cleared
(`junk`) is a choice. In `search_dir_entry` it is a parameter, `rest`: the array of 140 words is searched to its
end, also where nothing was written. A call is made for what the search may find or miss; a removal only
for what cleared memory finds.

`FileData` has one file, two descriptors and one in-core inode for both; `slot` is
the inode on the disk, which the first open after the last close, and the first
after a restart (`mount_partition`), reads again. `diskBitmap` is the bitmap on the disk:
`file_write` syncs the bit of every block but the table's (file.cpp:501), which is
written with the bit of the first later block of its sector. `OnlyTableBitLate` says
how long that can take. A byte is a
number that says in which life of the file it was written and for which position, so that a
byte in the wrong place is seen. `ByteFile` is what the user is promised; the mapping is the
identity but for `Content`, the bytes that the table and the inode lead to.
`TableCalls` admits the calls that read the table at the wrong place: reads
that reach it, and the removal of a file that has one.

`DirData` shows that the slip is harmless in a directory for the first
indirect block: the table is written from the same wrong place it is read to,
so the addresses of direct blocks 3 to 11 come back as they were. A second indirect block, or a direct
block given back while there is a table, ends that; `spoiled` records it and the passing run stops there (`Intact`).
Of the memory that `search_dir_entry` never clears, the operator takes what it may hold as an argument: `DirExact` finds what was
entered whatever it is, and nothing else when it is clear.

### Format

Sectors have numbers on the disk, blocks and bits on their partition. The five
writes of `partition_format` are steps, the super block with its magic number
first. `Marked` computes the bitmap of a new partition from what malloc left in
the buffer and from an arbitrary `bit_idx`, both uninitialised
in the code (fs.cpp:142, 154). The buffer is several hundred sectors long and therefore fresh
and zero in the first format of a process; later ones may get it back with the
root directory of the previous partition in it (`Remains`). `TailMarked` is what the comments at fs.cpp:149-153 say of the
result, and `format_tail` refutes it; `TailMarkedByChance` is what becomes of it.

### BitmapScan

One step per iteration of the loops of `bitmap_scan`, for a bitmap given by the
set of its 1 bits. `SetsBit` and `Dies` are the two allocators. Only runs of one bit
have callers; a longer scan hands back its answer. `ScanIsFirstFit` asks for a negative number when nothing fits; that it is -2 where the comment and the callers
mean -1 is listed below. The bit past the end that
the second loop tests is a choice of its value.

## What the runs check

| run | instance | distinct states | shows |
|---|---|---|---|
| `open_files` | 3 inodes, 2 descriptors, heap of 4, one leak each | 18,734 | counts, list and tables fit together; an open descriptor keeps its inode |
| `fs_namespace` | 4 inodes, 6 blocks of which the format marked one, paths of depth 1 and 2, opens in the root | 20,736 | memory and disk are consistent across restarts and a full disk; the calls refine `Namespace` |
| `fs_deep` | 4 inodes, 5 blocks of which the format marked one, opens anywhere, creation by paths with `.` and `..`, rmdir of the name that nothing is opened below and that is never the working directory | 21,110 | names and buffers are sound with parents left open; the working directory's path; listings |
| `disk_writes` | 3 inodes, 6 blocks of which the format marked one, two names of which either may be a directory, one death in the middle of a call | 66,279 | a death leaves the names of before or after the call, a sound partition outside two windows, and names in a directory that looks empty in one place |
| `block_map` | 6 blocks, 2 of them direct, tables of 2, two descriptors, writes of 2, 5 and 8 bytes; a directory of up to 5 entries; 4 bits per bitmap sector | 54,206 | a file is its bytes across restarts, a directory its names, beyond the direct blocks; of a file only the bit of a table at the end of a sector is missing on the disk |
| `format` | one or two partitions of nine sizes, bitmap sectors of 8 bits | 15,650 | layout, tail of the bitmap, interrupted formats |
| `bitmap_scan` | 3 bytes of 3 bits, runs of 1 to 3 | 11,899 | first fit in all 512 bitmaps; every scan ends |

Properties:

 - `CountsMatchHolders`, `ListIsLive`: no double free, no dangling slot, no
   in-core inode that is lost while it is in use.
 - `DescriptorsWired`, `DescriptorKeepsItsInode`: the two tables never drift
   apart, and a descriptor never silently changes its inode.
 - `NamespaceSound`: allocated inodes are exactly those with a name, one name
   each, in a tree whose "." and ".." are right.
 - `BlocksOwnedOnce`, `NoLostBlocks`: a block has at most one owner and is then
   marked; a marked block has an owner, unless a call died between the two
   (`diedMidCall`) or the format marked it, which then stays marked and without an owner.
 - `CacheCoherent`: `open_inodes` is only a buffer of the inode table.
 - `DirSizesExact`: `i_size`, the only thing `dir_is_empty` looks at, counts
   the entries, and no empty block is kept.
 - `DiskUpToDate`: between two calls nothing waits to be written.
 - `CwdPathLeadsBack`: at the prompt the path that `sys_getcwd` has put together leads to the working
   directory, after any creations and removals elsewhere.
 - `ListingExact`: reading a directory to the end gives each entry once.
 - `WritesCoverCall`: when a call has returned, the disk is what it computed:
   no write is forgotten or made from an earlier copy.
 - `UnsafeExactlyWhenExposed`, `NamesChangeAtOnce`, `LooksEmptyIsEmpty`: what a
   mount finds after a death. Of all the names, each changes at one write; a
   directory whose `i_size` says it is empty has an entry after a death between the entry and the size
   that counts it in a creation, and at no other time (in a removal the entry is cleared before).
 - `ImplementsByteFile`: writes append and lose no byte, reads give the bytes at
   the position, through partly filled blocks, the border to the table and seeks.
 - `FileExact`, `DirExact`, `OthersUntouched`: the blocks taken are exactly those the
   file or directory reaches, each once, and nobody else's; a directory finds what was entered,
   whatever uncleared memory its search gets.
 - `BitmapWritten`: on the disk the block bitmap lacks nothing but the bit of a file's table, and that
   only as long as the table leads to no block whose bit is in the same sector.
 - `RegionsApart`: the tables, the data and the partitions do not overlap.
 - `TailMarkedByChance`: what the fill at fs.cpp:152 marks, which starts at the wrong byte: the blocks of the partition that lie there,
   and all bits behind the last block only in the cases named.
 - `MagicMeansWhole`: exactly the partitions whose format was cut short have
   the magic number and miss a part, and no later start repairs them.
 - `ScanIsFirstFit`, `ScanEnds`: what a scan returns, the lowest place where the run fits or a negative number, and that it returns.

Why these bounds. A block holds three entries and the root starts with two, so the
second name a directory gets lands in a new block and its removal frees that block
(`Reclaims`). Blocks of two bytes and writes of two make a first write take two
blocks, the boundary case of `file_write`; two direct blocks are enough for it. Four
inodes and five blocks run out of either, in and between calls; one more block is
marked by the format, low enough for every scan to pass it. Two descriptors
allow a file open twice and two files open at once, and fill the tables. Two
names and depth two give siblings, a child, and a name used again after removal.
A bitmap of three bytes has runs that start in, cross and end at every place of a byte.
Two direct blocks and a table of two give a file all of its regions in four blocks;
writes of 2, 5 and 8 bytes fill a block, cross one and fill the file, and end on, before
and behind each border. `TableWord` is 1, so that the table overlaps the direct places as
word 3 does among twelve. Five entries reach the first indirect block of a directory.
Sizes of 8 to 22 sectors leave 2 to 15 blocks after the tables, which is on both sides
of one bitmap sector of 8 bits. One death in the middle of a call is enough for what a death leaves;
calls go on after it, so its leftovers are met by creations and removals.

Named bounds in the newer modules: `MaxCrashes`, and only a restart after a death
in a window (`Idle`); no call that runs out of blocks in `FileData` and `DirData` (`FileSystem`
has them); no restart in `FileData` while the bit of the table is not on the disk, after
which two files would share the block; no removal from an indirect block (dir.cpp:345 would not end); the
constraint `Intact`, and removals only of what cleared memory finds; `MaxPartitions`, `SectorCounts` and only partition
numbers that exist, which main.cpp:65 does not enforce. `disk_writes`
opens files in the root only, for the same reason as `fs_namespace`: with a
stale inode in the buffer, a removal gives back the blocks of the stale copy, not those of the slot.

`View` leaves out the contents of blocks no reachable directory owns. No
call reads them: a directory clears a block it takes (`dir.cpp:220`, `fs.cpp:659`),
and file data is not told apart. Without it two states that differ only in
what a free block used to hold would be different.

`SyncWidth` is the range of the `uint8_t` in `inode_sync`. In the passing runs
it is at least the number of inodes, that is, these runs speak of a partition with fewer than
257 inodes in use; the run `fs_inode_number_truncated` shows what happens beyond.
The bitmap of `FileSystem` fits one sector in the runs (`BitsPerSector`); in `block_map` it has two,
so that a table can be the last block of a sector.

All runs check deadlock, and a restart is always possible. Fairness is assumed only in `BitmapScan`:
weak fairness of the next step of a call in progress, because the program is a
single thread and a call runs to its end. `DiskWrites` has none although a call is in
progress there: a process may die at any write, so nothing need follow. The system calls as such are commands
of a user, which nobody has to give, so `FileSystem` and `OpenFiles` have no
fairness and no liveness property.

Each property of these runs has a definition named `..._seeded` beside the one it
replaces, with a plausible bug: a count forgotten, a list not relinked, a bit set too late,
a depth not compared. With the bug in place the property fails.

### Where code and comments disagree

Five runs end in a violation; each states what a comment promises.

| run | the comment | what happens |
|---|---|---|
| `fs_stale_cache` | inode.cpp:97, the list is a buffer | open `/a/b`, close it, remove it and `/a`: the inode of `/a` is free on disk and still in `open_inodes` (fs.cpp:440 closes no parent) |
| `fs_rmdir_dot` | fs.cpp:768, removes an empty directory | rmdir of `/a/.` returns 0, frees the inode and keeps the name (dir.cpp:487) |
| `fs_inode_number_truncated` | fs.h:5, 4k files in a partition | an inode above 255 is written to the slot of another (inode.cpp:49) |
| `format_tail` | fs.cpp:149-153, the last `last_size` positions are set, the others not | the fill starts at byte `last_size` (fs.cpp:152): blocks that exist are marked, bits behind the last block are not |
| `file_table` | file.cpp:331, the table is read in behind the place of the 13th block | it is read to byte 12 (file.cpp:330): a read that reaches the table gives the bytes of other blocks |

Five more need no run, because the code does it every time it gets there. The models do the same, and no
property says that it is right:

 - `search_file` ends at a regular file it meets on the way (fs.cpp:358, against fs.cpp:300), and `sys_unlink` removes it: `rm /a/b` removes a file `/a`.
 - `sys_getcwd` after the working directory was removed opens the cleared slot and returns before it closes it
   (fs.cpp:805): an inode numbered 0 stays in `open_inodes` in front of the root's, although the list is a buffer
   (inode.cpp:97). `sys_getcwd` of `WorkingDir` does so; `fs_deep` does not get there.
 - `search_dir_entry` searches 140 addresses of which it writes the first 12, with a table the first 131 (dir.cpp:35, against dir.cpp:28 and 54); an address that
   `malloc` left there of a block given back finds a removed name.
 - `sync_dir_entry` never reads the indirect table: the second indirect block gets a new table, and the names behind the
   first are lost (dir.cpp:189, against dir.cpp:144 and 162). `sync_dir_entry` of `DirData` does so and notes it in `spoiled`.
 - `bitmap_scan` returns -2 for a full bitmap, before the line that returns -1 (bitmap.cpp:29, against bitmap.cpp:31); the callers (file.cpp:153, 163) look
   for -1. `sys_mkdir_dies` and `sys_write_dies` are what they make of it.

They also delimit the passing runs: `fs_namespace` and `disk_writes` open
existing files in the root only, and `fs_deep` removes no directory that may have been left open or is the working directory, because
together they are the first of these runs or the inode that `sys_getcwd` leaves open; `block_map` makes no call that reads a file's table at the wrong place, and none after the second indirect block of a directory; `rmdir` gets no path that ends in
"."; `sys_unlink` is free to remove a file through a longer path, which
`NamespaceSound` and `Namespace` allow.

## What is proved

Everything below is proved by TLAPS for every value of the constants that meets the named
assumptions: sizes are positive, a block of a directory holds at least two entries, the
two descriptor tables are equally long (16 in `file.h:8` and `pcb.h:4`), paths are non-empty
sequences of components, `.` and `..` are not names of files, and `NULL` is neither a component,
an inode nor an entry. `Format` assumes that a partition that is not refused as too small has more blocks behind its tables than a byte of the bitmap has bits, and more than a root directory leaves bits in the buffer
(its two entries are 48 bytes, a partition of a megabyte has some 1,400 blocks).

 - `OpenFilesProofs`: `TypeOK`, `ListIsLive`, `DescriptorsWired` and
   `CountsMatchHolders` are together inductive (`IInv`); none is alone. A count
   can be decremented only because it is the number of its holders, a slot can be read only because
   its descriptor names it, and an inode can be unlinked only because
   the list holds its address once. `Balanced` restates the counts as the holders gained
   and lost by a step, so that each action has one fact about cardinalities to
   show. `DescriptorKeepsItsInode` follows from the same steps.
 - `FileSystemProofs`: the types of the disk and the invariant of `OpenFiles`
   are proved together, since a call reads the inode numbers it opens from the
   disk and reaches the inodes it writes through the descriptors. One lemma
   per action shows that the types hold again and that the step is one of
   `OpenFiles` or leaves its variables alone (`Fine`). From this come
   `TypeCorrect` and `DescriptorsSound`: the counts and tables of the whole program.
 - `FileSystemProofs`, second part: lemmas on trees of directories, and with them all the invariants of `fs_namespace` about names, blocks and the disk:
   `NamespaceSound`, `DirSizesExact`, `BlocksOwnedOnce`, `NoLostBlocks`, `CacheCoherent`,
   `DiskUpToDate`, and `InodeInItsSlot`. See below.
 - `NamespaceProofs`, the working directory: `CwdPathLeadsBack` of `WorkingDir`, from `ProcInv`, which adds to the tree that the working
   directory is in it and that at the prompt the buffer holds the climb from it. As long as nothing removes the working
   directory (`KeepsCwd`), `sys_getcwd` reaches the root and leaves nothing open (`GetcwdStep`). `ListingExact` follows from the tree
   alone. The climb of `sys_getcwd` ends at the root because a directory is less deep than there are
   inodes, the name it finds is right because only one entry has the number of the directory ("."
   and ".." lead to other depths, an unused entry to the root), and `search_file` goes down the
   same directories. A listing is right because ranking the used places by the number
   of those before them is one to one (`RanksFilled`) and `i_size` is their number.
 - `NamespaceProofs`, names: `FileSystem` implements `Namespace` (`FileSystemIsNamespace`). See below.
 - `DiskWritesProofs`: a call that has returned has written all it computed (`CallsWriteAll`,
   that is `WritesCoverCall`); a death between two of its writes leaves a sound partition exactly when it is
   not in one of the two windows (`DeathsHarm`, that is `UnsafeExactlyWhenExposed`), and a directory that
   looks empty is, except in the place that `CountedLate` names (`DeathsEmptyNothing`, that is `LooksEmptyIsEmpty`). All up to the first death in the middle of a call. See below.
 - `FormatProofs`: `RegionsApart` for all sizes, from the arithmetic of the two rounded divisions and the
   order of the partitions; `MagicMeansWhole` from the invariant that a format
   has written its first `done` parts and that only the last one can be incomplete; `TailMarkedByChance` from the bitmap
   being `Marked` of some buffer (`BitsAreMarks`): were both the first and the last bit behind the last block in the fill, the
   bitmap would have one sector with the last byte at half of it, or two with the last byte at the start of the second (`FillMissesTail`).
 - `BlockMapProofs`: all of `block_map`, for every number of direct blocks, size of blocks, tables and bitmap sectors:
   `ImplementsByteFile`, `FileExact`, `BitmapWritten`, `DirExact`, `OthersUntouched`. See below.
 - `BitmapScanProofs`: the loops' invariants (all bytes and bits below the
   current one are used; every start below the current run is blocked) give
   `TypeOK` and `FirstFit` for every length of bitmap, byte and run.

### The invariant of names, blocks and cached inodes

`NamespaceSound` is not inductive: that a removed entry leaves a tree depends on where the
entries of all other inodes are, and the set `Directories` that it speaks of is computed from the root anew in each state.
The inductive invariant `TreeInv` has three parts.

 - `IInv`: the types and the invariant of `OpenFiles`.
 - `Sound`: the table has each inode in its slot (`Numbered`), no block has two owners and a marked
   one has an owner (`Owned`), in core are copies of the table, each once
   (`Cached`), the bitmaps on disk are those of memory (`DiskSame`).
 - There are a set `D` of directories and functions `up`, `place` and `depth` with `InTree`: every inode
   in use but the root has its entry in directory `up[n]` at `place[n]`, every used entry but the dots
   is the entry of such an inode, ".." leads to `up`, `depth` grows by one
   along `up`, names do not repeat, sizes count, unused places are zero. What is open in a
   descriptor is a file, what was left open (`leaked`) is a directory. With this, an action has to
   name the new `D`, `up`, `place` and `depth`: a creation adds one inode to them (`TreeGrows`), a removal
   takes one out (`TreeShrinks`), and everything else keeps them (`TreeKeeps`).

`FileSystemProofs` states the three for any inode table and data area, without variables, so that the
primed state can be put in, and then has one lemma per action (`..Stays`). `SearchFile` says what `search_file` finds in terms of
the tree, by induction over the path. That the directories of the tree are `Directories` (`Reached`) needs `DepthBounded`:
the parents of a directory have all the depths below its own, so no depth exceeds the number of
inodes. The parts of the invariant that speak of the variables were checked by TLC on `fs_namespace` and `fs_deep` before they were proved.

Three hypotheses, each the exact place where a run of this project shows that the code fails without it (the theorem
about the working directory has a fourth, `KeepsCwd`: no `rmdir` of the working directory, for the sake of fs.cpp:805):

 - `SyncWidth >= MaxInodes`: the `uint8_t` of `inode_sync` (`fs_inode_number_truncated`);
 - the paths of `rmdir` end in a name (`fs_rmdir_dot`); the first two are `Usable`;
 - no `rmdir` of a directory that is still in core (`Careful`, `fs_stale_cache`). It is a property of the
   steps: `CarefulSpec` is `Spec` restricted to such steps. `fs_namespace` and `fs_deep` meet it by their arguments, as they remove no
   directory that they may have left open: none below which they open an existing file or come back to the root.

Nothing is assumed of the paths of the other calls: they may have dots anywhere, lead through files, or name the root.

### The refinement of Namespace

The tree of names is computed by `NameView` from the root, level by level (`Visible`); the invariant
`TreeInv` describes the same tree from below, by `up` and `place`. The refinement is the way from one to the other.

 - `Links` are the entries seen as a relation: directory, name, inode, kind. The path of an inode
   is put together along `up` (`PathsOf`), which ends because `depth` falls.
 - `ViewOn`: what `Visible` shows is exactly the links with the paths of their directories, by induction over
   the levels (`BelowFacts`, `VisibleNow`). Two inodes have different paths (`PathsApart`), since a name does not repeat in a
   directory; so a path means one inode, and a tree of paths is as good as one of inodes.
 - An action changes the links by nothing, by one more (`WithLink`) or by one less (`WithoutLink`), and these are the steps
   of `Namespace` that leave the tree, extend it by a path, or take out a path that nothing is below. What `search_file`
   found is the path in question, whatever dots the argument had.
 - A descriptor's path is that of its inode. It stays the same because the inode does (`KeepsInodes`) and a file that is open
   cannot be removed.

The hypotheses are those of `TreeInv` (`Usable`, `Careful`).

### The writes of a call

`WritesCoverCall` says that `disk` is what the call computed once `pending` is empty. By itself that is not
inductive: the invariant, `Covering`, says that the writes still pending take the disk to the end of the call,
`Brings(disk, pending, EndOfCall)`, and that the state of `FileSystem` at the end of the call meets `TreeInv`. `Writing` keeps it
through `BringsOn`, whatever the writes are. The work is in the calls. Each one's writes are glued by
`BringsBoth` from pieces about one structure (`BringsBits` for the sectors of a bitmap, each as it stands in memory after the j-th change,
`BringsBlocks` for data, `BringsOne` for an inode), and what the call did to memory is packaged by one operator for a
creation (`Made`) and one for a removal (`Removed`). It takes the tree to show that a removal's list
is complete and that its writes do not undo each other: the blocks given back with the inode are not those of the directory it is taken out
of, and no two changes are to the same block.

What a death leaves is a question about every state between two writes. The invariant for it, `Deadly`, adds `Via(disk, pending)`: at each
state on the way from the disk to the end of the call, either the state is not in a window (`DangerAt`, which is `Exposed` said of a disk and a
list of writes) and is `Intact`, or it is in one and is `Broken` (`Told`).

 - `Intact` has a set of directories and one of inodes that are closed under the entries, marked, in their slots and without a
   block in common. Whatever set of inodes `Directories` computes from the root, it is inside of this one (`MountedWithin`), so `MountSound` holds (`IntactSound`).
 - `Broken` has directories that hang together from the root and one among them with an entry of a free inode or with a free
   block. To refute `MountSound` that directory has to be found by the mount, and it is: what is less deep than there are inodes is
   reached (`MountedReaches`).
 - Most writes are `Quiet`: a block bit or a block that no directory has, an inode that no entry leads to. Under them a partition stays
   `Like` the tree it had (`QuietLike`), and that is `Intact` (`LikeIntact`). A call is then a run of quiet writes that keep the tree from before it,
   a few that are looked at one by one, and a run of quiet ones that keep the tree from after it. The few
   are, for a creation, the block with the entry, the directory, the new inode and its bit: from the write that makes the
   entry visible (the directory, if the entry has a block of its own, the block otherwise) the tree shows an inode that is free (`EntryShows`,
   `EntryTold`), until the last write marks it. For a removal they are the first two: if the block is given back
   the directory still shows it when its bit is clear (`LoosenedBroken`), if not, the entry is gone at once (`LoosenedLike`). A write of
   data ends with its only one, the inode (`GrownVia`).

So both halves of `UnsafeExactlyWhenExposed` are proved: no harm outside the windows, and harm in them always. For `LooksEmptyIsEmpty`
`Told` also says `Counts`: at each state on the way there is a set of inodes, closed under the directories' entries, in
which a marked directory with the size of an empty one has an entry exactly if the next write is the late one (`LateOn`). With quiet
writes this comes from `Like` (`LikeCounts`), at the end of a call from the tree (`WholeCounts`), between the few from the end of the call and
what is not yet there (`PartCounts`). That a slot not in use is cleared (`SlotsFree`) is part of the invariant here: a new
directory whose entry is on the disk and whose inode is not must show no entries of an earlier owner of the slot.

These theorems hold up to the first death in the middle of a call (`crashes = 0`); they say what that death leaves, not what later calls make of
it. After one in a window the disk may hold a name of a free inode, or
a block that is free and owned; after one outside, blocks and inodes that nobody uses. `TreeInv` is not true of what the next process mounts, and a
weaker invariant would have to carry the calls. TLC checks those states.

### The invariants of BlockMapProofs

For a file, `FileInv`. An index up to the block behind the last byte has a block, through the inode or the table, and
there is a table exactly when the direct ones do not do (`Mapped`); no block serves two of these (`EachOnce`) and
the marked ones are these and the other files' (`NoneLost`). `FileExact` alone is not inductive: the next write reads the
addresses it keeps out of the table, and numbers the blocks it adds by the ones it believes to have. `file_write` is proved in stages: what
`block_bitmap_alloc` gives is free and different (`Successive`), each allocated block goes to one index or is the table
(`Allots`), so the map `all_blocks` has the old blocks and the new ones, each once (`Maps`, `MapOwn`), and the disk
holds, block by block, what `buf_` was filled with (`DiskThen`). From that `WriteExtends` shows
that the bytes are those before the write and the new ones after them: positions are split into block and cell by `Divided`.
The last piece is the slot on the disk, which after a first write that gave up is not the
inode in core but has no bytes either (`SlotFollows`); so a close that reads the slot again loses nothing.

For a directory, `DirInv`: the blocks gathered in `all_blocks` are the directory's own, and the used places of its cells
are the entries that were made, each once. It is kept until a second table is made or a block given back with a table (`Intact`). What
uncleared memory adds to a search can only add names.

Hypotheses: `~TableCalls` (no read beyond the direct blocks and no removal of a file with a table; `file_table` shows what
such a read gives) and `DirFits` (12 - 3 < 128 in the code: the misplaced table read of a directory leaves its first
indirect block in reach). Writes have no restriction: they may grow a file to 140 blocks, and the bytes they put behind the table are part of `Content`.
`DirFits` is met by the constants of the code and by those of the run.

### Only model-checked

That names change at once (`NamesChangeAtOnce`), and the other properties of `DiskWrites` after a first death
in the middle of a call. `ScanEnds` is liveness under fairness, which is beyond the prover. Recursive functions (`search_file`,
`Directories`, `Climb`) are reasoned about through `IntervalRecursion` and `IntervalInduction`, which put the statement in a set or a function, because the
library's induction theorems take operators.

## Not modelled, and the plan

A theorem left to prove: that each write changes the kind of no path but to what the call makes of it (`NamesChangeAtOnce`), from
`Deadly` and what `search_file` finds in the two trees; and the properties of `DiskWrites` over several deaths.

Not modelled yet:

 - `Shell`: `mv`, `cp`, `wtf` and `cat` make several calls; each call is a step of
   `FileSystem`, but that they belong together, and that `mv` removes its source
   whatever became of the copy (sim_shell.cpp:101), is not stated.
 - `PathParse`: the characters of a path; one that ends in `//` leaves an inode number unset.
 - A restart while the bit of a file's table is missing on the disk (file.cpp:501): `block_map` shows
   when that is, not what becomes of the two files that then share the block.

Left out for good: login and `su` (no state of the file system), a directory after its table was overwritten
(what it then does is chance), an inode that straddles two sectors (file.cpp:597 reads both into a
buffer of one, whose outcome has no value to model), and a mount of a partition
number that was never created.
