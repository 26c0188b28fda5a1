---------------------------- MODULE MCDiskWrites ----------------------------
(***************************************************************************)
(* DiskWrites on two names, either of which may be a directory.            *)
(***************************************************************************)
EXTENDS DiskWrites

CONSTANTS foo, bar         \* the names

MCNames == {foo, bar}
CreateIn == {<<foo>>, <<bar>>, <<foo, bar>>}
Shallow == {<<foo>>, <<bar>>}      \* a nested open leaks: FsStaleCache.cfg

(* As in MCFileSystem only what directories hold is told apart, here those *)
(* the call leads to and those a mount would find.                         *)
DirBlocks == {inode_at(x[1]).i_block[x[2]] : x \in Directories \X BlockIdx} \ {NoBlock}
MountedDirBlocks == {disk.inodeTable[x[1]].i_block[x[2]] :
                        x \in Mounted!Directories \X BlockIdx} \ {NoBlock}
View == <<bitmaps, inodeTable, [x \in DirBlocks |-> blocks[x]], contents, open_inodes,
          fileTable, fdTable, leaked, diedMidCall,
          disk.inodeBitmap, disk.blockBitmap, disk.inodeTable,
          [x \in MountedDirBlocks |-> disk.blocks[x]], pending, crashes, unsafe>>
=============================================================================
