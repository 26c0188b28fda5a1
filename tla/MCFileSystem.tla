---------------------------- MODULE MCFileSystem ----------------------------
(***************************************************************************)
(* FileSystem on small arguments: two names, paths of depth one and two.   *)
(***************************************************************************)
EXTENDS FileSystem

CONSTANTS foo, bar         \* the names

MCNames == {foo, bar}
Shallow == {<<foo>>, <<bar>>}
Nested  == {<<foo, bar>>}
All     == Shallow \cup Nested
WithUp  == Shallow \cup {<<foo, "..", bar>>, <<foo, ".", bar>>}
AllAndUp == All \cup {<<foo, "..">>}
DotPaths == {<<foo, ".">>}
None    == {}

(* Only what directories hold is told apart: the calls never look into a   *)
(* free block or one of a file, and clear a block that a directory takes.  *)
DirBlocks == {inode_at(x[1]).i_block[x[2]] : x \in Directories \X BlockIdx} \ {NoBlock}
View == <<bitmaps, inodeTable, [x \in DirBlocks |-> blocks[x]], contents, open_inodes,
          fileTable, fdTable, leaked, diedMidCall>>
=============================================================================
