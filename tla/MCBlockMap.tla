----------------------------- MODULE MCBlockMap -----------------------------
(***************************************************************************)
(* One inode on a small disk beside blocks of other files: a regular file  *)
(* (FileData.tla) or a directory (DirData.tla).                            *)
(***************************************************************************)
EXTENDS FileData, DirData

VARIABLE kind

NoDir == entered = {} /\ spoiled = FALSE
NoFile == /\ slot = inode_init /\ fd_pos = [d \in Fds |-> -1] /\ round = 0
          /\ answer = NoAnswer /\ gaveUp = FALSE

MCInit == \/ kind = "file" /\ FileInit /\ NoDir
          \/ kind = "dir" /\ DirInit /\ NoFile
MCNext == \/ kind = "file" /\ FileNext /\ UNCHANGED <<dirVars, kind>>
          \/ kind = "dir" /\ DirNext /\ UNCHANGED <<fileVars, kind>>
MCSpec == MCInit /\ [][MCNext]_<<blockVars, fileVars, dirVars, kind>>

(* Bound: what follows in a spoiled directory is not explored.             *)
Intact == ~spoiled

(* Every call on a file does what it does to a sequence of bytes: a write  *)
(* appends and loses none of the bytes before it, a read gives the bytes   *)
(* at the position of its descriptor, a new file starts empty.             *)
BF == INSTANCE ByteFile WITH content <- IF kind = "file" THEN Content ELSE <<>>
ImplementsByteFile == BF!Spec

(* What a file holds and counts is what was written, its blocks are marked *)
(* and its own, and no other file's (file.cpp:390, inode.cpp:189).         *)
FileExact == kind = "file" => FileBlocksExact
(* The bitmap on disk follows the one in memory (file.cpp:435-562).        *)
BitmapWritten == kind = "file" => OnlyTableBitLate

(* A directory finds what was entered and owns its blocks (dir.cpp:130).   *)
DirExact == kind = "dir" => DirectoryExact /\ DirBlocksExact
=============================================================================
