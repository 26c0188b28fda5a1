---------------------------- MODULE MCWorkingDir ----------------------------
(***************************************************************************)
(* WorkingDir on the arguments of MCFileSystem.                            *)
(***************************************************************************)
EXTENDS MCFileSystem, WorkingDir

OnlyBar == {<<bar>>}
OnlyFoo == {<<>>, <<foo>>, <<foo, bar>>}   \* never the one that OnlyBar removes

(* The buffer is written anew before it is looked at.                      *)
WorkingDirView == <<View, stage, cwd_inode_nr, IF stage = "prompt" THEN cwd_buf ELSE <<>>>>
=============================================================================
