---------------------------- MODULE MCOpenFiles ----------------------------
(* Two file inodes and the root, two descriptors, a heap of four in-core   *)
(* inodes: room for a duplicate and a leaked one beside the open files.    *)
EXTENDS OpenFiles

MCInodes == 0 .. 2
=============================================================================
