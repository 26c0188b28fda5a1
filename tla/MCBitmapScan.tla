---------------------------- MODULE MCBitmapScan ----------------------------
(* Three bytes of three bits: runs that start in, cross and end at every   *)
(* place of a byte, in each of the 512 bitmaps.                            *)
EXTENDS BitmapScan

MCCounts == 1 .. 3
=============================================================================
