---------------------------- MODULE MCNamespace -----------------------------
(***************************************************************************)
(* NameView on the arguments of MCFileSystem.                              *)
(***************************************************************************)
EXTENDS MCFileSystem, NameView

MCView == <<View, tree, handles>>
=============================================================================
