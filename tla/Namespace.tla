----------------------------- MODULE Namespace -----------------------------
(***************************************************************************)
(* What the file system promises its user: a tree of names, each a regular *)
(* file or a directory, and descriptors that hold on to files by name.     *)
(* No inode, block or bitmap appears here; FileSystem.tla implements it.   *)
(***************************************************************************)
EXTENDS Naturals, Sequences

CONSTANTS PathSet,   \* sequences of names
          Fds, NULL

VARIABLES tree,      \* from the paths that exist to their kinds
          handles    \* the path each descriptor is open on, NULL when free

Parent(p) == SubSeq(p, 1, Len(p) - 1)
ParentExists(p) == Len(p) = 1 \/ (Parent(p) \in DOMAIN tree /\ tree[Parent(p)] = "FT_DIRECTORY")
Held(p) == \E f \in Fds : handles[f] = p
Without(p) == [q \in DOMAIN tree \ {p} |-> tree[q]]

Init == tree = <<>> /\ handles = [f \in Fds |-> NULL]

(* A new name appears under a directory that exists.                       *)
Appear(p, kind) ==
    /\ p \notin DOMAIN tree /\ ParentExists(p)
    /\ tree' = [q \in DOMAIN tree \cup {p} |-> IF q = p THEN kind ELSE tree[q]]

OpenOn(p, f) ==
    /\ handles[f] = NULL
    /\ handles' = [handles EXCEPT ![f] = p]

Create(p, f) == Appear(p, "FT_REGULAR") /\ OpenOn(p, f)
Mkdir(p) == Appear(p, "FT_DIRECTORY") /\ UNCHANGED handles
Open(p, f) == p \in DOMAIN tree /\ tree[p] = "FT_REGULAR" /\ OpenOn(p, f) /\ UNCHANGED tree
Close(f) == handles[f] # NULL /\ handles' = [handles EXCEPT ![f] = NULL] /\ UNCHANGED tree

(* A file nobody holds, or a directory with nothing in it, goes away.      *)
Unlink(p) ==
    /\ p \in DOMAIN tree /\ tree[p] = "FT_REGULAR" /\ ~Held(p)
    /\ tree' = Without(p)
    /\ UNCHANGED handles

Rmdir(p) ==
    /\ p \in DOMAIN tree /\ tree[p] = "FT_DIRECTORY"
    /\ \A q \in DOMAIN tree : Len(q) > 1 => Parent(q) # p
    /\ tree' = Without(p)
    /\ UNCHANGED handles

(* The process ends: descriptors go, names stay.                           *)
Restart == handles' = [f \in Fds |-> NULL] /\ UNCHANGED tree

Next ==
    \/ \E p \in PathSet, f \in Fds : Create(p, f) \/ Open(p, f)
    \/ \E p \in PathSet : Mkdir(p) \/ Unlink(p) \/ Rmdir(p)
    \/ \E f \in Fds : Close(f)
    \/ Restart

Spec == Init /\ [][Next]_<<tree, handles>>
=============================================================================
