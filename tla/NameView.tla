------------------------------ MODULE NameView ------------------------------
(***************************************************************************)
(* FileSystem implements Namespace.tla.  tree and handles are functions of *)
(* the state, kept in variables so that TLC computes the mapping once per  *)
(* step.                                                                   *)
(***************************************************************************)
EXTENDS FileSystem

VARIABLES tree, handles

(* The full paths there can be: every directory on the way has an inode,   *)
(* and the root's is not named.                                            *)
UserPaths == {SubSeq(p, 1, k) : p \in [1 .. MaxInodes - 1 -> Names], k \in 1 .. MaxInodes - 1}
ASSUME PathsAssumption == NULL \notin UserPaths

(* The names there are, level by level as ls -R finds them from the root,  *)
(* which has none: the path of an entry and the entry.                     *)
Slash == <<<<>>, Entry(NULL, Root, "FT_DIRECTORY")>>
Below(seen) ==
    UNION {{<<Append(x[1], e.filename), e>> : e \in Children(x[2].i_no)} :
              x \in {y \in seen : y[2].f_type = "FT_DIRECTORY"}}
Visible ==
    LET level[k \in 0 .. MaxInodes] ==
            IF k = 0 THEN {Slash} ELSE LET S == level[k - 1] IN S \cup Below(S)
    IN  level[MaxInodes] \ {Slash}

TreeOf(seen) == [p \in {x[1] : x \in seen} |-> (CHOOSE x \in seen : x[1] = p)[2].f_type]
PathTo(seen, n) ==
    LET found == {x \in seen : x[2].i_no = n}
    IN  IF found = {} THEN <<>> ELSE (CHOOSE x \in found : TRUE)[1]

ViewInit == Init /\ tree = <<>> /\ handles = [f \in OF!Fds |-> NULL]
ViewNext ==
    /\ Next
    /\ \E seen \in {Visible'} :
          /\ tree' = TreeOf(seen)
          /\ handles' = [f \in OF!Fds |->
                IF fdTable'[f] = -1 THEN NULL
                ELSE PathTo(seen, open_inodes'.object[fileTable'[fdTable'[f]]].i_no)]
ViewSpec == ViewInit /\ [][ViewNext]_<<vars, tree, handles>>

NS == INSTANCE Namespace WITH PathSet <- UserPaths, Fds <- OF!Fds

(* Every call does to the visible names and descriptors what the abstract  *)
(* file system does, and a restart loses none of the names.                *)
ImplementsNamespace == NS!Spec
=============================================================================
