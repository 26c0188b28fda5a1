----------------------------- MODULE WorkingDir -----------------------------
(***************************************************************************)
(* The working directory of the one process (pcb.h) beside the calls of    *)
(* FileSystem.tla.  sys_chdir keeps an inode number; after every command   *)
(* main calls sys_getcwd, which finds a path for it; the shell puts that   *)
(* path before relative names.  And dir_read, with which ls lists a        *)
(* directory.                                                              *)
(***************************************************************************)
EXTENDS FileSystem

CONSTANTS ChdirPaths,      \* arguments of sys_chdir, <<>> is "/"
          CwdLimit         \* components that fit in cwd_buf, 32 bytes

ASSUME WorkingDirAssumption ==
    /\ \A p \in ChdirPaths : p \in Seq(Components)
    /\ CwdLimit \in Nat

VARIABLES
    stage,           \* "prompt", "command" between two calls of one, "getcwd" after it
    cwd_inode_nr,
    cwd_buf          \* the path, <<>> for "/" and for an empty buffer

cwdVars == <<stage, cwd_inode_nr, cwd_buf>>

Nowhere == -1              \* the inode number of no parent

get_parent_dir_inode_nr(n) ==
    LET dir == inode_at(n) IN
    IF InDir(dir, <<0, 0>>) /\ EntryAt(dir, <<0, 1>>).f_type = "FT_DIRECTORY"
    THEN EntryAt(dir, <<0, 1>>).i_no ELSE Nowhere

(* The first entry with that number, of whatever name.  sys_getcwd asks    *)
(* for a name in inode -1, too: inode_open reads one from wherever it was  *)
(* last, in which nothing is found (or the process dies, a Restart).       *)
get_child_dir_name_seeded(p, n) ==              \* the first that is a directory
    LET dir == inode_at(p)
        found == {pos \in Positions : InDir(dir, pos) /\ Named(EntryAt(dir, pos))
                                      /\ EntryAt(dir, pos).f_type = "FT_DIRECTORY"}
    IN  IF found = {} THEN NULL ELSE EntryAt(dir, First(found)).filename
get_child_dir_name(p, n) ==
    LET found == {pos \in Positions : p # Nowhere /\ InDir(inode_at(p), pos)
                                      /\ EntryAt(inode_at(p), pos).i_no = n}
    IN  IF found = {} THEN NULL ELSE EntryAt(inode_at(p), First(found)).filename

(* The loop of sys_getcwd goes up to the root, or ends where it finds no   *)
(* name for child.                                                         *)
Climb(n) ==
    LET climb[k \in 0 .. MaxInodes] ==
            IF k = 0 THEN [child |-> n, path |-> <<>>]
            ELSE LET r == climb[k - 1]
                     parent == get_parent_dir_inode_nr(r.child)
                     name == get_child_dir_name(parent, r.child)
                 IN  IF r.child = Root \/ name = NULL THEN r
                     ELSE [child |-> parent, path |-> <<name>> \o r.path]
    IN  climb[MaxInodes]

(* It fails for a path that is too long and for a directory that is no     *)
(* more; the buffer is empty then.  A directory without a first block is   *)
(* not closed again (fs.cpp:805).                                          *)
sys_getcwd ==
    LET r == Climb(cwd_inode_nr) IN
    /\ stage = "getcwd" /\ stage' = "prompt"
    /\ cwd_buf' = IF r.child = Root /\ Len(r.path) <= CwdLimit THEN r.path ELSE <<>>
    /\ IF r.child # Root /\ ~InDir(inode_at(r.child), <<0, 0>>)
       THEN LeavesOpen(r.child) ELSE UNCHANGED vars
    /\ UNCHANGED cwd_inode_nr

-----------------------------------------------------------------------------
(* Which calls a command makes: one of cd, mkdir or rm, or several that    *)
(* open, write and close files, and at last remove one (mv).               *)

sys_chdir(p) ==
    LET r == search_file(p) IN
    /\ FindsDir(r)
    /\ cwd_inode_nr' = r.i_no
    /\ UNCHANGED vars

OneCall ==
    /\ stage = "prompt" /\ stage' = "getcwd"
    /\ \/ \E p \in ChdirPaths : sys_chdir(p)
       \/ /\ \/ \E p \in MkdirPaths : sys_mkdir(p)
             \/ \E p \in RmdirPaths : sys_rmdir(p)
             \/ \E p \in UnlinkPaths \cup RmdirPaths : sys_remove_root(p)
          /\ UNCHANGED cwd_inode_nr
       \/ UNCHANGED <<vars, cwd_inode_nr>>        \* ls, or a call that fails
    /\ UNCHANGED cwd_buf

FileCall ==
    /\ stage' \in {"command", "getcwd"}
    /\ \/ /\ stage \in {"prompt", "command"}
          /\ \/ \E p \in CreatePaths : sys_open_create(p)
             \/ \E p \in OpenPaths : sys_open_existing(p) \/ sys_open_table_full(p)
       \/ /\ stage = "command"
          /\ \E f \in OF!Fds : sys_close(f) \/ \E count \in WriteCounts : sys_write(f, count)
    /\ UNCHANGED <<cwd_inode_nr, cwd_buf>>

LastCall ==
    /\ stage \in {"prompt", "command"} /\ stage' = "getcwd"
    /\ \E p \in UnlinkPaths : sys_unlink(p)
    /\ UNCHANGED <<cwd_inode_nr, cwd_buf>>

(* A new process starts in the root directory.                             *)
NewProcess ==
    /\ \/ Restart
       \/ stage = "prompt" /\ \E p \in MkdirPaths : sys_mkdir_dies(p)
       \/ stage = "command" /\ \E f \in OF!Fds, count \in WriteCounts : sys_write_dies(f, count)
    /\ stage' = "prompt" /\ cwd_inode_nr' = Root /\ cwd_buf' = <<>>

WorkingDirInit == Init /\ stage = "prompt" /\ cwd_inode_nr = Root /\ cwd_buf = <<>>
WorkingDirNext == OneCall \/ FileCall \/ LastCall \/ sys_getcwd \/ NewProcess
WorkingDirSpec == WorkingDirInit /\ [][WorkingDirNext]_<<vars, cwdVars>>

-----------------------------------------------------------------------------
(* dir_read at dir_pos, counted in entries: it starts anew each time and   *)
(* passes over as many used entries as were given before.                  *)
dir_read_seeded(dir, dir_pos) ==                \* unused entries count
    LET at == {pos \in Positions : InDir(dir, pos)
                                   /\ pos[1] * PerBlock + pos[2] = dir_pos}
    IN  IF dir_pos >= dir.i_size \/ at = {} THEN NULL ELSE EntryAt(dir, First(at))
dir_read(dir, dir_pos) ==
    LET used == {pos \in Positions : InDir(dir, pos) /\ EntryAt(dir, pos).f_type # "FT_UNKNOWN"}
        at == {pos \in used : Cardinality({q \in used : Precedes(q, pos)}) = dir_pos}
    IN  IF dir_pos >= dir.i_size \/ at = {} THEN NULL ELSE EntryAt(dir, First(at))

(* At the prompt the path that the shell takes for the working directory   *)
(* leads there, unless it is too long; then relative names mean those of   *)
(* the root.  So sys_getcwd goes up through ".." entries and names that    *)
(* other calls keep right (fs.cpp:801-911).                                *)
CwdPathLeadsBack ==
    stage = "prompt" =>
        LET r == search_file(cwd_buf) IN
        /\ FindsDir(r)
        /\ r.i_no = IF Len(Climb(cwd_inode_nr).path) <= CwdLimit THEN cwd_inode_nr ELSE Root

(* Reading a directory from position 0 until there is nothing more gives   *)
(* every entry once: dir.cpp:419 stops by i_size, which other calls keep.  *)
ListingExact ==
    \A d \in Directories :
        LET dir == inode_at(d)
            read == [k \in 0 .. Cardinality(LiveEntries(d)) |-> dir_read(dir, k)]
        IN  \A e \in LiveEntries(d) \cup {NULL} :
                Cardinality({k \in DOMAIN read : read[k] = e}) = 1
=============================================================================
