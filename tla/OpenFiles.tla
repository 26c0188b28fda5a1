------------------------------ MODULE OpenFiles ------------------------------
(***************************************************************************)
(* The in-memory bookkeeping of open inodes and descriptors:               *)
(*   - current_partition.open_inodes, the list of open in-core inodes that *)
(*     inode.cpp keeps "to be faster" and counts references on,            *)
(*   - file_table[MAX_FILE_OPEN], whose slots point into that list,        *)
(*   - pcb.fd_table[MAX_FILES_OPEN_PER_PROC], which names the slots.       *)
(* What an inode CONTAINS is left to FileSystem.tla; here an in-core inode *)
(* is its number and its reference count.                                  *)
(*                                                                         *)
(* A call that opens an inode and closes it again before it returns (every *)
(* directory search_file walks through, the inode_open of inode_release)   *)
(* leaves open_inodes as it was, so only the opens that outlive a call are *)
(* steps here.                                                             *)
(***************************************************************************)
EXTENDS Integers, Sequences, FiniteSets, SequencesExt

CONSTANTS
    Inodes,                  \* inode numbers of the partition
    MAX_FILE_OPEN,           \* entries of file_table, 16 in file.h
    MAX_FILES_OPEN_PER_PROC, \* entries of fd_table, 16 in pcb.h
    HeapSize,                \* bound: in-core inodes the heap can hold
    MaxLeaks,                \* bound: opens of one inode that are never closed
    NULL

Root == 0                    \* sb.root_inode_no, set by partition_format

ASSUME InodesAssumption == Inodes \subseteq Nat /\ Root \in Inodes
ASSUME TablesAssumption ==
    /\ MAX_FILE_OPEN \in Nat
    /\ MAX_FILES_OPEN_PER_PROC \in Nat
    /\ MAX_FILE_OPEN = MAX_FILES_OPEN_PER_PROC
ASSUME BoundsAssumption == HeapSize \in Nat \ {0} /\ MaxLeaks \in Nat
ASSUME NullAssumption == NULL \notin Nat /\ NULL \notin [i_no : Nat, i_open_counts : Nat]

Slots == 3 .. MAX_FILE_OPEN - 1             \* 0, 1 and 2 are the standard streams
Fds   == 3 .. MAX_FILES_OPEN_PER_PROC - 1
Addrs == 1 .. HeapSize                      \* where malloc may put an in-core inode
RootAddr == 1                               \* root_dir.inode, the first one opened

VARIABLES
    open_inodes,  \* [object: what each address holds, list: front to back]
    fileTable,    \* fd_inode of every slot of file_table
    fdTable,      \* cur->fd_table, -1 when free
    leaked        \* history: opens of each in-core inode whose closer is gone

vars == <<open_inodes, fileTable, fdTable, leaked>>

InCore == [i_no : Inodes, i_open_counts : Nat \ {0}]

-----------------------------------------------------------------------------
(* inode_open and inode_close on a value c of open_inodes.                 *)

Live(c) == {a \in Addrs : c.object[a] # NULL}
HasHeap(c) == Live(c) # Addrs
malloc(c) == CHOOSE a \in Addrs : c.object[a] = NULL

Matching(c, n) == {k \in DOMAIN c.list : c.object[c.list[k]].i_no = n}
IsOpen(c, n) == Matching(c, n) # {}

(* The scan from open_inodes.head stops at the first object numbered n.    *)
InCoreOf(c, n) == c.list[CHOOSE k \in Matching(c, n) : \A j \in Matching(c, n) : k <= j]

AddrOf(c, n) == IF IsOpen(c, n) THEN InCoreOf(c, n) ELSE malloc(c)

list_push(c, a, i) ==
    [object |-> [c.object EXCEPT ![a] = [i_no |-> i, i_open_counts |-> 1]],
     list   |-> <<a>> \o c.list]

(* Definitions named _seeded hold a plausible bug; nothing uses them but   *)
(* the runs that show a property fails with the bug in place.              *)
inode_open_seeded(c, n, i) ==                   \* the count is forgotten
    IF IsOpen(c, n) THEN c ELSE list_push(c, malloc(c), i)

(* i is the number that the slot of n in the inode table holds: n, unless  *)
(* the slot was cleared (0) or another inode was written there.            *)
inode_open(c, n, i) ==
    IF IsOpen(c, n)
    THEN [c EXCEPT !.object[InCoreOf(c, n)].i_open_counts = @ + 1]
    ELSE list_push(c, malloc(c), i)

IndexOf(c, a) == CHOOSE k \in DOMAIN c.list : c.list[k] = a

inode_close_seeded(c, a) ==                     \* freed, and still on the list
    [c EXCEPT !.object[a] = NULL]
inode_close_seeded_early(c, a) ==               \* freed while others hold it
    [object |-> [c.object EXCEPT ![a] = NULL],
     list   |-> RemoveAt(c.list, IndexOf(c, a))]
inode_close_seeded_late(c, a) ==                \* never freed
    [c EXCEPT !.object[a].i_open_counts = @ - 1]

inode_close(c, a) ==
    IF c.object[a].i_open_counts = 1
    THEN [object |-> [c.object EXCEPT ![a] = NULL],
          list   |-> RemoveAt(c.list, IndexOf(c, a))]
    ELSE [c EXCEPT !.object[a].i_open_counts = @ - 1]

-----------------------------------------------------------------------------
(* Descriptors.                                                            *)

FreeSlots == {s \in Slots : fileTable[s] = NULL}
FreeFds == {f \in Fds : fdTable[f] = -1}
IsFirst(x, S) == x \in S /\ \A y \in S : x <= y
OpenFds == Fds \ FreeFds
InUse(n) == \E s \in Slots : fileTable[s] # NULL /\ open_inodes.object[fileTable[s]].i_no = n

(* get_free_slot_in_file_table followed by pcb_fd_install.                 *)
InstallFd(a) ==
    \E s \in Slots, f \in Fds :
        /\ IsFirst(s, FreeSlots)
        /\ IsFirst(f, FreeFds)
        /\ fileTable' = [fileTable EXCEPT ![s] = a]
        /\ fdTable' = [fdTable EXCEPT ![f] = s]

-----------------------------------------------------------------------------
(* list_init, then open_root_dir: the root is opened once and for good.    *)
OnlyRoot ==
    [object |-> [a \in Addrs |-> IF a = RootAddr
                                 THEN [i_no |-> Root, i_open_counts |-> 1] ELSE NULL],
     list   |-> <<RootAddr>>]

Init ==
    /\ open_inodes = OnlyRoot
    /\ fileTable = [s \in Slots |-> NULL]
    /\ fdTable = [f \in Fds |-> -1]
    /\ leaked = [a \in Addrs |-> 0]

(* file_create: the fresh in-core inode goes to the front of the list,     *)
(* without a look at what the list already holds.                          *)
file_create(n) ==
    /\ HasHeap(open_inodes)
    /\ InstallFd(malloc(open_inodes))
    /\ open_inodes' = list_push(open_inodes, malloc(open_inodes), n)
    /\ UNCHANGED leaked

(* sys_open of an existing file in the root directory.                     *)
file_open(n, i) ==
    /\ IsOpen(open_inodes, n) \/ HasHeap(open_inodes)
    /\ InstallFd(AddrOf(open_inodes, n))
    /\ open_inodes' = inode_open(open_inodes, n, i)
    /\ UNCHANGED leaked

(* The parent directory d that search_file left open is never closed.      *)
leak(d, i) ==
    /\ IsOpen(open_inodes, d) \/ HasHeap(open_inodes)
    /\ leaked[AddrOf(open_inodes, d)] < MaxLeaks
    /\ leaked' = [leaked EXCEPT ![AddrOf(open_inodes, d)] = @ + 1]
    /\ open_inodes' = inode_open(open_inodes, d, i)
    /\ UNCHANGED <<fileTable, fdTable>>

(* sys_open of an existing file below the root: search_file opened the     *)
(* parent d, file_open opens n, and only n has a closer.                   *)
file_open_below(n, i, d, j) ==
    LET searched == inode_open(open_inodes, d, j) IN
    /\ IsOpen(open_inodes, d) \/ HasHeap(open_inodes)
    /\ leaked[AddrOf(open_inodes, d)] < MaxLeaks
    /\ leaked' = [leaked EXCEPT ![AddrOf(open_inodes, d)] = @ + 1]
    /\ IsOpen(searched, n) \/ HasHeap(searched)
    /\ InstallFd(AddrOf(searched, n))
    /\ open_inodes' = inode_open(searched, n, i)

sys_close_seeded(f) ==                          \* fd_table keeps the descriptor
    /\ fdTable[f] # -1 /\ fileTable[fdTable[f]] # NULL
    /\ open_inodes' = inode_close(open_inodes, fileTable[fdTable[f]])
    /\ fileTable' = [fileTable EXCEPT ![fdTable[f]] = NULL]
    /\ UNCHANGED <<fdTable, leaked>>

sys_close(f) ==
    /\ fdTable[f] # -1
    /\ open_inodes' = inode_close(open_inodes, fileTable[fdTable[f]])
    /\ fileTable' = [fileTable EXCEPT ![fdTable[f]] = NULL]
    /\ fdTable' = [fdTable EXCEPT ![f] = -1]
    /\ UNCHANGED leaked

(* The process ends, in any way, and the next one mounts the partition.    *)
mount_partition ==
    /\ open_inodes' = OnlyRoot
    /\ fileTable' = [s \in Slots |-> NULL]
    /\ fdTable' = [f \in Fds |-> -1]
    /\ leaked' = [a \in Addrs |-> 0]

Next ==
    \/ \E n \in Inodes : file_create(n)
    \/ \E n, i \in Inodes : file_open(n, i)
    \/ \E d, j \in Inodes : leak(d, j)
    \/ \E n, i, d, j \in Inodes : file_open_below(n, i, d, j)
    \/ \E f \in Fds : sys_close(f)
    \/ mount_partition

Spec == Init /\ [][Next]_vars

-----------------------------------------------------------------------------
TypeOK ==
    /\ open_inodes \in [object : [Addrs -> InCore \cup {NULL}], list : Seq(Addrs)]
    /\ fileTable \in [Slots -> Addrs \cup {NULL}]
    /\ fdTable \in [Fds -> Slots \cup {-1}]
    /\ leaked \in [Addrs -> Nat]

(* The list threads through every in-core inode that was allocated and not *)
(* yet freed, once each: list_remove before free, list_push after malloc.  *)
ListIsLive ==
    LET L == open_inodes.list IN
    /\ \A k \in DOMAIN L : L[k] \in Live(open_inodes)
    /\ \A a \in Live(open_inodes) : \E k \in DOMAIN L : L[k] = a
    /\ \A j, k \in DOMAIN L : L[j] = L[k] => j = k

HoldersOf(a) == {s \in Slots : fileTable[s] = a}
RootHold(a) == IF a = RootAddr THEN 1 ELSE 0

(* Every reference counted on an in-core inode has a holder: a slot of     *)
(* file_table, root_dir, or an open that was leaked.  Nothing points to an *)
(* inode that was freed, so no close is a double free and no slot dangles. *)
CountsMatchHolders ==
    \A a \in Addrs :
        IF open_inodes.object[a] = NULL
        THEN HoldersOf(a) = {} /\ leaked[a] = 0 /\ a # RootAddr
        ELSE open_inodes.object[a].i_open_counts =
                 Cardinality(HoldersOf(a)) + leaked[a] + RootHold(a)

(* fd_table and file_table are both searched from 3 upwards and stay in    *)
(* step: descriptor f names slot f, exactly while that slot is taken.      *)
DescriptorsWired ==
    \A f \in Fds : fdTable[f] = IF fileTable[f] = NULL THEN -1 ELSE f

(* Until the process ends, no step changes the number of an in-core inode  *)
(* some descriptor points to, nor frees it while that descriptor is open.  *)
DescriptorKeepsItsInode ==
    [][\A f \in Fds :
          (fdTable[f] # -1 /\ fdTable'[f] # -1) =>
             /\ fileTable'[fdTable'[f]] = fileTable[fdTable[f]]
             /\ open_inodes'.object[fileTable[fdTable[f]]] # NULL
             /\ open_inodes'.object[fileTable[fdTable[f]]].i_no =
                    open_inodes.object[fileTable[fdTable[f]]].i_no]_vars
=============================================================================
