--------------------------- MODULE OpenFilesProofs --------------------------
(***************************************************************************)
(* The open inodes, the slots of file_table and the descriptors fit        *)
(* together in every reachable state, for any number of inodes, slots,     *)
(* in-core inodes and leaked opens.  Lemmas first about inode_open and     *)
(* inode_close on any well-formed value of open_inodes, then one lemma per *)
(* action.                                                                 *)
(***************************************************************************)
EXTENDS OpenFiles, FiniteSetTheorems, SequenceTheorems, WellFoundedInduction, TLAPS

(* RemoveAt takes one element out and moves those behind it up.            *)
LEMMA RemoveAtOK ==
    ASSUME NEW S, NEW s \in Seq(S), NEW k \in DOMAIN s
    PROVE  /\ RemoveAt(s, k) \in Seq(S)
           /\ Len(RemoveAt(s, k)) = Len(s) - 1
           /\ \A j \in 1 .. Len(s) - 1 :
                 RemoveAt(s, k)[j] = IF j < k THEN s[j] ELSE s[j + 1]
<1> DEFINE L == SubSeq(s, 1, k - 1)
           R == SubSeq(s, k + 1, Len(s))
<1>1. k \in Nat /\ 1 <= k /\ k <= Len(s) /\ Len(s) \in Nat
  OBVIOUS
<1>2. L \in Seq(S) /\ Len(L) = k - 1 /\ \A j \in 1 .. k - 1 : L[j] = s[j]
  BY <1>1
<1>3. R \in Seq(S) /\ Len(R) = Len(s) - k /\ \A j \in 1 .. Len(s) - k : R[j] = s[k + j]
  BY <1>1
<1>4. RemoveAt(s, k) = L \o R
  BY DEF RemoveAt
<1> HIDE DEF L, R
<1>5. /\ L \o R \in Seq(S) /\ Len(L \o R) = Len(L) + Len(R)
      /\ \A j \in 1 .. Len(L) + Len(R) : (L \o R)[j] = IF j <= Len(L) THEN L[j] ELSE R[j - Len(L)]
  BY <1>2, <1>3, ConcatProperties
<1>6. ASSUME NEW j \in 1 .. Len(s) - 1
      PROVE  (L \o R)[j] = IF j < k THEN s[j] ELSE s[j + 1]
  <2>1. j < k \/ j - (k - 1) \in 1 .. Len(s) - k
    BY <1>1
  <2>2. CASE j < k
    <3>1. j \in 1 .. k - 1 /\ j <= k - 1 /\ j \in 1 .. (k - 1) + (Len(s) - k)
      BY <1>1, <2>2
    <3>2. (L \o R)[j] = L[j]
      BY <1>2, <1>3, <1>5, <3>1
    <3>3. L[j] = s[j]
      BY <1>2, <3>1
    <3> QED BY <2>2, <3>2, <3>3
  <2>3. CASE j - (k - 1) \in 1 .. Len(s) - k
    <3>1. /\ k + (j - (k - 1)) = j + 1 /\ ~(j < k) /\ ~(j <= k - 1)
          /\ j \in 1 .. (k - 1) + (Len(s) - k)
      BY <1>1, <2>3
    <3>2. Len(L) = k - 1 /\ Len(R) = Len(s) - k
      BY <1>2, <1>3
    <3>3. (L \o R)[j] = R[j - Len(L)]
      BY <1>5, <3>1, <3>2
    <3>4. R[j - (k - 1)] = s[j + 1]
      BY <1>3, <2>3, <3>1
    <3> QED BY <3>1, <3>2, <3>3, <3>4
  <2> QED BY <2>1, <2>2, <2>3
<1>7. Len(L \o R) = Len(s) - 1
  BY <1>1, <1>2, <1>3, <1>5
<1> QED BY <1>4, <1>5, <1>6, <1>7, Zenon

USE InodesAssumption, TablesAssumption, BoundsAssumption, NullAssumption

-----------------------------------------------------------------------------
(* Well-formed values of open_inodes.                                      *)

ListType(c) == c \in [object : [Addrs -> InCore \cup {NULL}], list : Seq(Addrs)]

Threaded(c) ==
    /\ \A k \in DOMAIN c.list : c.list[k] \in Live(c)
    /\ \A a \in Live(c) : \E k \in DOMAIN c.list : c.list[k] = a
    /\ \A j, k \in DOMAIN c.list : c.list[j] = c.list[k] => j = k

(* References counted on address a.                                        *)
Count(c, a) == IF c.object[a] = NULL THEN 0 ELSE c.object[a].i_open_counts

(* From c to d one reference to a came, and only a's inode was touched.    *)
Gained(c, d, a) ==
    /\ a \in Addrs
    /\ d.object[a] # NULL
    /\ Count(d, a) = Count(c, a) + 1
    /\ \A b \in Addrs \ {a} : d.object[b] = c.object[b]
    /\ c.object[a] # NULL => d.object[a].i_no = c.object[a].i_no

LEMMA NullIsNoInode == NULL \notin InCore
BY DEF InCore

LEMMA MallocIsFree ==
    ASSUME NEW c, ListType(c), HasHeap(c)
    PROVE  malloc(c) \in Addrs /\ c.object[malloc(c)] = NULL
<1>1. \E a \in Addrs : c.object[a] = NULL
  BY DEF HasHeap, Live
<1> QED BY <1>1 DEF malloc

LEMMA FirstIndex ==
    ASSUME NEW S \in SUBSET Nat, S # {}
    PROVE  \E k \in S : \A j \in S : k <= j
<1> DEFINE R == {ss \in Nat \X Nat : ss[1] < ss[2]}
<1>1. R = OpToRel(<, Nat)
  BY DEF OpToRel
<1>2. IsWellFoundedOn(R, Nat)
  BY <1>1, NatLessThanWellFounded
<1>3. PICK k \in S : \A j \in S : <<j, k>> \notin R
  BY <1>2, WFMin
<1>4. ASSUME NEW j \in S PROVE k <= j
  <2>1. <<j, k>> \notin R
    BY <1>3
  <2> QED BY <2>1
<1> QED BY <1>4

(* The inode that the scan of the list stops at is live and numbered n.    *)
LEMMA InCoreOfIsLive ==
    ASSUME NEW c, ListType(c), Threaded(c), NEW n, IsOpen(c, n)
    PROVE  /\ InCoreOf(c, n) \in Addrs
           /\ c.object[InCoreOf(c, n)] \in InCore
           /\ c.object[InCoreOf(c, n)].i_no = n
<1> DEFINE M == Matching(c, n)
<1>1. M \in SUBSET Nat /\ M # {}
  BY DEF Matching, IsOpen, ListType
<1>2. \E k \in M : \A j \in M : k <= j
  BY <1>1, FirstIndex
<1> DEFINE k == CHOOSE k \in M : \A j \in M : k <= j
<1>3. k \in M
  BY <1>2
<1>4. InCoreOf(c, n) = c.list[k]
  BY DEF InCoreOf
<1>5. c.list[k] \in Live(c) /\ c.object[c.list[k]].i_no = n
  BY <1>3 DEF Matching, Threaded
<1> QED BY <1>4, <1>5 DEF Live, ListType

-----------------------------------------------------------------------------
(* list_push of a fresh object.                                            *)
LEMMA Pushed ==
    ASSUME NEW S, NEW a \in S, NEW l \in Seq(S), NEW d, d = <<a>> \o l
    PROVE  /\ d \in Seq(S) /\ Len(d) = Len(l) + 1 /\ d[1] = a
           /\ \A k \in 2 .. Len(d) : k - 1 \in DOMAIN l /\ d[k] = l[k - 1]
           /\ \A k \in DOMAIN l : k + 1 \in DOMAIN d /\ d[k + 1] = l[k]
OBVIOUS

LEMMA PushOK ==
    ASSUME NEW c, ListType(c), Threaded(c), NEW a \in Addrs, c.object[a] = NULL,
           NEW i \in Inodes
    PROVE  LET d == list_push(c, a, i)
           IN  ListType(d) /\ Threaded(d) /\ Gained(c, d, a) /\ d.object[a].i_no = i
<1> DEFINE d == list_push(c, a, i)
           new == [i_no |-> i, i_open_counts |-> 1]
<1>1. new \in InCore /\ new # NULL
  BY NullIsNoInode DEF InCore
<1>2. /\ d.object = [c.object EXCEPT ![a] = new]
      /\ d.list = <<a>> \o c.list
      /\ d = [object |-> d.object, list |-> d.list]
  BY DEF list_push
<1>3. /\ d.object \in [Addrs -> InCore \cup {NULL}]
      /\ d.object[a] = new
      /\ \A b \in Addrs \ {a} : d.object[b] = c.object[b]
  BY <1>1, <1>2 DEF ListType
<1>4. /\ d.list \in Seq(Addrs) /\ c.list \in Seq(Addrs)
      /\ Len(d.list) = Len(c.list) + 1
      /\ d.list[1] = a
      /\ \A k \in 2 .. Len(d.list) : k - 1 \in DOMAIN c.list /\ d.list[k] = c.list[k - 1]
      /\ \A k \in DOMAIN c.list : k + 1 \in DOMAIN d.list /\ d.list[k + 1] = c.list[k]
  <2>1. d.list = <<a>> \o c.list /\ c.list \in Seq(Addrs)
    BY <1>2 DEF ListType
  <2> HIDE DEF d
  <2> QED BY <2>1, Pushed
<1>5. ListType(d)
  BY <1>2, <1>3, <1>4 DEF ListType
<1>6. Live(d) = Live(c) \cup {a} /\ a \notin Live(c)
  BY <1>1, <1>3 DEF Live
<1> HIDE DEF d
<1>7. Threaded(d)
  <2>0. \A k \in DOMAIN d.list : k = 1 \/ k \in 2 .. Len(d.list)
    BY <1>4
  <2>1. ASSUME NEW k \in DOMAIN d.list
        PROVE  d.list[k] \in Live(d)
    <3>1. CASE k = 1
      BY <1>4, <1>6, <3>1
    <3>2. CASE k \in 2 .. Len(d.list)
      BY <1>4, <1>6, <3>2 DEF Threaded
    <3> QED BY <2>0, <3>1, <3>2
  <2>2. \A b \in Live(d) : \E k \in DOMAIN d.list : d.list[k] = b
    BY <1>4, <1>6 DEF Threaded
  <2>3. ASSUME NEW j \in DOMAIN d.list, NEW k \in DOMAIN d.list, d.list[j] = d.list[k]
        PROVE  j = k
    <3>1. \A m \in 2 .. Len(d.list) : d.list[m] # a
      BY <1>4, <1>6 DEF Threaded
    <3>2. CASE j = 1 \/ k = 1
      BY <1>4, <2>0, <2>3, <3>1, <3>2
    <3>3. CASE j \in 2 .. Len(d.list) /\ k \in 2 .. Len(d.list)
      <4>1. c.list[j - 1] = c.list[k - 1] /\ j - 1 \in DOMAIN c.list /\ k - 1 \in DOMAIN c.list
        BY <1>4, <2>3, <3>3
      <4>2. j - 1 = k - 1
        BY <4>1 DEF Threaded
      <4> QED BY <3>3, <4>2
    <3> QED BY <2>0, <3>2, <3>3
  <2> QED BY <2>1, <2>2, <2>3 DEF Threaded
<1>8. Gained(c, d, a) /\ d.object[a].i_no = i
  BY <1>1, <1>3 DEF Gained, Count
<1> QED BY <1>5, <1>7, <1>8 DEF d

(* inode_open, of an inode that is in core and of one that is not.         *)
LEMMA OpenOK ==
    ASSUME NEW c, ListType(c), Threaded(c), NEW n \in Inodes, NEW i \in Inodes,
           IsOpen(c, n) \/ HasHeap(c)
    PROVE  LET d == inode_open(c, n, i)
           IN  ListType(d) /\ Threaded(d) /\ Gained(c, d, AddrOf(c, n))
<1> DEFINE d == inode_open(c, n, i)
           a == AddrOf(c, n)
<1>1. CASE IsOpen(c, n)
  <2>1. a \in Addrs /\ c.object[a] \in InCore /\ c.object[a] # NULL
    BY <1>1, InCoreOfIsLive, NullIsNoInode DEF AddrOf
  <2>2. d = [c EXCEPT !.object[a].i_open_counts = @ + 1]
    BY <1>1 DEF inode_open, AddrOf
  <2>3. /\ d.list = c.list /\ c.list \in Seq(Addrs)
        /\ d = [object |-> d.object, list |-> d.list]
        /\ d.object = [c.object EXCEPT ![a].i_open_counts = @ + 1]
    BY <2>2 DEF ListType
  <2> HIDE DEF d, a
  <2>4. /\ d.object[a] \in InCore
        /\ d.object[a].i_no = c.object[a].i_no
        /\ d.object[a].i_open_counts = c.object[a].i_open_counts + 1
        /\ \A b \in Addrs \ {a} : d.object[b] = c.object[b]
        /\ d.object \in [Addrs -> InCore \cup {NULL}]
    BY <2>1, <2>3 DEF ListType, InCore
  <2>5. d.object[a] # NULL
    BY <2>4, NullIsNoInode
  <2>6. ListType(d)
    BY <2>3, <2>4 DEF ListType
  <2>7. Live(d) = Live(c)
    BY <2>1, <2>4, <2>5 DEF Live
  <2>8. Threaded(d)
    BY <2>3, <2>7 DEF Threaded
  <2>9. Gained(c, d, a)
    BY <2>1, <2>4, <2>5 DEF Gained, Count
  <2> QED BY <2>6, <2>8, <2>9 DEF d, a
<1>2. CASE ~IsOpen(c, n)
  BY <1>2, MallocIsFree, PushOK DEF inode_open, AddrOf
<1> QED BY <1>1, <1>2

(* inode_close of a live inode: one reference less, freed with the last.   *)
LEMMA CloseOK ==
    ASSUME NEW c, ListType(c), Threaded(c), NEW a \in Addrs, c.object[a] # NULL
    PROVE  LET d == inode_close(c, a)
           IN  /\ ListType(d) /\ Threaded(d)
               /\ Count(d, a) = Count(c, a) - 1
               /\ d.object[a] # NULL => d.object[a].i_no = c.object[a].i_no
               /\ \A b \in Addrs \ {a} : d.object[b] = c.object[b]
<1> DEFINE d == inode_close(c, a)
           k == IndexOf(c, a)
<1>1. c.object[a] \in InCore /\ c.object \in [Addrs -> InCore \cup {NULL}] /\ c.list \in Seq(Addrs)
  BY DEF ListType
<1>2. CASE c.object[a].i_open_counts = 1
  <2>1. k \in DOMAIN c.list /\ c.list[k] = a
    <3>1. \E j \in DOMAIN c.list : c.list[j] = a
      BY DEF Threaded, Live
    <3> QED BY <3>1 DEF IndexOf
  <2>2. /\ d.object = [c.object EXCEPT ![a] = NULL]
        /\ d.list = RemoveAt(c.list, k)
        /\ d = [object |-> d.object, list |-> d.list]
    BY <1>2 DEF inode_close
  <2> HIDE DEF d, k
  <2>3. /\ d.object[a] = NULL
        /\ \A b \in Addrs \ {a} : d.object[b] = c.object[b]
        /\ d.object \in [Addrs -> InCore \cup {NULL}]
    BY <1>1, <2>2
  <2>4. /\ d.list \in Seq(Addrs) /\ Len(d.list) = Len(c.list) - 1
        /\ \A j \in 1 .. Len(c.list) - 1 : d.list[j] = IF j < k THEN c.list[j] ELSE c.list[j + 1]
    <3>1. c.list \in Seq(Addrs) /\ k \in DOMAIN c.list
      BY <1>1, <2>1
    <3>2. /\ RemoveAt(c.list, k) \in Seq(Addrs)
          /\ Len(RemoveAt(c.list, k)) = Len(c.list) - 1
          /\ \A j \in 1 .. Len(c.list) - 1 :
                RemoveAt(c.list, k)[j] = IF j < k THEN c.list[j] ELSE c.list[j + 1]
      BY <3>1, RemoveAtOK, Zenon
    <3> QED BY <2>2, <3>2, Zenon
  <2>5. ListType(d)
    BY <2>2, <2>3, <2>4 DEF ListType
  <2>6. Live(d) = Live(c) \ {a}
    BY <2>3 DEF Live
  <2>a. /\ k \in Nat /\ 1 <= k /\ k <= Len(c.list) /\ Len(c.list) \in Nat
        /\ DOMAIN c.list = 1 .. Len(c.list)
        /\ DOMAIN d.list = 1 .. Len(c.list) - 1
    BY <1>1, <2>1, <2>4
  <2> DEFINE old(j) == IF j < k THEN j ELSE j + 1
  <2>7. ASSUME NEW j \in DOMAIN d.list
        PROVE  old(j) \in DOMAIN c.list /\ old(j) # k /\ d.list[j] = c.list[old(j)]
    <3>1. old(j) \in 1 .. Len(c.list) /\ old(j) # k
      BY <2>a
    <3>2. d.list[j] = c.list[old(j)]
      BY <2>4, <2>a
    <3> QED BY <2>a, <3>1, <3>2
  <2>8. Threaded(d)
    <3>1. ASSUME NEW j \in DOMAIN d.list
          PROVE  d.list[j] \in Live(d)
      <4>1. c.list[old(j)] \in Live(c) /\ c.list[old(j)] # a
        BY <2>1, <2>7 DEF Threaded
      <4> QED BY <2>6, <2>7, <4>1
    <3>2. ASSUME NEW b \in Live(d)
          PROVE  \E j \in DOMAIN d.list : d.list[j] = b
      <4>1. PICK m \in DOMAIN c.list : c.list[m] = b
        BY <2>6 DEF Threaded
      <4>2. m # k
        BY <2>1, <2>6, <4>1
      <4>3. CASE m < k
        <5>1. m \in 1 .. Len(c.list) - 1
          BY <2>a, <4>3
        <5> QED BY <2>4, <2>a, <4>1, <4>3, <5>1
      <4>4. CASE m > k
        <5>1. m - 1 \in 1 .. Len(c.list) - 1 /\ ~(m - 1 < k) /\ (m - 1) + 1 = m
          BY <2>a, <4>4
        <5>2. d.list[m - 1] = c.list[m]
          BY <2>4, <5>1
        <5> QED BY <2>a, <4>1, <5>1, <5>2
      <4> QED BY <2>a, <4>2, <4>3, <4>4
    <3>3. ASSUME NEW j \in DOMAIN d.list, NEW m \in DOMAIN d.list, d.list[j] = d.list[m]
          PROVE  j = m
      <4>1. old(j) = old(m)
        BY <2>7, <3>3 DEF Threaded
      <4> QED BY <2>a, <4>1
    <3> QED BY <3>1, <3>2, <3>3 DEF Threaded
  <2>9. Count(d, a) = Count(c, a) - 1
    BY <1>2, <2>3 DEF Count
  <2> QED BY <2>3, <2>5, <2>8, <2>9 DEF d
<1>3. CASE c.object[a].i_open_counts # 1
  <2>1. /\ d.object = [c.object EXCEPT ![a].i_open_counts = @ - 1]
        /\ d.list = c.list
        /\ d = [object |-> d.object, list |-> d.list]
    BY <1>1, <1>3 DEF inode_close, ListType
  <2> HIDE DEF d, k
  <2>2. /\ d.object[a] \in InCore
        /\ d.object[a].i_no = c.object[a].i_no
        /\ d.object[a].i_open_counts = c.object[a].i_open_counts - 1
        /\ \A b \in Addrs \ {a} : d.object[b] = c.object[b]
        /\ d.object \in [Addrs -> InCore \cup {NULL}]
    BY <1>1, <1>3, <2>1 DEF InCore
  <2>3. d.object[a] # NULL
    BY <2>2, NullIsNoInode
  <2>4. ListType(d)
    BY <1>1, <2>1, <2>2 DEF ListType
  <2>5. Live(d) = Live(c)
    BY <2>2, <2>3 DEF Live
  <2>6. Threaded(d)
    BY <2>1, <2>5 DEF Threaded
  <2>7. Count(d, a) = Count(c, a) - 1
    BY <2>2, <2>3 DEF Count
  <2> QED BY <2>2, <2>4, <2>6, <2>7 DEF d
<1> QED BY <1>2, <1>3

-----------------------------------------------------------------------------
(* The inductive invariant.  ListIsLive says that every address in the     *)
(* list can be read, DescriptorsWired that a descriptor finds its slot,    *)
(* CountsMatchHolders that the slot's inode is still there when it closes. *)
IInv == TypeOK /\ ListIsLive /\ DescriptorsWired /\ CountsMatchHolders

SlotsType(t) == t \in [Slots -> Addrs \cup {NULL}]
Held(t, a) == Cardinality({s \in Slots : t[s] = a})

(* References counted = references held, an inode that is not there        *)
(* counting none.                                                          *)
Balanced(c, t, l) == \A a \in Addrs : Count(c, a) = Held(t, a) + l[a] + RootHold(a)

LEMMA NullIsNoAddr == NULL \notin Addrs /\ -1 \notin Slots /\ Slots = Fds
BY DEF Addrs, Slots, Fds

LEMMA HeldFinite ==
    ASSUME NEW t, NEW a
    PROVE  /\ IsFiniteSet({s \in Slots : t[s] = a})
           /\ Held(t, a) \in Nat
           /\ Held(t, a) = 0 <=> {s \in Slots : t[s] = a} = {}
<1>1. IsFiniteSet(Slots)
  BY FS_Interval DEF Slots
<1>2. IsFiniteSet({s \in Slots : t[s] = a})
  BY <1>1, FS_Subset
<1> QED BY <1>2, FS_CardinalityType, FS_EmptySet DEF Held

LEMMA BalancedIsCounts ==
    ASSUME TypeOK
    PROVE  CountsMatchHolders <=> Balanced(open_inodes, fileTable, leaked)
<1>1. ASSUME NEW a \in Addrs
      PROVE  (IF open_inodes.object[a] = NULL
              THEN HoldersOf(a) = {} /\ leaked[a] = 0 /\ a # RootAddr
              ELSE open_inodes.object[a].i_open_counts =
                       Cardinality(HoldersOf(a)) + leaked[a] + RootHold(a))
             <=> Count(open_inodes, a) = Held(fileTable, a) + leaked[a] + RootHold(a)
  <2>1. /\ HoldersOf(a) = {s \in Slots : fileTable[s] = a}
        /\ Cardinality(HoldersOf(a)) = Held(fileTable, a)
        /\ leaked[a] \in Nat
        /\ RootHold(a) \in Nat /\ (RootHold(a) = 0 <=> a # RootAddr)
    BY DEF HoldersOf, Held, TypeOK, RootHold
  <2>2. Held(fileTable, a) \in Nat /\ (Held(fileTable, a) = 0 <=> HoldersOf(a) = {})
    BY <2>1, HeldFinite, Zenon
  <2>3. 0 = Held(fileTable, a) + leaked[a] + RootHold(a) <=>
           Held(fileTable, a) = 0 /\ leaked[a] = 0 /\ RootHold(a) = 0
    BY <2>1, <2>2
  <2> QED BY <2>1, <2>2, <2>3, Zenon DEF Count
<1> QED BY <1>1 DEF CountsMatchHolders, Balanced

(* A reference taken by a slot that was free, one given back by a slot.    *)
LEMMA HeldAdd ==
    ASSUME NEW t, SlotsType(t), NEW s \in Slots, t[s] = NULL, NEW a \in Addrs
    PROVE  LET u == [t EXCEPT ![s] = a]
           IN  /\ SlotsType(u)
               /\ \A b \in Addrs : Held(u, b) = IF b = a THEN Held(t, b) + 1 ELSE Held(t, b)
<1> DEFINE u == [t EXCEPT ![s] = a]
<1>1. SlotsType(u)
  BY DEF SlotsType
<1>2. ASSUME NEW b \in Addrs
      PROVE  Held(u, b) = IF b = a THEN Held(t, b) + 1 ELSE Held(t, b)
  <2> DEFINE H == {x \in Slots : t[x] = b}
  <2>1. IsFiniteSet(H)
    BY HeldFinite
  <2>0. s \notin H
    BY NullIsNoAddr
  <2>2. {x \in Slots : u[x] = b} = IF b = a THEN H \cup {s} ELSE H
    BY NullIsNoAddr DEF SlotsType
  <2> HIDE DEF u
  <2>3. Cardinality(H \cup {s}) = Cardinality(H) + 1
    BY <2>0, <2>1, FS_AddElement
  <2> QED BY <2>2, <2>3 DEF Held
<1> QED BY <1>1, <1>2

LEMMA HeldDrop ==
    ASSUME NEW t, SlotsType(t), NEW s \in Slots, t[s] # NULL
    PROVE  LET u == [t EXCEPT ![s] = NULL]
           IN  /\ SlotsType(u)
               /\ Held(t, t[s]) >= 1
               /\ \A b \in Addrs : Held(u, b) = IF b = t[s] THEN Held(t, b) - 1 ELSE Held(t, b)
<1> DEFINE u == [t EXCEPT ![s] = NULL]
<1>1. SlotsType(u)
  BY DEF SlotsType
<1>2. Held(t, t[s]) >= 1
  <2>1. {x \in Slots : t[x] = t[s]} # {}
    OBVIOUS
  <2>2. Held(t, t[s]) \in Nat /\ Held(t, t[s]) # 0
    BY <2>1, HeldFinite, Zenon
  <2> QED BY <2>2
<1>3. ASSUME NEW b \in Addrs
      PROVE  Held(u, b) = IF b = t[s] THEN Held(t, b) - 1 ELSE Held(t, b)
  <2> DEFINE H == {x \in Slots : t[x] = b}
  <2>1. (s \in H <=> b = t[s]) /\ IsFiniteSet(H)
    BY HeldFinite
  <2>2. {x \in Slots : u[x] = b} = IF b = t[s] THEN H \ {s} ELSE H
    BY NullIsNoAddr DEF SlotsType
  <2> HIDE DEF u
  <2>3. s \in H => Cardinality(H \ {s}) = Cardinality(H) - 1
    BY <2>1, FS_RemoveElement
  <2> QED BY <2>1, <2>2, <2>3 DEF Held
<1> QED BY <1>1, <1>2, <1>3

-----------------------------------------------------------------------------
(* Both tables are searched for the first free entry, and find the same.   *)
LEMMA InstallOK ==
    ASSUME TypeOK, DescriptorsWired, NEW a \in Addrs, InstallFd(a)
    PROVE  /\ SlotsType(fileTable')
           /\ fdTable' \in [Fds -> Slots \cup {-1}]
           /\ DescriptorsWired'
           /\ \A b \in Addrs : Held(fileTable', b) = IF b = a THEN Held(fileTable, b) + 1
                                                             ELSE Held(fileTable, b)
           /\ \A f \in Fds : fdTable[f] # -1 =>
                  fdTable'[f] = fdTable[f] /\ fileTable'[f] = fileTable[f]
<1>1. PICK s \in Slots, f \in Fds :
        /\ IsFirst(s, FreeSlots) /\ IsFirst(f, FreeFds)
        /\ fileTable' = [fileTable EXCEPT ![s] = a]
        /\ fdTable' = [fdTable EXCEPT ![f] = s]
  BY DEF InstallFd
<1>2. FreeSlots = FreeFds
  BY NullIsNoAddr DEF DescriptorsWired, FreeSlots, FreeFds, TypeOK
<1>3. s = f /\ fileTable[s] = NULL /\ fdTable[f] = -1 /\ s \in Nat
  BY <1>1, <1>2 DEF IsFirst, FreeSlots, FreeFds, Slots
<1>4. SlotsType(fileTable)
  BY DEF TypeOK, SlotsType
<1>5. /\ SlotsType(fileTable')
      /\ \A b \in Addrs : Held(fileTable', b) = IF b = a THEN Held(fileTable, b) + 1
                                                        ELSE Held(fileTable, b)
  <2> DEFINE u == [fileTable EXCEPT ![s] = a]
  <2>1. /\ SlotsType(u)
        /\ \A b \in Addrs : Held(u, b) = IF b = a THEN Held(fileTable, b) + 1 ELSE Held(fileTable, b)
    BY <1>3, <1>4, HeldAdd, Zenon
  <2>2. fileTable' = u
    BY <1>1
  <2> QED BY <2>1, <2>2, Zenon
<1>6. fdTable' \in [Fds -> Slots \cup {-1}]
  BY <1>1 DEF TypeOK
<1>7. DescriptorsWired'
  BY <1>1, <1>3, NullIsNoAddr DEF DescriptorsWired, TypeOK
<1>8. \A g \in Fds : fdTable[g] # -1 =>
         fdTable'[g] = fdTable[g] /\ fileTable'[g] = fileTable[g]
  BY <1>1, <1>3, NullIsNoAddr DEF TypeOK
<1> QED BY <1>5, <1>6, <1>7, <1>8

-----------------------------------------------------------------------------
(* How the books stay balanced.                                            *)

LEMMA GainedIsHeld ==
    ASSUME NEW c, NEW d, NEW a, NEW t, NEW u, NEW l \in [Addrs -> Nat],
           Balanced(c, t, l), Gained(c, d, a),
           \A b \in Addrs : Held(u, b) = IF b = a THEN Held(t, b) + 1 ELSE Held(t, b)
    PROVE  Balanced(d, u, l)
<1> SUFFICES ASSUME NEW b \in Addrs
             PROVE  Count(d, b) = Held(u, b) + l[b] + RootHold(b)
  BY DEF Balanced
<1>1. /\ Count(c, b) = Held(t, b) + l[b] + RootHold(b)
      /\ Held(t, b) \in Nat /\ l[b] \in Nat /\ RootHold(b) \in Nat
  BY HeldFinite DEF Balanced, RootHold
<1>2. Count(d, b) = IF b = a THEN Count(c, b) + 1 ELSE Count(c, b)
  BY DEF Gained, Count
<1> QED BY <1>1, <1>2

LEMMA GainedIsLeaked ==
    ASSUME NEW c, NEW d, NEW a, NEW t, NEW l \in [Addrs -> Nat],
           Balanced(c, t, l), Gained(c, d, a)
    PROVE  LET m == [l EXCEPT ![a] = @ + 1]
           IN  m \in [Addrs -> Nat] /\ Balanced(d, t, m)
<1> DEFINE m == [l EXCEPT ![a] = @ + 1]
<1>1. m \in [Addrs -> Nat]
  BY DEF Gained
<1>2. ASSUME NEW b \in Addrs
      PROVE  Count(d, b) = Held(t, b) + m[b] + RootHold(b)
  <2>1. /\ Count(c, b) = Held(t, b) + l[b] + RootHold(b)
        /\ Held(t, b) \in Nat /\ l[b] \in Nat /\ RootHold(b) \in Nat
    BY HeldFinite DEF Balanced, RootHold
  <2>2. Count(d, b) = IF b = a THEN Count(c, b) + 1 ELSE Count(c, b)
    BY DEF Gained, Count
  <2>3. m[b] = IF b = a THEN l[b] + 1 ELSE l[b]
    OBVIOUS
  <2> QED BY <2>1, <2>2, <2>3
<1>3. Balanced(d, t, m)
  BY <1>2 DEF Balanced
<1> QED BY <1>1, <1>3

(* No inode in core is freed or changes its number.                        *)
KeepsNumbers(c, d) ==
    \A b \in Addrs : c.object[b] # NULL =>
        d.object[b] # NULL /\ d.object[b].i_no = c.object[b].i_no

LEMMA GainedKeeps ==
    ASSUME NEW c, NEW d, NEW a, Gained(c, d, a)
    PROVE  KeepsNumbers(c, d)
BY DEF Gained, KeepsNumbers

KeepsSlots == \A f \in Fds : fdTable[f] # -1 =>
                 fdTable'[f] = fdTable[f] /\ fileTable'[f] = fileTable[f]

(* The step of DescriptorKeepsItsInode.                                    *)
KeepsInodes ==
    \A f \in Fds :
        (fdTable[f] # -1 /\ fdTable'[f] # -1) =>
           /\ fileTable'[fdTable'[f]] = fileTable[fdTable[f]]
           /\ open_inodes'.object[fileTable[fdTable[f]]] # NULL
           /\ open_inodes'.object[fileTable[fdTable[f]]].i_no =
                  open_inodes.object[fileTable[fdTable[f]]].i_no

(* A descriptor finds an in-core inode.                                    *)
FdsHold == \A f \in Fds : fdTable[f] # -1 =>
               /\ fdTable[f] = f /\ f \in Slots
               /\ fileTable[f] \in Addrs
               /\ open_inodes.object[fileTable[f]] # NULL

LEMMA HeldIsLive == IInv => FdsHold
<1> SUFFICES ASSUME IInv, NEW f \in Fds, fdTable[f] # -1
             PROVE  /\ fdTable[f] = f /\ f \in Slots
                    /\ fileTable[f] \in Addrs
                    /\ open_inodes.object[fileTable[f]] # NULL
  BY DEF FdsHold
<1>1. fdTable[f] = f /\ f \in Slots /\ fileTable[f] \in Addrs
  BY NullIsNoAddr DEF IInv, TypeOK, DescriptorsWired
<1>2. HoldersOf(fileTable[f]) # {}
  BY <1>1 DEF HoldersOf
<1> QED BY <1>1, <1>2 DEF IInv, CountsMatchHolders

LEMMA KeepsFrom ==
    ASSUME IInv, KeepsNumbers(open_inodes, open_inodes'), KeepsSlots
    PROVE  KeepsInodes
BY HeldIsLive DEF FdsHold, KeepsInodes, KeepsSlots, KeepsNumbers

(* What a step must show of the next state.                                *)
LEMMA Reassemble ==
    ASSUME ListType(open_inodes'), Threaded(open_inodes'), SlotsType(fileTable'),
           fdTable' \in [Fds -> Slots \cup {-1}], DescriptorsWired',
           leaked' \in [Addrs -> Nat], Balanced(open_inodes', fileTable', leaked')
    PROVE  IInv'
<1>1. TypeOK'
  BY DEF TypeOK, ListType, SlotsType
<1>2. ListIsLive'
  BY DEF ListIsLive, Threaded
<1>3. (TypeOK => (CountsMatchHolders <=> Balanced(open_inodes, fileTable, leaked)))'
  BY BalancedIsCounts, PTL
<1>4. CountsMatchHolders'
  BY <1>1, <1>3
<1> QED BY <1>1, <1>2, <1>4 DEF IInv

LEMMA Disassemble ==
    ASSUME IInv
    PROVE  /\ ListType(open_inodes) /\ Threaded(open_inodes) /\ SlotsType(fileTable)
           /\ fdTable \in [Fds -> Slots \cup {-1}] /\ DescriptorsWired
           /\ leaked \in [Addrs -> Nat] /\ Balanced(open_inodes, fileTable, leaked)
BY BalancedIsCounts DEF IInv, TypeOK, ListIsLive, ListType, Threaded, SlotsType

-----------------------------------------------------------------------------
(* The steps.                                                              *)

(* A descriptor on an inode that gained a reference.                       *)
LEMMA InstallStep ==
    ASSUME IInv, NEW a, Gained(open_inodes, open_inodes', a), InstallFd(a),
           ListType(open_inodes'), Threaded(open_inodes'), UNCHANGED leaked
    PROVE  IInv' /\ KeepsInodes
<1>1. a \in Addrs
  BY DEF Gained
<1>2. /\ SlotsType(fileTable') /\ fdTable' \in [Fds -> Slots \cup {-1}] /\ DescriptorsWired'
      /\ \A b \in Addrs : Held(fileTable', b) = IF b = a THEN Held(fileTable, b) + 1
                                                        ELSE Held(fileTable, b)
      /\ KeepsSlots
  BY <1>1, InstallOK DEF IInv, KeepsSlots
<1>3. leaked \in [Addrs -> Nat] /\ Balanced(open_inodes, fileTable, leaked)
  BY Disassemble
<1>4. Balanced(open_inodes', fileTable', leaked)
  BY <1>2, <1>3, GainedIsHeld
<1>5. IInv'
  BY <1>2, <1>3, <1>4, Reassemble
<1> QED BY <1>2, <1>5, GainedKeeps, KeepsFrom

LEMMA file_createStep ==
    ASSUME IInv, NEW n \in Inodes, file_create(n)
    PROVE  IInv' /\ KeepsInodes
<1>1. ListType(open_inodes) /\ Threaded(open_inodes)
  BY Disassemble
<1>2. malloc(open_inodes) \in Addrs /\ open_inodes.object[malloc(open_inodes)] = NULL
  BY <1>1, MallocIsFree DEF file_create
<1>3. /\ ListType(open_inodes') /\ Threaded(open_inodes')
      /\ Gained(open_inodes, open_inodes', malloc(open_inodes))
  BY <1>1, <1>2, PushOK DEF file_create
<1> QED BY <1>3, InstallStep DEF file_create

LEMMA file_openStep ==
    ASSUME IInv, NEW n \in Inodes, NEW i \in Inodes, file_open(n, i)
    PROVE  IInv' /\ KeepsInodes
<1>1. ListType(open_inodes) /\ Threaded(open_inodes)
  BY Disassemble
<1>2. /\ ListType(open_inodes') /\ Threaded(open_inodes')
      /\ Gained(open_inodes, open_inodes', AddrOf(open_inodes, n))
  BY <1>1, OpenOK DEF file_open
<1> QED BY <1>2, InstallStep DEF file_open

LEMMA leakStep ==
    ASSUME IInv, NEW d \in Inodes, NEW j \in Inodes, leak(d, j)
    PROVE  IInv' /\ KeepsInodes
<1> DEFINE a == AddrOf(open_inodes, d)
<1>1. /\ ListType(open_inodes) /\ Threaded(open_inodes)
      /\ leaked \in [Addrs -> Nat] /\ Balanced(open_inodes, fileTable, leaked)
  BY Disassemble
<1>2. ListType(open_inodes') /\ Threaded(open_inodes') /\ Gained(open_inodes, open_inodes', a)
  BY <1>1, OpenOK DEF leak
<1>3. leaked' \in [Addrs -> Nat] /\ Balanced(open_inodes', fileTable, leaked')
  BY <1>1, <1>2, GainedIsLeaked DEF leak
<1>4. fileTable' = fileTable /\ fdTable' = fdTable
  BY DEF leak
<1>5. SlotsType(fileTable') /\ fdTable' \in [Fds -> Slots \cup {-1}] /\ DescriptorsWired'
  BY <1>4, Disassemble DEF DescriptorsWired
<1>6. IInv'
  BY <1>2, <1>3, <1>4, <1>5, Reassemble
<1>7. KeepsSlots
  BY <1>4 DEF KeepsSlots
<1> QED BY <1>2, <1>6, <1>7, GainedKeeps, KeepsFrom

LEMMA file_open_belowStep ==
    ASSUME IInv, NEW n \in Inodes, NEW i \in Inodes, NEW d \in Inodes, NEW j \in Inodes,
           file_open_below(n, i, d, j)
    PROVE  IInv' /\ KeepsInodes
<1> DEFINE searched == inode_open(open_inodes, d, j)
           p == AddrOf(open_inodes, d)
           a == AddrOf(searched, n)
<1>1. /\ ListType(open_inodes) /\ Threaded(open_inodes)
      /\ leaked \in [Addrs -> Nat] /\ Balanced(open_inodes, fileTable, leaked)
  BY Disassemble
<1>2. /\ IsOpen(open_inodes, d) \/ HasHeap(open_inodes)
      /\ IsOpen(searched, n) \/ HasHeap(searched)
      /\ leaked' = [leaked EXCEPT ![p] = @ + 1]
      /\ InstallFd(a)
      /\ open_inodes' = inode_open(searched, n, i)
  BY DEF file_open_below
<1>3. ListType(searched) /\ Threaded(searched) /\ Gained(open_inodes, searched, p)
  BY <1>1, <1>2, OpenOK
<1> HIDE DEF searched, p, a
<1>4. ListType(open_inodes') /\ Threaded(open_inodes') /\ Gained(searched, open_inodes', a)
  BY <1>2, <1>3, OpenOK DEF a
<1>5. leaked' \in [Addrs -> Nat] /\ Balanced(searched, fileTable, leaked')
  BY <1>1, <1>2, <1>3, GainedIsLeaked
<1>6. /\ SlotsType(fileTable') /\ fdTable' \in [Fds -> Slots \cup {-1}] /\ DescriptorsWired'
      /\ \A b \in Addrs : Held(fileTable', b) = IF b = a THEN Held(fileTable, b) + 1
                                                        ELSE Held(fileTable, b)
      /\ KeepsSlots
  <2>1. a \in Addrs
    BY <1>4 DEF Gained
  <2> QED BY <1>2, <2>1, InstallOK DEF IInv, KeepsSlots
<1>7. Balanced(open_inodes', fileTable', leaked')
  BY <1>4, <1>5, <1>6, GainedIsHeld
<1>8. IInv'
  BY <1>4, <1>5, <1>6, <1>7, Reassemble
<1>9. KeepsNumbers(open_inodes, open_inodes')
  <2>1. KeepsNumbers(open_inodes, searched) /\ KeepsNumbers(searched, open_inodes')
    BY <1>3, <1>4, GainedKeeps
  <2> QED BY <2>1 DEF KeepsNumbers
<1> QED BY <1>6, <1>8, <1>9, KeepsFrom

(* The slot of f gives back its reference; the inode goes with the last,   *)
(* and then no other slot had one.                                         *)
LEMMA sys_closeStep ==
    ASSUME IInv, NEW f \in Fds, sys_close(f)
    PROVE  IInv' /\ KeepsInodes
<1> DEFINE a == fileTable[f]
<1>1. /\ fdTable[f] = f /\ f \in Slots /\ a \in Addrs /\ open_inodes.object[a] # NULL
      /\ a # NULL
  BY HeldIsLive, NullIsNoAddr DEF FdsHold, sys_close
<1>2. /\ open_inodes' = inode_close(open_inodes, a)
      /\ fileTable' = [fileTable EXCEPT ![f] = NULL]
      /\ fdTable' = [fdTable EXCEPT ![f] = -1]
      /\ leaked' = leaked
  BY <1>1 DEF sys_close
<1>3. /\ ListType(open_inodes) /\ Threaded(open_inodes) /\ SlotsType(fileTable)
      /\ fdTable \in [Fds -> Slots \cup {-1}] /\ DescriptorsWired
      /\ leaked \in [Addrs -> Nat] /\ Balanced(open_inodes, fileTable, leaked)
  BY Disassemble
<1>4. /\ ListType(open_inodes') /\ Threaded(open_inodes')
      /\ Count(open_inodes', a) = Count(open_inodes, a) - 1
      /\ open_inodes'.object[a] # NULL => open_inodes'.object[a].i_no = open_inodes.object[a].i_no
      /\ \A b \in Addrs \ {a} : open_inodes'.object[b] = open_inodes.object[b]
  BY <1>1, <1>2, <1>3, CloseOK
<1>5. /\ SlotsType(fileTable')
      /\ \A b \in Addrs : Held(fileTable', b) = IF b = a THEN Held(fileTable, b) - 1
                                                        ELSE Held(fileTable, b)
  <2> DEFINE u == [fileTable EXCEPT ![f] = NULL]
  <2>1. /\ SlotsType(u)
        /\ \A b \in Addrs : Held(u, b) = IF b = a THEN Held(fileTable, b) - 1
                                                 ELSE Held(fileTable, b)
    BY <1>1, <1>3, HeldDrop, Zenon
  <2> QED BY <1>2, <2>1, Zenon
<1> HIDE DEF a
<1>6. fdTable' \in [Fds -> Slots \cup {-1}] /\ DescriptorsWired'
  BY <1>1, <1>2, <1>3, NullIsNoAddr DEF DescriptorsWired, SlotsType
<1>7. Balanced(open_inodes', fileTable', leaked')
  <2>1. ASSUME NEW b \in Addrs
        PROVE  Count(open_inodes', b) = Held(fileTable', b) + leaked'[b] + RootHold(b)
    <3>1. /\ Count(open_inodes, b) = Held(fileTable, b) + leaked[b] + RootHold(b)
          /\ Held(fileTable, b) \in Nat /\ leaked[b] \in Nat /\ RootHold(b) \in Nat
      BY <1>3, HeldFinite DEF Balanced, RootHold
    <3>2. Count(open_inodes', b) = IF b = a THEN Count(open_inodes, b) - 1 ELSE Count(open_inodes, b)
      BY <1>4 DEF Count
    <3>3. Held(fileTable', b) = IF b = a THEN Held(fileTable, b) - 1 ELSE Held(fileTable, b)
      BY <1>5
    <3>4. leaked'[b] = leaked[b]
      BY <1>2
    <3> QED BY <3>1, <3>2, <3>3, <3>4
  <2> QED BY <2>1 DEF Balanced
<1>8. IInv'
  BY <1>2, <1>3, <1>4, <1>5, <1>6, <1>7, Reassemble
<1>9. ASSUME NEW g \in Fds, fdTable[g] # -1, fdTable'[g] # -1
      PROVE  /\ fileTable'[fdTable'[g]] = fileTable[fdTable[g]]
             /\ open_inodes'.object[fileTable[fdTable[g]]] # NULL
             /\ open_inodes'.object[fileTable[fdTable[g]]].i_no =
                    open_inodes.object[fileTable[fdTable[g]]].i_no
  <2>1. g # f /\ fdTable'[g] = fdTable[g] /\ fdTable[g] = g /\ fileTable'[g] = fileTable[g]
        /\ fileTable[g] \in Addrs
    BY <1>1, <1>2, <1>3, <1>9, HeldIsLive DEF FdsHold, SlotsType
  <2>2. open_inodes'.object[fileTable'[g]] # NULL
    <3>1. (IInv => FdsHold)'
      BY HeldIsLive, PTL
    <3> QED BY <1>8, <1>9, <3>1 DEF FdsHold
  <2> QED BY <1>4, <2>1, <2>2
<1> QED BY <1>8, <1>9 DEF KeepsInodes

(* No descriptor open, and in core the root alone.                         *)
LEMMA FreshOK ==
    /\ ListType(OnlyRoot) /\ Threaded(OnlyRoot)
    /\ Balanced(OnlyRoot, [s \in Slots |-> NULL], [a \in Addrs |-> 0])
<1> DEFINE root == [i_no |-> Root, i_open_counts |-> 1]
<1>1. root \in InCore /\ root # NULL /\ RootAddr \in Addrs
  BY NullIsNoInode DEF InCore, RootAddr, Addrs
<1>2. /\ OnlyRoot.object = [a \in Addrs |-> IF a = RootAddr THEN root ELSE NULL]
      /\ OnlyRoot.list = <<RootAddr>>
      /\ OnlyRoot = [object |-> OnlyRoot.object, list |-> OnlyRoot.list]
  BY DEF OnlyRoot
<1>3. Live(OnlyRoot) = {RootAddr}
  BY <1>1, <1>2 DEF Live
<1>4. ListType(OnlyRoot)
  <2>1. OnlyRoot.object \in [Addrs -> InCore \cup {NULL}]
    BY <1>1, <1>2
  <2>2. OnlyRoot.list \in Seq(Addrs)
    BY <1>1, <1>2
  <2> QED BY <1>2, <2>1, <2>2 DEF ListType
<1>5. Threaded(OnlyRoot)
  BY <1>2, <1>3 DEF Threaded
<1>6. ASSUME NEW a \in Addrs
      PROVE  Count(OnlyRoot, a) = Held([s \in Slots |-> NULL], a) + [x \in Addrs |-> 0][a] + RootHold(a)
  <2>1. Held([s \in Slots |-> NULL], a) = 0
    <3>1. {s \in Slots : [x \in Slots |-> NULL][s] = a} = {}
      BY NullIsNoAddr
    <3> QED BY <3>1, FS_EmptySet DEF Held
  <2>2. Count(OnlyRoot, a) = RootHold(a)
    BY <1>1, <1>2 DEF Count, RootHold
  <2>3. RootHold(a) \in Nat
    BY DEF RootHold
  <2> QED BY <2>1, <2>2, <2>3
<1>7. Balanced(OnlyRoot, [s \in Slots |-> NULL], [a \in Addrs |-> 0])
  BY <1>6 DEF Balanced
<1> QED BY <1>4, <1>5, <1>7

LEMMA InitIInv == Init => IInv
<1> SUFFICES ASSUME Init PROVE IInv
  OBVIOUS
<1>1. /\ ListType(open_inodes) /\ Threaded(open_inodes)
      /\ Balanced(open_inodes, fileTable, leaked)
  BY FreshOK DEF Init
<1>2. TypeOK
  BY <1>1 DEF Init, TypeOK, ListType
<1>3. DescriptorsWired
  BY NullIsNoAddr DEF Init, DescriptorsWired
<1> QED BY <1>1, <1>2, <1>3, BalancedIsCounts DEF IInv, ListIsLive, Threaded

LEMMA mount_partitionStep ==
    ASSUME mount_partition
    PROVE  IInv' /\ KeepsInodes
<1>1. (Init => IInv)'
  BY InitIInv, PTL
<1>2. Init'
  BY DEF mount_partition, Init
<1>3. \A f \in Fds : fdTable'[f] = -1
  BY DEF mount_partition
<1> QED BY <1>1, <1>2, <1>3 DEF KeepsInodes

LEMMA StutterStep ==
    ASSUME IInv, UNCHANGED vars
    PROVE  IInv' /\ KeepsInodes
<1>1. IInv'
  <2>1. TypeOK'
    BY DEF vars, IInv, TypeOK
  <2>2. ListIsLive'
    BY DEF vars, IInv, ListIsLive, Live
  <2>3. DescriptorsWired'
    BY DEF vars, IInv, DescriptorsWired
  <2>4. CountsMatchHolders'
    BY DEF vars, IInv, CountsMatchHolders, HoldersOf
  <2> QED BY <2>1, <2>2, <2>3, <2>4 DEF IInv
<1>2. KeepsInodes
  BY HeldIsLive DEF FdsHold, vars, KeepsInodes
<1> QED BY <1>1, <1>2

LEMMA NextStep == IInv /\ [Next]_vars => IInv' /\ KeepsInodes
<1> SUFFICES ASSUME IInv, [Next]_vars
             PROVE  IInv' /\ KeepsInodes
  OBVIOUS
<1>1. ASSUME NEW n \in Inodes, file_create(n) PROVE IInv' /\ KeepsInodes
  BY <1>1, file_createStep
<1>2. ASSUME NEW n \in Inodes, NEW i \in Inodes, file_open(n, i) PROVE IInv' /\ KeepsInodes
  BY <1>2, file_openStep
<1>3. ASSUME NEW d \in Inodes, NEW j \in Inodes, leak(d, j) PROVE IInv' /\ KeepsInodes
  BY <1>3, leakStep
<1>4. ASSUME NEW n \in Inodes, NEW i \in Inodes, NEW d \in Inodes, NEW j \in Inodes,
             file_open_below(n, i, d, j)
      PROVE  IInv' /\ KeepsInodes
  BY <1>4, file_open_belowStep
<1>5. ASSUME NEW f \in Fds, sys_close(f) PROVE IInv' /\ KeepsInodes
  BY <1>5, sys_closeStep
<1>6. CASE mount_partition
  BY <1>6, mount_partitionStep
<1>7. CASE UNCHANGED vars
  BY <1>7, StutterStep
<1> QED BY <1>1, <1>2, <1>3, <1>4, <1>5, <1>6, <1>7 DEF Next

-----------------------------------------------------------------------------
(* Every step of open, create, close and restart keeps the invariant.      *)
THEOREM SpecIInv == Spec => []IInv
<1>1. IInv /\ [Next]_vars => IInv'
  BY NextStep
<1> QED BY InitIInv, <1>1, PTL DEF Spec

(* Slots hold addresses of in-core inodes and descriptors hold slots.      *)
THEOREM TypeCorrect == Spec => []TypeOK
<1>1. IInv => TypeOK
  BY DEF IInv
<1> QED BY SpecIInv, <1>1, PTL

(* The reference counts of the open inodes are exact: no double free, no   *)
(* slot of file_table left pointing to a freed inode.                      *)
THEOREM CountsExact == Spec => []CountsMatchHolders
<1>1. IInv => CountsMatchHolders
  BY DEF IInv
<1> QED BY SpecIInv, <1>1, PTL

(* open_inodes lists exactly the in-core inodes that are allocated.        *)
THEOREM ListExact == Spec => []ListIsLive
<1>1. IInv => ListIsLive
  BY DEF IInv
<1> QED BY SpecIInv, <1>1, PTL

(* Descriptor f uses slot f, as long as the slot is taken.                 *)
THEOREM TablesInStep == Spec => []DescriptorsWired
<1>1. IInv => DescriptorsWired
  BY DEF IInv
<1> QED BY SpecIInv, <1>1, PTL

(* An open descriptor stays on the inode it was opened on.                 *)
THEOREM InodeKept == Spec => DescriptorKeepsItsInode
<1>1. IInv /\ [Next]_vars => [KeepsInodes]_vars
  BY NextStep
<1> QED BY SpecIInv, <1>1, PTL DEF Spec, DescriptorKeepsItsInode, KeepsInodes
=============================================================================
