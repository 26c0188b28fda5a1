-------------------------- MODULE NamespaceProofs ---------------------------
(***************************************************************************)
(* What paths say is right, whatever calls came before.  sys_getcwd and ls *)
(* (WorkingDir): the path put together from ".." entries and names leads   *)
(* back, and a listing gives each entry once.  The calls (NameView):       *)
(* FileSystem implements Namespace, every call does to the paths a user    *)
(* sees what the abstract file system does.  All of it follows from the    *)
(* tree of FileSystemProofs, under the same hypotheses.                    *)
(***************************************************************************)
EXTENDS WorkingDir, NameView, FileSystemProofs, SequenceTheorems

(* No rmdir of the working directory either: sys_getcwd would then open    *)
(* the cleared inode and leave it open (fs.cpp:805).                       *)
KeepsCwd == \A p \in RmdirPaths : sys_rmdir(p) => search_file(p).i_no # cwd_inode_nr
CarefulProcess == WorkingDirSpec /\ [][Careful]_vars /\ [][KeepsCwd]_vars

-----------------------------------------------------------------------------
(* The place of a directory in its parent, found from below and from above.*)
NameOf(up, place, n) == Ent(inodeTable, blocks, up[n], place[n]).filename

LEMMA ParentFacts ==
    ASSUME IInv, Sound, NEW D, NEW up, NEW place, NEW depth, InTree(D, up, place, depth),
           NEW n \in D
    PROVE  /\ get_parent_dir_inode_nr(n) = up[n] /\ up[n] \in D
           /\ depth[n] \in Nat /\ (depth[n] = 0 <=> n = Root)
           /\ n # Root => depth[n] = depth[up[n]] + 1
<1> DEFINE t == inodeTable
           bl == blocks
<1>1. Tree(inodeBitmap, D, up, place, depth, t, bl) /\ inode_at(n) = t[n]
  BY TreeFacts
<1>2. Ent(t, bl, n, <<0, 1>>) = Entry("..", up[n], "FT_DIRECTORY")
  BY <1>1 DEF Tree, DotsRight
<1>3. /\ InDir(inode_at(n), <<0, 0>>)
      /\ EntryAt(inode_at(n), <<0, 1>>) = Ent(t, bl, n, <<0, 1>>)
  <2>1. <<0, 0>> \in Used(t, bl, n)
    BY <1>1 DEF Tree, DotsRight, Dots
  <2> QED BY <1>1, <2>1 DEF Used, Has, InDir, EntryAt, Ent, At
<1>4. get_parent_dir_inode_nr(n) = up[n]
  BY <1>2, <1>3 DEF get_parent_dir_inode_nr, Entry
<1>5. up[n] \in D /\ depth[n] \in Nat /\ depth[up[n]] \in Nat
  BY <1>1 DEF Tree, TreeType
<1>6. depth[Root] = 0 /\ (n # Root => depth[n] = depth[up[n]] + 1)
  BY <1>1 DEF Tree, DepthsRight
<1>7. depth[n] = 0 <=> n = Root
  BY <1>5, <1>6
<1> QED BY <1>4, <1>5, <1>6, <1>7

(* The name of a directory is that of the only entry with its number: "."  *)
(* and ".." lead to directories of other depths, an unused entry to the    *)
(* root.                                                                   *)
LEMMA NameFacts ==
    ASSUME IInv, Sound, NEW D, NEW up, NEW place, NEW depth, InTree(D, up, place, depth),
           NEW n \in D, n # Root
    PROVE  LET name == NameOf(up, place, n)
               e == search_dir_entry[inodeTable[up[n]]][name]
           IN  /\ get_child_dir_name(up[n], n) = name
               /\ name \in Names
               /\ e \in Entries /\ e # NULL /\ e.f_type = "FT_DIRECTORY" /\ e.i_no = n
<1> DEFINE t == inodeTable
           bl == blocks
           d == up[n]
           q == place[n]
           name == NameOf(up, place, n)
           found == {pos \in Positions : d # Nowhere /\ InDir(inode_at(d), pos)
                                         /\ EntryAt(inode_at(d), pos).i_no = n}
<1>1. Tree(inodeBitmap, D, up, place, depth, t, bl) /\ inode_at(d) = t[d]
  BY TreeFacts
<1>2. d \in D /\ n \in inodeBitmap /\ n \in Inodes /\ d \in Inodes
  BY <1>1 DEF Tree, TreeType
<1>3. q \in Used(t, bl, d) \ Dots /\ Ent(t, bl, d, q).i_no = n
  BY <1>1, <1>2 DEF Tree, HomesRight
<1>4. Leads(inodeBitmap, D, up, place, d, q, Ent(t, bl, d, q))
  BY <1>1, <1>2, <1>3 DEF Tree, EntriesRight
<1>5. name \in Names /\ Ent(t, bl, d, q).f_type = "FT_DIRECTORY" /\ name = Ent(t, bl, d, q).filename
  BY <1>3, <1>4 DEF Leads, NameOf
<1>6. n # d /\ n # up[d]
  <2>1. depth[n] = depth[d] + 1 /\ depth[d] \in Nat /\ depth[up[d]] \in Nat
        /\ (d # Root => depth[d] = depth[up[d]] + 1)
    BY <1>2, ParentFacts
  <2>2. up[Root] = Root
    BY <1>1 DEF Tree, TreeType
  <2> QED BY <2>1, <2>2
<1>7. ASSUME NEW pos \in found PROVE pos = q
  <2>1. pos \in Positions /\ Has(t, d, pos) /\ Ent(t, bl, d, pos).i_no = n
    BY <1>1, <1>7 DEF InDir, EntryAt, Has, Ent, At
  <2>2. pos \in Used(t, bl, d)
    <3>1. Unused.i_no = Root
      BY DEF Unused, Entry
    <3>2. pos \notin Used(t, bl, d) => Ent(t, bl, d, pos) = Unused
      BY <1>1, <1>2, <2>1 DEF Tree, RestUnused
    <3> QED BY <2>1, <3>1, <3>2
  <2>3. pos \notin Dots
    <3>1. Ent(t, bl, d, <<0, 0>>) = Entry(".", d, "FT_DIRECTORY")
          /\ Ent(t, bl, d, <<0, 1>>) = Entry("..", up[d], "FT_DIRECTORY")
      BY <1>1, <1>2 DEF Tree, DotsRight
    <3>2. Ent(t, bl, d, <<0, 0>>).i_no = d /\ Ent(t, bl, d, <<0, 1>>).i_no = up[d]
      BY <3>1 DEF Entry
    <3> QED BY <1>6, <2>1, <3>2 DEF Dots
  <2> QED BY <1>1, <1>2, <2>1, <2>2, <2>3 DEF Tree, EntriesRight, Leads
<1>8. found = {q}
  <2>1. q \in Positions /\ Has(t, d, q)
    BY <1>3 DEF Used
  <2>3. d # Nowhere
    BY <1>2 DEF Nowhere, Inodes
  <2>2. q \in found
    BY <1>1, <1>3, <2>1, <2>3 DEF InDir, EntryAt, Has, Ent, At
  <2> QED BY <1>7, <2>2
<1>9. First(found) = q
  <2>1. q[1] \in Nat /\ q[2] \in Nat
    BY <1>3, PositionParts DEF Used, BlockIdx, EntryIdx
  <2> HIDE DEF found
  <2> QED BY <1>8, <2>1 DEF First, Precedes
<1>10. get_child_dir_name(d, n) = name
  <2>1. EntryAt(inode_at(d), q) = Ent(t, bl, d, q)
    BY <1>1 DEF EntryAt, Ent, At
  <2> QED BY <1>5, <1>8, <1>9, <2>1 DEF get_child_dir_name
<1>11. Ent(t, bl, d, q) \in Entries
  <2>1. t \in [Inodes -> InodeImages] /\ bl \in [Blocks -> [EntryIdx -> Entries]]
    BY DEF IInv, DiskType
  <2>2. At(t, d, q[1]) \in Blocks /\ q[2] \in EntryIdx
    BY <1>2, <1>3, <2>1, Images, PositionParts DEF Used, Has
  <2> QED BY <2>1, <2>2 DEF Ent
<1> DEFINE e == search_dir_entry[t[d]][name]
<1>12. e = Ent(t, bl, d, q)
  <2>1. name \in Components
    BY <1>5, NamesApart
  <2>2. \/ e = NULL /\ \A r \in Used(t, bl, d) : Ent(t, bl, d, r).filename # name
        \/ \E r \in Used(t, bl, d) : e = Ent(t, bl, d, r) /\ e.filename = name
    BY <1>2, <2>1, DirLookup
  <2>3. PICK r \in Used(t, bl, d) : e = Ent(t, bl, d, r) /\ e.filename = name
    BY <1>3, <1>5, <2>2
  <2>4. r = q
    <3> HIDE DEF e, name
    <3> QED BY <1>1, <1>2, <1>3, <1>5, <2>3 DEF Tree, NamesOnce
  <2> QED BY <2>3, <2>4
<1> HIDE DEF e, name
<1>13. e \in Entries /\ e # NULL /\ e.f_type = "FT_DIRECTORY" /\ e.i_no = n
  BY <1>3, <1>5, <1>11, <1>12, NullAssumption
<1> QED BY <1>5, <1>10, <1>13 DEF e, name

-----------------------------------------------------------------------------
(* The loop of sys_getcwd: c[k] is the directory it has come to after k    *)
(* steps, and the path from there.                                         *)
Climbs(D) == [child : D, path : Seq(Components)]
Up(r) == LET parent == get_parent_dir_inode_nr(r.child)
             name == get_child_dir_name(parent, r.child)
         IN  IF r.child = Root \/ name = NULL THEN r
             ELSE [child |-> parent, path |-> <<name>> \o r.path]
Foot(n) == [child |-> n, path |-> <<>>]
Climbed(D, n, c) ==
    /\ c \in [0 .. MaxInodes -> Climbs(D)]
    /\ c[0] = Foot(n) /\ \A k \in 1 .. MaxInodes : c[k] = Up(c[k - 1])
    /\ Climb(n) = c[MaxInodes]

LEMMA ClimbStep ==
    ASSUME IInv, Sound, NEW D, NEW up, NEW place, NEW depth, InTree(D, up, place, depth),
           NEW r \in Climbs(D)
    PROVE  /\ Up(r) \in Climbs(D)
           /\ r.child # Root => /\ Up(r).child = up[r.child]
                                /\ Up(r).path = <<NameOf(up, place, r.child)>> \o r.path
<1>1. CASE r.child = Root
  BY <1>1 DEF Up
<1>2. CASE r.child # Root
  <2> DEFINE n == r.child
             name == NameOf(up, place, n)
  <2>1. n \in D /\ r.path \in Seq(Components)
    BY DEF Climbs
  <2>2. get_parent_dir_inode_nr(n) = up[n] /\ up[n] \in D
    BY <2>1, ParentFacts
  <2>3. get_child_dir_name(up[n], n) = name /\ name \in Components
    BY <1>2, <2>1, NameFacts, NamesApart
  <2> HIDE DEF name
  <2>6. name # NULL
    BY <2>3, InputsAssumption
  <2>4. Up(r) = [child |-> up[n], path |-> <<name>> \o r.path]
    BY <1>2, <2>2, <2>3, <2>6 DEF Up
  <2>5. <<name>> \o r.path \in Seq(Components)
    BY <2>1, <2>3
  <2> QED BY <2>2, <2>4, <2>5 DEF Climbs, name
<1> QED BY <1>1, <1>2

LEMMA Climbing ==
    ASSUME IInv, Sound, NEW D, NEW up, NEW place, NEW depth, InTree(D, up, place, depth),
           NEW n \in D
    PROVE  \E c : Climbed(D, n, c)
<1> DEFINE N == MaxInodes
           A == Climbs(D)
           G == [r \in A |-> Up(r)]
           g == [k \in 1 .. N |-> G]
           body(climb) == [k \in 0 .. N |-> IF k = 0 THEN Foot(n)
               ELSE LET r == climb[k - 1]
                        parent == get_parent_dir_inode_nr(r.child)
                        name == get_child_dir_name(parent, r.child)
                    IN  IF r.child = Root \/ name = NULL THEN r
                        ELSE [child |-> parent, path |-> <<name>> \o r.path]]
           climb == CHOOSE climb : climb = body(climb)
<1>1. N \in Nat
  BY SizesAssumption
<1>2. Foot(n) \in A
  BY DEF Foot, Climbs
<1>3. G \in [A -> A]
  BY ClimbStep
<1> HIDE DEF A, G, N
<1>4. PICK c \in [0 .. N -> A] : c[0] = Foot(n) /\ \A k \in 1 .. N : c[k] = Up(c[k - 1])
  <2>1. g \in [1 .. N -> [A -> A]]
    BY <1>3
  <2> HIDE DEF g
  <2>2. PICK f \in [0 .. N -> A] : Iterates(f, N, Foot(n), g)
    BY <1>1, <1>2, <2>1, IntervalRecursion
  <2>3. ASSUME NEW k \in 1 .. N PROVE f[k] = Up(f[k - 1])
    <3>1. f[k] = g[k][f[k - 1]]
      BY <2>2 DEF Iterates
    <3>2. k - 1 \in 0 .. N
      BY <1>1
    <3>3. f[k - 1] \in A
      BY <3>2
    <3> QED BY <3>1, <3>3 DEF g, G
  <2> QED BY <2>2, <2>3 DEF Iterates
<1>5. \A v : body(v) = [k \in 0 .. N |-> IF k = 0 THEN Foot(n) ELSE Up(v[k - 1])]
  BY DEF Up
<1> HIDE DEF body
<1>6. c = body(c)
  <2>1. \A k \in 0 .. N : c[k] = IF k = 0 THEN Foot(n) ELSE Up(c[k - 1])
    BY <1>1, <1>4
  <2> QED BY <1>5, <2>1
<1>7. ASSUME NEW v, v = body(v) PROVE v = c
  <2>1. \A k \in 0 .. N : v[k] = IF k = 0 THEN Foot(n) ELSE Up(v[k - 1])
    BY <1>5, <1>7
  <2> DEFINE S == {k \in 0 .. N : v[k] = c[k]}
  <2>2. 0 \in S
    <3>1. 0 \in 0 .. N
      BY <1>1
    <3> QED BY <1>4, <2>1, <3>1
  <2>3. \A k \in 0 .. N - 1 : k \in S => k + 1 \in S
    <3> SUFFICES ASSUME NEW k \in 0 .. N - 1, v[k] = c[k] PROVE k + 1 \in S
      OBVIOUS
    <3>1. k + 1 \in 1 .. N /\ k + 1 \in 0 .. N /\ k + 1 # 0 /\ k + 1 - 1 = k
      BY <1>1
    <3> QED BY <1>4, <2>1, <3>1
  <2>4. 0 .. N \subseteq S
    <3> HIDE DEF S
    <3> QED BY <1>1, <2>2, <2>3, IntervalInduction
  <2>5. v = [k \in 0 .. N |-> v[k]] /\ c = [k \in 0 .. N |-> c[k]]
    BY <1>5, <1>7
  <2> QED BY <2>4, <2>5
<1>8. climb = c
  BY <1>6, <1>7
<1>9. Climb(n) = climb[N]
  BY Zenon DEF Climb, body, Foot, N
<1> QED BY <1>4, <1>8, <1>9 DEF Climbed, A, N

(* After as many steps as n is deep the loop has come to the root, and the *)
(* path has the names of the directories it came through, the last first.  *)
Came(up, place, c, k) ==
    /\ Len(c[k].path) = k
    /\ \A j \in 1 .. k : c[k].path[j] = NameOf(up, place, c[k - j].child)
Passed(D, up, c, m) ==
    \A k \in 0 .. m : /\ c[k].child \in D /\ (c[k].child = Root <=> k = m)
                      /\ k < m => c[k + 1].child = up[c[k].child]

LEMMA ClimbFacts ==
    ASSUME IInv, Sound, NEW D, NEW up, NEW place, NEW depth, InTree(D, up, place, depth),
           NEW n \in D, NEW c, Climbed(D, n, c)
    PROVE  LET m == depth[n] IN
           /\ m \in 0 .. MaxInodes - 1
           /\ Passed(D, up, c, m) /\ Came(up, place, c, m)
           /\ Climb(n) = c[m]
<1> DEFINE N == MaxInodes
           m == depth[n]
           OK(k) == Came(up, place, c, k) /\ depth[c[k].child] = m - k
<1>1. N \in Nat /\ m \in Nat /\ m < N
  <2>1. TreeType(inodeBitmap, D, up, place, depth) /\ DepthsRight(D, up, depth)
    BY TreeFacts DEF Tree
  <2> QED BY <2>1, DepthBounded, ParentFacts, SizesAssumption
<1> HIDE DEF m, N
<1>2. ASSUME NEW k \in 0 .. N
      PROVE  /\ c[k] \in Climbs(D) /\ c[k].child \in D /\ c[k].path \in Seq(Components)
             /\ depth[c[k].child] \in Nat /\ (depth[c[k].child] = 0 <=> c[k].child = Root)
  <2>1. c[k] \in Climbs(D)
    BY DEF Climbed, N
  <2>2. c[k].child \in D /\ c[k].path \in Seq(Components)
    BY <2>1 DEF Climbs
  <2> QED BY <2>1, <2>2, ParentFacts
<1>3. ASSUME NEW k \in 0 .. N - 1
      PROVE  /\ c[k + 1] = Up(c[k])
             /\ c[k].child # Root =>
                   /\ c[k + 1].child = up[c[k].child]
                   /\ c[k + 1].path = <<NameOf(up, place, c[k].child)>> \o c[k].path
                   /\ depth[c[k].child] = depth[c[k + 1].child] + 1
  <2>1. k + 1 \in 1 .. N /\ k + 1 - 1 = k /\ k \in 0 .. N
    BY <1>1
  <2>2. c[k + 1] = Up(c[k])
    BY <2>1 DEF Climbed, N
  <2>3. c[k].child # Root => depth[c[k].child] = depth[up[c[k].child]] + 1
    BY <1>2, <2>1, ParentFacts
  <2>4. c[k] \in Climbs(D)
    BY <1>2, <2>1
  <2>5. c[k].child # Root => /\ c[k + 1].child = up[c[k].child]
                             /\ c[k + 1].path = <<NameOf(up, place, c[k].child)>> \o c[k].path
    <3>1. c[k].child # Root =>
              /\ Up(c[k]).child = up[c[k].child]
              /\ Up(c[k]).path = <<NameOf(up, place, c[k].child)>> \o c[k].path
      BY <2>4, ClimbStep
    <3> QED BY <2>2, <3>1, Zenon
  <2> QED BY <2>2, <2>3, <2>5
<1>4. \A k \in 0 .. m : OK(k)
  <2> DEFINE S == {k \in 0 .. m : OK(k)}
  <2>1. 0 \in S
    <3>1. 0 \in 0 .. N - 1 /\ 0 \in 0 .. m
      BY <1>1
    <3>2. c[0] = Foot(n)
      BY DEF Climbed
    <3>3. c[0].child = n /\ c[0].path = <<>>
      BY <3>2 DEF Foot
    <3>4. Came(up, place, c, 0)
      BY <3>3 DEF Came
    <3> QED BY <1>1, <3>1, <3>3, <3>4 DEF m
  <2>2. ASSUME NEW k \in 0 .. m - 1, OK(k) PROVE OK(k + 1)
    <3> DEFINE name == NameOf(up, place, c[k].child)
               old == c[k].path
               new == c[k + 1].path
    <3>1. k \in 0 .. N - 1 /\ k \in 0 .. N /\ k + 1 \in 0 .. N - 1 /\ k + 1 \in 0 .. N
      BY <1>1
    <3>2. c[k].child # Root
      BY <1>1, <1>2, <2>2, <3>1
    <3>3. depth[c[k + 1].child] = m - (k + 1)
      <4>1. depth[c[k].child] = depth[c[k + 1].child] + 1 /\ depth[c[k].child] = m - k
        BY <1>3, <2>2, <3>1, <3>2
      <4>2. depth[c[k + 1].child] \in Nat
        BY <1>2, <3>1
      <4> QED BY <1>1, <4>1, <4>2
    <3>4. new = <<name>> \o old /\ old \in Seq(Components) /\ Len(old) = k
      BY <1>2, <1>3, <2>2, <3>1, <3>2 DEF Came
    <3>5. name \in Components
      BY <1>2, <3>1, <3>2, NameFacts, NamesApart
    <3>6. \A j \in 1 .. k : old[j] = NameOf(up, place, c[k - j].child)
      BY <2>2 DEF Came
    <3> HIDE DEF name, old, new
    <3>7. Len(new) = k + 1
      BY <3>1, <3>4, <3>5
    <3>8. ASSUME NEW j \in 1 .. k + 1 PROVE new[j] = NameOf(up, place, c[(k + 1) - j].child)
      <4>1. CASE j = 1
        <5>1. new[1] = name /\ (k + 1) - j = k
          BY <3>1, <3>4, <3>5, <4>1
        <5> QED BY <4>1, <5>1 DEF name
      <4>2. CASE j # 1
        <5>1. j - 1 \in 1 .. k /\ k - (j - 1) = (k + 1) - j
          BY <3>1, <4>2
        <5>2. new[j] = old[j - 1]
          BY <3>1, <3>4, <3>5, <4>2, <5>1
        <5> QED BY <3>6, <5>1, <5>2
      <4> QED BY <4>1, <4>2
    <3>9. Came(up, place, c, k + 1)
      BY <3>7, <3>8 DEF Came, new
    <3> QED BY <3>3, <3>9
  <2>3. 0 .. m \subseteq S
    <3>1. \A k \in 0 .. m - 1 : k \in S => k + 1 \in S
      BY <1>1, <2>2
    <3> HIDE DEF S
    <3> QED BY <1>1, <2>1, <3>1, IntervalInduction
  <2> QED BY <2>3
<1>5. c[N] = c[m]
  <2> DEFINE S == {k \in 0 .. N : k >= m => c[k] = c[m]}
  <2>1. 0 \in S
    BY <1>1
  <2>2. ASSUME NEW k \in 0 .. N - 1, k >= m => c[k] = c[m] PROVE k + 1 >= m => c[k + 1] = c[m]
    <3>1. CASE k >= m
      <4>1. m \in 0 .. m /\ m \in 0 .. N /\ depth[c[m].child] = 0
        BY <1>1, <1>4
      <4>2. c[m].child = Root
        BY <1>2, <4>1
      <4> QED BY <1>3, <2>2, <3>1, <4>2 DEF Up
    <3>2. CASE k < m
      <4>1. k + 1 >= m => k + 1 = m
        BY <1>1, <3>2
      <4> QED BY <4>1
    <3> QED BY <1>1, <3>1, <3>2
  <2>3. 0 .. N \subseteq S
    <3>1. \A k \in 0 .. N - 1 : k \in S => k + 1 \in S
      BY <1>1, <2>2
    <3> HIDE DEF S
    <3> QED BY <1>1, <2>1, <3>1, IntervalInduction
  <2>4. N \in 0 .. N
    BY <1>1
  <2> QED BY <1>1, <2>3, <2>4
<1>6. Climb(n) = c[m]
  BY <1>5 DEF Climbed, N
<1>7. m \in 0 .. MaxInodes - 1
  BY <1>1 DEF N
<1>8. ASSUME NEW k \in 0 .. m
      PROVE  /\ c[k].child \in D /\ (c[k].child = Root <=> k = m)
             /\ k < m => c[k + 1].child = up[c[k].child]
  <2>1. k \in 0 .. N /\ (k < m => k \in 0 .. N - 1) /\ (m - k = 0 <=> k = m)
    BY <1>1
  <2>2. c[k].child \in D /\ (c[k].child = Root <=> k = m)
    BY <1>2, <1>4, <2>1
  <2>3. ASSUME k < m PROVE c[k + 1].child = up[c[k].child]
    <3>1. k \in 0 .. N - 1 /\ k # m
      BY <1>1, <2>1, <2>3
    <3> QED BY <1>3, <2>2, <3>1
  <2> QED BY <2>2, <2>3
<1>9. Came(up, place, c, m)
  BY <1>1, <1>4
<1>10. Passed(D, up, c, m)
  BY <1>8 DEF Passed
<1> QED BY <1>6, <1>7, <1>9, <1>10 DEF m

(* One step of search_file in the parent of directory n, by the name of n. *)
LEMMA StepDown ==
    ASSUME IInv, Sound, NEW D, NEW up, NEW place, NEW depth, InTree(D, up, place, depth),
           NEW n \in D, n # Root, NEW r \in WalksIn(D), r.f_type = "FT_DIRECTORY", r.dir = up[n]
    PROVE  LET r2 == Step(r, NameOf(up, place, n))
           IN  r2.f_type = "FT_DIRECTORY" /\ r2.dir = n /\ r2.i_no = n
<1> DEFINE name == NameOf(up, place, n)
           e == search_dir_entry[inodeTable[up[n]]][name]
           r2 == Step(r, name)
<1>1. e \in Entries /\ e # NULL /\ e.f_type = "FT_DIRECTORY" /\ e.i_no = n
  BY NameFacts
<1>2. inode_at(r.dir) = inodeTable[up[n]]
  BY TreeFacts
<1>3. r2 = follow[r][e]
  BY <1>2 DEF Step
<1>4. r \in Walks
  BY DEF WalksIn
<1> HIDE DEF e, name, r2
<1>5. r2 = [r EXCEPT !.i_no = e.i_no, !.dir = e.i_no, !.above = inode_at(r.dir).i_no, !.depth = @ + 1]
  BY <1>1, <1>3, <1>4 DEF follow
<1>6. r = [f_type |-> r.f_type, i_no |-> r.i_no, dir |-> r.dir, above |-> r.above,
           depth |-> r.depth]
  BY <1>4 DEF Walks
<1>7. r2 = [f_type |-> "FT_DIRECTORY", i_no |-> n, dir |-> n, above |-> inode_at(r.dir).i_no,
            depth |-> r.depth + 1]
  BY <1>1, <1>5, <1>6
<1>8. r2.f_type = "FT_DIRECTORY" /\ r2.dir = n /\ r2.i_no = n
  BY <1>7
<1> QED BY <1>8 DEF r2, name

(* search_file follows the path of sys_getcwd down again.                  *)
LEMMA PathLeadsBack ==
    ASSUME IInv, Sound, NEW D, NEW up, NEW place, NEW depth, InTree(D, up, place, depth),
           NEW n \in D, NEW p, p = Climb(n).path, NEW r, r = search_file(p)
    PROVE  FindsDir(r) /\ r.i_no = n
<1> DEFINE m == depth[n]
<1>1. PICK c : Climbed(D, n, c)
  BY Climbing
<1>2. /\ m \in 0 .. MaxInodes - 1
      /\ Passed(D, up, c, m) /\ Came(up, place, c, m)
      /\ p = c[m].path
  BY <1>1, ClimbFacts
<1>3. MaxInodes \in Nat /\ m \in Nat /\ m \in 0 .. MaxInodes
  BY <1>2, SizesAssumption
<1>4. p \in Seq(Components) /\ Len(p) = m
      /\ \A j \in 1 .. m : p[j] = NameOf(up, place, c[m - j].child)
  <2>1. c[m] \in Climbs(D)
    BY <1>1, <1>3 DEF Climbed
  <2> QED BY <1>2, <2>1 DEF Came, Climbs
<1>5. c[0].child = n
  BY <1>1 DEF Climbed, Foot
<1> HIDE DEF m
<1>6. PICK w \in [0 .. m -> WalksIn(D)] : Walked(p, w)
  BY <1>4, SearchWalk DEF Sound
<1> DEFINE OK(k) == w[k].f_type = "FT_DIRECTORY" /\ w[k].dir = c[m - k].child /\ w[k].i_no = w[k].dir
<1>7. \A k \in 0 .. m : OK(k)
  <2> DEFINE S == {k \in 0 .. m : OK(k)}
  <2>1. 0 \in S
    <3>1. w[0] = Start
      BY <1>6 DEF Walked
    <3>2. w[0].f_type = "FT_DIRECTORY" /\ w[0].dir = Root /\ w[0].i_no = Root
      BY <3>1 DEF Start
    <3>3. m - 0 = m /\ 0 \in 0 .. m /\ c[m].child = Root
      BY <1>2, <1>3 DEF Passed
    <3> QED BY <3>2, <3>3
  <2>2. ASSUME NEW k \in 0 .. m - 1, OK(k) PROVE OK(k + 1)
    <3> DEFINE a == m - (k + 1)
    <3>1. /\ k + 1 \in 1 .. m /\ k + 1 - 1 = k /\ k \in 0 .. m
          /\ a \in 0 .. m /\ a < m /\ a + 1 = m - k
      BY <1>3
    <3>2. w[k + 1] = Step(w[k], p[k + 1]) /\ w[k] \in WalksIn(D)
      <4>1. \A i \in 1 .. m : w[i] = Step(w[i - 1], p[i])
        BY <1>4, <1>6 DEF Walked
      <4>2. w[k + 1] = Step(w[k + 1 - 1], p[k + 1])
        BY <3>1, <4>1
      <4> QED BY <1>6, <3>1, <4>2
    <3>3. p[k + 1] = NameOf(up, place, c[a].child)
      BY <1>4, <3>1
    <3> HIDE DEF a
    <3>4. c[a].child \in D /\ c[a].child # Root /\ c[a + 1].child = up[c[a].child]
      BY <1>2, <3>1 DEF Passed
    <3>5. w[k].f_type = "FT_DIRECTORY" /\ w[k].dir = up[c[a].child]
      BY <2>2, <3>1, <3>4
    <3>6. w[k + 1].f_type = "FT_DIRECTORY" /\ w[k + 1].dir = c[a].child
          /\ w[k + 1].i_no = c[a].child
      BY <3>2, <3>3, <3>4, <3>5, StepDown
    <3> QED BY <3>6 DEF a
  <2>3. 0 .. m \subseteq S
    <3>1. ASSUME NEW k \in 0 .. m - 1, k \in S PROVE k + 1 \in S
      <4>1. OK(k) /\ k + 1 \in 0 .. m
        BY <1>3, <3>1
      <4>2. OK(k + 1)
        BY <2>2, <4>1
      <4> HIDE DEF OK
      <4> QED BY <4>1, <4>2
    <3> HIDE DEF S
    <3> QED BY <1>3, <2>1, <3>1, IntervalInduction
  <2> QED BY <2>3
<1> DEFINE v == w[m]
<1>8. v \in WalksIn(D) /\ v.f_type = "FT_DIRECTORY" /\ v.i_no = n
  <2>1. m \in 0 .. m /\ m - m = 0
    BY <1>3
  <2> QED BY <1>5, <1>7, <2>1
<1>9. r = [f_type |-> v.f_type, i_no |-> v.i_no, depth |-> v.depth,
           parent_dir |-> IF v.f_type = "FT_DIRECTORY" THEN v.above ELSE v.dir]
  BY <1>4, <1>6 DEF Walked
<1> HIDE DEF v
<1>10. r \in SearchResults /\ r.f_type = "FT_DIRECTORY" /\ r.i_no = n
  BY <1>8, <1>9 DEF WalksIn, Walks, SearchResults
<1> QED BY <1>10 DEF FindsDir

LEMMA RootPath ==
    ASSUME IInv, Sound, NEW D, NEW up, NEW place, NEW depth, InTree(D, up, place, depth)
    PROVE  Root \in D /\ Climb(Root).path = <<>>
<1>1. Root \in D /\ depth[Root] = 0
  BY TreeFacts DEF Tree, TreeType, DepthsRight
<1>2. PICK c : Climbed(D, Root, c)
  BY <1>1, Climbing
<1>3. Climb(Root) = c[0]
  BY <1>1, <1>2, ClimbFacts
<1>4. c[0] = Foot(Root)
  BY <1>2 DEF Climbed
<1> QED BY <1>1, <1>3, <1>4 DEF Foot

-----------------------------------------------------------------------------
(* The working directory is a directory of the tree and, at the prompt,    *)
(* the buffer has the path that sys_getcwd finds for it; at first and      *)
(* after a death it is empty and the working directory the root.           *)
InSome(n) == \E D, up, place, depth : InTree(D, up, place, depth) /\ n \in D
BufFact == stage = "prompt" =>
    \/ cwd_inode_nr = Root /\ cwd_buf = <<>>
    \/ cwd_buf = IF Len(Climb(cwd_inode_nr).path) <= CwdLimit THEN Climb(cwd_inode_nr).path
                                                              ELSE <<>>
ProcInv == IInv /\ Sound /\ InSome(cwd_inode_nr) /\ BufFact

LEMMA ProcInvLeadsBack == ProcInv => CwdPathLeadsBack
<1> SUFFICES ASSUME ProcInv, stage = "prompt"
             PROVE  LET r == search_file(cwd_buf)
                    IN  /\ FindsDir(r)
                        /\ r.i_no = IF Len(Climb(cwd_inode_nr).path) <= CwdLimit THEN cwd_inode_nr
                                                                                 ELSE Root
  BY DEF CwdPathLeadsBack
<1>1. PICK n : n = cwd_inode_nr
  OBVIOUS
<1>2. PICK D, up, place, depth : InTree(D, up, place, depth) /\ n \in D
  BY <1>1 DEF ProcInv, InSome
<1>3. IInv /\ Sound
  BY DEF ProcInv
<1>4. Root \in D /\ Climb(Root).path = <<>>
  BY <1>2, <1>3, RootPath
<1>5. PICK b : b = cwd_buf
  OBVIOUS
<1>6. \/ n = Root /\ b = <<>>
      \/ b = IF Len(Climb(n).path) <= CwdLimit THEN Climb(n).path ELSE <<>>
  BY <1>1, <1>5 DEF ProcInv, BufFact
<1>7. CASE b = Climb(n).path /\ Len(Climb(n).path) <= CwdLimit
  BY <1>1, <1>2, <1>3, <1>5, <1>7, PathLeadsBack
<1>8. CASE b = <<>> /\ (n = Root \/ ~(Len(Climb(n).path) <= CwdLimit))
  <2>1. FindsDir(search_file(b)) /\ search_file(b).i_no = Root
    BY <1>2, <1>3, <1>4, <1>8, PathLeadsBack
  <2> QED BY <1>1, <1>5, <1>8, <2>1
<1> QED BY <1>4, <1>6, <1>7, <1>8

(* A directory keeps its link, and its link says that it is one.           *)
LEMMA LinkType ==
    ASSUME NEW ib, NEW D, NEW up, NEW place, NEW depth, NEW t, NEW bl,
           Tree(ib, D, up, place, depth, t, bl), NEW n \in ib, n # Root
    PROVE  n \in D <=> Links(ib, up, place, t, bl)[n][2].f_type = "FT_DIRECTORY"
<1>1. Links(ib, up, place, t, bl)[n][2] = Ent(t, bl, up[n], place[n])
  BY DEF Links
<1>2. up[n] \in D /\ place[n] \in Used(t, bl, up[n]) \ Dots
      /\ Ent(t, bl, up[n], place[n]).i_no = n
  BY DEF Tree, TreeType, HomesRight
<1>3. Leads(ib, D, up, place, up[n], place[n], Ent(t, bl, up[n], place[n]))
  BY <1>2 DEF Tree, EntriesRight
<1> QED BY <1>1, <1>2, <1>3 DEF Leads

LEMMA StaysIn ==
    ASSUME NEW D, NEW up, NEW place, NEW depth, InTree(D, up, place, depth),
           NEW L, Stays(L), NEW n \in D,
           n = Root \/ (n \in DOMAIN L /\ L[n] = LinksNow(up, place)[n])
    PROVE  InSome(n)'
<1>1. PICK E, f, g, h : /\ InTree(E, f, g, h)'
                        /\ Links(inodeBitmap', f, g, inodeTable', blocks') = L
  BY DEF Stays
<1>2. Tree(inodeBitmap', E, f, g, h, inodeTable', blocks')
  BY <1>1 DEF InTree
<1>3. CASE n = Root
  BY <1>1, <1>2, <1>3 DEF InSome, Tree, TreeType
<1>4. CASE n # Root
  <2>1. n \in inodeBitmap /\ Tree(inodeBitmap, D, up, place, depth, inodeTable, blocks)
    BY DEF InTree, Tree, TreeType
  <2>2. LinksNow(up, place)[n][2].f_type = "FT_DIRECTORY"
    BY <1>4, <2>1, LinkType DEF LinksNow
  <2>3. n \in inodeBitmap'
    BY <1>1, <1>4 DEF Links
  <2>4. n \in E
    BY <1>1, <1>2, <1>4, <2>2, <2>3, LinkType
  <2> QED BY <1>1, <2>4 DEF InSome
<1> QED BY <1>3, <1>4

LEMMA LinksKept ==
    ASSUME NEW D, NEW up, NEW place, NEW depth, InTree(D, up, place, depth),
           NEW n \in D, NEW L, L = LinksNow(up, place)
    PROVE  /\ n = Root \/ n \in DOMAIN L
           /\ \A m, d, e : m # n => n = Root \/ (n \in DOMAIN WithLink(L, m, d, e)
                                                /\ WithLink(L, m, d, e)[n] = L[n])
           /\ \A m : m # n => n = Root \/ (n \in DOMAIN WithoutLink(L, m)
                                          /\ WithoutLink(L, m)[n] = L[n])
<1>1. n \in inodeBitmap
  BY DEF InTree, Tree, TreeType
<1>2. n = Root \/ n \in DOMAIN L
  BY <1>1 DEF LinksNow, Links
<1> QED BY <1>2 DEF WithLink, WithoutLink

(* A call keeps every directory that it is not a rmdir of.                 *)
LEMMA CallKeeps ==
    ASSUME Usable, IInv, Sound, IInv', Next, Careful, NEW n, InSome(n),
           \A p \in RmdirPaths : sys_rmdir(p) => search_file(p).i_no # n
    PROVE  Sound' /\ InSome(n)'
<1>1. PICK D, up, place, depth : InTree(D, up, place, depth) /\ n \in D
  BY DEF InSome
<1>2. n \in inodeBitmap
  BY <1>1 DEF InTree, Tree, TreeType
<1> DEFINE L == LinksNow(up, place)
<1>3. /\ n = Root \/ n \in DOMAIN L
      /\ \A m, d, e : m # n => n = Root \/ (n \in DOMAIN WithLink(L, m, d, e)
                                           /\ WithLink(L, m, d, e)[n] = L[n])
      /\ \A m : m # n => n = Root \/ (n \in DOMAIN WithoutLink(L, m)
                                     /\ WithoutLink(L, m)[n] = L[n])
  BY <1>1, LinksKept
<1>4. Stays(L) => Sound' /\ InSome(n)'
  <2> SUFFICES ASSUME Stays(L) PROVE Sound' /\ InSome(n)'
    OBVIOUS
  <2>1. InSome(n)'
    BY <1>1, <1>3, StaysIn
  <2> QED BY <2>1 DEF Stays
<1>5. ASSUME NEW m \in Inodes \ inodeBitmap, NEW d, NEW e, Stays(WithLink(L, m, d, e))
      PROVE  Sound' /\ InSome(n)'
  <2>1. n = Root \/ (n \in DOMAIN WithLink(L, m, d, e) /\ WithLink(L, m, d, e)[n] = L[n])
    BY <1>2, <1>3
  <2> HIDE DEF L
  <2>2. PICK M : M = WithLink(L, m, d, e)
    OBVIOUS
  <2>3. Stays(M) /\ (n = Root \/ (n \in DOMAIN M /\ M[n] = L[n]))
    BY <1>5, <2>1, <2>2
  <2>4. InSome(n)'
    BY <1>1, <2>3, StaysIn DEF L
  <2> QED BY <2>3, <2>4 DEF Stays
<1>6. ASSUME NEW m, m # n, Stays(WithoutLink(L, m))
      PROVE  Sound' /\ InSome(n)'
  <2>1. n = Root \/ (n \in DOMAIN WithoutLink(L, m) /\ WithoutLink(L, m)[n] = L[n])
    BY <1>3, <1>6
  <2> HIDE DEF L
  <2>2. PICK M : M = WithoutLink(L, m)
    OBVIOUS
  <2>3. Stays(M) /\ (n = Root \/ (n \in DOMAIN M /\ M[n] = L[n]))
    BY <1>6, <2>1, <2>2
  <2>4. InSome(n)'
    BY <1>1, <2>3, StaysIn DEF L
  <2> QED BY <2>3, <2>4 DEF Stays
<1>7. ASSUME NEW p \in CreatePaths, sys_open_create(p) PROVE Sound' /\ InSome(n)'
  <2>1. PICK r : r = search_file(p)
    OBVIOUS
  <2>2. PICK m \in Inodes \ inodeBitmap :
            Stays(WithLink(L, m, r.parent_dir, Entry(p[Len(p)], m, "FT_REGULAR")))
    BY <1>1, <1>7, <2>1, sys_open_createStays
  <2> QED BY <1>5, <2>2
<1>8. ASSUME NEW p \in MkdirPaths, sys_mkdir(p) PROVE Sound' /\ InSome(n)'
  <2>1. PICK r : r = search_file(p)
    OBVIOUS
  <2>2. PICK m \in Inodes \ inodeBitmap :
            Stays(WithLink(L, m, r.parent_dir, Entry(p[Len(p)], m, "FT_DIRECTORY")))
    BY <1>1, <1>8, <2>1, sys_mkdirStays
  <2> QED BY <1>5, <2>2
<1>9. ASSUME NEW p \in UnlinkPaths, sys_unlink(p) PROVE Sound' /\ InSome(n)'
  <2>1. PICK m : m = search_file(p).i_no
    OBVIOUS
  <2>2. m \notin D /\ Stays(WithoutLink(L, m))
    BY <1>1, <1>9, <2>1, sys_unlinkStays
  <2> QED BY <1>1, <1>6, <2>2
<1>10. ASSUME NEW p \in RmdirPaths, sys_rmdir(p) PROVE Sound' /\ InSome(n)'
  <2>1. PICK m : m = search_file(p).i_no
    OBVIOUS
  <2>2. m # n /\ Stays(WithoutLink(L, m))
    BY <1>1, <1>10, <2>1, sys_rmdirStays
  <2> QED BY <1>6, <2>2
<1>11. ASSUME NEW p \in OpenPaths, sys_open_existing(p) PROVE Stays(L)
  BY <1>1, <1>11, sys_open_existingStays
<1>12. ASSUME NEW p \in Paths, sys_open_table_full(p) \/ sys_remove_root(p) PROVE Stays(L)
  BY <1>1, <1>12, LeavesOpenSteps
<1>13. ASSUME NEW f \in OF!Fds, sys_close(f) PROVE Stays(L)
  BY <1>1, <1>13, sys_closeStays
<1>14. ASSUME NEW f \in OF!Fds, NEW count \in WriteCounts,
              sys_write(f, count) \/ sys_write_dies(f, count)
       PROVE  Stays(L)
  BY <1>1, <1>14, sys_writeStays, sys_write_diesStays
<1>15. ASSUME NEW p \in MkdirPaths, sys_mkdir_dies(p) PROVE Stays(L)
  BY <1>1, <1>15, sys_mkdir_diesStays
<1>16. ASSUME Restart PROVE Stays(L)
  BY <1>1, <1>16, RestartStays
<1> HIDE DEF L
<1>17. CASE \E p \in OpenPaths : sys_open_existing(p) \/ sys_open_table_full(p)
  BY <1>4, <1>11, <1>12, <1>17 DEF Paths
<1>18. CASE \E p \in UnlinkPaths \cup RmdirPaths : sys_remove_root(p)
  BY <1>4, <1>12, <1>18 DEF Paths
<1>19. CASE \E f \in OF!Fds, count \in WriteCounts : sys_write(f, count) \/ sys_write_dies(f, count)
  BY <1>4, <1>14, <1>19
<1>20. CASE \E p \in MkdirPaths : sys_mkdir(p) \/ sys_mkdir_dies(p)
  BY <1>4, <1>8, <1>15, <1>20
<1> QED BY <1>4, <1>7, <1>9, <1>10, <1>13, <1>16, <1>17, <1>18, <1>19, <1>20, Zenon DEF Next

LEMMA UnchangedKeeps ==
    ASSUME IInv, Sound, UNCHANGED vars, NEW n, InSome(n)
    PROVE  IInv' /\ Sound' /\ InSome(n)'
<1>1. PICK D, up, place, depth : InTree(D, up, place, depth) /\ n \in D
  BY DEF InSome
<1> DEFINE L == LinksNow(up, place)
<1>2. Stays(L)
  BY <1>1, StuttersStays
<1>3. n = Root \/ (n \in DOMAIN L /\ L[n] = LinksNow(up, place)[n])
  BY <1>1, LinksKept
<1> HIDE DEF L
<1>4. InSome(n)'
  BY <1>1, <1>2, <1>3, StaysIn DEF L
<1>5. IInv'
  BY NextIInv
<1> QED BY <1>2, <1>4, <1>5 DEF Stays

(* cd goes to a directory of the tree.                                     *)
LEMMA ChdirFinds ==
    ASSUME IInv, Sound, NEW p \in ChdirPaths, FindsDir(search_file(p)),
           NEW n, n = search_file(p).i_no, NEW m, InSome(m)
    PROVE  InSome(n)
<1>1. PICK D, up, place, depth : InTree(D, up, place, depth)
  BY DEF InSome
<1>2. p \in Seq(Components) /\ Len(p) \in Nat
  BY WorkingDirAssumption
<1>3. PICK w \in [0 .. Len(p) -> WalksIn(D)] : Walked(p, w)
  BY <1>1, <1>2, SearchWalk DEF Sound
<1> DEFINE OK(k) == w[k].f_type = "FT_DIRECTORY" => w[k].i_no = w[k].dir
           S == {k \in 0 .. Len(p) : OK(k)}
<1>4. 0 \in S
  BY <1>2, <1>3 DEF Walked, Start
<1>5. \A k \in 0 .. Len(p) - 1 : k \in S => k + 1 \in S
  <2> SUFFICES ASSUME NEW k \in 0 .. Len(p) - 1, k \in S PROVE k + 1 \in S
    OBVIOUS
  <2>1. k + 1 \in 1 .. Len(p) /\ k + 1 - 1 = k /\ k \in 0 .. Len(p) /\ k + 1 \in 0 .. Len(p)
        /\ p[k + 1] \in Components
    BY <1>2
  <2>2. w[k + 1] = Step(w[k], p[k + 1]) /\ w[k] \in WalksIn(D) /\ OK(k)
    BY <1>3, <2>1 DEF Walked
  <2>3. PICK v, v2 : v = w[k] /\ v2 = w[k + 1]
    OBVIOUS
  <2>4. Follows(inodeBitmap, D, up, inodeTable, blocks, v, p[k + 1], v2)
    BY <1>1, <2>1, <2>2, <2>3, WalkStep DEF Sound
  <2>5. v2.f_type = "FT_DIRECTORY" => v2.i_no = v2.dir
    BY <2>2, <2>3, <2>4 DEF Follows
  <2> QED BY <2>1, <2>3, <2>5
<1>6. Len(p) \in S
  <2> HIDE DEF S
  <2>1. 0 .. Len(p) \subseteq S
    BY <1>2, <1>4, <1>5, IntervalInduction
  <2> QED BY <1>2, <2>1
<1>7. n \in D
  <2>1. w[Len(p)] \in WalksIn(D)
    BY <1>2, <1>3
  <2>2. search_file(p).i_no = w[Len(p)].i_no /\ search_file(p).f_type = w[Len(p)].f_type
    BY <1>3 DEF Walked
  <2> QED BY <1>6, <2>1, <2>2 DEF FindsDir, WalksIn
<1> QED BY <1>1, <1>7 DEF InSome

(* sys_getcwd comes to the root and changes nothing but the buffer.        *)
LEMMA GetcwdStep ==
    ASSUME IInv, Sound, InSome(cwd_inode_nr), sys_getcwd
    PROVE  /\ UNCHANGED <<vars, cwd_inode_nr>>
           /\ cwd_buf' = IF Len(Climb(cwd_inode_nr).path) <= CwdLimit THEN Climb(cwd_inode_nr).path
                                                                      ELSE <<>>
<1>1. PICK n : n = cwd_inode_nr
  OBVIOUS
<1>2. PICK D, up, place, depth : InTree(D, up, place, depth) /\ n \in D
  BY <1>1 DEF InSome
<1>3. PICK c : Climbed(D, n, c)
  BY <1>2, Climbing
<1>4. depth[n] \in 0 .. depth[n] /\ Climb(n) = c[depth[n]] /\ Passed(D, up, c, depth[n])
  <2>1. depth[n] \in 0 .. MaxInodes - 1 /\ Climb(n) = c[depth[n]] /\ Passed(D, up, c, depth[n])
    BY <1>2, <1>3, ClimbFacts
  <2> QED BY <2>1, SizesAssumption
<1>5. Climb(n).child = Root
  BY <1>4 DEF Passed
<1> QED BY <1>1, <1>5 DEF sys_getcwd

LEMMA ClimbSame ==
    ASSUME UNCHANGED <<vars, cwd_inode_nr>>
    PROVE  Climb(cwd_inode_nr)' = Climb(cwd_inode_nr)
<1>1. open_inodes' = open_inodes /\ contents' = contents /\ inodeTable' = inodeTable
      /\ blocks' = blocks /\ cwd_inode_nr' = cwd_inode_nr
  BY DEF vars
<1>2. ASSUME NEW n PROVE inode_at(n)' = inode_at(n)
  BY <1>1 DEF inode_at
<1>3. ASSUME NEW n PROVE get_parent_dir_inode_nr(n)' = get_parent_dir_inode_nr(n)
  BY <1>1, <1>2, Zenon DEF get_parent_dir_inode_nr, InDir, EntryAt
<1>4. ASSUME NEW q, NEW n PROVE get_child_dir_name(q, n)' = get_child_dir_name(q, n)
  BY <1>1, <1>2, Zenon DEF get_child_dir_name, InDir, EntryAt
<1> QED BY <1>1, <1>3, <1>4, Zenon DEF Climb

LEMMA ProcInvStep ==
    ASSUME Usable, ProcInv, [WorkingDirNext]_<<vars, cwdVars>>, [Careful]_vars, [KeepsCwd]_vars
    PROVE  ProcInv'
<1>1. PICK n : n = cwd_inode_nr
  OBVIOUS
<1>2. IInv /\ Sound /\ InSome(n)
  BY <1>1 DEF ProcInv
<1>3. ASSUME Next, cwd_inode_nr' = cwd_inode_nr, stage' # "prompt" PROVE ProcInv'
  <2>1. IInv'
    BY <1>2, <1>3, NextIInv
  <2>2. Sound' /\ InSome(n)'
    <3>1. CASE UNCHANGED vars
      BY <1>2, <3>1, UnchangedKeeps
    <3>2. CASE ~UNCHANGED vars
      <4>1. Careful /\ KeepsCwd
        BY <3>2
      <4> QED BY <1>1, <1>2, <1>3, <2>1, <4>1, CallKeeps DEF KeepsCwd
    <3> QED BY <3>1, <3>2
  <2>3. InSome(cwd_inode_nr)'
    BY <1>1, <1>3, <2>2 DEF InSome
  <2> QED BY <1>3, <2>1, <2>2, <2>3 DEF ProcInv, BufFact
<1>4. ASSUME Next, cwd_inode_nr' = Root, cwd_buf' = <<>> PROVE ProcInv'
  <2>1. IInv'
    BY <1>2, <1>4, NextIInv
  <2>2. Sound' /\ InSome(Root)'
    <3>1. InSome(Root)
      BY <1>2 DEF InSome, InTree, Tree, TreeType
    <3>2. CASE UNCHANGED vars
      BY <1>2, <3>1, <3>2, UnchangedKeeps
    <3>3. CASE ~UNCHANGED vars
      <4>1. \A p \in RmdirPaths : sys_rmdir(p) => search_file(p).i_no # Root
        BY DEF sys_rmdir
      <4> QED BY <1>2, <1>4, <2>1, <3>1, <3>3, <4>1, CallKeeps
    <3> QED BY <3>2, <3>3
  <2>3. InSome(cwd_inode_nr)'
    BY <1>4, <2>2 DEF InSome
  <2> QED BY <1>4, <2>1, <2>2, <2>3 DEF ProcInv, BufFact
<1>5. CASE OneCall
  <2>1. ASSUME NEW p \in ChdirPaths, sys_chdir(p) PROVE ProcInv'
    <3>1. PICK m : m = search_file(p).i_no
      OBVIOUS
    <3>2. FindsDir(search_file(p)) /\ cwd_inode_nr' = m /\ UNCHANGED vars
      BY <2>1, <3>1 DEF sys_chdir
    <3>3. InSome(m)
      BY <1>2, <3>1, <3>2, ChdirFinds
    <3>4. IInv' /\ Sound' /\ InSome(m)'
      BY <1>2, <3>2, <3>3, UnchangedKeeps
    <3>5. InSome(cwd_inode_nr)'
      BY <3>2, <3>4 DEF InSome
    <3> QED BY <1>5, <3>4, <3>5 DEF ProcInv, BufFact, OneCall
  <2>2. ASSUME (\E p \in MkdirPaths : sys_mkdir(p)) \/ (\E p \in RmdirPaths : sys_rmdir(p))
               \/ (\E p \in UnlinkPaths \cup RmdirPaths : sys_remove_root(p))
        PROVE  Next
    BY <2>2, Zenon DEF Next
  <2>3. (\E p \in ChdirPaths : sys_chdir(p))
        \/ /\ (\E p \in MkdirPaths : sys_mkdir(p)) \/ (\E p \in RmdirPaths : sys_rmdir(p))
              \/ (\E p \in UnlinkPaths \cup RmdirPaths : sys_remove_root(p))
           /\ cwd_inode_nr' = cwd_inode_nr
        \/ UNCHANGED <<vars, cwd_inode_nr>>
    BY <1>5, Zenon DEF OneCall
  <2>4. stage' # "prompt"
    BY <1>5 DEF OneCall
  <2>5. ASSUME UNCHANGED <<vars, cwd_inode_nr>> PROVE ProcInv'
    <3>1. IInv' /\ Sound' /\ InSome(n)' /\ cwd_inode_nr' = cwd_inode_nr
      BY <1>2, <2>5, UnchangedKeeps
    <3>2. InSome(cwd_inode_nr)'
      BY <1>1, <3>1 DEF InSome
    <3> QED BY <2>4, <3>1, <3>2 DEF ProcInv, BufFact
  <2> QED BY <1>3, <2>1, <2>2, <2>3, <2>4, <2>5, Zenon
<1>6. CASE FileCall \/ LastCall
  <2>1. cwd_inode_nr' = cwd_inode_nr /\ stage' # "prompt"
    BY <1>6 DEF FileCall, LastCall
  <2>2. Next
    BY <1>6, Zenon DEF FileCall, LastCall, Next
  <2> QED BY <1>3, <2>1, <2>2
<1>7. CASE sys_getcwd
  <2>1. UNCHANGED <<vars, cwd_inode_nr>>
        /\ cwd_buf' = IF Len(Climb(cwd_inode_nr).path) <= CwdLimit THEN Climb(cwd_inode_nr).path
                                                                   ELSE <<>>
    BY <1>7, GetcwdStep DEF ProcInv
  <2>2. Climb(cwd_inode_nr)' = Climb(cwd_inode_nr)
    BY <2>1, ClimbSame
  <2>3. BufFact'
    BY <2>1, <2>2 DEF BufFact
  <2>4. IInv' /\ Sound' /\ InSome(n)'
    BY <1>2, <2>1, UnchangedKeeps
  <2>5. InSome(cwd_inode_nr)'
    BY <1>1, <2>1, <2>4 DEF InSome
  <2> QED BY <2>3, <2>4, <2>5 DEF ProcInv
<1>8. CASE NewProcess
  <2>1. cwd_inode_nr' = Root /\ cwd_buf' = <<>>
    BY <1>8 DEF NewProcess
  <2>2. Next
    BY <1>8, Zenon DEF NewProcess, Next
  <2> QED BY <1>4, <2>1, <2>2
<1>9. CASE UNCHANGED <<vars, cwdVars>>
  <2>1. UNCHANGED <<vars, cwd_inode_nr>> /\ stage' = stage /\ cwd_buf' = cwd_buf
    BY <1>9 DEF cwdVars
  <2>2. Climb(cwd_inode_nr)' = Climb(cwd_inode_nr)
    BY <2>1, ClimbSame
  <2>3. BufFact'
    BY <2>1, <2>2 DEF ProcInv, BufFact
  <2>4. IInv' /\ Sound' /\ InSome(n)'
    BY <1>2, <2>1, UnchangedKeeps
  <2>5. InSome(cwd_inode_nr)'
    BY <1>1, <2>1, <2>4 DEF InSome
  <2> QED BY <2>3, <2>4, <2>5 DEF ProcInv
<1> QED BY <1>5, <1>6, <1>7, <1>8, <1>9, Zenon DEF WorkingDirNext

LEMMA ProcInvInit == WorkingDirInit => ProcInv
<1> SUFFICES ASSUME WorkingDirInit PROVE ProcInv
  OBVIOUS
<1>1. TreeInv /\ cwd_inode_nr = Root /\ cwd_buf = <<>>
  BY InitTree DEF WorkingDirInit
<1>2. InSome(Root)
  BY <1>1 DEF TreeInv, InSome, InTree, Tree, TreeType
<1> QED BY <1>1, <1>2 DEF ProcInv, BufFact, TreeInv

LEMMA SpecProcInv == Usable => (CarefulProcess => []ProcInv)
<1> SUFFICES ASSUME Usable PROVE CarefulProcess => []ProcInv
  OBVIOUS
<1>1. ProcInv /\ [WorkingDirNext]_<<vars, cwdVars>> /\ [Careful]_vars /\ [KeepsCwd]_vars => ProcInv'
  BY ProcInvStep
<1> QED BY <1>1, ProcInvInit, PTL DEF CarefulProcess, WorkingDirSpec

(* As long as rmdir removes neither the working directory nor one that is  *)
(* in core, and is not asked for "." or "..", the path that sys_getcwd     *)
(* puts together leads back to the working directory, after any creations  *)
(* and removals elsewhere, and to the root when it is too long for cwd_buf *)
(* (fs.cpp:801-911).                                                       *)
THEOREM CwdFound == Usable => (CarefulProcess => []CwdPathLeadsBack)
<1> SUFFICES ASSUME Usable PROVE CarefulProcess => []CwdPathLeadsBack
  OBVIOUS
<1> QED BY SpecProcInv, ProcInvLeadsBack, PTL

-----------------------------------------------------------------------------
(* Places ranked by how many used ones come before them.                   *)
Earlier(U, q) == {r \in U : Precedes(r, q)}

LEMMA PlacesRanked ==
    ASSUME NEW U \in SUBSET Positions, IsFiniteSet(U)
    PROVE  /\ Cardinality(U) \in Nat
           /\ \A q \in U : Cardinality(Earlier(U, q)) \in 0 .. Cardinality(U) - 1
           /\ \A q, r \in U : Cardinality(Earlier(U, q)) = Cardinality(Earlier(U, r)) => q = r
           /\ \A k \in 0 .. Cardinality(U) - 1 : \E q \in U : Cardinality(Earlier(U, q)) = k
<1> DEFINE R == {x \in U \X U : Precedes(x[1], x[2])}
<1>1. ASSUME NEW q \in U
      PROVE  q[1] \in Int /\ q[2] \in Int /\ q = <<q[1], q[2]>>
  <2>1. q \in Positions
    OBVIOUS
  <2>2. q[1] \in BlockIdx /\ q[2] \in EntryIdx /\ q = <<q[1], q[2]>>
    BY <2>1, PositionParts
  <2> QED BY <2>2 DEF BlockIdx, EntryIdx
<1>2. \A q, r \in U : <<q, r>> \in R <=> Precedes(q, r)
  OBVIOUS
<1> HIDE DEF R
<1>3. Orders(R, U)
  <2>1. \A q \in U : ~Precedes(q, q)
    BY <1>1 DEF Precedes
  <2>2. \A q, r \in U : q = r \/ Precedes(q, r) \/ Precedes(r, q)
    BY <1>1 DEF Precedes
  <2>3. \A q, r, s \in U : Precedes(q, r) /\ Precedes(r, s) => Precedes(q, s)
    BY <1>1 DEF Precedes
  <2> QED BY <1>2, <2>1, <2>2, <2>3 DEF Orders
<1>4. \A q \in U : Before(R, U, q) = Earlier(U, q)
  BY <1>2 DEF Before, Earlier
<1> QED BY <1>3, <1>4, RanksFilled

(* What dir_read gives: the entry of rank k, and nothing at the end.       *)
LEMMA ReadFacts ==
    ASSUME IInv, Sound, NEW D, NEW up, NEW place, NEW depth, InTree(D, up, place, depth),
           NEW d \in D, NEW U, U = Used(inodeTable, blocks, d)
    PROVE  /\ \A q \in U : dir_read(inode_at(d), Cardinality(Earlier(U, q))) = Ent(inodeTable, blocks, d, q)
           /\ dir_read(inode_at(d), Cardinality(U)) = NULL
           /\ \A q \in U : Ent(inodeTable, blocks, d, q) # NULL
<1> DEFINE t == inodeTable
           bl == blocks
           dir == inode_at(d)
           used == {pos \in Positions : InDir(dir, pos) /\ EntryAt(dir, pos).f_type # "FT_UNKNOWN"}
           at(k) == {pos \in used : Cardinality({q \in used : Precedes(q, pos)}) = k}
<1>1. Tree(inodeBitmap, D, up, place, depth, t, bl) /\ dir = t[d] /\ used = U
  BY TreeFacts
<1>2. U \in SUBSET Positions /\ IsFiniteSet(U)
  BY PlaceFacts
<1>3. /\ Cardinality(U) \in Nat
      /\ \A q \in U : Cardinality(Earlier(U, q)) \in 0 .. Cardinality(U) - 1
      /\ \A q, r \in U : Cardinality(Earlier(U, q)) = Cardinality(Earlier(U, r)) => q = r
  BY <1>2, PlacesRanked
<1>4. dir.i_size = Cardinality(U)
  BY <1>1 DEF Tree, SizesRight
<1>5. \A k : at(k) = {pos \in U : Cardinality(Earlier(U, pos)) = k}
  BY <1>1 DEF Earlier
<1>6. \A k : dir_read(dir, k) = IF k >= dir.i_size \/ at(k) = {} THEN NULL ELSE EntryAt(dir, First(at(k)))
  BY DEF dir_read
<1> HIDE DEF at, used
<1>7. ASSUME NEW q \in U PROVE dir_read(dir, Cardinality(Earlier(U, q))) = Ent(t, bl, d, q)
  <2> DEFINE k == Cardinality(Earlier(U, q))
  <2>1. at(k) = {q}
    BY <1>3, <1>5
  <2>2. ~(k >= dir.i_size)
    BY <1>3, <1>4
  <2>3. First({q}) = q
    <3>1. q[1] \in BlockIdx /\ q[2] \in EntryIdx
      BY <1>2, PositionParts
    <3>2. ~Precedes(q, q)
      BY <3>1 DEF Precedes, BlockIdx, EntryIdx
    <3> QED BY <3>2 DEF First
  <2> HIDE DEF k
  <2>4. dir_read(dir, k) = EntryAt(dir, q)
    BY <1>6, <2>1, <2>2, <2>3
  <2> QED BY <1>1, <2>4 DEF k, EntryAt, Ent, At
<1>8. dir_read(dir, Cardinality(U)) = NULL
  BY <1>3, <1>4, <1>6
<1>9. ASSUME NEW q \in U PROVE Ent(t, bl, d, q) # NULL
  <2>1. t \in [Inodes -> InodeImages] /\ bl \in [Blocks -> [EntryIdx -> Entries]] /\ d \in Inodes
    BY <1>1 DEF IInv, DiskType, Tree, TreeType
  <2>2. At(t, d, q[1]) \in Blocks /\ q[2] \in EntryIdx
    BY <1>2, <2>1, Images, PositionParts DEF Used, Has
  <2>3. Ent(t, bl, d, q) \in Entries
    BY <2>1, <2>2 DEF Ent
  <2> QED BY <2>3, NullAssumption
<1> QED BY <1>7, <1>8, <1>9

(* Under the same hypotheses a listing gives each entry of a directory     *)
(* once and then ends: dir_read stops by i_size (dir.cpp:419) and counts   *)
(* its way through blocks from which entries were removed.                 *)
THEOREM EachEntryRead == Usable => (CarefulSpec => []ListingExact)
<1>1. TreeInv => ListingExact
  <2> SUFFICES ASSUME TreeInv, NEW d \in Directories
               PROVE  LET dir == inode_at(d)
                          read == [k \in 0 .. Cardinality(LiveEntries(d)) |-> dir_read(dir, k)]
                      IN  \A e \in LiveEntries(d) \cup {NULL} :
                              Cardinality({k \in DOMAIN read : read[k] = e}) = 1
    BY DEF ListingExact
  <2>1. IInv /\ Sound
    BY DEF TreeInv
  <2>2. PICK D, up, place, depth : InTree(D, up, place, depth)
    BY DEF TreeInv
  <2>3. d \in D
    BY <2>1, <2>2, Reached
  <2> DEFINE dir == inode_at(d)
             U == Used(inodeTable, blocks, d)
             n == Cardinality(U)
             ent == [q \in U |-> Ent(inodeTable, blocks, d, q)]
             rank(q) == Cardinality(Earlier(U, q))
             read == [k \in 0 .. Cardinality(LiveEntries(d)) |-> dir_read(dir, k)]
  <2>4. U \in SUBSET Positions /\ IsFiniteSet(U) /\ \A q \in U : ent[q] = Ent(inodeTable, blocks, d, q)
    BY PlaceFacts
  <2>5. /\ \A q \in U : dir_read(dir, rank(q)) = ent[q] /\ ent[q] # NULL
        /\ dir_read(dir, n) = NULL
    BY <2>1, <2>2, <2>3, <2>4, ReadFacts
  <2>6. /\ n \in Nat /\ \A q \in U : rank(q) \in 0 .. n - 1
        /\ \A k \in 0 .. n - 1 : \E q \in U : rank(q) = k
    BY <2>4, PlacesRanked
  <2>7. Tree(inodeBitmap, D, up, place, depth, inodeTable, blocks) /\ dir = inodeTable[d]
        /\ U = {q \in Positions : InDir(dir, q) /\ EntryAt(dir, q).f_type # "FT_UNKNOWN"}
    BY <2>1, <2>2, TreeFacts
  <2>8. LiveEntries(d) = {ent[q] : q \in U}
    <3>1. LiveEntries(d) = {EntryAt(dir, q) : q \in U}
      BY <2>7 DEF LiveEntries
    <3>2. \A q \in U : EntryAt(dir, q) = ent[q]
      BY <2>4, <2>7 DEF EntryAt, Ent, At
    <3> HIDE DEF U, ent, dir
    <3> QED BY <3>1, <3>2
  <2>9. \A q, r \in U : ent[q] = ent[r] => q = r
    BY <2>3, <2>4, <2>7 DEF Tree, NamesOnce
  <2>10. ent = [q \in U |-> ent[q]]
    OBVIOUS
  <2> HIDE DEF U, ent, dir
  <2>11. Cardinality(LiveEntries(d)) = n
    BY <2>4, <2>8, <2>9, <2>10, SameCount
  <2>12. DOMAIN read = 0 .. n /\ \A k \in 0 .. n : read[k] = dir_read(dir, k)
    BY <2>11
  <2> HIDE DEF read, rank, n
  <2>13. ASSUME NEW k \in 0 .. n PROVE k = n \/ \E q \in U : rank(q) = k
    BY <2>6
  <2>14. ASSUME NEW q \in U PROVE {k \in DOMAIN read : read[k] = ent[q]} = {rank(q)}
    <3>1. rank(q) \in 0 .. n
      BY <2>6
    <3>2. ASSUME NEW k \in 0 .. n, read[k] = ent[q] PROVE k = rank(q)
      <4>1. k # n
        BY <2>5, <2>12, <3>2
      <4>2. PICK r \in U : rank(r) = k
        BY <2>13, <4>1
      <4>3. ent[r] = ent[q]
        BY <2>5, <2>12, <3>2, <4>2
      <4> QED BY <2>9, <4>2, <4>3
    <3> QED BY <2>5, <2>12, <3>1, <3>2
  <2>15. {k \in DOMAIN read : read[k] = NULL} = {n}
    <3>1. ASSUME NEW k \in 0 .. n, read[k] = NULL PROVE k = n
      BY <2>5, <2>12, <2>13, <3>1
    <3>2. n \in 0 .. n
      BY <2>6
    <3> QED BY <2>5, <2>12, <3>1, <3>2
  <2>16. ASSUME NEW e \in LiveEntries(d) \cup {NULL}
         PROVE  Cardinality({k \in DOMAIN read : read[k] = e}) = 1
    <3>1. CASE e = NULL
      BY <2>15, <3>1, FS_Singleton
    <3>2. CASE e \in LiveEntries(d)
      <4>1. PICK q \in U : e = ent[q]
        BY <2>8, <3>2
      <4>2. {k \in DOMAIN read : read[k] = e} = {rank(q)}
        BY <2>14, <4>1
      <4> QED BY <4>2, FS_Singleton
    <3> QED BY <3>1, <3>2
  <2> QED BY <2>16 DEF read, dir
<1> QED BY <1>1, SpecTreeInv, PTL

-----------------------------------------------------------------------------
(* Names along a path.                                                     *)

LEMMA Appended ==
    ASSUME NEW s \in Seq(Names), NEW x \in Names
    PROVE  /\ Append(s, x) \in Seq(Names) /\ Len(Append(s, x)) = Len(s) + 1
           /\ SubSeq(Append(s, x), 1, Len(Append(s, x)) - 1) = s
<1> DEFINE a == Append(s, x)
           n == Len(s)
<1>1. n \in Nat /\ a \in Seq(Names) /\ Len(a) = n + 1 /\ \A i \in 1 .. n : a[i] = s[i]
  BY AppendProperties
<1>2. /\ SubSeq(a, 1, n) \in Seq(Names) /\ Len(SubSeq(a, 1, n)) = n
      /\ \A i \in 1 .. n : SubSeq(a, 1, n)[i] = s[i]
  <2>1. \A i \in 1 .. n : a[i] \in Names
    BY <1>1
  <2> HIDE DEF a, n
  <2>2. /\ SubSeq(a, 1, n) \in Seq(Names)
        /\ Len(SubSeq(a, 1, n)) = IF 1 <= n THEN n - 1 + 1 ELSE 0
        /\ \A i \in 1 .. n - 1 + 1 : SubSeq(a, 1, n)[i] = a[1 + i - 1]
    BY <1>1, <2>1, SubSeqProperties
  <2>3. \A i \in 1 .. n : i \in 1 .. n - 1 + 1 /\ 1 + i - 1 = i
    BY <1>1
  <2> QED BY <1>1, <2>2, <2>3
<1>3. SubSeq(a, 1, n) = s
  <2> DEFINE b == SubSeq(a, 1, n)
  <2>1. Len(b) = Len(s) /\ \A i \in 1 .. Len(b) : b[i] = s[i]
    BY <1>2
  <2>2. b \in Seq(Names)
    BY <1>2
  <2> HIDE DEF b
  <2>3. b = s
    BY <2>1, <2>2, SeqEqual
  <2> QED BY <2>3 DEF b
<1>4. Len(a) - 1 = n
  BY <1>1
<1> QED BY <1>1, <1>3, <1>4

(* A path that is not longer than there are inodes below the root.         *)
LEMMA IsUserPath ==
    ASSUME NEW s \in Seq(Names), Len(s) \in 1 .. MaxInodes - 1
    PROVE  s \in UserPaths
<1> DEFINE n == MaxInodes - 1
           p == [i \in 1 .. n |-> IF i <= Len(s) THEN s[i] ELSE s[1]]
<1>1. n \in Nat /\ Len(s) \in Nat /\ Len(s) >= 1 /\ Len(s) <= n
  BY SizesAssumption
<1>2. \A i \in 1 .. Len(s) : s[i] \in Names
  OBVIOUS
<1>3. p \in [1 .. n -> Names]
  BY <1>1, <1>2
<1>4. SubSeq(p, 1, Len(s)) = s
  <2>1. \A i \in 1 .. Len(s) : p[i] = s[i] /\ p[i] \in Names
    BY <1>1, <1>2
  <2> HIDE DEF p
  <2> DEFINE b == SubSeq(p, 1, Len(s))
             m == Len(s)
  <2>2. m \in Int
    BY <1>1
  <2>3. /\ b \in Seq(Names) /\ Len(b) = IF 1 <= m THEN m - 1 + 1 ELSE 0
        /\ \A i \in 1 .. m - 1 + 1 : b[i] = p[1 + i - 1]
    BY <2>1, <2>2, SubSeqProperties
  <2>4. \A i \in 1 .. m : i \in 1 .. m - 1 + 1 /\ 1 + i - 1 = i
    BY <1>1
  <2>5. Len(b) = Len(s) /\ \A i \in 1 .. Len(b) : b[i] = s[i]
    BY <1>1, <2>1, <2>3, <2>4
  <2> HIDE DEF b, m
  <2>6. b = s
    BY <2>3, <2>5, SeqEqual
  <2> QED BY <2>6 DEF b
<1>5. p \in [1 .. MaxInodes - 1 -> Names]
  BY <1>3
<1> DEFINE F == [1 .. MaxInodes - 1 -> Names]
           T == 1 .. MaxInodes - 1
<1>6. p \in F /\ Len(s) \in T /\ s = SubSeq(p, 1, Len(s))
  BY <1>4, <1>5
<1>7. UserPaths = {SubSeq(q, 1, k) : q \in F, k \in T}
  BY DEF UserPaths
<1> HIDE DEF p, F, T
<1> QED BY <1>6, <1>7
-----------------------------------------------------------------------------
(* The names L of a tree and the path P[n] that leads to inode n.          *)

LinksOK(ib, D, L) ==
    /\ Root \in D /\ D \subseteq ib /\ ib \subseteq Inodes /\ DOMAIN L = ib \ {Root}
    /\ \A n \in DOMAIN L :
          /\ L[n][1] \in D /\ L[n][2].i_no = n /\ L[n][2].filename \in Names
          /\ L[n][2].f_type = IF n \in D THEN "FT_DIRECTORY" ELSE "FT_REGULAR"
    /\ \A m, n \in DOMAIN L :
          L[m][1] = L[n][1] /\ L[m][2].filename = L[n][2].filename => m = n
PathsOf(L, P) ==
    /\ P \in [Inodes -> Seq(Names)] /\ P[Root] = <<>>
    /\ \A n \in DOMAIN L : P[n] = Append(P[L[n][1]], L[n][2].filename)

LEMMA TreeLinks ==
    ASSUME NEW ib, NEW D, NEW up, NEW place, NEW depth, NEW t, NEW bl,
           Tree(ib, D, up, place, depth, t, bl), NEW L, L = Links(ib, up, place, t, bl)
    PROVE  LinksOK(ib, D, L) /\ \A n \in DOMAIN L : L[n][1] = up[n]
<1>1. Root \in D /\ D \subseteq ib /\ ib \subseteq Inodes
  BY DEF Tree, TreeType
<1>2. /\ DOMAIN L = ib \ {Root}
      /\ \A n \in ib \ {Root} : L[n][1] = up[n] /\ L[n][2] = Ent(t, bl, up[n], place[n])
  BY DEF Links
<1>3. ASSUME NEW n \in ib \ {Root}
      PROVE  /\ up[n] \in D /\ place[n] \in Used(t, bl, up[n]) /\ L[n][2].i_no = n
             /\ L[n][2].filename \in Names
             /\ L[n][2].f_type = IF n \in D THEN "FT_DIRECTORY" ELSE "FT_REGULAR"
  <2>1. up[n] \in D
    BY DEF Tree, TreeType
  <2>2. place[n] \in Used(t, bl, up[n]) \ Dots /\ Ent(t, bl, up[n], place[n]).i_no = n
    BY DEF Tree, HomesRight
  <2>3. Leads(ib, D, up, place, up[n], place[n], Ent(t, bl, up[n], place[n]))
    BY <2>1, <2>2 DEF Tree, EntriesRight
  <2> QED BY <1>2, <2>1, <2>2, <2>3 DEF Leads
<1>4. ASSUME NEW m \in ib \ {Root}, NEW n \in ib \ {Root},
             L[m][1] = L[n][1], L[m][2].filename = L[n][2].filename
      PROVE  m = n
  <2>1. place[m] = place[n] /\ up[m] = up[n]
    BY <1>2, <1>3, <1>4 DEF Tree, NamesOnce
  <2> QED BY <1>2, <1>3, <2>1
<1> QED BY <1>1, <1>2, <1>3, <1>4 DEF LinksOK

(* The length of a path is a depth, and no path is longer than the chain   *)
(* of all inodes.                                                          *)
LEMMA PathLengths ==
    ASSUME NEW ib, NEW D, NEW up, NEW place, NEW depth, NEW t, NEW bl,
           Tree(ib, D, up, place, depth, t, bl), NEW L, L = Links(ib, up, place, t, bl),
           NEW P, PathsOf(L, P)
    PROVE  /\ \A d \in D : Len(P[d]) = depth[d]
           /\ \A n \in ib \ {Root} : Len(P[n]) \in 1 .. MaxInodes - 1
<1>1. /\ TreeType(ib, D, up, place, depth) /\ DepthsRight(D, up, depth) /\ LinksOK(ib, D, L)
      /\ \A n \in DOMAIN L : L[n][1] = up[n]
  BY TreeLinks DEF Tree
<1>2. /\ Root \in D /\ D \subseteq ib /\ ib \subseteq Inodes /\ DOMAIN L = ib \ {Root}
      /\ P \in [Inodes -> Seq(Names)] /\ P[Root] = <<>>
      /\ \A n \in ib : up[n] \in D
      /\ depth[Root] = 0 /\ \A d \in D : d # Root => depth[d] = depth[up[d]] + 1
  BY <1>1 DEF LinksOK, PathsOf, TreeType, DepthsRight
<1>3. \A d \in D : depth[d] \in Nat /\ depth[d] < MaxInodes
  BY <1>1, DepthBounded DEF TreeType
<1>4. ASSUME NEW n \in ib, n # Root
      PROVE  Len(P[n]) = Len(P[up[n]]) + 1 /\ Len(P[up[n]]) \in Nat
  <2>1. /\ up[n] \in Inodes /\ L[n][2].filename \in Names
        /\ P[n] = Append(P[up[n]], L[n][2].filename)
    BY <1>1, <1>2, <1>4 DEF LinksOK, PathsOf
  <2>2. P[up[n]] \in Seq(Names)
    BY <1>2, <2>1
  <2> QED BY <2>1, <2>2, Appended
<1>5. ASSUME NEW d \in D PROVE Len(P[d]) = depth[d]
  <2> DEFINE S == {k \in 0 .. MaxInodes : \A m \in D : depth[m] = k => Len(P[m]) = k}
  <2>1. 0 \in S
    <3>1. ASSUME NEW m \in D, depth[m] = 0 PROVE m = Root
      <4> SUFFICES ASSUME m # Root PROVE FALSE
        OBVIOUS
      <4>1. depth[m] = depth[up[m]] + 1 /\ up[m] \in D
        BY <1>2
      <4>2. depth[up[m]] \in Nat
        BY <1>3, <4>1
      <4> QED BY <3>1, <4>1, <4>2
    <3>2. Len(P[Root]) = 0
      BY <1>2
    <3>3. 0 \in 0 .. MaxInodes
      BY SizesAssumption
    <3>4. \A m \in D : depth[m] = 0 => Len(P[m]) = 0
      BY <3>1, <3>2
    <3> QED BY <3>3, <3>4
  <2>2. ASSUME NEW k \in 0 .. MaxInodes - 1, k \in S PROVE k + 1 \in S
    <3> SUFFICES ASSUME NEW m \in D, depth[m] = k + 1 PROVE Len(P[m]) = k + 1
      BY SizesAssumption
    <3>1. m # Root /\ up[m] \in D /\ depth[up[m]] = k
      <4>1. depth[Root] = 0
        BY <1>2
      <4>2. m # Root
        BY <4>1
      <4>3. up[m] \in D /\ depth[m] = depth[up[m]] + 1
        BY <1>2, <4>2
      <4>4. depth[up[m]] \in Nat
        BY <1>3, <4>3
      <4> QED BY <4>2, <4>3, <4>4
    <3>2. Len(P[up[m]]) = k
      BY <2>2, <3>1
    <3> QED BY <1>2, <1>4, <3>1, <3>2
  <2>3. 0 .. MaxInodes \subseteq S
    <3> HIDE DEF S
    <3> QED BY <2>1, <2>2, SizesAssumption, IntervalInduction
  <2>4. depth[d] \in 0 .. MaxInodes
    BY <1>3, SizesAssumption
  <2> QED BY <2>3, <2>4
<1>6. ASSUME NEW n \in ib, n # Root PROVE Len(P[n]) \in 1 .. MaxInodes - 1
  <2>1. CASE n \in D
    <3>1. Len(P[n]) = depth[n] /\ depth[n] >= 1 /\ depth[n] <= MaxInodes - 1 /\ depth[n] \in Nat
      BY <1>2, <1>3, <1>5, <1>6, <2>1, SizesAssumption
    <3> QED BY <3>1, SizesAssumption
  <2>2. CASE n \notin D
    <3> DEFINE depth2 == [depth EXCEPT ![n] = depth[up[n]] + 1]
               D2 == D \cup {n}
    <3>1. depth \in [Inodes -> Nat] /\ n \in Inodes /\ up[n] \in D
      BY <1>1, <1>2 DEF TreeType
    <3>2. /\ depth2 \in [Inodes -> Nat] /\ depth2[n] = depth[up[n]] + 1
          /\ \A m \in D : depth2[m] = depth[m]
      BY <1>2, <1>3, <2>2, <3>1
    <3> HIDE DEF depth2
    <3>3. TreeType(ib, D2, up, place, depth2)
      BY <1>1, <3>2 DEF TreeType
    <3>4. DepthsRight(D2, up, depth2)
      BY <1>2, <3>1, <3>2 DEF DepthsRight
    <3>5. depth2[n] < MaxInodes
      BY <3>3, <3>4, DepthBounded
    <3>6. Len(P[n]) = depth[up[n]] + 1 /\ depth[up[n]] \in Nat
      BY <1>3, <1>4, <1>5, <1>6, <3>1
    <3> QED BY <3>2, <3>5, <3>6, SizesAssumption
  <2> QED BY <2>1, <2>2
<1> QED BY <1>5, <1>6

(* Two inodes do not have the same path.                                   *)
LEMMA PathsApart ==
    ASSUME NEW ib, NEW D, NEW L, LinksOK(ib, D, L), NEW P, PathsOf(L, P),
           NEW m \in ib, NEW n \in ib, P[m] = P[n]
    PROVE  m = n
<1> DEFINE N == Len(P[m])
           S == {k \in 0 .. N : \A x, y \in ib : Len(P[x]) = k /\ P[x] = P[y] => x = y}
<1>1. /\ P \in [Inodes -> Seq(Names)] /\ P[Root] = <<>> /\ ib \subseteq Inodes
      /\ \A x \in ib : x # Root => /\ L[x][1] \in ib /\ L[x][2].filename \in Names
                                  /\ P[x] = Append(P[L[x][1]], L[x][2].filename)
  BY DEF LinksOK, PathsOf
<1>2. ASSUME NEW x \in ib, x # Root PROVE Len(P[x]) = Len(P[L[x][1]]) + 1
  <2>1. P[L[x][1]] \in Seq(Names)
    BY <1>1, <1>2
  <2> QED BY <1>1, <1>2, <2>1, Appended
<1>3. \A x \in ib : Len(P[x]) \in Nat
  BY <1>1
<1>4. N \in Nat
  BY <1>3
<1> HIDE DEF N
<1>5. 0 \in S
  <2>1. \A x \in ib : Len(P[x]) = 0 => x = Root
    <3> SUFFICES ASSUME NEW x \in ib, Len(P[x]) = 0, x # Root PROVE FALSE
      OBVIOUS
    <3>1. Len(P[L[x][1]]) \in Nat
      BY <1>1, <1>3
    <3> QED BY <1>2, <3>1
  <2> QED BY <1>4, <2>1
<1>6. ASSUME NEW k \in 0 .. N - 1, k \in S PROVE k + 1 \in S
  <2> SUFFICES ASSUME NEW x \in ib, NEW y \in ib, Len(P[x]) = k + 1, P[x] = P[y] PROVE x = y
    BY <1>4
  <2>1. x # Root /\ y # Root
    BY <1>1
  <2> DEFINE a == P[L[x][1]]
             b == P[L[y][1]]
             e == L[x][2].filename
             f == L[y][2].filename
  <2>2. a \in Seq(Names) /\ b \in Seq(Names) /\ e \in Names /\ f \in Names
        /\ Append(a, e) = Append(b, f) /\ L[x][1] \in ib /\ L[y][1] \in ib
    BY <1>1, <2>1
  <2>3. Len(a) = k
    BY <1>2, <1>3, <2>1, <2>2
  <2>4. a = b /\ e = f
    <3> HIDE DEF a, b, e, f
    <3> QED BY <2>2, AppendInjective
  <2>5. L[x][1] = L[y][1]
    BY <1>6, <2>2, <2>3, <2>4
  <2> QED BY <2>1, <2>4, <2>5 DEF LinksOK
<1>7. 0 .. N \subseteq S
  <2> HIDE DEF S
  <2> QED BY <1>4, <1>5, <1>6, IntervalInduction
<1>8. N \in 0 .. N
  BY <1>4
<1> QED BY <1>7, <1>8 DEF N

-----------------------------------------------------------------------------
(* What ls -R shows are the names of the tree.                             *)

Shown(L, P) == {<<P[n], L[n][2]>> : n \in DOMAIN L}
OnTree(D, up, place, depth, P) ==
    InTree(D, up, place, depth) /\ PathsOf(LinksNow(up, place), P)

LEMMA ChildrenLinks ==
    ASSUME IInv, Sound, NEW D, NEW up, NEW place, NEW depth, InTree(D, up, place, depth),
           NEW d \in D, NEW L, L = LinksNow(up, place)
    PROVE  Children(d) = {L[n][2] : n \in {m \in DOMAIN L : L[m][1] = d}}
<1> DEFINE t == inodeTable
           bl == blocks
<1>1. /\ DOMAIN L = inodeBitmap \ {Root}
      /\ \A n \in inodeBitmap \ {Root} : L[n][1] = up[n] /\ L[n][2] = Ent(t, bl, up[n], place[n])
  BY DEF LinksNow, Links
<1>2. ASSUME NEW e \in Children(d)
      PROVE  e.i_no \in DOMAIN L /\ L[e.i_no][1] = d /\ L[e.i_no][2] = e
  BY <1>1, ChildrenFacts
<1>3. ASSUME NEW n \in DOMAIN L, L[n][1] = d PROVE L[n][2] \in Children(d)
  <2>1. Tree(inodeBitmap, D, up, place, depth, t, bl)
    BY TreeFacts
  <2>2. place[n] \in Used(t, bl, d) \ Dots /\ up[n] = d
    BY <1>1, <1>3, <2>1 DEF Tree, HomesRight
  <2>3. L[n][2] = Ent(t, bl, d, place[n])
    BY <1>1, <1>3, <2>2
  <2> QED BY <2>2, <2>3, ChildrenFacts
<1> QED BY <1>2, <1>3

(* A pass over the names found so far.                                     *)
Longer(S) == S \cup Below(S)

LEMMA BelowFacts ==
    ASSUME IInv, Sound, NEW D, NEW up, NEW place, NEW depth, NEW P,
           OnTree(D, up, place, depth, P), NEW L, L = LinksNow(up, place),
           NEW S \in SUBSET (Shown(L, P) \cup {Slash})
    PROVE  /\ Longer(S) \in SUBSET (Shown(L, P) \cup {Slash})
           /\ \A y \in S, n \in DOMAIN L :
                 y[2].f_type = "FT_DIRECTORY" /\ y[2].i_no = L[n][1]
                     => <<P[n], L[n][2]>> \in Longer(S)
<1>1. LinksOK(inodeBitmap, D, L) /\ PathsOf(L, P) /\ InTree(D, up, place, depth)
  BY TreeFacts, TreeLinks DEF OnTree, LinksNow
<1>2. ASSUME NEW y \in S, y[2].f_type = "FT_DIRECTORY"
      PROVE  y[2].i_no \in D /\ y[1] = P[y[2].i_no]
  <2>1. CASE y = Slash
    BY <1>1, <2>1 DEF Slash, Entry, LinksOK, PathsOf
  <2>2. CASE y \in Shown(L, P)
    <3>1. PICK m \in DOMAIN L : y = <<P[m], L[m][2]>>
      BY <2>2 DEF Shown
    <3> QED BY <1>1, <1>2, <3>1 DEF LinksOK
  <2> QED BY <2>1, <2>2
<1>3. ASSUME NEW y \in S, y[2].f_type = "FT_DIRECTORY"
      PROVE  Children(y[2].i_no) = {L[n][2] : n \in {m \in DOMAIN L : L[m][1] = y[2].i_no}}
  BY <1>1, <1>2, <1>3, ChildrenLinks
<1>4. ASSUME NEW n \in DOMAIN L
      PROVE  P[n] = Append(P[L[n][1]], L[n][2].filename) /\ <<P[n], L[n][2]>> \in Shown(L, P)
  BY <1>1 DEF PathsOf, Shown
<1>5. ASSUME NEW x \in Below(S) PROVE x \in Shown(L, P)
  <2>1. PICK y \in S : y[2].f_type = "FT_DIRECTORY"
                     /\ x \in {<<Append(y[1], e.filename), e>> : e \in Children(y[2].i_no)}
    BY <1>5 DEF Below
  <2>2. PICK e \in Children(y[2].i_no) : x = <<Append(y[1], e.filename), e>>
    BY <2>1, Zenon
  <2> DEFINE C == Children(y[2].i_no)
             M == {m \in DOMAIN L : L[m][1] = y[2].i_no}
  <2>5. e \in C /\ C = {L[n][2] : n \in M}
    BY <1>3, <2>1, <2>2, Zenon
  <2> HIDE DEF C
  <2>3. PICK n \in DOMAIN L : L[n][1] = y[2].i_no /\ e = L[n][2]
    BY <2>5
  <2>4. x = <<P[n], L[n][2]>>
    <3>1. y[1] = P[L[n][1]]
      <4>1. y[1] = P[y[2].i_no]
        BY <1>2, <2>1, Zenon
      <4> QED BY <4>1, <2>3, Zenon
    <3>2. P[n] = Append(y[1], e.filename)
      BY <1>4, <2>3, <3>1, Zenon
    <3> QED BY <2>2, <2>3, <3>2, Zenon
  <2> QED BY <1>4, <2>4
<1>6. ASSUME NEW y \in S, NEW n \in DOMAIN L,
             y[2].f_type = "FT_DIRECTORY", y[2].i_no = L[n][1]
      PROVE  <<P[n], L[n][2]>> \in Below(S)
  <2>1. L[n][2] \in Children(y[2].i_no)
    BY <1>3, <1>6
  <2>2. <<P[n], L[n][2]>> = <<Append(y[1], L[n][2].filename), L[n][2]>>
    BY <1>2, <1>4, <1>6
  <2> QED BY <1>6, <2>1, <2>2 DEF Below
<1> QED BY <1>5, <1>6 DEF Longer

LEMMA VisibleNow ==
    ASSUME IInv, Sound, NEW D, NEW up, NEW place, NEW depth, NEW P,
           OnTree(D, up, place, depth, P), NEW L, L = LinksNow(up, place)
    PROVE  Visible = Shown(L, P)
<1> DEFINE n == MaxInodes
           All == Shown(L, P) \cup {Slash}
           A == SUBSET All
           G == [S \in A |-> Longer(S)]
           g == [k \in 1 .. n |-> G]
           body(level) == [k \in 0 .. n |-> IF k = 0 THEN {Slash}
               ELSE level[k - 1] \cup Below(level[k - 1])]
           level == CHOOSE level : level = body(level)
<1>1. n \in Nat /\ n # 0
  BY SizesAssumption
<1>2. {Slash} \in A
  OBVIOUS
<1>3. G \in [A -> A]
  BY BelowFacts
<1> HIDE DEF A, G, n
<1>4. PICK w \in [0 .. n -> A] : w[0] = {Slash} /\ \A k \in 1 .. n : w[k] = Longer(w[k - 1])
  <2>1. g \in [1 .. n -> [A -> A]]
    BY <1>3
  <2> HIDE DEF g
  <2>2. PICK f \in [0 .. n -> A] : Iterates(f, n, {Slash}, g)
    BY <1>1, <1>2, <2>1, IntervalRecursion
  <2>3. ASSUME NEW k \in 1 .. n PROVE f[k] = Longer(f[k - 1])
    <3>1. f[k] = g[k][f[k - 1]]
      BY <2>2 DEF Iterates
    <3>2. k - 1 \in 0 .. n
      BY <1>1
    <3>3. f[k - 1] \in A
      BY <3>2
    <3> QED BY <3>1, <3>3 DEF g, G
  <2> QED BY <2>2, <2>3 DEF Iterates
<1>5. w = body(w)
  <2>1. \A k \in 0 .. n : w[k] = body(w)[k]
    BY <1>1, <1>4 DEF Longer
  <2> QED BY <2>1
<1>6. ASSUME NEW v, v = body(v) PROVE v = w
  <2>1. \A k \in 0 .. n : v[k] = IF k = 0 THEN {Slash} ELSE Longer(v[k - 1])
    BY <1>6 DEF Longer
  <2> DEFINE S == {k \in 0 .. n : v[k] = w[k]}
  <2>2. 0 \in S
    <3>1. 0 \in 0 .. n
      BY <1>1
    <3>2. v[0] = {Slash}
      BY <2>1, <3>1
    <3> QED BY <1>4, <3>1, <3>2
  <2>3. \A k \in 0 .. n - 1 : k \in S => k + 1 \in S
    <3> SUFFICES ASSUME NEW k \in 0 .. n - 1, v[k] = w[k] PROVE k + 1 \in S
      OBVIOUS
    <3>1. k + 1 \in 1 .. n /\ k + 1 \in 0 .. n /\ k + 1 # 0 /\ k + 1 - 1 = k
      BY <1>1
    <3> QED BY <1>4, <2>1, <3>1
  <2>4. 0 .. n \subseteq S
    <3> HIDE DEF S
    <3> QED BY <1>1, <2>2, <2>3, IntervalInduction
  <2>5. v = [k \in 0 .. n |-> v[k]] /\ w = [k \in 0 .. n |-> w[k]]
    BY <1>4, <1>6
  <2> QED BY <2>4, <2>5
<1>7. level = w
  <2> HIDE DEF body
  <2> QED BY <1>5, <1>6
<1>8. Visible = level[n] \ {Slash}
  BY Zenon DEF Visible, n
<1> HIDE DEF body, level
<1>9. /\ LinksOK(inodeBitmap, D, L) /\ PathsOf(L, P)
      /\ \A m \in DOMAIN L : Len(P[m]) \in 1 .. n - 1
  <2>1. /\ Tree(inodeBitmap, D, up, place, depth, inodeTable, blocks) /\ PathsOf(L, P)
        /\ L = Links(inodeBitmap, up, place, inodeTable, blocks)
    BY TreeFacts DEF OnTree, LinksNow
  <2>2. LinksOK(inodeBitmap, D, L)
    BY <2>1, TreeLinks
  <2>3. \A m \in inodeBitmap \ {Root} : Len(P[m]) \in 1 .. MaxInodes - 1
    BY <2>1, PathLengths
  <2> QED BY <2>1, <2>2, <2>3 DEF LinksOK, n
<1>10. ASSUME NEW m \in DOMAIN L PROVE <<P[m], L[m][2]>> \in w[n]
  <2> DEFINE S == {k \in 0 .. n : Slash \in w[k] /\
                      \A i \in DOMAIN L : Len(P[i]) <= k => <<P[i], L[i][2]>> \in w[k]}
  <2>1. 0 \in S
    <3>1. \A i \in DOMAIN L : ~(Len(P[i]) <= 0)
      BY <1>1, <1>9
    <3> QED BY <1>1, <1>4, <3>1
  <2>2. ASSUME NEW k \in 0 .. n - 1, k \in S PROVE k + 1 \in S
    <3>1. k + 1 \in 1 .. n /\ k \in 0 .. n /\ k + 1 - 1 = k /\ k + 1 \in 0 .. n
      BY <1>1
    <3>2. w[k + 1] = Longer(w[k]) /\ w[k] \in SUBSET All
      BY <1>4, <3>1 DEF A
    <3>3. Slash \in w[k + 1]
      BY <2>2, <3>2 DEF Longer
    <3>4. ASSUME NEW i \in DOMAIN L, Len(P[i]) <= k + 1 PROVE <<P[i], L[i][2]>> \in w[k + 1]
      <4> DEFINE d == L[i][1]
      <4>1. /\ d \in D /\ L[i][2].filename \in Names /\ P[d] \in Seq(Names)
            /\ P[i] = Append(P[d], L[i][2].filename)
        BY <1>9 DEF LinksOK, PathsOf
      <4>2. Len(P[i]) = Len(P[d]) + 1 /\ Len(P[d]) \in Nat
        BY <4>1, Appended
      <4>3. PICK y \in w[k] : y[2].f_type = "FT_DIRECTORY" /\ y[2].i_no = d
        <5>1. CASE d = Root
          BY <2>2, <5>1 DEF Slash, Entry
        <5>2. CASE d # Root
          <6>1. d \in DOMAIN L /\ L[d][2].i_no = d /\ L[d][2].f_type = "FT_DIRECTORY"
            BY <1>9, <4>1, <5>2 DEF LinksOK
          <6>2. Len(P[d]) <= k
            BY <3>1, <3>4, <4>2
          <6>3. <<P[d], L[d][2]>> \in w[k]
            <7> HIDE DEF d
            <7> QED BY <2>2, <6>1, <6>2
          <6> QED BY <6>1, <6>3
        <5> QED BY <5>1, <5>2
      <4> QED BY <3>2, <4>3, BelowFacts
    <3> QED BY <3>1, <3>3, <3>4
  <2>3. 0 .. n \subseteq S
    <3> HIDE DEF S
    <3> QED BY <1>1, <2>1, <2>2, IntervalInduction
  <2>4. n \in 0 .. n /\ Len(P[m]) <= n
    BY <1>1, <1>9
  <2> QED BY <2>3, <2>4
<1>11. w[n] \subseteq Shown(L, P) \cup {Slash}
  <2>1. n \in 0 .. n
    BY <1>1
  <2> QED BY <1>4, <2>1 DEF A
<1>12. Slash \notin Shown(L, P)
  <2> SUFFICES ASSUME NEW m \in DOMAIN L, Slash = <<P[m], L[m][2]>> PROVE FALSE
    BY DEF Shown
  <2>1. L[m][2].i_no = m /\ m # Root
    BY <1>9 DEF LinksOK
  <2> QED BY <2>1 DEF Slash, Entry
<1>13. Shown(L, P) \subseteq w[n]
  BY <1>10 DEF Shown
<1> QED BY <1>7, <1>8, <1>11, <1>12, <1>13

-----------------------------------------------------------------------------
(* What tree and handles show of the state.                                *)

ShowsTree(t, L, P) ==
    /\ t = [p \in {P[n] : n \in DOMAIN L} |-> t[p]]
    /\ \A n \in DOMAIN L : t[P[n]] = L[n][2].f_type
HandlesOf(o, ft, fd, P) ==
    [f \in OF!Fds |-> IF fd[f] = -1 THEN NULL ELSE P[o.object[ft[fd[f]]].i_no]]

Computed ==
    /\ tree = TreeOf(Visible)
    /\ handles = [f \in OF!Fds |->
                     IF fdTable[f] = -1 THEN NULL
                     ELSE PathTo(Visible, open_inodes.object[fileTable[fdTable[f]]].i_no)]
ViewOn(L, P) ==
    /\ PathsOf(L, P)
    /\ ShowsTree(tree, L, P) /\ handles = HandlesOf(open_inodes, fileTable, fdTable, P)

(* The inode of a descriptor is a file in use.                             *)
LEMMA HandleInode ==
    ASSUME IInv, Sound, NEW D, NEW up, NEW place, NEW depth, InTree(D, up, place, depth),
           NEW f \in OF!Fds, fdTable[f] # -1,
           NEW n, n = open_inodes.object[fileTable[fdTable[f]]].i_no
    PROVE  /\ n \in inodeBitmap /\ n \notin D
           /\ fileTable[fdTable[f]] \in OFP!Live(open_inodes)
<1>1. OFP!FdsHold /\ f \in OFP!Fds
  BY OpenFacts, SameSets
<1>2. /\ fdTable[f] \in OFP!Slots /\ fileTable[fdTable[f]] \in OFP!Addrs
      /\ open_inodes.object[fileTable[fdTable[f]]] # NULL
  BY <1>1 DEF OFP!FdsHold
<1>3. NULL \notin OFP!Addrs
  BY OpenFilesAssumption DEF OFP!Addrs
<1>4. fileTable[fdTable[f]] \in OFP!Live(open_inodes)
  BY <1>2 DEF OFP!Live
<1> QED BY <1>2, <1>3, <1>4 DEF InTree, HoldsFiles, Sound, Cached

LEMMA ComputedShows ==
    ASSUME IInv, Sound, Computed,
           NEW D, NEW up, NEW place, NEW depth, NEW P, OnTree(D, up, place, depth, P)
    PROVE  ViewOn(LinksNow(up, place), P)
<1> DEFINE L == LinksNow(up, place)
           V == Shown(L, P)
           N == {P[n] : n \in DOMAIN L}
<1>1. /\ LinksOK(inodeBitmap, D, L) /\ PathsOf(L, P) /\ InTree(D, up, place, depth)
      /\ DOMAIN L = inodeBitmap \ {Root}
  <2>1. /\ Tree(inodeBitmap, D, up, place, depth, inodeTable, blocks) /\ PathsOf(L, P)
        /\ L = Links(inodeBitmap, up, place, inodeTable, blocks) /\ InTree(D, up, place, depth)
    BY TreeFacts DEF OnTree, LinksNow
  <2>2. LinksOK(inodeBitmap, D, L)
    BY <2>1, TreeLinks
  <2> QED BY <2>1, <2>2 DEF LinksOK
<1>2. Visible = V
  BY VisibleNow
<1> HIDE DEF L
<1>3. ASSUME NEW n \in DOMAIN L, NEW x \in V, x[1] = P[n] PROVE x = <<P[n], L[n][2]>>
  <2>1. PICK m \in DOMAIN L : x = <<P[m], L[m][2]>>
    BY DEF Shown
  <2>2. m = n
    BY <1>1, <1>3, <2>1, PathsApart
  <2> QED BY <2>1, <2>2
<1>4. ASSUME NEW n \in DOMAIN L, NEW x \in V, x[2].i_no = n PROVE x = <<P[n], L[n][2]>>
  <2>1. PICK m \in DOMAIN L : x = <<P[m], L[m][2]>>
    BY DEF Shown
  <2> QED BY <1>1, <1>4, <2>1 DEF LinksOK
<1>5. ASSUME NEW n \in DOMAIN L PROVE <<P[n], L[n][2]>> \in V
  BY DEF Shown
<1>6. {x[1] : x \in V} = N
  <2>1. \A x \in V : x[1] \in N
    BY DEF Shown
  <2>2. \A n \in DOMAIN L : \E x \in V : x[1] = P[n]
    BY <1>5
  <2>3. \A p \in N : \E x \in V : x[1] = p
    BY <2>2
  <2> HIDE DEF V, N
  <2> QED BY <2>1, <2>3
<1>7. ShowsTree(tree, L, P)
  <2>1. tree = [p \in N |-> (CHOOSE x \in V : x[1] = p)[2].f_type]
    <3>1. tree = TreeOf(V)
      BY <1>2 DEF Computed
    <3> HIDE DEF V, N
    <3>2. TreeOf(V) = [p \in {x[1] : x \in V} |-> (CHOOSE x \in V : x[1] = p)[2].f_type]
      BY DEF TreeOf
    <3> QED BY <1>6, <3>1, <3>2
  <2>2. ASSUME NEW n \in DOMAIN L PROVE tree[P[n]] = L[n][2].f_type
    <3> HIDE DEF V
    <3>1. (CHOOSE x \in V : x[1] = P[n]) = <<P[n], L[n][2]>>
      BY <1>3, <1>5
    <3>2. P[n] \in N
      OBVIOUS
    <3> DEFINE y(p) == CHOOSE x \in V : x[1] = p
    <3>3. tree = [p \in N |-> y(p)[2].f_type] /\ y(P[n]) = <<P[n], L[n][2]>>
      BY <2>1, <3>1
    <3> HIDE DEF y, N
    <3>4. tree[P[n]] = y(P[n])[2].f_type
      BY <3>2, <3>3
    <3> QED BY <3>3, <3>4
  <2> QED BY <2>1, <2>2 DEF ShowsTree
<1>8. ASSUME NEW n \in DOMAIN L PROVE PathTo(V, n) = P[n]
  <2> HIDE DEF V
  <2>1. L[n][2].i_no = n
    BY <1>1 DEF LinksOK
  <2> DEFINE found == {x \in V : x[2].i_no = n}
  <2>2. found = {<<P[n], L[n][2]>>}
    BY <1>4, <1>5, <2>1
  <2> DEFINE y == CHOOSE x \in found : TRUE
  <2>3. PathTo(V, n) = IF found = {} THEN <<>> ELSE y[1]
    BY DEF PathTo
  <2> HIDE DEF found
  <2>4. found # {} /\ y = <<P[n], L[n][2]>>
    BY <2>2
  <2> HIDE DEF y
  <2>5. y[1] = P[n]
    BY <2>4
  <2> QED BY <2>3, <2>4, <2>5
<1>9. handles = HandlesOf(open_inodes, fileTable, fdTable, P)
  <2>1. ASSUME NEW f \in OF!Fds, fdTable[f] # -1
        PROVE  PathTo(V, open_inodes.object[fileTable[fdTable[f]]].i_no)
                   = P[open_inodes.object[fileTable[fdTable[f]]].i_no]
    <3>1. open_inodes.object[fileTable[fdTable[f]]].i_no \in DOMAIN L
      BY <1>1, <2>1, HandleInode DEF LinksOK
    <3> QED BY <1>8, <3>1
  <2> HIDE DEF V
  <2> QED BY <1>2, <2>1, Zenon DEF Computed, HandlesOf
<1> QED BY <1>1, <1>7, <1>9 DEF ViewOn, L

ViewsRight == \A D, up, place, depth, P :
                  OnTree(D, up, place, depth, P) => ViewOn(LinksNow(up, place), P)

LEMMA ComputedViews == IInv /\ Sound /\ Computed => ViewsRight
BY ComputedShows DEF ViewsRight

(* What the next state shows, if its names are L2 with the paths P2.       *)
Showing(L, P) ==
    /\ PathsOf(L, P)
    /\ \E D : LinksOK(inodeBitmap', D, L)
    /\ \A n \in DOMAIN L : Len(P[n]) \in 1 .. MaxInodes - 1
    /\ ShowsTree(tree', L, P)
    /\ handles' = HandlesOf(open_inodes', fileTable', fdTable', P)

LEMMA NextShowing ==
    ASSUME IInv', NEW L, Stays(L), NEW P, PathsOf(L, P), Computed'
    PROVE  Showing(L, P) /\ (\E D, up, place, depth, Q :
               OnTree(D, up, place, depth, Q) /\ ViewOn(LinksNow(up, place), Q))'
<1>1. PICK D, up, place, depth : /\ InTree(D, up, place, depth)'
                                 /\ Links(inodeBitmap', up, place, inodeTable', blocks') = L
  BY DEF Stays
<1>2. Sound'
  BY DEF Stays
<1>3. LinksNow(up, place)' = L
  BY <1>1 DEF LinksNow
<1>4. OnTree(D, up, place, depth, P)'
  BY <1>1, <1>3 DEF OnTree
<1>5. (IInv /\ Sound /\ Computed => ViewsRight)'
  BY ComputedViews, PTL
<1>6. ViewOn(LinksNow(up, place), P)'
  BY <1>2, <1>4, <1>5 DEF ViewsRight
<1>7. ShowsTree(tree', L, P) /\ handles' = HandlesOf(open_inodes', fileTable', fdTable', P)
  BY <1>3, <1>6 DEF ViewOn
<1>8. Tree(inodeBitmap', D, up, place, depth, inodeTable', blocks')
  BY <1>1 DEF InTree
<1>9. LinksOK(inodeBitmap', D, L)
  BY <1>1, <1>8, TreeLinks
<1>10. \A n \in DOMAIN L : Len(P[n]) \in 1 .. MaxInodes - 1
  BY <1>1, <1>8, <1>9, PathLengths DEF LinksOK
<1>11. (\E E, u, q, h, R : OnTree(E, u, q, h, R) /\ ViewOn(LinksNow(u, q), R))'
  BY <1>4, <1>6
<1> QED BY <1>7, <1>9, <1>10, <1>11 DEF Showing

-----------------------------------------------------------------------------
(* Steps of tree.                                                          *)

OnPaths(D, up, place, depth, P, L) ==
    /\ InTree(D, up, place, depth) /\ LinksOK(inodeBitmap, D, L) /\ PathsOf(L, P)
    /\ DOMAIN L = inodeBitmap \ {Root} /\ \A n \in DOMAIN L : L[n][1] = up[n]
    /\ \A n \in DOMAIN L : P[n] \in UserPaths

LEMMA OnTreeFacts ==
    ASSUME IInv, Sound, NEW D, NEW up, NEW place, NEW depth, NEW P,
           OnTree(D, up, place, depth, P), NEW L, L = LinksNow(up, place)
    PROVE  OnPaths(D, up, place, depth, P, L)
<1>1. /\ Tree(inodeBitmap, D, up, place, depth, inodeTable, blocks) /\ PathsOf(L, P)
      /\ L = Links(inodeBitmap, up, place, inodeTable, blocks) /\ InTree(D, up, place, depth)
  BY TreeFacts DEF OnTree, LinksNow
<1>2. LinksOK(inodeBitmap, D, L) /\ \A n \in DOMAIN L : L[n][1] = up[n]
  BY <1>1, TreeLinks
<1>3. DOMAIN L = inodeBitmap \ {Root} /\ inodeBitmap \subseteq Inodes
  BY <1>2 DEF LinksOK
<1>4. ASSUME NEW n \in DOMAIN L PROVE P[n] \in UserPaths
  <2>1. Len(P[n]) \in 1 .. MaxInodes - 1
    BY <1>1, <1>3, PathLengths
  <2>2. P[n] \in Seq(Names)
    BY <1>1, <1>3 DEF PathsOf
  <2> QED BY <2>1, <2>2, IsUserPath
<1> QED BY <1>1, <1>2, <1>3, <1>4 DEF OnPaths

LEMMA TreeKept ==
    ASSUME NEW L, NEW P, ViewOn(L, P), Showing(L, P)
    PROVE  tree' = tree
<1> DEFINE N == {P[n] : n \in DOMAIN L}
<1>1. /\ tree = [p \in N |-> tree[p]] /\ tree' = [p \in N |-> tree'[p]]
      /\ \A n \in DOMAIN L : tree'[P[n]] = tree[P[n]]
  <2>1. ShowsTree(tree, L, P) /\ ShowsTree(tree', L, P)
    BY DEF ViewOn, Showing
  <2>2. tree = [p \in N |-> tree[p]] /\ tree' = [p \in N |-> tree'[p]]
    BY <2>1, Zenon DEF ShowsTree
  <2>3. \A n \in DOMAIN L : tree[P[n]] = L[n][2].f_type
    BY <2>1, Zenon DEF ShowsTree
  <2>4. \A n \in DOMAIN L : tree'[P[n]] = L[n][2].f_type
    BY <2>1, Zenon DEF ShowsTree
  <2>5. \A n \in DOMAIN L : tree'[P[n]] = tree[P[n]]
    <3> HIDE DEF N
    <3> QED BY <2>3, <2>4
  <2> QED BY <2>2, <2>5
<1>2. \A p \in N : tree'[p] = tree[p]
  BY <1>1
<1> HIDE DEF N
<1> QED BY <1>1, <1>2

(* The paths of the names with one more.                                   *)
WithPath(L, P, n, d, e) == [P EXCEPT ![n] = Append(P[d], e.filename)]

LEMMA PathsWith ==
    ASSUME NEW ib, NEW D, NEW L, LinksOK(ib, D, L), NEW P, PathsOf(L, P),
           NEW n \in Inodes \ ib, NEW d \in D, NEW e, e.filename \in Names
    PROVE  /\ PathsOf(WithLink(L, n, d, e), WithPath(L, P, n, d, e))
           /\ \A m \in ib : WithPath(L, P, n, d, e)[m] = P[m]
           /\ WithPath(L, P, n, d, e)[n] = Append(P[d], e.filename)
<1> DEFINE L2 == WithLink(L, n, d, e)
           P2 == WithPath(L, P, n, d, e)
<1>1. /\ P \in [Inodes -> Seq(Names)] /\ P[Root] = <<>> /\ Root \in ib /\ d \in ib
      /\ ib \subseteq Inodes /\ DOMAIN L = ib \ {Root}
      /\ \A m \in DOMAIN L : L[m][1] \in ib /\ P[m] = Append(P[L[m][1]], L[m][2].filename)
  BY DEF LinksOK, PathsOf
<1>2. Append(P[d], e.filename) \in Seq(Names)
  BY <1>1, Appended
<1>3. /\ P2 \in [Inodes -> Seq(Names)] /\ P2[n] = Append(P[d], e.filename)
      /\ \A m \in ib : P2[m] = P[m]
  BY <1>1, <1>2 DEF WithPath
<1>4. /\ DOMAIN L2 = DOMAIN L \cup {n} /\ L2[n] = <<d, e>>
      /\ \A m \in DOMAIN L : L2[m] = L[m]
  BY <1>1 DEF WithLink
<1> HIDE DEF L2, P2
<1>5. ASSUME NEW m \in DOMAIN L2 PROVE P2[m] = Append(P2[L2[m][1]], L2[m][2].filename)
  <2>1. CASE m = n
    BY <1>1, <1>3, <1>4, <2>1
  <2>2. CASE m \in DOMAIN L
    BY <1>1, <1>3, <1>4, <2>2
  <2> QED BY <1>4, <2>1, <2>2
<1>6. P2[Root] = <<>>
  BY <1>1, <1>3
<1>7. PathsOf(L2, P2)
  BY <1>3, <1>5, <1>6 DEF PathsOf
<1> QED BY <1>3, <1>7 DEF L2, P2

(* A name appears under the directory that has its entry.                  *)
LEMMA NameAppears ==
    ASSUME NEW D, NEW L, LinksOK(inodeBitmap, D, L), NEW P, ViewOn(L, P),
           NEW n \in Inodes \ inodeBitmap, NEW d \in D, NEW e, e.filename \in Names,
           NEW L2, L2 = WithLink(L, n, d, e), NEW P2, P2 = WithPath(L, P, n, d, e),
           Showing(L2, P2)
    PROVE  P2[n] \in UserPaths /\ NS!Appear(P2[n], e.f_type)
<1> DEFINE q == P2[n]
           N == {P[m] : m \in DOMAIN L}
           N2 == {P2[m] : m \in DOMAIN L2}
<1>1. /\ DOMAIN L = inodeBitmap \ {Root} /\ Root \in inodeBitmap /\ d \in inodeBitmap
      /\ P \in [Inodes -> Seq(Names)] /\ P[Root] = <<>> /\ inodeBitmap \subseteq Inodes
      /\ tree = [p \in N |-> tree[p]]
      /\ \A m \in DOMAIN L : tree[P[m]] = L[m][2].f_type
  BY DEF LinksOK, ViewOn, PathsOf, ShowsTree
<1>2. /\ PathsOf(L2, P2) /\ q = Append(P[d], e.filename)
      /\ \A m \in inodeBitmap : P2[m] = P[m]
  BY PathsWith DEF ViewOn
<1>3. /\ DOMAIN L2 = DOMAIN L \cup {n} /\ L2[n] = <<d, e>>
      /\ \A m \in DOMAIN L : L2[m] = L[m]
  BY <1>1 DEF WithLink
<1>4. /\ tree' = [p \in N2 |-> tree'[p]] /\ Len(q) \in 1 .. MaxInodes - 1
      /\ \A m \in DOMAIN L2 : tree'[P2[m]] = L2[m][2].f_type
  BY <1>3 DEF Showing, ShowsTree
<1>5. PICK E : LinksOK(inodeBitmap', E, L2)
  BY DEF Showing
<1>6. \A m \in DOMAIN L : P2[m] # q
  <2>1. DOMAIN L2 \subseteq inodeBitmap'
    BY <1>5 DEF LinksOK
  <2>2. \A i, j \in DOMAIN L2 : P2[i] = P2[j] => i = j
    BY <1>2, <1>5, <2>1, PathsApart
  <2> QED BY <1>1, <1>3, <2>2
<1>7. /\ q \in Seq(Names) /\ Len(q) = Len(P[d]) + 1
      /\ SubSeq(q, 1, Len(q) - 1) = P[d]
  BY <1>1, <1>2, Appended
<1>8. q \in UserPaths
  BY <1>4, <1>7, IsUserPath
<1> HIDE DEF q
<1>9. q \notin N /\ N2 = N \cup {q} /\ DOMAIN tree = N
  <2>1. \A m \in DOMAIN L : P2[m] = P[m]
    BY <1>1, <1>2
  <2>2. q \notin N
    BY <1>6, <2>1
  <2>3. N2 = N \cup {q}
    BY <1>3, <2>1 DEF q
  <2>4. DOMAIN tree = N
    <3> HIDE DEF N
    <3> QED BY <1>1
  <2> QED BY <2>2, <2>3, <2>4
<1>10. NS!ParentExists(q)
  <2>1. CASE d = Root
    <3>1. Len(q) = 1
      BY <1>1, <1>7, <2>1
    <3> QED BY <3>1 DEF NS!ParentExists
  <2>2. CASE d # Root
    <3>1. d \in DOMAIN L /\ L[d][2].f_type = "FT_DIRECTORY"
      BY <1>1, <2>2 DEF LinksOK
    <3>2. P[d] \in DOMAIN tree /\ tree[P[d]] = "FT_DIRECTORY"
      BY <1>1, <1>9, <3>1
    <3>3. NS!Parent(q) = P[d]
      BY <1>7 DEF NS!Parent
    <3> QED BY <3>2, <3>3 DEF NS!ParentExists
  <2> QED BY <2>1, <2>2
<1>11. ASSUME NEW p \in N \cup {q}
       PROVE  tree'[p] = IF p = q THEN e.f_type ELSE tree[p]
  <2>1. CASE p = q
    <3>1. tree'[q] = L2[n][2].f_type
      BY <1>3, <1>4 DEF q
    <3> QED BY <1>3, <2>1, <3>1
  <2>2. CASE p # q
    <3>1. PICK m \in DOMAIN L : p = P[m]
      BY <1>11, <2>2
    <3>2. P2[m] = P[m] /\ m \in DOMAIN L2 /\ L2[m] = L[m]
      BY <1>1, <1>2, <1>3, <3>1
    <3>3. tree'[p] = L[m][2].f_type /\ tree[p] = L[m][2].f_type
      BY <1>1, <1>4, <3>1, <3>2
    <3> QED BY <2>2, <3>3
  <2> QED BY <2>1, <2>2
<1>12. tree' = [p \in DOMAIN tree \cup {q} |-> IF p = q THEN e.f_type ELSE tree[p]]
  <2> HIDE DEF N, N2
  <2>1. tree' = [p \in N \cup {q} |-> tree'[p]]
    BY <1>4, <1>9
  <2> QED BY <1>9, <1>11, <2>1
<1>13. NS!Appear(q, e.f_type)
  BY <1>9, <1>10, <1>12 DEF NS!Appear
<1> QED BY <1>8, <1>13 DEF q

(* A name goes away.                                                       *)
LEMMA PathsWithout ==
    ASSUME NEW L, NEW P, PathsOf(L, P), NEW n
    PROVE  PathsOf(WithoutLink(L, n), P)
<1>1. DOMAIN WithoutLink(L, n) = DOMAIN L \ {n}
      /\ \A m \in DOMAIN L \ {n} : WithoutLink(L, n)[m] = L[m]
  BY DEF WithoutLink
<1> QED BY <1>1 DEF PathsOf

LEMMA NameGoes ==
    ASSUME NEW D, NEW L, LinksOK(inodeBitmap, D, L), NEW P, ViewOn(L, P),
           NEW n \in DOMAIN L, NEW L2, L2 = WithoutLink(L, n), Showing(L2, P)
    PROVE  /\ P[n] \in DOMAIN tree /\ tree[P[n]] = L[n][2].f_type
           /\ tree' = NS!Without(P[n])
<1> DEFINE q == P[n]
           N == {P[m] : m \in DOMAIN L}
           N2 == {P[m] : m \in DOMAIN L2}
<1>1. /\ tree = [p \in N |-> tree[p]] /\ PathsOf(L, P) /\ DOMAIN L \subseteq inodeBitmap
      /\ \A m \in DOMAIN L : tree[P[m]] = L[m][2].f_type
  BY DEF LinksOK, ViewOn, ShowsTree
<1>2. /\ tree' = [p \in N2 |-> tree'[p]]
      /\ \A m \in DOMAIN L2 : tree'[P[m]] = L2[m][2].f_type
  BY DEF Showing, ShowsTree
<1>3. DOMAIN L2 = DOMAIN L \ {n} /\ \A m \in DOMAIN L2 : L2[m] = L[m]
  BY DEF WithoutLink
<1>4. \A m \in DOMAIN L : P[m] = q => m = n
  BY <1>1, PathsApart
<1>5. DOMAIN tree = N
  <2> HIDE DEF N
  <2> QED BY <1>1
<1>6. N2 = N \ {q} /\ q \in N
  BY <1>3, <1>4
<1>7. \A p \in N2 : tree'[p] = tree[p]
  BY <1>1, <1>2, <1>3
<1>8. tree' = [p \in DOMAIN tree \ {q} |-> tree[p]]
  <2> HIDE DEF N, N2, q
  <2> QED BY <1>2, <1>5, <1>6, <1>7
<1>9. q \in DOMAIN tree
  <2> HIDE DEF N, q
  <2> QED BY <1>5, <1>6
<1> QED BY <1>1, <1>8, <1>9 DEF NS!Without

-----------------------------------------------------------------------------
(* Steps of handles.                                                       *)

(* The state before and after a call, with the inode numbers its           *)
(* descriptors keep.                                                       *)
Keeps(P, P2) ==
    /\ OFP!KeepsInodes
    /\ \A f \in OF!Fds : fdTable[f] # -1
          => LET n == open_inodes.object[fileTable[fdTable[f]]].i_no IN P2[n] = P[n]

LEMMA HandleKept ==
    ASSUME NEW L, NEW P, ViewOn(L, P), NEW L2, NEW P2, Showing(L2, P2), Keeps(P, P2),
           NEW f \in OF!Fds, fdTable[f] # -1 <=> fdTable'[f] # -1
    PROVE  handles'[f] = handles[f]
<1>1. handles[f] = IF fdTable[f] = -1 THEN NULL
                   ELSE P[open_inodes.object[fileTable[fdTable[f]]].i_no]
  BY DEF ViewOn, HandlesOf
<1>2. handles'[f] = IF fdTable'[f] = -1 THEN NULL
                    ELSE P2[open_inodes'.object[fileTable'[fdTable'[f]]].i_no]
  BY DEF Showing, HandlesOf
<1>3. CASE fdTable[f] = -1
  BY <1>1, <1>2, <1>3
<1>4. CASE fdTable[f] # -1
  <2>1. f \in OFP!Fds
    BY SameSets
  <2>2. /\ fileTable'[fdTable'[f]] = fileTable[fdTable[f]]
        /\ open_inodes'.object[fileTable[fdTable[f]]].i_no
               = open_inodes.object[fileTable[fdTable[f]]].i_no
    BY <1>4, <2>1 DEF Keeps, OFP!KeepsInodes
  <2>3. P2[open_inodes.object[fileTable[fdTable[f]]].i_no]
            = P[open_inodes.object[fileTable[fdTable[f]]].i_no]
    BY <1>4 DEF Keeps
  <2> QED BY <1>1, <1>2, <1>4, <2>2, <2>3
<1> QED BY <1>3, <1>4

LEMMA HandlesAre ==
    ASSUME NEW L, NEW P, ViewOn(L, P), NEW L2, NEW P2, Showing(L2, P2)
    PROVE  /\ handles = [f \in OF!Fds |-> handles[f]] /\ handles' = [f \in OF!Fds |-> handles'[f]]
           /\ \A f \in OF!Fds : fdTable[f] = -1 => handles[f] = NULL
           /\ \A f \in OF!Fds : fdTable'[f] = -1 => handles'[f] = NULL
BY DEF ViewOn, Showing, HandlesOf

LEMMA HandlesSame ==
    ASSUME NEW L, NEW P, ViewOn(L, P), NEW L2, NEW P2, Showing(L2, P2), Keeps(P, P2),
           fdTable' = fdTable
    PROVE  handles' = handles
<1>1. \A f \in OF!Fds : handles'[f] = handles[f]
  BY HandleKept
<1> QED BY <1>1, HandlesAre

LEMMA HandlesOpened ==
    ASSUME IInv, NEW L, NEW P, ViewOn(L, P), NEW L2, NEW P2, Showing(L2, P2), Keeps(P, P2),
           NEW a, OF!InstallFd(a), NEW n, open_inodes'.object[a].i_no = n
    PROVE  \E f \in OF!Fds : NS!OpenOn(P2[n], f)
<1>1. PICK s \in OF!Slots, f \in OF!Fds :
          /\ fdTable[f] = -1
          /\ fileTable' = [fileTable EXCEPT ![s] = a] /\ fdTable' = [fdTable EXCEPT ![f] = s]
  BY DEF OF!InstallFd, OF!IsFirst, OF!FreeFds
<1>2. /\ fileTable \in [OF!Slots -> OFP!Addrs \cup {NULL}]
      /\ fdTable \in [OF!Fds -> OF!Slots \cup {-1}]
  BY OpenFacts, SameSets DEF OFP!SlotsType
<1>3. s # -1
  BY OpenFilesAssumption DEF OF!Slots
<1>4. fdTable'[f] = s /\ fileTable'[s] = a /\ \A g \in OF!Fds \ {f} : fdTable'[g] = fdTable[g]
  BY <1>1, <1>2
<1>5. handles'[f] = P2[n]
  <2>1. handles'[f] = IF fdTable'[f] = -1 THEN NULL
                      ELSE P2[open_inodes'.object[fileTable'[fdTable'[f]]].i_no]
    BY DEF Showing, HandlesOf
  <2> QED BY <1>3, <1>4, <2>1
<1>6. \A g \in OF!Fds \ {f} : handles'[g] = handles[g]
  BY <1>4, HandleKept
<1>7. /\ handles = [g \in OF!Fds |-> handles[g]] /\ handles' = [g \in OF!Fds |-> handles'[g]]
      /\ handles[f] = NULL
  BY <1>1, HandlesAre
<1>8. handles' = [handles EXCEPT ![f] = P2[n]]
  BY <1>5, <1>6, <1>7
<1> QED BY <1>7, <1>8 DEF NS!OpenOn

LEMMA HandlesClosed ==
    ASSUME IInv, Sound, NEW D, NEW up, NEW place, NEW depth, NEW P,
           OnTree(D, up, place, depth, P), NEW L, L = LinksNow(up, place),
           ViewOn(L, P), NEW L2, NEW P2, Showing(L2, P2), Keeps(P, P2),
           NEW f \in OF!Fds, fdTable[f] # -1, fdTable' = [fdTable EXCEPT ![f] = -1]
    PROVE  handles[f] # NULL /\ handles' = [handles EXCEPT ![f] = NULL]
<1> DEFINE n == open_inodes.object[fileTable[fdTable[f]]].i_no
<1>1. fdTable \in [OF!Fds -> OF!Slots \cup {-1}]
  BY OpenFacts, SameSets
<1>2. fdTable'[f] = -1 /\ \A g \in OF!Fds \ {f} : fdTable'[g] = fdTable[g]
  BY <1>1
<1>3. \A g \in OF!Fds \ {f} : handles'[g] = handles[g]
  BY <1>2, HandleKept
<1>4. /\ handles = [g \in OF!Fds |-> handles[g]] /\ handles' = [g \in OF!Fds |-> handles'[g]]
      /\ handles'[f] = NULL
  BY <1>2, HandlesAre
<1>5. handles' = [handles EXCEPT ![f] = NULL]
  BY <1>3, <1>4
<1>6. handles[f] # NULL
  <2>1. /\ InTree(D, up, place, depth) /\ LinksOK(inodeBitmap, D, L)
        /\ DOMAIN L = inodeBitmap \ {Root} /\ \A m \in DOMAIN L : P[m] \in UserPaths
    BY OnTreeFacts DEF OnPaths
  <2>2. n \in inodeBitmap /\ n \notin D
    BY <2>1, HandleInode
  <2>3. P[n] \in UserPaths
    BY <2>1, <2>2 DEF LinksOK
  <2>4. handles[f] = P[n]
    BY DEF ViewOn, HandlesOf
  <2> QED BY <2>3, <2>4, PathsAssumption
<1> QED BY <1>5, <1>6

LEMMA HandlesGone ==
    ASSUME NEW L, NEW P, ViewOn(L, P), NEW L2, NEW P2, Showing(L2, P2),
           OF!mount_partition
    PROVE  handles' = [f \in OF!Fds |-> NULL]
<1>1. \A f \in OF!Fds : fdTable'[f] = -1
  BY DEF OF!mount_partition
<1>2. /\ handles' = [f \in OF!Fds |-> handles'[f]]
      /\ \A f \in OF!Fds : fdTable'[f] = -1 => handles'[f] = NULL
  BY HandlesAre
<1> QED BY <1>1, <1>2

LEMMA NextKeepsInodes ==
    ASSUME IInv, [Next]_vars
    PROVE  OFP!KeepsInodes
<1>1. Fine
  BY NextFine
<1>2. [OFP!Next]_(OFP!vars)
  BY <1>1, SameNext DEF Fine, OFvars, OFP!vars
<1> QED BY <1>2, OFAssumptions, OFP!NextStep DEF IInv

-----------------------------------------------------------------------------
(* What a call does to the names, and the step of Namespace.tla it is.     *)

SomeView == \E D, up, place, depth, P :
                OnTree(D, up, place, depth, P) /\ ViewOn(LinksNow(up, place), P)
Maps == SomeView' /\ [NS!Next]_<<tree, handles>>

StepFrom(D, up, place, depth, P) ==
    IInv /\ Sound /\ OnTree(D, up, place, depth, P) /\ ViewOn(LinksNow(up, place), P)
StepTo == IInv' /\ Computed' /\ OFP!KeepsInodes

LEMMA KeepsPaths ==
    ASSUME NEW D, NEW up, NEW place, NEW depth, NEW P, StepFrom(D, up, place, depth, P), StepTo,
           NEW P2, \A n \in inodeBitmap : P2[n] = P[n]
    PROVE  Keeps(P, P2)
<1>1. InTree(D, up, place, depth) /\ IInv /\ Sound
  BY DEF StepFrom, OnTree
<1>2. \A f \in OF!Fds : fdTable[f] # -1
          => open_inodes.object[fileTable[fdTable[f]]].i_no \in inodeBitmap
  BY <1>1, HandleInode
<1> QED BY <1>2 DEF Keeps, StepTo

LEMMA StaysShown ==
    ASSUME NEW D, NEW up, NEW place, NEW depth, NEW P, StepFrom(D, up, place, depth, P), StepTo,
           NEW L, L = LinksNow(up, place), Stays(L)
    PROVE  SomeView' /\ Showing(L, P) /\ tree' = tree /\ Keeps(P, P)
<1>1. PathsOf(L, P) /\ ViewOn(L, P)
  BY DEF StepFrom, ViewOn
<1>2. Showing(L, P) /\ SomeView'
  BY <1>1, NextShowing DEF StepTo, SomeView
<1>3. Keeps(P, P)
  BY KeepsPaths
<1> QED BY <1>1, <1>2, <1>3, TreeKept

(* Nothing a user sees changes.                                            *)
LEMMA UnseenMaps ==
    ASSUME NEW D, NEW up, NEW place, NEW depth, NEW P, StepFrom(D, up, place, depth, P), StepTo,
           Stays(LinksNow(up, place)), fdTable' = fdTable
    PROVE  Maps
<1> DEFINE L == LinksNow(up, place)
<1>1. SomeView' /\ Showing(L, P) /\ tree' = tree /\ Keeps(P, P) /\ ViewOn(L, P)
  BY StaysShown DEF StepFrom
<1> HIDE DEF L
<1>2. handles' = handles
  BY <1>1, HandlesSame
<1> QED BY <1>1, <1>2 DEF Maps

(* The process ends.                                                       *)
LEMMA MountsMaps ==
    ASSUME NEW D, NEW up, NEW place, NEW depth, NEW P, StepFrom(D, up, place, depth, P), StepTo,
           Stays(LinksNow(up, place)), OF!mount_partition
    PROVE  Maps
<1> DEFINE L == LinksNow(up, place)
<1>1. SomeView' /\ Showing(L, P) /\ tree' = tree /\ ViewOn(L, P)
  BY StaysShown DEF StepFrom
<1> HIDE DEF L
<1>2. handles' = [f \in OF!Fds |-> NULL]
  BY <1>1, HandlesGone
<1>3. NS!Restart
  BY <1>1, <1>2 DEF NS!Restart
<1> QED BY <1>1, <1>3 DEF Maps, NS!Next

LEMMA OpenMaps ==
    ASSUME NEW D, NEW up, NEW place, NEW depth, NEW P, StepFrom(D, up, place, depth, P), StepTo,
           Stays(LinksNow(up, place)), NEW n \in inodeBitmap, n \notin D, Installs(n)
    PROVE  Maps
<1> DEFINE L == LinksNow(up, place)
<1>1. SomeView' /\ Showing(L, P) /\ tree' = tree /\ Keeps(P, P) /\ ViewOn(L, P)
  BY StaysShown DEF StepFrom
<1>2. /\ LinksOK(inodeBitmap, D, L) /\ DOMAIN L = inodeBitmap \ {Root}
      /\ \A m \in DOMAIN L : P[m] \in UserPaths
  BY OnTreeFacts DEF OnPaths, StepFrom
<1> HIDE DEF L
<1>3. n \in DOMAIN L /\ L[n][2].f_type = "FT_REGULAR"
  BY <1>2 DEF LinksOK
<1>4. PICK f \in OF!Fds : NS!OpenOn(P[n], f)
  BY <1>1, HandlesOpened DEF Installs, StepFrom
<1>5. P[n] \in DOMAIN tree /\ tree[P[n]] = "FT_REGULAR"
  <2>1. tree = [p \in {P[m] : m \in DOMAIN L} |-> tree[p]] /\ tree[P[n]] = L[n][2].f_type
    BY <1>1, <1>3 DEF ViewOn, ShowsTree
  <2>2. P[n] \in {P[m] : m \in DOMAIN L}
    BY <1>3
  <2> QED BY <1>3, <2>1, <2>2
<1>6. NS!Open(P[n], f)
  BY <1>1, <1>4, <1>5 DEF NS!Open
<1>7. P[n] \in UserPaths
  BY <1>2, <1>3
<1>8. NS!Next
  BY <1>6, <1>7, Zenon DEF NS!Next
<1> QED BY <1>1, <1>8 DEF Maps

LEMMA CloseMaps ==
    ASSUME NEW D, NEW up, NEW place, NEW depth, NEW P, StepFrom(D, up, place, depth, P), StepTo,
           Stays(LinksNow(up, place)), NEW f \in OF!Fds, sys_close(f)
    PROVE  Maps
<1> DEFINE L == LinksNow(up, place)
<1>1. SomeView' /\ Showing(L, P) /\ tree' = tree /\ Keeps(P, P) /\ ViewOn(L, P)
  BY StaysShown DEF StepFrom
<1>2. IInv /\ Sound /\ OnTree(D, up, place, depth, P) /\ L = LinksNow(up, place)
  BY DEF StepFrom
<1> HIDE DEF L
<1>3. fdTable[f] # -1 /\ fdTable' = [fdTable EXCEPT ![f] = -1]
  BY DEF sys_close, OF!sys_close
<1>4. handles[f] # NULL /\ handles' = [handles EXCEPT ![f] = NULL]
  BY <1>1, <1>2, <1>3, HandlesClosed
<1>5. NS!Close(f)
  BY <1>1, <1>4 DEF NS!Close
<1> QED BY <1>1, <1>5 DEF Maps, NS!Next

(* A new inode comes with a name.                                          *)
LEMMA EnteredShown ==
    ASSUME NEW D, NEW up, NEW place, NEW depth, NEW P, StepFrom(D, up, place, depth, P), StepTo,
           NEW d, NEW n, NEW e, NEW type, MayEnter(D, d, n, e, type),
           NEW L2, L2 = WithLink(LinksNow(up, place), n, d, e), Stays(L2),
           NEW P2, P2 = WithPath(LinksNow(up, place), P, n, d, e)
    PROVE  /\ SomeView' /\ Showing(L2, P2) /\ Keeps(P, P2)
           /\ P2[n] \in UserPaths /\ NS!Appear(P2[n], type)
<1> DEFINE L == LinksNow(up, place)
<1>1. LinksOK(inodeBitmap, D, L) /\ PathsOf(L, P) /\ ViewOn(L, P)
  BY OnTreeFacts DEF OnPaths, StepFrom
<1>2. /\ d \in D /\ n \in Inodes \ inodeBitmap /\ e.filename \in Names /\ e.f_type = type
  BY DEF MayEnter
<1> HIDE DEF L
<1>3. L2 = WithLink(L, n, d, e) /\ P2 = WithPath(L, P, n, d, e)
  BY DEF L
<1>4. PathsOf(L2, P2) /\ \A m \in inodeBitmap : P2[m] = P[m]
  BY <1>1, <1>2, <1>3, PathsWith
<1>5. Showing(L2, P2) /\ SomeView'
  BY <1>4, NextShowing DEF StepTo, SomeView
<1>6. Keeps(P, P2)
  BY <1>4, KeepsPaths
<1>7. P2[n] \in UserPaths /\ NS!Appear(P2[n], e.f_type)
  BY <1>1, <1>2, <1>3, <1>5, NameAppears
<1> QED BY <1>2, <1>5, <1>6, <1>7

LEMMA CreateMaps ==
    ASSUME NEW D, NEW up, NEW place, NEW depth, NEW P, StepFrom(D, up, place, depth, P), StepTo,
           NEW d, NEW n, NEW e, MayEnter(D, d, n, e, "FT_REGULAR"), Installs(n),
           Stays(WithLink(LinksNow(up, place), n, d, e))
    PROVE  Maps
<1> DEFINE L == LinksNow(up, place)
           L2 == WithLink(L, n, d, e)
           P2 == WithPath(L, P, n, d, e)
<1>1. /\ SomeView' /\ Showing(L2, P2) /\ Keeps(P, P2)
      /\ P2[n] \in UserPaths /\ NS!Appear(P2[n], "FT_REGULAR")
  BY EnteredShown
<1>2. IInv /\ ViewOn(L, P)
  BY DEF StepFrom
<1> HIDE DEF L, L2, P2
<1>3. PICK f \in OF!Fds : NS!OpenOn(P2[n], f)
  BY <1>1, <1>2, HandlesOpened DEF Installs
<1>4. NS!Create(P2[n], f)
  BY <1>1, <1>3 DEF NS!Create
<1>5. NS!Next
  BY <1>1, <1>4, Zenon DEF NS!Next
<1> QED BY <1>1, <1>5 DEF Maps

LEMMA MkdirMaps ==
    ASSUME NEW D, NEW up, NEW place, NEW depth, NEW P, StepFrom(D, up, place, depth, P), StepTo,
           NEW d, NEW n, NEW e, MayEnter(D, d, n, e, "FT_DIRECTORY"), fdTable' = fdTable,
           Stays(WithLink(LinksNow(up, place), n, d, e))
    PROVE  Maps
<1> DEFINE L == LinksNow(up, place)
           L2 == WithLink(L, n, d, e)
           P2 == WithPath(L, P, n, d, e)
<1>1. /\ SomeView' /\ Showing(L2, P2) /\ Keeps(P, P2)
      /\ P2[n] \in UserPaths /\ NS!Appear(P2[n], "FT_DIRECTORY")
  BY EnteredShown
<1>2. ViewOn(L, P)
  BY DEF StepFrom
<1> HIDE DEF L, L2, P2
<1>3. handles' = handles
  BY <1>1, <1>2, HandlesSame
<1>4. NS!Mkdir(P2[n])
  BY <1>1, <1>3 DEF NS!Mkdir
<1>5. NS!Next
  BY <1>1, <1>4, Zenon DEF NS!Next
<1> QED BY <1>1, <1>5 DEF Maps

(* An inode goes with its name.                                            *)
LEMMA RemovedShown ==
    ASSUME NEW D, NEW up, NEW place, NEW depth, NEW P, StepFrom(D, up, place, depth, P), StepTo,
           NEW n \in inodeBitmap, n # Root, Stays(WithoutLink(LinksNow(up, place), n)),
           fdTable' = fdTable
    PROVE  /\ SomeView' /\ P[n] \in UserPaths /\ P[n] \in DOMAIN tree
           /\ tree[P[n]] = IF n \in D THEN "FT_DIRECTORY" ELSE "FT_REGULAR"
           /\ tree' = NS!Without(P[n]) /\ handles' = handles
<1> DEFINE L == LinksNow(up, place)
           L2 == WithoutLink(L, n)
<1>1. /\ LinksOK(inodeBitmap, D, L) /\ PathsOf(L, P) /\ ViewOn(L, P)
      /\ DOMAIN L = inodeBitmap \ {Root} /\ \A m \in DOMAIN L : P[m] \in UserPaths
  BY OnTreeFacts DEF OnPaths, StepFrom
<1> HIDE DEF L
<1>2. n \in DOMAIN L /\ PathsOf(L2, P)
  BY <1>1, PathsWithout
<1>3. Stays(L2)
  BY DEF L
<1> HIDE DEF L2
<1>4. Showing(L2, P) /\ SomeView'
  BY <1>2, <1>3, NextShowing DEF StepTo, SomeView
<1>5. Keeps(P, P)
  BY KeepsPaths
<1>6. handles' = handles
  BY <1>1, <1>4, <1>5, HandlesSame
<1>7. P[n] \in DOMAIN tree /\ tree[P[n]] = L[n][2].f_type /\ tree' = NS!Without(P[n])
  BY <1>1, <1>2, <1>4, NameGoes DEF L2
<1>8. L[n][2].f_type = IF n \in D THEN "FT_DIRECTORY" ELSE "FT_REGULAR"
  BY <1>1, <1>2 DEF LinksOK
<1> QED BY <1>1, <1>2, <1>4, <1>6, <1>7, <1>8

LEMMA UnlinkMaps ==
    ASSUME NEW D, NEW up, NEW place, NEW depth, NEW P, StepFrom(D, up, place, depth, P), StepTo,
           NEW n \in inodeBitmap, n # Root, Stays(WithoutLink(LinksNow(up, place), n)),
           fdTable' = fdTable, n \notin D, ~OFP!IsOpen(open_inodes, n)
    PROVE  Maps
<1> DEFINE L == LinksNow(up, place)
<1>1. /\ SomeView' /\ P[n] \in UserPaths /\ P[n] \in DOMAIN tree /\ tree[P[n]] = "FT_REGULAR"
      /\ tree' = NS!Without(P[n]) /\ handles' = handles
  BY RemovedShown
<1>2. ~NS!Held(P[n])
  <2> SUFFICES ASSUME NEW f \in OF!Fds, handles[f] = P[n] PROVE FALSE
    BY DEF NS!Held
  <2> DEFINE a == fileTable[fdTable[f]]
             m == open_inodes.object[a].i_no
  <2>1. /\ InTree(D, up, place, depth) /\ IInv /\ Sound
        /\ LinksOK(inodeBitmap, D, L) /\ PathsOf(L, P)
        /\ handles[f] = IF fdTable[f] = -1 THEN NULL ELSE P[m]
    BY OnTreeFacts DEF OnPaths, StepFrom, ViewOn, HandlesOf
  <2>2. fdTable[f] # -1 /\ P[m] = P[n]
    BY <1>1, <2>1, PathsAssumption
  <2>3. m \in inodeBitmap /\ a \in OFP!Live(open_inodes)
    BY <2>1, <2>2, HandleInode
  <2>4. m = n
    <3> HIDE DEF m, L
    <3> QED BY <2>1, <2>2, <2>3, PathsApart
  <2> HIDE DEF a
  <2>5. OFP!IsOpen(open_inodes, n)
    BY <2>1, <2>3, <2>4, IsOpenLive, OpenFacts
  <2> QED BY <2>5
<1>3. NS!Unlink(P[n])
  BY <1>1, <1>2 DEF NS!Unlink
<1>4. NS!Next
  BY <1>1, <1>3, Zenon DEF NS!Next
<1> QED BY <1>1, <1>4 DEF Maps

LEMMA RmdirMaps ==
    ASSUME NEW D, NEW up, NEW place, NEW depth, NEW P, StepFrom(D, up, place, depth, P), StepTo,
           NEW n \in D, n # Root, Stays(WithoutLink(LinksNow(up, place), n)),
           fdTable' = fdTable, Used(inodeTable, blocks, n) = Dots
    PROVE  Maps
<1> DEFINE L == LinksNow(up, place)
<1>1. /\ InTree(D, up, place, depth) /\ LinksOK(inodeBitmap, D, L) /\ PathsOf(L, P)
      /\ ViewOn(L, P) /\ DOMAIN L = inodeBitmap \ {Root} /\ \A m \in DOMAIN L : L[m][1] = up[m]
      /\ D \subseteq inodeBitmap /\ n \in inodeBitmap
  <2>1. /\ InTree(D, up, place, depth) /\ LinksOK(inodeBitmap, D, L) /\ PathsOf(L, P)
        /\ ViewOn(L, P) /\ DOMAIN L = inodeBitmap \ {Root} /\ \A m \in DOMAIN L : L[m][1] = up[m]
    <3>1. /\ IInv /\ Sound /\ OnTree(D, up, place, depth, P) /\ L = LinksNow(up, place)
          /\ ViewOn(L, P)
      BY DEF StepFrom
    <3> HIDE DEF L
    <3>2. /\ InTree(D, up, place, depth) /\ LinksOK(inodeBitmap, D, L) /\ PathsOf(L, P)
          /\ DOMAIN L = inodeBitmap \ {Root} /\ \A m \in DOMAIN L : L[m][1] = up[m]
      <4>1. OnPaths(D, up, place, depth, P, L)
        BY <3>1, OnTreeFacts
      <4> QED BY <4>1, Zenon DEF OnPaths
    <3> QED BY <3>1, <3>2, Zenon
  <2> HIDE DEF L
  <2> QED BY <2>1 DEF LinksOK
<1>2. /\ SomeView' /\ P[n] \in UserPaths /\ P[n] \in DOMAIN tree /\ tree[P[n]] = "FT_DIRECTORY"
      /\ tree' = NS!Without(P[n]) /\ handles' = handles
  BY <1>1, RemovedShown
<1>3. \A m \in DOMAIN L : up[m] # n
  BY <1>1, Zenon DEF InTree, Tree, HomesRight
<1> HIDE DEF L
<1>4. ASSUME NEW q \in DOMAIN tree, Len(q) > 1, NS!Parent(q) = P[n] PROVE FALSE
  <2>1. PICK m \in DOMAIN L : q = P[m]
    <3> DEFINE N == {P[m] : m \in DOMAIN L}
    <3>1. tree = [p \in N |-> tree[p]]
      BY <1>1 DEF ViewOn, ShowsTree
    <3>2. q \in N
      <4> HIDE DEF N
      <4> QED BY <3>1
    <3> QED BY <3>2
  <2>2. /\ L[m][1] \in D /\ L[m][1] \in Inodes /\ L[m][2].filename \in Names
        /\ q = Append(P[L[m][1]], L[m][2].filename) /\ P[L[m][1]] \in Seq(Names)
    BY <1>1, <2>1 DEF LinksOK, PathsOf
  <2>3. NS!Parent(q) = P[L[m][1]]
    BY <2>2, Appended DEF NS!Parent
  <2>4. L[m][1] = n
    BY <1>1, <1>4, <2>2, <2>3, PathsApart
  <2> QED BY <1>1, <1>3, <2>4
<1>5. NS!Rmdir(P[n])
  BY <1>2, <1>4 DEF NS!Rmdir
<1>6. NS!Next
  BY <1>2, <1>5, Zenon DEF NS!Next
<1> QED BY <1>2, <1>6 DEF Maps

-----------------------------------------------------------------------------
(* Every step of FileSystem.tla is one of Namespace.tla, or shows nothing. *)

LEMMA NextMaps ==
    ASSUME Usable, IInv, Sound, SomeView, StepTo, [Next]_vars, [Careful]_vars
    PROVE  Maps
<1>1. PICK D, up, place, depth, P : OnTree(D, up, place, depth, P) /\ ViewOn(LinksNow(up, place), P)
  BY DEF SomeView
<1>2. StepFrom(D, up, place, depth, P) /\ InTree(D, up, place, depth)
  BY <1>1 DEF StepFrom, OnTree
<1>3. IInv'
  BY DEF StepTo
<1>4. CASE UNCHANGED vars
  <2>1. Stays(LinksNow(up, place))
    BY <1>2, <1>4, StuttersStays
  <2>2. fdTable' = fdTable
    BY <1>4 DEF vars
  <2> QED BY <1>2, <2>1, <2>2, UnseenMaps
<1>5. ASSUME NEW p \in CreatePaths, sys_open_create(p) PROVE Maps
  <2>1. PICK r : r = search_file(p)
    OBVIOUS
  <2>2. PICK n \in Inodes \ inodeBitmap :
            LET e == Entry(p[Len(p)], n, "FT_REGULAR")
            IN  /\ MayEnter(D, r.parent_dir, n, e, "FT_REGULAR") /\ Installs(n)
                /\ Stays(WithLink(LinksNow(up, place), n, r.parent_dir, e))
    BY <1>2, <1>5, <2>1, sys_open_createStays
  <2> QED BY <1>2, <2>2, CreateMaps
<1>6. ASSUME NEW p \in OpenPaths, sys_open_existing(p) PROVE Maps
  <2>1. /\ Stays(LinksNow(up, place))
        /\ \E n \in inodeBitmap : n \notin D /\ Installs(n)
    BY <1>2, <1>6, sys_open_existingStays
  <2> QED BY <1>2, <2>1, OpenMaps
<1>7. ASSUME NEW p \in Paths, sys_open_table_full(p) \/ sys_remove_root(p) PROVE Maps
  <2>1. Stays(LinksNow(up, place))
    BY <1>2, <1>7, LeavesOpenSteps
  <2>2. fdTable' = fdTable
    BY <1>7, Zenon DEF sys_open_table_full, sys_remove_root, LeavesOpen, OF!leak
  <2> QED BY <1>2, <2>1, <2>2, UnseenMaps
<1>8. ASSUME NEW f \in OF!Fds, sys_close(f) PROVE Maps
  <2>1. Stays(LinksNow(up, place))
    BY <1>2, <1>3, <1>8, sys_closeStays
  <2> QED BY <1>2, <1>8, <2>1, CloseMaps
<1>9. ASSUME NEW f \in OF!Fds, NEW count \in WriteCounts, sys_write(f, count) PROVE Maps
  <2>1. Stays(LinksNow(up, place))
    BY <1>2, <1>9, sys_writeStays
  <2>2. fdTable' = fdTable
    BY <1>9, Zenon DEF sys_write
  <2> QED BY <1>2, <2>1, <2>2, UnseenMaps
<1>10. ASSUME NEW f, NEW count, sys_write_dies(f, count) PROVE Maps
  <2>1. Stays(LinksNow(up, place))
    BY <1>2, <1>10, sys_write_diesStays
  <2>2. OF!mount_partition
    BY <1>10, Zenon DEF sys_write_dies, DiesOutOfBlocks, Mounts
  <2> QED BY <1>2, <2>1, <2>2, MountsMaps
<1>11. ASSUME NEW p \in UnlinkPaths, sys_unlink(p) PROVE Maps
  <2>1. PICK n : n = search_file(p).i_no
    OBVIOUS
  <2>2. /\ n \in inodeBitmap /\ n # Root /\ n \notin D /\ ~OFP!IsOpen(open_inodes, n)
        /\ Stays(WithoutLink(LinksNow(up, place), n))
    BY <1>2, <1>11, <2>1, sys_unlinkStays
  <2>3. fdTable' = fdTable
    BY <1>11, Zenon DEF sys_unlink, Remove
  <2> QED BY <1>2, <2>2, <2>3, UnlinkMaps
<1>12. ASSUME NEW p \in MkdirPaths, sys_mkdir(p) PROVE Maps
  <2>1. PICK r : r = search_file(p)
    OBVIOUS
  <2>2. PICK n \in Inodes \ inodeBitmap :
            LET e == Entry(p[Len(p)], n, "FT_DIRECTORY")
            IN  /\ MayEnter(D, r.parent_dir, n, e, "FT_DIRECTORY")
                /\ Stays(WithLink(LinksNow(up, place), n, r.parent_dir, e))
    BY <1>2, <1>12, <2>1, sys_mkdirStays
  <2>3. fdTable' = fdTable
    BY <1>12, Zenon DEF sys_mkdir
  <2> QED BY <1>2, <2>2, <2>3, MkdirMaps
<1>13. ASSUME NEW p, sys_mkdir_dies(p) PROVE Maps
  <2>1. Stays(LinksNow(up, place))
    BY <1>2, <1>13, sys_mkdir_diesStays
  <2>2. OF!mount_partition
    BY <1>13, Zenon DEF sys_mkdir_dies, DiesOutOfBlocks, Mounts
  <2> QED BY <1>2, <2>1, <2>2, MountsMaps
<1>14. ASSUME NEW p \in RmdirPaths, sys_rmdir(p), Careful PROVE Maps
  <2>1. PICK n : n = search_file(p).i_no
    OBVIOUS
  <2>2. /\ n \in D /\ n # Root /\ Used(inodeTable, blocks, n) = Dots
        /\ Stays(WithoutLink(LinksNow(up, place), n))
    BY <1>2, <1>14, <2>1, sys_rmdirStays
  <2>3. fdTable' = fdTable
    BY <1>14, Zenon DEF sys_rmdir, Remove
  <2> QED BY <1>2, <2>2, <2>3, RmdirMaps
<1>15. ASSUME Restart PROVE Maps
  <2>1. Stays(LinksNow(up, place))
    BY <1>2, <1>15, RestartStays
  <2>2. OF!mount_partition
    BY <1>15, Zenon DEF Restart, Mounts
  <2> QED BY <1>2, <2>1, <2>2, MountsMaps
<1>16. ASSUME Next, Careful PROVE Maps
  <2>1. CASE \E p \in CreatePaths : sys_open_create(p)
    BY <2>1, <1>5
  <2>2. CASE \E p \in OpenPaths : sys_open_existing(p) \/ sys_open_table_full(p)
    BY <2>2, <1>6, <1>7 DEF Paths
  <2>3. CASE \E f \in OF!Fds : sys_close(f)
    BY <2>3, <1>8
  <2>4. CASE \E f \in OF!Fds, count \in WriteCounts :
                sys_write(f, count) \/ sys_write_dies(f, count)
    BY <2>4, <1>9, <1>10
  <2>5. CASE \E p \in UnlinkPaths : sys_unlink(p)
    BY <2>5, <1>11
  <2>6. CASE \E p \in UnlinkPaths \cup RmdirPaths : sys_remove_root(p)
    BY <2>6, <1>7 DEF Paths
  <2>7. CASE \E p \in MkdirPaths : sys_mkdir(p) \/ sys_mkdir_dies(p)
    BY <2>7, <1>12, <1>13
  <2>8. CASE \E p \in RmdirPaths : sys_rmdir(p)
    BY <1>16, <2>8, <1>14
  <2> QED BY <1>16, <2>1, <2>2, <2>3, <2>4, <2>5, <2>6, <2>7, <2>8, <1>15 DEF Next
<1> QED BY <1>4, <1>16

LEMMA ViewInitHolds == ViewInit => NS!Init /\ SomeView
<1> SUFFICES ASSUME ViewInit PROVE NS!Init /\ SomeView
  OBVIOUS
<1>1. Init /\ tree = <<>> /\ handles = [f \in OF!Fds |-> NULL]
  BY DEF ViewInit
<1>2. TreeInv
  BY <1>1, InitTree
<1>3. PICK D, up, place, depth : InTree(D, up, place, depth)
  BY <1>2 DEF TreeInv
<1> DEFINE L == LinksNow(up, place)
           P == [n \in Inodes |-> <<>>]
<1>4. inodeBitmap = {Root} /\ \A f \in OF!Fds : fdTable[f] = -1
  BY <1>1 DEF Init, OF!Init
<1>5. DOMAIN L = {}
  BY <1>4 DEF LinksNow, Links
<1> HIDE DEF L
<1>6. PathsOf(L, P)
  <2>1. Root \in Inodes
    BY SizesAssumption DEF Root, Inodes
  <2> QED BY <1>5, <2>1 DEF PathsOf
<1>7. ShowsTree(tree, L, P)
  <2> DEFINE N == {P[n] : n \in DOMAIN L}
  <2>1. N = {}
    BY <1>5
  <2> HIDE DEF N, P
  <2>2. tree = [p \in N |-> tree[p]]
    BY <1>1, <2>1
  <2> QED BY <1>5, <2>2 DEF ShowsTree, N
<1>8. handles = HandlesOf(open_inodes, fileTable, fdTable, P)
  BY <1>1, <1>4 DEF HandlesOf
<1>9. OnTree(D, up, place, depth, P) /\ ViewOn(LinksNow(up, place), P)
  BY <1>3, <1>6, <1>7, <1>8 DEF OnTree, ViewOn, L
<1>10. SomeView
  BY <1>9 DEF SomeView
<1> QED BY <1>1, <1>10 DEF NS!Init

LEMMA ViewNextMaps ==
    ASSUME Usable, TreeInv, SomeView, [ViewNext]_<<vars, tree, handles>>, [Careful]_vars
    PROVE  TreeInv' /\ Maps
<1>1. IInv /\ Sound
  BY DEF TreeInv
<1>2. CASE UNCHANGED <<vars, tree, handles>>
  <2>1. UNCHANGED vars /\ tree' = tree /\ handles' = handles
    BY <1>2
  <2>2. TreeInv'
    BY <2>1, NextTree
  <2>3. SomeView'
    <3>1. PICK D, up, place, depth, P :
              OnTree(D, up, place, depth, P) /\ ViewOn(LinksNow(up, place), P)
      BY DEF SomeView
    <3>2. OnTree(D, up, place, depth, P)' /\ ViewOn(LinksNow(up, place), P)'
      BY <2>1, <3>1 DEF OnTree, InTree, LinksNow, ViewOn, vars, bitmaps
    <3> QED BY <3>2 DEF SomeView
  <2> QED BY <2>1, <2>2, <2>3 DEF Maps
<1>3. CASE ViewNext
  <2>1. Next /\ [Next]_vars
    BY <1>3 DEF ViewNext
  <2>2. TreeInv'
    BY <2>1, NextTree
  <2>3. OFP!KeepsInodes
    BY <1>1, <2>1, NextKeepsInodes
  <2>4. Computed'
    BY <1>3, Zenon DEF ViewNext, Computed
  <2>5. StepTo
    BY <2>2, <2>3, <2>4 DEF StepTo, TreeInv
  <2> QED BY <1>1, <2>1, <2>2, <2>5, NextMaps
<1> QED BY <1>2, <1>3

(* Whatever the sizes, every call does to the paths a user sees, and to    *)
(* the paths its descriptors are open on, what the file system of          *)
(* Namespace.tla does, and a restart or a death in a call loses no name.   *)
THEOREM FileSystemIsNamespace ==
    Usable => (ViewSpec /\ [][Careful]_vars => ImplementsNamespace)
<1> SUFFICES ASSUME Usable PROVE ViewSpec /\ [][Careful]_vars => NS!Spec
  BY DEF ImplementsNamespace
<1>1. ViewInit => TreeInv /\ SomeView /\ NS!Init
  BY InitTree, ViewInitHolds DEF ViewInit
<1>2. TreeInv /\ SomeView /\ [ViewNext]_<<vars, tree, handles>> /\ [Careful]_vars
          => TreeInv' /\ SomeView' /\ [NS!Next]_<<tree, handles>>
  BY ViewNextMaps DEF Maps
<1> QED BY <1>1, <1>2, PTL DEF ViewSpec, NS!Spec
=============================================================================
