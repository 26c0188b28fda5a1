--------------------------- MODULE DiskWritesProofs ---------------------------
(***************************************************************************)
(* The writes of a call, one by one.  They bring the disk to what the call *)
(* makes of it, none forgotten and none undone; and a death between any    *)
(* two of them leaves what the next process mounts safely, except in the   *)
(* two windows that Exposed names, where it never does.  Both follow from  *)
(* the tree of FileSystemProofs, before the call and after it.             *)
(***************************************************************************)
EXTENDS DiskWrites, FileSystemProofs, SequenceTheorems

(* The images of the partition that are on the disk, and what one write    *)
(* does to them.                                                           *)
Disk(ib, bb, t, bl) ==
    [inodeBitmap |-> ib, blockBitmap |-> bb, inodeTable |-> t, blocks |-> bl]

(* What one write does to the disk.                                        *)
LEMMA WritesInodeBit ==
    ASSUME NEW ib, NEW bb, NEW t, NEW bl, NEW at, NEW v,
           NEW x, x = bitmap_sync(v, ib, {at})
    PROVE  write_blocks_to_disk(Disk(ib, bb, t, bl), Write("inodeBitmap", at, v)) = Disk(x, bb, t, bl)
BY DEF write_blocks_to_disk, Write, Disk

LEMMA WritesBlockBit ==
    ASSUME NEW ib, NEW bb, NEW t, NEW bl, NEW at, NEW v,
           NEW x, x = bitmap_sync(v, bb, {at})
    PROVE  write_blocks_to_disk(Disk(ib, bb, t, bl), Write("blockBitmap", at, v)) = Disk(ib, x, t, bl)
BY DEF write_blocks_to_disk, Write, Disk

LEMMA WritesSlot ==
    ASSUME NEW ib, NEW bb, NEW t, NEW bl, NEW at, NEW v,
           NEW x, x = [t EXCEPT ![at] = v]
    PROVE  write_blocks_to_disk(Disk(ib, bb, t, bl), Write("inodeTable", at, v)) = Disk(ib, bb, x, bl)
BY DEF write_blocks_to_disk, Write, Disk

LEMMA WritesBlock ==
    ASSUME NEW ib, NEW bb, NEW t, NEW bl, NEW at, NEW v,
           NEW x, x = [bl EXCEPT ![at] = v]
    PROVE  write_blocks_to_disk(Disk(ib, bb, t, bl), Write("blocks", at, v)) = Disk(ib, bb, t, x)
BY DEF write_blocks_to_disk, Write, Disk

(* The writes of s take the disk from x to y.                              *)
Brings(x, s, y) ==
    /\ \E S : s \in Seq(S)
    /\ \E f : /\ f[0] = x /\ f[Len(s)] = y
              /\ \A k \in 1 .. Len(s) : f[k] = write_blocks_to_disk(f[k - 1], s[k])

LEMMA BringsNothing ==
    ASSUME NEW x
    PROVE  Brings(x, <<>>, x)
<1> DEFINE f == [k \in 0 .. 0 |-> x]
<1>1. f[0] = x /\ <<>> \in Seq({}) /\ Len(<<>>) = 0
  OBVIOUS
<1> HIDE DEF f
<1> QED BY <1>1 DEF Brings

LEMMA BringsEnd ==
    ASSUME NEW x, NEW y, Brings(x, <<>>, y)
    PROVE  x = y
BY DEF Brings

LEMMA BringsOne ==
    ASSUME NEW x, NEW w
    PROVE  Brings(x, <<w>>, write_blocks_to_disk(x, w))
<1> DEFINE y == write_blocks_to_disk(x, w)
           f == [k \in 0 .. 1 |-> IF k = 0 THEN x ELSE y]
<1> HIDE DEF y
<1>1. f[0] = x /\ f[1] = y
  OBVIOUS
<1> HIDE DEF f
<1>2. <<w>> \in Seq({w}) /\ Len(<<w>>) = 1 /\ <<w>>[1] = w
  OBVIOUS
<1>3. \A k \in 1 .. 1 : f[k] = write_blocks_to_disk(f[k - 1], <<w>>[k])
  BY <1>1, <1>2 DEF y
<1> QED BY <1>1, <1>2, <1>3 DEF Brings, y

LEMMA BringsBoth ==
    ASSUME NEW x, NEW y, NEW z, NEW s, NEW u, Brings(x, s, y), Brings(y, u, z)
    PROVE  Brings(x, s \o u, z)
<1>1. PICK S, T : s \in Seq(S) /\ u \in Seq(T)
  BY DEF Brings
<1>2. s \in Seq(S \cup T) /\ u \in Seq(S \cup T)
  <2>1. S \subseteq S \cup T /\ T \subseteq S \cup T
    OBVIOUS
  <2> QED BY <1>1, <2>1, SeqMonotonic
<1>3. /\ s \o u \in Seq(S \cup T) /\ Len(s \o u) = Len(s) + Len(u)
      /\ \A k \in 1 .. Len(s) + Len(u) :
            (s \o u)[k] = IF k <= Len(s) THEN s[k] ELSE u[k - Len(s)]
  BY <1>2, ConcatProperties
<1>4. Len(s) \in Nat /\ Len(u) \in Nat
  BY <1>1, LenProperties
<1>5. PICK f : /\ f[0] = x /\ f[Len(s)] = y
               /\ \A k \in 1 .. Len(s) : f[k] = write_blocks_to_disk(f[k - 1], s[k])
  BY DEF Brings
<1>6. PICK g : /\ g[0] = y /\ g[Len(u)] = z
               /\ \A k \in 1 .. Len(u) : g[k] = write_blocks_to_disk(g[k - 1], u[k])
  BY DEF Brings
<1> DEFINE m == Len(s)
           n == Len(u)
           q == s \o u
           h == [k \in 0 .. m + n |-> IF k <= m THEN f[k] ELSE g[k - m]]
<1>7. h[0] = x /\ h[m + n] = z
  BY <1>4, <1>5, <1>6
<1>8. \A k \in 0 .. m + n : h[k] = IF k <= m THEN f[k] ELSE g[k - m]
  OBVIOUS
<1> HIDE DEF h, m, n, q
<1>9. ASSUME NEW k \in 1 .. m + n PROVE h[k] = write_blocks_to_disk(h[k - 1], q[k])
  <2>0. m \in Nat /\ n \in Nat
    BY <1>4 DEF m, n
  <2>1. CASE k <= m
    <3>1. k \in 1 .. m /\ k - 1 <= m /\ k \in 0 .. m + n /\ k - 1 \in 0 .. m + n
      BY <2>0, <2>1
    <3>2. h[k] = f[k] /\ h[k - 1] = f[k - 1] /\ q[k] = s[k]
      BY <1>3, <1>8, <3>1, <2>1 DEF m, n, q
    <3> QED BY <1>5, <3>1, <3>2 DEF m
  <2>2. CASE k > m
    <3>1. k - m \in 1 .. n /\ ~(k <= m) /\ k \in 0 .. m + n /\ k - 1 \in 0 .. m + n
      BY <2>0, <2>2
    <3>2. h[k] = g[k - m] /\ q[k] = u[k - m]
      BY <1>3, <1>8, <3>1 DEF m, n, q
    <3>3. h[k - 1] = g[k - m - 1]
      <4>1. CASE k - 1 <= m
        <5>1. k - 1 = m /\ k - m - 1 = 0
          BY <2>0, <2>2, <4>1
        <5> QED BY <1>5, <1>6, <1>8, <3>1, <4>1, <5>1 DEF m
      <4>2. CASE ~(k - 1 <= m)
        <5>1. k - 1 - m = k - m - 1
          BY <2>0
        <5> QED BY <1>8, <3>1, <4>2, <5>1
      <4> QED BY <4>1, <4>2
    <3> QED BY <1>6, <3>1, <3>2, <3>3 DEF n
  <2> QED BY <2>0, <2>1, <2>2
<1>10. Len(q) = m + n /\ q \in Seq(S \cup T)
  BY <1>3 DEF q, m, n
<1>11. h[Len(q)] = z
  BY <1>7, <1>10
<1>12. Brings(x, q, z)
  BY <1>7, <1>9, <1>10, <1>11 DEF Brings
<1> QED BY <1>12 DEF q

(* After the first write the others remain.                                *)
LEMMA BringsOn ==
    ASSUME NEW x, NEW s, NEW y, Brings(x, s, y), s # <<>>
    PROVE  Brings(write_blocks_to_disk(x, Head(s)), Tail(s), y)
<1>1. PICK S : s \in Seq(S)
  BY DEF Brings
<1>2. PICK f : /\ f[0] = x /\ f[Len(s)] = y
               /\ \A k \in 1 .. Len(s) : f[k] = write_blocks_to_disk(f[k - 1], s[k])
  BY DEF Brings
<1>3. /\ Tail(s) \in Seq(S) /\ Len(Tail(s)) = Len(s) - 1 /\ Head(s) = s[1]
      /\ \A k \in 1 .. Len(Tail(s)) : Tail(s)[k] = s[k + 1]
  BY <1>1, HeadTailProperties
<1>4. Len(s) \in Nat /\ Len(s) # 0
  BY <1>1, EmptySeq, LenProperties
<1> DEFINE n == Len(s) - 1
           g == [k \in 0 .. n |-> f[k + 1]]
<1>5. n \in Nat /\ 1 \in 1 .. Len(s) /\ n + 1 = Len(s)
  BY <1>4
<1>6. \A k \in 0 .. n : g[k] = f[k + 1]
  OBVIOUS
<1> HIDE DEF g, n
<1>7. g[0] = write_blocks_to_disk(x, Head(s))
  <2>1. g[0] = f[1] /\ f[1] = write_blocks_to_disk(f[0], s[1])
    <3>1. f[1] = write_blocks_to_disk(f[1 - 1], s[1]) /\ 1 - 1 = 0
      BY <1>2, <1>5
    <3>2. 0 \in 0 .. n /\ 0 + 1 = 1
      BY <1>5
    <3> QED BY <1>6, <3>1, <3>2
  <2> QED BY <1>2, <1>3, <2>1
<1>8. g[n] = y /\ Len(Tail(s)) = n
  BY <1>2, <1>3, <1>5, <1>6 DEF n
<1>9. ASSUME NEW k \in 1 .. n PROVE g[k] = write_blocks_to_disk(g[k - 1], Tail(s)[k])
  <2>1. k \in 0 .. n /\ k - 1 \in 0 .. n /\ k + 1 \in 1 .. Len(s) /\ k - 1 + 1 = k /\ k + 1 - 1 = k
    BY <1>5
  <2>2. g[k] = f[k + 1] /\ g[k - 1] = f[k]
    BY <1>6, <2>1
  <2>3. f[k + 1] = write_blocks_to_disk(f[k], s[k + 1])
    BY <1>2, <2>1
  <2> QED BY <1>3, <1>8, <2>2, <2>3
<1> QED BY <1>3, <1>7, <1>8, <1>9 DEF Brings

-----------------------------------------------------------------------------
(* The writes of the calls come in these pieces.                           *)

(* Increasing names the members of a finite set of numbers, each once.     *)
Sorted(s, S) == /\ s \in [1 .. Cardinality(S) -> S]
                /\ \A i, j \in DOMAIN s : i < j => s[i] < s[j]

Ranked(R, S) == \A k \in 0 .. Cardinality(S) - 1 : \E q \in S : Cardinality(Before(R, S, q)) = k
LEMMA RankEach ==
    ASSUME NEW S, IsFiniteSet(S), NEW R, Orders(R, S)
    PROVE  Ranked(R, S)
BY RanksFilled DEF Ranked

LEMMA SortedExists ==
    ASSUME NEW S, IsFiniteSet(S), S \subseteq Int
    PROVE  \E s : Sorted(s, S)
<1> DEFINE R == {x \in S \X S : x[1] < x[2]}
           n == Cardinality(S)
           at(q) == Cardinality(Before(R, S, q))
           s == [k \in 1 .. n |-> CHOOSE q \in S : at(q) = k - 1]
<1>1. \A q, r \in S : <<q, r>> \in R <=> q < r
  OBVIOUS
<1> HIDE DEF R
<1>2. Orders(R, S)
  BY <1>1 DEF Orders
<1>3. /\ n \in Nat /\ \A k \in 0 .. n - 1 : \E q \in S : at(q) = k
      /\ \A q \in S : at(q) \in 0 .. n - 1
  <2>1. \A q \in S : at(q) = Cardinality(Before(R, S, q))
    OBVIOUS
  <2> HIDE DEF at, s
  <2>2. n \in Nat
    BY FS_CardinalityType
  <2>3. \A q \in S : Cardinality(Before(R, S, q)) \in 0 .. n - 1
    BY <1>2, RanksFilled
  <2>4. Ranked(R, S)
    BY <1>2, RankEach
  <2> QED BY <2>1, <2>2, <2>3, <2>4 DEF Ranked
<1>4. ASSUME NEW q \in S, NEW r \in S, q <= r PROVE at(q) <= at(r)
  <2>1. Before(R, S, q) \subseteq Before(R, S, r) /\ Before(R, S, r) \subseteq S
    <3>1. ASSUME NEW x \in S, <<x, q>> \in R PROVE <<x, r>> \in R
      <4>1. x \in Int /\ q \in Int /\ r \in Int /\ x < q
        BY <1>1, <3>1
      <4>2. x < r
        BY <1>4, <4>1
      <4> QED BY <1>1, <4>2
    <3> QED BY <3>1 DEF Before
  <2>2. IsFiniteSet(Before(R, S, r))
    BY <2>1, FS_Subset
  <2> QED BY <2>1, <2>2, FS_Subset
<1> HIDE DEF at, n
<1>5. ASSUME NEW k \in 1 .. n PROVE s[k] \in S /\ at(s[k]) = k - 1
  <2>1. k - 1 \in 0 .. n - 1
    BY <1>3
  <2>2. \E q \in S : at(q) = k - 1
    BY <1>3, <2>1
  <2> QED BY <2>2
<1>6. s \in [1 .. n -> S] /\ DOMAIN s = 1 .. n
  BY <1>5
<1> HIDE DEF s
<1>7. ASSUME NEW i \in 1 .. n, NEW j \in 1 .. n, i < j PROVE s[i] < s[j]
  <2>1. s[i] \in S /\ s[j] \in S /\ at(s[i]) = i - 1 /\ at(s[j]) = j - 1
    BY <1>5
  <2>2. ~(at(s[j]) <= at(s[i]))
    BY <2>1, <1>3, <1>7
  <2>3. ~(s[j] <= s[i])
    BY <1>4, <2>1, <2>2
  <2>4. s[i] \in Int /\ s[j] \in Int
    BY <2>1
  <2> QED BY <2>3, <2>4
<1> QED BY <1>6, <1>7 DEF Sorted, n

LEMMA IncreasingFacts ==
    ASSUME NEW S, IsFiniteSet(S), S \subseteq Int
    PROVE  /\ Increasing(S) \in Seq(S) /\ DOMAIN Increasing(S) = 1 .. Len(Increasing(S))
           /\ \A x \in S : \E k \in 1 .. Len(Increasing(S)) : Increasing(S)[k] = x
           /\ \A k \in 1 .. Len(Increasing(S)) : Increasing(S)[k] \in S
           /\ \A i, j \in 1 .. Len(Increasing(S)) : Increasing(S)[i] = Increasing(S)[j] => i = j
<1> DEFINE s == Increasing(S)
           n == Cardinality(S)
<1>1. n \in Nat
  BY FS_CardinalityType
<1>2. Sorted(s, S)
  BY SortedExists DEF Increasing, Sorted
<1> HIDE DEF s
<1>3. s \in [1 .. n -> S] /\ \A i, j \in 1 .. n : i < j => s[i] < s[j]
  BY <1>2 DEF Sorted
<1> HIDE DEF n
<1>4. s \in Seq(S) /\ Len(s) = n /\ DOMAIN s = 1 .. n
  BY <1>1, <1>3
<1>5. ASSUME NEW i \in 1 .. n, NEW j \in 1 .. n, s[i] = s[j] PROVE i = j
  <2>1. s[i] \in S /\ s[j] \in S
    BY <1>3
  <2>2. ~(s[i] < s[j]) /\ ~(s[j] < s[i])
    <3>1. s[i] \in Int
      BY <2>1
    <3>2. ~(s[i] < s[i])
      BY <3>1
    <3> QED BY <1>5, <3>2
  <2>3. ~(i < j) /\ ~(j < i)
    BY <1>3, <2>2
  <2> QED BY <1>1, <2>3
<1> DEFINE R == {s[k] : k \in 1 .. n}
<1>6. IsFiniteSet(1 .. n) /\ Cardinality(1 .. n) = n
  BY <1>1, FS_Interval
<1>7. Cardinality(R) = n
  <2>1. s = [k \in 1 .. n |-> s[k]]
    BY <1>3
  <2> HIDE DEF R, n
  <2>2. Cardinality({s[k] : k \in 1 .. n}) = Cardinality(1 .. n)
    <3>1. \A k, l \in 1 .. n : s[k] = s[l] => k = l
      BY <1>5
    <3> DEFINE U == 1 .. n
    <3>2. IsFiniteSet(U) /\ s = [q \in U |-> s[q]] /\ \A k, l \in U : s[k] = s[l] => k = l
      BY <1>6, <2>1, <3>1
    <3> HIDE DEF U
    <3>3. Cardinality({s[q] : q \in U}) = Cardinality(U)
      BY <3>2, SameCount
    <3> QED BY <3>3 DEF U
  <2> QED BY <1>6, <2>2 DEF R
<1>8. R \subseteq S
  BY <1>3
<1>9. R = S
  BY <1>7, <1>8, FS_Subset DEF n
<1> QED BY <1>3, <1>4, <1>5, <1>9 DEF s

(* The bits of the blocks in s, one after the other.                       *)
Flipped(s, j, mem) ==
    {b \in Blocks : IF \E i \in 1 .. j : s[i] = b THEN b \notin mem ELSE b \in mem}

LEMMA BringsBits ==
    ASSUME NEW s \in Seq(Blocks), NEW mem \in SUBSET Blocks, NEW ib, NEW t, NEW bl
    PROVE  Brings(Disk(ib, mem, t, bl), SyncBlockBits(s, mem),
                  Disk(ib, Flipped(s, Len(s), mem), t, bl))
<1> DEFINE n == Len(s)
           w == SyncBlockBits(s, mem)
           f == [k \in 0 .. n |-> Disk(ib, Flipped(s, k, mem), t, bl)]
<1>1. n \in Nat /\ DOMAIN s = 1 .. n
  BY LenProperties
<1>2. w = [j \in 1 .. n |-> Write("blockBitmap", s[j], Flipped(s, j, mem))]
  BY <1>1, Zenon DEF SyncBlockBits, Flipped
<1> HIDE DEF n, w
<1>3. /\ w \in Seq({Write("blockBitmap", s[j], Flipped(s, j, mem)) : j \in 1 .. n}) /\ Len(w) = n
      /\ \A k \in 1 .. n : w[k] = Write("blockBitmap", s[k], Flipped(s, k, mem))
  BY <1>1, <1>2
<1>4. \A k \in 0 .. n : f[k] = Disk(ib, Flipped(s, k, mem), t, bl)
  OBVIOUS
<1> HIDE DEF f
<1>5. f[0] = Disk(ib, mem, t, bl)
  <2>1. Flipped(s, 0, mem) = mem
    BY DEF Flipped
  <2> QED BY <1>1, <1>4, <2>1
<1>6. ASSUME NEW k \in 1 .. n PROVE f[k] = write_blocks_to_disk(f[k - 1], w[k])
  <2> DEFINE new == Flipped(s, k, mem)
             old == Flipped(s, k - 1, mem)
  <2>1. \A b \in new \cup old : b \in {s[k]} \/ (b \in new <=> b \in old)
    <3> SUFFICES ASSUME NEW b \in Blocks, b # s[k] PROVE b \in new <=> b \in old
      BY DEF Flipped
    <3>1. (\E i \in 1 .. k : s[i] = b) <=> (\E i \in 1 .. k - 1 : s[i] = b)
      <4>1. \A i \in 1 .. k : i = k \/ i \in 1 .. k - 1
        BY <1>1
      <4>2. 1 .. k - 1 \subseteq 1 .. k
        BY <1>1
      <4> QED BY <4>1, <4>2
    <3> QED BY <3>1 DEF Flipped
  <2> HIDE DEF new, old
  <2>2. bitmap_sync(new, old, {s[k]}) = new
    BY <2>1, SyncAll
  <2>3. k \in 0 .. n /\ k - 1 \in 0 .. n
    BY <1>1
  <2>4. f[k] = Disk(ib, new, t, bl) /\ f[k - 1] = Disk(ib, old, t, bl)
        /\ w[k] = Write("blockBitmap", s[k], new)
    BY <1>3, <1>4, <2>3 DEF new, old
  <2>5. write_blocks_to_disk(Disk(ib, old, t, bl), Write("blockBitmap", s[k], new))
            = Disk(ib, new, t, bl)
    BY <2>2, WritesBlockBit
  <2> QED BY <2>4, <2>5, Zenon
<1>7. f[n] = Disk(ib, Flipped(s, n, mem), t, bl)
  BY <1>1, <1>4
<1>8. Brings(Disk(ib, mem, t, bl), w, Disk(ib, Flipped(s, n, mem), t, bl))
  BY <1>3, <1>5, <1>6, <1>7 DEF Brings
<1> QED BY <1>8 DEF n, w

LEMMA BringsTaken ==
    ASSUME NEW S \in SUBSET Blocks, NEW mem \in SUBSET Blocks, S \cap mem = {}, NEW ib, NEW t, NEW bl
    PROVE  Brings(Disk(ib, mem, t, bl), SyncBlockBits(Increasing(S), mem), Disk(ib, mem \cup S, t, bl))
<1> DEFINE s == Increasing(S)
<1>1. IsFiniteSet(S) /\ S \subseteq Int
  <2>1. IsFiniteSet(Blocks) /\ Blocks \subseteq Int
    BY FS_Interval, SizesAssumption DEF Blocks
  <2> QED BY <2>1, FS_Subset
<1>2. /\ s \in Seq(S) /\ \A x \in S : \E k \in 1 .. Len(s) : s[k] = x
      /\ \A k \in 1 .. Len(s) : s[k] \in S
  BY <1>1, IncreasingFacts
<1> HIDE DEF s
<1>3. s \in Seq(Blocks)
  BY <1>2, SeqMonotonic
<1>4. Flipped(s, Len(s), mem) = mem \cup S
  <2>1. ASSUME NEW x \in Blocks
        PROVE  (IF \E i \in 1 .. Len(s) : s[i] = x THEN x \notin mem ELSE x \in mem)
                   <=> x \in mem \cup S
    <3>1. (\E i \in 1 .. Len(s) : s[i] = x) <=> x \in S
      BY <1>2
    <3> QED BY <3>1
  <2> QED BY <2>1 DEF Flipped
<1>5. Brings(Disk(ib, mem, t, bl), SyncBlockBits(s, mem), Disk(ib, Flipped(s, Len(s), mem), t, bl))
  BY <1>3, BringsBits
<1> QED BY <1>4, <1>5 DEF s

LEMMA BringsGiven ==
    ASSUME NEW S \in SUBSET Blocks, NEW mem \in SUBSET Blocks, S \subseteq mem,
           NEW s \in Seq(Blocks), \A x \in S : \E k \in 1 .. Len(s) : s[k] = x,
           \A k \in 1 .. Len(s) : s[k] \in S, NEW ib, NEW t, NEW bl
    PROVE  Brings(Disk(ib, mem, t, bl), SyncBlockBits(s, mem), Disk(ib, mem \ S, t, bl))
<1>1. Flipped(s, Len(s), mem) = mem \ S
  <2>1. ASSUME NEW x \in Blocks
        PROVE  (IF \E i \in 1 .. Len(s) : s[i] = x THEN x \notin mem ELSE x \in mem)
                   <=> x \in mem \ S
    <3>1. (\E i \in 1 .. Len(s) : s[i] = x) <=> x \in S
      OBVIOUS
    <3> QED BY <3>1
  <2> QED BY <2>1 DEF Flipped
<1>2. Brings(Disk(ib, mem, t, bl), SyncBlockBits(s, mem), Disk(ib, Flipped(s, Len(s), mem), t, bl))
  BY BringsBits
<1> QED BY <1>1, <1>2

(* Whole blocks, each at its address in s.                                 *)
Covered(s, j, image, bl) ==
    [b \in Blocks |-> IF \E i \in 1 .. j : s[i] = b THEN image[b] ELSE bl[b]]

LEMMA BringsBlocks ==
    ASSUME NEW n \in Nat, NEW s, NEW image, NEW ib, NEW bb, NEW t,
           NEW bl, bl = [b \in Blocks |-> bl[b]]
    PROVE  Brings(Disk(ib, bb, t, bl), [j \in 1 .. n |-> Write("blocks", s[j], image[s[j]])],
                  Disk(ib, bb, t, Covered(s, n, image, bl)))
<1> DEFINE w == [j \in 1 .. n |-> Write("blocks", s[j], image[s[j]])]
           f == [k \in 0 .. n |-> Disk(ib, bb, t, Covered(s, k, image, bl))]
<1>1. /\ w \in Seq({Write("blocks", s[j], image[s[j]]) : j \in 1 .. n}) /\ Len(w) = n
      /\ \A k \in 1 .. n : w[k] = Write("blocks", s[k], image[s[k]])
  OBVIOUS
<1>2. \A k \in 0 .. n : f[k] = Disk(ib, bb, t, Covered(s, k, image, bl))
  OBVIOUS
<1> HIDE DEF f, w
<1>3. f[0] = Disk(ib, bb, t, bl)
  <2>1. \A b : ~\E i \in 1 .. 0 : s[i] = b
    OBVIOUS
  <2>2. Covered(s, 0, image, bl) = [b \in Blocks |-> bl[b]]
    BY <2>1 DEF Covered
  <2> QED BY <1>2, <2>2
<1>4. ASSUME NEW k \in 1 .. n PROVE f[k] = write_blocks_to_disk(f[k - 1], w[k])
  <2> DEFINE new == Covered(s, k, image, bl)
             old == Covered(s, k - 1, image, bl)
  <2>1. [old EXCEPT ![s[k]] = image[s[k]]] = new
    <3>1. ASSUME NEW b \in Blocks
          PROVE  (\E i \in 1 .. k : s[i] = b) <=> (s[k] = b \/ \E i \in 1 .. k - 1 : s[i] = b)
      <4>1. \A i \in 1 .. k : i = k \/ i \in 1 .. k - 1
        OBVIOUS
      <4>2. 1 .. k - 1 \subseteq 1 .. k /\ k \in 1 .. k
        OBVIOUS
      <4> QED BY <4>1, <4>2
    <3>2. \A b \in Blocks : new[b] = IF s[k] = b THEN image[b] ELSE old[b]
      BY <3>1 DEF Covered
    <3>3. DOMAIN old = Blocks /\ new = [b \in Blocks |-> new[b]]
      BY DEF Covered
    <3> HIDE DEF new, old
    <3>4. [old EXCEPT ![s[k]] = image[s[k]]]
              = [b \in Blocks |-> IF b = s[k] THEN image[s[k]] ELSE old[b]]
      BY <3>3
    <3> QED BY <3>2, <3>3, <3>4
  <2> HIDE DEF new, old
  <2>2. k \in 0 .. n /\ k - 1 \in 0 .. n
    OBVIOUS
  <2>3. f[k] = Disk(ib, bb, t, new) /\ f[k - 1] = Disk(ib, bb, t, old)
        /\ w[k] = Write("blocks", s[k], image[s[k]])
    BY <1>1, <1>2, <2>2 DEF new, old
  <2>4. write_blocks_to_disk(Disk(ib, bb, t, old), Write("blocks", s[k], image[s[k]]))
            = Disk(ib, bb, t, new)
    BY <2>1, WritesBlock
  <2> QED BY <2>3, <2>4, Zenon
<1>5. f[n] = Disk(ib, bb, t, Covered(s, n, image, bl))
  BY <1>2
<1>6. Brings(Disk(ib, bb, t, bl), w, Disk(ib, bb, t, Covered(s, n, image, bl)))
  BY <1>1, <1>3, <1>4, <1>5 DEF Brings
<1> QED BY <1>6 DEF w

LEMMA BringsTwo ==
    ASSUME NEW x, NEW y, NEW z, NEW v, NEW w,
           y = write_blocks_to_disk(x, v), z = write_blocks_to_disk(y, w)
    PROVE  Brings(x, <<v, w>>, z)
<1> DEFINE f == [k \in 0 .. 2 |-> IF k = 0 THEN x ELSE IF k = 1 THEN y ELSE z]
<1>1. f[0] = x /\ f[1] = y /\ f[2] = z
  OBVIOUS
<1> HIDE DEF f
<1>2. <<v, w>> \in Seq({v, w}) /\ Len(<<v, w>>) = 2 /\ <<v, w>>[1] = v /\ <<v, w>>[2] = w
  OBVIOUS
<1>3. ASSUME NEW k \in 1 .. 2 PROVE f[k] = write_blocks_to_disk(f[k - 1], <<v, w>>[k])
  <2>1. k = 1 \/ k = 2
    OBVIOUS
  <2> QED BY <1>1, <1>2, <2>1
<1> QED BY <1>1, <1>2, <1>3 DEF Brings

LEMMA BringsFour ==
    ASSUME NEW x1, NEW x2, NEW x3, NEW x4, NEW x5, NEW w1, NEW w2, NEW w3, NEW w4,
           x2 = write_blocks_to_disk(x1, w1), x3 = write_blocks_to_disk(x2, w2),
           x4 = write_blocks_to_disk(x3, w3), x5 = write_blocks_to_disk(x4, w4)
    PROVE  Brings(x1, <<w1, w2, w3, w4>>, x5)
<1> DEFINE f == [k \in 0 .. 4 |-> IF k = 0 THEN x1 ELSE IF k = 1 THEN x2 ELSE IF k = 2 THEN x3
                                  ELSE IF k = 3 THEN x4 ELSE x5]
           s == <<w1, w2, w3, w4>>
<1>1. f[0] = x1 /\ f[1] = x2 /\ f[2] = x3 /\ f[3] = x4 /\ f[4] = x5
  OBVIOUS
<1> HIDE DEF f
<1>2. s \in Seq({w1, w2, w3, w4}) /\ Len(s) = 4 /\ s[1] = w1 /\ s[2] = w2 /\ s[3] = w3 /\ s[4] = w4
  OBVIOUS
<1> HIDE DEF s
<1>3. ASSUME NEW k \in 1 .. 4 PROVE f[k] = write_blocks_to_disk(f[k - 1], s[k])
  <2>1. k = 1 \/ k = 2 \/ k = 3 \/ k = 4
    OBVIOUS
  <2> QED BY <1>1, <1>2, <2>1
<1>4. Brings(x1, s, x5)
  BY <1>1, <1>2, <1>3 DEF Brings
<1> QED BY <1>4 DEF s

-----------------------------------------------------------------------------
(* A creation.                                                             *)

(* What the call changed: the blocks of inode n in own, block b of         *)
(* directory d, which may be new, the two inodes and the bit of n.         *)
Made(d, n, b, own) ==
    /\ n \in Inodes \ inodeBitmap /\ inodeBitmap' = inodeBitmap \cup {n}
    /\ own = {inodeTable'[n].i_block[k] : k \in BlockIdx} \ {NoBlock}
    /\ b = inodeTable'[d].i_block[First(Vacant(inode_at(d)))[1]]
    /\ blockBitmap \subseteq blockBitmap' /\ own \subseteq blockBitmap' \ blockBitmap
    /\ \A m \in Inodes : m # d /\ m # n => inodeTable'[m] = inodeTable[m]
    /\ \A x \in Blocks : x # b /\ x \notin own => blocks'[x] = blocks[x]

LEMMA CreationBrings ==
    ASSUME DiskType, DiskType', NEW d, NEW n, NEW b, NEW own, Made(d, n, b, own)
    PROVE  Brings(Disk(inodeBitmap, blockBitmap, inodeTable, blocks), CreationWrites(d),
                  Disk(inodeBitmap', blockBitmap', inodeTable', blocks'))
<1> DEFINE ib == inodeBitmap
           ib2 == inodeBitmap'
           bb == blockBitmap
           bb2 == blockBitmap'
           t == inodeTable
           t2 == inodeTable'
           bl == blocks
           bl2 == blocks'
           dots == Increasing(own)
           grown == Increasing((bb2 \ bb) \ own)
           W1 == SyncBlockBits(dots, bb)
           W2 == [j \in DOMAIN dots |-> WriteBlock(dots[j])]
           W3 == SyncBlockBits(grown, bb \cup own)
           W4 == EnterWrites(d, n, b)
<1>1. CreationWrites(d) = W1 \o W2 \o W3 \o W4
  <2>1. n = CHOOSE x \in Inodes : x \in ib2 \ ib
    <3>1. \A x : x \in Inodes /\ x \in ib2 \ ib <=> x = n
      BY DEF Made
    <3> QED BY <3>1
  <2>2. /\ own = {t2[n].i_block[k] : k \in BlockIdx} \ {NoBlock}
        /\ b = t2[d].i_block[First(Vacant(inode_at(d)))[1]]
    BY DEF Made
  <2> QED BY <2>1, <2>2, Zenon DEF CreationWrites
<1>2. /\ bb \subseteq Blocks /\ bb2 \subseteq Blocks /\ t \in [Inodes -> InodeImages]
      /\ t2 \in [Inodes -> InodeImages] /\ bl \in [Blocks -> [EntryIdx -> Entries]]
      /\ bl2 \in [Blocks -> [EntryIdx -> Entries]]
  BY DEF DiskType
<1>3. /\ own \subseteq Blocks /\ (bb2 \ bb) \ own \subseteq Blocks
      /\ own \cap bb = {} /\ bb \cup own \subseteq bb2
  BY <1>2 DEF Made
<1>0. /\ Len(dots) \in Nat /\ DOMAIN dots = 1 .. Len(dots)
      /\ \A x \in own : \E k \in 1 .. Len(dots) : dots[k] = x
  <2>1. IsFiniteSet(own) /\ own \subseteq Int
    <3>1. IsFiniteSet(Blocks) /\ Blocks \subseteq Int
      BY FS_Interval, SizesAssumption DEF Blocks
    <3> QED BY <1>3, <3>1, FS_Subset
  <2>2. /\ dots \in Seq(own) /\ DOMAIN dots = 1 .. Len(dots)
        /\ \A x \in own : \E k \in 1 .. Len(dots) : dots[k] = x
    BY <2>1, IncreasingFacts
  <2> QED BY <2>2, LenProperties
<1>4. Brings(Disk(ib, bb, t, bl), W1, Disk(ib, bb \cup own, t, bl))
  BY <1>2, <1>3, BringsTaken
<1> DEFINE im == Covered(dots, Len(dots), bl2, bl)
<1>5. Brings(Disk(ib, bb \cup own, t, bl), W2, Disk(ib, bb \cup own, t, im))
  <2>1. Len(dots) \in Nat /\ DOMAIN dots = 1 .. Len(dots)
    BY <1>0
  <2> HIDE DEF dots
  <2>2. W2 = [j \in 1 .. Len(dots) |-> Write("blocks", dots[j], bl2[dots[j]])]
    BY <2>1, Zenon DEF WriteBlock
  <2> DEFINE n1 == Len(dots)
  <2>3. bl = [x \in Blocks |-> bl[x]]
    BY <1>2
  <2> HIDE DEF W2, n1
  <2>4. Brings(Disk(ib, bb \cup own, t, bl), [j \in 1 .. n1 |-> Write("blocks", dots[j], bl2[dots[j]])],
               Disk(ib, bb \cup own, t, Covered(dots, n1, bl2, bl)))
    BY <2>1, <2>3, BringsBlocks DEF n1
  <2> QED BY <2>2, <2>4 DEF n1
<1>6. Brings(Disk(ib, bb \cup own, t, im), W3, Disk(ib, bb2, t, im))
  <2>1. ((bb2 \ bb) \ own) \cap (bb \cup own) = {} /\ (bb \cup own) \cup ((bb2 \ bb) \ own) = bb2
    BY <1>3
  <2> DEFINE S == (bb2 \ bb) \ own
             mem == bb \cup own
  <2>2. S \in SUBSET Blocks /\ mem \in SUBSET Blocks /\ S \cap mem = {} /\ mem \cup S = bb2
    BY <1>2, <1>3, <2>1
  <2> HIDE DEF S, mem, im
  <2>3. Brings(Disk(ib, mem, t, im), SyncBlockBits(Increasing(S), mem), Disk(ib, mem \cup S, t, im))
    BY <2>2, BringsTaken
  <2> QED BY <2>2, <2>3 DEF S, mem
<1>7. Brings(Disk(ib, bb2, t, im), W4, Disk(ib2, bb2, t2, bl2))
  <2> DEFINE u == [t EXCEPT ![d] = t2[d]]
  <2>1. bl2 = [im EXCEPT ![b] = bl2[b]]
    <3>1. \A x \in Blocks : x # b => im[x] = bl2[x]
      <4> SUFFICES ASSUME NEW x \in Blocks, x # b PROVE im[x] = bl2[x]
        OBVIOUS
      <4>1. im[x] = IF \E i \in 1 .. Len(dots) : dots[i] = x THEN bl2[x] ELSE bl[x]
        BY DEF Covered
      <4>2. x \in own => \E i \in 1 .. Len(dots) : dots[i] = x
        BY <1>0
      <4> QED BY <4>1, <4>2 DEF Made
    <3>2. DOMAIN im = Blocks /\ bl2 = [x \in Blocks |-> bl2[x]]
      BY <1>2 DEF Covered
    <3> HIDE DEF im, bl2
    <3> QED BY <3>1, <3>2
  <2>2. t2 = [u EXCEPT ![n] = t2[n]]
    <3>1. \A m \in Inodes : m # d /\ m # n => t2[m] = t[m]
      BY DEF Made
    <3> QED BY <1>2, <3>1
  <2>3. ib2 = bitmap_sync(ib2, ib, {n})
    <3>1. \A x \in ib2 \cup ib : x \in {n} \/ (x \in ib2 <=> x \in ib)
      BY DEF Made
    <3> QED BY <3>1, SyncAll
  <2> HIDE DEF u, im
  <2> DEFINE x1 == Disk(ib, bb2, t, im)
             x2 == Disk(ib, bb2, t, bl2)
             x3 == Disk(ib, bb2, u, bl2)
             x4 == Disk(ib, bb2, t2, bl2)
             x5 == Disk(ib2, bb2, t2, bl2)
  <2>4. x2 = write_blocks_to_disk(x1, WriteBlock(b))
    BY <2>1, WritesBlock DEF WriteBlock
  <2>5. x3 = write_blocks_to_disk(x2, SyncInode(d))
    BY WritesSlot DEF SyncInode, u
  <2>6. x4 = write_blocks_to_disk(x3, SyncInode(n))
    BY <2>2, WritesSlot DEF SyncInode
  <2>7. x5 = write_blocks_to_disk(x4, Write("inodeBitmap", n, ib2))
    BY <2>3, WritesInodeBit
  <2> HIDE DEF x1, x2, x3, x4, x5
  <2>8. Brings(x1, <<WriteBlock(b), SyncInode(d), SyncInode(n), Write("inodeBitmap", n, ib2)>>, x5)
    BY <2>4, <2>5, <2>6, <2>7, BringsFour
  <2> QED BY <2>8 DEF x1, x5, EnterWrites
<1> HIDE DEF W1, W2, W3, W4, ib, ib2, bb, bb2, t, t2, bl, bl2, im
<1> DEFINE x == Disk(ib, bb, t, bl)
           y == Disk(ib2, bb2, t2, bl2)
<1> HIDE DEF x, y
<1>8. Brings(x, W1 \o W2, Disk(ib, bb \cup own, t, im))
  BY <1>4, <1>5, BringsBoth DEF x
<1>9. Brings(x, W1 \o W2 \o W3, Disk(ib, bb2, t, im))
  BY <1>6, <1>8, BringsBoth
<1>10. Brings(x, W1 \o W2 \o W3 \o W4, y)
  BY <1>7, <1>9, BringsBoth DEF y
<1> QED BY <1>1, <1>10 DEF x, y, ib, ib2, bb, bb2, t, t2, bl, bl2

LEMMA FirstIs ==
    ASSUME NEW S \in SUBSET Positions, NEW pos \in S, \A q \in S : ~Precedes(q, pos)
    PROVE  First(S) = pos
<1>1. ASSUME NEW q \in S, \A r \in S : ~Precedes(r, q) PROVE q = pos
  <2>1. ~Precedes(q, pos) /\ ~Precedes(pos, q)
    BY <1>1
  <2>2. /\ q[1] \in Nat /\ q[2] \in Nat /\ q = <<q[1], q[2]>>
        /\ pos[1] \in Nat /\ pos[2] \in Nat /\ pos = <<pos[1], pos[2]>>
    BY PositionParts DEF BlockIdx, EntryIdx
  <2>3. q[1] = pos[1] /\ q[2] = pos[2]
    BY <2>1, <2>2 DEF Precedes
  <2> QED BY <2>2, <2>3
<1> QED BY <1>1 DEF First

(* Where: entry e, at place pos of d.                                      *)
Placed(D, d, pos, b, e) ==
    /\ Grows(D, inodeTable, blocks, inodeTable', blocks', d, pos, e)
    /\ b \in Blocks /\ pos[1] \in BlockIdx
    /\ IF Has(inodeTable, d, pos) THEN b = At(inodeTable, d, pos[1]) ELSE b \notin blockBitmap
    /\ \A k \in BlockIdx : At(inodeTable', d, k) = IF k = pos[1] THEN b ELSE At(inodeTable, d, k)

LEMMA EnterMade ==
    ASSUME IInv, Sound, Usable, NEW D, NEW up, NEW place, NEW depth, InTree(D, up, place, depth),
           NEW d \in D, NEW n \in Inodes \ inodeBitmap, NEW e \in Entries, NEW i, NEW own, NEW image,
           NewInode(n, d, e.f_type, i, own, image), Enter(d, e, i, own, image)
    PROVE  \E b, pos : Made(d, n, b, own) /\ Placed(D, d, pos, b, e)
<1> DEFINE t == inodeTable
           bb == blockBitmap
<1>1. /\ D \subseteq inodeBitmap /\ d \in Inodes /\ d # n /\ n \in Inodes
      /\ t \in [Inodes -> InodeImages] /\ t[d].i_no = d /\ t[d] \in InodeImages
      /\ bb \subseteq Blocks /\ blocks \in [Blocks -> [EntryIdx -> Entries]]
  BY DEF IInv, DiskType, InTree, Sound, Tree, TreeType, Numbered
<1>2. inode_at(d) = t[d]
  BY InodeAtIsTable DEF Sound
<1>3. PICK pos \in Vacant(t[d]), b \in Blocks :
        LET grown == DirWithEntry(t[d], pos, b)
            taken == own \cup (IF InDir(t[d], pos) THEN {} ELSE {b})
        IN  /\ \A q \in Vacant(t[d]) : ~Precedes(q, pos)
            /\ IF InDir(t[d], pos) THEN b = t[d].i_block[pos[1]]
                                   ELSE IsLowestFree(b, bb \cup own, Blocks)
            /\ blockBitmap' = bb \cup taken
            /\ blocks' = [image EXCEPT ![b] = BlockWithEntry(t[d], pos, @, e)]
            /\ inodeTable' = inode_sync(inode_sync(t, grown), i)
            /\ inodeBitmap' = inodeBitmap \cup {i.i_no}
  BY <1>2, Zenon DEF Enter
<1> DEFINE grown == DirWithEntry(t[d], pos, b)
           s == [t EXCEPT ![d] = grown]
           u == [s EXCEPT ![n] = i]
<1>4. Vacant(t[d]) \subseteq Positions /\ pos \in Positions /\ pos[1] \in BlockIdx
  BY PositionParts DEF Vacant
<1>5. First(Vacant(t[d])) = pos
  BY <1>3, <1>4, FirstIs
<1>6. /\ grown.i_no = d /\ grown.i_block[pos[1]] = b /\ grown \in InodeImages
  <2>1. grown \in InodeImages
    BY <1>1, <1>4, DirWithEntryType
  <2> DEFINE m == [t[d].i_block EXCEPT ![pos[1]] = b]
  <2>2. grown = [t[d] EXCEPT !.i_size = t[d].i_size + 1, !.i_block = m]
    BY <1>1 DEF DirWithEntry, InodeImages
  <2>3. t[d].i_block \in [BlockIdx -> Blocks \cup {NoBlock}]
    BY <1>1, Images
  <2>4. m[pos[1]] = b
    BY <1>4, <2>3
  <2> HIDE DEF m, grown
  <2>5. grown = [i_no |-> t[d].i_no, i_size |-> t[d].i_size + 1, i_block |-> m]
    BY <1>1, <2>2, WrittenImage
  <2> QED BY <1>1, <2>1, <2>4, <2>5
<1> HIDE DEF grown
<1>7. /\ i.i_no = n /\ i \in InodeImages
      /\ own \subseteq Blocks /\ own \cap bb = {}
      /\ \A k \in BlockIdx : i.i_block[k] # NoBlock => k = 0 /\ own = {i.i_block[k]}
      /\ \A y \in own : i.i_block[0] = y
      /\ image \in [Blocks -> [EntryIdx -> Entries]]
  BY <1>1, NewInodeFacts
<1>8. \A x \in Blocks : x \notin own => image[x] = blocks[x]
  BY <1>1 DEF NewInode
<1>9. inodeTable' = u /\ inodeBitmap' = inodeBitmap \cup {n}
  <2>1. inode_sync(t, grown) = s
    BY <1>1, <1>6, SyncSlot
  <2>2. inode_sync(s, i) = u
    <3> HIDE DEF s
    <3> QED BY <1>1, <1>7, SyncSlot
  <2> QED BY <1>3, <1>7, <2>1, <2>2 DEF grown
<1>10. /\ inodeTable'[d] = grown /\ inodeTable'[n] = i
       /\ \A m \in Inodes : m # d /\ m # n => inodeTable'[m] = t[m]
  BY <1>1, <1>9
<1> HIDE DEF u, s
<1>11. own = {inodeTable'[n].i_block[k] : k \in BlockIdx} \ {NoBlock}
  <2>1. 0 \in BlockIdx /\ NoBlock \notin Blocks
    BY IndexSets DEF NoBlock, Blocks
  <2> QED BY <1>7, <1>10, <2>1
<1>12. b = inodeTable'[d].i_block[First(Vacant(inode_at(d)))[1]]
  BY <1>2, <1>5, <1>6, <1>10
<1>13. bb \subseteq blockBitmap' /\ own \subseteq blockBitmap' \ bb
  BY <1>3, <1>7
<1>14. \A x \in Blocks : x # b /\ x \notin own => blocks'[x] = blocks[x]
  BY <1>3, <1>7, <1>8
<1>15. Made(d, n, b, own)
  BY <1>1, <1>9, <1>10, <1>11, <1>12, <1>13, <1>14 DEF Made
<1>16. pos \in Vacant(t[d]) /\ e.f_type # "FT_UNKNOWN"
  BY <1>1, NewInodeFacts
<1>17. IF Has(t, d, pos) THEN b = At(t, d, pos[1]) /\ Ent(t, blocks, d, pos).f_type = "FT_UNKNOWN"
                         ELSE b \notin bb /\ pos[2] = 0
  BY <1>3, <1>16 DEF Vacant, InDir, EntryAt, Has, Ent, At, IsLowestFree
<1>18. Grows(D, t, blocks, inodeTable', blocks', d, pos, e)
  <2>1. \A m \in D : inodeTable'[m] = IF m = d THEN DirWithEntry(t[d], pos, b) ELSE t[m]
    <3>1. inodeBitmap \subseteq Inodes
      BY DEF IInv, DiskType
    <3> QED BY <1>1, <1>10, <3>1 DEF grown
  <2>2. \A x \in bb : image[x] = blocks[x]
    BY <1>1, <1>7, <1>8
  <2>3. blocks' = [image EXCEPT ![b] = BlockWithEntry(t[d], pos, @, e)]
    BY <1>3
  <2>4. /\ DiskTyped(inodeBitmap, bb, t, blocks) /\ Tree(inodeBitmap, D, up, place, depth, t, blocks)
        /\ OneOwner(inodeBitmap, t) /\ OwnedUsed(inodeBitmap, bb, t)
    BY DEF IInv, DiskType, DiskTyped, InTree, Sound, Owned
  <2> DEFINE tn == inodeTable'
             cl == blocks'
  <2> HIDE DEF t, bb, tn, cl
  <2>5. Grows(D, t, blocks, tn, cl, d, pos, e)
    BY <1>4, <1>7, <1>16, <1>17, <2>1, <2>2, <2>3, <2>4, EntryPut DEF tn, cl
  <2> QED BY <2>5 DEF tn, cl
<1>19. \A k \in BlockIdx : At(inodeTable', d, k) = IF k = pos[1] THEN b ELSE At(t, d, k)
  <2>1. \A k \in BlockIdx : grown.i_block[k] = IF k = pos[1] THEN b ELSE t[d].i_block[k]
    <3> DEFINE m == [t[d].i_block EXCEPT ![pos[1]] = b]
    <3>1. grown.i_block = m
      BY <1>1 DEF grown, DirWithEntry, InodeImages
    <3>2. t[d].i_block \in [BlockIdx -> Blocks \cup {NoBlock}]
      BY <1>1, Images
    <3>3. \A k \in BlockIdx : m[k] = IF k = pos[1] THEN b ELSE t[d].i_block[k]
      BY <1>4, <3>2
    <3> QED BY <3>1, <3>3
  <2> QED BY <1>10, <2>1 DEF At
<1>20. Placed(D, d, pos, b, e)
  BY <1>4, <1>17, <1>18, <1>19 DEF Placed
<1> QED BY <1>15, <1>20

(* What a creation enters in directory d.                                  *)
Entering(D, d) ==
    \E n, e, i, own, image :
        /\ MayEnter(D, d, n, e, e.f_type) /\ NewInode(n, d, e.f_type, i, own, image)
        /\ Enter(d, e, i, own, image)

LEMMA CreatesEnter ==
    ASSUME IInv, Sound, NEW D, NEW up, NEW place, NEW depth, InTree(D, up, place, depth), NEW p,
           (sys_open_create(p) /\ p \in CreatePaths) \/ (sys_mkdir(p) /\ p \in MkdirPaths)
    PROVE  Entering(D, search_file(p).parent_dir)
<1> DEFINE r == search_file(p)
           d == r.parent_dir
<1>0. p \in Paths
  BY DEF Paths
<1>1. CASE sys_open_create(p)
  <2>1. PICK n \in Inodes :
          /\ IsLowestFree(n, inodeBitmap, Inodes)
          /\ Enter(d, Entry(p[Len(p)], n, "FT_REGULAR"), inode_init(n), {}, blocks)
    BY <1>1, Zenon DEF sys_open_create
  <2>2. Creatable(p, r)
    BY <1>1, Zenon DEF sys_open_create
  <2> DEFINE e == Entry(p[Len(p)], n, "FT_REGULAR")
  <2>3. MayEnter(D, d, n, e, "FT_REGULAR")
    BY <1>0, <2>1, <2>2, CreatableName
  <2>4. Enter(d, e, inode_init(n), {}, blocks)
    BY <2>1
  <2>5. e.f_type = "FT_REGULAR"
    BY DEF Entry
  <2> HIDE DEF e, d
  <2>6. MayEnter(D, d, n, e, e.f_type) /\ NewInode(n, d, e.f_type, inode_init(n), {}, blocks)
    BY <2>3, <2>5 DEF NewInode
  <2>7. Entering(D, d)
    BY <2>4, <2>6, Zenon DEF Entering
  <2> QED BY <2>7 DEF d
<1>2. CASE sys_mkdir(p)
  <2> DEFINE i(n, b) == [inode_init(n) EXCEPT !.i_size = 2, !.i_block[0] = b]
             image(n, b) == [blocks EXCEPT ![b] = DotBlock(n, inode_at(d).i_no)]
  <2>1. PICK n \in Inodes, b \in Blocks :
          /\ IsLowestFree(n, inodeBitmap, Inodes) /\ IsLowestFree(b, blockBitmap, Blocks)
          /\ Enter(d, Entry(p[Len(p)], n, "FT_DIRECTORY"), i(n, b), {b}, image(n, b))
    BY <1>2, Zenon DEF sys_mkdir
  <2>2. Creatable(p, r)
    BY <1>2, Zenon DEF sys_mkdir
  <2> DEFINE e == Entry(p[Len(p)], n, "FT_DIRECTORY")
  <2>3. MayEnter(D, d, n, e, "FT_DIRECTORY")
    BY <1>0, <2>1, <2>2, CreatableName
  <2>4. Enter(d, e, i(n, b), {b}, image(n, b))
    BY <2>1
  <2>5. e.f_type = "FT_DIRECTORY"
    BY DEF Entry
  <2> HIDE DEF e, d
  <2>6. inode_at(d).i_no = d
    <3>1. d \in inodeBitmap
      BY <2>3, Zenon DEF MayEnter
    <3> QED BY <3>1, InodeAtIsTable DEF Sound, Numbered
  <2>7. NewInode(n, d, e.f_type, i(n, b), {b}, image(n, b))
    <3>1. b \in Blocks \ blockBitmap
      BY <2>1 DEF IsLowestFree
    <3> QED BY <2>5, <2>6, <3>1 DEF NewInode
  <2> HIDE DEF i, image
  <2>8. MayEnter(D, d, n, e, e.f_type)
    BY <2>3, <2>5
  <2>9. Entering(D, d)
    BY <2>4, <2>7, <2>8, Zenon DEF Entering
  <2> QED BY <2>9 DEF d
<1> QED BY <1>1, <1>2

LEMMA CreatesBrings ==
    ASSUME TreeInv, TreeInv', Usable, NEW p \in CreatePaths \cup MkdirPaths,
           (sys_open_create(p) /\ p \in CreatePaths) \/ (sys_mkdir(p) /\ p \in MkdirPaths)
    PROVE  Brings(Disk(inodeBitmap, blockBitmap, inodeTable, blocks),
                  CreationWrites(search_file(p).parent_dir),
                  Disk(inodeBitmap', blockBitmap', inodeTable', blocks'))
<1> DEFINE d == search_file(p).parent_dir
<1>1. IInv /\ Sound /\ DiskType /\ DiskType'
  BY DEF TreeInv, IInv
<1>2. PICK D, up, place, depth : InTree(D, up, place, depth)
  BY DEF TreeInv
<1>3. Entering(D, d)
  BY <1>1, <1>2, CreatesEnter
<1> HIDE DEF d
<1>4. PICK n, e, i, own, image :
          /\ MayEnter(D, d, n, e, e.f_type) /\ NewInode(n, d, e.f_type, i, own, image)
          /\ Enter(d, e, i, own, image)
  BY <1>3 DEF Entering
<1>5. d \in D /\ n \in Inodes \ inodeBitmap /\ e \in Entries
  BY <1>4, Zenon DEF MayEnter
<1>6. PICK b, pos : Made(d, n, b, own) /\ Placed(D, d, pos, b, e)
  BY <1>1, <1>2, <1>4, <1>5, EnterMade
<1>7. Brings(Disk(inodeBitmap, blockBitmap, inodeTable, blocks), CreationWrites(d),
             Disk(inodeBitmap', blockBitmap', inodeTable', blocks'))
  BY <1>1, <1>6, CreationBrings
<1> QED BY <1>7 DEF d

-----------------------------------------------------------------------------
(* A write.                                                                *)

(* The blocks of the directories in D.                                     *)
DirBlocks(t, D) == {At(t, d, k) : d \in D, k \in BlockIdx} \ {NoBlock}

(* What the call changed: the inode n of a file, which loses no block, and *)
(* blocks addr[k] that are no directory's.                                 *)
Grown(D, n, m, addr, writes) ==
    /\ n \in inodeBitmap \ D /\ inodeBitmap' = inodeBitmap /\ blockBitmap \subseteq blockBitmap'
    /\ inodeTable' = [inodeTable EXCEPT ![n] = inodeTable'[n]]
    /\ \A k \in BlockIdx : At(inodeTable', n, k) = NoBlock => At(inodeTable, n, k) = NoBlock
    /\ m \in Nat /\ \A k \in 1 .. m : addr[k] \notin DirBlocks(inodeTable, D)
    /\ Covered(addr, m, blocks', blocks) = blocks'
    /\ writes = SyncBlockBits(Increasing(blockBitmap' \ blockBitmap), blockBitmap)
                    \o [k \in 1 .. m |-> Write("blocks", addr[k], blocks'[addr[k]])]
                    \o <<SyncInode(n)>>

LEMMA WritesMade ==
    ASSUME TreeInv, TreeInv', Usable, NEW D, NEW up, NEW place, NEW depth, InTree(D, up, place, depth),
           NEW f \in OF!Fds, NEW count \in WriteCounts, sys_write(f, count)
    PROVE  \E n, m, addr :
               Grown(D, n, m, addr, WritingWrites(contents[fileTable[fdTable[f]]], count))
<1> DEFINE ib == inodeBitmap
           bb == blockBitmap
           bb2 == blockBitmap'
           t == inodeTable
           t2 == inodeTable'
           bl == blocks
           bl2 == blocks'
           a == fileTable[fdTable[f]]
           n == open_inodes.object[a].i_no
           i == contents[a]
           K == Missing(i, count)
           T == Touched(i, count)
<1>2. /\ IInv /\ Sound /\ bb \subseteq Blocks /\ bb2 \subseteq Blocks
      /\ t \in [Inodes -> InodeImages] /\ t2 \in [Inodes -> InodeImages]
      /\ bl \in [Blocks -> [EntryIdx -> Entries]] /\ bl2 \in [Blocks -> [EntryIdx -> Entries]]
  BY DEF TreeInv, IInv, DiskType
<1>3. n \in ib /\ n \in Inodes /\ n \notin D /\ i = t[n] /\ t[n].i_no = n /\ i \in InodeImages
  <2>1. f \in OF!OpenFds
    BY Zenon DEF sys_write
  <2>2. f \in OFP!Fds /\ fdTable[f] # -1
    BY <2>1, SameSets DEF OF!OpenFds, OF!FreeFds
  <2>3. fdTable[f] = f /\ f \in OFP!Slots /\ fileTable[f] # NULL
    BY <1>2, <2>2, OpenFacts, OFAssumptions DEF OFP!FdsHold, OFP!DescriptorsWired
  <2>4. a \in OFP!Live(open_inodes) /\ n \notin D
    BY <2>3 DEF InTree, HoldsFiles
  <2>5. n \in ib /\ i = t[n]
    BY <1>2, <2>4 DEF Sound, Cached
  <2>6. ib \subseteq Inodes
    BY <1>2 DEF IInv, DiskType
  <2>7. t[n].i_no = n
    BY <1>2, <2>5 DEF Sound, Numbered
  <2> HIDE DEF a, n, i
  <2> QED BY <1>2, <2>4, <2>5, <2>6, <2>7
<1>4. PICK new \in [K -> Blocks \ bb] :
        LET block == [k \in BlockIdx |-> IF k \in K THEN new[k] ELSE i.i_block[k]]
            j == [i EXCEPT !.i_size = @ + count, !.i_block = block]
            taken == {new[k] : k \in K}
        IN  /\ bb2 = bb \cup taken
            /\ bl2 = [b \in Blocks |-> IF \E k \in T : block[k] = b THEN DataBlock ELSE bl[b]]
            /\ t2 = inode_sync(t, j)
  BY Zenon DEF sys_write
<1>5. inodeBitmap' = ib /\ Writable(i, count)
  BY Zenon DEF sys_write
<1> DEFINE block == [k \in BlockIdx |-> IF k \in K THEN new[k] ELSE i.i_block[k]]
           j == [i EXCEPT !.i_size = @ + count, !.i_block = block]
           taken == {new[k] : k \in K}
<1> HIDE DEF a, n, i, K, T, taken, block
<1>6. j = [i_no |-> n, i_size |-> i.i_size + count, i_block |-> block]
  <2> DEFINE m == i.i_size + count
  <2>1. j = [i EXCEPT !.i_size = m, !.i_block = block]
    OBVIOUS
  <2> HIDE DEF m, j
  <2>2. j = [i_no |-> i.i_no, i_size |-> m, i_block |-> block]
    BY <1>3, <2>1, WrittenImage
  <2> QED BY <1>3, <2>2 DEF m
<1> HIDE DEF j
<1>7. /\ bb2 = bb \cup taken /\ t2 = [t EXCEPT ![n] = j] /\ t2[n] = j
      /\ bl2 = [b \in Blocks |-> IF \E k \in T : block[k] = b THEN DataBlock ELSE bl[b]]
  <2>1. /\ bb2 = bb \cup taken /\ t2 = inode_sync(t, j)
        /\ bl2 = [b \in Blocks |-> IF \E k \in T : block[k] = b THEN DataBlock ELSE bl[b]]
    BY <1>4 DEF taken, j, block
  <2>2. inode_sync(t, j) = [t EXCEPT ![n] = j]
    BY <1>3, <1>6, SyncSlot
  <2> QED BY <1>2, <1>3, <2>1, <2>2
<1>8. T \subseteq BlockIdx
  <2>1. i.i_size \in Nat /\ i.i_size \div BlockSize \in BlockIdx
    BY <1>3 DEF InTree, Tree, FilesRight
  <2>2. count \in Nat \ {0}
    BY InputsAssumption
  <2> QED BY <1>5, <2>1, <2>2, WriteIndexes DEF T
<1> DEFINE s == Increasing(bb2 \ bb)
           touched == Increasing(T)
           addr == [k \in DOMAIN touched |-> block[touched[k]]]
           W1 == SyncBlockBits(s, bb)
           W2 == [k \in DOMAIN touched |-> WriteBlock(addr[k])]
           W3 == <<SyncInode(n)>>
<1>9. WritingWrites(i, count) = W1 \o W2 \o W3
  <2>1. i.i_no = n /\ t2[i.i_no].i_block = block
    BY <1>3, <1>6, <1>7
  <2>2. WritingWrites(i, count) = W1 \o [k \in DOMAIN touched |-> WriteBlock(t2[i.i_no].i_block[touched[k]])]
                                     \o <<SyncInode(i.i_no)>>
    BY Zenon DEF WritingWrites, T
  <2>3. [k \in DOMAIN touched |-> WriteBlock(block[touched[k]])] = W2
    <3> HIDE DEF touched
    <3> QED OBVIOUS
  <2> HIDE DEF W1, W2, touched
  <2> QED BY <2>1, <2>2, <2>3
<1>10. /\ Len(touched) \in Nat /\ DOMAIN touched = 1 .. Len(touched)
       /\ \A x \in T : \E k \in 1 .. Len(touched) : touched[k] = x
       /\ \A k \in 1 .. Len(touched) : touched[k] \in T
  <2>1. IsFiniteSet(T) /\ T \subseteq Int
    <3>1. IsFiniteSet(BlockIdx) /\ BlockIdx \subseteq Int
      BY FS_Interval, SizesAssumption DEF BlockIdx
    <3> QED BY <1>8, <3>1, FS_Subset
  <2>2. /\ touched \in Seq(T) /\ DOMAIN touched = 1 .. Len(touched)
        /\ \A x \in T : \E k \in 1 .. Len(touched) : touched[k] = x
        /\ \A k \in 1 .. Len(touched) : touched[k] \in T
    BY <2>1, IncreasingFacts
  <2> QED BY <2>2, LenProperties
<1> DEFINE m == Len(touched)
<1> HIDE DEF touched
<1>11. W2 = [k \in 1 .. m |-> Write("blocks", addr[k], bl2[addr[k]])]
  BY <1>10, Zenon DEF WriteBlock
<1>12. \A k \in 1 .. m : addr[k] = block[touched[k]]
  BY <1>10
<1> HIDE DEF addr, W1, W2, W3
<1>13. Covered(addr, m, bl2, bl) = bl2
  <2>1. ASSUME NEW b \in Blocks
        PROVE  (IF \E k \in 1 .. m : addr[k] = b THEN bl2[b] ELSE bl[b]) = bl2[b]
    <3>1. (\E k \in T : block[k] = b) => \E k \in 1 .. m : addr[k] = b
      BY <1>10, <1>12
    <3> QED BY <1>7, <3>1
  <2>2. bl2 = [b \in Blocks |-> bl2[b]]
    BY <1>2
  <2> HIDE DEF bl2
  <2> QED BY <2>1, <2>2 DEF Covered
<1>14. \A k \in BlockIdx : block[k] = IF k \in K THEN new[k] ELSE At(t, n, k)
  BY <1>3 DEF block, At
<1>15. \A k \in BlockIdx : At(t2, n, k) = NoBlock => At(t, n, k) = NoBlock
  <2>1. t2[n].i_block = block
    BY <1>6, <1>7
  <2>2. \A k \in BlockIdx : At(t2, n, k) = block[k]
    BY <2>1 DEF At
  <2>3. \A k \in K : new[k] # NoBlock
    BY DEF NoBlock, Blocks
  <2> QED BY <1>14, <2>2, <2>3
<1>16. ASSUME NEW k \in BlockIdx PROVE block[k] \notin DirBlocks(t, D)
  <2>1. D \subseteq ib /\ OneOwner(ib, t) /\ OwnedUsed(ib, bb, t)
    BY <1>2 DEF InTree, Tree, TreeType, Sound, Owned
  <2> SUFFICES ASSUME NEW d \in D, NEW l \in BlockIdx, At(t, d, l) # NoBlock PROVE block[k] # At(t, d, l)
    BY DEF DirBlocks
  <2>2. d \in ib /\ d # n /\ At(t, d, l) \in bb
    BY <1>3, <2>1 DEF OwnedUsed
  <2>3. CASE k \in K
    <3>1. new[k] \notin bb /\ block[k] = new[k]
      BY <1>14, <2>3
    <3> QED BY <2>2, <3>1
  <2>4. CASE k \notin K
    <3>1. block[k] = At(t, n, k)
      BY <1>14, <2>4
    <3>2. At(t, d, l) = At(t, n, k) => d = n
      BY <1>3, <2>1, <2>2 DEF OneOwner
    <3> QED BY <2>2, <3>1, <3>2
  <2> QED BY <2>3, <2>4
<1>17. \A k \in 1 .. m : addr[k] \notin DirBlocks(t, D)
  BY <1>8, <1>10, <1>12, <1>16
<1>18. WritingWrites(i, count) = W1 \o [k \in 1 .. m |-> Write("blocks", addr[k], bl2[addr[k]])] \o W3
  BY <1>9, <1>11
<1>19. t2 = [t EXCEPT ![n] = t2[n]] /\ bb \subseteq bb2
  BY <1>7
<1> HIDE DEF t, t2, bl, bl2, m
<1>20. Grown(D, n, m, addr, WritingWrites(i, count))
  <2>1. m \in Nat
    BY <1>10 DEF m
  <2> QED BY <1>3, <1>5, <1>13, <1>15, <1>17, <1>18, <1>19, <2>1 DEF Grown, W1, W3, t, t2, bl, bl2, s
<1> QED BY <1>20 DEF i, a

LEMMA WritesBrings ==
    ASSUME TreeInv, TreeInv', Usable, NEW f \in OF!Fds, NEW count \in WriteCounts, sys_write(f, count)
    PROVE  Brings(Disk(inodeBitmap, blockBitmap, inodeTable, blocks),
                  WritingWrites(contents[fileTable[fdTable[f]]], count),
                  Disk(inodeBitmap', blockBitmap', inodeTable', blocks'))
<1> DEFINE ib == inodeBitmap
           bb == blockBitmap
           bb2 == blockBitmap'
           t == inodeTable
           t2 == inodeTable'
           bl == blocks
           bl2 == blocks'
           writes == WritingWrites(contents[fileTable[fdTable[f]]], count)
<1>1. PICK D, up, place, depth : InTree(D, up, place, depth)
  BY DEF TreeInv
<1>2. /\ bb \subseteq Blocks /\ bb2 \subseteq Blocks /\ bl \in [Blocks -> [EntryIdx -> Entries]]
  BY DEF TreeInv, IInv, DiskType
<1>3. PICK n, m, addr : Grown(D, n, m, addr, writes)
  BY <1>1, WritesMade
<1> HIDE DEF writes
<1> DEFINE W1 == SyncBlockBits(Increasing(bb2 \ bb), bb)
           W2 == [k \in 1 .. m |-> Write("blocks", addr[k], bl2[addr[k]])]
           W3 == <<SyncInode(n)>>
<1>4. writes = W1 \o W2 \o W3 /\ inodeBitmap' = ib
  BY <1>3, Zenon DEF Grown
<1>5. Brings(Disk(ib, bb, t, bl), W1, Disk(ib, bb2, t, bl))
  <2> DEFINE S == bb2 \ bb
  <2>1. S \in SUBSET Blocks /\ S \cap bb = {} /\ bb \cup S = bb2
    BY <1>2, <1>3 DEF Grown
  <2> HIDE DEF S
  <2>2. Brings(Disk(ib, bb, t, bl), SyncBlockBits(Increasing(S), bb), Disk(ib, bb \cup S, t, bl))
    BY <1>2, <2>1, BringsTaken
  <2> QED BY <2>1, <2>2 DEF S
<1>6. Brings(Disk(ib, bb2, t, bl), W2, Disk(ib, bb2, t, bl2))
  <2>1. bl = [b \in Blocks |-> bl[b]] /\ m \in Nat /\ Covered(addr, m, bl2, bl) = bl2
    BY <1>2, <1>3 DEF Grown
  <2> HIDE DEF bl, bl2
  <2>2. Brings(Disk(ib, bb2, t, bl), [k \in 1 .. m |-> Write("blocks", addr[k], bl2[addr[k]])],
               Disk(ib, bb2, t, Covered(addr, m, bl2, bl)))
    BY <2>1, BringsBlocks
  <2> QED BY <2>1, <2>2
<1>7. Brings(Disk(ib, bb2, t, bl2), W3, Disk(ib, bb2, t2, bl2))
  <2> DEFINE x == Disk(ib, bb2, t, bl2)
             y == Disk(ib, bb2, t2, bl2)
  <2>1. t2 = [t EXCEPT ![n] = t2[n]]
    BY <1>3 DEF Grown
  <2>2. y = write_blocks_to_disk(x, SyncInode(n))
    BY <2>1, WritesSlot DEF SyncInode
  <2> HIDE DEF x, y
  <2>3. Brings(x, <<SyncInode(n)>>, y)
    BY <2>2, BringsOne
  <2> QED BY <2>3 DEF x, y
<1> HIDE DEF W1, W2, W3
<1>8. Brings(Disk(ib, bb, t, bl), W1 \o W2, Disk(ib, bb2, t, bl2))
  BY <1>5, <1>6, BringsBoth
<1>9. Brings(Disk(ib, bb, t, bl), W1 \o W2 \o W3, Disk(ib, bb2, t2, bl2))
  BY <1>7, <1>8, BringsBoth
<1> QED BY <1>4, <1>9 DEF writes

-----------------------------------------------------------------------------
(* A removal.                                                              *)

(* Directory d has an entry less, and its block b at x if that is kept.    *)
Loosens(d, x, b, back) ==
    LET v == IF back = {} THEN b ELSE NoBlock
    IN  /\ At(inodeTable, d, x) = b
        /\ inodeTable'[d] = [inodeTable[d] EXCEPT !.i_size = @ - 1, !.i_block[x] = v]

(* What the call changed: the entry of inode n in block b of directory d,  *)
(* or that block, given back, and the inode n with its blocks in own.      *)
Removed(d, n, b, back, own) ==
    /\ n \in Inodes /\ inodeBitmap' = inodeBitmap \ {n}
    /\ inode_at(n) = inodeTable[n]
    /\ own = {inodeTable[n].i_block[k] : k \in BlockIdx} \ {NoBlock}
    /\ back \subseteq {b} /\ b \in blockBitmap /\ own \subseteq blockBitmap /\ b \notin own
    /\ blockBitmap' = blockBitmap \ (back \cup own)
    /\ inodeTable' = [[inodeTable EXCEPT ![d] = inodeTable'[d]] EXCEPT ![n] = ZeroInode]
    /\ blocks' = IF back = {} THEN [blocks EXCEPT ![b] = blocks'[b]] ELSE blocks
    /\ \E x \in BlockIdx : Loosens(d, x, b, back)
    /\ UnlinkWrites(d, n) =
           (IF back = {} THEN <<WriteBlock(b)>> ELSE SyncBlockBits(<<b>>, blockBitmap))
               \o <<SyncInode(d)>>

(* The blocks of inode n, by index.                                        *)
Addresses(n) ==
    LET held == Increasing({k \in BlockIdx : inodeTable[n].i_block[k] # NoBlock})
    IN  [j \in DOMAIN held |-> inodeTable[n].i_block[held[j]]]

LEMMA AddressesFacts ==
    ASSUME NEW n, NEW own \in SUBSET Blocks, own = {inodeTable[n].i_block[k] : k \in BlockIdx} \ {NoBlock}
    PROVE  /\ Addresses(n) \in Seq(Blocks)
           /\ \A k \in 1 .. Len(Addresses(n)) : Addresses(n)[k] \in own
           /\ \A y \in own : \E k \in 1 .. Len(Addresses(n)) : Addresses(n)[k] = y
<1> DEFINE t == inodeTable
           H == {k \in BlockIdx : t[n].i_block[k] # NoBlock}
           held == Increasing(H)
           addr == [j \in DOMAIN held |-> t[n].i_block[held[j]]]
           m == Len(held)
<1>1. IsFiniteSet(H) /\ H \subseteq Int
  <2>1. IsFiniteSet(BlockIdx) /\ BlockIdx \subseteq Int
    BY FS_Interval, SizesAssumption DEF BlockIdx
  <2> QED BY <2>1, FS_Subset
<1>2. addr = Addresses(n)
  BY Zenon DEF Addresses
<1>3. /\ \A k \in H : t[n].i_block[k] \in own
      /\ \A y \in own : \E k \in H : t[n].i_block[k] = y
  OBVIOUS
<1> HIDE DEF H
<1>4. /\ held \in Seq(H) /\ DOMAIN held = 1 .. m
      /\ \A y \in H : \E k \in 1 .. m : held[k] = y
      /\ \A k \in 1 .. m : held[k] \in H
  BY <1>1, IncreasingFacts
<1>5. m \in Nat
  BY <1>4, LenProperties
<1> HIDE DEF held
<1>6. \A k \in 1 .. m : addr[k] = t[n].i_block[held[k]]
  BY <1>4
<1>7. addr = [k \in 1 .. m |-> addr[k]]
  BY <1>4
<1> HIDE DEF addr, m
<1>8. /\ \A k \in 1 .. m : addr[k] \in own
      /\ \A y \in own : \E k \in 1 .. m : addr[k] = y
  <2>1. ASSUME NEW k \in 1 .. m PROVE addr[k] \in own
    <3>1. held[k] \in H /\ addr[k] = t[n].i_block[held[k]]
      BY <1>4, <1>6
    <3> QED BY <1>3, <3>1
  <2>2. ASSUME NEW y \in own PROVE \E k \in 1 .. m : addr[k] = y
    <3>1. PICK h \in H : t[n].i_block[h] = y
      BY <1>3
    <3>2. PICK k \in 1 .. m : held[k] = h
      BY <1>4
    <3> QED BY <1>6, <3>1, <3>2
  <2> QED BY <2>1, <2>2
<1>9. addr \in Seq(Blocks) /\ Len(addr) = m
  BY <1>5, <1>7, <1>8
<1> QED BY <1>2, <1>8, <1>9

LEMMA RemovalParts ==
    ASSUME NEW d, NEW n, NEW b, NEW back, NEW own, Removed(d, n, b, back, own), NoBlock \notin blockBitmap
    PROVE  RemovalWrites(d, n) =
               UnlinkWrites(d, n) \o ReleaseWrites(n, Addresses(n), blockBitmap \ back)
<1> DEFINE t == inodeTable
           given == (blockBitmap \ blockBitmap') \ {t[n].i_block[k] : k \in BlockIdx}
           held == Increasing({k \in BlockIdx : t[n].i_block[k] # NoBlock})
           addr == [j \in DOMAIN held |-> t[n].i_block[held[j]]]
<1>1. given = back
  BY DEF Removed
<1>2. inode_at(n) = t[n]
  BY Zenon DEF Removed
<1> HIDE DEF given
<1>3. RemovalWrites(d, n) = UnlinkWrites(d, n) \o ReleaseWrites(n, addr, blockBitmap \ given)
  BY <1>2, Zenon DEF RemovalWrites, given
<1>4. addr = Addresses(n)
  BY Zenon DEF Addresses
<1> HIDE DEF addr
<1> QED BY <1>1, <1>3, <1>4

(* A removal's first write w, of the entry or the bit of its block.        *)
Loosening(b, back, w) ==
    /\ (IF back = {} THEN <<WriteBlock(b)>> ELSE SyncBlockBits(<<b>>, blockBitmap)) = <<w>>
    /\ w.part = IF back = {} THEN "blocks" ELSE "blockBitmap"
    /\ Disk(inodeBitmap, blockBitmap \ back, inodeTable, blocks')
           = write_blocks_to_disk(Disk(inodeBitmap, blockBitmap, inodeTable, blocks), w)

LEMMA FirstRemoval ==
    ASSUME DiskType, NEW d, NEW n, NEW b, NEW back, NEW own, Removed(d, n, b, back, own)
    PROVE  \E w : Loosening(b, back, w)
<1> DEFINE ib == inodeBitmap
           bb == blockBitmap
           t == inodeTable
           bl == blocks
           bl2 == blocks'
           x == Disk(ib, bb, t, bl)
           y == Disk(ib, bb \ back, t, bl2)
<1>1. bb \subseteq Blocks /\ back \subseteq {b} /\ b \in bb
  BY DEF Removed, DiskType
<1>2. CASE back # {}
  <2> DEFINE q == <<b>>
             S == {b}
             v == Flipped(q, 1, bb)
             w == Write("blockBitmap", b, v)
  <2>1. /\ back = S /\ S \in SUBSET Blocks /\ S \subseteq bb /\ q \in Seq(Blocks)
        /\ Len(q) = 1 /\ q[1] = b /\ DOMAIN q = 1 .. 1
    BY <1>1, <1>2
  <2>2. bl2 = bl
    BY <1>2, Zenon DEF Removed
  <2>3. /\ \A k \in S : \E j \in 1 .. Len(q) : q[j] = k
        /\ \A j \in 1 .. Len(q) : q[j] \in S
    BY <2>1
  <2> HIDE DEF q, S, v
  <2>4. Brings(x, SyncBlockBits(q, bb), Disk(ib, bb \ S, t, bl))
    BY <1>1, <2>1, <2>3, BringsGiven
  <2>5. SyncBlockBits(q, bb) = <<w>>
    <3>1. SyncBlockBits(q, bb) = [j \in 1 .. 1 |-> Write("blockBitmap", q[j], Flipped(q, j, bb))]
      BY <2>1, Zenon DEF SyncBlockBits, Flipped
    <3>2. \A j \in 1 .. 1 : Write("blockBitmap", q[j], Flipped(q, j, bb)) = w
      <4>1. \A j \in 1 .. 1 : j = 1
        OBVIOUS
      <4> QED BY <2>1, <4>1 DEF v
    <3> HIDE DEF w
    <3>3. SyncBlockBits(q, bb) = [j \in 1 .. 1 |-> w]
      BY <3>1, <3>2
    <3> QED BY <3>3
  <2>6. Disk(ib, bb \ S, t, bl) = y
    BY <2>1, <2>2
  <2>7. w.part = "blockBitmap"
    BY DEF Write
  <2> HIDE DEF w, x, y
  <2>8. y = write_blocks_to_disk(x, w)
    <3>1. Brings(x, <<w>>, y)
      BY <2>4, <2>5, <2>6
    <3>2. Len(<<w>>) = 1 /\ <<w>>[1] = w /\ 1 \in 1 .. 1 /\ 1 - 1 = 0
      OBVIOUS
    <3> QED BY <3>1, <3>2 DEF Brings
  <2>9. Loosening(b, back, w)
    BY <1>2, <2>5, <2>7, <2>8 DEF q, x, y, Loosening
  <2> QED BY <2>9
<1>3. CASE back = {}
  <2> DEFINE w == WriteBlock(b)
  <2>1. bl2 = [bl EXCEPT ![b] = bl2[b]]
    BY <1>3, Zenon DEF Removed
  <2>2. bb \ back = bb
    BY <1>3
  <2>3. y = write_blocks_to_disk(x, w)
    BY <2>1, <2>2, WritesBlock DEF WriteBlock
  <2>4. w.part = "blocks"
    BY DEF WriteBlock, Write
  <2> HIDE DEF w, x, y
  <2>5. Loosening(b, back, w)
    BY <1>3, <2>3, <2>4 DEF w, x, y, Loosening
  <2> QED BY <2>5
<1> QED BY <1>2, <1>3

LEMMA RemovalBrings ==
    ASSUME DiskType, DiskType', NEW d, NEW n, NEW b, NEW back, NEW own,
           Removed(d, n, b, back, own)
    PROVE  Brings(Disk(inodeBitmap, blockBitmap, inodeTable, blocks), RemovalWrites(d, n),
                  Disk(inodeBitmap', blockBitmap', inodeTable', blocks'))
<1> DEFINE ib == inodeBitmap
           ib2 == inodeBitmap'
           bb == blockBitmap
           bb2 == blockBitmap'
           t == inodeTable
           t2 == inodeTable'
           bl == blocks
           bl2 == blocks'
           s == [t EXCEPT ![d] = t2[d]]
           mem == bb \ back
           addr == Addresses(n)
           W1 == IF back = {} THEN <<WriteBlock(b)>> ELSE SyncBlockBits(<<b>>, bb)
           W2 == <<SyncInode(d)>>
           W3 == SyncBlockBits(addr, mem)
           W4 == <<Write("inodeBitmap", n, ib2), Write("inodeTable", n, ZeroInode)>>
<1>1. /\ bb \subseteq Blocks /\ t \in [Inodes -> InodeImages] /\ n \in Inodes
      /\ bl \in [Blocks -> [EntryIdx -> Entries]] /\ NoBlock \notin Blocks
      /\ own = {t[n].i_block[k] : k \in BlockIdx} \ {NoBlock} /\ own \subseteq bb
      /\ NoBlock \notin bb /\ bb2 = bb \ (back \cup own) /\ back \subseteq {b} /\ b \in bb /\ b \notin own
      /\ ib2 = ib \ {n}
  BY DEF Removed, DiskType, NoBlock, Blocks
<1>2. RemovalWrites(d, n) = (W1 \o W2) \o (W3 \o W4)
  <2> DEFINE U == UnlinkWrites(d, n)
             A == ReleaseWrites(n, addr, mem)
  <2>1. RemovalWrites(d, n) = U \o A
    BY <1>1, RemovalParts
  <2>2. A = W3 \o W4
    BY Zenon DEF ReleaseWrites
  <2>3. U = W1 \o W2
    BY Zenon DEF Removed
  <2> HIDE DEF U, A, W1, W2, W3, W4
  <2> QED BY <2>1, <2>2, <2>3
<1>3. Brings(Disk(ib, bb, t, bl), W1, Disk(ib, mem, t, bl2))
  <2> DEFINE x == Disk(ib, bb, t, bl)
             y == Disk(ib, mem, t, bl2)
  <2>1. PICK w : Loosening(b, back, w)
    BY FirstRemoval
  <2>3. W1 = <<w>> /\ y = write_blocks_to_disk(x, w)
    BY <2>1 DEF Loosening
  <2> HIDE DEF x, y, W1
  <2>2. Brings(x, <<w>>, y)
    BY <2>3, BringsOne
  <2> QED BY <2>2, <2>3 DEF x, y
<1>4. Brings(Disk(ib, mem, t, bl2), W2, Disk(ib, mem, s, bl2))
  <2> DEFINE y == Disk(ib, mem, t, bl2)
             z == Disk(ib, mem, s, bl2)
             w == SyncInode(d)
  <2>1. z = write_blocks_to_disk(y, w)
    BY WritesSlot DEF SyncInode
  <2> HIDE DEF y, z, w
  <2>2. Brings(y, <<w>>, z)
    BY <2>1, BringsOne
  <2> QED BY <2>2 DEF y, z, w
<1>5. Brings(Disk(ib, mem, s, bl2), W3, Disk(ib, bb2, s, bl2))
  <2>1. mem \in SUBSET Blocks /\ own \in SUBSET Blocks /\ own \subseteq mem /\ bb2 = mem \ own
    BY <1>1
  <2>2. /\ addr \in Seq(Blocks) /\ \A k \in 1 .. Len(addr) : addr[k] \in own
        /\ \A y \in own : \E k \in 1 .. Len(addr) : addr[k] = y
    BY <1>1, <2>1, AddressesFacts
  <2> HIDE DEF addr, mem, s
  <2>3. Brings(Disk(ib, mem, s, bl2), SyncBlockBits(addr, mem), Disk(ib, mem \ own, s, bl2))
    BY <2>1, <2>2, BringsGiven
  <2> QED BY <2>1, <2>3
<1>6. Brings(Disk(ib, bb2, s, bl2), W4, Disk(ib2, bb2, t2, bl2))
  <2> DEFINE y1 == Disk(ib, bb2, s, bl2)
             y2 == Disk(ib2, bb2, s, bl2)
             y3 == Disk(ib2, bb2, t2, bl2)
             v == Write("inodeBitmap", n, ib2)
             w == Write("inodeTable", n, ZeroInode)
  <2>1. ib2 = bitmap_sync(ib2, ib, {n})
    <3>1. \A y \in ib2 \cup ib : y \in {n} \/ (y \in ib2 <=> y \in ib)
      BY <1>1
    <3> QED BY <3>1, SyncAll
  <2>2. y2 = write_blocks_to_disk(y1, v)
    BY <2>1, WritesInodeBit
  <2>3. t2 = [s EXCEPT ![n] = ZeroInode]
    BY Zenon DEF Removed
  <2> HIDE DEF s, t2, bb2, bl2, ib2
  <2>4. y3 = write_blocks_to_disk(y2, w)
    <3> DEFINE Z == ZeroInode
    <3>1. t2 = [s EXCEPT ![n] = Z]
      BY <2>3
    <3> HIDE DEF Z
    <3>2. \A a, c, u, l : write_blocks_to_disk(Disk(a, c, s, l), Write("inodeTable", n, Z))
                               = Disk(a, c, t2, l)
      BY <3>1 DEF write_blocks_to_disk, Disk, Write
    <3> QED BY <3>2, Zenon DEF Z
  <2> HIDE DEF y1, y2, y3, v, w
  <2>5. Brings(y1, <<v, w>>, y3)
    BY <2>2, <2>4, BringsTwo
  <2> QED BY <2>5 DEF y1, y3, v, w
<1> HIDE DEF W1, W2, W3, W4, s, mem
<1>7. Brings(Disk(ib, bb, t, bl), W1 \o W2, Disk(ib, mem, s, bl2))
  BY <1>3, <1>4, BringsBoth
<1>8. Brings(Disk(ib, mem, s, bl2), W3 \o W4, Disk(ib2, bb2, t2, bl2))
  BY <1>5, <1>6, BringsBoth
<1>9. Brings(Disk(ib, bb, t, bl), (W1 \o W2) \o (W3 \o W4), Disk(ib2, bb2, t2, bl2))
  BY <1>7, <1>8, BringsBoth
<1> QED BY <1>2, <1>9

LEMMA RemovalMade ==
    ASSUME IInv, Sound, DiskType', Usable,
           NEW D, NEW up, NEW place, NEW depth, InTree(D, up, place, depth),
           NEW n \in inodeBitmap, n # Root, Remove(up[n], n)
    PROVE  \E b, back, own : Removed(up[n], n, b, back, own)
<1> DEFINE t == inodeTable
           t2 == inodeTable'
           bl == blocks
           bl2 == blocks'
           ib == inodeBitmap
           bb == blockBitmap
           d == up[n]
           pos == place[n]
           x == pos[1]
           y == pos[2]
           b == t[d].i_block[x]
           reclaims == Reclaims(b, y)
           back == IF reclaims THEN {b} ELSE {}
           own == {t[n].i_block[k] : k \in BlockIdx} \ {NoBlock}
<1>1. /\ Tree(ib, D, up, place, depth, t, bl)
      /\ OneOwner(ib, t) /\ OwnedUsed(ib, bb, t)
      /\ D \subseteq ib /\ ib \subseteq Inodes /\ n \in Inodes /\ d \in D /\ d \in ib /\ d \in Inodes
      /\ t \in [Inodes -> InodeImages] /\ bb \subseteq Blocks
      /\ bl \in [Blocks -> [EntryIdx -> Entries]]
      /\ t2 \in [Inodes -> InodeImages]
      /\ t[d].i_no = d /\ t[d] \in InodeImages
  BY DEF IInv, DiskType, InTree, Sound, Owned, Tree, TreeType, Numbered
<1>2. d # n
  <2>1. n \in D => depth[n] = depth[d] + 1 /\ depth[d] \in Nat
    BY <1>1 DEF Tree, DepthsRight, TreeType
  <2> QED BY <1>1, <2>1
<1>3. pos \in Positions /\ x \in BlockIdx /\ y \in EntryIdx /\ pos \in Used(t, bl, d)
      /\ b = At(t, d, x) /\ b # NoBlock
  <2>1. pos \in Used(t, bl, d) /\ pos \in Positions
    BY <1>1 DEF Tree, HomesRight, Used
  <2> QED BY <2>1, PositionParts DEF Used, Has, At
<1>4. inode_at(d) = t[d] /\ inode_at(n) = t[n]
  BY InodeAtIsTable DEF Sound
<1>5. EntriesOf(t[d], n) = {pos} /\ Deletable({pos}) /\ First({pos}) = pos
  <2> HIDE DEF d, pos, b, reclaims, back, own, t, bl, ib
  <2>0. Tree(ib, D, up, place, depth, t, blocks) /\ n \in ib
    BY <1>1 DEF bl, ib
  <2>1. EntriesOf(t[up[n]], n) = {place[n]} /\ Deletable({place[n]}) /\ First({place[n]}) = place[n]
    BY <2>0, OneEntry
  <2> QED BY <2>1 DEF d, pos
<1>6. b \in bb /\ own \subseteq bb /\ b \notin own
  <2>1. ASSUME NEW k \in BlockIdx, t[n].i_block[k] # NoBlock
        PROVE  t[n].i_block[k] \in bb /\ t[n].i_block[k] # b
    <3>1. At(t, n, k) = t[n].i_block[k]
      BY DEF At
    <3> QED BY <1>1, <1>2, <1>3, <2>1, <3>1 DEF OwnedUsed, OneOwner
  <2>2. b \in bb
    BY <1>1, <1>3 DEF OwnedUsed
  <2> QED BY <2>1, <2>2
<1>7. UnlinkWrites(d, n) = (IF back = {} THEN <<WriteBlock(b)>> ELSE SyncBlockBits(<<b>>, bb))
                               \o <<SyncInode(d)>>
  <2>1. UnlinkWrites(d, n) = (IF reclaims THEN SyncBlockBits(<<b>>, bb) ELSE <<WriteBlock(b)>>)
                               \o <<SyncInode(d)>>
    BY <1>4, <1>5, Zenon DEF UnlinkWrites
  <2>2. back = {} <=> ~reclaims
    OBVIOUS
  <2> HIDE DEF reclaims, back, b, d
  <2> QED BY <2>1, <2>2
<1> DEFINE dir == [t[d] EXCEPT !.i_size = @ - 1,
                               !.i_block[x] = IF reclaims THEN NoBlock ELSE b]
           cl == IF reclaims THEN bl ELSE [bl EXCEPT ![b][y] = ZeroBlock[y]]
           del == delete_dir_entry(d, n)
<1>8. del = [freed |-> back, blocks |-> cl, contents |-> Updated(d, dir),
             table |-> inode_sync(t, dir)]
  BY <1>4, <1>5, Zenon DEF delete_dir_entry
<1>9. dir.i_no = d
  <2> DEFINE v == IF reclaims THEN NoBlock ELSE b
             m == [t[d].i_block EXCEPT ![x] = v]
             k == t[d].i_size - 1
  <2>1. dir = [t[d] EXCEPT !.i_size = k, !.i_block = m]
    BY DEF v
  <2> HIDE DEF m, dir, k
  <2>2. dir = [i_no |-> t[d].i_no, i_size |-> k, i_block |-> m]
    BY <1>1, <2>1, WrittenImage
  <2> QED BY <1>1, <2>2
<1> HIDE DEF dir, reclaims, back, cl
<1>10. /\ blockBitmap' = bb \ (back \cup own) /\ inodeBitmap' = ib \ {n}
       /\ t2 = [[t EXCEPT ![d] = dir] EXCEPT ![n] = ZeroInode] /\ bl2 = cl
  <2>1. del.freed = back /\ del.blocks = cl /\ del.table = inode_sync(t, dir)
    <3> HIDE DEF del
    <3> QED BY <1>8
  <2>2. inode_sync(t, dir) = [t EXCEPT ![d] = dir]
    BY <1>1, <1>9, SyncSlot
  <2>3. /\ blockBitmap' = bb \ (del.freed \cup own) /\ inodeBitmap' = ib \ {n}
        /\ t2 = [del.table EXCEPT ![n] = ZeroInode] /\ bl2 = del.blocks
    BY <1>4, Zenon DEF Remove
  <2> HIDE DEF del, own
  <2> QED BY <2>1, <2>2, <2>3
<1>11. t2[d] = dir
  <2> DEFINE u == [t EXCEPT ![d] = dir]
  <2>1. u[d] = dir
    BY <1>1
  <2> HIDE DEF u
  <2>2. t2 = [u EXCEPT ![n] = ZeroInode] /\ t2 \in [Inodes -> InodeImages]
    BY <1>1, <1>10 DEF u
  <2>3. t2[d] = u[d]
    BY <1>1, <1>2, <2>2
  <2> QED BY <2>1, <2>3
<1>15. Loosens(d, x, b, back)
  <2> DEFINE v == IF reclaims THEN NoBlock ELSE b
             w == IF back = {} THEN b ELSE NoBlock
  <2>1. v = w
    BY DEF back
  <2>2. dir = [t[d] EXCEPT !.i_size = @ - 1, !.i_block[x] = v]
    BY DEF dir
  <2> HIDE DEF v, w
  <2>3. t2[d] = [t[d] EXCEPT !.i_size = @ - 1, !.i_block[x] = w]
    BY <1>11, <2>1, <2>2
  <2> QED BY <1>3, <2>3, Zenon DEF Loosens, w
<1>12. bl2 = IF back = {} THEN [bl EXCEPT ![b] = bl2[b]] ELSE bl
  <2>1. CASE reclaims
    BY <1>10, <2>1 DEF back, cl
  <2>2. CASE ~reclaims
    <3>1. back = {} /\ bl2 = [bl EXCEPT ![b][y] = ZeroBlock[y]]
      BY <1>10, <2>2 DEF back, cl
    <3>2. bl2 = [bl EXCEPT ![b] = bl2[b]]
      BY <1>1, <1>6, <3>1
    <3> QED BY <3>1, <3>2
  <2> QED BY <2>1, <2>2
<1>13. back \subseteq {b}
  BY DEF back
<1> HIDE DEF own, b, d
<1>16. \E k \in BlockIdx : Loosens(d, k, b, back)
  BY <1>3, <1>15
<1>14. Removed(d, n, b, back, own)
  BY <1>1, <1>4, <1>6, <1>7, <1>10, <1>11, <1>12, <1>13, <1>16 DEF Removed, own
<1> QED BY <1>14 DEF d

(* sys_unlink and sys_rmdir remove what search_file finds, from where it   *)
(* found it.                                                               *)
RemovesIt(up, r) ==
    r.i_no \in inodeBitmap /\ r.i_no # Root /\ r.parent_dir = up[r.i_no] /\ Remove(up[r.i_no], r.i_no)

LEMMA RemovesFound ==
    ASSUME IInv, Sound, Usable, NEW D, NEW up, NEW place, NEW depth, InTree(D, up, place, depth), NEW p,
           (sys_unlink(p) /\ p \in UnlinkPaths) \/ (sys_rmdir(p) /\ p \in RmdirPaths)
    PROVE  RemovesIt(up, search_file(p))
<1> DEFINE r == search_file(p)
           n == r.i_no
<1>1. p \in Paths
  BY DEF Paths
<1>2. CASE sys_unlink(p)
  <2>1. r.f_type = "FT_REGULAR" /\ n # Root /\ Remove(r.parent_dir, n)
    BY <1>2 DEF sys_unlink, FindsFile
  <2>2. FoundFile(inodeBitmap, D, up, r)
    BY <1>1, <2>1, SearchFile DEF Sound
  <2> HIDE DEF r
  <2>3. RemovesIt(up, r)
    BY <2>1, <2>2 DEF FoundFile, RemovesIt
  <2> QED BY <2>3 DEF r
<1>3. CASE sys_rmdir(p) /\ p \in RmdirPaths
  <2>1. r.f_type = "FT_DIRECTORY" /\ n # Root /\ Remove(r.parent_dir, n)
    BY <1>3 DEF sys_rmdir, FindsDir
  <2>2. FoundDir(D, up, p, r)
    BY <1>1, <2>1, SearchFile DEF Sound
  <2> HIDE DEF r
  <2>3. RemovesIt(up, r)
    BY <1>3, <2>1, <2>2 DEF FoundDir, Usable, InTree, Tree, TreeType, RemovesIt
  <2> QED BY <2>3 DEF r
<1> QED BY <1>2, <1>3

LEMMA RemovesBrings ==
    ASSUME TreeInv, TreeInv', Usable, NEW p,
           (sys_unlink(p) /\ p \in UnlinkPaths) \/ (sys_rmdir(p) /\ p \in RmdirPaths)
    PROVE  Brings(Disk(inodeBitmap, blockBitmap, inodeTable, blocks),
                  RemovalWrites(search_file(p).parent_dir, search_file(p).i_no),
                  Disk(inodeBitmap', blockBitmap', inodeTable', blocks'))
<1> DEFINE r == search_file(p)
           n == r.i_no
<1>1. IInv /\ Sound /\ DiskType /\ DiskType'
  BY DEF TreeInv, IInv
<1>2. PICK D, up, place, depth : InTree(D, up, place, depth)
  BY DEF TreeInv
<1>3. n \in inodeBitmap /\ n # Root /\ r.parent_dir = up[n] /\ Remove(up[n], n)
  BY <1>1, <1>2, RemovesFound DEF RemovesIt
<1> HIDE DEF r
<1> DEFINE d == r.parent_dir
<1>4. PICK b, back, own : Removed(up[n], n, b, back, own)
  BY <1>1, <1>2, <1>3, RemovalMade
<1>5. Removed(d, n, b, back, own)
  BY <1>3, <1>4
<1> HIDE DEF d, n
<1>6. Brings(Disk(inodeBitmap, blockBitmap, inodeTable, blocks), RemovalWrites(d, n),
             Disk(inodeBitmap', blockBitmap', inodeTable', blocks'))
  BY <1>1, <1>5, RemovalBrings
<1> QED BY <1>6 DEF r, d, n

-----------------------------------------------------------------------------
(* Until a process dies in the middle of a call, the tree is as NextTree   *)
(* keeps it, and the writes to come take the disk to what the call makes.  *)

Covering == /\ crashes \in Nat
            /\ crashes = 0 => TreeInv /\ Brings(disk, pending, EndOfCall)

LEMMA EndIsTree ==
    ASSUME TreeInv
    PROVE  EndOfCall = Disk(inodeBitmap, blockBitmap, inodeTable, blocks)
BY DEF EndOfCall, Disk, TreeInv, Sound, DiskSame

LEMMA EndIsTreeNext ==
    ASSUME TreeInv'
    PROVE  EndOfCall' = Disk(inodeBitmap', blockBitmap', inodeTable', blocks')
BY DEF EndOfCall, Disk, TreeInv, Sound, DiskSame

LEMMA InitCovering == DiskInit => Covering
<1> SUFFICES ASSUME DiskInit PROVE Covering
  OBVIOUS
<1>1. TreeInv
  BY InitTree DEF DiskInit
<1>2. crashes = 0 /\ pending = <<>> /\ disk = EndOfCall
  BY DEF DiskInit
<1> QED BY <1>1, <1>2, BringsNothing DEF Covering

(* A call that decides its writes.                                         *)
LEMMA DecidesCovering ==
    ASSUME Usable, Covering, Next, [Careful]_vars, NEW writes, Idle, Decides(writes),
           TreeInv /\ TreeInv' =>
               Brings(Disk(inodeBitmap, blockBitmap, inodeTable, blocks), writes,
                      Disk(inodeBitmap', blockBitmap', inodeTable', blocks'))
    PROVE  Covering'
<1>1. pending = <<>> /\ pending' = writes /\ disk' = disk /\ crashes' = crashes
  BY DEF Idle, Decides
<1> SUFFICES ASSUME crashes = 0 PROVE TreeInv' /\ Brings(disk', pending', EndOfCall')
  BY <1>1 DEF Covering
<1>2. TreeInv /\ Brings(disk, <<>>, EndOfCall)
  BY <1>1 DEF Covering
<1>3. TreeInv'
  BY <1>2, NextTree
<1>4. disk = Disk(inodeBitmap, blockBitmap, inodeTable, blocks)
  BY <1>2, BringsEnd, EndIsTree
<1>5. EndOfCall' = Disk(inodeBitmap', blockBitmap', inodeTable', blocks')
  BY <1>3, EndIsTreeNext
<1> QED BY <1>1, <1>2, <1>3, <1>4, <1>5

(* A step that leaves the images of the partition alone.                   *)
LEMMA StillCovering ==
    ASSUME Usable, Covering, [Next]_vars, [Careful]_vars,
           UNCHANGED <<disk, pending, crashes>>, EndOfCall' = EndOfCall
    PROVE  Covering'
<1>1. TreeInv => TreeInv'
  BY NextTree
<1> QED BY <1>1 DEF Covering

LEMMA OpensCovering ==
    ASSUME Usable, Covering, [Careful]_vars, NEW p \in OpenPaths, OpensFile(p)
    PROVE  Covering'
<1>1. sys_open_existing(p) \/ sys_open_table_full(p)
  BY DEF OpensFile
<1>2. Next
  BY <1>1, Zenon DEF Next
<1>3. Idle /\ Decides(<<>>)
  BY DEF OpensFile
<1>4. UNCHANGED <<bitmaps, inodeTable, blocks>>
  BY <1>1 DEF sys_open_existing, sys_open_table_full, LeavesOpen
<1>5. EndOfCall' = EndOfCall
  BY <1>4 DEF EndOfCall, bitmaps
<1>6. UNCHANGED <<disk, pending, crashes>>
  BY <1>3 DEF Idle, Decides
<1> QED BY <1>2, <1>5, <1>6, StillCovering

LEMMA ClosesCovering ==
    ASSUME Usable, Covering, [Careful]_vars, NEW f \in OF!Fds, Closes(f)
    PROVE  Covering'
<1>1. sys_close(f)
  BY DEF Closes
<1>2. Next
  BY <1>1, Zenon DEF Next
<1>3. Idle /\ Decides(<<>>)
  BY DEF Closes
<1>4. UNCHANGED <<bitmaps, inodeTable, blocks>>
  BY <1>1 DEF sys_close
<1>5. EndOfCall' = EndOfCall
  BY <1>4 DEF EndOfCall, bitmaps
<1>6. UNCHANGED <<disk, pending, crashes>>
  BY <1>3 DEF Idle, Decides
<1> QED BY <1>2, <1>5, <1>6, StillCovering

LEMMA RestartsCovering ==
    ASSUME Usable, Covering, [Careful]_vars, Restarts
    PROVE  Covering'
<1>1. Restart /\ UNCHANGED <<disk, pending, crashes>>
  BY DEF Restarts, diskVars
<1>2. Next
  BY <1>1, Zenon DEF Next
<1>3. EndOfCall' = EndOfCall
  BY <1>1 DEF Restart, EndOfCall
<1> QED BY <1>1, <1>2, <1>3, StillCovering

LEMMA CreatesCovering ==
    ASSUME Usable, Covering, [Careful]_vars, NEW p \in CreatePaths \cup MkdirPaths, Creates(p)
    PROVE  Covering'
<1>1. (sys_open_create(p) /\ p \in CreatePaths) \/ (sys_mkdir(p) /\ p \in MkdirPaths)
  BY DEF Creates
<1>2. Next
  BY <1>1, Zenon DEF Next
<1> DEFINE writes == CreationWrites(search_file(p).parent_dir)
<1>3. Idle /\ Decides(writes)
  BY DEF Creates
<1>4. ASSUME TreeInv, TreeInv'
      PROVE  Brings(Disk(inodeBitmap, blockBitmap, inodeTable, blocks), writes,
                    Disk(inodeBitmap', blockBitmap', inodeTable', blocks'))
  BY <1>1, <1>4, CreatesBrings
<1> HIDE DEF writes
<1> QED BY <1>2, <1>3, <1>4, DecidesCovering

LEMMA WritesCovering ==
    ASSUME Usable, Covering, [Careful]_vars, NEW f \in OF!Fds, NEW count \in WriteCounts,
           Writes(f, count)
    PROVE  Covering'
<1>1. sys_write(f, count)
  BY DEF Writes
<1>2. Next
  BY <1>1, Zenon DEF Next
<1> DEFINE writes == WritingWrites(contents[fileTable[fdTable[f]]], count)
<1>3. Idle /\ Decides(writes)
  BY DEF Writes
<1>4. ASSUME TreeInv, TreeInv'
      PROVE  Brings(Disk(inodeBitmap, blockBitmap, inodeTable, blocks), writes,
                    Disk(inodeBitmap', blockBitmap', inodeTable', blocks'))
  BY <1>1, <1>4, WritesBrings
<1> HIDE DEF writes
<1> QED BY <1>2, <1>3, <1>4, DecidesCovering

LEMMA RemovesCovering ==
    ASSUME Usable, Covering, [Careful]_vars, NEW p,
           (Unlinks(p) /\ p \in UnlinkPaths) \/ (Rmdirs(p) /\ p \in RmdirPaths)
    PROVE  Covering'
<1>1. (sys_unlink(p) /\ p \in UnlinkPaths) \/ (sys_rmdir(p) /\ p \in RmdirPaths)
  BY DEF Unlinks, Rmdirs
<1>2. Next
  BY <1>1, Zenon DEF Next
<1> DEFINE writes == RemovalWrites(search_file(p).parent_dir, search_file(p).i_no)
<1>3. Idle /\ Decides(writes)
  BY DEF Unlinks, Rmdirs
<1>4. ASSUME TreeInv, TreeInv'
      PROVE  Brings(Disk(inodeBitmap, blockBitmap, inodeTable, blocks), writes,
                    Disk(inodeBitmap', blockBitmap', inodeTable', blocks'))
  BY <1>1, <1>4, RemovesBrings
<1> HIDE DEF writes
<1> QED BY <1>2, <1>3, <1>4, DecidesCovering

LEMMA DiesCovering ==
    ASSUME Usable, Covering, [Careful]_vars, Dies
    PROVE  Covering'
<1>1. Next
  <2>1. (\E p \in MkdirPaths : sys_mkdir_dies(p))
        \/ \E f \in OF!Fds, count \in WriteCounts : sys_write_dies(f, count)
    BY DEF Dies
  <2> QED BY <2>1, Zenon DEF Next
<1>2. pending = <<>> /\ disk' = EndOfCall' /\ UNCHANGED <<pending, crashes>>
  BY DEF Dies, Idle
<1> SUFFICES ASSUME crashes = 0 PROVE TreeInv' /\ Brings(disk', pending', EndOfCall')
  BY <1>2 DEF Covering
<1>3. TreeInv'
  BY <1>1, NextTree DEF Covering
<1>4. Brings(EndOfCall', <<>>, EndOfCall')
  BY BringsNothing
<1> QED BY <1>2, <1>3, <1>4

LEMMA WritingCovering ==
    ASSUME Usable, Covering, [Careful]_vars, Writing
    PROVE  Covering'
<1>1. /\ pending # <<>> /\ disk' = write_blocks_to_disk(disk, Head(pending))
      /\ pending' = Tail(pending) /\ UNCHANGED vars /\ crashes' = crashes
  BY DEF Writing
<1> SUFFICES ASSUME crashes = 0 PROVE TreeInv' /\ Brings(disk', pending', EndOfCall')
  BY <1>1 DEF Covering
<1>2. TreeInv /\ Brings(disk, pending, EndOfCall)
  BY DEF Covering
<1>3. TreeInv'
  BY <1>1, <1>2, NextTree
<1>4. EndOfCall' = EndOfCall
  BY <1>1 DEF vars, bitmaps, EndOfCall
<1>5. Brings(write_blocks_to_disk(disk, Head(pending)), Tail(pending), EndOfCall)
  BY <1>1, <1>2, BringsOn
<1> QED BY <1>1, <1>3, <1>4, <1>5

LEMMA NextCovering ==
    ASSUME Usable, Covering, [DiskNext]_<<vars, diskVars>>, [Careful]_vars
    PROVE  Covering'
<1>1. ASSUME NEW p \in CreatePaths \cup MkdirPaths, Creates(p) PROVE Covering'
  BY <1>1, CreatesCovering
<1>2. ASSUME NEW f \in OF!Fds, NEW count \in WriteCounts, Writes(f, count) PROVE Covering'
  BY <1>2, WritesCovering
<1>3. ASSUME NEW p \in UnlinkPaths, Unlinks(p) PROVE Covering'
  BY <1>3, RemovesCovering
<1>4. ASSUME NEW p \in RmdirPaths, Rmdirs(p) PROVE Covering'
  BY <1>4, RemovesCovering
<1>5. ASSUME NEW p \in OpenPaths, OpensFile(p) PROVE Covering'
  BY <1>5, OpensCovering
<1>6. ASSUME NEW f \in OF!Fds, Closes(f) PROVE Covering'
  BY <1>6, ClosesCovering
<1>7. CASE Dies
  BY <1>7, DiesCovering
<1>8. CASE Writing
  BY <1>8, WritingCovering
<1>9. CASE Crash
  <2>1. crashes' = crashes + 1 /\ crashes \in Nat
    BY <1>9 DEF Crash, Covering
  <2>2. crashes' \in Nat /\ crashes' # 0
    BY <2>1
  <2> QED BY <2>2 DEF Covering
<1>10. CASE Restarts
  BY <1>10, RestartsCovering
<1>11. CASE UNCHANGED <<vars, diskVars>>
  <2>1. UNCHANGED <<disk, pending, crashes>> /\ UNCHANGED vars
    BY <1>11 DEF diskVars
  <2>2. EndOfCall' = EndOfCall
    BY <2>1 DEF vars, bitmaps, EndOfCall
  <2> QED BY <2>1, <2>2, StillCovering
<1> QED BY <1>1, <1>2, <1>3, <1>4, <1>5, <1>6, <1>7, <1>8, <1>9, <1>10, <1>11, Zenon DEF DiskNext

(* When a call returns, what it changed is on disk, all of it: its writes  *)
(* leave nothing out and none overwrites another (dir.cpp, file.cpp,       *)
(* inode.cpp).  Up to the first death in the middle of a call.             *)
THEOREM CallsWriteAll ==
    Usable => (DiskSpec /\ [][Careful]_vars => [](crashes = 0 => WritesCoverCall))
<1> SUFFICES ASSUME Usable
             PROVE  DiskSpec /\ [][Careful]_vars => [](crashes = 0 => WritesCoverCall)
  OBVIOUS
<1>1. Covering /\ [DiskNext]_<<vars, diskVars>> /\ [Careful]_vars => Covering'
  BY NextCovering
<1>2. Covering => (crashes = 0 => WritesCoverCall)
  BY BringsEnd DEF Covering, WritesCoverCall
<1> QED BY <1>1, <1>2, InitCovering, PTL DEF DiskSpec

-----------------------------------------------------------------------------
(* Deaths between two writes.                                              *)

(* The directory d of inode table t and data area bl, as a mount reads it. *)
KidsOf(t, bl, d) == {e \in {Ent(t, bl, d, q) : q \in Used(t, bl, d)} : Named(e)}
SubsOf(t, bl, d) == {e.i_no : e \in {c \in KidsOf(t, bl, d) : c.f_type = "FT_DIRECTORY"}}

LEMMA MountedInode ==
    ASSUME NEW n
    PROVE  Mounted!inode_at(n) = disk.inodeTable[n]
<1> DEFINE c == OF!OnlyRoot
<1>1. OF!RootAddr \in OF!Addrs
  BY OFAssumptions DEF OF!RootAddr, OF!Addrs, OFP!BoundsAssumption
<1>2. c.list = <<OF!RootAddr>> /\ c.object[OF!RootAddr] = [i_no |-> Root, i_open_counts |-> 1]
  BY <1>1, SameOps DEF OF!OnlyRoot
<1>3. DOMAIN c.list = {1} /\ c.list[1] = OF!RootAddr
  BY <1>2
<1> HIDE DEF c
<1>4. c.object[c.list[1]].i_no = Root
  BY <1>2, <1>3
<1>5. OF!Matching(c, n) = IF n = Root THEN {1} ELSE {}
  BY <1>3, <1>4 DEF OF!Matching
<1>6. OF!IsOpen(c, n) <=> n = Root
  BY <1>5 DEF OF!IsOpen
<1>7. n = Root => OF!InCoreOf(c, n) = OF!RootAddr
  <2> SUFFICES ASSUME n = Root PROVE OF!InCoreOf(c, n) = OF!RootAddr
    OBVIOUS
  <2>1. OF!Matching(c, n) = {1}
    BY <1>5
  <2>2. (CHOOSE k \in OF!Matching(c, n) : \A j \in OF!Matching(c, n) : k <= j) = 1
    BY <2>1
  <2> QED BY <2>2, <1>3 DEF OF!InCoreOf
<1> DEFINE cont == [a \in OF!Addrs |-> IF a = OF!RootAddr THEN disk.inodeTable[Root] ELSE ZeroInode]
<1>8. cont[OF!RootAddr] = disk.inodeTable[Root]
  BY <1>1
<1> HIDE DEF cont
<1>9. Mounted!inode_at(n) = IF OF!IsOpen(c, n) THEN cont[OF!InCoreOf(c, n)] ELSE disk.inodeTable[n]
  BY Zenon DEF Mounted!inode_at, c, cont, OF!IsOpen, Mounted!OF!IsOpen, OF!InCoreOf, Mounted!OF!InCoreOf,
      OF!Matching, Mounted!OF!Matching
<1> QED BY <1>6, <1>7, <1>8, <1>9

LEMMA MountedChildren ==
    ASSUME NEW d
    PROVE  /\ Mounted!Children(d) = KidsOf(disk.inodeTable, disk.blocks, d)
           /\ Mounted!Subdirs(d) = SubsOf(disk.inodeTable, disk.blocks, d)
<1> DEFINE t == disk.inodeTable
           bl == disk.blocks
<1>1. Mounted!inode_at(d) = t[d]
  BY MountedInode
<1>2. \A q : /\ Mounted!InDir(t[d], q) <=> Has(t, d, q)
             /\ Mounted!EntryAt(t[d], q) = Ent(t, bl, d, q)
  BY DEF Mounted!InDir, Mounted!EntryAt, Has, Ent, At, Mounted!NoBlock, NoBlock
<1>3. Mounted!Positions = Positions /\ \A e : Mounted!Named(e) <=> Named(e)
  BY Zenon DEF Mounted!Positions, Positions, Mounted!BlockIdx, BlockIdx, Mounted!EntryIdx, EntryIdx,
      Mounted!Named, Named
<1>4. Mounted!LiveEntries(d) = {Ent(t, bl, d, q) : q \in Used(t, bl, d)}
  BY <1>1, <1>2, <1>3 DEF Mounted!LiveEntries, Used
<1>5. Mounted!Children(d) = KidsOf(t, bl, d)
  BY <1>3, <1>4 DEF Mounted!Children, KidsOf
<1> QED BY <1>5 DEF Mounted!Subdirs, SubsOf

-----------------------------------------------------------------------------
(* The directories that a mount reaches from the root.                     *)

OneDown(S) == S \cup UNION {SubsOf(disk.inodeTable, disk.blocks, d) : d \in S}

LEMMA MountedLevels ==
    ASSUME NEW U, Root \in U, \A d \in U : SubsOf(disk.inodeTable, disk.blocks, d) \subseteq U
    PROVE  \E w \in [0 .. MaxInodes -> SUBSET U] :
              /\ w[0] = {Root} /\ \A k \in 1 .. MaxInodes : w[k] = OneDown(w[k - 1])
              /\ Mounted!Directories = w[MaxInodes]
<1> DEFINE n == MaxInodes
           A == SUBSET U
           G == [S \in A |-> OneDown(S)]
           g == [k \in 1 .. n |-> G]
           body(within) == [k \in 0 .. n |-> IF k = 0 THEN {Root}
               ELSE within[k - 1] \cup UNION {Mounted!Subdirs(d) : d \in within[k - 1]}]
           within == CHOOSE within : within = body(within)
<1>1. n \in Nat /\ n # 0
  BY SizesAssumption
<1>2. \A S : S \cup UNION {Mounted!Subdirs(d) : d \in S} = OneDown(S)
  BY MountedChildren DEF OneDown
<1>3. {Root} \in A
  OBVIOUS
<1>4. G \in [A -> A]
  <2>1. \A S \in A : OneDown(S) \in A
    BY DEF OneDown
  <2> QED BY <2>1
<1> HIDE DEF A, G, n
<1>5. PICK w \in [0 .. n -> A] : w[0] = {Root} /\ \A k \in 1 .. n : w[k] = OneDown(w[k - 1])
  <2>1. g \in [1 .. n -> [A -> A]]
    BY <1>4
  <2> HIDE DEF g
  <2>2. PICK f \in [0 .. n -> A] : Iterates(f, n, {Root}, g)
    BY <1>1, <1>3, <2>1, IntervalRecursion
  <2>3. ASSUME NEW k \in 1 .. n PROVE f[k] = OneDown(f[k - 1])
    <3>1. f[k] = g[k][f[k - 1]]
      BY <2>2 DEF Iterates
    <3>2. k - 1 \in 0 .. n
      BY <1>1
    <3>3. f[k - 1] \in A
      BY <3>2
    <3> QED BY <3>1, <3>3 DEF g, G
  <2> QED BY <2>2, <2>3 DEF Iterates
<1>6. \A v : body(v) = [k \in 0 .. n |-> IF k = 0 THEN {Root} ELSE OneDown(v[k - 1])]
  BY <1>2
<1>7. w = body(w)
  <2>1. \A k \in 0 .. n : w[k] = IF k = 0 THEN {Root} ELSE OneDown(w[k - 1])
    BY <1>1, <1>5
  <2> HIDE DEF body
  <2>2. w = [k \in 0 .. n |-> IF k = 0 THEN {Root} ELSE OneDown(w[k - 1])]
    BY <2>1
  <2> QED BY <2>2, <1>6
<1>8. ASSUME NEW v, v = body(v) PROVE v = w
  <2> HIDE DEF body
  <2>0. v = [k \in 0 .. n |-> IF k = 0 THEN {Root} ELSE OneDown(v[k - 1])]
    BY <1>6, <1>8
  <2>1. \A k \in 0 .. n : v[k] = IF k = 0 THEN {Root} ELSE OneDown(v[k - 1])
    BY <2>0
  <2> DEFINE S == {k \in 0 .. n : v[k] = w[k]}
  <2>2. 0 \in S
    <3>1. 0 \in 0 .. n
      BY <1>1
    <3>2. v[0] = {Root}
      BY <2>1, <3>1
    <3> QED BY <1>5, <3>1, <3>2
  <2>3. \A k \in 0 .. n - 1 : k \in S => k + 1 \in S
    <3> SUFFICES ASSUME NEW k \in 0 .. n - 1, v[k] = w[k] PROVE k + 1 \in S
      OBVIOUS
    <3>1. k + 1 \in 1 .. n /\ k + 1 \in 0 .. n /\ k + 1 # 0 /\ k + 1 - 1 = k
      BY <1>1
    <3> QED BY <1>5, <2>1, <3>1
  <2>4. 0 .. n \subseteq S
    <3> HIDE DEF S
    <3> QED BY <1>1, <2>2, <2>3, IntervalInduction
  <2>5. v = [k \in 0 .. n |-> v[k]] /\ w = [k \in 0 .. n |-> w[k]]
    BY <1>5, <2>0
  <2> QED BY <2>4, <2>5
<1>9. within = w
  <2> HIDE DEF body
  <2> QED BY <1>7, <1>8
<1>10. Mounted!Directories = within[n]
  BY Zenon DEF Mounted!Directories, Mounted!Root, Root, n
<1> HIDE DEF body, within
<1> QED BY <1>5, <1>9, <1>10 DEF A, n

(* What has all it leads to has every directory.                           *)
LEMMA MountedWithin ==
    ASSUME NEW D, Root \in D, \A d \in D : SubsOf(disk.inodeTable, disk.blocks, d) \subseteq D
    PROVE  Mounted!Directories \subseteq D
<1>1. MaxInodes \in 0 .. MaxInodes
  BY SizesAssumption
<1> QED BY <1>1, MountedLevels

(* What hangs together from the root, less deep than there are inodes, is  *)
(* reached.                                                                *)
Chained(t, bl, D, up, depth) ==
    \A d \in D : /\ depth[d] \in Nat /\ depth[d] < MaxInodes
                 /\ d # Root => /\ up[d] \in D /\ d \in SubsOf(t, bl, up[d])
                                /\ depth[d] = depth[up[d]] + 1

LEMMA MountedReaches ==
    ASSUME NEW U, Root \in U, \A d \in U : SubsOf(disk.inodeTable, disk.blocks, d) \subseteq U,
           NEW D \in SUBSET U, NEW up, NEW depth,
           Chained(disk.inodeTable, disk.blocks, D, up, depth)
    PROVE  D \subseteq Mounted!Directories
<1> DEFINE n == MaxInodes
<1>1. n \in Nat /\ n # 0
  BY SizesAssumption
<1>2. PICK w \in [0 .. n -> SUBSET U] :
              /\ w[0] = {Root} /\ \A k \in 1 .. n : w[k] = OneDown(w[k - 1])
              /\ Mounted!Directories = w[n]
  BY MountedLevels
<1> HIDE DEF n
<1>3. \A d \in D : depth[d] \in Nat /\ depth[d] < n
  BY DEF Chained, n
<1> DEFINE S == {k \in 0 .. n : \A d \in D : depth[d] <= k => d \in w[k]}
<1>4. 0 \in S
  <2>1. \A d \in D : depth[d] <= 0 => d = Root
    BY <1>3 DEF Chained
  <2> QED BY <1>1, <1>2, <2>1
<1>5. ASSUME NEW k \in 0 .. n - 1, k \in S PROVE k + 1 \in S
  <2>1. k + 1 \in 1 .. n /\ k \in 0 .. n /\ k + 1 - 1 = k /\ k + 1 \in 0 .. n
    BY <1>1
  <2>2. w[k + 1] = OneDown(w[k])
    BY <1>2, <2>1
  <2>3. ASSUME NEW d \in D, depth[d] <= k + 1 PROVE d \in w[k + 1]
    <3>1. CASE depth[d] <= k
      BY <1>5, <2>2, <3>1 DEF OneDown
    <3>2. CASE d = Root
      <4>1. Root \in w[k]
        <5> DEFINE R == {j \in 0 .. n : Root \in w[j]}
        <5>1. 0 \in R
          BY <1>1, <1>2
        <5>2. \A j \in 0 .. n - 1 : j \in R => j + 1 \in R
          <6> SUFFICES ASSUME NEW j \in 0 .. n - 1, j \in R PROVE j + 1 \in R
            OBVIOUS
          <6>1. j + 1 \in 1 .. n /\ j + 1 - 1 = j /\ j + 1 \in 0 .. n
            BY <1>1
          <6>2. w[j + 1] = OneDown(w[j])
            BY <1>2, <6>1
          <6> QED BY <6>1, <6>2 DEF OneDown
        <5>3. 0 .. n \subseteq R
          <6> HIDE DEF R
          <6> QED BY <1>1, <5>1, <5>2, IntervalInduction
        <5> QED BY <2>1, <5>3
      <4> QED BY <2>2, <3>2, <4>1 DEF OneDown
    <3>3. CASE ~(depth[d] <= k) /\ d # Root
      <4>1. up[d] \in D /\ depth[d] = depth[up[d]] + 1 /\ d \in SubsOf(disk.inodeTable, disk.blocks, up[d])
        BY <3>3 DEF Chained
      <4>2. depth[up[d]] <= k
        BY <1>3, <2>3, <4>1
      <4>3. up[d] \in w[k]
        BY <1>5, <4>1, <4>2
      <4> QED BY <2>2, <4>1, <4>3 DEF OneDown
    <3> QED BY <3>1, <3>2, <3>3
  <2> QED BY <2>1, <2>3
<1>6. 0 .. n \subseteq S
  <2> HIDE DEF S
  <2> QED BY <1>1, <1>4, <1>5, IntervalInduction
<1>7. n \in 0 .. n
  BY <1>1
<1> QED BY <1>1, <1>2, <1>3, <1>6, <1>7

-----------------------------------------------------------------------------
(* A partition that a mount finds sound, and one that it does not.         *)

(* D are the directories, N the inodes, or more.                           *)
Whole(x, D, N) ==
    /\ Root \in D /\ D \subseteq N /\ N \subseteq x.inodeBitmap /\ N \subseteq Inodes
    /\ \A d \in D : \A e \in KidsOf(x.inodeTable, x.blocks, d) :
          e.i_no \in N /\ (e.f_type = "FT_DIRECTORY" => e.i_no \in D)
    /\ \A n \in N : x.inodeTable[n].i_no = n
    /\ OwnedUsed(N, x.blockBitmap, x.inodeTable) /\ OneOwner(N, x.inodeTable)
    /\ \A d \in D : x.inodeTable[d].i_size = 2 => KidsOf(x.inodeTable, x.blocks, d) = {}
Intact(x) == \E D, N : Whole(x, D, N)

(* d is a directory that leads to a free inode, or has a free block.       *)
Torn(x, D, up, depth, d) ==
    /\ DiskTyped(x.inodeBitmap, x.blockBitmap, x.inodeTable, x.blocks)
    /\ D \subseteq Inodes /\ Chained(x.inodeTable, x.blocks, D, up, depth) /\ d \in D
    /\ \/ \E e \in KidsOf(x.inodeTable, x.blocks, d) : e.i_no \notin x.inodeBitmap
       \/ \E k \in BlockIdx : At(x.inodeTable, d, k) # NoBlock /\ At(x.inodeTable, d, k) \notin x.blockBitmap
Broken(x) == \E D, up, depth, d : Torn(x, D, up, depth, d)

LEMMA IntactSound ==
    ASSUME Intact(disk)
    PROVE  /\ MountSound
           /\ \A d \in Mounted!Directories :
                 disk.inodeTable[d].i_size = 2 => Mounted!Children(d) = {}
<1> DEFINE t == disk.inodeTable
           bl == disk.blocks
           F == Mounted!Directories
           named == {Root} \cup UNION {{e.i_no : e \in Mounted!Children(d)} : d \in F}
           places == {x \in named \X BlockIdx : t[x[1]].i_block[x[2]] # NoBlock}
           held == {t[x[1]].i_block[x[2]] : x \in places}
<1>1. PICK D, N : Whole(disk, D, N)
  BY DEF Intact
<1>2. F \subseteq D
  <2>1. Root \in D /\ \A d \in D : SubsOf(t, bl, d) \subseteq D
    BY <1>1 DEF Whole, SubsOf
  <2> HIDE DEF F, t, bl
  <2>2. Mounted!Directories \subseteq D
    BY <2>1, MountedWithin DEF t, bl
  <2> QED BY <2>2 DEF F
<1>3. \A d : Mounted!Children(d) = KidsOf(t, bl, d)
  BY MountedChildren
<1>4. named \subseteq N
  BY <1>1, <1>2, <1>3 DEF Whole
<1> HIDE DEF named, F
<1>5. \A x \in places : x = <<x[1], x[2]>> /\ x[1] \in N /\ x[2] \in BlockIdx
                        /\ At(t, x[1], x[2]) = t[x[1]].i_block[x[2]] /\ At(t, x[1], x[2]) # NoBlock
  BY <1>4 DEF At
<1>6. held \subseteq disk.blockBitmap
  BY <1>1, <1>5 DEF Whole, OwnedUsed
<1>7. Cardinality(held) = Cardinality(places)
  <2> DEFINE g == [x \in places |-> t[x[1]].i_block[x[2]]]
  <2>1. IsFiniteSet(places)
    <3>1. IsFiniteSet(Inodes) /\ IsFiniteSet(BlockIdx)
      BY FS_Interval, SizesAssumption DEF BlockIdx, Inodes
    <3>2. IsFiniteSet(named)
      BY <1>1, <1>4, <3>1, FS_Subset DEF Whole
    <3>3. IsFiniteSet(named \X BlockIdx)
      BY <3>1, <3>2, FS_Product
    <3> QED BY <3>3, FS_Subset
  <2>2. \A x, y \in places : t[x[1]].i_block[x[2]] = t[y[1]].i_block[y[2]] => x = y
    <3> SUFFICES ASSUME NEW x \in places, NEW y \in places,
                        t[x[1]].i_block[x[2]] = t[y[1]].i_block[y[2]]
                 PROVE  x = y
      OBVIOUS
    <3>1. x[1] = y[1] /\ x[2] = y[2]
      BY <1>1, <1>5 DEF Whole, OneOwner
    <3> QED BY <1>5, <3>1
  <2>3. g = [x \in places |-> g[x]] /\ held = {g[x] : x \in places}
    BY Zenon
  <2>4. \A x, y \in places : g[x] = g[y] => x = y
    <3>1. \A x \in places : g[x] = t[x[1]].i_block[x[2]]
      BY Zenon
    <3> HIDE DEF g, places
    <3> QED BY <2>2, <3>1
  <2> HIDE DEF g, held, places
  <2>5. Cardinality({g[x] : x \in places}) = Cardinality(places)
    BY <2>1, <2>3, <2>4, SameCount
  <2> QED BY <2>3, <2>5
<1>8. \A n \in named : t[n].i_no = n
  BY <1>1, <1>4 DEF Whole
<1>9. named \subseteq disk.inodeBitmap
  BY <1>1, <1>4 DEF Whole
<1>10. MountSound
  BY <1>6, <1>7, <1>8, <1>9, Zenon DEF MountSound, named, F
<1>11. \A d \in D : t[d].i_size = 2 => KidsOf(t, bl, d) = {}
  BY <1>1 DEF Whole
<1> QED BY <1>2, <1>3, <1>10, <1>11 DEF F

LEMMA BrokenUnsound ==
    ASSUME Broken(disk)
    PROVE  ~MountSound
<1> DEFINE t == disk.inodeTable
           bl == disk.blocks
           F == Mounted!Directories
           named == {Root} \cup UNION {{e.i_no : e \in Mounted!Children(m)} : m \in F}
           places == {x \in named \X BlockIdx : t[x[1]].i_block[x[2]] # NoBlock}
           held == {t[x[1]].i_block[x[2]] : x \in places}
<1>1. PICK D, up, depth, d : Torn(disk, D, up, depth, d)
  BY DEF Broken
<1>2. \A m \in Inodes : SubsOf(t, bl, m) \subseteq Inodes
  <2> SUFFICES ASSUME NEW m \in Inodes, NEW q \in Used(t, bl, m) PROVE Ent(t, bl, m, q).i_no \in Inodes
    BY DEF SubsOf, KidsOf
  <2>1. t \in [Inodes -> InodeImages] /\ bl \in [Blocks -> [EntryIdx -> Entries]]
    BY <1>1 DEF Torn, DiskTyped
  <2>2. At(t, m, q[1]) \in Blocks /\ q[2] \in EntryIdx
    BY <2>1, Images, PositionParts DEF Used, Has
  <2>3. Ent(t, bl, m, q) \in Entries
    BY <2>1, <2>2 DEF Ent
  <2> QED BY <2>3 DEF Entries
<1>3. \A m : Mounted!Children(m) = KidsOf(t, bl, m)
  BY MountedChildren
<1>4. D \subseteq F
  <2>1. Root \in Inodes /\ D \subseteq Inodes /\ Chained(t, bl, D, up, depth)
    BY <1>1, SizesAssumption DEF Torn, Inodes, Root
  <2> HIDE DEF F
  <2> QED BY <1>2, <2>1, MountedReaches DEF F
<1>5. d \in named
  <2> SUFFICES ASSUME d # Root PROVE d \in named
    OBVIOUS
  <2>1. d \in D /\ up[d] \in D /\ d \in SubsOf(t, bl, up[d])
    BY <1>1 DEF Torn, Chained
  <2>2. PICK e \in KidsOf(t, bl, up[d]) : e.i_no = d
    BY <2>1 DEF SubsOf
  <2>3. up[d] \in F /\ e \in Mounted!Children(up[d])
    BY <1>3, <1>4, <2>1, <2>2
  <2> QED BY <2>2, <2>3
<1>6. MountSound => named \subseteq disk.inodeBitmap /\ held \subseteq disk.blockBitmap
  BY Zenon DEF MountSound
<1>7. CASE \E e \in KidsOf(t, bl, d) : e.i_no \notin disk.inodeBitmap
  <2>1. PICK e \in KidsOf(t, bl, d) : e.i_no \notin disk.inodeBitmap
    BY <1>7
  <2>2. d \in F /\ e \in Mounted!Children(d)
    BY <1>1, <1>3, <1>4, <2>1 DEF Torn
  <2>3. e.i_no \in named
    BY <2>2
  <2> HIDE DEF named, held
  <2> QED BY <1>6, <2>1, <2>3
<1>8. CASE \E k \in BlockIdx : At(t, d, k) # NoBlock /\ At(t, d, k) \notin disk.blockBitmap
  <2>1. PICK k \in BlockIdx : At(t, d, k) # NoBlock /\ At(t, d, k) \notin disk.blockBitmap
    BY <1>8
  <2>2. <<d, k>> \in places
    BY <1>5, <2>1 DEF At
  <2>3. At(t, d, k) \in held
    BY <2>2 DEF At
  <2> HIDE DEF named, held
  <2> QED BY <1>6, <2>1, <2>3
<1> QED BY <1>1, <1>7, <1>8 DEF Torn

-----------------------------------------------------------------------------
(* The slot of an inode that is free is cleared.                           *)
SlotsFree(ib, t) == \A n \in Inodes \ ib : t[n] = ZeroInode

(* A tree, and what a partition x still shows of it.                       *)
Tidy(ib, bb, t, bl, D) ==
    /\ DiskTyped(ib, bb, t, bl) /\ Numbered(ib, t) /\ OneOwner(ib, t) /\ OwnedUsed(ib, bb, t)
    /\ SlotsFree(ib, t)
    /\ \E up, place, depth : Tree(ib, D, up, place, depth, t, bl)

Formed(x) == /\ x = Disk(x.inodeBitmap, x.blockBitmap, x.inodeTable, x.blocks)
             /\ DiskTyped(x.inodeBitmap, x.blockBitmap, x.inodeTable, x.blocks)

(* Inodes in use may be more, up to those of more.                         *)
Like(x, ib, more, bb, t, bl, D) ==
    /\ Formed(x)
    /\ ib \subseteq x.inodeBitmap /\ x.inodeBitmap \subseteq more /\ bb \subseteq x.blockBitmap
    /\ \A n \in ib : x.inodeTable[n].i_no = t[n].i_no /\ x.inodeTable[n].i_block = t[n].i_block
    /\ \A d \in D : x.inodeTable[d].i_size = 2 => t[d].i_size = 2
    /\ \A b \in DirBlocks(t, D) : x.blocks[b] = bl[b]
    /\ SlotsFree(more, x.inodeTable)

(* The kids of a directory of the tree.                                    *)
LEMMA TidyKids ==
    ASSUME NEW ib, NEW bb, NEW t, NEW bl, NEW D, Tidy(ib, bb, t, bl, D), NEW d \in D,
           NEW e \in KidsOf(t, bl, d)
    PROVE  e.i_no \in ib /\ (e.f_type = "FT_DIRECTORY" => e.i_no \in D) /\ t[d].i_size # 2
<1>1. PICK up, place, depth : Tree(ib, D, up, place, depth, t, bl)
  BY DEF Tidy
<1>2. PICK q \in Used(t, bl, d) : e = Ent(t, bl, d, q) /\ Named(e)
  BY DEF KidsOf
<1>3. q \notin Dots
  <2>1. /\ Ent(t, bl, d, <<0, 0>>) = Entry(".", d, "FT_DIRECTORY")
        /\ Ent(t, bl, d, <<0, 1>>) = Entry("..", up[d], "FT_DIRECTORY")
    BY <1>1 DEF Tree, DotsRight
  <2>2. Ent(t, bl, d, <<0, 0>>).filename = "." /\ Ent(t, bl, d, <<0, 1>>).filename = ".."
    BY <2>1 DEF Entry
  <2>3. q # <<0, 0>> /\ q # <<0, 1>>
    BY <1>2, <2>2 DEF Named
  <2> QED BY <2>3 DEF Dots
<1>4. Leads(ib, D, up, place, d, q, e)
  BY <1>1, <1>2, <1>3 DEF Tree, EntriesRight
<1>5. t[d].i_size # 2
  <2> SUFFICES ASSUME t[d].i_size = 2 PROVE FALSE
    OBVIOUS
  <2>1. Dots \subseteq Used(t, bl, d) /\ Cardinality(Used(t, bl, d)) = 2
    BY <1>1 DEF Tree, DotsRight, SizesRight
  <2>2. Dots = Used(t, bl, d)
    BY <2>1, PlaceFacts, FS_Subset
  <2> QED BY <1>2, <1>3, <2>2
<1> QED BY <1>4, <1>5 DEF Leads

LEMMA TidySize ==
    ASSUME NEW ib, NEW bb, NEW t, NEW bl, NEW D, Tidy(ib, bb, t, bl, D), NEW d \in D
    PROVE  t[d].i_size \in Nat /\ 2 <= t[d].i_size
<1> DEFINE U == Used(t, bl, d)
<1>1. Dots \subseteq U /\ Cardinality(U) = t[d].i_size
  BY DEF Tidy, Tree, DotsRight, SizesRight
<1>2. IsFiniteSet(U) /\ Cardinality(U) \in Nat /\ Cardinality(Dots) = 2
  BY PlaceFacts
<1> HIDE DEF U
<1>3. Cardinality(Dots) <= Cardinality(U)
  BY <1>1, <1>2, FS_Subset
<1> QED BY <1>1, <1>2, <1>3

LEMMA LikeWhole ==
    ASSUME NEW ib, NEW more, NEW bb, NEW t, NEW bl, NEW D, Tidy(ib, bb, t, bl, D),
           NEW x, Like(x, ib, more, bb, t, bl, D)
    PROVE  Whole(x, D, ib)
<1> DEFINE u == x.inodeTable
           cl == x.blocks
<1>1. PICK up, place, depth : Tree(ib, D, up, place, depth, t, bl)
  BY DEF Tidy
<1>2. Root \in D /\ D \subseteq ib /\ ib \subseteq Inodes
  BY <1>1 DEF Tree, TreeType
<1>3. \A n \in ib : \A k : At(u, n, k) = At(t, n, k)
  BY DEF At, Like
<1>4. ASSUME NEW d \in D PROVE KidsOf(u, cl, d) = KidsOf(t, bl, d)
  <2>1. \A q \in Positions : Has(u, d, q) <=> Has(t, d, q)
    BY <1>2, <1>3 DEF Has
  <2>2. ASSUME NEW q \in Positions, Has(t, d, q) PROVE Ent(u, cl, d, q) = Ent(t, bl, d, q)
    <3>1. q[1] \in BlockIdx
      BY PositionParts
    <3>2. At(t, d, q[1]) \in DirBlocks(t, D)
      BY <2>2, <3>1 DEF DirBlocks, Has
    <3>3. cl[At(t, d, q[1])] = bl[At(t, d, q[1])] /\ At(u, d, q[1]) = At(t, d, q[1])
      BY <1>2, <1>3, <3>2 DEF Like
    <3> QED BY <3>3 DEF Ent
  <2>3. Used(u, cl, d) = Used(t, bl, d)
    BY <2>1, <2>2 DEF Used
  <2>4. \A q \in Used(t, bl, d) : Ent(u, cl, d, q) = Ent(t, bl, d, q)
    BY <2>2 DEF Used
  <2> QED BY <2>3, <2>4 DEF KidsOf
<1>5. \A d \in D : \A e \in KidsOf(u, cl, d) :
          e.i_no \in ib /\ (e.f_type = "FT_DIRECTORY" => e.i_no \in D) /\ t[d].i_size # 2
  BY <1>4, TidyKids
<1>6. \A n \in ib : u[n].i_no = n
  BY DEF Like, Tidy, Numbered
<1>7. OwnedUsed(ib, x.blockBitmap, u) /\ OneOwner(ib, u)
  BY <1>3 DEF Like, Tidy, OwnedUsed, OneOwner
<1>8. \A d \in D : u[d].i_size = 2 => KidsOf(u, cl, d) = {}
  BY <1>5 DEF Like
<1>9. ib \subseteq x.inodeBitmap
  BY DEF Like
<1> QED BY <1>2, <1>5, <1>6, <1>7, <1>8, <1>9 DEF Whole

LEMMA LikeIntact ==
    ASSUME NEW ib, NEW more, NEW bb, NEW t, NEW bl, NEW D, Tidy(ib, bb, t, bl, D),
           NEW x, Like(x, ib, more, bb, t, bl, D)
    PROVE  Intact(x)
BY LikeWhole DEF Intact

LEMMA TidyLike ==
    ASSUME NEW ib, NEW bb, NEW t, NEW bl, NEW D, Tidy(ib, bb, t, bl, D), D \subseteq ib
    PROVE  Like(Disk(ib, bb, t, bl), ib, ib, bb, t, bl, D)
BY DEF Like, Formed, Disk, Tidy

-----------------------------------------------------------------------------
(* A write that the tree does not notice.                                  *)
Harmless(w, ib, more, bb, t, D) ==
    \/ w.part = "blockBitmap" /\ bb \subseteq w.value /\ w.value \subseteq Blocks
    \/ w.part = "blocks" /\ w.at \notin DirBlocks(t, D)
           /\ (w.at \in Blocks => w.value \in [EntryIdx -> Entries])
    \/ w.part = "inodeBitmap" /\ ib \subseteq w.value /\ w.value \subseteq more
    \/ w.part = "inodeTable" /\ w.at \notin ib /\ w.value = ZeroInode

LEMMA HarmlessLike ==
    ASSUME NEW ib, NEW more, more \subseteq Inodes, NEW bb, NEW t, NEW bl, NEW D, D \subseteq ib,
           NEW x, Like(x, ib, more, bb, t, bl, D), NEW w, Harmless(w, ib, more, bb, t, D),
           w = Write(w.part, w.at, w.value)
    PROVE  Like(write_blocks_to_disk(x, w), ib, more, bb, t, bl, D)
<1> DEFINE xi == x.inodeBitmap
           xb == x.blockBitmap
           xt == x.inodeTable
           xl == x.blocks
           at == w.at
           v == w.value
<1>1. x = Disk(xi, xb, xt, xl) /\ DiskTyped(xi, xb, xt, xl)
  BY DEF Like, Formed
<1>2. CASE w.part = "blockBitmap" /\ bb \subseteq v /\ v \subseteq Blocks
  <2> DEFINE y == bitmap_sync(v, xb, {at})
  <2>1. write_blocks_to_disk(x, w) = Disk(xi, y, xt, xl)
    BY <1>1, <1>2, WritesBlockBit
  <2>2. bb \subseteq y /\ y \subseteq Blocks
    BY <1>1, <1>2 DEF bitmap_sync, Like, DiskTyped
  <2> HIDE DEF y
  <2> QED BY <1>1, <2>1, <2>2 DEF Like, Formed, Disk, DiskTyped
<1>3. CASE w.part = "blocks" /\ at \notin DirBlocks(t, D) /\ (at \in Blocks => v \in [EntryIdx -> Entries])
  <2> DEFINE y == [xl EXCEPT ![at] = v]
  <2>1. write_blocks_to_disk(x, w) = Disk(xi, xb, xt, y)
    BY <1>1, <1>3, WritesBlock
  <2>2. y \in [Blocks -> [EntryIdx -> Entries]] /\ \A b \in Blocks : b # at => y[b] = xl[b]
    BY <1>1, <1>3 DEF DiskTyped
  <2> HIDE DEF y
  <2>3. \A b \in DirBlocks(t, D) : y[b] = bl[b]
    <3>1. \A d \in D : \A k \in BlockIdx : At(t, d, k) # NoBlock => At(t, d, k) \in Blocks
      <4>1. \A d \in D : \A k \in BlockIdx : At(xt, d, k) \in Blocks \cup {NoBlock}
        BY <1>1, Images DEF DiskTyped, Like
      <4> QED BY <4>1 DEF Like, At
    <3>2. DirBlocks(t, D) \subseteq Blocks
      BY <3>1 DEF DirBlocks
    <3> QED BY <1>3, <2>2, <3>2 DEF Like
  <2> QED BY <1>1, <2>1, <2>2, <2>3 DEF Like, Formed, Disk, DiskTyped
<1>4. CASE w.part = "inodeBitmap" /\ ib \subseteq v /\ v \subseteq more
  <2> DEFINE y == bitmap_sync(v, xi, {at})
  <2>1. write_blocks_to_disk(x, w) = Disk(y, xb, xt, xl)
    BY <1>1, <1>4, WritesInodeBit
  <2>2. ib \subseteq y /\ y \subseteq more
    BY <1>1, <1>4 DEF bitmap_sync, Like
  <2> HIDE DEF y
  <2> QED BY <1>1, <2>1, <2>2 DEF Like, Formed, Disk, DiskTyped
<1>5. CASE w.part = "inodeTable" /\ at \notin ib /\ v = ZeroInode
  <2> DEFINE y == [xt EXCEPT ![at] = v]
  <2>1. write_blocks_to_disk(x, w) = Disk(xi, xb, y, xl)
    BY <1>1, <1>5, WritesSlot
  <2>2. /\ y \in [Inodes -> InodeImages] /\ \A n \in Inodes : n # at => y[n] = xt[n]
        /\ at \in Inodes => y[at] = ZeroInode
    BY <1>1, <1>5, ZeroInodeType DEF DiskTyped
  <2> HIDE DEF y
  <2>3. \A n \in ib : y[n] = xt[n]
    BY <1>1, <1>5, <2>2 DEF Like, DiskTyped
  <2>4. SlotsFree(more, y)
    BY <2>2 DEF Like, SlotsFree
  <2> QED BY <1>1, <2>1, <2>2, <2>3, <2>4 DEF Like, Formed, Disk, DiskTyped
<1> QED BY <1>2, <1>3, <1>4, <1>5 DEF Harmless

(* The states f[k] of a partition under the writes of p.                   *)
Under(f, p) == \A k \in 1 .. Len(p) : f[k] = write_blocks_to_disk(f[k - 1], p[k])

(* A write that marks an inode as used.                                    *)
Marks(w) == w.part = "inodeBitmap" /\ w.at \in w.value
Quiet(w, ib, more, bb, t, D) ==
    Harmless(w, ib, more, bb, t, D) /\ ~Marks(w) /\ w = Write(w.part, w.at, w.value)
Quietly(p, i, j, ib, more, bb, t, D) == \A k \in i + 1 .. j : Quiet(p[k], ib, more, bb, t, D)

LEMMA QuietLike ==
    ASSUME NEW f, NEW p, Under(f, p), Len(p) \in Nat, NEW i \in Nat, NEW j \in i .. Len(p),
           NEW ib, NEW more, more \subseteq Inodes, NEW bb, NEW t, NEW bl, NEW D, D \subseteq ib,
           Like(f[i], ib, more, bb, t, bl, D), Quietly(p, i, j, ib, more, bb, t, D)
    PROVE  \A k \in i .. j : Like(f[k], ib, more, bb, t, bl, D)
<1> DEFINE n == j - i
           S == {m \in 0 .. n : Like(f[i + m], ib, more, bb, t, bl, D)}
<1>1. n \in Nat /\ j \in Nat
  OBVIOUS
<1>2. 0 \in S
  <2>1. i + 0 = i /\ 0 \in 0 .. n
    BY <1>1
  <2> QED BY <2>1
<1>3. ASSUME NEW m \in 0 .. n - 1, m \in S PROVE m + 1 \in S
  <2>1. i + m + 1 \in i + 1 .. j /\ i + m + 1 \in 1 .. Len(p) /\ i + m + 1 - 1 = i + m
        /\ i + (m + 1) = i + m + 1 /\ m + 1 \in 0 .. n
    BY <1>1
  <2> DEFINE k == i + m + 1
  <2>2. f[k] = write_blocks_to_disk(f[i + m], p[k])
    BY <2>1 DEF Under
  <2>3. Harmless(p[k], ib, more, bb, t, D) /\ p[k] = Write(p[k].part, p[k].at, p[k].value)
    BY <2>1 DEF Quietly, Quiet
  <2>4. Like(f[i + m], ib, more, bb, t, bl, D)
    BY <1>3
  <2>5. Like(write_blocks_to_disk(f[i + m], p[k]), ib, more, bb, t, bl, D)
    <3> DEFINE x == f[i + m]
               w == p[k]
    <3>1. Like(x, ib, more, bb, t, bl, D) /\ Harmless(w, ib, more, bb, t, D)
          /\ w = Write(w.part, w.at, w.value)
      BY <2>3, <2>4
    <3> HIDE DEF x, w
    <3>2. Like(write_blocks_to_disk(x, w), ib, more, bb, t, bl, D)
      BY <3>1, HarmlessLike
    <3> QED BY <3>2 DEF x, w
  <2> HIDE DEF k
  <2>6. Like(f[k], ib, more, bb, t, bl, D)
    BY <2>2, <2>5
  <2> QED BY <2>1, <2>6 DEF k
<1>4. 0 .. n \subseteq S
  <2> HIDE DEF S, n
  <2> QED BY <1>1, <1>2, <1>3, IntervalInduction
<1> SUFFICES ASSUME NEW k \in i .. j PROVE Like(f[k], ib, more, bb, t, bl, D)
  OBVIOUS
<1>5. k - i \in 0 .. n /\ i + (k - i) = k
  BY <1>1
<1>6. k - i \in S
  BY <1>4, <1>5
<1> QED BY <1>5, <1>6

-----------------------------------------------------------------------------
(* The windows of Exposed on a partition x with the writes of p that come  *)
(* after the first k.                                                      *)
RelinksOn(x, w) == /\ w.part = "inodeTable" /\ w.at \in x.inodeBitmap
                   /\ w.value # ZeroInode
                   /\ w.value.i_block # x.inodeTable[w.at].i_block
NamedAt(x, p, k) ==
    /\ \E j \in k + 1 .. Len(p) : Marks(p[j])
    /\ \A j \in k + 1 .. Len(p) : p[j].part # "blocks" /\ ~RelinksOn(x, p[j])
LoosensOn(x, w) ==
    /\ RelinksOn(x, w)
    /\ \E l \in BlockIdx : w.value.i_block[l] = NoBlock /\ x.inodeTable[w.at].i_block[l] # NoBlock
DangerAt(x, p, k) == NamedAt(x, p, k) \/ LoosensOn(x, p[k + 1])

(* CountedLate there, with w the next write; and the directories of U, all *)
(* that a mount can reach, have entries as their i_size says, but for it.  *)
LateOn(x, w, d) ==
    /\ w.part = "inodeTable" /\ w.at = d
    /\ w.value.i_size > x.inodeTable[d].i_size
    /\ w.value.i_block = x.inodeTable[d].i_block
CountsIn(x, w, U) ==
    /\ Root \in U /\ \A d \in U : SubsOf(x.inodeTable, x.blocks, d) \subseteq U
    /\ \A d \in U \cap x.inodeBitmap : x.inodeTable[d].i_size = 2 =>
           (KidsOf(x.inodeTable, x.blocks, d) # {} <=> LateOn(x, w, d))
Counts(x, w) == \E U : CountsIn(x, w, U)

(* A death does no harm, or it does and x shows it.                        *)
Told(x, p, k) ==
    /\ (~DangerAt(x, p, k) /\ Intact(x)) \/ (DangerAt(x, p, k) /\ Broken(x))
    /\ Counts(x, p[k + 1])
Via(x, p) ==
    /\ \E S : p \in Seq(S)
    /\ \E f : f[0] = x /\ Under(f, p) /\ \A k \in 0 .. Len(p) - 1 : Told(f[k], p, k)

LEMMA ExposedHere ==
    ASSUME pending # <<>>, NEW S, pending \in Seq(S)
    PROVE  Exposed <=> DangerAt(disk, pending, 0)
<1>1. Len(pending) \in Nat /\ Len(pending) # 0 /\ DOMAIN pending = 1 .. Len(pending)
      /\ Head(pending) = pending[1]
  BY EmptySeq, LenProperties, HeadTailProperties
<1>2. \A w : Relinks(w) <=> RelinksOn(disk, w)
  BY DEF Relinks, RelinksOn
<1>3. 0 + 1 = 1
  OBVIOUS
<1>4. NameBeforeInode <=> NamedAt(disk, pending, 0)
  <2>1. PendingWrites = {pending[j] : j \in 0 + 1 .. Len(pending)}
    BY <1>1, <1>3 DEF PendingWrites
  <2>2. (\E w \in PendingWrites : Marks(w)) <=> \E j \in 0 + 1 .. Len(pending) : Marks(pending[j])
    BY <2>1
  <2>3. (\A w \in PendingWrites : w.part # "blocks" /\ ~RelinksOn(disk, w))
            <=> \A j \in 0 + 1 .. Len(pending) : pending[j].part # "blocks" /\ ~RelinksOn(disk, pending[j])
    BY <2>1
  <2>4. NameBeforeInode <=> /\ \E w \in PendingWrites : Marks(w)
                            /\ \A w \in PendingWrites : w.part # "blocks" /\ ~RelinksOn(disk, w)
    BY <1>2, Zenon DEF NameBeforeInode, Marks
  <2> QED BY <2>2, <2>3, <2>4 DEF NamedAt
<1>5. FreedBeforeUnlinked <=> LoosensOn(disk, pending[1])
  BY <1>1, <1>2 DEF FreedBeforeUnlinked, LoosensOn
<1> QED BY <1>3, <1>4, <1>5 DEF Exposed, DangerAt

(* After the first write.                                                  *)
LEMMA ToldOn ==
    ASSUME NEW S, NEW p \in Seq(S), p # <<>>, NEW k \in 0 .. Len(p) - 2, NEW x, Told(x, p, k + 1)
    PROVE  Told(x, Tail(p), k)
<1> DEFINE q == Tail(p)
           n == Len(q)
<1>1. Len(p) \in Nat /\ n = Len(p) - 1 /\ \A j \in 1 .. n : q[j] = p[j + 1]
  BY HeadTailProperties, LenProperties
<1> HIDE DEF q
<1>2. k + 1 \in 1 .. n
  BY <1>1
<1>3. NamedAt(x, p, k + 1) <=> NamedAt(x, q, k)
  <2>1. \A j \in k + 1 .. n : j + 1 \in k + 1 + 1 .. Len(p) /\ q[j] = p[j + 1]
    BY <1>1, <1>2
  <2>2. ASSUME NEW j \in k + 1 + 1 .. Len(p) PROVE j - 1 \in k + 1 .. n /\ p[j] = q[j - 1]
    <3>1. j - 1 \in k + 1 .. n /\ j - 1 + 1 = j
      BY <1>1
    <3> QED BY <2>1, <3>1
  <2>3. (\E j \in k + 1 + 1 .. Len(p) : Marks(p[j])) <=> \E j \in k + 1 .. n : Marks(q[j])
    BY <2>1, <2>2
  <2>4. (\A j \in k + 1 + 1 .. Len(p) : p[j].part # "blocks" /\ ~RelinksOn(x, p[j]))
            <=> \A j \in k + 1 .. n : q[j].part # "blocks" /\ ~RelinksOn(x, q[j])
    BY <2>1, <2>2
  <2> QED BY <2>3, <2>4 DEF NamedAt
<1>4. q[k + 1] = p[k + 1 + 1]
  BY <1>1, <1>2
<1>5. DangerAt(x, p, k + 1) <=> DangerAt(x, q, k)
  BY <1>3, <1>4 DEF DangerAt
<1> QED BY <1>5 DEF Told, q

LEMMA ViaOn ==
    ASSUME NEW x, NEW p, Via(x, p), p # <<>>
    PROVE  Via(write_blocks_to_disk(x, Head(p)), Tail(p))
<1>1. PICK S : p \in Seq(S)
  BY DEF Via
<1>2. PICK f : f[0] = x /\ Under(f, p) /\ \A k \in 0 .. Len(p) - 1 : Told(f[k], p, k)
  BY DEF Via
<1>3. /\ Tail(p) \in Seq(S) /\ Len(Tail(p)) = Len(p) - 1 /\ Head(p) = p[1]
      /\ \A k \in 1 .. Len(Tail(p)) : Tail(p)[k] = p[k + 1]
  BY <1>1, HeadTailProperties
<1>4. Len(p) \in Nat /\ Len(p) # 0
  BY <1>1, EmptySeq, LenProperties
<1> DEFINE n == Len(p) - 1
           g == [k \in 0 .. n |-> f[k + 1]]
           q == Tail(p)
<1>5. n \in Nat /\ 1 \in 1 .. Len(p) /\ n + 1 = Len(p) /\ Len(q) = n
  BY <1>3, <1>4
<1>6. \A k \in 0 .. n : g[k] = f[k + 1]
  OBVIOUS
<1> HIDE DEF g, n
<1>7. g[0] = write_blocks_to_disk(x, Head(p))
  <2>1. f[1] = write_blocks_to_disk(f[1 - 1], p[1]) /\ 1 - 1 = 0
    BY <1>2, <1>5 DEF Under
  <2>2. 0 \in 0 .. n /\ 0 + 1 = 1
    BY <1>5
  <2> QED BY <1>2, <1>3, <1>6, <2>1, <2>2
<1>8. ASSUME NEW k \in 1 .. n PROVE g[k] = write_blocks_to_disk(g[k - 1], q[k])
  <2>1. k \in 0 .. n /\ k - 1 \in 0 .. n /\ k + 1 \in 1 .. Len(p) /\ k - 1 + 1 = k /\ k + 1 - 1 = k
    BY <1>5
  <2>2. g[k] = f[k + 1] /\ g[k - 1] = f[k]
    BY <1>6, <2>1
  <2>3. f[k + 1] = write_blocks_to_disk(f[k], p[k + 1])
    BY <1>2, <2>1 DEF Under
  <2> QED BY <1>3, <1>5, <2>2, <2>3
<1>9. ASSUME NEW k \in 0 .. n - 1 PROVE Told(g[k], q, k)
  <2>1. k \in 0 .. n /\ k \in 0 .. Len(p) - 2 /\ k + 1 \in 0 .. Len(p) - 1
    BY <1>4, <1>5 DEF n
  <2>2. g[k] = f[k + 1] /\ Told(f[k + 1], p, k + 1)
    BY <1>2, <1>6, <2>1
  <2>3. Told(f[k + 1], q, k)
    BY <1>1, <2>1, <2>2, ToldOn
  <2> QED BY <2>2, <2>3
<1>10. Under(g, q) /\ \A k \in 0 .. Len(q) - 1 : Told(g[k], q, k)
  BY <1>5, <1>8, <1>9 DEF Under
<1> HIDE DEF q
<1>11. q \in Seq(S)
  BY <1>3 DEF q
<1>12. Via(write_blocks_to_disk(x, Head(p)), q)
  BY <1>7, <1>10, <1>11 DEF Via
<1> QED BY <1>12 DEF q

LEMMA ViaNothing ==
    ASSUME NEW x
    PROVE  Via(x, <<>>)
<1> DEFINE f == [k \in 0 .. 0 |-> x]
<1>1. f[0] = x /\ <<>> \in Seq({}) /\ Len(<<>>) = 0
  OBVIOUS
<1> HIDE DEF f
<1> QED BY <1>1 DEF Via, Under

LEMMA WholeCounts ==
    ASSUME NEW x, NEW D, NEW N, Whole(x, D, N), NEW w, \A d \in D : ~LateOn(x, w, d)
    PROVE  Counts(x, w)
<1>1. \A d \in D : SubsOf(x.inodeTable, x.blocks, d) \subseteq D
  BY DEF Whole, SubsOf
<1>2. CountsIn(x, w, D)
  BY <1>1 DEF Whole, CountsIn
<1> QED BY <1>2 DEF Counts

LEMMA LikeCounts ==
    ASSUME NEW ib, NEW more, NEW bb, NEW t, NEW bl, NEW D, Tidy(ib, bb, t, bl, D),
           NEW x, Like(x, ib, more, bb, t, bl, D), NEW w, \A d \in D : ~LateOn(x, w, d)
    PROVE  Counts(x, w)
BY LikeWhole, WholeCounts

(* While the tree is there and none of the writes to come loosens it.      *)
LEMMA LikeTold ==
    ASSUME NEW ib, NEW more, NEW bb, NEW t, NEW bl, NEW D, Tidy(ib, bb, t, bl, D),
           NEW x, Like(x, ib, more, bb, t, bl, D), NEW p, NEW k, ~LoosensOn(x, p[k + 1]), ~NamedAt(x, p, k),
           \A d \in D : ~LateOn(x, p[k + 1], d)
    PROVE  Told(x, p, k)
<1> DEFINE w == p[k + 1]
<1>1. Counts(x, w)
  BY LikeCounts
<1> QED BY <1>1, LikeIntact DEF Told, DangerAt

LEMMA HarmlessLate ==
    ASSUME NEW ib, NEW more, NEW bb, NEW t, NEW D, D \subseteq ib,
           NEW w, Harmless(w, ib, more, bb, t, D), NEW x
    PROVE  \A d \in D : ~LateOn(x, w, d)
BY DEF Harmless, LateOn

LEMMA HarmlessLoosens ==
    ASSUME NEW ib, NEW more, NEW bb, NEW t, NEW D, NEW w, Harmless(w, ib, more, bb, t, D), NEW x
    PROVE  ~LoosensOn(x, w)
BY DEF Harmless, LoosensOn, RelinksOn

-----------------------------------------------------------------------------
(* Sequences of such writes.                                               *)
AllQuiet(s, ib, more, bb, t, D) ==
    (\E S : s \in Seq(S)) /\ \A k \in 1 .. Len(s) : Quiet(s[k], ib, more, bb, t, D)

LEMMA ConcatParts ==
    ASSUME NEW S, NEW s \in Seq(S), NEW T, NEW u \in Seq(T), NEW p, p = s \o u
    PROVE  /\ p \in Seq(S \cup T) /\ Len(p) = Len(s) + Len(u) /\ Len(s) \in Nat /\ Len(u) \in Nat
           /\ \A k \in 1 .. Len(s) : p[k] = s[k]
           /\ \A k \in 1 .. Len(u) : p[Len(s) + k] = u[k]
<1>1. s \in Seq(S \cup T) /\ u \in Seq(S \cup T)
  <2>1. S \subseteq S \cup T /\ T \subseteq S \cup T
    OBVIOUS
  <2> QED BY <2>1, SeqMonotonic
<1>2. /\ p \in Seq(S \cup T) /\ Len(p) = Len(s) + Len(u)
      /\ \A k \in 1 .. Len(s) + Len(u) : p[k] = IF k <= Len(s) THEN s[k] ELSE u[k - Len(s)]
  BY <1>1, ConcatProperties
<1>3. Len(s) \in Nat /\ Len(u) \in Nat
  BY LenProperties
<1> DEFINE m == Len(s)
           n == Len(u)
<1> HIDE DEF m, n
<1>4. \A k \in 1 .. m : k \in 1 .. m + n /\ k <= m
  BY <1>3 DEF m, n
<1>5. \A k \in 1 .. n : m + k \in 1 .. m + n /\ ~(m + k <= m) /\ m + k - m = k
  BY <1>3 DEF m, n
<1>6. \A k \in 1 .. m : p[k] = s[k]
  BY <1>2, <1>4 DEF m, n
<1>7. \A k \in 1 .. n : p[m + k] = u[k]
  BY <1>2, <1>5 DEF m, n
<1> QED BY <1>2, <1>3, <1>6, <1>7 DEF m, n

LEMMA QuietBoth ==
    ASSUME NEW ib, NEW more, NEW bb, NEW t, NEW D, NEW s, AllQuiet(s, ib, more, bb, t, D),
           NEW u, AllQuiet(u, ib, more, bb, t, D)
    PROVE  AllQuiet(s \o u, ib, more, bb, t, D)
<1>1. PICK S, T : s \in Seq(S) /\ u \in Seq(T)
  BY DEF AllQuiet
<1> DEFINE p == s \o u
<1>2. /\ p \in Seq(S \cup T) /\ Len(p) = Len(s) + Len(u) /\ Len(s) \in Nat /\ Len(u) \in Nat
      /\ \A k \in 1 .. Len(s) : p[k] = s[k]
      /\ \A k \in 1 .. Len(u) : p[Len(s) + k] = u[k]
  BY <1>1, ConcatParts
<1> HIDE DEF p
<1>3. ASSUME NEW k \in 1 .. Len(p) PROVE Quiet(p[k], ib, more, bb, t, D)
  <2>1. CASE k <= Len(s)
    <3>1. k \in 1 .. Len(s)
      BY <1>2, <2>1
    <3> QED BY <1>2, <3>1 DEF AllQuiet
  <2>2. CASE ~(k <= Len(s))
    <3>1. k - Len(s) \in 1 .. Len(u) /\ Len(s) + (k - Len(s)) = k
      BY <1>2, <2>2
    <3>2. p[k] = u[k - Len(s)]
      BY <1>2, <3>1
    <3> QED BY <3>1, <3>2 DEF AllQuiet
  <2> QED BY <2>1, <2>2
<1>4. AllQuiet(p, ib, more, bb, t, D)
  BY <1>2, <1>3 DEF AllQuiet
<1> QED BY <1>4 DEF p

LEMMA QuietBits ==
    ASSUME NEW s \in Seq(Blocks), NEW mem \in SUBSET Blocks, NEW bb, bb \subseteq mem,
           \A k \in 1 .. Len(s) : s[k] \notin bb, NEW ib, NEW more, NEW t, NEW D
    PROVE  AllQuiet(SyncBlockBits(s, mem), ib, more, bb, t, D)
<1> DEFINE w == SyncBlockBits(s, mem)
           n == Len(s)
<1>1. n \in Nat /\ DOMAIN s = 1 .. n
  BY LenProperties
<1>2. w = [j \in 1 .. n |-> Write("blockBitmap", s[j], Flipped(s, j, mem))]
  BY <1>1, Zenon DEF SyncBlockBits, Flipped
<1> HIDE DEF n, w
<1>3. /\ w \in Seq({Write("blockBitmap", s[j], Flipped(s, j, mem)) : j \in 1 .. n}) /\ Len(w) = n
      /\ \A k \in 1 .. n : w[k] = Write("blockBitmap", s[k], Flipped(s, k, mem))
  BY <1>1, <1>2
<1>4. ASSUME NEW k \in 1 .. n PROVE Quiet(w[k], ib, more, bb, t, D)
  <2>1. bb \subseteq Flipped(s, k, mem) /\ Flipped(s, k, mem) \subseteq Blocks
    <3>1. \A i \in 1 .. k : i \in 1 .. Len(s)
      BY <1>1 DEF n
    <3>2. \A b \in bb : ~\E i \in 1 .. k : s[i] = b
      BY <3>1
    <3> QED BY <3>2 DEF Flipped
  <2> QED BY <1>3, <2>1 DEF Quiet, Harmless, Marks, Write
<1>5. AllQuiet(w, ib, more, bb, t, D)
  BY <1>3, <1>4 DEF AllQuiet
<1> QED BY <1>5 DEF w

LEMMA QuietBlocks ==
    ASSUME NEW m \in Nat, NEW addr, NEW t, NEW D, \A k \in 1 .. m : addr[k] \notin DirBlocks(t, D),
           NEW image \in [Blocks -> [EntryIdx -> Entries]], NEW ib, NEW more, NEW bb
    PROVE  AllQuiet([k \in 1 .. m |-> Write("blocks", addr[k], image[addr[k]])], ib, more, bb, t, D)
<1> DEFINE w == [k \in 1 .. m |-> Write("blocks", addr[k], image[addr[k]])]
<1>1. /\ w \in Seq({Write("blocks", addr[k], image[addr[k]]) : k \in 1 .. m}) /\ Len(w) = m
      /\ \A k \in 1 .. m : w[k] = Write("blocks", addr[k], image[addr[k]])
  OBVIOUS
<1> HIDE DEF w
<1>2. ASSUME NEW k \in 1 .. m PROVE Quiet(w[k], ib, more, bb, t, D)
  <2>1. addr[k] \in Blocks => image[addr[k]] \in [EntryIdx -> Entries]
    OBVIOUS
  <2> QED BY <1>1, <2>1 DEF Quiet, Harmless, Marks, Write
<1>3. AllQuiet(w, ib, more, bb, t, D)
  BY <1>1, <1>2 DEF AllQuiet
<1> QED BY <1>3 DEF w

(* The quiet writes s that a call begins with, u after them.               *)
LEMMA QuietStart ==
    ASSUME NEW ib, NEW bb, NEW t, NEW bl, NEW D, Tidy(ib, bb, t, bl, D),
           NEW s, AllQuiet(s, ib, ib, bb, t, D), NEW T, NEW u \in Seq(T), NEW p, p = s \o u,
           NEW f, Under(f, p), f[0] = Disk(ib, bb, t, bl),
           (\A k \in 1 .. Len(u) : ~Marks(u[k])) \/ (\E k \in 1 .. Len(u) : u[k].part = "blocks")
    PROVE  /\ Like(f[Len(s)], ib, ib, bb, t, bl, D)
           /\ \A k \in 0 .. Len(s) - 1 : Told(f[k], p, k)
<1>1. PICK S : s \in Seq(S)
  BY DEF AllQuiet
<1>2. /\ p \in Seq(S \cup T) /\ Len(p) = Len(s) + Len(u) /\ Len(s) \in Nat /\ Len(u) \in Nat
      /\ \A k \in 1 .. Len(s) : p[k] = s[k]
      /\ \A k \in 1 .. Len(u) : p[Len(s) + k] = u[k]
  BY <1>1, ConcatParts
<1> DEFINE m == Len(s)
           n == Len(u)
<1> HIDE DEF m, n
<1>3. m \in Nat /\ n \in Nat /\ Len(p) = m + n /\ Len(p) \in Nat
  BY <1>2 DEF m, n
<1>4. \A k \in 1 .. m : Quiet(p[k], ib, ib, bb, t, D)
  BY <1>2 DEF AllQuiet, m
<1>5. D \subseteq ib /\ ib \subseteq Inodes
  BY DEF Tidy, Tree, TreeType
<1>6. \A k \in 0 .. m : Like(f[k], ib, ib, bb, t, bl, D)
  <2>1. Like(f[0], ib, ib, bb, t, bl, D)
    BY <1>5, TidyLike
  <2>2. Quietly(p, 0, m, ib, ib, bb, t, D)
    <3>1. 0 + 1 = 1
      OBVIOUS
    <3>2. \A k \in 0 + 1 .. m : Quiet(p[k], ib, ib, bb, t, D)
      BY <1>4, <3>1, Zenon
    <3> QED BY <3>2, Zenon DEF Quietly
  <2>3. m \in 0 .. Len(p) /\ 0 \in Nat
    BY <1>3
  <2> QED BY <1>3, <1>5, <2>1, <2>2, <2>3, QuietLike
<1>7. ASSUME NEW k \in 0 .. m - 1 PROVE Told(f[k], p, k)
  <2>1. k + 1 \in 1 .. m /\ k \in 0 .. m
    BY <1>3
  <2>2. ~LoosensOn(f[k], p[k + 1])
    BY <1>4, <2>1, HarmlessLoosens DEF Quiet
  <2>3. ~NamedAt(f[k], p, k)
    <3>1. CASE \A j \in 1 .. Len(u) : ~Marks(u[j])
      <4>1. ASSUME NEW j \in k + 1 .. Len(p) PROVE ~Marks(p[j])
        <5>1. CASE j <= m
          <6>1. j \in 1 .. m
            BY <1>3, <2>1, <5>1
          <6> QED BY <1>4, <6>1 DEF Quiet
        <5>2. CASE ~(j <= m)
          <6>1. j - m \in 1 .. n /\ m + (j - m) = j
            BY <1>3, <5>2
          <6>2. p[j] = u[j - m]
            BY <1>2, <6>1 DEF m, n
          <6> QED BY <3>1, <6>1, <6>2 DEF n
        <5> QED BY <5>1, <5>2
      <4> QED BY <4>1 DEF NamedAt
    <3>2. CASE \E j \in 1 .. Len(u) : u[j].part = "blocks"
      <4>1. PICK j \in 1 .. n : u[j].part = "blocks"
        BY <3>2 DEF n
      <4>2. p[m + j] = u[j] /\ m + j \in k + 1 .. Len(p)
        BY <1>2, <1>3 DEF m, n
      <4> QED BY <4>1, <4>2 DEF NamedAt
    <3> QED BY <3>1, <3>2
  <2>4. \A d \in D : ~LateOn(f[k], p[k + 1], d)
    BY <1>4, <1>5, <2>1, HarmlessLate DEF Quiet
  <2> QED BY <1>6, <2>1, <2>2, <2>3, <2>4, LikeTold
<1>8. m \in 0 .. m
  BY <1>3
<1> QED BY <1>6, <1>7, <1>8 DEF m

-----------------------------------------------------------------------------
(* A write.                                                                *)

LEMMA TidyTree ==
    ASSUME IInv, Sound, SlotsFree(inodeBitmap, inodeTable),
           NEW D, NEW up, NEW place, NEW depth, InTree(D, up, place, depth)
    PROVE  Tidy(inodeBitmap, blockBitmap, inodeTable, blocks, D) /\ D \subseteq inodeBitmap
BY DEF Tidy, DiskTyped, IInv, DiskType, Sound, Owned, InTree, Tree, TreeType

LEMMA TidyTreeNext ==
    ASSUME TreeInv', SlotsFree(inodeBitmap', inodeTable')
    PROVE  \E E : /\ Tidy(inodeBitmap', blockBitmap', inodeTable', blocks', E)
                  /\ E \subseteq inodeBitmap'
BY DEF TreeInv, Tidy, DiskTyped, IInv, DiskType, Sound, Owned, InTree, Tree, TreeType

(* The blocks of a set, their bits one by one.                             *)
LEMMA QuietTaken ==
    ASSUME NEW bits, NEW mem \in SUBSET Blocks, bits \subseteq Blocks, bits \cap mem = {},
           NEW bb, bb \subseteq mem, NEW ib, NEW more, NEW t, NEW D
    PROVE  AllQuiet(SyncBlockBits(Increasing(bits), mem), ib, more, bb, t, D)
<1> DEFINE s == Increasing(bits)
<1>1. IsFiniteSet(bits) /\ bits \subseteq Int
  <2>1. IsFiniteSet(Blocks) /\ Blocks \subseteq Int
    BY FS_Interval, SizesAssumption DEF Blocks
  <2> QED BY <2>1, FS_Subset
<1>2. s \in Seq(bits) /\ \A k \in 1 .. Len(s) : s[k] \in bits
  BY <1>1, IncreasingFacts
<1> HIDE DEF s
<1>3. s \in Seq(Blocks) /\ \A k \in 1 .. Len(s) : s[k] \notin bb
  BY <1>2, SeqMonotonic
<1>4. AllQuiet(SyncBlockBits(s, mem), ib, more, bb, t, D)
  BY <1>3, QuietBits
<1> QED BY <1>4 DEF s

LEMMA GrownVia ==
    ASSUME IInv, Sound, SlotsFree(inodeBitmap, inodeTable), DiskType',
           NEW D, NEW up, NEW place, NEW depth, InTree(D, up, place, depth),
           NEW n, NEW m, NEW addr, NEW p, Grown(D, n, m, addr, p),
           NEW y, Brings(Disk(inodeBitmap, blockBitmap, inodeTable, blocks), p, y)
    PROVE  Via(Disk(inodeBitmap, blockBitmap, inodeTable, blocks), p)
<1> DEFINE ib == inodeBitmap
           bb == blockBitmap
           t == inodeTable
           t2 == inodeTable'
           bl == blocks
           bl2 == blocks'
           W1 == SyncBlockBits(Increasing(blockBitmap' \ bb), bb)
           W2 == [k \in 1 .. m |-> Write("blocks", addr[k], bl2[addr[k]])]
           w == SyncInode(n)
           s == W1 \o W2
           u == <<w>>
<1>1. Tidy(ib, bb, t, bl, D) /\ D \subseteq ib
  BY TidyTree
<1>2. /\ bb \subseteq Blocks /\ blockBitmap' \subseteq Blocks
      /\ bl2 \in [Blocks -> [EntryIdx -> Entries]]
  BY DEF IInv, DiskType
<1>3. /\ n \in ib \ D /\ m \in Nat /\ \A k \in 1 .. m : addr[k] \notin DirBlocks(t, D)
      /\ \A k \in BlockIdx : At(t2, n, k) = NoBlock => At(t, n, k) = NoBlock
  BY DEF Grown
<1>4. p = s \o u
  BY Zenon DEF Grown
<1>5. AllQuiet(W1, ib, ib, bb, t, D)
  <2> DEFINE bits == blockBitmap' \ bb
  <2>1. bits \subseteq Blocks /\ bits \cap bb = {} /\ bb \in SUBSET Blocks /\ bb \subseteq bb
    BY <1>2
  <2> HIDE DEF bits
  <2>2. AllQuiet(SyncBlockBits(Increasing(bits), bb), ib, ib, bb, t, D)
    BY <2>1, QuietTaken
  <2> QED BY <2>2 DEF bits
<1>6. AllQuiet(W2, ib, ib, bb, t, D)
  BY <1>2, <1>3, QuietBlocks
<1> HIDE DEF W1, W2
<1>7. AllQuiet(s, ib, ib, bb, t, D)
  BY <1>5, <1>6, QuietBoth
<1>8. w.part = "inodeTable" /\ w.at = n /\ w.value = t2[n] /\ ~Marks(w)
  BY DEF SyncInode, Write, Marks
<1> HIDE DEF w, s
<1>9. u \in Seq({w}) /\ Len(u) = 1 /\ u[1] = w
  OBVIOUS
<1> HIDE DEF u
<1>10. PICK S, T : s \in Seq(S) /\ u \in Seq(T)
  BY <1>7, <1>9 DEF AllQuiet
<1>11. /\ Len(p) = Len(s) + 1 /\ Len(s) \in Nat /\ p[Len(s) + 1] = w
       /\ \A k \in 1 .. Len(u) : ~Marks(u[k])
  <2>1. /\ Len(p) = Len(s) + Len(u) /\ Len(s) \in Nat /\ Len(u) \in Nat
        /\ \A k \in 1 .. Len(u) : p[Len(s) + k] = u[k]
    BY <1>4, <1>10, ConcatParts
  <2>2. 1 \in 1 .. Len(u) /\ \A k \in 1 .. Len(u) : k = 1
    BY <1>9
  <2> QED BY <1>8, <1>9, <2>1, <2>2
<1>12. PICK f : f[0] = Disk(ib, bb, t, bl) /\ Under(f, p)
  BY DEF Brings, Under
<1>13. /\ Like(f[Len(s)], ib, ib, bb, t, bl, D)
       /\ \A k \in 0 .. Len(s) - 1 : Told(f[k], p, k)
  BY <1>1, <1>4, <1>7, <1>10, <1>11, <1>12, QuietStart
<1> DEFINE j == Len(s)
           x == f[j]
<1>14. Told(x, p, j)
  <2>1. ~NamedAt(x, p, j)
    <3>1. \A k \in j + 1 .. Len(p) : p[k] = w
      <4>1. \A k \in j + 1 .. j + 1 : k = j + 1
        BY <1>11
      <4> QED BY <1>11, <4>1
    <3> QED BY <1>8, <3>1 DEF NamedAt
  <2>2. ~LoosensOn(x, p[j + 1])
    <3>1. x.inodeTable[n].i_block = t[n].i_block
      BY <1>3, <1>13 DEF Like
    <3>2. \A k \in BlockIdx : t2[n].i_block[k] = NoBlock => x.inodeTable[n].i_block[k] = NoBlock
      BY <1>3, <3>1 DEF At
    <3> QED BY <1>8, <1>11, <3>2 DEF LoosensOn
  <2>3. \A d \in D : ~LateOn(x, p[j + 1], d)
    BY <1>3, <1>8, <1>11 DEF LateOn
  <2> QED BY <1>1, <1>13, <2>1, <2>2, <2>3, LikeTold
<1>15. \A k \in 0 .. Len(p) - 1 : Told(f[k], p, k)
  <2>1. \A k \in 0 .. Len(p) - 1 : k = j \/ k \in 0 .. j - 1
    BY <1>11
  <2> QED BY <1>13, <1>14, <2>1
<1> QED BY <1>12, <1>15 DEF Brings, Via

LEMMA WritesVia ==
    ASSUME TreeInv, TreeInv', SlotsFree(inodeBitmap, inodeTable), Usable,
           NEW f \in OF!Fds, NEW count \in WriteCounts, sys_write(f, count)
    PROVE  /\ Via(Disk(inodeBitmap, blockBitmap, inodeTable, blocks),
                  WritingWrites(contents[fileTable[fdTable[f]]], count))
           /\ SlotsFree(inodeBitmap', inodeTable')
<1> DEFINE writes == WritingWrites(contents[fileTable[fdTable[f]]], count)
<1>1. PICK D, up, place, depth : InTree(D, up, place, depth)
  BY DEF TreeInv
<1>2. IInv /\ Sound /\ DiskType'
  BY DEF TreeInv, IInv
<1>3. PICK n, m, addr : Grown(D, n, m, addr, writes)
  BY <1>1, WritesMade
<1>4. Brings(Disk(inodeBitmap, blockBitmap, inodeTable, blocks), writes,
             Disk(inodeBitmap', blockBitmap', inodeTable', blocks'))
  BY WritesBrings
<1> HIDE DEF writes
<1>5. Via(Disk(inodeBitmap, blockBitmap, inodeTable, blocks), writes)
  BY <1>1, <1>2, <1>3, <1>4, GrownVia
<1>6. SlotsFree(inodeBitmap', inodeTable')
  <2> DEFINE t == inodeTable
             v == inodeTable'[n]
  <2>1. n \in inodeBitmap /\ inodeBitmap' = inodeBitmap /\ inodeTable' = [t EXCEPT ![n] = v]
        /\ DOMAIN t = Inodes
    BY <1>2, <1>3 DEF Grown, IInv, DiskType
  <2> HIDE DEF v
  <2>2. \A k \in Inodes : k # n => inodeTable'[k] = t[k]
    BY <2>1
  <2> QED BY <2>1, <2>2 DEF SlotsFree
<1> QED BY <1>5, <1>6 DEF writes

-----------------------------------------------------------------------------
(* A creation.                                                             *)

(* The tree of (t, bl) hangs together in any (u, cl) that has its entries. *)
LEMMA TreeChained ==
    ASSUME NEW ib, NEW D, NEW up, NEW place, NEW depth, NEW t, NEW bl,
           Tree(ib, D, up, place, depth, t, bl), NEW u, NEW cl,
           \A d \in D : \A q \in Used(t, bl, d) :
               q \in Used(u, cl, d) /\ Ent(u, cl, d, q) = Ent(t, bl, d, q)
    PROVE  Chained(u, cl, D, up, depth)
<1>1. TreeType(ib, D, up, place, depth) /\ DepthsRight(D, up, depth)
  BY DEF Tree
<1> SUFFICES ASSUME NEW d \in D
             PROVE  /\ depth[d] \in Nat /\ depth[d] < MaxInodes
                    /\ d # Root => /\ up[d] \in D /\ d \in SubsOf(u, cl, up[d])
                                   /\ depth[d] = depth[up[d]] + 1
  BY DEF Chained
<1>2. depth[d] \in Nat /\ d \in ib /\ up[d] \in D
  BY <1>1 DEF TreeType
<1>3. depth[d] < MaxInodes
  BY <1>1, DepthBounded
<1>4. ASSUME d # Root PROVE d \in SubsOf(u, cl, up[d]) /\ depth[d] = depth[up[d]] + 1
  <2> DEFINE e == Ent(t, bl, up[d], place[d])
  <2>1. place[d] \in Used(t, bl, up[d]) /\ place[d] \notin Dots /\ e.i_no = d
    BY <1>2, <1>4 DEF Tree, HomesRight
  <2>2. Leads(ib, D, up, place, up[d], place[d], e) /\ e.f_type # "FT_UNKNOWN"
    BY <1>2, <2>1 DEF Tree, EntriesRight, Used
  <2>3. place[d] \in Used(u, cl, up[d]) /\ Ent(u, cl, up[d], place[d]) = e
    BY <1>2, <2>1
  <2> HIDE DEF e
  <2>4. Named(e) /\ e.f_type = "FT_DIRECTORY"
    BY <2>1, <2>2, NamesApart DEF Leads, Named
  <2>5. e \in KidsOf(u, cl, up[d])
    BY <2>3, <2>4 DEF KidsOf
  <2>6. d \in SubsOf(u, cl, up[d])
    BY <2>1, <2>4, <2>5 DEF SubsOf
  <2> QED BY <1>1, <1>4, <2>6 DEF DepthsRight
<1> QED BY <1>2, <1>3, <1>4

(* A partition with the entry of an inode that is not marked.              *)
HasEntry(x, D) ==
    /\ DiskTyped(x.inodeBitmap, x.blockBitmap, x.inodeTable, x.blocks)
    /\ \A d \in D : \A k \in BlockIdx : At(x.inodeTable, d, k) = At(inodeTable', d, k)
    /\ \A y \in DirBlocks(inodeTable', D) : x.blocks[y] = (blocks')[y]

LEMMA EntryShows ==
    ASSUME IInv, Sound, NEW D, NEW up, NEW place, NEW depth, InTree(D, up, place, depth),
           NEW d \in D, NEW pos, NEW b, NEW e, Placed(D, d, pos, b, e), Named(e),
           NEW x, HasEntry(x, D), e.i_no \notin x.inodeBitmap
    PROVE  Broken(x)
<1> DEFINE t == inodeTable
           bl == blocks
           t2 == inodeTable'
           bl2 == blocks'
           u == x.inodeTable
           cl == x.blocks
<1>1. Tree(inodeBitmap, D, up, place, depth, t, bl) /\ D \subseteq Inodes
  BY DEF InTree, Tree, TreeType
<1>2. ASSUME NEW m \in D
      PROVE  /\ Used(u, cl, m) = Used(t2, bl2, m)
             /\ \A q \in Used(t2, bl2, m) : Ent(u, cl, m, q) = Ent(t2, bl2, m, q)
  <2>1. ASSUME NEW q \in Positions
        PROVE  /\ Has(u, m, q) <=> Has(t2, m, q)
               /\ Has(t2, m, q) => Ent(u, cl, m, q) = Ent(t2, bl2, m, q)
    <3>1. q[1] \in BlockIdx
      BY PositionParts
    <3>2. At(u, m, q[1]) = At(t2, m, q[1])
      BY <3>1 DEF HasEntry
    <3>3. Has(t2, m, q) => At(t2, m, q[1]) \in DirBlocks(t2, D)
      BY <3>1 DEF Has, DirBlocks
    <3> QED BY <3>2, <3>3 DEF Has, Ent, HasEntry
  <2> HIDE DEF t2, bl2, u, cl
  <2> QED BY <2>1 DEF Used
<1>3. /\ \A m \in D : \A q \in Used(t, bl, m) :
             q \in Used(t2, bl2, m) /\ Ent(t2, bl2, m, q) = Ent(t, bl, m, q)
      /\ pos \in Used(t2, bl2, d) /\ Ent(t2, bl2, d, pos) = e
  BY DEF Placed, Grows
<1> HIDE DEF t, bl, t2, bl2, u, cl
<1>4. Chained(u, cl, D, up, depth)
  BY <1>1, <1>2, <1>3, TreeChained
<1>5. e \in KidsOf(u, cl, d)
  BY <1>2, <1>3 DEF KidsOf
<1>6. Torn(x, D, up, depth, d)
  BY <1>1, <1>4, <1>5 DEF Torn, HasEntry, u, cl
<1> QED BY <1>6 DEF Broken

(* What a creation has on disk after its first write, its second and its   *)
(* third in the directory d, x the disk before them.                       *)
LEMMA EntryWrites ==
    ASSUME IInv, Sound, DiskType', NEW D, NEW up, NEW place, NEW depth, InTree(D, up, place, depth),
           NEW d \in D, NEW n, NEW b, NEW own, NEW pos, NEW e,
           Made(d, n, b, own), Placed(D, d, pos, b, e),
           NEW x, Like(x, inodeBitmap, inodeBitmap, blockBitmap, inodeTable, blocks, D),
           NEW x1, x1 = write_blocks_to_disk(x, WriteBlock(b)),
           NEW x2, x2 = write_blocks_to_disk(x1, SyncInode(d)),
           NEW x3, x3 = write_blocks_to_disk(x2, SyncInode(n))
    PROVE  /\ x1.inodeBitmap = inodeBitmap /\ x2.inodeBitmap = inodeBitmap /\ x3.inodeBitmap = inodeBitmap
           /\ x1.inodeTable = x.inodeTable
           /\ HasEntry(x2, D) /\ HasEntry(x3, D)
           /\ (\A k \in BlockIdx : At(inodeTable', d, k) = At(inodeTable, d, k)) => HasEntry(x1, D)
<1> DEFINE ib == inodeBitmap
           bb == blockBitmap
           t == inodeTable
           t2 == inodeTable'
           bl == blocks
           bl2 == blocks'
           xb == x.blockBitmap
           xt == x.inodeTable
           xl == x.blocks
           cl == [xl EXCEPT ![b] = bl2[b]]
           u == [xt EXCEPT ![d] = t2[d]]
           v == [u EXCEPT ![n] = t2[n]]
<1>1. /\ D \subseteq ib /\ ib \subseteq Inodes /\ bb \subseteq Blocks /\ NoBlock \notin Blocks
      /\ t \in [Inodes -> InodeImages] /\ t2 \in [Inodes -> InodeImages]
      /\ bl2 \in [Blocks -> [EntryIdx -> Entries]] /\ OwnedUsed(ib, bb, t)
  BY DEF IInv, DiskType, InTree, Tree, TreeType, Sound, Owned, NoBlock, Blocks
<1>2. /\ x.inodeBitmap = ib /\ x = Disk(ib, xb, xt, xl) /\ DiskTyped(ib, xb, xt, xl)
      /\ \A m \in ib : xt[m].i_block = t[m].i_block
      /\ \A y \in DirBlocks(t, D) : xl[y] = bl[y]
  BY DEF Like, Formed
<1>3. /\ n \in Inodes /\ n \notin ib /\ own \cap bb = {}
      /\ \A m \in Inodes : m # d /\ m # n => t2[m] = t[m]
      /\ \A y \in Blocks : y # b /\ y \notin own => bl2[y] = bl[y]
  BY DEF Made
<1>4. /\ b \in Blocks /\ \A k \in BlockIdx : At(t2, d, k) = At(t, d, k) \/ At(t2, d, k) = b
  BY DEF Placed
<1> HIDE DEF cl, u, v, t, t2, bl, bl2
<1>5. x1 = Disk(ib, xb, xt, cl)
  BY <1>2, WritesBlock DEF WriteBlock, cl, bl2
<1>6. x2 = Disk(ib, xb, u, cl)
  BY <1>5, WritesSlot DEF SyncInode, u, t2
<1>7. x3 = Disk(ib, xb, v, cl)
  BY <1>6, WritesSlot DEF SyncInode, v, t2
<1>8. /\ xt \in [Inodes -> InodeImages] /\ xl \in [Blocks -> [EntryIdx -> Entries]]
      /\ xb \subseteq Blocks
  BY <1>2 DEF DiskTyped
<1>9. /\ cl \in [Blocks -> [EntryIdx -> Entries]] /\ cl[b] = bl2[b]
      /\ \A y \in Blocks : y # b => cl[y] = xl[y]
  BY <1>1, <1>4, <1>8 DEF cl
<1>10. u \in [Inodes -> InodeImages] /\ \A m \in D : u[m] = IF m = d THEN t2[d] ELSE xt[m]
  BY <1>1, <1>8 DEF u
<1>11. v \in [Inodes -> InodeImages] /\ \A m \in D : v[m] = u[m]
  <2>1. n \notin D
    BY <1>1, <1>3
  <2> QED BY <1>1, <1>3, <1>10, <2>1 DEF v
<1>12. \A m \in D : \A k \in BlockIdx : At(t2, m, k) = At(t, m, k) \/ (m = d /\ At(t2, m, k) = b)
  <2> SUFFICES ASSUME NEW m \in D, m # d PROVE t2[m] = t[m]
    BY <1>4 DEF At
  <2> QED BY <1>1, <1>3
<1>13. ASSUME NEW y \in DirBlocks(t2, D) PROVE cl[y] = bl2[y]
  <2>1. PICK m \in D, k \in BlockIdx : y = At(t2, m, k) /\ y # NoBlock
    BY DEF DirBlocks
  <2>2. CASE y = b
    BY <1>9, <2>2
  <2>3. CASE y # b
    <3>1. y = At(t, m, k)
      BY <1>12, <2>1, <2>3
    <3>2. y \in bb /\ y \in DirBlocks(t, D)
      BY <1>1, <2>1, <3>1 DEF OwnedUsed, DirBlocks
    <3>3. y \in Blocks /\ y \notin own
      BY <1>1, <1>3, <3>2
    <3> QED BY <1>2, <1>3, <1>9, <2>3, <3>2, <3>3
  <2> QED BY <2>2, <2>3
<1>14. \A m \in D : m # d => \A k \in BlockIdx : At(xt, m, k) = At(t2, m, k)
  BY <1>1, <1>2, <1>3 DEF At
<1>15. HasEntry(x2, D)
  <2>1. \A m \in D : \A k \in BlockIdx : At(u, m, k) = At(t2, m, k)
    BY <1>10, <1>14 DEF At
  <2>2. DiskTyped(ib, xb, u, cl)
    BY <1>2, <1>9, <1>10 DEF DiskTyped
  <2> QED BY <1>6, <1>13, <2>1, <2>2 DEF HasEntry, Disk, t2, bl2
<1>16. HasEntry(x3, D)
  <2>1. \A m \in D : \A k \in BlockIdx : At(v, m, k) = At(t2, m, k)
    BY <1>10, <1>11, <1>14 DEF At
  <2>2. DiskTyped(ib, xb, v, cl)
    BY <1>2, <1>9, <1>11 DEF DiskTyped
  <2> QED BY <1>7, <1>13, <2>1, <2>2 DEF HasEntry, Disk, t2, bl2
<1>17. ASSUME \A k \in BlockIdx : At(t2, d, k) = At(t, d, k) PROVE HasEntry(x1, D)
  <2>1. \A m \in D : \A k \in BlockIdx : At(xt, m, k) = At(t2, m, k)
    BY <1>1, <1>2, <1>14, <1>17 DEF At
  <2>2. DiskTyped(ib, xb, xt, cl)
    BY <1>2, <1>9 DEF DiskTyped
  <2> QED BY <1>5, <1>13, <2>1, <2>2 DEF HasEntry, Disk, t2, bl2
<1>18. /\ x1.inodeBitmap = ib /\ x2.inodeBitmap = ib /\ x3.inodeBitmap = ib
       /\ x1.inodeTable = xt
  BY <1>5, <1>6, <1>7 DEF Disk
<1> QED BY <1>15, <1>16, <1>17, <1>18 DEF t, t2

(* The kids depend on the blocks of the slot, a cleared slot has none.     *)
LEMMA KidsAt ==
    ASSUME NEW t, NEW u, NEW bl, NEW m, u[m].i_block = t[m].i_block
    PROVE  KidsOf(u, bl, m) = KidsOf(t, bl, m)
<1>1. \A k : At(u, m, k) = At(t, m, k)
  BY DEF At
<1>2. \A q : (Has(u, m, q) <=> Has(t, m, q)) /\ Ent(u, bl, m, q) = Ent(t, bl, m, q)
  BY <1>1 DEF Has, Ent
<1>3. Used(u, bl, m) = Used(t, bl, m)
  BY <1>2 DEF Used
<1> QED BY <1>2, <1>3 DEF KidsOf

LEMMA KidsNone ==
    ASSUME NEW u, NEW bl, NEW m, u[m] = ZeroInode
    PROVE  KidsOf(u, bl, m) = {}
<1>1. \A q \in Positions : ~Has(u, m, q)
  <2> SUFFICES ASSUME NEW q \in Positions PROVE ~Has(u, m, q)
    OBVIOUS
  <2>1. q[1] \in BlockIdx
    BY PositionParts
  <2> QED BY <2>1 DEF Has, At, ZeroInode, inode_init
<1>2. Used(u, bl, m) = {}
  BY <1>1 DEF Used
<1> QED BY <1>2 DEF KidsOf

(* On the way to the disk y of a creation, before the slot of n or that of *)
(* d is there.                                                             *)
LEMMA PartCounts ==
    ASSUME NEW y, NEW E, NEW N, Whole(y, E, N),
           NEW x, x.blocks = y.blocks, NEW n, n \notin x.inodeBitmap,
           x.inodeTable[n] = ZeroInode \/ x.inodeTable[n] = y.inodeTable[n],
           NEW w, \A m : m # w.at => ~LateOn(x, w, m),
           \A m \in E : m # n => x.inodeTable[m].i_block = y.inodeTable[m].i_block,
           \A m \in E : m # n /\ m # w.at => x.inodeTable[m].i_size = y.inodeTable[m].i_size,
           w.at # n /\ w.at \in E /\ x.inodeTable[w.at].i_size = 2
               => (KidsOf(y.inodeTable, y.blocks, w.at) # {} <=> LateOn(x, w, w.at))
    PROVE  Counts(x, w)
<1> DEFINE kids(m) == KidsOf(x.inodeTable, x.blocks, m)
           then(m) == KidsOf(y.inodeTable, y.blocks, m)
<1>1. \A m \in E : m # n => kids(m) = then(m)
  BY KidsAt
<1>2. kids(n) = {} \/ kids(n) = then(n)
  <2>1. CASE x.inodeTable[n] = ZeroInode
    BY <2>1, KidsNone
  <2>2. CASE x.inodeTable[n] = y.inodeTable[n]
    BY <2>2, KidsAt
  <2> QED BY <2>1, <2>2
<1>3. \A m \in E : \A e \in then(m) : e.f_type = "FT_DIRECTORY" => e.i_no \in E
  BY DEF Whole
<1>4. \A m \in E : y.inodeTable[m].i_size = 2 => then(m) = {}
  BY DEF Whole
<1>5. \A m \in E : \A e \in kids(m) : e.f_type = "FT_DIRECTORY" => e.i_no \in E
  <2> HIDE DEF kids, then
  <2> QED BY <1>1, <1>2, <1>3
<1>6. \A m \in E : SubsOf(x.inodeTable, x.blocks, m) \subseteq E
  BY <1>5 DEF SubsOf
<1>7. ASSUME NEW m \in E \cap x.inodeBitmap, x.inodeTable[m].i_size = 2
      PROVE  kids(m) # {} <=> LateOn(x, w, m)
  <2>1. m # n /\ kids(m) = then(m)
    BY <1>1
  <2>2. CASE m = w.at
    BY <1>7, <2>1, <2>2
  <2>3. CASE m # w.at
    <3>1. then(m) = {} /\ ~LateOn(x, w, m)
      BY <1>4, <1>7, <2>1, <2>3
    <3> HIDE DEF kids, then
    <3> QED BY <2>1, <3>1
  <2> QED BY <2>2, <2>3
<1>8. Root \in E
  BY DEF Whole
<1>9. CountsIn(x, w, E)
  BY <1>6, <1>7, <1>8 DEF CountsIn
<1> QED BY <1>9 DEF Counts

LEMMA EntryCounts ==
    ASSUME IInv, Sound, SlotsFree(inodeBitmap, inodeTable), DiskType',
           NEW D, NEW up, NEW place, NEW depth, InTree(D, up, place, depth),
           NEW d \in D, NEW n, NEW b, NEW own, NEW pos, NEW e, Named(e),
           Made(d, n, b, own), Placed(D, d, pos, b, e),
           NEW E, Tidy(inodeBitmap', blockBitmap', inodeTable', blocks', E), E \subseteq inodeBitmap',
           NEW x, Like(x, inodeBitmap, inodeBitmap, blockBitmap, inodeTable, blocks, D),
           NEW x1, x1 = write_blocks_to_disk(x, WriteBlock(b)),
           NEW x2, x2 = write_blocks_to_disk(x1, SyncInode(d)),
           NEW x3, x3 = write_blocks_to_disk(x2, SyncInode(n)),
           write_blocks_to_disk(x3, Write("inodeBitmap", n, inodeBitmap'))
               = Disk(inodeBitmap', blockBitmap', inodeTable', blocks')
    PROVE  /\ Counts(x3, Write("inodeBitmap", n, inodeBitmap')) /\ Counts(x2, SyncInode(n))
           /\ (\A k \in BlockIdx : At(inodeTable', d, k) = At(inodeTable, d, k))
                  => Counts(x1, SyncInode(d))
<1> DEFINE ib == inodeBitmap
           t == inodeTable
           t2 == inodeTable'
           bl2 == blocks'
           y == Disk(inodeBitmap', blockBitmap', t2, bl2)
           xb == x.blockBitmap
           xt == x.inodeTable
           xl == x.blocks
           cl == [xl EXCEPT ![b] = bl2[b]]
           u == [xt EXCEPT ![d] = t2[d]]
           v == [u EXCEPT ![n] = t2[n]]
           w4 == Write("inodeBitmap", n, inodeBitmap')
<1>1. /\ d \in ib /\ d \in Inodes /\ n \in Inodes /\ n \notin ib /\ d # n
      /\ t \in [Inodes -> InodeImages] /\ t2 \in [Inodes -> InodeImages]
  BY DEF IInv, DiskType, InTree, Tree, TreeType, Made
<1>2. /\ x.inodeBitmap = ib /\ x = Disk(ib, xb, xt, xl) /\ DOMAIN xt = Inodes
      /\ xt[d].i_block = t[d].i_block /\ xt[n] = ZeroInode
  BY <1>1 DEF Like, Formed, DiskTyped, SlotsFree
<1>3. x1 = Disk(ib, xb, xt, cl)
  BY <1>2, WritesBlock DEF WriteBlock
<1>4. x2 = Disk(ib, xb, u, cl)
  BY <1>3, WritesSlot DEF SyncInode
<1>5. x3 = Disk(ib, xb, v, cl)
  BY <1>4, WritesSlot DEF SyncInode
<1>6. v = t2 /\ cl = bl2
  <2> DEFINE z == bitmap_sync(inodeBitmap', ib, {n})
  <2> HIDE DEF cl, v
  <2>1. write_blocks_to_disk(x3, w4) = Disk(z, xb, v, cl)
    BY <1>5, WritesInodeBit
  <2>2. Disk(z, xb, v, cl).inodeTable = y.inodeTable /\ Disk(z, xb, v, cl).blocks = y.blocks
    BY <2>1
  <2> HIDE DEF z
  <2> QED BY <2>2 DEF Disk
<1>7. /\ \A m \in Inodes : m # n => u[m] = t2[m]
      /\ \A m \in Inodes : m # n /\ m # d => xt[m] = t2[m]
      /\ u[n] = ZeroInode
  <2> DEFINE vd == t2[d]
             vn == t2[n]
  <2>1. u = [xt EXCEPT ![d] = vd] /\ v = [u EXCEPT ![n] = vn]
    OBVIOUS
  <2> HIDE DEF vd, vn, u, v
  <2>2. DOMAIN u = Inodes /\ \A m \in Inodes : m # d => u[m] = xt[m]
    BY <1>2, <2>1
  <2>3. \A m \in Inodes : m # n => v[m] = u[m]
    BY <2>1, <2>2
  <2> QED BY <1>1, <1>2, <1>6, <2>2, <2>3
<1>8. /\ x1.inodeBitmap = ib /\ x1.inodeTable = xt /\ x1.blocks = bl2
      /\ x2.inodeBitmap = ib /\ x2.inodeTable = u /\ x2.blocks = bl2
      /\ x3.inodeBitmap = ib /\ x3.inodeTable = t2 /\ x3.blocks = bl2
      /\ y.inodeTable = t2 /\ y.blocks = bl2
  BY <1>3, <1>4, <1>5, <1>6 DEF Disk
<1>9. Whole(y, E, inodeBitmap')
  <2>1. Like(y, inodeBitmap', inodeBitmap', blockBitmap', t2, bl2, E)
    BY TidyLike
  <2> HIDE DEF y
  <2> QED BY <2>1, LikeWhole
<1>10. /\ SyncInode(d).at = d /\ SyncInode(d).value = t2[d] /\ SyncInode(d).part = "inodeTable"
       /\ SyncInode(n).at = n /\ w4.at = n /\ w4.part = "inodeBitmap"
  BY DEF SyncInode, Write
<1>11. E \subseteq Inodes
  BY DEF DiskType
<1> DEFINE w2 == SyncInode(d)
           w3 == SyncInode(n)
<1>12. \A z, w, m : m # w.at => ~LateOn(z, w, m)
  BY DEF LateOn
<1> HIDE DEF y, u, v, cl, t, t2, bl2, xt, w2, w3, w4
<1>13. Counts(x3, w4)
  BY <1>1, <1>8, <1>9, <1>10, <1>12, PartCounts
<1>14. Counts(x2, w3)
  BY <1>1, <1>7, <1>8, <1>9, <1>10, <1>11, <1>12, PartCounts DEF w3
<1>15. ASSUME \A k \in BlockIdx : At(t2, d, k) = At(t, d, k) PROVE Counts(x1, w2)
  <2>1. t2[d].i_block = t[d].i_block
    <3>1. /\ t2[d].i_block \in [BlockIdx -> Blocks \cup {NoBlock}]
          /\ t[d].i_block \in [BlockIdx -> Blocks \cup {NoBlock}]
      BY <1>1, Images
    <3> QED BY <1>15, <3>1 DEF At
  <2>2. \A m \in E : m # n => xt[m].i_block = t2[m].i_block
    BY <1>2, <1>7, <1>11, <2>1 DEF xt
  <2>3. \A m \in E : m # n /\ m # d => xt[m].i_size = t2[m].i_size
    BY <1>7, <1>11
  <2>4. ASSUME d \in E, xt[d].i_size = 2 PROVE KidsOf(t2, bl2, d) # {} /\ LateOn(x1, w2, d)
    <3>1. e \in KidsOf(t2, bl2, d)
      BY DEF Placed, Grows, KidsOf, t2, bl2
    <3>2. t2[d].i_size # 2 /\ t2[d].i_size \in Nat /\ 2 <= t2[d].i_size
      BY <2>4, <3>1, TidyKids, TidySize DEF t2, bl2
    <3>3. t2[d].i_size > 2
      BY <3>2
    <3>4. t2[d].i_block = xt[d].i_block
      BY <1>2, <2>1 DEF xt
    <3> QED BY <1>8, <1>10, <2>4, <3>1, <3>3, <3>4 DEF LateOn, w2
  <2>5. x1.inodeTable[n] = ZeroInode
    BY <1>2, <1>8 DEF xt
  <2>6. w2.at = d
    BY <1>10 DEF w2
  <2>7. \A m \in E : m # n => x1.inodeTable[m].i_block = y.inodeTable[m].i_block
    BY <1>8, <2>2
  <2>8. \A m \in E : m # n /\ m # w2.at => x1.inodeTable[m].i_size = y.inodeTable[m].i_size
    BY <1>8, <2>3, <2>6
  <2>9. w2.at # n /\ w2.at \in E /\ x1.inodeTable[w2.at].i_size = 2
            => (KidsOf(y.inodeTable, y.blocks, w2.at) # {} <=> LateOn(x1, w2, w2.at))
    BY <1>8, <2>4, <2>6
  <2>10. x1.blocks = y.blocks /\ n \notin x1.inodeBitmap
    BY <1>1, <1>8
  <2>11. \A m : m # w2.at => ~LateOn(x1, w2, m)
    BY <1>12
  <2> QED BY <1>9, <2>5, <2>7, <2>8, <2>9, <2>10, <2>11, PartCounts
<1> QED BY <1>13, <1>14, <1>15 DEF w2, w3, w4, t, t2

(* The last four writes of a creation, after the first j of p.             *)
EntersAt(p, j, d, n, b) ==
    /\ j \in Nat /\ Len(p) = j + 4
    /\ p[j + 1] = WriteBlock(b) /\ p[j + 2] = SyncInode(d) /\ p[j + 3] = SyncInode(n)
    /\ p[j + 4] = Write("inodeBitmap", n, inodeBitmap')

(* The name is on the disk, and what is to come only marks its inode.      *)
LEMMA NamedTold ==
    ASSUME NEW x, NEW p, NEW k \in Nat, NEW l \in Nat, k < l, Len(p) = l, Marks(p[l]),
           \A j \in k + 1 .. l : p[j].part # "blocks" /\ ~RelinksOn(x, p[j]),
           Broken(x), Counts(x, p[k + 1])
    PROVE  Told(x, p, k)
<1>1. l \in k + 1 .. l
  OBVIOUS
<1>2. NamedAt(x, p, k)
  BY <1>1 DEF NamedAt
<1> QED BY <1>2 DEF Told, DangerAt

LEMMA EntryTold ==
    ASSUME IInv, Sound, SlotsFree(inodeBitmap, inodeTable), DiskType',
           NEW D, NEW up, NEW place, NEW depth, InTree(D, up, place, depth),
           NEW d \in D, NEW n, NEW b, NEW own, NEW pos, NEW e, Named(e), e.i_no = n,
           Made(d, n, b, own), Placed(D, d, pos, b, e),
           NEW E, Tidy(inodeBitmap', blockBitmap', inodeTable', blocks', E), E \subseteq inodeBitmap',
           NEW p, NEW j, EntersAt(p, j, d, n, b), NEW f, Under(f, p),
           f[j + 4] = Disk(inodeBitmap', blockBitmap', inodeTable', blocks'),
           Like(f[j], inodeBitmap, inodeBitmap, blockBitmap, inodeTable, blocks, D)
    PROVE  Told(f[j], p, j) /\ Told(f[j + 1], p, j + 1) /\ Told(f[j + 2], p, j + 2) /\ Told(f[j + 3], p, j + 3)
<1> DEFINE ib == inodeBitmap
           bb == blockBitmap
           t == inodeTable
           t2 == inodeTable'
           bl == blocks
           x == f[j]
           x1 == f[j + 1]
           x2 == f[j + 2]
           x3 == f[j + 3]
           w1 == WriteBlock(b)
           w2 == SyncInode(d)
           w3 == SyncInode(n)
           w4 == Write("inodeBitmap", n, inodeBitmap')
           news == \E k \in BlockIdx : At(t2, d, k) # At(t, d, k)
<1>1. /\ j \in Nat /\ Len(p) = j + 4
      /\ p[j + 1] = w1 /\ p[j + 2] = w2 /\ p[j + 3] = w3 /\ p[j + 4] = w4
  BY DEF EntersAt
<1>2. /\ x1 = write_blocks_to_disk(x, w1) /\ x2 = write_blocks_to_disk(x1, w2)
      /\ x3 = write_blocks_to_disk(x2, w3)
  <2>1. /\ j + 1 \in 1 .. Len(p) /\ j + 2 \in 1 .. Len(p) /\ j + 3 \in 1 .. Len(p)
        /\ j + 1 - 1 = j /\ j + 2 - 1 = j + 1 /\ j + 3 - 1 = j + 2
    BY <1>1
  <2> QED BY <1>1, <2>1 DEF Under
<1>3. Tidy(ib, bb, t, bl, D) /\ D \subseteq ib /\ ib \subseteq Inodes
  BY TidyTree DEF IInv, DiskType
<1>17. /\ Counts(x3, w4) /\ Counts(x2, w3) /\ (~news => Counts(x1, w2))
       /\ p[j + 1 + 1] = w2 /\ p[j + 2 + 1] = w3 /\ p[j + 3 + 1] = w4
  <2>1. j + 1 + 1 = j + 2 /\ j + 2 + 1 = j + 3 /\ j + 3 + 1 = j + 4
        /\ j + 4 \in 1 .. Len(p) /\ j + 4 - 1 = j + 3
    BY <1>1
  <2>2. write_blocks_to_disk(x3, w4) = Disk(inodeBitmap', blockBitmap', inodeTable', blocks')
    BY <1>1, <2>1 DEF Under
  <2> QED BY <1>1, <1>2, <2>1, <2>2, EntryCounts
<1>4. /\ x1.inodeBitmap = ib /\ x2.inodeBitmap = ib /\ x3.inodeBitmap = ib /\ x1.inodeTable = x.inodeTable
      /\ HasEntry(x2, D) /\ HasEntry(x3, D) /\ (~news => HasEntry(x1, D))
  BY <1>2, EntryWrites
<1>5. n \notin ib /\ Marks(w4) /\ w4.part = "inodeBitmap"
      /\ w1.part = "blocks" /\ w1.at = b /\ w2.part = "inodeTable" /\ w2.at = d /\ w2.value = t2[d]
      /\ w3.part = "inodeTable" /\ w3.at = n
  BY DEF Made, Marks, Write, WriteBlock, SyncInode
<1>6. \A k \in BlockIdx : At(t2, d, k) = NoBlock => At(t, d, k) = NoBlock
  BY DEF Placed, NoBlock, Blocks
<1>7. /\ t2[d].i_block \in [BlockIdx -> Blocks \cup {NoBlock}]
      /\ t[d].i_block \in [BlockIdx -> Blocks \cup {NoBlock}]
      /\ x.inodeTable[d].i_block = t[d].i_block
  <2>1. d \in Inodes /\ t \in [Inodes -> InodeImages] /\ t2 \in [Inodes -> InodeImages]
    BY <1>3 DEF IInv, DiskType
  <2> QED BY <1>3, <2>1, Images DEF Like
<1> HIDE DEF w1, w2, w3, w4, x, x1, x2, x3
<1>8. \A y : y.inodeBitmap = ib => ~RelinksOn(y, w3) /\ ~RelinksOn(y, w4)
  BY <1>5 DEF RelinksOn
<1>9. ~LoosensOn(x, w1) /\ ~LoosensOn(x1, w2)
  <2>1. ~LoosensOn(x, w1)
    BY <1>5 DEF LoosensOn, RelinksOn
  <2>2. \A k \in BlockIdx : w2.value.i_block[k] = NoBlock => x1.inodeTable[w2.at].i_block[k] = NoBlock
    BY <1>4, <1>5, <1>6, <1>7 DEF At
  <2> QED BY <2>1, <2>2 DEF LoosensOn
<1>10. Told(x, p, j)
  <2>1. j + 1 \in j + 1 .. Len(p)
    BY <1>1
  <2>2. ~NamedAt(x, p, j)
    BY <1>1, <1>5, <2>1 DEF NamedAt
  <2>3. ~LoosensOn(x, p[j + 1])
    BY <1>1, <1>9
  <2>4. \A m \in D : ~LateOn(x, p[j + 1], m)
    BY <1>1, <1>5 DEF LateOn
  <2> QED BY <1>3, <2>2, <2>3, <2>4, LikeTold DEF x
<1>11. \A k \in j + 2 .. j + 4 : k = j + 2 \/ k = j + 3 \/ k = j + 4
  BY <1>1
<1>12. \A y : HasEntry(y, D) /\ y.inodeBitmap = ib => Broken(y)
  <2> SUFFICES ASSUME NEW y, HasEntry(y, D), y.inodeBitmap = ib PROVE Broken(y)
    OBVIOUS
  <2>1. e.i_no \notin y.inodeBitmap
    BY <1>5
  <2> QED BY <2>1, EntryShows
<1>13. Told(x3, p, j + 3)
  <2>1. \A k \in j + 3 + 1 .. j + 4 : p[k].part # "blocks" /\ ~RelinksOn(x3, p[k])
    <3>1. \A k \in j + 3 + 1 .. j + 4 : k = j + 4
      BY <1>1
    <3> QED BY <1>1, <1>4, <1>5, <1>8, <3>1
  <2>2. j + 3 \in Nat /\ j + 4 \in Nat /\ j + 3 < j + 4
    BY <1>1
  <2>3. Broken(x3) /\ Marks(p[j + 4])
    BY <1>1, <1>4, <1>5, <1>12
  <2>5. Counts(x3, p[j + 3 + 1])
    BY <1>17
  <2> QED BY <1>1, <2>1, <2>2, <2>3, <2>5, NamedTold
<1>14. Told(x2, p, j + 2)
  <2>1. \A k \in j + 2 + 1 .. j + 4 : p[k].part # "blocks" /\ ~RelinksOn(x2, p[k])
    <3>1. \A k \in j + 2 + 1 .. j + 4 : k = j + 3 \/ k = j + 4
      BY <1>1
    <3> QED BY <1>1, <1>4, <1>5, <1>8, <3>1
  <2>2. j + 2 \in Nat /\ j + 4 \in Nat /\ j + 2 < j + 4
    BY <1>1
  <2>3. Broken(x2) /\ Marks(p[j + 4])
    BY <1>1, <1>4, <1>5, <1>12
  <2>5. Counts(x2, p[j + 2 + 1])
    BY <1>17
  <2> QED BY <1>1, <2>1, <2>2, <2>3, <2>5, NamedTold
<1>15. ASSUME ~news PROVE Told(x1, p, j + 1)
  <2>1. ~RelinksOn(x1, w2)
    <3>1. \A k \in BlockIdx : t2[d].i_block[k] = t[d].i_block[k]
      BY <1>15 DEF At
    <3>2. t2[d].i_block = t[d].i_block
      BY <1>7, <3>1
    <3> QED BY <1>4, <1>5, <1>7, <3>2 DEF RelinksOn
  <2>2. \A k \in j + 1 + 1 .. j + 4 : p[k].part # "blocks" /\ ~RelinksOn(x1, p[k])
    <3>1. \A k \in j + 1 + 1 .. j + 4 : k = j + 2 \/ k = j + 3 \/ k = j + 4
      BY <1>1
    <3> QED BY <1>1, <1>4, <1>5, <1>8, <2>1, <3>1
  <2>3. j + 1 \in Nat /\ j + 4 \in Nat /\ j + 1 < j + 4
    BY <1>1
  <2>4. Broken(x1) /\ Marks(p[j + 4])
    BY <1>1, <1>4, <1>5, <1>12, <1>15
  <2>5. Counts(x1, p[j + 1 + 1])
    BY <1>15, <1>17
  <2> QED BY <1>1, <2>2, <2>3, <2>4, <2>5, NamedTold
<1>16. ASSUME news PROVE Told(x1, p, j + 1)
  <2>1. PICK k \in BlockIdx : At(t2, d, k) # At(t, d, k)
    BY <1>16
  <2>2. At(t2, d, k) = b /\ b \in Blocks /\ b \notin bb
    <3>1. k = pos[1] /\ At(t2, d, k) = b /\ b \in Blocks
      BY <2>1 DEF Placed
    <3> QED BY <2>1, <3>1 DEF Placed
  <2>3. RelinksOn(x1, w2)
    <3>1. t2[d].i_block[k] \in Blocks /\ ZeroInode.i_block[k] = NoBlock /\ NoBlock \notin Blocks
      BY <2>2 DEF At, ZeroInode, inode_init, NoBlock, Blocks
    <3>2. t2[d] # ZeroInode
      BY <3>1
    <3>3. t2[d].i_block # t[d].i_block
      BY <2>1 DEF At
    <3> QED BY <1>3, <1>4, <1>5, <1>7, <3>2, <3>3 DEF RelinksOn
  <2>4. ~NamedAt(x1, p, j + 1)
    <3>1. j + 2 \in j + 1 + 1 .. Len(p)
      BY <1>1
    <3> QED BY <1>1, <2>3, <3>1 DEF NamedAt
  <2>5. ~LoosensOn(x1, p[j + 1 + 1])
    <3>1. j + 1 + 1 = j + 2
      BY <1>1
    <3> QED BY <1>1, <1>9, <3>1
  <2>6. Like(x1, ib, ib, bb, t, bl, D)
    <3>1. b \notin DirBlocks(t, D)
      BY <1>3, <2>2 DEF DirBlocks, Tidy, OwnedUsed
    <3>2. w1 = Write(w1.part, w1.at, w1.value) /\ (b \in Blocks => w1.value \in [EntryIdx -> Entries])
      BY DEF w1, WriteBlock, Write, DiskType
    <3>3. Harmless(w1, ib, ib, bb, t, D)
      BY <1>5, <3>1, <3>2 DEF Harmless
    <3> QED BY <1>2, <1>3, <3>2, <3>3, HarmlessLike DEF x
  <2>7. \A m \in D : ~LateOn(x1, p[j + 1 + 1], m)
    <3>1. t2[d].i_block # x1.inodeTable[d].i_block
      BY <1>4, <1>7, <2>1 DEF At
    <3> QED BY <1>5, <1>17, <3>1 DEF LateOn
  <2> QED BY <1>3, <2>4, <2>5, <2>6, <2>7, LikeTold
<1> QED BY <1>10, <1>13, <1>14, <1>15, <1>16 DEF x, x1, x2, x3

(* The writes before them.                                                 *)
CreationStart(d, n, own) ==
    LET dots == Increasing(own)
    IN  SyncBlockBits(dots, blockBitmap) \o [j \in DOMAIN dots |-> WriteBlock(dots[j])]
            \o SyncBlockBits(Increasing((blockBitmap' \ blockBitmap) \ own), blockBitmap \cup own)

LEMMA CreationQuiet ==
    ASSUME IInv, Sound, DiskType', NEW D, NEW up, NEW place, NEW depth, InTree(D, up, place, depth),
           NEW d, NEW n, NEW b, NEW own, Made(d, n, b, own)
    PROVE  /\ CreationWrites(d) = CreationStart(d, n, own) \o EnterWrites(d, n, b)
           /\ AllQuiet(CreationStart(d, n, own), inodeBitmap, inodeBitmap, blockBitmap, inodeTable, D)
<1> DEFINE ib == inodeBitmap
           ib2 == inodeBitmap'
           bb == blockBitmap
           bb2 == blockBitmap'
           t == inodeTable
           t2 == inodeTable'
           bl2 == blocks'
           dots == Increasing(own)
           W1 == SyncBlockBits(dots, bb)
           W2 == [j \in DOMAIN dots |-> WriteBlock(dots[j])]
           W3 == SyncBlockBits(Increasing((bb2 \ bb) \ own), bb \cup own)
<1>1. CreationWrites(d) = W1 \o W2 \o W3 \o EnterWrites(d, n, b)
  <2>1. n = CHOOSE x \in Inodes : x \in ib2 \ ib
    <3>1. \A x : x \in Inodes /\ x \in ib2 \ ib <=> x = n
      BY DEF Made
    <3> QED BY <3>1
  <2>2. /\ own = {t2[n].i_block[k] : k \in BlockIdx} \ {NoBlock}
        /\ b = t2[d].i_block[First(Vacant(inode_at(d)))[1]]
    BY DEF Made
  <2> QED BY <2>1, <2>2, Zenon DEF CreationWrites
<1>2. CreationStart(d, n, own) = W1 \o W2 \o W3
  BY Zenon DEF CreationStart
<1>3. /\ bb \subseteq Blocks /\ own \subseteq Blocks /\ (bb2 \ bb) \ own \subseteq Blocks
      /\ own \cap bb = {} /\ bb \cup own \subseteq Blocks /\ bl2 \in [Blocks -> [EntryIdx -> Entries]]
      /\ D \subseteq ib /\ OwnedUsed(ib, bb, t)
  BY DEF Made, IInv, DiskType, InTree, Tree, TreeType, Sound, Owned
<1>4. AllQuiet(W1, ib, ib, bb, t, D)
  BY <1>3, QuietTaken
<1>5. AllQuiet(W2, ib, ib, bb, t, D)
  <2>1. IsFiniteSet(own) /\ own \subseteq Int
    <3>1. IsFiniteSet(Blocks) /\ Blocks \subseteq Int
      BY FS_Interval, SizesAssumption DEF Blocks
    <3> QED BY <1>3, <3>1, FS_Subset
  <2>2. /\ dots \in Seq(own) /\ DOMAIN dots = 1 .. Len(dots)
        /\ \A k \in 1 .. Len(dots) : dots[k] \in own
    BY <2>1, IncreasingFacts
  <2> HIDE DEF dots
  <2>3. Len(dots) \in Nat
    BY <2>2, LenProperties
  <2>4. \A k \in 1 .. Len(dots) : dots[k] \notin DirBlocks(t, D)
    BY <1>3, <2>2 DEF DirBlocks, OwnedUsed
  <2>5. W2 = [k \in 1 .. Len(dots) |-> Write("blocks", dots[k], bl2[dots[k]])]
    BY <2>2, Zenon DEF WriteBlock
  <2> DEFINE m == Len(dots)
  <2> HIDE DEF W2, m
  <2>6. AllQuiet([k \in 1 .. m |-> Write("blocks", dots[k], bl2[dots[k]])], ib, ib, bb, t, D)
    BY <1>3, <2>3, <2>4, QuietBlocks DEF m
  <2> QED BY <2>5, <2>6 DEF m
<1>6. AllQuiet(W3, ib, ib, bb, t, D)
  <2> DEFINE bits == (bb2 \ bb) \ own
             mem == bb \cup own
  <2>1. bits \subseteq Blocks /\ bits \cap mem = {} /\ mem \in SUBSET Blocks /\ bb \subseteq mem
    BY <1>3
  <2> HIDE DEF bits, mem
  <2>2. AllQuiet(SyncBlockBits(Increasing(bits), mem), ib, ib, bb, t, D)
    BY <2>1, QuietTaken
  <2> QED BY <2>2 DEF bits, mem
<1> HIDE DEF W1, W2, W3
<1>7. AllQuiet(W1 \o W2, ib, ib, bb, t, D)
  BY <1>4, <1>5, QuietBoth
<1>8. AllQuiet(W1 \o W2 \o W3, ib, ib, bb, t, D)
  BY <1>6, <1>7, QuietBoth
<1> QED BY <1>1, <1>2, <1>8

LEMMA CreationVia ==
    ASSUME IInv, Sound, SlotsFree(inodeBitmap, inodeTable), DiskType',
           NEW D, NEW up, NEW place, NEW depth, InTree(D, up, place, depth),
           NEW d \in D, NEW n, NEW b, NEW own, NEW pos, NEW e, Named(e), e.i_no = n,
           Made(d, n, b, own), Placed(D, d, pos, b, e),
           NEW E, Tidy(inodeBitmap', blockBitmap', inodeTable', blocks', E), E \subseteq inodeBitmap'
    PROVE  Via(Disk(inodeBitmap, blockBitmap, inodeTable, blocks), CreationWrites(d))
<1> DEFINE ib == inodeBitmap
           bb == blockBitmap
           t == inodeTable
           bl == blocks
           p == CreationWrites(d)
           s == CreationStart(d, n, own)
           u == EnterWrites(d, n, b)
           j == Len(s)
<1>1. Tidy(ib, bb, t, bl, D)
  BY TidyTree
<1>2. p = s \o u /\ AllQuiet(s, ib, ib, bb, t, D)
  BY CreationQuiet
<1>3. DiskType
  BY DEF IInv
<1>4. Brings(Disk(ib, bb, t, bl), p, Disk(inodeBitmap', blockBitmap', inodeTable', blocks'))
  BY <1>3, CreationBrings
<1>5. \E S : u \in Seq(S)
  <2> DEFINE w1 == WriteBlock(b)
             w2 == SyncInode(d)
             w3 == SyncInode(n)
             w4 == Write("inodeBitmap", n, inodeBitmap')
  <2>1. u = <<w1, w2, w3, w4>>
    BY Zenon DEF EnterWrites
  <2> HIDE DEF w1, w2, w3, w4, u
  <2>2. u \in Seq({w1, w2, w3, w4})
    BY <2>1
  <2> QED BY <2>2
<1>6. /\ Len(u) = 4 /\ u[1] = WriteBlock(b) /\ u[2] = SyncInode(d) /\ u[3] = SyncInode(n)
      /\ u[4] = Write("inodeBitmap", n, inodeBitmap')
  BY DEF EnterWrites
<1> HIDE DEF p, s, u
<1>7. PICK S, T : s \in Seq(S) /\ u \in Seq(T)
  BY <1>2, <1>5 DEF AllQuiet
<1>8. /\ Len(p) = Len(s) + Len(u) /\ Len(s) \in Nat
      /\ \A k \in 1 .. Len(u) : p[Len(s) + k] = u[k]
  BY <1>2, <1>7, ConcatParts
<1> HIDE DEF j
<1>9. EntersAt(p, j, d, n, b)
  <2>1. 1 \in 1 .. Len(u) /\ 2 \in 1 .. Len(u) /\ 3 \in 1 .. Len(u) /\ 4 \in 1 .. Len(u)
    BY <1>6
  <2> QED BY <1>6, <1>8, <2>1 DEF EntersAt, j
<1>10. PICK f : /\ f[0] = Disk(ib, bb, t, bl) /\ Under(f, p)
                /\ f[j + 4] = Disk(inodeBitmap', blockBitmap', inodeTable', blocks')
  <2>1. Len(p) = j + 4
    BY <1>9 DEF EntersAt
  <2> QED BY <1>4, <2>1 DEF Brings, Under
<1>11. Like(f[j], ib, ib, bb, t, bl, D) /\ \A k \in 0 .. j - 1 : Told(f[k], p, k)
  <2>1. 1 \in 1 .. Len(u) /\ u[1].part = "blocks"
    BY <1>6 DEF WriteBlock, Write
  <2>2. \E k \in 1 .. Len(u) : u[k].part = "blocks"
    BY <2>1
  <2> QED BY <1>1, <1>2, <1>7, <1>10, <2>2, QuietStart DEF j
<1>12. Told(f[j], p, j) /\ Told(f[j + 1], p, j + 1) /\ Told(f[j + 2], p, j + 2) /\ Told(f[j + 3], p, j + 3)
  BY <1>9, <1>10, <1>11, EntryTold
<1>13. ASSUME NEW k \in 0 .. Len(p) - 1 PROVE Told(f[k], p, k)
  <2>1. k \in 0 .. j - 1 \/ k = j \/ k = j + 1 \/ k = j + 2 \/ k = j + 3
    BY <1>9 DEF EntersAt
  <2> QED BY <1>11, <1>12, <2>1
<1>14. Via(Disk(ib, bb, t, bl), p)
  BY <1>4, <1>10, <1>13 DEF Via, Brings
<1> QED BY <1>14 DEF p

LEMMA CreatesVia ==
    ASSUME TreeInv, TreeInv', SlotsFree(inodeBitmap, inodeTable), Usable,
           NEW p \in CreatePaths \cup MkdirPaths,
           (sys_open_create(p) /\ p \in CreatePaths) \/ (sys_mkdir(p) /\ p \in MkdirPaths)
    PROVE  /\ Via(Disk(inodeBitmap, blockBitmap, inodeTable, blocks),
                  CreationWrites(search_file(p).parent_dir))
           /\ SlotsFree(inodeBitmap', inodeTable')
<1> DEFINE d == search_file(p).parent_dir
<1>1. IInv /\ Sound /\ DiskType'
  BY DEF TreeInv, IInv
<1>2. PICK D, up, place, depth : InTree(D, up, place, depth)
  BY DEF TreeInv
<1>3. Entering(D, d)
  BY <1>1, <1>2, CreatesEnter
<1> HIDE DEF d
<1>4. PICK n, e, i, own, image :
          /\ MayEnter(D, d, n, e, e.f_type) /\ NewInode(n, d, e.f_type, i, own, image)
          /\ Enter(d, e, i, own, image)
  BY <1>3 DEF Entering
<1>5. d \in D /\ n \in Inodes \ inodeBitmap /\ e \in Entries /\ e.i_no = n /\ e.filename \in Names
  BY <1>4, Zenon DEF MayEnter
<1>6. PICK b, pos : Made(d, n, b, own) /\ Placed(D, d, pos, b, e)
  BY <1>1, <1>2, <1>4, <1>5, EnterMade
<1>7. Named(e)
  <2>1. e.f_type # "FT_UNKNOWN"
    BY <1>4 DEF NewInode
  <2> QED BY <1>5, <2>1, NamesApart DEF Named
<1>8. SlotsFree(inodeBitmap', inodeTable')
  <2>1. d \in inodeBitmap
    BY <1>2, <1>5 DEF InTree, Tree, TreeType
  <2> QED BY <1>6, <2>1 DEF Made, SlotsFree
<1>9. PICK E : /\ Tidy(inodeBitmap', blockBitmap', inodeTable', blocks', E)
               /\ E \subseteq inodeBitmap'
  BY <1>8, TidyTreeNext
<1>10. Via(Disk(inodeBitmap, blockBitmap, inodeTable, blocks), CreationWrites(d))
  BY <1>1, <1>2, <1>5, <1>6, <1>7, <1>9, CreationVia
<1> QED BY <1>8, <1>10 DEF d

-----------------------------------------------------------------------------
(* A removal.                                                              *)

(* What is on the disk after the first write, after the second.            *)
Loosened(back) == Disk(inodeBitmap, blockBitmap \ back, inodeTable, blocks')
Detached(d, back) ==
    Disk(inodeBitmap, blockBitmap \ back, [inodeTable EXCEPT ![d] = inodeTable'[d]], blocks')

(* Of a directory d that has an entry to lose.                             *)
LEMMA LoosensFacts ==
    ASSUME DiskType, NEW d \in Inodes, NEW b, NEW back, NEW x \in BlockIdx, Loosens(d, x, b, back)
    PROVE  /\ inodeTable'[d].i_no = inodeTable[d].i_no
           /\ inodeTable'[d].i_size = inodeTable[d].i_size - 1
           /\ back = {} => inodeTable'[d].i_block = inodeTable[d].i_block
           /\ back # {} => inodeTable'[d].i_block[x] = NoBlock
<1> DEFINE i == inodeTable[d]
           v == IF back = {} THEN b ELSE NoBlock
           m == [i.i_block EXCEPT ![x] = v]
           s == i.i_size - 1
<1>1. inodeTable \in [Inodes -> InodeImages] /\ i \in InodeImages
      /\ i.i_block \in [BlockIdx -> Blocks \cup {NoBlock}]
  BY Images DEF DiskType
<1>2. i.i_block[x] = b /\ inodeTable'[d] = [i EXCEPT !.i_size = s, !.i_block = m]
  BY Zenon DEF Loosens, At
<1>3. m[x] = v /\ (v = b => m = i.i_block)
  BY <1>1, <1>2
<1> HIDE DEF i, m, s
<1>4. inodeTable'[d] = [i_no |-> i.i_no, i_size |-> s, i_block |-> m]
  BY <1>1, <1>2, WrittenImage
<1>5. inodeTable'[d].i_no = i.i_no /\ inodeTable'[d].i_size = s /\ inodeTable'[d].i_block = m
  BY <1>4
<1> QED BY <1>3, <1>5 DEF i, s

(* With the bit given back, the directory shows a block that is free.      *)
LEMMA LoosenedBroken ==
    ASSUME IInv, Sound, DiskType', NEW D, NEW up, NEW place, NEW depth, InTree(D, up, place, depth),
           NEW d \in D, NEW n, NEW b, NEW back, NEW own, Removed(d, n, b, back, own), back # {},
           inodeTable[d].i_size > 2
    PROVE  /\ Broken(Loosened(back))
           /\ LoosensOn(Loosened(back), SyncInode(d))
<1> DEFINE ib == inodeBitmap
           bb == blockBitmap
           t == inodeTable
           bl == blocks
           x1 == Loosened(back)
<1>1. /\ Tree(ib, D, up, place, depth, t, bl) /\ D \subseteq Inodes /\ d \in Inodes /\ d \in ib
      /\ DiskType /\ bb \subseteq Blocks /\ NoBlock \notin Blocks /\ t \in [Inodes -> InodeImages]
  BY DEF InTree, Tree, TreeType, IInv, DiskType, NoBlock, Blocks
<1>2. PICK x \in BlockIdx : Loosens(d, x, b, back)
  BY DEF Removed
<1>3. back = {b} /\ b \in bb /\ At(t, d, x) = b /\ blocks' = bl
  BY <1>2 DEF Removed, Loosens
<1>4. /\ inodeTable'[d].i_block[x] = NoBlock /\ inodeTable'[d].i_size = t[d].i_size - 1
      /\ t[d].i_size \in Int
  <2>1. back # {}
    BY <1>3
  <2>2. t[d].i_size \in Int
    BY <1>1, Images
  <2> QED BY <1>1, <1>2, <2>1, <2>2, LoosensFacts
<1>5. x1.inodeBitmap = ib /\ x1.blockBitmap = bb \ {b} /\ x1.inodeTable = t /\ x1.blocks = bl
  BY <1>3 DEF Loosened, Disk
<1>6. DiskTyped(x1.inodeBitmap, x1.blockBitmap, x1.inodeTable, x1.blocks)
  BY <1>1, <1>5 DEF DiskTyped, IInv, DiskType
<1> HIDE DEF x1
<1>7. Chained(t, bl, D, up, depth)
  BY <1>1, TreeChained
<1>8. Torn(x1, D, up, depth, d)
  BY <1>1, <1>3, <1>5, <1>6, <1>7 DEF Torn
<1>9. RelinksOn(x1, SyncInode(d))
  <2>1. inodeTable'[d] # ZeroInode
    <3>1. inodeTable'[d].i_size # 0
      BY <1>4
    <3> QED BY <3>1 DEF ZeroInode, inode_init
  <2>2. inodeTable'[d].i_block # t[d].i_block
    BY <1>1, <1>3, <1>4 DEF At
  <2> QED BY <1>1, <1>5, <2>1, <2>2 DEF RelinksOn, SyncInode, Write
<1>10. LoosensOn(x1, SyncInode(d))
  <2>1. SyncInode(d).at = d /\ SyncInode(d).value = inodeTable'[d]
    BY DEF SyncInode, Write
  <2>2. t[d].i_block[x] # NoBlock
    BY <1>1, <1>3 DEF At
  <2> QED BY <1>4, <1>5, <1>9, <2>1, <2>2 DEF LoosensOn
<1> QED BY <1>8, <1>10 DEF Broken, x1

(* With the entry cleared, the disk is as after the call, but for i_size.  *)
LEMMA LoosenedLike ==
    ASSUME DiskType, DiskType', SlotsFree(inodeBitmap, inodeTable),
           NEW d, NEW n, NEW b, NEW own, Removed(d, n, b, {}, own),
           d \in Inodes, inodeTable[d].i_size > 2,
           NEW E, E \subseteq inodeBitmap'
    PROVE  /\ Like(Loosened({}), inodeBitmap', inodeBitmap, blockBitmap', inodeTable', blocks', E)
           /\ ~LoosensOn(Loosened({}), SyncInode(d))
<1> DEFINE ib == inodeBitmap
           bb == blockBitmap
           t == inodeTable
           t2 == inodeTable'
           bl2 == blocks'
           x1 == Loosened({})
<1>1. /\ inodeBitmap' = ib \ {n} /\ n \in Inodes /\ blockBitmap' \subseteq bb
      /\ ib \subseteq Inodes /\ bb \subseteq Blocks /\ t \in [Inodes -> InodeImages]
      /\ t2 \in [Inodes -> InodeImages] /\ bl2 \in [Blocks -> [EntryIdx -> Entries]]
  BY DEF Removed, DiskType
<1>2. PICK x \in BlockIdx : Loosens(d, x, b, {})
  BY DEF Removed
<1>3. t2[d].i_no = t[d].i_no /\ t2[d].i_block = t[d].i_block
  BY <1>2, LoosensFacts
<1>4. \A m \in inodeBitmap' : m # d => t2[m] = t[m]
  <2> DEFINE v == t2[d]
             u == [t EXCEPT ![d] = v]
  <2>1. t2 = [u EXCEPT ![n] = ZeroInode]
    BY Zenon DEF Removed
  <2> HIDE DEF v, t2, t
  <2>2. DOMAIN u = Inodes /\ \A m \in Inodes : m # d => u[m] = t[m]
    BY <1>1
  <2> HIDE DEF u
  <2>3. \A m \in Inodes : m # n => t2[m] = u[m]
    BY <2>1, <2>2
  <2> QED BY <1>1, <2>2, <2>3
<1>5. /\ x1.inodeBitmap = ib /\ x1.blockBitmap = bb /\ x1.inodeTable = t /\ x1.blocks = bl2
      /\ x1 = Disk(x1.inodeBitmap, x1.blockBitmap, x1.inodeTable, x1.blocks)
  BY DEF Loosened, Disk
<1> HIDE DEF x1, t, t2, bl2
<1>6. Formed(x1)
  BY <1>1, <1>5 DEF Formed, DiskTyped
<1>7. Like(x1, inodeBitmap', ib, blockBitmap', t2, bl2, E)
  <2>1. \A m \in inodeBitmap' : t[m].i_no = t2[m].i_no /\ t[m].i_block = t2[m].i_block
    BY <1>3, <1>4
  <2>2. \A m \in E : t[m].i_size = 2 => t2[m].i_size = 2
    <3>1. t[d].i_size # 2
      BY Images, <1>1 DEF t
    <3> QED BY <1>4, <3>1
  <2> QED BY <1>1, <1>5, <1>6, <2>1, <2>2 DEF Like, SlotsFree, t
<1>8. ~LoosensOn(x1, SyncInode(d))
  <2>1. SyncInode(d).at = d /\ SyncInode(d).value = t2[d]
    BY DEF SyncInode, Write, t2
  <2> QED BY <1>3, <1>5, <2>1 DEF LoosensOn, RelinksOn
<1> QED BY <1>7, <1>8 DEF x1, t2, bl2

(* With the directory written, the disk has the tree of after the call.    *)
LEMMA DetachedLike ==
    ASSUME DiskType, DiskType', SlotsFree(inodeBitmap, inodeTable),
           NEW d \in inodeBitmap, NEW n, NEW b, NEW back, NEW own, Removed(d, n, b, back, own),
           d \in Inodes, NEW E, E \subseteq inodeBitmap'
    PROVE  Like(Detached(d, back), inodeBitmap', inodeBitmap, blockBitmap', inodeTable', blocks', E)
<1> DEFINE ib == inodeBitmap
           bb == blockBitmap
           t == inodeTable
           t2 == inodeTable'
           bl2 == blocks'
           v == t2[d]
           u == [t EXCEPT ![d] = v]
           x2 == Detached(d, back)
<1>1. /\ inodeBitmap' = ib \ {n} /\ n \in Inodes /\ blockBitmap' \subseteq bb \ back
      /\ ib \subseteq Inodes /\ bb \subseteq Blocks /\ t \in [Inodes -> InodeImages]
      /\ t2 \in [Inodes -> InodeImages] /\ bl2 \in [Blocks -> [EntryIdx -> Entries]]
  BY DEF Removed, DiskType
<1>2. x2 = Disk(ib, bb \ back, u, bl2) /\ t2 = [u EXCEPT ![n] = ZeroInode]
  BY Zenon DEF Removed, Detached
<1>3. x2.inodeBitmap = ib /\ x2.blockBitmap = bb \ back /\ x2.inodeTable = u /\ x2.blocks = bl2
  BY <1>2 DEF Disk
<1>4. u \in [Inodes -> InodeImages]
  <2>1. v \in InodeImages
    BY <1>1
  <2> HIDE DEF v
  <2> QED BY <1>1, <2>1
<1>7. SlotsFree(ib, u)
  <2> HIDE DEF v
  <2> QED BY <1>1 DEF SlotsFree
<1> HIDE DEF x2, u, v, t, t2, bl2
<1>5. \A m \in inodeBitmap' : u[m] = t2[m]
  BY <1>1, <1>2, <1>4
<1>6. Formed(x2)
  BY <1>1, <1>2, <1>3, <1>4 DEF Formed, DiskTyped
<1> QED BY <1>1, <1>3, <1>5, <1>6, <1>7 DEF Like, x2, t2, bl2

(* The size that goes down is not one that comes late.                     *)
LEMMA LoosenedNotLate ==
    ASSUME DiskType, NEW d \in Inodes, NEW n, NEW b, NEW back, NEW own, Removed(d, n, b, back, own)
    PROVE  \A m : ~LateOn(Loosened(back), SyncInode(d), m)
<1>1. PICK x \in BlockIdx : Loosens(d, x, b, back)
  BY DEF Removed
<1>2. inodeTable'[d].i_size = inodeTable[d].i_size - 1
  BY <1>1, LoosensFacts
<1>3. inodeTable[d].i_size \in Int
  BY Images DEF DiskType
<1>4. ~(inodeTable'[d].i_size > inodeTable[d].i_size)
  BY <1>2, <1>3
<1>5. SyncInode(d).at = d /\ SyncInode(d).value = inodeTable'[d]
      /\ Loosened(back).inodeTable = inodeTable
  BY DEF SyncInode, Write, Loosened, Disk
<1> QED BY <1>4, <1>5 DEF LateOn

(* The blocks and the inode itself come when no name leads to them.        *)
LEMMA ReleaseQuiet ==
    ASSUME DiskType, DiskType', NEW d, NEW n, NEW b, NEW back, NEW own, Removed(d, n, b, back, own),
           NEW E
    PROVE  AllQuiet(ReleaseWrites(n, Addresses(n), blockBitmap \ back),
                    inodeBitmap', inodeBitmap, blockBitmap', inodeTable', E)
<1> DEFINE ib == inodeBitmap
           ib2 == inodeBitmap'
           bb2 == blockBitmap'
           t2 == inodeTable'
           mem == blockBitmap \ back
           addr == Addresses(n)
           W1 == SyncBlockBits(addr, mem)
           v == Write("inodeBitmap", n, ib2)
           w == Write("inodeTable", n, ZeroInode)
           W2 == <<v, w>>
<1>1. /\ own = {inodeTable[n].i_block[k] : k \in BlockIdx} \ {NoBlock}
      /\ own \in SUBSET Blocks /\ mem \in SUBSET Blocks /\ bb2 \subseteq mem /\ bb2 \cap own = {}
      /\ ib2 = ib \ {n}
  BY DEF Removed, DiskType
<1>2. /\ addr \in Seq(Blocks) /\ \A k \in 1 .. Len(addr) : addr[k] \in own
  BY <1>1, AddressesFacts
<1>3. ReleaseWrites(n, addr, mem) = W1 \o W2
  BY Zenon DEF ReleaseWrites
<1> HIDE DEF addr, mem, bb2
<1>4. \A k \in 1 .. Len(addr) : addr[k] \notin bb2
  BY <1>1, <1>2
<1>5. AllQuiet(W1, ib2, ib, bb2, t2, E)
  BY <1>1, <1>2, <1>4, QuietBits
<1>6. AllQuiet(W2, ib2, ib, bb2, t2, E)
  <2>1. Quiet(v, ib2, ib, bb2, t2, E)
    BY <1>1 DEF Quiet, Harmless, Marks, Write
  <2>2. Quiet(w, ib2, ib, bb2, t2, E)
    BY <1>1 DEF Quiet, Harmless, Marks, Write
  <2> HIDE DEF v, w
  <2>3. W2 \in Seq({v, w}) /\ Len(W2) = 2 /\ W2[1] = v /\ W2[2] = w
    OBVIOUS
  <2> HIDE DEF W2
  <2>4. \A k \in 1 .. 2 : k = 1 \/ k = 2
    OBVIOUS
  <2>5. \A k \in 1 .. Len(W2) : Quiet(W2[k], ib2, ib, bb2, t2, E)
    BY <2>1, <2>2, <2>3, <2>4
  <2> QED BY <2>3, <2>5 DEF AllQuiet
<1> HIDE DEF W1, W2
<1>7. AllQuiet(W1 \o W2, ib2, ib, bb2, t2, E)
  BY <1>5, <1>6, QuietBoth
<1> QED BY <1>3, <1>7 DEF addr, mem, bb2

(* w of the entry, w2 of the directory, then quiet writes s.               *)
LEMMA LoosenedVia ==
    ASSUME NEW w, NEW w2, NEW s, NEW p, p = (<<w>> \o <<w2>>) \o s, ~Marks(w), ~Marks(w2),
           NEW x, ~LoosensOn(x, w), Intact(x),
           NEW x1, x1 = write_blocks_to_disk(x, w),
           (LoosensOn(x1, w2) /\ Broken(x1)) \/ (~LoosensOn(x1, w2) /\ Intact(x1)),
           Counts(x, w), Counts(x1, w2),
           NEW x2, x2 = write_blocks_to_disk(x1, w2),
           NEW ib, NEW more, more \subseteq Inodes, NEW bb, NEW t, NEW bl, NEW D, D \subseteq ib,
           Tidy(ib, bb, t, bl, D), Like(x2, ib, more, bb, t, bl, D), AllQuiet(s, ib, more, bb, t, D),
           NEW y, Brings(x, p, y)
    PROVE  Via(x, p)
<1>1. PICK S : s \in Seq(S)
  BY DEF AllQuiet
<1> DEFINE u == <<w>> \o <<w2>>
<1>2. u \in Seq({w, w2}) /\ Len(u) = 2 /\ u[1] = w /\ u[2] = w2
  OBVIOUS
<1>3. p = u \o s
  OBVIOUS
<1> HIDE DEF u
<1>4. /\ p \in Seq({w, w2} \cup S) /\ Len(p) = Len(u) + Len(s) /\ Len(s) \in Nat
      /\ \A k \in 1 .. Len(u) : p[k] = u[k]
      /\ \A k \in 1 .. Len(s) : p[Len(u) + k] = s[k]
  BY <1>1, <1>2, <1>3, ConcatParts
<1> DEFINE n == Len(s)
<1> HIDE DEF n
<1>5. /\ n \in Nat /\ Len(p) = n + 2 /\ Len(p) \in Nat /\ p[1] = w /\ p[2] = w2
      /\ \A k \in 1 .. n : p[2 + k] = s[k]
  <2>1. 1 \in 1 .. Len(u) /\ 2 \in 1 .. Len(u) /\ 2 + Len(s) = Len(s) + 2
    BY <1>2, <1>4
  <2> QED BY <1>2, <1>4, <2>1 DEF n
<1>6. ASSUME NEW k \in 3 .. Len(p) PROVE Quiet(p[k], ib, more, bb, t, D)
  <2>1. k - 2 \in 1 .. n /\ 2 + (k - 2) = k
    BY <1>5
  <2>2. p[k] = s[k - 2]
    BY <1>5, <2>1
  <2> QED BY <2>1, <2>2 DEF AllQuiet, n
<1>7. \A k \in 1 .. Len(p) : ~Marks(p[k])
  <2>1. \A k \in 1 .. Len(p) : k = 1 \/ k = 2 \/ k \in 3 .. Len(p)
    BY <1>5
  <2> QED BY <1>5, <1>6, <2>1 DEF Quiet
<1>8. ASSUME NEW z, NEW k \in Nat PROVE ~NamedAt(z, p, k)
  <2>1. \A j \in k + 1 .. Len(p) : j \in 1 .. Len(p)
    BY <1>5
  <2> QED BY <1>7, <2>1 DEF NamedAt
<1>9. PICK f : f[0] = x /\ Under(f, p)
  BY DEF Brings, Under
<1>10. f[1] = x1 /\ f[2] = x2
  <2>1. 1 \in 1 .. Len(p) /\ 2 \in 1 .. Len(p) /\ 1 - 1 = 0 /\ 2 - 1 = 1
    BY <1>5
  <2>2. f[1] = write_blocks_to_disk(f[1 - 1], p[1]) /\ f[2] = write_blocks_to_disk(f[2 - 1], p[2])
    BY <1>9, <2>1 DEF Under
  <2> QED BY <1>5, <1>9, <2>1, <2>2
<1>11. Told(f[0], p, 0) /\ Told(f[1], p, 1)
  <2>1. 0 \in Nat /\ 1 \in Nat /\ 0 + 1 = 1 /\ 1 + 1 = 2
    OBVIOUS
  <2>2. DangerAt(x, p, 0) <=> FALSE
    BY <1>5, <1>8, <2>1 DEF DangerAt
  <2>3. DangerAt(x1, p, 1) <=> LoosensOn(x1, w2)
    BY <1>5, <1>8, <2>1 DEF DangerAt
  <2>4. Counts(x, p[0 + 1]) /\ Counts(x1, p[1 + 1])
    BY <1>5, <2>1
  <2> QED BY <1>9, <1>10, <2>2, <2>3, <2>4 DEF Told
<1>12. \A k \in 2 .. Len(p) : Like(f[k], ib, more, bb, t, bl, D)
  <2>1. Quietly(p, 2, Len(p), ib, more, bb, t, D)
    <3>1. 2 + 1 = 3
      OBVIOUS
    <3>2. \A k \in 2 + 1 .. Len(p) : Quiet(p[k], ib, more, bb, t, D)
      BY <1>6, <3>1, Zenon
    <3> QED BY <3>2, Zenon DEF Quietly
  <2>2. 2 \in Nat /\ Len(p) \in 2 .. Len(p)
    BY <1>5
  <2>3. Like(f[2], ib, more, bb, t, bl, D)
    BY <1>10
  <2> QED BY <1>5, <1>9, <2>1, <2>2, <2>3, QuietLike
<1>13. ASSUME NEW k \in 2 .. Len(p) - 1 PROVE Told(f[k], p, k)
  <2>1. k + 1 \in 3 .. Len(p) /\ k \in 2 .. Len(p) /\ k \in Nat
    BY <1>5
  <2>2. ~LoosensOn(f[k], p[k + 1])
    BY <1>6, <2>1, HarmlessLoosens DEF Quiet
  <2>3. ~NamedAt(f[k], p, k)
    BY <1>8, <2>1
  <2>4. \A d \in D : ~LateOn(f[k], p[k + 1], d)
    BY <1>6, <2>1, HarmlessLate DEF Quiet
  <2> QED BY <1>12, <2>1, <2>2, <2>3, <2>4, LikeTold
<1>14. \A k \in 0 .. Len(p) - 1 : Told(f[k], p, k)
  <2>1. \A k \in 0 .. Len(p) - 1 : k = 0 \/ k = 1 \/ k \in 2 .. Len(p) - 1
    BY <1>5
  <2> QED BY <1>11, <1>13, <2>1
<1> QED BY <1>4, <1>9, <1>14 DEF Via

LEMMA RemovalVia ==
    ASSUME IInv, Sound, SlotsFree(inodeBitmap, inodeTable), DiskType',
           NEW D, NEW up, NEW place, NEW depth, InTree(D, up, place, depth),
           NEW d \in D, NEW n, NEW b, NEW back, NEW own, Removed(d, n, b, back, own),
           inodeTable[d].i_size > 2,
           NEW E, Tidy(inodeBitmap', blockBitmap', inodeTable', blocks', E), E \subseteq inodeBitmap'
    PROVE  Via(Disk(inodeBitmap, blockBitmap, inodeTable, blocks), RemovalWrites(d, n))
<1> DEFINE ib == inodeBitmap
           ib2 == inodeBitmap'
           bb == blockBitmap
           bb2 == blockBitmap'
           t == inodeTable
           t2 == inodeTable'
           bl == blocks
           bl2 == blocks'
           x == Disk(ib, bb, t, bl)
           x1 == Loosened(back)
           x2 == Detached(d, back)
           p == RemovalWrites(d, n)
           s == ReleaseWrites(n, Addresses(n), bb \ back)
           w2 == SyncInode(d)
<1>1. /\ DiskType /\ d \in Inodes /\ d \in ib /\ NoBlock \notin bb
      /\ bb \subseteq Blocks /\ ib2 \subseteq Inodes /\ ib \subseteq Inodes
  BY DEF IInv, DiskType, InTree, Tree, TreeType, NoBlock, Blocks
<1>2. PICK w : Loosening(b, back, w)
  BY <1>1, FirstRemoval
<1>3. w.part = (IF back = {} THEN "blocks" ELSE "blockBitmap")
      /\ x1 = write_blocks_to_disk(x, w)
  BY <1>2 DEF Loosening, Loosened
<1>4. p = (<<w>> \o <<w2>>) \o s
  <2>1. p = UnlinkWrites(d, n) \o s
    BY <1>1, RemovalParts
  <2>2. UnlinkWrites(d, n) = <<w>> \o <<w2>>
    BY <1>2, Zenon DEF Removed, Loosening
  <2> QED BY <2>1, <2>2, Zenon
<1>5. ~Marks(w) /\ ~Marks(w2) /\ ~LoosensOn(x, w)
  BY <1>3 DEF Marks, LoosensOn, RelinksOn, SyncInode, Write
<1>6. Whole(x, D, ib)
  <2>1. Tidy(ib, bb, t, bl, D) /\ D \subseteq ib
    BY TidyTree
  <2>2. Like(x, ib, ib, bb, t, bl, D)
    BY <2>1, TidyLike
  <2> QED BY <2>1, <2>2, LikeWhole
<1>13. Intact(x) /\ Counts(x, w)
  <2>1. \A m : ~LateOn(x, w, m)
    BY <1>3 DEF LateOn
  <2> HIDE DEF x
  <2> QED BY <1>6, <2>1, WholeCounts DEF Intact
<1>7. (LoosensOn(x1, w2) /\ Broken(x1)) \/ (~LoosensOn(x1, w2) /\ Intact(x1))
  <2>1. CASE back # {}
    BY <2>1, LoosenedBroken
  <2>2. CASE back = {}
    <3>1. Removed(d, n, b, {}, own)
      BY <2>2
    <3>2. Like(Loosened({}), ib2, ib, bb2, t2, bl2, E) /\ ~LoosensOn(Loosened({}), w2)
      BY <1>1, <3>1, LoosenedLike
    <3>3. Intact(Loosened({}))
      BY <3>2, LikeIntact
    <3> QED BY <2>2, <3>2, <3>3
  <2> QED BY <2>1, <2>2
<1>14. Counts(x1, w2)
  <2>1. \A m : ~LateOn(x1, w2, m)
    BY <1>1, LoosenedNotLate
  <2>2. CASE back # {}
    <3>1. x1.inodeTable = x.inodeTable /\ x1.blocks = x.blocks
      BY <2>2 DEF Removed, Loosened, Disk
    <3>2. CountsIn(x, w, D)
      <4>1. \A m : ~LateOn(x, w, m)
        BY <1>3 DEF LateOn
      <4>2. \A m \in D : SubsOf(x.inodeTable, x.blocks, m) \subseteq D
        BY <1>6 DEF Whole, SubsOf
      <4> HIDE DEF x
      <4> QED BY <1>6, <4>1, <4>2 DEF Whole, CountsIn
    <3>3. x1.inodeBitmap = x.inodeBitmap
      BY DEF Loosened, Disk
    <3> HIDE DEF x, x1, w2
    <3>4. \A m \in D : x.inodeTable[m].i_size = 2 => KidsOf(x.inodeTable, x.blocks, m) = {}
      BY <1>6 DEF Whole
    <3>5. CountsIn(x1, w2, D)
      BY <2>1, <3>1, <3>2, <3>4 DEF CountsIn
    <3> QED BY <3>5 DEF Counts
  <2>3. CASE back = {}
    <3>1. Removed(d, n, b, {}, own) /\ x1 = Loosened({})
      BY <2>3
    <3>2. Like(Loosened({}), ib2, ib, bb2, t2, bl2, E)
      BY <1>1, <3>1, LoosenedLike
    <3> HIDE DEF x1, w2
    <3> QED BY <2>1, <3>1, <3>2, LikeCounts
  <2> QED BY <2>2, <2>3
<1>8. x2 = write_blocks_to_disk(x1, w2)
  BY WritesSlot DEF Loosened, Detached, SyncInode
<1>9. Like(x2, ib2, ib, bb2, t2, bl2, E)
  BY <1>1, DetachedLike
<1>10. AllQuiet(s, ib2, ib, bb2, t2, E)
  BY <1>1, ReleaseQuiet
<1>11. Brings(x, p, Disk(ib2, bb2, t2, bl2))
  BY <1>1, RemovalBrings
<1> HIDE DEF x, x1, x2, p, s, w2
<1>12. Via(x, p)
  BY <1>1, <1>3, <1>4, <1>5, <1>7, <1>8, <1>9, <1>10, <1>11, <1>13, <1>14, LoosenedVia
<1> QED BY <1>12 DEF x, p

LEMMA RemovesVia ==
    ASSUME TreeInv, TreeInv', SlotsFree(inodeBitmap, inodeTable), Usable, NEW p,
           (sys_unlink(p) /\ p \in UnlinkPaths) \/ (sys_rmdir(p) /\ p \in RmdirPaths)
    PROVE  /\ Via(Disk(inodeBitmap, blockBitmap, inodeTable, blocks),
                  RemovalWrites(search_file(p).parent_dir, search_file(p).i_no))
           /\ SlotsFree(inodeBitmap', inodeTable')
<1> DEFINE r == search_file(p)
           n == r.i_no
<1>1. /\ IInv /\ Sound /\ DiskType /\ DiskType'
  BY DEF TreeInv, IInv
<1>2. PICK D, up, place, depth : InTree(D, up, place, depth)
  BY DEF TreeInv
<1>3. n \in inodeBitmap /\ n # Root /\ r.parent_dir = up[n] /\ Remove(up[n], n)
  BY <1>1, <1>2, RemovesFound DEF RemovesIt
<1> HIDE DEF r
<1> DEFINE d == up[n]
<1>4. PICK b, back, own : Removed(d, n, b, back, own)
  BY <1>1, <1>2, <1>3, RemovalMade
<1>5. d \in D /\ inodeTable[d].i_size > 2
  <2> DEFINE t == inodeTable
             bl == blocks
             U == Used(t, bl, d)
  <2>1. /\ Tree(inodeBitmap, D, up, place, depth, t, bl) /\ d \in D
        /\ place[n] \in U /\ place[n] \notin Dots
        /\ Dots \subseteq U /\ Cardinality(U) = t[d].i_size
    BY <1>2, <1>3 DEF InTree, Tree, TreeType, HomesRight, DotsRight, SizesRight
  <2> HIDE DEF U, d
  <2>2. IsFiniteSet(U) /\ IsFiniteSet(Dots) /\ Cardinality(Dots) = 2
    BY PlaceFacts DEF U
  <2>3. Cardinality(Dots) < Cardinality(U)
    <3>1. Cardinality(Dots) <= Cardinality(U) /\ (Cardinality(Dots) = Cardinality(U) => Dots = U)
      BY <2>1, <2>2, FS_Subset
    <3>2. Dots # U
      BY <2>1
    <3>3. Cardinality(Dots) \in Nat /\ Cardinality(U) \in Nat
      BY <2>2, FS_CardinalityType
    <3> QED BY <3>1, <3>2, <3>3
  <2> QED BY <2>1, <2>2, <2>3
<1> HIDE DEF d, n
<1>8. SlotsFree(inodeBitmap', inodeTable')
  <2> DEFINE t == inodeTable
             v == inodeTable'[d]
             u == [t EXCEPT ![d] = v]
  <2>1. inodeTable' = [u EXCEPT ![n] = ZeroInode] /\ inodeBitmap' = inodeBitmap \ {n}
    BY <1>4, Zenon DEF Removed
  <2>2. d \in inodeBitmap /\ DOMAIN t = Inodes
    BY <1>1, <1>2, <1>5 DEF InTree, Tree, TreeType, DiskType
  <2> HIDE DEF v
  <2>3. DOMAIN u = Inodes /\ \A k \in Inodes : k # d => u[k] = t[k]
    BY <2>2
  <2> HIDE DEF u
  <2>4. \A k \in Inodes : inodeTable'[k] = IF k = n THEN ZeroInode ELSE u[k]
    BY <2>1, <2>3
  <2> QED BY <2>1, <2>2, <2>3, <2>4 DEF SlotsFree
<1>6. PICK E : /\ Tidy(inodeBitmap', blockBitmap', inodeTable', blocks', E)
               /\ E \subseteq inodeBitmap'
  BY <1>8, TidyTreeNext
<1>7. Via(Disk(inodeBitmap, blockBitmap, inodeTable, blocks), RemovalWrites(d, n))
  BY <1>1, <1>2, <1>4, <1>5, <1>6, RemovalVia
<1> QED BY <1>3, <1>7, <1>8 DEF r, d, n

-----------------------------------------------------------------------------
(* Until a process dies in the middle of a call, what a death would leave  *)
(* is told by the writes that are still to come.                           *)

Deadly == /\ Covering
          /\ crashes = 0 => /\ unsafe = FALSE /\ Via(disk, pending)
                            /\ SlotsFree(inodeBitmap, inodeTable)

LEMMA InitDeadly == DiskInit => Deadly
<1> SUFFICES ASSUME DiskInit PROVE Deadly
  OBVIOUS
<1>1. Via(disk, <<>>)
  BY ViaNothing
<1>2. SlotsFree(inodeBitmap, inodeTable)
  BY DEF DiskInit, Init, SlotsFree
<1> QED BY <1>1, <1>2, InitCovering DEF DiskInit, Deadly

(* A call that decides its writes.                                         *)
LEMMA DecidesDeadly ==
    ASSUME Usable, Deadly, Next, [Careful]_vars, NEW writes, Idle, Decides(writes),
           TreeInv /\ TreeInv' /\ SlotsFree(inodeBitmap, inodeTable) =>
               /\ Via(Disk(inodeBitmap, blockBitmap, inodeTable, blocks), writes)
               /\ SlotsFree(inodeBitmap', inodeTable'),
           Covering'
    PROVE  Deadly'
<1>1. pending = <<>> /\ pending' = writes /\ disk' = disk /\ crashes' = crashes /\ unsafe' = unsafe
  BY DEF Idle, Decides
<1> SUFFICES ASSUME crashes = 0
             PROVE  unsafe' = FALSE /\ Via(disk', pending') /\ SlotsFree(inodeBitmap', inodeTable')
  BY <1>1 DEF Deadly
<1>2. TreeInv /\ Brings(disk, <<>>, EndOfCall) /\ unsafe = FALSE /\ SlotsFree(inodeBitmap, inodeTable)
  BY <1>1 DEF Deadly, Covering
<1>3. TreeInv'
  BY <1>1 DEF Covering
<1>4. disk = Disk(inodeBitmap, blockBitmap, inodeTable, blocks)
  BY <1>2, BringsEnd, EndIsTree
<1> QED BY <1>1, <1>2, <1>3, <1>4

(* A step that leaves nothing to be written.                               *)
LEMMA NothingDeadly ==
    ASSUME Deadly, pending' = <<>>, UNCHANGED <<crashes, unsafe>>, Covering',
           UNCHANGED inodeTable, inodeBitmap' = inodeBitmap \/ inodeBitmap' = diskInodeBitmap
    PROVE  Deadly'
<1>1. Via(disk', pending')
  BY ViaNothing
<1>2. ASSUME crashes = 0 PROVE SlotsFree(inodeBitmap', inodeTable')
  <2>1. diskInodeBitmap = inodeBitmap /\ SlotsFree(inodeBitmap, inodeTable)
    BY <1>2 DEF Deadly, Covering, TreeInv, Sound, DiskSame
  <2> QED BY <2>1
<1> QED BY <1>1, <1>2 DEF Deadly

LEMMA CreatesDeadly ==
    ASSUME Usable, Deadly, [Careful]_vars, NEW p \in CreatePaths \cup MkdirPaths, Creates(p), Covering'
    PROVE  Deadly'
<1>1. (sys_open_create(p) /\ p \in CreatePaths) \/ (sys_mkdir(p) /\ p \in MkdirPaths)
  BY DEF Creates
<1>2. Next
  BY <1>1, Zenon DEF Next
<1> DEFINE writes == CreationWrites(search_file(p).parent_dir)
<1>3. Idle /\ Decides(writes)
  BY DEF Creates
<1>4. ASSUME TreeInv, TreeInv', SlotsFree(inodeBitmap, inodeTable)
      PROVE  /\ Via(Disk(inodeBitmap, blockBitmap, inodeTable, blocks), writes)
             /\ SlotsFree(inodeBitmap', inodeTable')
  BY <1>1, <1>4, CreatesVia
<1> HIDE DEF writes
<1> QED BY <1>2, <1>3, <1>4, DecidesDeadly

LEMMA WritesDeadly ==
    ASSUME Usable, Deadly, [Careful]_vars, NEW f \in OF!Fds, NEW count \in WriteCounts,
           Writes(f, count), Covering'
    PROVE  Deadly'
<1>1. sys_write(f, count)
  BY DEF Writes
<1>2. Next
  BY <1>1, Zenon DEF Next
<1> DEFINE writes == WritingWrites(contents[fileTable[fdTable[f]]], count)
<1>3. Idle /\ Decides(writes)
  BY DEF Writes
<1>4. ASSUME TreeInv, TreeInv', SlotsFree(inodeBitmap, inodeTable)
      PROVE  /\ Via(Disk(inodeBitmap, blockBitmap, inodeTable, blocks), writes)
             /\ SlotsFree(inodeBitmap', inodeTable')
  BY <1>1, <1>4, WritesVia
<1> HIDE DEF writes
<1> QED BY <1>2, <1>3, <1>4, DecidesDeadly

LEMMA RemovesDeadly ==
    ASSUME Usable, Deadly, [Careful]_vars, NEW p,
           (Unlinks(p) /\ p \in UnlinkPaths) \/ (Rmdirs(p) /\ p \in RmdirPaths), Covering'
    PROVE  Deadly'
<1>1. (sys_unlink(p) /\ p \in UnlinkPaths) \/ (sys_rmdir(p) /\ p \in RmdirPaths)
  BY DEF Unlinks, Rmdirs
<1>2. Next
  BY <1>1, Zenon DEF Next
<1> DEFINE writes == RemovalWrites(search_file(p).parent_dir, search_file(p).i_no)
<1>3. Idle /\ Decides(writes)
  BY DEF Unlinks, Rmdirs
<1>4. ASSUME TreeInv, TreeInv', SlotsFree(inodeBitmap, inodeTable)
      PROVE  /\ Via(Disk(inodeBitmap, blockBitmap, inodeTable, blocks), writes)
             /\ SlotsFree(inodeBitmap', inodeTable')
  BY <1>1, <1>4, RemovesVia
<1> HIDE DEF writes
<1> QED BY <1>2, <1>3, <1>4, DecidesDeadly

LEMMA WritingDeadly ==
    ASSUME Deadly, Writing, Covering'
    PROVE  Deadly'
<1>1. /\ pending # <<>> /\ disk' = write_blocks_to_disk(disk, Head(pending))
      /\ pending' = Tail(pending) /\ crashes' = crashes /\ unsafe' = unsafe
  BY DEF Writing
<1> SUFFICES ASSUME crashes = 0
             PROVE  unsafe' = FALSE /\ Via(disk', pending') /\ SlotsFree(inodeBitmap', inodeTable')
  BY <1>1 DEF Deadly
<1>2. unsafe = FALSE /\ Via(disk, pending) /\ SlotsFree(inodeBitmap, inodeTable)
  BY DEF Deadly
<1>3. inodeBitmap' = inodeBitmap /\ inodeTable' = inodeTable
  BY DEF Writing, vars, bitmaps
<1>4. Via(write_blocks_to_disk(disk, Head(pending)), Tail(pending))
  BY <1>1, <1>2, ViaOn
<1> QED BY <1>1, <1>2, <1>3, <1>4

LEMMA NextDeadly ==
    ASSUME Usable, Deadly, [DiskNext]_<<vars, diskVars>>, [Careful]_vars
    PROVE  Deadly'
<1>0. Covering'
  BY NextCovering DEF Deadly
<1>1. ASSUME NEW p \in CreatePaths \cup MkdirPaths, Creates(p) PROVE Deadly'
  BY <1>0, <1>1, CreatesDeadly
<1>2. ASSUME NEW f \in OF!Fds, NEW count \in WriteCounts, Writes(f, count) PROVE Deadly'
  BY <1>0, <1>2, WritesDeadly
<1>3. ASSUME NEW p \in UnlinkPaths, Unlinks(p) PROVE Deadly'
  BY <1>0, <1>3, RemovesDeadly
<1>4. ASSUME NEW p \in RmdirPaths, Rmdirs(p) PROVE Deadly'
  BY <1>0, <1>4, RemovesDeadly
<1>5. ASSUME NEW p \in OpenPaths, OpensFile(p) PROVE Deadly'
  <2>1. UNCHANGED <<inodeBitmap, inodeTable>>
    BY <1>5, Zenon DEF OpensFile, sys_open_existing, sys_open_table_full, LeavesOpen, bitmaps
  <2> QED BY <1>0, <1>5, <2>1, NothingDeadly DEF OpensFile, Decides
<1>6. ASSUME NEW f \in OF!Fds, Closes(f) PROVE Deadly'
  <2>1. UNCHANGED <<inodeBitmap, inodeTable>>
    BY <1>6, Zenon DEF Closes, sys_close, bitmaps
  <2> QED BY <1>0, <1>6, <2>1, NothingDeadly DEF Closes, Decides
<1>7. CASE Dies
  <2>1. UNCHANGED inodeTable /\ inodeBitmap' = diskInodeBitmap
    BY <1>7, Zenon DEF Dies, sys_mkdir_dies, sys_write_dies, DiesOutOfBlocks, Mounts
  <2> QED BY <1>0, <1>7, <2>1, NothingDeadly DEF Dies, Idle
<1>8. CASE Writing
  BY <1>0, <1>8, WritingDeadly
<1>9. CASE Crash
  <2>1. crashes' = crashes + 1 /\ crashes \in Nat
    BY <1>9 DEF Crash, Deadly, Covering
  <2>2. crashes' # 0
    BY <2>1
  <2> QED BY <1>0, <2>2 DEF Deadly
<1>10. CASE Restarts
  <2>1. pending' = <<>> /\ UNCHANGED <<crashes, unsafe>>
    BY <1>10 DEF Restarts, diskVars
  <2>2. UNCHANGED inodeTable /\ inodeBitmap' = diskInodeBitmap
    BY <1>10 DEF Restarts, Restart, Mounts
  <2> QED BY <1>0, <2>1, <2>2, NothingDeadly
<1>11. CASE UNCHANGED <<vars, diskVars>>
  <2>1. /\ inodeBitmap' = inodeBitmap /\ inodeTable' = inodeTable /\ crashes' = crashes
        /\ unsafe' = unsafe /\ disk' = disk /\ pending' = pending
    BY <1>11 DEF diskVars, vars, bitmaps
  <2>2. crashes = 0 => (unsafe = FALSE /\ Via(disk, pending) /\ SlotsFree(inodeBitmap, inodeTable))
    BY DEF Deadly
  <2> QED BY <1>0, <2>1, <2>2 DEF Deadly
<1> QED BY <1>1, <1>2, <1>3, <1>4, <1>5, <1>6, <1>7, <1>8, <1>9, <1>10, <1>11, Zenon DEF DiskNext

(* Before the first of the writes to come, or after the last.              *)
LEMMA DeadlyTold ==
    ASSUME Deadly, crashes = 0
    PROVE  /\ (~Exposed /\ Intact(disk)) \/ (Exposed /\ Broken(disk))
           /\ pending = <<>> => Intact(disk)
           /\ pending # <<>> => Counts(disk, Head(pending))
<1>1. /\ TreeInv /\ Brings(disk, pending, EndOfCall) /\ Via(disk, pending)
      /\ SlotsFree(inodeBitmap, inodeTable)
  BY DEF Deadly, Covering
<1>2. CASE pending = <<>>
  <2>1. disk = Disk(inodeBitmap, blockBitmap, inodeTable, blocks)
    BY <1>1, <1>2, BringsEnd, EndIsTree
  <2>2. PICK D, up, place, depth : InTree(D, up, place, depth)
    BY <1>1 DEF TreeInv
  <2>3. Tidy(inodeBitmap, blockBitmap, inodeTable, blocks, D) /\ D \subseteq inodeBitmap
    BY <1>1, <2>2, TidyTree DEF TreeInv
  <2>4. Intact(disk)
    BY <2>1, <2>3, TidyLike, LikeIntact
  <2>5. PendingWrites = {}
    BY <1>2 DEF PendingWrites
  <2>6. ~Exposed
    BY <1>2, <2>5 DEF Exposed, NameBeforeInode, FreedBeforeUnlinked
  <2> QED BY <1>2, <2>4, <2>6
<1>3. CASE pending # <<>>
  <2>1. PICK S : pending \in Seq(S)
    BY <1>1 DEF Via
  <2>2. PICK f : f[0] = disk /\ \A k \in 0 .. Len(pending) - 1 : Told(f[k], pending, k)
    BY <1>1 DEF Via
  <2>3. 0 \in 0 .. Len(pending) - 1
    BY <1>3, <2>1, EmptySeq, LenProperties
  <2>4. Told(disk, pending, 0)
    BY <2>2, <2>3
  <2>5. Exposed <=> DangerAt(disk, pending, 0)
    BY <1>3, <2>1, ExposedHere
  <2>6. Head(pending) = pending[0 + 1]
    <3>1. 0 + 1 = 1
      OBVIOUS
    <3> QED BY <1>3, <2>1, <3>1, HeadTailProperties
  <2> QED BY <1>3, <2>4, <2>5, <2>6 DEF Told
<1> QED BY <1>2, <1>3

LEMMA CountedTold ==
    ASSUME Deadly, crashes = 0
    PROVE  LooksEmptyIsEmpty
<1>1. CASE pending = <<>>
  <2>1. \A d : ~CountedLate(d)
    BY <1>1 DEF CountedLate
  <2>2. \A d \in Mounted!Directories : disk.inodeTable[d].i_size = 2 => Mounted!Children(d) = {}
    BY <1>1, DeadlyTold, IntactSound
  <2> QED BY <2>1, <2>2 DEF LooksEmptyIsEmpty
<1>2. CASE pending # <<>>
  <2> DEFINE w == Head(pending)
  <2>1. PICK U : CountsIn(disk, w, U)
    BY <1>2, DeadlyTold DEF Counts
  <2>2. Mounted!Directories \subseteq U
    BY <2>1, MountedWithin DEF CountsIn
  <2>3. \A d : CountedLate(d) <=> LateOn(disk, w, d)
    BY <1>2 DEF CountedLate, LateOn
  <2> HIDE DEF w
  <2> QED BY <2>1, <2>2, <2>3, MountedChildren DEF CountsIn, LooksEmptyIsEmpty
<1> QED BY <1>1, <1>2

(* A process that dies between two writes of a call leaves a partition     *)
(* that the next one mounts safely, except between the name and the inode  *)
(* bit of a creation (dir.cpp:222) and between the bit of a directory      *)
(* block that is given back and the directory's inode (dir.cpp:332): what  *)
(* a mount finds there is never safe.  Up to the first such death.         *)
THEOREM DeathsHarm ==
    Usable => (DiskSpec /\ [][Careful]_vars => [](crashes = 0 => UnsafeExactlyWhenExposed))
<1> SUFFICES ASSUME Usable
             PROVE  DiskSpec /\ [][Careful]_vars => [](crashes = 0 => UnsafeExactlyWhenExposed)
  OBVIOUS
<1>1. Deadly /\ [DiskNext]_<<vars, diskVars>> /\ [Careful]_vars => Deadly'
  BY NextDeadly
<1>2. Deadly => (crashes = 0 => UnsafeExactlyWhenExposed)
  BY DeadlyTold, IntactSound, BrokenUnsound DEF UnsafeExactlyWhenExposed
<1> QED BY <1>1, <1>2, InitDeadly, PTL DEF DiskSpec

(* Wherever a process dies, a directory that is empty by the i_size on     *)
(* disk, which is all that sys_rmdir looks at (dir.cpp:462), has an entry  *)
(* exactly if the death came between the entry and the i_size of a         *)
(* creation (dir.cpp:236).  Up to the first such death.                    *)
THEOREM DeathsEmptyNothing ==
    Usable => (DiskSpec /\ [][Careful]_vars => [](crashes = 0 => LooksEmptyIsEmpty))
<1> SUFFICES ASSUME Usable
             PROVE  DiskSpec /\ [][Careful]_vars => [](crashes = 0 => LooksEmptyIsEmpty)
  OBVIOUS
<1>1. Deadly /\ [DiskNext]_<<vars, diskVars>> /\ [Careful]_vars => Deadly'
  BY NextDeadly
<1>2. Deadly => (crashes = 0 => LooksEmptyIsEmpty)
  BY CountedTold
<1> QED BY <1>1, <1>2, InitDeadly, PTL DEF DiskSpec
=============================================================================
