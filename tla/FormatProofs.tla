---------------------------- MODULE FormatProofs ----------------------------
(***************************************************************************)
(* What partition_format lays out, and what a death in the middle of it    *)
(* leaves, for every size of blocks, tables and partitions.                *)
(***************************************************************************)
EXTENDS Format, RecursionFacts

USE FormatAssumption

(* Partitions follow one another and have room for their tables.           *)
PartitionsApart ==
    /\ partitions \in Seq([start_sector_no : Nat, sector_count : SectorCounts])
    /\ \A i \in DOMAIN partitions : /\ partitions[i].sector_count >= MinSectors
                                    /\ partitions[i].start_sector_no >= FirstSector
    /\ \A i, j \in DOMAIN partitions : i < j => EndLba(i) <= partitions[j].start_sector_no
    /\ Len(partitions) <= MaxPartitions

PartSet(m) == {Parts[k] : k \in 1 .. m}

(* How far the format of partition i has come: not begun, done, or cut     *)
(* short after m writes.                                                   *)
Begun(i, m) == written[i] = PartSet(m) /\ (i \in interrupted <=> m \in 1 .. Len(Parts) - 1)

FormatsInOrder ==
    /\ at \in Nat /\ done \in 0 .. Len(Parts) - 1
    /\ written \in [Numbers -> SUBSET PartSet(Len(Parts))]
    /\ done # 0 => /\ at \in DOMAIN partitions
                   /\ written[at] = PartSet(done) /\ at \notin interrupted
    /\ \A i \in DOMAIN partitions :
          (at = i /\ done # 0) \/ \E m \in 0 .. Len(Parts) : Begun(i, m)

IInv == PartitionsApart /\ FormatsInOrder

-----------------------------------------------------------------------------
(* Rounding up.                                                            *)

LEMMA DivUp ==
    ASSUME NEW x \in Nat, NEW s \in Nat \ {0}
    PROVE  /\ DIV_ROUND_UP(x, s) \in Nat
           /\ DIV_ROUND_UP(x, s) * s >= x
           /\ DIV_ROUND_UP(x, s) <= x
<1> DEFINE q == (x + s - 1) \div s
<1>1. q \in Int /\ s * q <= x + s - 1 /\ x + s - 1 < s * q + s
  OBVIOUS
<1>2. q \in Nat
  OBVIOUS
<1> HIDE DEF q
<1>3. s * q >= x
  BY <1>1
<1>4. q <= x
  <2> SUFFICES ASSUME q >= x + 1 PROVE FALSE
    BY <1>2
  <2> DEFINE r == q - (x + 1)
             t == s - 1
  <2>1. r \in Nat /\ t \in Nat /\ q = r + x + 1 /\ s = t + 1
    BY <1>2
  <2>2. s * q = s * r + s * x + s /\ s * r \in Nat
    BY <2>1
  <2>3. s * x = x + t * x /\ t * x \in Nat
    BY <2>1
  <2> HIDE DEF r, t
  <2> QED BY <1>1, <2>2, <2>3
<1>5. DIV_ROUND_UP(x, s) = q /\ q * s = s * q
  BY DEF DIV_ROUND_UP, q
<1> QED BY <1>2, <1>3, <1>4, <1>5

LEMMA DivUpGrows ==
    ASSUME NEW x \in Nat, NEW y \in Nat, x <= y, NEW s \in Nat \ {0}
    PROVE  DIV_ROUND_UP(x, s) <= DIV_ROUND_UP(y, s)
<1> DEFINE p == (x + s - 1) \div s
           q == (y + s - 1) \div s
<1>1. p \in Int /\ s * p <= x + s - 1
  OBVIOUS
<1>2. q \in Int /\ y + s - 1 < s * q + s
  OBVIOUS
<1> HIDE DEF p, q
<1>3. p <= q
  <2> SUFFICES ASSUME p >= q + 1 PROVE FALSE
    BY <1>1, <1>2
  <2>1. p - (q + 1) \in Nat
    BY <1>1, <1>2
  <2>2. s * p = s * q + s + s * (p - (q + 1)) /\ s * (p - (q + 1)) \in Nat
    BY <1>1, <1>2, <2>1
  <2> QED BY <1>1, <1>2, <2>2
<1> QED BY <1>3 DEF DIV_ROUND_UP, p, q

(* The areas of a partition that is large enough.                          *)
LEMMA LayoutFits ==
    ASSUME NEW dp \in [start_sector_no : Nat, sector_count : SectorCounts],
           dp.sector_count >= MinSectors
    PROVE  LET sb == Layout(dp)
           IN  /\ sb.inode_bitmap_lba >= sb.block_bitmap_lba + sb.block_bitmap_lbc
               /\ sb.inode_table_lba >= sb.inode_bitmap_lba + InodeBitmapLbc
               /\ sb.data_start_lba >= sb.inode_table_lba + InodeTableLbc
               /\ sb.data_start_lba + FreeLbc(dp) <= dp.start_sector_no + dp.sector_count
               /\ sb.block_bitmap_lbc * BITS_PER_SECTOR >= FreeLbc(dp)
<1> DEFINE rest == dp.sector_count - UsedLbc
           S == BITS_PER_SECTOR
           free == FreeLbc(dp)
           lbc == DIV_ROUND_UP(free, S)
<1>1. S \in Nat \ {0}
  <2>1. \A x, y \in Nat \ {0} : x * y \in Nat \ {0}
    OBVIOUS
  <2> QED BY <2>1 DEF BITS_PER_SECTOR
<1>2. rest \in Nat /\ dp.start_sector_no \in Nat /\ dp.sector_count \in Nat /\ UsedLbc \in Nat
  <2>1. dp.sector_count \in SectorCounts /\ dp.start_sector_no \in Nat /\ UsedLbc \in Nat
    BY DEF UsedLbc
  <2>2. dp.sector_count \in Nat /\ dp.sector_count >= MinSectors
    BY <2>1
  <2> QED BY <2>1, <2>2
<1> HIDE DEF S, rest
<1>3. free = rest - DIV_ROUND_UP(rest, S) /\ free \in Nat
  BY <1>1, <1>2, DivUp DEF FreeLbc, rest, S
<1> HIDE DEF free
<1>4. lbc \in Nat /\ lbc * S >= free /\ lbc <= DIV_ROUND_UP(rest, S)
  BY <1>1, <1>2, <1>3, DivUp, DivUpGrows
<1> HIDE DEF lbc
<1>5. rest = dp.sector_count - 2 - InodeBitmapLbc - InodeTableLbc
  BY <1>2 DEF rest, UsedLbc
<1>6. DIV_ROUND_UP(rest, S) \in Nat
  BY <1>1, <1>2, DivUp
<1>7. lbc + free <= rest
  BY <1>2, <1>3, <1>4, <1>6
<1>8. Layout(dp) = [block_bitmap_lba |-> dp.start_sector_no + 2, block_bitmap_lbc |-> lbc,
         inode_bitmap_lba |-> dp.start_sector_no + 2 + lbc,
         inode_table_lba |-> dp.start_sector_no + 2 + lbc + InodeBitmapLbc,
         data_start_lba |-> dp.start_sector_no + 2 + lbc + InodeBitmapLbc + InodeTableLbc]
  BY DEF Layout, lbc, free, S
<1>9. FreeLbc(dp) = free /\ BITS_PER_SECTOR = S
  BY DEF free, S
<1> QED BY <1>2, <1>3, <1>4, <1>5, <1>7, <1>8, <1>9

-----------------------------------------------------------------------------
(* start in create_partitions: each partition begins where the one before  *)
(* it ends.                                                                *)
LEMMA Starts ==
    ASSUME NEW n \in Nat \ {0}, NEW counts \in [1 .. n -> Nat]
    PROVE  LET start[i \in 1 .. n] ==
                   IF i = 1 THEN FirstSector ELSE start[i - 1] + counts[i - 1]
           IN  /\ start \in [1 .. n -> Nat]
               /\ \A i \in 1 .. n : start[i] >= FirstSector
               /\ \A i, j \in 1 .. n : i < j => start[i] + counts[i] <= start[j]
<1> DEFINE Solves(f) == f = [i \in 1 .. n |-> IF i = 1 THEN FirstSector
                                                     ELSE f[i - 1] + counts[i - 1]]
           start == CHOOSE f : Solves(f)
           g == [k \in 1 .. n - 1 |-> [x \in Nat |-> x + counts[k]]]
<1>1. PICK h \in [0 .. n - 1 -> Nat] : /\ h[0] = FirstSector
                                      /\ \A k \in 1 .. n - 1 : h[k] = g[k][h[k - 1]]
  <2> DEFINE m == n - 1
             G(k) == [x \in Nat |-> x + counts[k]]
  <2>1. m \in Nat /\ FirstSector \in Nat
    OBVIOUS
  <2>2. ASSUME NEW k \in 1 .. m PROVE G(k) \in [Nat -> Nat]
    <3>1. counts[k] \in Nat
      OBVIOUS
    <3> QED BY <3>1
  <2>3. g = [k \in 1 .. m |-> G(k)]
    OBVIOUS
  <2> HIDE DEF G, g, m
  <2>4. g \in [1 .. m -> [Nat -> Nat]]
    BY <2>2, <2>3, Zenon
  <2>5. \E f \in [0 .. m -> Nat] : Iterates(f, m, FirstSector, g)
    BY <2>1, <2>4, IntervalRecursion
  <2> QED BY <2>5, Zenon DEF m, Iterates
<1> DEFINE f0 == [i \in 1 .. n |-> h[i - 1]]
<1>2. Solves(f0)
  <2>1. ASSUME NEW i \in 1 .. n
        PROVE  f0[i] = IF i = 1 THEN FirstSector ELSE f0[i - 1] + counts[i - 1]
    <3>1. CASE i = 1
      BY <1>1, <3>1
    <3>2. CASE i # 1
      <4>1. i - 1 \in 1 .. n - 1 /\ i - 1 \in 1 .. n /\ i - 1 - 1 \in 0 .. n - 1
        BY <3>2
      <4>2. h[i - 1] = g[i - 1][h[i - 1 - 1]] /\ h[i - 1 - 1] \in Nat
        BY <1>1, <4>1
      <4>3. g[i - 1][h[i - 1 - 1]] = h[i - 1 - 1] + counts[i - 1]
        BY <4>1, <4>2
      <4> QED BY <3>2, <4>1, <4>2, <4>3
    <3> QED BY <3>1, <3>2
  <2> HIDE DEF f0
  <2>2. f0 = [i \in 1 .. n |-> f0[i]]
    BY DEF f0
  <2> QED BY <2>1, <2>2
<1> HIDE DEF f0
<1>3. Solves(start)
  BY <1>2
<1> HIDE DEF start
<1>4. start[1] = FirstSector
  BY <1>3
<1>5. ASSUME NEW k \in 1 .. n - 1 PROVE start[k + 1] = start[k] + counts[k] /\ counts[k] \in Nat
  <2>1. k + 1 \in 1 .. n /\ k + 1 # 1 /\ k + 1 - 1 = k /\ k \in 1 .. n
    OBVIOUS
  <2> QED BY <1>3, <2>1
<1>6. \A i \in 1 .. n : start[i] \in Nat /\ start[i] >= FirstSector
  <2> DEFINE T == {k \in Nat : k + 1 \in 1 .. n => start[k + 1] \in Nat /\ start[k + 1] >= FirstSector}
  <2>1. 0 \in T
    BY <1>4
  <2>2. ASSUME NEW k \in 0 .. n - 1, k \in T PROVE k + 1 \in T
    <3>1. CASE k + 1 \in 1 .. n - 1
      <4>1. start[k + 1 + 1] = start[k + 1] + counts[k + 1] /\ counts[k + 1] \in Nat
        BY <1>5, <3>1
      <4>2. start[k + 1] \in Nat /\ start[k + 1] >= FirstSector
        BY <2>2, <3>1
      <4>3. start[k + 1 + 1] \in Nat /\ start[k + 1 + 1] >= FirstSector
        BY <4>1, <4>2
      <4> QED BY <4>3
    <3>2. CASE k + 1 = n
      BY <3>2
    <3> QED BY <3>1, <3>2
  <2> HIDE DEF T
  <2>3. 0 .. n \subseteq T
    BY <2>1, <2>2, IntervalInduction
  <2>4. ASSUME NEW i \in 1 .. n PROVE start[i] \in Nat /\ start[i] >= FirstSector
    <3>1. i - 1 \in T /\ i - 1 + 1 = i
      BY <2>3
    <3> QED BY <3>1 DEF T
  <2> QED BY <2>4
<1> HIDE FormatAssumption
<1>7. ASSUME NEW i \in 1 .. n, NEW j \in 1 .. n, i < j PROVE start[i] + counts[i] <= start[j]
  <2> DEFINE T == {k \in Nat : i + k \in 1 .. n /\ k > 0 => start[i] + counts[i] <= start[i + k]}
  <2>1. 0 \in T
    OBVIOUS
  <2>2. ASSUME NEW k \in 0 .. n - 1, k \in T PROVE k + 1 \in T
    <3> SUFFICES ASSUME i + (k + 1) \in 1 .. n PROVE start[i] + counts[i] <= start[i + (k + 1)]
      OBVIOUS
    <3> HIDE DEF T
    <3>1. i + k \in 1 .. n - 1 /\ i + (k + 1) = (i + k) + 1
      <4>1. i \in Nat /\ i >= 1 /\ k \in Nat /\ n \in Nat /\ i + (k + 1) <= n
        OBVIOUS
      <4> QED BY <4>1
    <3>2. start[i + (k + 1)] = start[i + k] + counts[i + k] /\ counts[i + k] \in Nat
      BY <1>5, <3>1
    <3>3. start[i + k] \in Nat /\ start[i] \in Nat /\ counts[i] \in Nat
      BY <1>6, <3>1
    <3>4. CASE k = 0
      <4>1. i + k = i /\ start[i + k] = start[i] /\ counts[i + k] = counts[i]
        BY <3>4
      <4> QED BY <3>2, <3>3, <4>1
    <3>5. CASE k > 0
      <4>1. start[i] + counts[i] <= start[i + k]
        BY <2>2, <3>1, <3>5 DEF T
      <4>2. \A x, y, z \in Nat : x <= y => x <= y + z
        OBVIOUS
      <4>3. \A x, y \in Nat : x + y \in Nat
        OBVIOUS
      <4>4. start[i] + counts[i] \in Nat
        BY <3>2, <3>3, <4>3, Zenon
      <4>5. start[i] + counts[i] <= start[i + k] + counts[i + k]
        BY <3>2, <3>3, <4>1, <4>2, <4>4, Zenon
      <4> QED BY <3>2, <4>5, Zenon
    <3> QED BY <3>4, <3>5
  <2> HIDE DEF T
  <2>3. 0 .. n \subseteq T
    BY <2>1, <2>2, IntervalInduction
  <2>4. j - i \in T /\ i + (j - i) = j /\ j - i > 0
    BY <1>7, <2>3
  <2> QED BY <2>4 DEF T
<1>8. start \in [1 .. n -> Nat]
  <2>1. start = [i \in 1 .. n |-> start[i]]
    BY <1>3
  <2> QED BY <1>6, <2>1
<1> QED BY <1>6, <1>7, <1>8 DEF start

-----------------------------------------------------------------------------
(* The steps.                                                              *)

LEMMA TableIsSeq ==
    ASSUME NEW S, NEW n \in Nat, NEW s \in [1 .. n -> S]
    PROVE  s \in Seq(S) /\ Len(s) = n /\ DOMAIN s = 1 .. n
<1>1. s \in Seq(S) /\ DOMAIN s = 1 .. n
  OBVIOUS
<1>2. DOMAIN s = 1 .. Len(s) /\ Len(s) \in Nat
  BY <1>1
<1> QED BY <1>1, <1>2

LEMMA PartsDiffer ==
    /\ Len(Parts) = 5 /\ DOMAIN Parts = 1 .. 5
    /\ \A j, k \in 1 .. 5 : Parts[j] = Parts[k] => j = k
    /\ \A i, m : m \in 0 .. 5 /\ written[i] = PartSet(m) => (HasFilesystem(i) <=> m # 0)
<1>1. Len(Parts) = 5 /\ DOMAIN Parts = 1 .. 5
  BY DEF Parts
<1>2. \A j, k \in 1 .. 5 : j < k => Parts[j] # Parts[k]
  <2>1. /\ Parts[1] # Parts[2] /\ Parts[1] # Parts[3] /\ Parts[1] # Parts[4] /\ Parts[1] # Parts[5]
        /\ Parts[2] # Parts[3] /\ Parts[2] # Parts[4] /\ Parts[2] # Parts[5]
        /\ Parts[3] # Parts[4] /\ Parts[3] # Parts[5] /\ Parts[4] # Parts[5]
    BY Zenon DEF Parts
  <2>2. \A j \in 1 .. 5 : j = 1 \/ j = 2 \/ j = 3 \/ j = 4 \/ j = 5
    OBVIOUS
  <2> QED BY <2>1, <2>2
<1>3. \A j, k \in 1 .. 5 : Parts[j] = Parts[k] => j = k
  BY <1>2
<1>4. ASSUME NEW i, NEW m \in 0 .. 5, written[i] = PartSet(m)
      PROVE  HasFilesystem(i) <=> m # 0
  <2>1. HasFilesystem(i) <=> Parts[1] \in PartSet(m)
    BY <1>4, Zenon DEF HasFilesystem, Parts
  <2>2. \A k \in 1 .. m : k \in 1 .. 5 /\ m # 0
    OBVIOUS
  <2>3. m # 0 => 1 \in 1 .. m
    OBVIOUS
  <2> QED BY <2>1, <2>2, <2>3, Zenon DEF PartSet
<1> QED BY <1>1, <1>3, <1>4, Zenon

LEMMA InitIInv == Init => IInv
<1> SUFFICES ASSUME Init PROVE IInv
  OBVIOUS
<1>1. DOMAIN partitions = {} /\ partitions \in Seq([start_sector_no : Nat, sector_count : SectorCounts])
      /\ Len(partitions) = 0
  BY DEF Init
<1>2. Len(Parts) = 5
  BY DEF Parts
<1> QED BY <1>1, <1>2 DEF Init, IInv, PartitionsApart, FormatsInOrder

(* The partitions stay the same in all other steps.                        *)
LEMMA KeepsApart ==
    ASSUME PartitionsApart, UNCHANGED partitions
    PROVE  PartitionsApart' /\ DOMAIN partitions \subseteq Numbers
<1>1. DOMAIN partitions = 1 .. Len(partitions) /\ Len(partitions) \in Nat
  BY DEF PartitionsApart
<1> QED BY <1>1 DEF PartitionsApart, EndLba, Numbers

LEMMA create_partitionsStep ==
    ASSUME IInv, NEW counts \in CountSeqs, create_partitions(counts)
    PROVE  IInv'
<1>1. PICK n \in Nat \ {0} : n <= MaxPartitions /\ counts \in [1 .. n -> SectorCounts]
  BY DEF CountSeqs, Numbers
<1>2. counts \in [1 .. n -> Nat] /\ Len(counts) = n /\ DOMAIN counts = 1 .. n
  <2>1. SectorCounts \subseteq Nat
    OBVIOUS
  <2>2. counts \in [1 .. n -> Nat]
    BY <1>1, <2>1
  <2> QED BY <2>2, TableIsSeq
<1> DEFINE start[i \in 1 .. n] == IF i = 1 THEN FirstSector ELSE start[i - 1] + counts[i - 1]
           P == [start_sector_no : Nat, sector_count : SectorCounts]
           table == [i \in 1 .. n |-> [start_sector_no |-> start[i], sector_count |-> counts[i]]]
<1>3. /\ partitions' = IF \E i \in 1 .. n : counts[i] < MinSectors THEN <<>> ELSE table
      /\ at' = 0 /\ done' = done /\ at = 0 /\ interrupted' = {}
      /\ written' = [i \in Numbers |-> {}]
  BY <1>2 DEF create_partitions
<1>4. /\ start \in [1 .. n -> Nat]
      /\ \A i \in 1 .. n : start[i] >= FirstSector
      /\ \A i, j \in 1 .. n : i < j => start[i] + counts[i] <= start[j]
  BY <1>2, Starts, Zenon
<1> HIDE DEF start
<1>5. PartitionsApart'
  <2>1. CASE partitions' = <<>>
    BY <2>1 DEF PartitionsApart
  <2>2. CASE partitions' = table /\ \A i \in 1 .. n : ~(counts[i] < MinSectors)
    <3>1. ASSUME NEW i \in 1 .. n
          PROVE  /\ start[i] \in Nat /\ counts[i] \in SectorCounts /\ counts[i] \in Nat
                 /\ counts[i] >= MinSectors
                 /\ table[i] = [start_sector_no |-> start[i], sector_count |-> counts[i]]
      BY <1>1, <1>2, <1>4, <2>2
    <3>2. table \in [1 .. n -> P]
      BY <3>1
    <3> HIDE DEF table, P
    <3>3. table \in Seq(P) /\ Len(table) = n /\ DOMAIN table = 1 .. n
      BY <3>2, TableIsSeq
    <3> USE DEF table
    <3>4. ASSUME NEW i \in 1 .. n
          PROVE  /\ table[i].sector_count >= MinSectors
                 /\ table[i].start_sector_no >= FirstSector
                 /\ table[i].start_sector_no + table[i].sector_count = start[i] + counts[i]
                 /\ table[i].start_sector_no = start[i]
      BY <3>1, <1>4
    <3> HIDE DEF table, P
    <3>5. \A i, j \in 1 .. n : i < j =>
             table[i].start_sector_no + table[i].sector_count <= table[j].start_sector_no
      BY <3>4, <1>4, Zenon
    <3>6. Len(table) <= MaxPartitions
      BY <3>3, <1>1
    <3> QED BY <2>2, <3>3, <3>4, <3>5, <3>6, Zenon DEF PartitionsApart, EndLba, P
  <2> QED BY <1>3, <2>1, <2>2
<1>6. FormatsInOrder'
  <2>1. done = 0
    <3>1. 0 \notin DOMAIN partitions
      BY DEF IInv, PartitionsApart
    <3> QED BY <1>3, <3>1 DEF IInv, FormatsInOrder
  <2>2. Len(Parts) = 5
    BY DEF Parts
  <2>3. ASSUME NEW i \in DOMAIN (partitions') PROVE Begun(i, 0)'
    <3>1. i \in Numbers
      BY <1>5 DEF PartitionsApart, Numbers
    <3> QED BY <1>3, <3>1 DEF Begun, PartSet
  <2>4. 0 \in 0 .. Len(Parts)
    BY <2>2
  <2> QED BY <1>3, <2>1, <2>2, <2>3, <2>4 DEF FormatsInOrder
<1> QED BY <1>5, <1>6 DEF IInv

LEMMA partition_formatStep ==
    ASSUME IInv, partition_format
    PROVE  IInv'
<1>1. PartitionsApart' /\ at \in Numbers
  BY KeepsApart DEF IInv, partition_format
<1>2. Len(Parts) = 5 /\ DOMAIN Parts = 1 .. 5
  BY DEF Parts
<1>3. /\ written' = [written EXCEPT ![at] = @ \cup {Parts[done + 1]}]
      /\ done' = (done + 1) % 5
      /\ at' = IF done' = 0 THEN at + 1 ELSE at
      /\ UNCHANGED <<partitions, interrupted>> /\ at \in DOMAIN partitions
      /\ done > 0 \/ ~HasFilesystem(at)
  BY <1>2 DEF partition_format
<1>4. done \in 0 .. 4 /\ at \in Nat /\ written \in [Numbers -> SUBSET PartSet(5)]
  BY <1>2 DEF IInv, FormatsInOrder
<1>5. written[at] = PartSet(done) /\ at \notin interrupted
  <2>1. CASE done # 0
    BY <2>1 DEF IInv, FormatsInOrder
  <2>2. CASE done = 0
    <3>1. PICK m \in 0 .. 5 : Begun(at, m)
      BY <1>2, <1>3, <2>2 DEF IInv, FormatsInOrder
    <3>2. ~HasFilesystem(at)
      BY <1>3, <2>2
    <3>3. m = 0
      BY <3>1, <3>2, PartsDiffer DEF Begun
    <3> QED BY <2>2, <3>1, <3>3 DEF Begun
  <2> QED BY <2>1, <2>2
<1>6. written'[at] = PartSet(done + 1)
  <2>1. written'[at] = PartSet(done) \cup {Parts[done + 1]}
    BY <1>1, <1>3, <1>4, <1>5
  <2>2. 1 .. done + 1 = (1 .. done) \cup {done + 1}
    BY <1>4
  <2> QED BY <2>1, <2>2 DEF PartSet
<1>7. FormatsInOrder'
  <2>1. done + 1 \in 1 .. 5 /\ done' \in 0 .. 4 /\ (done' = 0 => done + 1 = 5) /\ (done' # 0 => done' = done + 1)
    BY <1>3, <1>4
  <2>2. written' \in [Numbers -> SUBSET PartSet(5)]
    <3>1. Parts[done + 1] \in PartSet(5)
      BY <2>1 DEF PartSet
    <3> QED BY <1>3, <1>4, <3>1
  <2>3. done' # 0 => /\ at' \in DOMAIN partitions'
                     /\ written'[at'] = PartSet(done') /\ at' \notin interrupted'
    BY <1>3, <1>5, <1>6, <2>1
  <2>4. ASSUME NEW i \in DOMAIN (partitions')
        PROVE  (at' = i /\ done' # 0) \/ \E m \in 0 .. Len(Parts) : Begun(i, m)'
    <3>1. CASE i # at
      <4>1. i \in Numbers /\ written'[i] = written[i]
        BY <1>1, <1>3, <1>4, <3>1, KeepsApart DEF IInv
      <4>2. PICK m \in 0 .. Len(Parts) : Begun(i, m)
        BY <1>3, <3>1 DEF IInv, FormatsInOrder
      <4>3. Begun(i, m)'
        BY <1>3, <4>1, <4>2 DEF Begun, PartSet
      <4> QED BY <4>3
    <3>2. CASE i = at /\ done' # 0
      BY <1>3, <3>2
    <3>3. CASE i = at /\ done' = 0
      <4>1. Begun(i, 5)'
        <5>1. 5 \notin 1 .. Len(Parts) - 1 /\ done + 1 = 5
          BY <1>2, <2>1, <3>3
        <5> QED BY <1>3, <1>5, <1>6, <3>3, <5>1 DEF Begun, PartSet
      <4> QED BY <1>2, <4>1
    <3> QED BY <3>1, <3>2, <3>3
  <2>5. at' \in Nat
    BY <1>3, <1>4
  <2> QED BY <1>2, <2>1, <2>2, <2>3, <2>4, <2>5 DEF FormatsInOrder, PartSet
<1> QED BY <1>1, <1>7 DEF IInv

(* Steps that write nothing; the process may end in one of them.           *)
LEMMA WritesNothing ==
    ASSUME IInv, UNCHANGED <<partitions, written>>, at' \in Nat,
           \/ done' = done /\ UNCHANGED interrupted /\ (done # 0 => at' = at)
           \/ done' = 0 /\ interrupted' = interrupted \cup (IF done # 0 THEN {at} ELSE {})
    PROVE  IInv'
<1>1. PartitionsApart'
  BY KeepsApart DEF IInv
<1>2. Len(Parts) = 5 /\ \A m : PartSet(m)' = PartSet(m)
  BY DEF Parts, PartSet
<1>3. CASE done' = done /\ UNCHANGED interrupted /\ (done # 0 => at' = at)
  BY <1>1, <1>2, <1>3 DEF IInv, FormatsInOrder, Begun
<1>4. CASE done' = 0 /\ interrupted' = interrupted \cup (IF done # 0 THEN {at} ELSE {})
  <2>1. ASSUME NEW i \in DOMAIN partitions
        PROVE  \E m \in 0 .. Len(Parts) : Begun(i, m)'
    <3>1. CASE at = i /\ done # 0
      <4>1. PICK m \in 1 .. Len(Parts) - 1 : m = done /\ written[at] = PartSet(m)
        BY <3>1, <1>2 DEF IInv, FormatsInOrder
      <4>2. i \in interrupted'
        BY <1>4, <3>1
      <4>3. Begun(i, m)'
        BY <1>2, <3>1, <4>1, <4>2 DEF Begun
      <4> QED BY <1>2, <4>3
    <3>2. CASE ~(at = i /\ done # 0)
      <4>1. PICK m \in 0 .. Len(Parts) : Begun(i, m)
        BY <3>2 DEF IInv, FormatsInOrder
      <4>2. Begun(i, m)'
        BY <1>2, <1>4, <3>2, <4>1 DEF Begun
      <4> QED BY <4>2
    <3> QED BY <3>1, <3>2
  <2>2. 0 \in 0 .. Len(Parts) - 1
    BY <1>2
  <2> QED BY <1>1, <1>2, <1>4, <2>1, <2>2 DEF IInv, FormatsInOrder
<1> QED BY <1>3, <1>4

LEMMA NextStep ==
    ASSUME IInv, [Next]_vars
    PROVE  IInv'
<1>1. at \in Nat
  BY DEF IInv, FormatsInOrder
<1>2. CASE \E counts \in CountSeqs : create_partitions(counts)
  BY <1>2, create_partitionsStep
<1>3. CASE fs_init
  <2>1. 0 \notin DOMAIN partitions
    BY DEF IInv, PartitionsApart
  <2>2. done = 0
    BY <1>3, <2>1 DEF fs_init, IInv, FormatsInOrder
  <2> QED BY <1>3, <2>2, WritesNothing DEF fs_init
<1>4. CASE partition_format
  BY <1>4, partition_formatStep
<1>5. CASE passes_over
  BY <1>1, <1>5, WritesNothing DEF passes_over
<1>6. CASE mount_partition
  BY <1>1, <1>6, WritesNothing DEF mount_partition
<1>7. CASE Ends
  BY <1>7, WritesNothing DEF Ends
<1>8. CASE UNCHANGED vars
  BY <1>1, <1>8, WritesNothing DEF vars
<1> QED BY <1>2, <1>3, <1>4, <1>5, <1>6, <1>7, <1>8 DEF Next

LEMMA SpecIInv == Spec => []IInv
BY InitIInv, NextStep, PTL DEF Spec

(* For all partitions create_partitions makes, of sizes that have room for *)
(* the tables: partition_format lays out bitmaps, inode table and data     *)
(* area one behind the other, inside the partition and off every other     *)
(* one, and the block bitmap has a bit for each block of the data area.    *)
THEOREM LayoutsApart == Spec => []RegionsApart
<1>1. IInv => RegionsApart
  <2> SUFFICES ASSUME IInv, NEW i \in Formatted
               PROVE  LET dp == partitions[i]
                          sb == Layout(dp)
                      IN  /\ dp.start_sector_no >= FirstSector
                          /\ sb.inode_bitmap_lba >= sb.block_bitmap_lba + sb.block_bitmap_lbc
                          /\ sb.inode_table_lba >= sb.inode_bitmap_lba + InodeBitmapLbc
                          /\ sb.data_start_lba >= sb.inode_table_lba + InodeTableLbc
                          /\ sb.data_start_lba + FreeLbc(dp) <= EndLba(i)
                          /\ sb.block_bitmap_lbc * BITS_PER_SECTOR >= FreeLbc(dp)
                          /\ \A j \in DOMAIN partitions : EndLba(i) <= partitions[j].start_sector_no
                                                  \/ EndLba(j) <= dp.start_sector_no \/ i = j
    BY Zenon DEF RegionsApart
  <2>1. i \in DOMAIN partitions /\ DOMAIN partitions \subseteq Nat
        /\ DOMAIN partitions = 1 .. Len(partitions)
    <3>1. partitions \in Seq([start_sector_no : Nat, sector_count : SectorCounts])
      BY DEF IInv, PartitionsApart
    <3>2. DOMAIN partitions = 1 .. Len(partitions)
      BY <3>1
    <3>3. i \in DOMAIN partitions
      BY Zenon DEF Formatted
    <3> QED BY <3>2, <3>3
  <2>2. /\ partitions[i] \in [start_sector_no : Nat, sector_count : SectorCounts]
        /\ partitions[i].sector_count >= MinSectors /\ partitions[i].start_sector_no >= FirstSector
    <3> DEFINE P == [start_sector_no : Nat, sector_count : SectorCounts]
    <3> HIDE DEF P
    <3>1. partitions \in Seq(P)
      BY DEF IInv, PartitionsApart, P
    <3>2. partitions[i] \in P
      BY <2>1, <3>1
    <3> QED BY <2>1, <3>2 DEF IInv, PartitionsApart, P
  <2>3. ASSUME NEW j \in DOMAIN partitions
        PROVE  EndLba(i) <= partitions[j].start_sector_no
               \/ EndLba(j) <= partitions[i].start_sector_no \/ i = j
    <3>1. i < j \/ j < i \/ i = j
      BY <2>1
    <3> QED BY <2>1, <3>1 DEF IInv, PartitionsApart
  <2> QED BY <2>2, <2>3, LayoutFits, Zenon DEF EndLba
<1> QED BY <1>1, SpecIInv, PTL

(* However often the process died in partition_format, and wherever: a     *)
(* partition that passes for one with a file system lacks a part of it     *)
(* exactly when a format of it was cut short.                              *)
THEOREM MagicNumberMeansWhole == Spec => []MagicMeansWhole
<1>1. IInv => MagicMeansWhole
  <2> SUFFICES ASSUME IInv, NEW i \in DOMAIN partitions, HasFilesystem(i), ~(at = i /\ done # 0)
               PROVE  i \in interrupted <=> \E k \in DOMAIN Parts : Parts[k] \notin written[i]
    BY DEF MagicMeansWhole
  <2>1. PICK m \in 0 .. Len(Parts) : Begun(i, m)
    BY DEF IInv, FormatsInOrder
  <2>2. Len(Parts) = 5 /\ DOMAIN Parts = 1 .. 5
    BY PartsDiffer
  <2>3. \A j, k \in 1 .. 5 : Parts[j] = Parts[k] => j = k
    BY PartsDiffer
  <2>4. m # 0
    BY <2>1, <2>2, PartsDiffer DEF Begun
  <2>5. CASE m = 5
    BY <2>1, <2>2, <2>5 DEF Begun, PartSet
  <2>6. CASE m < 5
    <3>1. Parts[m + 1] \notin PartSet(m) /\ m + 1 \in 1 .. 5
      BY <2>1, <2>2, <2>3, <2>6 DEF PartSet
    <3> QED BY <2>1, <2>2, <2>4, <2>6, <3>1 DEF Begun
  <2> QED BY <2>1, <2>2, <2>5, <2>6
<1> QED BY <1>1, SpecIInv, PTL

-----------------------------------------------------------------------------
(* The bits behind the last block.                                         *)

LEMMA Multiples ==
    ASSUME NEW c \in Nat \ {0}, NEW a \in Nat, NEW b \in Nat
    PROVE  /\ c * a \in Nat
           /\ a < b => c * a + c <= c * b
           /\ a <= b => c * a <= c * b
<1>1. c * a \in Nat
  OBVIOUS
<1>2. ASSUME a < b PROVE c * a + c <= c * b
  <2> DEFINE d == b - (a + 1)
  <2>1. d \in Nat /\ b = a + 1 + d
    BY <1>2
  <2>2. c * d \in Nat
    BY <2>1
  <2>3. c * b = c * a + c + c * d
    BY <2>1
  <2> QED BY <2>2, <2>3, <1>1
<1> QED BY <1>1, <1>2

(* The marks are laid from byte BLOCK_SIZE - L % BLOCK_SIZE on, where L is *)
(* the last byte, and for as many bytes.  F is the number of blocks, n of  *)
(* sectors of the bitmap.                                                  *)
LEMMA FillMissesTail ==
    ASSUME NEW F \in Nat, NEW B \in Nat \ {0}, NEW Y \in Nat \ {0},
           NEW n \in Nat, NEW L \in Nat, NEW r \in Nat, NEW k \in Nat, NEW m \in Nat,
           F = Y * L + r, r < Y, L = B * k + m, m < B,
           F < n * (B * Y), n * (B * Y) < F + B * Y,
           Y * (B - m) <= F, n * (B * Y) - 1 < 2 * (Y * (B - m))
    PROVE  L = B \/ 2 * L = B
<1> DEFINE w == B - m
<1>1. w \in Nat \ {0} /\ w <= B /\ m = B - w
  OBVIOUS
<1> HIDE DEF w
<1>2. Y * w <= F /\ n * (B * Y) <= 2 * (Y * w)
  <2>1. n * (B * Y) \in Nat /\ Y * w \in Nat
    BY <1>1
  <2> QED BY <2>1 DEF w
<1>3. n * (B * Y) = Y * (n * B) /\ n * B \in Nat /\ 2 * (Y * w) = Y * (2 * w)
  BY <1>1
<1>4. n * B <= 2 * w
  <2> SUFFICES ASSUME 2 * w < n * B PROVE FALSE
    BY <1>1, <1>3
  <2>1. Y * (2 * w) + Y <= Y * (n * B)
    BY <1>1, <1>3, Multiples
  <2>2. Y * (2 * w) \in Nat /\ Y * (n * B) \in Nat
    BY <1>1, <1>3
  <2> QED BY <1>2, <1>3, <2>1, <2>2
<1>5. n # 0
  <2> SUFFICES ASSUME n = 0 PROVE FALSE
    OBVIOUS
  <2> QED BY <1>3
<1>6. n < 3
  <2> SUFFICES ASSUME 3 <= n PROVE FALSE
    OBVIOUS
  <2>1. B * 3 <= B * n
    BY Multiples
  <2>2. B * n = n * B
    OBVIOUS
  <2> QED BY <1>1, <1>3, <1>4, <2>1, <2>2
<1>7. Y * L \in Nat /\ B * k \in Nat
  OBVIOUS
<1>8. CASE n = 1
  <2>1. F < Y * B
    BY <1>3, <1>8
  <2>2. L < B
    <3> SUFFICES ASSUME B <= L PROVE FALSE
      OBVIOUS
    <3>1. Y * B <= Y * L
      BY Multiples
    <3> QED BY <2>1, <3>1, <1>7
  <2>3. k = 0
    <3> SUFFICES ASSUME 1 <= k PROVE FALSE
      OBVIOUS
    <3>1. B * 1 <= B * k
      BY Multiples
    <3> QED BY <2>2, <3>1, <1>7
  <2>4. L = m
    BY <2>3
  <2>5. w <= L
    <3> SUFFICES ASSUME L < w PROVE FALSE
      BY <1>1
    <3>1. Y * L + Y <= Y * w
      BY <1>1, Multiples
    <3> QED BY <1>1, <1>2, <1>7, <3>1
  <2> QED BY <1>1, <1>4, <1>8, <2>4, <2>5
<1>9. CASE n = 2
  <2>1. w = B /\ m = 0 /\ L = B * k
    BY <1>1, <1>4, <1>9, <1>7
  <2>2. Y * B < F /\ F < Y * (2 * B)
    <3>1. B * Y = Y * B /\ n * (B * Y) = 2 * (Y * B) /\ Y * (2 * B) = 2 * (Y * B) /\ Y * B \in Nat
      BY <1>9
    <3> QED BY <3>1
  <2>3. L < 2 * B
    <3> SUFFICES ASSUME 2 * B <= L PROVE FALSE
      OBVIOUS
    <3>1. Y * (2 * B) <= Y * L
      BY Multiples
    <3>2. Y * (2 * B) \in Nat
      OBVIOUS
    <3> QED BY <2>2, <3>1, <3>2, <1>7
  <2>4. B <= L
    <3> SUFFICES ASSUME L < B PROVE FALSE
      OBVIOUS
    <3>1. Y * L + Y <= Y * B
      BY Multiples
    <3>2. Y * B \in Nat
      OBVIOUS
    <3> QED BY <2>2, <3>1, <3>2, <1>7
  <2>5. k < 2
    <3> SUFFICES ASSUME 2 <= k PROVE FALSE
      OBVIOUS
    <3>1. B * 2 <= B * k
      BY Multiples
    <3> QED BY <2>1, <2>3, <3>1, <1>7
  <2>6. k # 0
    <3> SUFFICES ASSUME k = 0 PROVE FALSE
      OBVIOUS
    <3> QED BY <2>1, <2>4
  <2> QED BY <2>1, <2>5, <2>6
<1> QED BY <1>5, <1>6, <1>8, <1>9

LEMMA Divided ==
    ASSUME NEW x \in Nat, NEW s \in Nat \ {0}
    PROVE  x \div s \in Nat /\ x % s \in Nat /\ x % s < s /\ x = s * (x \div s) + (x % s)
OBVIOUS

LEMMA DivUpExact ==
    ASSUME NEW F \in Nat, NEW Z \in Nat \ {0}, F % Z = 0
    PROVE  DIV_ROUND_UP(F, Z) * Z = F
<1> DEFINE n == DIV_ROUND_UP(F, Z)
           d == F \div Z
<1>1. n \in Nat /\ n * Z >= F
  BY DivUp
<1>2. n = (F + Z - 1) \div Z /\ F + Z - 1 \in Nat
  BY DEF DIV_ROUND_UP
<1>3. Z * n <= F + Z - 1
  BY <1>2, Divided
<1>4. d \in Nat /\ F = Z * d
  BY Divided
<1>0. Z * n \in Nat /\ Z * d \in Nat
  BY <1>1, <1>4
<1> HIDE DEF n, d
<1>5. n <= d
  <2> SUFFICES ASSUME d < n PROVE FALSE
    BY <1>1, <1>4
  <2>1. Z * d + Z <= Z * n
    BY <1>1, <1>4, Multiples
  <2> QED BY <1>0, <1>3, <1>4, <2>1
<1>6. Z * n <= Z * d
  BY <1>1, <1>4, <1>5, Multiples
<1>7. Z * n = n * Z
  BY <1>1
<1> QED BY <1>1, <1>3, <1>4, <1>6, <1>7 DEF n

(* What LastByte, LastSize and the fill come to.                           *)
LEMMA TailHasHole ==
    ASSUME NEW dp, NEW F, F = FreeLbc(dp), F \in Nat, NEW Z, Z = BITS_PER_SECTOR,
           F % Z # 0, LastByte(dp) # BLOCK_SIZE, 2 * LastByte(dp) # BLOCK_SIZE,
           NEW w, w = LastSize(dp), NEW n, n = DIV_ROUND_UP(F, Z)
    PROVE  /\ n * Z \in Nat /\ F < n * Z /\ w \in Nat
           /\ \/ F \notin ByteBits * w .. 2 * ByteBits * w - 1
              \/ n * Z - 1 \notin ByteBits * w .. 2 * ByteBits * w - 1
<1> DEFINE B == BLOCK_SIZE
           Y == ByteBits
           L == F \div Y
           m == L % B
<1>1. B \in Nat \ {0} /\ Y \in Nat \ {0} /\ Z = B * Y
  BY DEF BITS_PER_SECTOR
<1>2. L = LastByte(dp) /\ w = B - m
  BY DEF LastByte, LastSize
<1>3. L \in Nat /\ F % Y \in Nat /\ F % Y < Y /\ F = (Y * L) + (F % Y)
  BY <1>1, Divided
<1>4. L \div B \in Nat /\ m \in Nat /\ m < B /\ L = (B * (L \div B)) + m
  BY <1>1, <1>3, Divided
<1>5. Z \in Nat \ {0}
  <2>1. \A x, y \in Nat \ {0} : x * y \in Nat \ {0}
    OBVIOUS
  <2> QED BY <1>1, <2>1
<1>6. n \in Nat /\ n * Z >= F
  BY <1>5, DivUp
<1>7. n * Z < F + Z
  <2>1. n = (F + Z - 1) \div Z
    BY DEF DIV_ROUND_UP
  <2>2. F + Z - 1 \in Nat
    BY <1>5
  <2>3. Z * n <= F + Z - 1
    BY <1>5, <2>1, <2>2, Divided
  <2>4. Z * n = n * Z
    BY <1>5, <1>6
  <2> QED BY <1>5, <1>6, <2>3, <2>4
<1>8. F # n * Z
  <2>1. (n * Z) % Z = 0
    <3>1. n * Z = Z * n
      BY <1>5, <1>6
    <3>2. \A q \in Nat : (Z * q) % Z = 0
      BY <1>5
    <3> QED BY <1>6, <3>1, <3>2
  <2> QED BY <2>1
<1> HIDE DEF L, m
<1>9. n * Z \in Nat /\ F < n * Z /\ w \in Nat
  BY <1>2, <1>4, <1>5, <1>6, <1>8
<1>10. SUFFICES ASSUME F \in Y * w .. 2 * Y * w - 1, n * Z - 1 \in Y * w .. 2 * Y * w - 1
                PROVE  FALSE
  BY <1>9
<1>11. Y * (B - m) <= F /\ n * (B * Y) - 1 < 2 * (Y * (B - m)) /\ n * (B * Y) < F + B * Y
  <2>1. Y * w \in Nat /\ 2 * Y * w = 2 * (Y * w)
    BY <1>1, <1>9
  <2>2. Y * w <= F /\ n * Z - 1 < 2 * (Y * w)
    BY <1>9, <1>10, <2>1
  <2> QED BY <1>1, <1>2, <1>7, <2>2
<1>12. F < n * (B * Y)
  BY <1>1, <1>9
<1> DEFINE r == F % Y
           k == L \div B
<1>13. r \in Nat /\ r < Y /\ k \in Nat /\ F = Y * L + r /\ L = B * k + m
  BY <1>3, <1>4
<1> HIDE DEF r, k
<1>14. L = B \/ 2 * L = B
  BY <1>1, <1>3, <1>4, <1>6, <1>11, <1>12, <1>13, FillMissesTail
<1> QED BY <1>2, <1>14

(* The bitmap on the disk is what partition_format made of its buffer.     *)
MarkedFor(dp, b) ==
    \E buf \in {{}, Remains}, bit_idx \in 0 .. ByteBits : b = Marked(dp, buf, bit_idx)
BitsAreMarks ==
    /\ bits \in [Numbers -> SUBSET Int]
    /\ \A i \in Formatted : MarkedFor(partitions[i], bits[i])

LEMMA MarksStay ==
    ASSUME BitsAreMarks, UNCHANGED <<partitions, written, bits>>
    PROVE  BitsAreMarks'
BY DEF BitsAreMarks, Formatted

LEMMA MarkedIsInt ==
    ASSUME NEW dp, NEW buf \in {{}, Remains}, NEW b
    PROVE  Marked(dp, buf, b) \in SUBSET Int
<1>1. Remains \subseteq Int
  OBVIOUS
<1> QED BY <1>1 DEF Marked

LEMMA partition_formatMarks ==
    ASSUME IInv, BitsAreMarks, partition_format
    PROVE  BitsAreMarks'
<1>1. /\ written' = [written EXCEPT ![at] = @ \cup {Parts[done + 1]}]
      /\ UNCHANGED partitions /\ at \in DOMAIN partitions /\ at \in Numbers
      /\ done + 1 \in 1 .. 5 /\ written \in [Numbers -> SUBSET PartSet(5)]
      /\ DOMAIN partitions \subseteq Numbers
  <2>1. Len(Parts) = 5
    BY PartsDiffer
  <2>2. PartitionsApart /\ UNCHANGED partitions /\ at \in DOMAIN partitions
        /\ written' = [written EXCEPT ![at] = @ \cup {Parts[done + 1]}]
    BY DEF partition_format, IInv
  <2>3. DOMAIN partitions \subseteq Numbers
    BY <2>2, KeepsApart
  <2>4. done \in 0 .. 4 /\ written \in [Numbers -> SUBSET PartSet(5)]
    BY <2>1 DEF IInv, FormatsInOrder
  <2>5. done + 1 \in 1 .. 5
    BY <2>4
  <2> QED BY <2>2, <2>3, <2>4, <2>5
<1>2. CASE Parts[done + 1] = "block bitmap"
  <2>1. PICK buf \in {{}, Remains}, bit_idx \in 0 .. ByteBits :
            bits' = [bits EXCEPT ![at] = Marked(partitions[at], buf, bit_idx)]
    BY <1>2 DEF partition_format
  <2> DEFINE M == Marked(partitions[at], buf, bit_idx)
  <2>2. M \in SUBSET Int
    BY MarkedIsInt
  <2> HIDE DEF M
  <2>3. bits' \in [Numbers -> SUBSET Int] /\ bits'[at] = M
        /\ \A i \in Numbers : i # at => bits'[i] = bits[i]
    BY <1>1, <2>1, <2>2 DEF BitsAreMarks, M
  <2>4. ASSUME NEW i \in Formatted'
        PROVE  MarkedFor(partitions[i], bits'[i])
    <3>1. CASE i = at
      BY <2>3, <3>1 DEF M, MarkedFor
    <3>2. CASE i # at
      <4>1. i \in Formatted /\ i \in Numbers
        BY <1>1, <3>2 DEF Formatted
      <4> QED BY <2>3, <3>2, <4>1 DEF BitsAreMarks
    <3> QED BY <3>1, <3>2
  <2> QED BY <1>1, <2>3, <2>4 DEF BitsAreMarks
<1>3. CASE Parts[done + 1] # "block bitmap"
  <2>1. UNCHANGED bits
    BY <1>3 DEF partition_format
  <2>2. Formatted' = Formatted
    BY <1>1, <1>3 DEF Formatted
  <2> QED BY <1>1, <2>1, <2>2 DEF BitsAreMarks
<1> QED BY <1>2, <1>3

LEMMA MarksStep ==
    ASSUME IInv, BitsAreMarks, [Next]_vars
    PROVE  BitsAreMarks'
<1>1. ASSUME NEW counts \in CountSeqs, create_partitions(counts)
      PROVE  BitsAreMarks'
  <2>1. /\ DOMAIN partitions' \subseteq Numbers
        /\ written' = [i \in Numbers |-> {}] /\ bits' = [i \in Numbers |-> {}]
    <3>1. IInv'
      BY <1>1, create_partitionsStep
    <3>2. DOMAIN partitions' = 1 .. Len(partitions') /\ Len(partitions') \in Nat
          /\ Len(partitions') <= MaxPartitions
      BY <3>1 DEF IInv, PartitionsApart
    <3> QED BY <1>1, <3>2 DEF create_partitions, Numbers
  <2>2. Formatted' = {}
    BY <2>1 DEF Formatted
  <2> QED BY <2>1, <2>2 DEF BitsAreMarks
<1>2. CASE partition_format
  BY <1>2, partition_formatMarks
<1>3. CASE fs_init \/ passes_over \/ mount_partition \/ Ends \/ UNCHANGED vars
  BY <1>3, MarksStay, Zenon DEF fs_init, passes_over, mount_partition, Ends, vars
<1> QED BY <1>1, <1>2, <1>3 DEF Next

(* The block of the root directory is marked in every bitmap that a format *)
(* has written, and so are, of the blocks that exist, those the fill of    *)
(* fs.cpp:153 falls on, which starts at byte last_size.  The bits behind   *)
(* the last block are marked when there are none, and otherwise only in    *)
(* the two cases where that fill happens to reach them all.                *)
THEOREM TailByChance == Spec => []TailMarkedByChance
<1>1. Init => BitsAreMarks
  <2> SUFFICES ASSUME Init PROVE BitsAreMarks
    OBVIOUS
  <2>1. DOMAIN partitions = {} /\ bits = [i \in Numbers |-> {}]
    BY DEF Init
  <2> QED BY <2>1 DEF BitsAreMarks, Formatted
<1>2. ASSUME IInv, BitsAreMarks, NEW i \in Formatted
      PROVE  LET dp == partitions[i]
                 start == ByteBits * LastSize(dp)
             IN  /\ 0 \in bits[i]
                 /\ \A b \in start .. 2 * start - 1 : b < ByteBits * LastByte(dp) => b \in bits[i]
                 /\ FreeLbc(dp) % BITS_PER_SECTOR = 0 => Phantoms(i) = {}
                 /\ Phantoms(i) = {} => \/ FreeLbc(dp) % BITS_PER_SECTOR = 0
                                       \/ 2 * LastByte(dp) = BLOCK_SIZE
                                       \/ LastByte(dp) = BLOCK_SIZE
  <2> DEFINE dp == partitions[i]
             F == FreeLbc(dp)
             Z == BITS_PER_SECTOR
             n == DIV_ROUND_UP(F, Z)
             w == LastSize(dp)
  <2>1. dp \in [start_sector_no : Nat, sector_count : SectorCounts] /\ dp.sector_count >= MinSectors
    <3> DEFINE P == [start_sector_no : Nat, sector_count : SectorCounts]
    <3> HIDE DEF P
    <3>1. partitions \in Seq(P) /\ i \in DOMAIN partitions
      BY <1>2 DEF IInv, PartitionsApart, P, Formatted
    <3>2. partitions[i] \in P
      BY <3>1
    <3> QED BY <1>2, <3>1, <3>2 DEF IInv, PartitionsApart, P
  <2>2. \A b \in Remains \cup {ByteBits - 1} : b < F
    <3>1. dp.sector_count \in SectorCounts
      BY <2>1
    <3>2. FreeLbc(dp) = FreeLbc([sector_count |-> dp.sector_count])
      BY DEF FreeLbc
    <3>3. \A b \in Remains \cup {ByteBits - 1} : b < FreeLbc([sector_count |-> dp.sector_count])
      <4>1. \A c \in SectorCounts : c >= MinSectors => ~(c < MinSectors)
        OBVIOUS
      <4> QED BY <2>1, <3>1, <4>1, RemainsAssumption, Zenon
    <3> QED BY <3>2, <3>3
  <2>3. PICK buf \in {{}, Remains}, bit_idx \in 0 .. ByteBits : bits[i] = Marked(dp, buf, bit_idx)
    BY <1>2 DEF BitsAreMarks, MarkedFor
  <2>4. Layout(dp).block_bitmap_lbc = n
    BY DEF Layout
  <2>5. Z \in Nat \ {0}
    <3>1. \A x, y \in Nat \ {0} : x * y \in Nat \ {0}
      OBVIOUS
    <3> QED BY <3>1 DEF BITS_PER_SECTOR
  <2>6. F \in Nat /\ ByteBits <= F
    <3>1. F \in Int
      <4>1. dp.sector_count \in SectorCounts /\ UsedLbc \in Nat
        BY <2>1 DEF UsedLbc
      <4>2. dp.sector_count \in Nat
        BY <4>1
      <4>3. dp.sector_count > UsedLbc + ByteBits
        BY <2>1, <4>1, <4>2
      <4>4. DIV_ROUND_UP(dp.sector_count - UsedLbc, Z) \in Nat
        BY <2>5, <4>1, <4>2, <4>3, DivUp
      <4> QED BY <4>1, <4>2, <4>4 DEF FreeLbc
    <3> QED BY <2>2, <3>1
  <2> HIDE DEF dp, F, Z, n, w
  <2>7. n \in Nat /\ n * Z \in Nat /\ F <= n * Z
    <3>1. n \in Nat /\ n * Z >= F
      BY <2>5, <2>6, DivUp DEF n
    <3> QED BY <2>5, <2>6, <3>1
  <2> DEFINE filled == ByteBits * w .. 2 * ByteBits * w - 1
             cleared == {ByteBits * LastByte(dp) + k : k \in bit_idx .. (F % ByteBits)}
  <2>8. bits[i] = ((buf \cup {0} \cup filled) \ cleared) \cap (0 .. n * Z - 1)
    BY <2>3, <2>4 DEF Marked, F, w, Z
  <2>13. ASSUME NEW b \in ByteBits * w .. 2 * (ByteBits * w) - 1, b < ByteBits * LastByte(dp)
         PROVE  b \in bits[i]
    <3>1. LastByte(dp) \in Nat /\ F % ByteBits \in Nat
          /\ F = (ByteBits * LastByte(dp)) + (F % ByteBits)
      <4>1. LastByte(dp) = F \div ByteBits
        BY DEF LastByte, F
      <4> QED BY <2>6, <4>1, Divided
    <3>2. \A x, y \in Int : x * y \in Int
      OBVIOUS
    <3>3. w \in Int
      BY <3>1 DEF LastSize, w
    <3>4. ByteBits * w \in Int /\ ByteBits * LastByte(dp) \in Int
      BY <3>1, <3>2, <3>3
    <3>5. 2 * (ByteBits * w) = 2 * ByteBits * w
      BY <3>3
    <3>6. b \in filled
      BY <2>13, <3>5, Zenon
    <3>7. b \notin cleared
      BY <2>13, <3>4
    <3>8. b \in 0 .. n * Z - 1
      BY <2>6, <2>7, <2>13, <3>1, <3>4
    <3> QED BY <2>8, <3>6, <3>7, <3>8
  <2>9. 0 \in bits[i]
    <3>1. LastByte(dp) \in Nat /\ LastByte(dp) # 0 /\ F % ByteBits < ByteBits
      <4>1. LastByte(dp) = F \div ByteBits
        BY DEF LastByte, F
      <4>2. F \div ByteBits \in Nat /\ F % ByteBits < ByteBits /\ F % ByteBits \in Nat
            /\ F = (ByteBits * (F \div ByteBits)) + (F % ByteBits)
        BY <2>6, Divided
      <4>3. F \div ByteBits # 0
        <5> SUFFICES ASSUME F \div ByteBits = 0 PROVE FALSE
          OBVIOUS
        <5> QED BY <2>6, <4>2
      <4> QED BY <4>1, <4>2, <4>3
    <3>2. ByteBits * LastByte(dp) \in Nat /\ ByteBits * LastByte(dp) # 0
      <4>1. \A x, y \in Nat \ {0} : x * y \in Nat \ {0}
        OBVIOUS
      <4> QED BY <3>1, <4>1
    <3>3. 0 \notin cleared
      BY <3>2
    <3>4. 0 \in 0 .. n * Z - 1
      BY <2>6, <2>7
    <3> QED BY <2>8, <3>3, <3>4
  <2>10. Phantoms(i) = (F .. n * Z - 1) \ bits[i]
    BY <2>4 DEF Phantoms, F, dp, Z
  <2>11. ASSUME F % Z = 0 PROVE Phantoms(i) = {}
    <3>1. n * Z = F
      BY <2>5, <2>6, <2>11, DivUpExact DEF n
    <3> QED BY <2>6, <2>10, <3>1
  <2>12. ASSUME F % Z # 0, LastByte(dp) # BLOCK_SIZE, 2 * LastByte(dp) # BLOCK_SIZE
         PROVE  Phantoms(i) # {}
    <3>1. n * Z \in Nat /\ F < n * Z /\ (F \notin filled \/ n * Z - 1 \notin filled)
      BY <2>6, <2>12, TailHasHole, Zenon DEF n, F, Z, w
    <3>2. PICK x \in {F, n * Z - 1} : x \notin filled
      BY <3>1
    <3>3. x \in F .. n * Z - 1 /\ x # 0
      BY <2>6, <3>1, <3>2
    <3>4. x \notin buf
      BY <2>2, <2>3, <2>6, <3>3
    <3>5. x \notin bits[i]
      BY <2>8, <3>2, <3>3, <3>4
    <3> QED BY <2>10, <3>3, <3>5
  <2> QED BY <2>9, <2>11, <2>12, <2>13, Zenon DEF F, Z, dp, w
<1>3. IInv /\ BitsAreMarks => TailMarkedByChance
  BY <1>2 DEF TailMarkedByChance
<1> QED BY <1>1, <1>3, SpecIInv, MarksStep, PTL DEF Spec
=============================================================================
