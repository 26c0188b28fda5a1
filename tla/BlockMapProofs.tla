---------------------------- MODULE BlockMapProofs ----------------------------
(***************************************************************************)
(* A file holds what was written, in blocks of its own, and implements the *)
(* file of bytes of ByteFile.tla; a directory finds what was entered: for  *)
(* every number and size of blocks.                                        *)
(*                                                                         *)
(* Hypotheses: no call reads the table of a file at TableWord              *)
(* (~TableCalls), which gives the bytes of other blocks (FileTable.cfg),   *)
(* and the first indirect block of a directory fits between the place      *)
(* where the table is read and its end (DirFits, 12 - 3 < 128).            *)
(***************************************************************************)
EXTENDS MCBlockMap, RecursionFacts

USE BlockMapAssumption, FileDataAssumption, DirDataAssumption

-----------------------------------------------------------------------------
(* A position is a block and a cell of it.                                 *)

LEMMA Divided ==
    ASSUME NEW a \in Nat
    PROVE  /\ a \div PerBlock \in Nat /\ a % PerBlock \in Cells
           /\ (a \div PerBlock) * PerBlock + (a % PerBlock) = a
<1>1. PerBlock \in Nat \ {0}
  OBVIOUS
<1> QED BY <1>1 DEF Cells

LEMMA DividedOnce ==
    ASSUME NEW k \in Int, NEW c \in Cells, k * PerBlock + c >= 0
    PROVE  /\ (k * PerBlock + c) \div PerBlock = k /\ (k * PerBlock + c) % PerBlock = c
<1>1. PerBlock \in Nat \ {0} /\ c \in 0 .. PerBlock - 1
  BY DEF Cells
<1> QED BY <1>1

LEMMA DivGrows ==
    ASSUME NEW a \in Nat, NEW b \in Nat, a <= b
    PROVE  a \div PerBlock <= b \div PerBlock
<1> DEFINE p == a \div PerBlock
           q == b \div PerBlock
<1>1. /\ p \in Nat /\ q \in Nat /\ p * PerBlock <= a /\ b < q * PerBlock + PerBlock
      /\ PerBlock \in Nat \ {0}
  <2>1. PerBlock \in Nat \ {0}
    OBVIOUS
  <2> QED BY <2>1
<1> HIDE DEF p, q
<1>2. p <= q
  <2> SUFFICES ASSUME p >= q + 1 PROVE FALSE
    BY <1>1
  <2>1. p - (q + 1) \in Nat
    BY <1>1
  <2>2. p * PerBlock = q * PerBlock + PerBlock + (p - (q + 1)) * PerBlock
        /\ (p - (q + 1)) * PerBlock \in Nat
    BY <1>1, <2>1
  <2> QED BY <1>1, <2>2
<1> QED BY <1>2 DEF p, q

-----------------------------------------------------------------------------
(* Successive calls of block_bitmap_alloc give different free blocks.      *)

LEMMA Successive ==
    /\ FreeBlocks \in Seq(Blocks \ used)
    /\ \A i, j \in DOMAIN FreeBlocks : FreeBlocks[i] = FreeBlocks[j] => i = j
<1> DEFINE free == Blocks \ used
           R == {ss \in Blocks \X Blocks : ss[1] < ss[2]}
           rank(b) == Cardinality({x \in free : x < b})
           n == Cardinality(free)
<1>1. IsFiniteSet(free) /\ Blocks \in SUBSET Int
  <2>1. IsFiniteSet(Blocks)
    BY FS_Interval DEF Blocks
  <2> QED BY <2>1, FS_Subset DEF Blocks
<1>2. Orders(R, free) /\ \A b \in free : Before(R, free, b) = {x \in free : x < b}
  BY <1>1 DEF Orders, Before
<1>3. n \in Nat /\ \A k \in 0 .. n - 1 : \E b \in free : rank(b) = k
  <2>1. \A b \in free : rank(b) = Cardinality(Before(R, free, b))
    BY <1>2
  <2> HIDE DEF R, free, rank
  <2> QED BY <1>1, <1>2, <2>1, RanksFilled
<1> DEFINE f == [j \in 1 .. n |-> CHOOSE b \in free : rank(b) = j - 1]
<1>4. FreeBlocks = f
  BY DEF FreeBlocks
<1>5. ASSUME NEW j \in 1 .. n PROVE f[j] \in free /\ rank(f[j]) = j - 1
  <2>1. j - 1 \in 0 .. n - 1
    BY <1>3
  <2>2. \E b \in free : rank(b) = j - 1
    BY <1>3, <2>1
  <2> QED BY <2>2
<1> HIDE DEF f, n, free, rank
<1>6. f = [j \in 1 .. n |-> f[j]] /\ DOMAIN f = 1 .. n
  BY DEF f
<1>7. f \in Seq(free)
  BY <1>3, <1>5, <1>6
<1>8. \A i, j \in 1 .. n : f[i] = f[j] => i = j
  BY <1>3, <1>5
<1> QED BY <1>4, <1>6, <1>7, <1>8 DEF free

-----------------------------------------------------------------------------
(* The inductive invariant of a file.                                      *)

BlockTypes ==
    /\ inode \in [i_size : Nat, i_block : [0 .. Direct -> Addresses]]
    /\ disk \in [Blocks -> [Cells -> Int]]
    /\ foreign \subseteq used /\ diskBitmap \subseteq used /\ used \subseteq Blocks
FileTypes ==
    /\ BlockTypes
    /\ fd_pos \in [Fds -> Nat \cup {-1}] /\ round \in {0, 1} /\ gaveUp \in BOOLEAN

(* The indexes below HasUsed have blocks, the others have none, and there  *)
(* is a table when the direct ones do not do.                              *)
Indexes == 0 .. HasUsed - 1
Mapped ==
    IF FirstWrite THEN inode = inode_init
    ELSE /\ HasUsed <= MaxBlocks
         /\ \A k \in 0 .. Direct - 1 : k >= HasUsed => inode.i_block[k] = 0
         /\ HasTable <=> HasUsed > Direct
         /\ \A k \in Indexes : BlockOf(k) \in used \ foreign
         /\ HasTable => inode.i_block[Direct] \in used \ foreign

EachOnce ==
    ~FirstWrite =>
        /\ \A j, k \in Indexes : BlockOf(j) = BlockOf(k) => j = k
        /\ \A k \in Indexes : BlockOf(k) # inode.i_block[Direct]

BlocksHeld ==
    IF FirstWrite THEN {} ELSE {BlockOf(k) : k \in Indexes} \cup ({inode.i_block[Direct]} \ {0})
NoneLost == gaveUp \/ used = foreign \cup BlocksHeld

(* Only a first write that gave up leaves the slot behind the inode.       *)
SlotFollows == slot = inode \/ (gaveUp /\ slot = inode_init /\ inode.i_size = 0)

FileInv ==
    /\ FileTypes /\ Mapped /\ EachOnce /\ NoneLost /\ SlotFollows
    /\ OnlyTableBitLate /\ OthersUntouched

-----------------------------------------------------------------------------
(* file_write, with the parts of its LET named.                            *)

First == IF FirstWrite THEN 1 ELSE 0
NewTable(count) == IF MakesTable(count) THEN 1 ELSE 0
Added(count) == HasUsed .. WillUse(count) - 1
Taken(count) == First + NewTable(count) + Cardinality(Added(count))
Fed(count) == Added(count) \cup (IF FirstWrite THEN {0} ELSE {})
Turn(count, k) == IF k = 0 THEN 1 ELSE First + NewTable(count) + k - HasUsed + 1
Given(count) == [k \in Fed(count) |-> IF k = 0 THEN FreeBlocks[1]
                                      ELSE FreeBlocks[First + NewTable(count) + k - HasUsed + 1]]
GivenTable == FreeBlocks[First + 1]
AllBlocks(count, junk) == Gathered(Given(count), junk)
NewMap(count, junk) ==
    [k \in 0 .. Direct |-> IF k < Direct THEN AllBlocks(count, junk)[k]
                           ELSE IF MakesTable(count) THEN GivenTable ELSE inode.i_block[k]]
PlaceOf(count, junk, b) == {k \in Touched(count) : AllBlocks(count, junk)[k] = b}
Synced(count, junk) ==
    IF WillUse(count) > Direct /\ Added(count) # {} THEN {NewMap(count, junk)[Direct]} ELSE {}
NewDisk(count, junk) == [b \in Blocks |->
    IF PlaceOf(count, junk, b) # {}
    THEN Filled(disk[b], CHOOSE k \in PlaceOf(count, junk, b) : TRUE, count)
    ELSE IF b \in Synced(count, junk) THEN [c \in Cells |-> AllBlocks(count, junk)[Direct + c]]
    ELSE disk[b]]

Writable(count) == /\ WillUse(count) <= MaxBlocks /\ Taken(count) <= Len(FreeBlocks)
Written(d, count, junk) ==
    /\ d \in OpenFds /\ Writable(count) /\ (junk # 0 => MakesTable(count))
    /\ inode' = [i_size |-> inode.i_size + count, i_block |-> NewMap(count, junk)]
    /\ slot' = inode'
    /\ used' = used \cup {FreeBlocks[j] : j \in 1 .. Taken(count)}
    /\ diskBitmap' = WritesBitmap(FreeBlocks, First, NewTable(count), Taken(count))
    /\ disk' = NewDisk(count, junk)
    /\ fd_pos' = [fd_pos EXCEPT ![d] = inode.i_size + count - 1]
    /\ answer' = NoAnswer
    /\ UNCHANGED <<foreign, round, gaveUp>>

LEMMA WriteNamed ==
    ASSUME NEW d \in Fds, NEW count \in Counts, file_write(d, count)
    PROVE  \E junk \in Addresses : Written(d, count, junk)
BY DEF file_write, Written, Writable, NewDisk, Synced, PlaceOf, NewMap, AllBlocks, GivenTable,
       Given, Fed, Taken, Added, NewTable, First

(* Counting blocks.                                                        *)
LEMMA Sizes ==
    ASSUME NEW count \in Counts, BlockTypes
    PROVE  /\ inode.i_size \in Nat /\ count \in Nat /\ count >= 1
           /\ HasUsed \in Nat /\ 1 <= HasUsed /\ WillUse(count) \in Nat /\ HasUsed <= WillUse(count)
           /\ Touched(count) \subseteq 0 .. WillUse(count) - 1
           /\ Cardinality(Added(count)) = WillUse(count) - HasUsed
<1>1. inode.i_size \in Nat /\ count \in Nat /\ count >= 1
  <2>1. MaxBlocks * PerBlock \in Int
    BY DEF MaxBlocks
  <2> QED BY <2>1 DEF BlockTypes
<1>2. /\ inode.i_size \div PerBlock \in Nat
      /\ (inode.i_size + count) \div PerBlock \in Nat
      /\ (inode.i_size + count - 1) \div PerBlock \in Nat
      /\ inode.i_size \div PerBlock <= (inode.i_size + count) \div PerBlock
      /\ (inode.i_size + count - 1) \div PerBlock <= (inode.i_size + count) \div PerBlock
  <2>1. inode.i_size + count \in Nat /\ inode.i_size + count - 1 \in Nat
    BY <1>1
  <2>2. /\ inode.i_size \div PerBlock \in Nat
        /\ (inode.i_size + count) \div PerBlock \in Nat
        /\ (inode.i_size + count - 1) \div PerBlock \in Nat
    BY <1>1, <2>1, Divided
  <2>3. inode.i_size <= inode.i_size + count /\ inode.i_size + count - 1 <= inode.i_size + count
    BY <1>1
  <2> QED BY <1>1, <2>1, <2>2, <2>3, DivGrows
<1>3. HasUsed \in Nat /\ 1 <= HasUsed /\ WillUse(count) \in Nat /\ HasUsed <= WillUse(count)
  BY <1>2 DEF HasUsed, WillUse, BlockSize
<1>4. Touched(count) \subseteq 0 .. WillUse(count) - 1
  BY <1>2 DEF Touched, WillUse, BlockSize
<1>5. Cardinality(Added(count)) = WillUse(count) - HasUsed
  <2>1. HasUsed \in Int /\ WillUse(count) - 1 \in Int
    BY <1>3
  <2>2. Cardinality(HasUsed .. WillUse(count) - 1)
            = IF HasUsed > WillUse(count) - 1 THEN 0 ELSE WillUse(count) - 1 - HasUsed + 1
    BY <2>1, FS_Interval
  <2> QED BY <1>3, <2>2 DEF Added
<1> QED BY <1>1, <1>3, <1>4, <1>5

(* Every block that is allocated goes to one index or is the table's.      *)
LEMMA Allots ==
    ASSUME NEW count \in Counts, BlockTypes, Taken(count) <= Len(FreeBlocks)
    PROVE  /\ \A k \in Fed(count) : Given(count)[k] \in Blocks \ used
           /\ \A j, k \in Fed(count) : Given(count)[j] = Given(count)[k] => j = k
           /\ MakesTable(count) => /\ GivenTable \in Blocks \ used
                                   /\ \A k \in Fed(count) : Given(count)[k] # GivenTable
           /\ {FreeBlocks[j] : j \in 1 .. Taken(count)}
                 = {Given(count)[k] : k \in Fed(count)}
                       \cup (IF MakesTable(count) THEN {GivenTable} ELSE {})
<1> DEFINE F == First
           T == NewTable(count)
           H == HasUsed
           W == WillUse(count)
           turn(k) == Turn(count, k)
<1>1. /\ H \in Nat /\ 1 <= H /\ W \in Nat /\ H <= W /\ F \in {0, 1} /\ T \in {0, 1}
      /\ (F = 1 <=> FirstWrite) /\ (T = 1 <=> MakesTable(count))
      /\ Taken(count) = F + T + (W - H)
  BY Sizes DEF First, NewTable, Taken
<1>2. \A k : k \in Fed(count) <=> k \in H .. W - 1 \/ (F = 1 /\ k = 0)
  BY <1>1 DEF Fed, Added
<1>3. \A k : turn(k) = IF k = 0 THEN 1 ELSE F + T + k - H + 1
  BY DEF Turn
<1>4. \A k \in Fed(count) : Given(count)[k] = FreeBlocks[turn(k)]
  BY <1>3 DEF Given
<1> HIDE DEF F, T, H, W, turn
<1>5. \A k \in Fed(count) : turn(k) \in 1 .. Taken(count) /\ (T = 1 => turn(k) # F + 1)
  <2> SUFFICES ASSUME NEW k \in Fed(count)
               PROVE  turn(k) \in 1 .. Taken(count) /\ (T = 1 => turn(k) # F + 1)
    OBVIOUS
  <2>1. CASE k = 0
    <3>1. F = 1 /\ turn(k) = 1
      BY <1>1, <1>2, <1>3, <2>1
    <3> QED BY <1>1, <3>1
  <2>2. CASE k # 0
    <3>1. k \in H .. W - 1 /\ turn(k) = F + T + k - H + 1
      BY <1>2, <1>3, <2>2
    <3> QED BY <1>1, <3>1
  <2> QED BY <2>1, <2>2
<1>6. ASSUME NEW j \in Fed(count), NEW k \in Fed(count), turn(j) = turn(k) PROVE j = k
  <2>1. /\ turn(j) = IF j = 0 THEN 1 ELSE F + T + j - H + 1
        /\ turn(k) = IF k = 0 THEN 1 ELSE F + T + k - H + 1
    BY <1>3
  <2>2. /\ (j = 0 /\ F = 1) \/ (j \in Int /\ H <= j)
        /\ (k = 0 /\ F = 1) \/ (k \in Int /\ H <= k)
    BY <1>1, <1>2
  <2>3. j \in Int /\ k \in Int
    BY <2>2
  <2>4. F + T \in Nat /\ (F = 1 => F + T >= 1)
    BY <1>1
  <2>5. CASE j = 0 \/ k = 0
    <3>1. ASSUME NEW x \in Int, H <= x, F = 1 PROVE F + T + x - H + 1 # 1
      BY <1>1, <2>4, <3>1
    <3>2. CASE j = 0 /\ k # 0
      <4>1. F + T + k - H + 1 = 1
        BY <1>6, <2>1, <3>2
      <4>2. ~(0 \in Int /\ H <= 0)
        BY <1>1
      <4>3. F = 1 /\ k \in Int /\ H <= k
        BY <2>2, <3>2, <4>2
      <4> QED BY <3>1, <4>1, <4>3
    <3>3. CASE j # 0 /\ k = 0
      <4>1. F + T + j - H + 1 = 1
        BY <1>6, <2>1, <3>3
      <4>2. ~(0 \in Int /\ H <= 0)
        BY <1>1
      <4>3. F = 1 /\ j \in Int /\ H <= j
        BY <2>2, <3>3, <4>2
      <4> QED BY <3>1, <4>1, <4>3
    <3> QED BY <2>5, <3>2, <3>3
  <2>6. CASE j # 0 /\ k # 0
    <3>1. F + T + j - H + 1 = F + T + k - H + 1
      BY <1>6, <2>1, <2>6
    <3>2. H \in Nat
      BY <1>1
    <3> QED BY <2>3, <2>4, <3>1, <3>2
  <2> QED BY <2>5, <2>6
<1>7. \A j \in 1 .. Taken(count) : (T = 1 /\ j = F + 1) \/ \E k \in Fed(count) : turn(k) = j
  <2> SUFFICES ASSUME NEW j \in 1 .. Taken(count), ~(T = 1 /\ j = F + 1)
               PROVE  \E k \in Fed(count) : turn(k) = j
    OBVIOUS
  <2>1. CASE j = 1 /\ F = 1
    BY <1>2, <1>3, <2>1
  <2>2. CASE ~(j = 1 /\ F = 1)
    <3>1. j - F - T - 1 + H \in H .. W - 1 /\ j - F - T - 1 + H # 0
      BY <1>1, <2>2
    <3>2. turn(j - F - T - 1 + H) = j
      BY <1>1, <1>3, <3>1
    <3> QED BY <1>2, <3>1, <3>2
  <2> QED BY <2>1, <2>2
<1>8. T = 1 => F + 1 \in 1 .. Taken(count)
  BY <1>1
<1>9. \A j \in 1 .. Taken(count) : j \in DOMAIN FreeBlocks /\ FreeBlocks[j] \in Blocks \ used
  <2>1. Taken(count) \in Int
    BY <1>1
  <2> QED BY <2>1, Successive
<1>10. GivenTable = FreeBlocks[F + 1]
  BY DEF GivenTable, F
<1>11. \A k \in Fed(count) : Given(count)[k] \in Blocks \ used
  BY <1>4, <1>5, <1>9
<1>12. \A j, k \in Fed(count) : Given(count)[j] = Given(count)[k] => j = k
  BY <1>4, <1>5, <1>6, <1>9, Successive
<1>13. T = 1 => /\ GivenTable \in Blocks \ used
                /\ \A k \in Fed(count) : Given(count)[k] # GivenTable
  BY <1>4, <1>5, <1>8, <1>9, <1>10, Successive
<1>14. {FreeBlocks[j] : j \in 1 .. Taken(count)}
         = {Given(count)[k] : k \in Fed(count)}
               \cup (IF MakesTable(count) THEN {GivenTable} ELSE {})
  <2>1. ASSUME NEW j \in 1 .. Taken(count)
        PROVE  \/ MakesTable(count) /\ FreeBlocks[j] = GivenTable
               \/ \E k \in Fed(count) : Given(count)[k] = FreeBlocks[j]
    BY <1>1, <1>4, <1>7, <1>10
  <2>2. \A k \in Fed(count) : \E j \in 1 .. Taken(count) : FreeBlocks[j] = Given(count)[k]
    BY <1>4, <1>5
  <2>3. MakesTable(count) => \E j \in 1 .. Taken(count) : FreeBlocks[j] = GivenTable
    BY <1>1, <1>8, <1>10
  <2> QED BY <2>1, <2>2, <2>3
<1> QED BY <1>1, <1>11, <1>12, <1>13, <1>14

(* The addresses gathered: the file's blocks so far, then those given; the *)
(* table, old or new, is none of them.                                     *)
Reached(count) == 0 .. WillUse(count) - 1
LEMMA Maps ==
    ASSUME NEW count \in Counts, BlockTypes, Mapped, EachOnce, Writable(count),
           NEW junk \in Addresses, junk # 0 => MakesTable(count)
    PROVE  LET a == AllBlocks(count, junk)
               m == NewMap(count, junk)
           IN  /\ m \in [0 .. Direct -> Addresses]
               /\ \A k \in Places : a[k] \in Int
               /\ \A k \in 0 .. Direct - 1 : m[k] = a[k]
               /\ \A k \in Reached(count) :
                     \/ k \in Fed(count) /\ a[k] = Given(count)[k]
                     \/ k \in Indexes /\ k \notin Added(count) /\ ~FirstWrite /\ a[k] = BlockOf(k)
               /\ \A k \in 0 .. Direct - 1 : k >= WillUse(count) => m[k] = 0
               /\ \/ WillUse(count) <= Direct /\ m[Direct] = 0 /\ ~HasTable /\ ~MakesTable(count)
                  \/ /\ WillUse(count) > Direct /\ MakesTable(count) /\ m[Direct] = GivenTable
                     /\ FirstWrite \/ ~HasTable
                  \/ /\ WillUse(count) > Direct /\ ~MakesTable(count) /\ ~FirstWrite /\ HasTable
                     /\ m[Direct] = inode.i_block[Direct]
<1> DEFINE a == AllBlocks(count, junk)
           m == NewMap(count, junk)
           H == HasUsed
           W == WillUse(count)
<1>1. /\ H \in Nat /\ 1 <= H /\ W \in Nat /\ H <= W /\ W <= MaxBlocks
      /\ Direct \in Nat /\ Direct >= 1 /\ MaxBlocks = Direct + PerBlock
      /\ PerBlock \in Nat /\ PerBlock >= 1
  BY Sizes DEF Writable, MaxBlocks
<1>2. \A k : k \in Fed(count) <=> k \in H .. W - 1 \/ (FirstWrite /\ k = 0)
  BY DEF Fed, Added
<1>3. \A k \in Places : a[k] = IF k \in Fed(count) THEN Given(count)[k]
                               ELSE IF k < Direct THEN inode.i_block[k]
                               ELSE IF HasTable THEN Table[k - Direct] ELSE junk
  BY DEF AllBlocks, Gathered, Given
<1>4. /\ \A k \in Fed(count) : Given(count)[k] \in Blocks
      /\ MakesTable(count) => GivenTable \in Blocks
  BY Allots DEF Writable
<1>5. /\ \A k \in 0 .. Direct : inode.i_block[k] \in Addresses
      /\ HasTable => Table \in [Cells -> Int]
      /\ Blocks \subseteq Addresses /\ Addresses \subseteq Int /\ \A x \in Addresses : x # 0 => x \in Blocks
  <2>1. Blocks \subseteq Addresses /\ Addresses \subseteq Int /\ \A x \in Addresses : x # 0 => x \in Blocks
    BY DEF Blocks, Addresses
  <2>2. \A k \in 0 .. Direct : inode.i_block[k] \in Addresses
    BY DEF BlockTypes
  <2>3. HasTable => inode.i_block[Direct] \in Blocks
    <3>1. Direct \in 0 .. Direct
      BY <1>1
    <3>2. inode.i_block[Direct] \in Addresses
      BY <2>2, <3>1
    <3> QED BY <2>1, <3>2 DEF HasTable
  <2> QED BY <2>1, <2>2, <2>3 DEF BlockTypes, Table
<1>6. \A k \in 0 .. Direct : m[k] = IF k < Direct THEN a[k]
                                    ELSE IF MakesTable(count) THEN GivenTable ELSE inode.i_block[k]
  BY DEF NewMap
<1>7. FirstWrite => H = 1 /\ ~HasTable /\ \A k \in 0 .. Direct : inode.i_block[k] = 0
  BY <1>1 DEF Mapped, inode_init, HasUsed, HasTable, BlockSize
<1>8. Places = 0 .. MaxBlocks - 1 /\ Cells = 0 .. PerBlock - 1
  BY DEF Places, Cells
<1>9. MakesTable(count) <=> H <= Direct /\ Direct < W
  BY DEF MakesTable
<1>10. ~FirstWrite => /\ \A k \in 0 .. Direct - 1 : k >= H => inode.i_block[k] = 0
                      /\ HasTable <=> H > Direct
  BY DEF Mapped
<1>11. \A k \in Nat : BlockOf(k) = IF k < Direct THEN inode.i_block[k] ELSE Table[k - Direct]
  BY DEF BlockOf
<1>12. HasTable <=> inode.i_block[Direct] # 0
  BY DEF HasTable
<1> HIDE DEF a, m, H, W
<1>13. \A k \in Places : a[k] \in Int
  <2> TAKE k \in Places
  <2>1. CASE k \in Fed(count)
    BY <1>3, <1>4, <1>5, <2>1
  <2>2. CASE k \notin Fed(count) /\ k < Direct
    <3>1. k \in 0 .. Direct
      BY <1>1, <1>8, <2>2
    <3> QED BY <1>3, <1>5, <2>2, <3>1
  <2>3. CASE k \notin Fed(count) /\ ~(k < Direct)
    <3>1. k - Direct \in Cells
      BY <1>1, <1>8, <2>3
    <3> QED BY <1>3, <1>5, <2>3, <3>1
  <2> QED BY <2>1, <2>2, <2>3
<1>14. \A k \in 0 .. Direct - 1 : k \in 0 .. Direct /\ k \in Places /\ m[k] = a[k]
  BY <1>1, <1>6, <1>8
<1>15. ASSUME NEW k \in Reached(count)
       PROVE  \/ k \in Fed(count) /\ a[k] = Given(count)[k]
              \/ k \in Indexes /\ k \notin Added(count) /\ ~FirstWrite /\ a[k] = BlockOf(k)
  <2>1. k \in 0 .. W - 1 /\ k \in Places
    BY <1>1, <1>8 DEF Reached, W
  <2>2. CASE k \in Fed(count)
    BY <1>3, <2>1, <2>2
  <2>3. CASE k \notin Fed(count)
    <3>1. k < H /\ k \in Nat /\ ~FirstWrite
      BY <1>1, <1>2, <1>7, <2>1, <2>3
    <3>2. k >= Direct => HasTable
      BY <1>1, <1>10, <3>1
    <3>3. a[k] = BlockOf(k)
      BY <1>1, <1>3, <1>11, <2>1, <2>3, <3>1, <3>2
    <3>4. k \in Indexes /\ k \notin Added(count)
      BY <1>1, <3>1 DEF Indexes, Added, H
    <3> QED BY <3>1, <3>3, <3>4
  <2> QED BY <2>2, <2>3
<1>16. ASSUME NEW k \in 0 .. Direct - 1, k >= W PROVE m[k] = 0
  <2>1. k \notin Fed(count)
    BY <1>1, <1>2, <1>16
  <2>2. a[k] = inode.i_block[k]
    BY <1>3, <1>14, <2>1
  <2>3. inode.i_block[k] = 0
    BY <1>1, <1>7, <1>10, <1>14, <1>16
  <2> QED BY <1>14, <2>2, <2>3
<1>17. \/ W <= Direct /\ m[Direct] = 0 /\ ~HasTable /\ ~MakesTable(count)
       \/ W > Direct /\ MakesTable(count) /\ m[Direct] = GivenTable /\ (FirstWrite \/ ~HasTable)
       \/ /\ W > Direct /\ ~MakesTable(count) /\ ~FirstWrite /\ HasTable
          /\ m[Direct] = inode.i_block[Direct]
  <2>1. Direct \in 0 .. Direct /\ ~(Direct < Direct)
    BY <1>1
  <2>2. m[Direct] = IF MakesTable(count) THEN GivenTable ELSE inode.i_block[Direct]
    BY <1>6, <2>1
  <2>3. CASE W <= Direct
    BY <1>1, <1>7, <1>9, <1>10, <1>12, <2>2, <2>3
  <2>4. CASE W > Direct /\ H <= Direct
    BY <1>1, <1>9, <1>10, <2>2, <2>4
  <2>5. CASE W > Direct /\ H > Direct
    BY <1>1, <1>7, <1>9, <1>10, <2>2, <2>5
  <2> QED BY <1>1, <2>3, <2>4, <2>5
<1>18. m \in [0 .. Direct -> Addresses]
  <2>1. \A k \in 0 .. Direct : m[k] \in Addresses
    <3> TAKE k \in 0 .. Direct
    <3>1. CASE k = Direct
      <4>1. ~(k < Direct)
        BY <1>1, <3>1
      <4> QED BY <1>4, <1>5, <1>6, <4>1
    <3>2. CASE k # Direct
      <4>1. k \in 0 .. Direct - 1 /\ k < Direct
        BY <1>1, <3>2
      <4>2. k \in Fed(count) \/ a[k] = inode.i_block[k]
        BY <1>3, <1>14, <4>1
      <4>3. k \in Fed(count) => a[k] \in Blocks
        BY <1>3, <1>4, <1>14, <4>1
      <4> QED BY <1>5, <1>14, <4>1, <4>2, <4>3
    <3> QED BY <3>1, <3>2
  <2>2. m = [k \in 0 .. Direct |-> m[k]]
    BY DEF m, NewMap
  <2> QED BY <2>1, <2>2
<1> QED BY <1>13, <1>14, <1>15, <1>16, <1>17, <1>18 DEF a, m, W

UsedThen(count) == used \cup {FreeBlocks[j] : j \in 1 .. Taken(count)}
LEMMA MapOwn ==
    ASSUME NEW count \in Counts, BlockTypes, Mapped, EachOnce, Writable(count),
           NEW junk \in Addresses, junk # 0 => MakesTable(count)
    PROVE  LET a == AllBlocks(count, junk)
               m == NewMap(count, junk)
           IN  /\ UsedThen(count) \subseteq Blocks
               /\ \A k \in Reached(count) : a[k] \in UsedThen(count) \ foreign /\ a[k] # m[Direct]
               /\ \A j, k \in Reached(count) : a[j] = a[k] => j = k
               /\ m[Direct] # 0 => m[Direct] \in UsedThen(count) \ foreign
               /\ used = foreign \cup BlocksHeld =>
                     UsedThen(count) = foreign \cup {a[k] : k \in Reached(count)} \cup ({m[Direct]} \ {0})
<1> DEFINE a == AllBlocks(count, junk)
           m == NewMap(count, junk)
           G == Given(count)
           old(k) == k \in Indexes /\ k \notin Added(count) /\ ~FirstWrite /\ a[k] = BlockOf(k)
           new(k) == k \in Fed(count) /\ a[k] = G[k]
           tb == m[Direct]
<1>1. \A k \in Reached(count) : new(k) \/ old(k)
  BY Maps
<1>2. \/ WillUse(count) <= Direct /\ tb = 0 /\ ~HasTable /\ ~MakesTable(count)
      \/ WillUse(count) > Direct /\ MakesTable(count) /\ tb = GivenTable /\ (FirstWrite \/ ~HasTable)
      \/ /\ WillUse(count) > Direct /\ ~MakesTable(count) /\ ~FirstWrite /\ HasTable
         /\ tb = inode.i_block[Direct]
  BY Maps
<1>3. /\ \A k \in Fed(count) : G[k] \in Blocks \ used
      /\ \A j, k \in Fed(count) : G[j] = G[k] => j = k
      /\ MakesTable(count) => /\ GivenTable \in Blocks \ used
                              /\ \A k \in Fed(count) : G[k] # GivenTable
      /\ {FreeBlocks[j] : j \in 1 .. Taken(count)}
            = {G[k] : k \in Fed(count)} \cup (IF MakesTable(count) THEN {GivenTable} ELSE {})
  BY Allots DEF Writable
<1>4. foreign \subseteq used /\ used \subseteq Blocks /\ 0 \notin Blocks
  BY DEF BlockTypes, Blocks
<1>5. ~FirstWrite => /\ \A k \in Indexes : BlockOf(k) \in used \ foreign
                     /\ \A j, k \in Indexes : BlockOf(j) = BlockOf(k) => j = k
                     /\ \A k \in Indexes : BlockOf(k) # inode.i_block[Direct]
                     /\ HasTable => inode.i_block[Direct] \in used \ foreign
                     /\ BlocksHeld = {BlockOf(k) : k \in Indexes} \cup ({inode.i_block[Direct]} \ {0})
  BY DEF Mapped, EachOnce, BlocksHeld
<1>6. FirstWrite => BlocksHeld = {}
  BY DEF BlocksHeld
<1>7. Fed(count) \subseteq Reached(count) /\ (~FirstWrite => Indexes \subseteq Reached(count))
  BY Sizes DEF Fed, Added, Reached, Indexes
<1>8. Indexes \cap Added(count) = {} /\ (~FirstWrite => Fed(count) = Added(count))
  <2>1. HasUsed \in Nat
    BY Sizes
  <2> QED BY <2>1 DEF Indexes, Added, Fed
<1>9. HasTable <=> inode.i_block[Direct] # 0
  BY DEF HasTable
<1> HIDE DEF a, m, G, tb
<1>10. UsedThen(count) = used \cup {G[k] : k \in Fed(count)}
                              \cup (IF MakesTable(count) THEN {GivenTable} ELSE {})
  BY <1>3 DEF UsedThen
<1>11. UsedThen(count) \subseteq Blocks
  BY <1>3, <1>4, <1>10
<1>12. ASSUME NEW k \in Reached(count) PROVE a[k] \in UsedThen(count) \ foreign /\ a[k] # tb
  <2>1. CASE new(k)
    <3>1. a[k] \in Blocks \ used
      BY <1>3, <2>1
    <3>2. a[k] \in UsedThen(count) \ foreign
      BY <1>4, <1>10, <2>1, <3>1
    <3>3. a[k] # tb
      BY <1>2, <1>3, <1>4, <1>5, <1>9, <2>1, <3>1
    <3> QED BY <3>2, <3>3
  <2>2. CASE old(k)
    <3>1. a[k] \in used \ foreign /\ a[k] # inode.i_block[Direct]
      BY <1>5, <2>2
    <3>2. a[k] # tb
      BY <1>2, <1>3, <1>4, <3>1
    <3> QED BY <1>10, <3>1, <3>2
  <2> QED BY <1>1, <2>1, <2>2
<1>13. ASSUME NEW j \in Reached(count), NEW k \in Reached(count), a[j] = a[k] PROVE j = k
  <2>1. CASE new(j) /\ new(k)
    BY <1>3, <1>13, <2>1
  <2>2. CASE old(j) /\ old(k)
    BY <1>5, <1>13, <2>2
  <2>3. \A i \in Reached(count) : (new(i) => a[i] \notin used) /\ (old(i) => a[i] \in used)
    BY <1>3, <1>5
  <2> QED BY <1>1, <1>13, <2>1, <2>2, <2>3
<1>14. tb # 0 => tb \in UsedThen(count) \ foreign
  BY <1>2, <1>3, <1>4, <1>5, <1>9, <1>10
<1>15. ASSUME used = foreign \cup BlocksHeld
       PROVE  UsedThen(count) = foreign \cup {a[k] : k \in Reached(count)} \cup ({tb} \ {0})
  <2>1. ASSUME NEW b \in UsedThen(count)
        PROVE  b \in foreign \/ (\E k \in Reached(count) : a[k] = b) \/ (b = tb /\ tb # 0)
    <3>1. CASE b \in used /\ FirstWrite
      BY <1>6, <1>15, <3>1
    <3>2. CASE b \in used /\ ~FirstWrite
      <4>1. b \in foreign \/ (\E k \in Indexes : BlockOf(k) = b) \/ (b = inode.i_block[Direct] /\ HasTable)
        BY <1>5, <1>9, <1>15, <3>2
      <4>2. HasTable => tb = inode.i_block[Direct] /\ tb # 0
        BY <1>2, <1>9, <3>2
      <4>3. ASSUME NEW k \in Indexes PROVE k \in Reached(count) /\ a[k] = BlockOf(k)
        BY <1>1, <1>7, <1>8, <3>2
      <4> QED BY <4>1, <4>2, <4>3
    <3>3. CASE \E k \in Fed(count) : b = G[k]
      <4>1. PICK k \in Fed(count) : b = G[k]
        BY <3>3
      <4>2. k \in Reached(count)
        BY <1>7
      <4>3. new(k)
        BY <1>1, <1>8, <4>2 DEF Fed
      <4> QED BY <4>1, <4>2, <4>3
    <3>4. CASE MakesTable(count) /\ b = GivenTable
      BY <1>2, <1>3, <1>4, <3>4
    <3> QED BY <1>10, <3>1, <3>2, <3>3, <3>4
  <2>2. /\ foreign \subseteq UsedThen(count) /\ {a[k] : k \in Reached(count)} \subseteq UsedThen(count)
        /\ {tb} \ {0} \subseteq UsedThen(count)
    BY <1>4, <1>10, <1>12, <1>14
  <2> QED BY <2>1, <2>2
<1> QED BY <1>11, <1>12, <1>13, <1>14, <1>15 DEF a, m, tb

(* What the disk holds after the write: the blocks below WillUse are those *)
(* gathered, each filled at its index or as it was; no other is touched    *)
(* but the table.                                                          *)
LEMMA DiskThen ==
    ASSUME NEW count \in Counts, BlockTypes, Mapped, EachOnce, Writable(count),
           round \in Int, NEW junk \in Addresses, junk # 0 => MakesTable(count)
    PROVE  LET a == AllBlocks(count, junk)
               m == NewMap(count, junk)
               dk == NewDisk(count, junk)
           IN  /\ dk \in [Blocks -> [Cells -> Int]]
               /\ \A b \in foreign : dk[b] = disk[b]
               /\ \A k \in Reached(count) :
                     /\ a[k] \in Blocks
                     /\ dk[a[k]] = IF k \in Touched(count) THEN Filled(disk[a[k]], k, count)
                                   ELSE disk[a[k]]
                     /\ k >= Direct => m[Direct] \in Blocks /\ dk[m[Direct]][k - Direct] = a[k]
<1> DEFINE a == AllBlocks(count, junk)
           m == NewMap(count, junk)
           dk == NewDisk(count, junk)
           tb == m[Direct]
           place(b) == PlaceOf(count, junk, b)
           fill(b, k) == Filled(disk[b], k, count)
<1>1. /\ \A k \in Places : a[k] \in Int
      /\ \A k \in Reached(count) :
            \/ k \in Fed(count)
            \/ k \in Indexes /\ k \notin Added(count) /\ ~FirstWrite /\ a[k] = BlockOf(k)
      /\ \/ WillUse(count) <= Direct /\ tb = 0
         \/ WillUse(count) > Direct /\ MakesTable(count) /\ tb = GivenTable
         \/ WillUse(count) > Direct /\ ~MakesTable(count) /\ ~FirstWrite /\ tb = inode.i_block[Direct]
  BY Maps
<1>2. /\ UsedThen(count) \subseteq Blocks
      /\ \A k \in Reached(count) : a[k] \in UsedThen(count) \ foreign /\ a[k] # tb
      /\ \A j, k \in Reached(count) : a[j] = a[k] => j = k
      /\ tb # 0 => tb \in UsedThen(count) \ foreign
  BY MapOwn
<1>3. Touched(count) \subseteq Reached(count) /\ WillUse(count) \in Nat /\ WillUse(count) <= MaxBlocks
      /\ HasUsed \in Nat /\ 1 <= HasUsed /\ HasUsed <= WillUse(count)
  BY Sizes DEF Reached, Writable
<1>4. /\ Direct \in Nat /\ Direct >= 1 /\ PerBlock \in Nat /\ PerBlock >= 1 /\ MaxBlocks = Direct + PerBlock
      /\ Cells = 0 .. PerBlock - 1 /\ Places = 0 .. MaxBlocks - 1 /\ 0 \notin Blocks
      /\ Reached(count) = 0 .. WillUse(count) - 1
      /\ foreign \subseteq Blocks
  BY DEF MaxBlocks, Cells, Places, Blocks, Reached, BlockTypes
<1>5. \A b \in Blocks : dk[b] = IF place(b) # {} THEN fill(b, CHOOSE k \in place(b) : TRUE)
                                ELSE IF b \in Synced(count, junk) THEN [c \in Cells |-> a[Direct + c]]
                                ELSE disk[b]
  BY DEF NewDisk
<1>6. Synced(count, junk) = IF WillUse(count) > Direct /\ Added(count) # {} THEN {tb} ELSE {}
  BY DEF Synced
<1>7. \A b : place(b) = {k \in Touched(count) : a[k] = b}
  BY DEF PlaceOf
<1>8. \A b \in Blocks, k \in Nat : fill(b, k) \in [Cells -> Int]
  <2> TAKE b \in Blocks, k \in Nat
  <2>1. disk[b] \in [Cells -> Int]
    BY DEF BlockTypes
  <2>2. \A pos \in Int : Byte(round, pos) \in Int
    <3>1. NumBlocks \in Int /\ MaxSize \in Int /\ round * MaxSize \in Int
      BY <1>4 DEF MaxSize, BlockSize
    <3> QED BY <3>1 DEF Byte
  <2>3. \A c \in Cells : k * BlockSize + c \in Int /\ disk[b][c] \in Int
    BY <1>4, <2>1 DEF BlockSize
  <2> HIDE DEF fill
  <2>4. \A c \in Cells : LET pos == k * BlockSize + c IN
            (IF pos \in inode.i_size .. inode.i_size + count - 1 THEN Byte(round, pos)
             ELSE IF k = inode.i_size \div BlockSize THEN disk[b][c] ELSE 0) \in Int
    BY <2>2, <2>3
  <2> QED BY <2>4, Zenon DEF Filled, fill
<1> HIDE DEF a, m, dk, tb, place, fill
<1>9. \A b \in Blocks : dk[b] \in [Cells -> Int]
  <2> TAKE b \in Blocks
  <2>1. CASE place(b) # {}
    <3>1. (CHOOSE k \in place(b) : TRUE) \in place(b)
      BY <2>1
    <3>2. (CHOOSE k \in place(b) : TRUE) \in Nat
      BY <1>3, <1>4, <1>7, <3>1
    <3> QED BY <1>5, <1>8, <2>1, <3>2
  <2>2. CASE place(b) = {} /\ b \in Synced(count, junk)
    <3>1. \A c \in Cells : a[Direct + c] \in Int
      BY <1>1, <1>4
    <3> QED BY <1>5, <2>2, <3>1
  <2>3. CASE place(b) = {} /\ b \notin Synced(count, junk)
    BY <1>5, <2>3 DEF BlockTypes
  <2> QED BY <2>1, <2>2, <2>3
<1>10. dk = [b \in Blocks |-> dk[b]]
  BY DEF dk, NewDisk
<1>11. dk \in [Blocks -> [Cells -> Int]]
  BY <1>9, <1>10
<1>12. ASSUME NEW b \in foreign PROVE dk[b] = disk[b]
  <2>1. place(b) = {}
    BY <1>2, <1>3, <1>7
  <2>2. b \notin Synced(count, junk)
    BY <1>2, <1>4, <1>6
  <2> QED BY <1>4, <1>5, <2>1, <2>2
<1>13. ASSUME NEW k \in Reached(count)
       PROVE  /\ a[k] \in Blocks
              /\ dk[a[k]] = IF k \in Touched(count) THEN fill(a[k], k) ELSE disk[a[k]]
  <2>1. a[k] \in Blocks
    BY <1>2
  <2>2. CASE k \in Touched(count)
    <3>1. place(a[k]) = {k}
      BY <1>2, <1>3, <1>7, <2>2
    <3> QED BY <1>5, <2>1, <2>2, <3>1
  <2>3. CASE k \notin Touched(count)
    <3>1. place(a[k]) = {}
      BY <1>2, <1>3, <1>7, <2>3
    <3>2. a[k] \notin Synced(count, junk)
      BY <1>2, <1>6
    <3> QED BY <1>5, <2>1, <2>3, <3>1, <3>2
  <2> QED BY <2>1, <2>2, <2>3
<1>14. ASSUME NEW k \in Reached(count), k >= Direct PROVE tb \in Blocks /\ dk[tb][k - Direct] = a[k]
  <2>1. WillUse(count) > Direct /\ k - Direct \in Cells /\ k \in Nat
    BY <1>3, <1>4, <1>14
  <2>2. tb \in Blocks
    <3>1. GivenTable \in Blocks \/ ~MakesTable(count)
      BY Allots DEF Writable
    <3>2. ~FirstWrite /\ ~MakesTable(count) => inode.i_block[Direct] \in Blocks
      <4>1. ~MakesTable(count) => HasUsed > Direct
        BY <1>3, <1>4, <2>1 DEF MakesTable
      <4> QED BY <4>1 DEF Mapped, BlockTypes
    <3> QED BY <1>1, <1>3, <1>4, <2>1, <3>1, <3>2
  <2>3. place(tb) = {}
    BY <1>2, <1>3, <1>7
  <2>4. CASE Added(count) # {}
    <3>1. dk[tb] = [c \in Cells |-> a[Direct + c]]
      BY <1>5, <1>6, <2>1, <2>2, <2>3, <2>4
    <3>2. Direct + (k - Direct) = k
      BY <1>4, <2>1
    <3> QED BY <2>1, <2>2, <3>1, <3>2
  <2>5. CASE Added(count) = {}
    <3>1. HasUsed = WillUse(count)
      <4>1. HasUsed \notin HasUsed .. WillUse(count) - 1
        BY <2>5 DEF Added
      <4> QED BY <1>3, <4>1
    <3>2. ~MakesTable(count) /\ ~FirstWrite /\ tb = inode.i_block[Direct]
      BY <1>1, <1>3, <1>4, <2>1, <3>1 DEF MakesTable
    <3>3. k \notin Fed(count)
      BY <2>5, <3>2 DEF Fed
    <3>4. a[k] = BlockOf(k)
      BY <1>1, <3>3
    <3>5. dk[tb] = disk[tb]
      BY <1>5, <1>6, <2>2, <2>3, <2>5
    <3>6. BlockOf(k) = disk[tb][k - Direct]
      BY <1>4, <1>14, <2>1, <3>2 DEF BlockOf, Table
    <3> QED BY <2>2, <3>4, <3>5, <3>6
  <2> QED BY <2>4, <2>5
<1> QED BY <1>11, <1>12, <1>13, <1>14 DEF a, m, dk, tb, fill

(* The bit of every block allocated gets to the disk but for the table's,  *)
(* and with it those of its sector.                                        *)
Sector(b) == b \div BitsPerSector
BitmapThen(count) == WritesBitmap(FreeBlocks, First, NewTable(count), Taken(count))
LEMMA BitsThen ==
    ASSUME NEW count \in Counts, BlockTypes, Writable(count)
    PROVE  /\ BitmapThen(count) \subseteq UsedThen(count)
           /\ \A b \in UsedThen(count) \ BitmapThen(count) :
                 /\ b \in used \ diskBitmap \/ (MakesTable(count) /\ b = GivenTable)
                 /\ \A k \in Added(count) : k \in Fed(count) /\ Sector(Given(count)[k]) # Sector(b)
<1> DEFINE F == First
           T == NewTable(count)
           G == Given(count)
           U == UsedThen(count)
           S1 == {FreeBlocks[j] : j \in 1 .. F}
           S2 == {FreeBlocks[j] : j \in F + T + 1 .. Taken(count)}
           d1 == bitmap_sync(diskBitmap, used \cup S1, S1)
           db == bitmap_sync(d1, U, S2)
<1>1. BitmapThen(count) = db
  BY DEF BitmapThen, WritesBitmap, UsedThen
<1>2. /\ \A k \in Fed(count) : G[k] \in Blocks \ used
      /\ MakesTable(count) => GivenTable \in Blocks \ used
      /\ U = used \cup {G[k] : k \in Fed(count)} \cup (IF MakesTable(count) THEN {GivenTable} ELSE {})
  BY Allots DEF Writable, UsedThen
<1>3. diskBitmap \subseteq used /\ used \subseteq Blocks
  BY DEF BlockTypes
<1>4. /\ \A b \in Blocks : b \in d1 <=>
             IF \E x \in S1 : Sector(x) = Sector(b) THEN b \in used \cup S1 ELSE b \in diskBitmap
      /\ \A b \in Blocks : b \in db <=> IF \E x \in S2 : Sector(x) = Sector(b) THEN b \in U ELSE b \in d1
      /\ db \subseteq Blocks
  BY DEF bitmap_sync, Sector
<1>5. \A k \in Added(count) : k \in Fed(count) /\ G[k] \in S2
  <2> TAKE k \in Added(count)
  <2>1. k \in Fed(count)
    BY DEF Fed
  <2>2. /\ HasUsed \in Nat /\ 1 <= HasUsed /\ WillUse(count) \in Nat /\ HasUsed <= WillUse(count)
        /\ F \in {0, 1} /\ T \in {0, 1} /\ k \in HasUsed .. WillUse(count) - 1
        /\ Taken(count) = F + T + (WillUse(count) - HasUsed)
    BY Sizes DEF First, NewTable, Taken, Added
  <2>3. G[k] = FreeBlocks[F + T + k - HasUsed + 1]
    BY <2>1, <2>2 DEF Given
  <2> HIDE DEF F, T
  <2>4. F + T + k - HasUsed + 1 \in F + T + 1 .. Taken(count)
    BY <2>2
  <2> QED BY <2>1, <2>3, <2>4
<1>6. \A k \in Fed(count) : k \in Added(count) \/ G[k] \in S1
  <2> TAKE k \in Fed(count)
  <2>1. CASE k \in Added(count)
    BY <2>1
  <2>2. CASE k \notin Added(count)
    <3>1. F = 1 /\ G[k] = FreeBlocks[1]
      BY <2>2 DEF Fed, First, Given
    <3> QED BY <3>1
  <2> QED BY <2>1, <2>2
<1>7. S1 \subseteq U
  <2>1. \A j \in 1 .. F : j = 1 /\ FirstWrite
    BY DEF First
  <2>2. FirstWrite => 0 \in Fed(count) /\ G[0] = FreeBlocks[1]
    BY DEF Fed, Given
  <2> QED BY <1>2, <2>1, <2>2
<1> HIDE DEF F, T, G, U, S1, S2, d1, db
<1>8. db \subseteq U
  BY <1>2, <1>3, <1>4, <1>7
<1>9. ASSUME NEW b \in U \ db
      PROVE  /\ b \in used \ diskBitmap \/ (MakesTable(count) /\ b = GivenTable)
             /\ \A k \in Added(count) : k \in Fed(count) /\ Sector(G[k]) # Sector(b)
  <2>1. b \in Blocks
    BY <1>2, <1>3
  <2>2. b \notin d1 /\ \A x \in S2 : Sector(x) # Sector(b)
    BY <1>4, <2>1
  <2>3. b \notin S1 /\ ~(b \in used /\ b \in diskBitmap)
    BY <1>4, <2>1, <2>2
  <2>4. \A k \in Fed(count) : G[k] # b
    BY <1>5, <1>6, <2>2, <2>3
  <2>5. b \in used \ diskBitmap \/ (MakesTable(count) /\ b = GivenTable)
    BY <1>2, <2>3, <2>4
  <2> QED BY <1>5, <2>2, <2>5
<1> QED BY <1>1, <1>8, <1>9 DEF U, G

(* The state after the write.                                              *)
LEMMA WriteLeads ==
    ASSUME FileInv, NEW d \in Fds, NEW count \in Counts, NEW junk \in Addresses,
           Written(d, count, junk)
    PROVE  /\ ~FirstWrite' /\ HasUsed' = WillUse(count) /\ Indexes' = Reached(count)
           /\ inode'.i_size = inode.i_size + count
           /\ inode'.i_block = NewMap(count, junk)
           /\ used' = UsedThen(count)
           /\ \A k \in Reached(count) : BlockOf(k)' = AllBlocks(count, junk)[k]
<1> DEFINE a == AllBlocks(count, junk)
           m == NewMap(count, junk)
<1>1. BlockTypes /\ Mapped /\ EachOnce /\ Writable(count) /\ round \in Int
      /\ (junk # 0 => MakesTable(count))
  BY DEF FileInv, FileTypes, Written
<1>2. /\ inode' = [i_size |-> inode.i_size + count, i_block |-> m]
      /\ disk' = NewDisk(count, junk) /\ used' = UsedThen(count)
  BY DEF Written, UsedThen
<1>3. inode'.i_size = inode.i_size + count /\ inode'.i_block = m
  BY <1>2
<1>4. HasUsed' = WillUse(count)
  BY <1>3 DEF HasUsed, WillUse
<1>5. Indexes' = Reached(count)
  BY <1>4 DEF Indexes, Reached
<1>6. /\ \A k \in 0 .. Direct - 1 : m[k] = a[k]
      /\ \A k \in Reached(count) :
            /\ a[k] \in Blocks
            /\ k >= Direct => m[Direct] \in Blocks /\ NewDisk(count, junk)[m[Direct]][k - Direct] = a[k]
  BY <1>1, Maps, DiskThen
<1>7. Reached(count) \subseteq Nat /\ 0 \in Reached(count) /\ 0 \in 0 .. Direct - 1 /\ Direct \in Nat
      /\ 0 \notin Blocks
  BY <1>1, Sizes DEF Reached, Blocks
<1> HIDE DEF a, m
<1>8. ~FirstWrite'
  <2>1. m[0] \in Blocks
    BY <1>6, <1>7
  <2> QED BY <1>3, <1>7, <2>1 DEF FirstWrite
<1>9. ASSUME NEW k \in Reached(count) PROVE BlockOf(k)' = a[k]
  <2>1. CASE k < Direct
    BY <1>3, <1>6, <1>7, <2>1 DEF BlockOf
  <2>2. CASE ~(k < Direct)
    <3>1. k >= Direct
      BY <1>7, <2>2
    <3>2. BlockOf(k)' = disk'[m[Direct]][k - Direct]
      BY <1>3, <2>2 DEF BlockOf, Table
    <3> QED BY <1>2, <1>6, <3>1, <3>2
  <2> QED BY <2>1, <2>2
<1> QED BY <1>2, <1>3, <1>4, <1>5, <1>8, <1>9 DEF a, m

LEMMA WriteStep ==
    ASSUME FileInv, NEW d \in Fds, NEW count \in Counts, file_write(d, count)
    PROVE  FileInv'
<1>1. PICK junk \in Addresses : Written(d, count, junk)
  BY WriteNamed
<1> DEFINE a == AllBlocks(count, junk)
           m == NewMap(count, junk)
           W == WillUse(count)
<1>2. BlockTypes /\ Mapped /\ EachOnce /\ Writable(count) /\ round \in Int
      /\ (junk # 0 => MakesTable(count))
  BY <1>1 DEF FileInv, FileTypes, Written
<1>3. /\ ~FirstWrite' /\ HasUsed' = W /\ Indexes' = Reached(count)
      /\ inode'.i_size = inode.i_size + count /\ inode'.i_block = m
      /\ used' = UsedThen(count)
      /\ \A k \in Reached(count) : BlockOf(k)' = a[k]
  BY <1>1, WriteLeads
<1>4. /\ inode' = [i_size |-> inode.i_size + count, i_block |-> m] /\ slot' = inode'
      /\ diskBitmap' = BitmapThen(count) /\ disk' = NewDisk(count, junk)
      /\ fd_pos' = [fd_pos EXCEPT ![d] = inode.i_size + count - 1]
      /\ foreign' = foreign /\ round' = round /\ gaveUp' = gaveUp
  BY <1>1 DEF Written, BitmapThen
<1>5. /\ m \in [0 .. Direct -> Addresses]
      /\ \A k \in 0 .. Direct - 1 : k >= W => m[k] = 0
      /\ \A k \in Reached(count) :
            \/ k \in Fed(count) /\ a[k] = Given(count)[k]
            \/ k \in Indexes /\ k \notin Added(count) /\ ~FirstWrite /\ a[k] = BlockOf(k)
      /\ \/ W <= Direct /\ m[Direct] = 0 /\ ~HasTable /\ ~MakesTable(count)
         \/ W > Direct /\ MakesTable(count) /\ m[Direct] = GivenTable /\ (FirstWrite \/ ~HasTable)
         \/ W > Direct /\ ~MakesTable(count) /\ HasTable /\ m[Direct] = inode.i_block[Direct]
  BY <1>2, Maps
<1>6. /\ UsedThen(count) \subseteq Blocks
      /\ \A k \in Reached(count) : a[k] \in UsedThen(count) \ foreign /\ a[k] # m[Direct]
      /\ \A j, k \in Reached(count) : a[j] = a[k] => j = k
      /\ m[Direct] # 0 => m[Direct] \in UsedThen(count) \ foreign
      /\ used = foreign \cup BlocksHeld =>
            UsedThen(count) = foreign \cup {a[k] : k \in Reached(count)} \cup ({m[Direct]} \ {0})
  BY <1>2, MapOwn
<1>7. NewDisk(count, junk) \in [Blocks -> [Cells -> Int]] /\ \A b \in foreign : NewDisk(count, junk)[b] = disk[b]
  BY <1>2, DiskThen
<1>8. /\ BitmapThen(count) \subseteq UsedThen(count)
      /\ \A b \in UsedThen(count) \ BitmapThen(count) :
            /\ b \in used \ diskBitmap \/ (MakesTable(count) /\ b = GivenTable)
            /\ \A k \in Added(count) : k \in Fed(count) /\ Sector(Given(count)[k]) # Sector(b)
  BY <1>2, BitsThen
<1>9. /\ inode.i_size \in Nat /\ count \in Nat /\ count >= 1 /\ W \in Nat /\ 1 <= W /\ W <= MaxBlocks
      /\ HasUsed \in Nat /\ Direct \in Nat
  BY <1>2, Sizes DEF Writable
<1>10. foreign \subseteq used /\ used \subseteq UsedThen(count) /\ used \subseteq Blocks /\ 0 \notin Blocks
  BY <1>2 DEF BlockTypes, UsedThen, Blocks
<1>11. fd_pos \in [Fds -> Nat \cup {-1}] /\ round \in {0, 1} /\ gaveUp \in BOOLEAN
  BY DEF FileInv, FileTypes
<1> HIDE DEF a, m, W
<1>12. FileTypes'
  <2>1. BlockTypes'
    <3>1. inode' \in [i_size : Nat, i_block : [0 .. Direct -> Addresses]]
      BY <1>4, <1>5, <1>9
    <3>2. disk' \in [Blocks -> [Cells -> Int]]
      BY <1>4, <1>7
    <3> QED BY <1>3, <1>4, <1>6, <1>8, <1>10, <3>1, <3>2 DEF BlockTypes
  <2>2. fd_pos' \in [Fds -> Nat \cup {-1}]
    BY <1>4, <1>9, <1>11
  <2> QED BY <1>4, <1>11, <2>1, <2>2 DEF FileTypes
<1>13. HasTable' <=> m[Direct] # 0
  BY <1>3 DEF HasTable
<1>14. m[Direct] # 0 <=> W > Direct
  <2>1. MakesTable(count) => GivenTable \in Blocks
    BY <1>2, Allots DEF Writable
  <2>2. HasTable => inode.i_block[Direct] # 0
    BY DEF HasTable
  <2> QED BY <1>5, <1>9, <1>10, <2>1, <2>2
<1>15. Mapped'
  <2>1. \A k \in Indexes' : BlockOf(k)' \in used' \ foreign'
    BY <1>3, <1>4, <1>6
  <2> QED BY <1>3, <1>4, <1>5, <1>6, <1>9, <1>13, <1>14, <2>1 DEF Mapped
<1>16. EachOnce'
  BY <1>3, <1>6 DEF EachOnce
<1>17. NoneLost'
  <2>1. CASE gaveUp
    BY <1>4, <2>1 DEF NoneLost
  <2>2. CASE used = foreign \cup BlocksHeld
    <3>1. BlocksHeld' = {BlockOf(k)' : k \in Indexes'} \cup ({inode'.i_block[Direct]} \ {0})
      BY <1>3 DEF BlocksHeld
    <3>2. {BlockOf(k)' : k \in Indexes'} = {a[k] : k \in Reached(count)}
      BY <1>3
    <3> QED BY <1>3, <1>4, <1>6, <2>2, <3>1, <3>2 DEF NoneLost
  <2> QED BY <2>1, <2>2 DEF FileInv, NoneLost
<1>18. SlotFollows'
  BY <1>4 DEF SlotFollows
<1>19. OthersUntouched'
  BY <1>3, <1>4, <1>7, <1>10 DEF FileInv, OthersUntouched
<1>20. OnlyTableBitLate'
  <2> DEFINE late == used' \ diskBitmap'
  <2>1. used \ diskBitmap # {} =>
            /\ used \ diskBitmap = {inode.i_block[Direct]} /\ HasTable
            /\ \A k \in Direct .. HasUsed - 1 :
                  Sector(BlockOf(k)) # Sector(inode.i_block[Direct])
    BY <1>10 DEF FileInv, OnlyTableBitLate, HasTable, Sector
  <2>2. ASSUME NEW b \in late PROVE b = m[Direct]
    BY <1>2, <1>3, <1>4, <1>5, <1>8, <2>1 DEF Mapped, inode_init, HasTable
  <2>3. ASSUME NEW b \in late, NEW k \in Direct .. W - 1
        PROVE  Sector(BlockOf(k)') # Sector(b)
    <3>1. k \in Reached(count) /\ BlockOf(k)' = a[k]
      BY <1>3, <1>9 DEF Reached, W
    <3>2. CASE k \in Added(count)
      BY <1>3, <1>4, <1>5, <1>8, <2>3, <3>1, <3>2
    <3>3. CASE k \notin Added(count)
      <4>1. k \in Indexes /\ ~FirstWrite /\ a[k] = BlockOf(k)
        BY <1>5, <1>9, <3>1, <3>3, <2>3 DEF Fed
      <4>2. k \in Direct .. HasUsed - 1 /\ ~MakesTable(count)
        BY <1>9, <4>1 DEF Indexes, MakesTable
      <4>3. b \in used \ diskBitmap
        BY <1>3, <1>4, <1>8, <2>3, <4>2
      <4>4. b = inode.i_block[Direct]
        BY <2>1, <4>3
      <4> QED BY <2>1, <3>1, <4>1, <4>2, <4>3, <4>4
    <3> QED BY <3>2, <3>3
  <2>4. diskBitmap' \subseteq used'
    BY <1>3, <1>4, <1>8
  <2>5. late # {} => /\ late = {inode'.i_block[Direct]}
                     /\ \A k \in Direct .. HasUsed' - 1 :
                           BlockOf(k)' \div BitsPerSector # inode'.i_block[Direct] \div BitsPerSector
    BY <1>3, <2>2, <2>3 DEF Sector
  <2> QED BY <2>4, <2>5 DEF OnlyTableBitLate
<1> QED BY <1>12, <1>15, <1>16, <1>17, <1>18, <1>19, <1>20 DEF FileInv

-----------------------------------------------------------------------------
(* The other calls.                                                        *)

BlocksInv == /\ BlockTypes /\ Mapped /\ EachOnce /\ NoneLost /\ SlotFollows
             /\ OnlyTableBitLate /\ OthersUntouched
LEMMA InvParts ==
    FileInv <=> /\ BlocksInv /\ fd_pos \in [Fds -> Nat \cup {-1}]
                /\ round \in {0, 1} /\ gaveUp \in BOOLEAN
BY DEF FileInv, FileTypes, BlocksInv

LEMMA BlocksKept ==
    ASSUME BlocksInv, UNCHANGED <<blockVars, slot, gaveUp>>
    PROVE  BlocksInv'
<1>1. /\ inode' = inode /\ used' = used /\ diskBitmap' = diskBitmap /\ disk' = disk
      /\ foreign' = foreign /\ slot' = slot /\ gaveUp' = gaveUp
  BY DEF blockVars
<1>2. (FirstWrite' <=> FirstWrite) /\ HasUsed' = HasUsed /\ (HasTable' <=> HasTable) /\ Indexes' = Indexes
  BY <1>1 DEF FirstWrite, HasUsed, HasTable, Indexes
<1>3. \A k : BlockOf(k)' = BlockOf(k)
  BY <1>1 DEF BlockOf, Table
<1>4. BlocksHeld' = BlocksHeld
  BY <1>1, <1>2, <1>3 DEF BlocksHeld
<1>5. BlockTypes' /\ NoneLost' /\ SlotFollows' /\ OthersUntouched'
  BY <1>1, <1>4 DEF BlocksInv, BlockTypes, NoneLost, SlotFollows, OthersUntouched
<1>6. Mapped' /\ EachOnce'
  BY <1>1, <1>2, <1>3 DEF BlocksInv, Mapped, EachOnce
<1>7. OnlyTableBitLate'
  BY <1>1, <1>2, <1>3 DEF BlocksInv, OnlyTableBitLate
<1> QED BY <1>5, <1>6, <1>7 DEF BlocksInv

(* A first write that gave up has no table.                                *)
LEMMA NothingLate ==
    ASSUME BlocksInv, ~HasTable
    PROVE  diskBitmap = used
<1>1. inode.i_block[Direct] \notin Blocks
  BY DEF HasTable, Blocks
<1> QED BY <1>1 DEF BlocksInv, BlockTypes, OnlyTableBitLate

LEMMA SlotRead ==
    ASSUME BlocksInv, inode' = slot,
           UNCHANGED <<used, diskBitmap, disk, foreign, slot, gaveUp>>
    PROVE  BlocksInv'
<1>1. CASE slot = inode
  BY <1>1, BlocksKept DEF blockVars
<1>2. CASE slot # inode
  <2>1. gaveUp /\ slot = inode_init /\ inode.i_size = 0
    BY <1>2 DEF BlocksInv, SlotFollows
  <2>2. ~HasTable
    <3>1. inode.i_size \div BlockSize = 0
      BY <2>1 DEF BlockSize
    <3>2. HasUsed = 1 /\ ~(1 > Direct)
      BY <3>1 DEF HasUsed
    <3>3. FirstWrite => ~HasTable
      BY DEF BlocksInv, Mapped, inode_init, HasTable
    <3> QED BY <3>2, <3>3 DEF BlocksInv, Mapped
  <2>3. diskBitmap = used
    BY <2>2, NothingLate
  <2>4. /\ inode' = inode_init /\ used' = used /\ diskBitmap' = diskBitmap /\ disk' = disk
        /\ foreign' = foreign /\ slot' = slot /\ gaveUp' = gaveUp
    BY <2>1
  <2>5. FirstWrite' /\ inode_init \in [i_size : Nat, i_block : [0 .. Direct -> Addresses]]
    BY <2>4 DEF FirstWrite, inode_init, Addresses
  <2>6. BlockTypes'
    BY <2>4, <2>5 DEF BlocksInv, BlockTypes
  <2>7. Mapped' /\ EachOnce' /\ NoneLost' /\ SlotFollows'
    BY <2>1, <2>4, <2>5 DEF Mapped, EachOnce, NoneLost, SlotFollows
  <2>8. OnlyTableBitLate' /\ OthersUntouched'
    BY <2>3, <2>4 DEF BlocksInv, OnlyTableBitLate, OthersUntouched
  <2> QED BY <2>6, <2>7, <2>8 DEF BlocksInv
<1> QED BY <1>1, <1>2

LEMMA GivesUpStep ==
    ASSUME FileInv, NEW d \in Fds, NEW count \in Counts, file_write_gives_up(d, count)
    PROVE  FileInv'
<1> DEFINE b == Head(FreeBlocks)
<1>1. /\ FirstWrite /\ FreeBlocks # <<>> /\ inode' = [inode EXCEPT !.i_block[0] = b]
      /\ used' = used \cup {b} /\ diskBitmap' = bitmap_sync(diskBitmap, used', {b}) /\ gaveUp' = TRUE
      /\ disk' = disk /\ foreign' = foreign /\ slot' = slot /\ fd_pos' = fd_pos /\ round' = round
  BY DEF file_write_gives_up
<1>2. b \in Blocks \ used
  BY <1>1, Successive
<1>3. BlockTypes /\ Mapped /\ inode = inode_init /\ diskBitmap = used
  <2>1. BlocksInv /\ inode = inode_init
    BY <1>1, InvParts DEF BlocksInv, Mapped
  <2>2. ~HasTable
    BY <2>1 DEF HasTable, inode_init
  <2> QED BY <2>1, <2>2, NothingLate DEF BlocksInv
<1> HIDE DEF b
<1>4. inode' = [i_size |-> 0, i_block |-> [k \in 0 .. Direct |-> IF k = 0 THEN b ELSE 0]]
  BY <1>1, <1>3 DEF inode_init
<1>5. inode'.i_size = 0 /\ inode'.i_block = [k \in 0 .. Direct |-> IF k = 0 THEN b ELSE 0]
  BY <1>4
<1>6. /\ inode'.i_block[0] = b /\ Direct \in Nat /\ Direct > 1 /\ \A k \in 1 .. Direct : inode'.i_block[k] = 0
      /\ b # 0
  BY <1>2, <1>5 DEF Blocks
<1>7. HasUsed' = 1 /\ ~FirstWrite' /\ ~HasTable' /\ Indexes' = {0} /\ BlockOf(0)' = b
  <2>1. inode'.i_size \div BlockSize = 0
    BY <1>5 DEF BlockSize
  <2>2. HasUsed' = 1
    BY <2>1 DEF HasUsed
  <2>3. Indexes' = {0}
    BY <2>2 DEF Indexes
  <2> QED BY <1>6, <2>2, <2>3 DEF FirstWrite, HasTable, BlockOf
<1>8. diskBitmap' = used'
  BY <1>1, <1>2, <1>3 DEF bitmap_sync, BlockTypes
<1>9. BlockTypes'
  <2>1. [k \in 0 .. Direct |-> IF k = 0 THEN b ELSE 0] \in [0 .. Direct -> Addresses]
    BY <1>2 DEF Blocks, Addresses
  <2>2. inode' \in [i_size : Nat, i_block : [0 .. Direct -> Addresses]]
    BY <1>4, <2>1
  <2> QED BY <1>1, <1>2, <1>3, <1>8, <2>2 DEF BlockTypes
<1>10. Mapped'
  <2>1. b \in used' \ foreign'
    BY <1>1, <1>2, <1>3 DEF BlockTypes
  <2>2. 1 <= MaxBlocks
    BY DEF MaxBlocks
  <2> QED BY <1>6, <1>7, <2>1, <2>2 DEF Mapped
<1>11. EachOnce' /\ NoneLost'
  BY <1>1, <1>6, <1>7 DEF EachOnce, NoneLost
<1>12. SlotFollows'
  BY <1>1, <1>3, <1>5 DEF FileInv, SlotFollows
<1>13. OnlyTableBitLate' /\ OthersUntouched'
  BY <1>1, <1>8 DEF FileInv, OnlyTableBitLate, OthersUntouched
<1>14. fd_pos' \in [Fds -> Nat \cup {-1}] /\ round' \in {0, 1} /\ gaveUp' \in BOOLEAN
  BY <1>1 DEF FileInv, FileTypes
<1> QED BY <1>9, <1>10, <1>11, <1>12, <1>13, <1>14 DEF FileInv, FileTypes

LEMMA UnlinkStep ==
    ASSUME FileInv, ~TableCalls, sys_unlink
    PROVE  FileInv'
<1> DEFINE R == inode_release
<1>1. /\ ~HasTable /\ used' = used \ R /\ diskBitmap' = bitmap_sync(diskBitmap, used', R)
      /\ inode' = inode_init /\ slot' = inode_init /\ round' = 1 - round
      /\ disk' = disk /\ foreign' = foreign /\ fd_pos' = fd_pos /\ gaveUp' = gaveUp
  BY DEF sys_unlink
<1>2. BlocksInv /\ BlockTypes /\ Mapped /\ EachOnce /\ NoneLost /\ diskBitmap = used
  BY <1>1, InvParts, NothingLate DEF BlocksInv
<1>3. R = {inode.i_block[k] : k \in 0 .. Direct - 1} \ {0}
  <2>1. 0 .. Direct - 1 \subseteq Places /\ \A k \in Places : k < Direct => k \in 0 .. Direct - 1
    BY DEF Places, MaxBlocks
  <2>2. R = ({DirectBlocks(0)[k] : k \in Places} \cup {inode.i_block[Direct]}) \ {0}
    BY <1>1 DEF inode_release
  <2>3. \A k \in Places : DirectBlocks(0)[k] = IF k < Direct THEN inode.i_block[k] ELSE 0
    BY DEF DirectBlocks
  <2>4. inode.i_block[Direct] = 0
    BY <1>1 DEF HasTable
  <2> HIDE DEF R
  <2>5. \A k \in 0 .. Direct - 1 : k < Direct
    OBVIOUS
  <2> QED BY <2>1, <2>2, <2>3, <2>4, <2>5
<1>4. ASSUME ~FirstWrite
      PROVE  BlocksHeld = R /\ R \subseteq used \ foreign
  <2>1. HasUsed <= Direct /\ HasUsed \in Nat /\ Direct \in Nat
    <3>1. inode.i_size \div PerBlock \in Nat
      BY <1>2, Divided DEF BlockTypes
    <3> QED BY <1>1, <1>2, <1>4, <3>1 DEF Mapped, HasUsed, BlockSize
  <2>2. \A k \in Indexes : k \in 0 .. Direct - 1 /\ BlockOf(k) = inode.i_block[k]
    BY <2>1 DEF Indexes, BlockOf
  <2>3. \A k \in 0 .. Direct - 1 : k \in Indexes \/ inode.i_block[k] = 0
    BY <1>2, <1>4, <2>1 DEF Indexes, Mapped
  <2>4. \A k \in Indexes : BlockOf(k) \in used \ foreign /\ BlockOf(k) # 0
    BY <1>2, <1>4 DEF Mapped, BlockTypes, Blocks
  <2>5. BlocksHeld = {BlockOf(k) : k \in Indexes}
    BY <1>1, <1>4 DEF BlocksHeld, HasTable
  <2> HIDE DEF R
  <2> QED BY <1>3, <2>2, <2>3, <2>4, <2>5
<1>5. FirstWrite => BlocksHeld = {} /\ R = {}
  BY <1>2, <1>3 DEF BlocksHeld, Mapped, inode_init
<1> HIDE DEF R
<1>6. R \subseteq used \ foreign /\ R = BlocksHeld
  BY <1>4, <1>5
<1>7. FirstWrite' /\ inode_init \in [i_size : Nat, i_block : [0 .. Direct -> Addresses]]
  BY <1>1 DEF FirstWrite, inode_init, Addresses
<1>8. diskBitmap' = used'
  <2>1. \A b \in Blocks : b \in diskBitmap' <=>
            IF \E x \in R : Sector(x) = Sector(b) THEN b \in used' ELSE b \in used
    BY <1>1, <1>2 DEF bitmap_sync, Sector
  <2>2. diskBitmap' \subseteq Blocks /\ used' \subseteq Blocks
    BY <1>1, <1>2 DEF bitmap_sync, BlockTypes
  <2> QED BY <1>1, <2>1, <2>2
<1>9. BlockTypes'
  BY <1>1, <1>2, <1>6, <1>7, <1>8 DEF BlockTypes
<1>10. Mapped' /\ EachOnce' /\ SlotFollows'
  BY <1>1, <1>7 DEF Mapped, EachOnce, SlotFollows
<1>11. NoneLost'
  <2>1. BlocksHeld' = {}
    BY <1>7 DEF BlocksHeld
  <2> QED BY <1>1, <1>2, <1>6, <2>1 DEF NoneLost, BlockTypes
<1>12. OnlyTableBitLate' /\ OthersUntouched'
  BY <1>1, <1>6, <1>8 DEF FileInv, OnlyTableBitLate, OthersUntouched
<1>13. fd_pos' \in [Fds -> Nat \cup {-1}] /\ round' \in {0, 1} /\ gaveUp' \in BOOLEAN
  BY <1>1 DEF FileInv, FileTypes
<1> QED BY <1>9, <1>10, <1>11, <1>12, <1>13 DEF FileInv, FileTypes

LEMMA FileInitInv == FileInit => FileInv
<1> SUFFICES ASSUME FileInit PROVE FileInv
  OBVIOUS
<1>1. /\ foreign \subseteq Blocks /\ used = foreign /\ diskBitmap = used
      /\ disk = [b \in Blocks |-> IF b \in foreign THEN ForeignBlock ELSE ZeroBlock]
      /\ inode = inode_init /\ slot = inode_init /\ fd_pos = [d \in Fds |-> -1] /\ round = 0
      /\ gaveUp = FALSE
  BY DEF FileInit, BlockMapInit, Blocks
<1>2. FirstWrite /\ inode_init \in [i_size : Nat, i_block : [0 .. Direct -> Addresses]]
  BY <1>1 DEF FirstWrite, inode_init, Addresses
<1>3. ForeignBlock \in [Cells -> Int] /\ ZeroBlock \in [Cells -> Int]
  BY DEF ForeignBlock, ZeroBlock
<1>4. BlockTypes
  <2>1. disk \in [Blocks -> [Cells -> Int]]
    BY <1>1, <1>3
  <2> QED BY <1>1, <1>2, <2>1 DEF BlockTypes
<1>5. Mapped /\ EachOnce /\ NoneLost /\ SlotFollows
  BY <1>1, <1>2 DEF Mapped, EachOnce, NoneLost, SlotFollows, BlocksHeld
<1>6. OnlyTableBitLate /\ OthersUntouched
  BY <1>1 DEF OnlyTableBitLate, OthersUntouched
<1> QED BY <1>1, <1>4, <1>5, <1>6 DEF FileInv, FileTypes

LEMMA FileStep == ~TableCalls /\ FileInv /\ FileNext => FileInv'
<1> SUFFICES ASSUME ~TableCalls, FileInv, FileNext PROVE FileInv'
  OBVIOUS
<1>1. BlocksInv /\ fd_pos \in [Fds -> Nat \cup {-1}] /\ round \in {0, 1} /\ gaveUp \in BOOLEAN
  BY InvParts
<1>2. inode.i_size \in Nat
  BY <1>1 DEF BlocksInv, BlockTypes
<1>3. ASSUME NEW d \in Fds, sys_open(d) PROVE FileInv'
  <2>1. BlocksInv'
    BY <1>1, <1>3, BlocksKept DEF sys_open
  <2> QED BY <1>1, <1>3, <2>1, InvParts DEF sys_open, BlocksInv, FileInv, FileTypes
<1>4. ASSUME NEW d \in Fds, sys_close(d) PROVE FileInv'
  <2>1. CASE inode' = slot
    <3>1. BlocksInv'
      BY <1>1, <1>4, <2>1, SlotRead DEF sys_close
    <3> QED BY <1>1, <1>4, <3>1 DEF sys_close, BlocksInv, FileInv, FileTypes
  <2>2. CASE inode' = inode
    <3>1. BlocksInv'
      BY <1>1, <1>4, <2>2, BlocksKept DEF sys_close, blockVars
    <3> QED BY <1>1, <1>4, <3>1 DEF sys_close, BlocksInv, FileInv, FileTypes
  <2> QED BY <1>4, <2>1, <2>2 DEF sys_close
<1>5. ASSUME NEW d \in Fds, sys_lseek(d) PROVE FileInv'
  <2>1. BlocksInv'
    BY <1>1, <1>5, BlocksKept DEF sys_lseek
  <2>2. PICK p \in 0 .. inode.i_size - 1 : fd_pos' = [fd_pos EXCEPT ![d] = p]
    BY <1>5 DEF sys_lseek
  <2>3. fd_pos' \in [Fds -> Nat \cup {-1}]
    BY <1>1, <1>2, <2>2
  <2> QED BY <1>1, <1>5, <2>1, <2>3 DEF sys_lseek, BlocksInv, FileInv, FileTypes
<1>6. ASSUME NEW d \in Fds, NEW count \in Counts, file_read(d, count) PROVE FileInv'
  <2>1. BlocksInv'
    BY <1>1, <1>6, BlocksKept DEF file_read
  <2>2. Within(d, count) \in Int /\ Within(d, count) > 0
    <3>1. count \in Int
      BY <1>1, Sizes DEF BlocksInv
    <3>2. fd_pos[d] \in Int
      BY <1>1
    <3>3. Within(d, count) > 0
      BY <1>6 DEF file_read
    <3>4. Within(d, count) \in Int
      BY <1>2, <3>1, <3>2 DEF Within
    <3> QED BY <3>3, <3>4
  <2>3. fd_pos' \in [Fds -> Nat \cup {-1}]
    BY <1>1, <1>6, <2>2 DEF file_read
  <2> QED BY <1>1, <1>6, <2>1, <2>3 DEF file_read, BlocksInv, FileInv, FileTypes
<1>7. ASSUME mount_partition PROVE FileInv'
  <2>1. BlocksInv'
    BY <1>1, <1>7, SlotRead DEF mount_partition
  <2> QED BY <1>1, <1>7, <2>1 DEF mount_partition, BlocksInv, FileInv, FileTypes
<1> QED BY <1>3, <1>4, <1>5, <1>6, <1>7, WriteStep, GivesUpStep, UnlinkStep DEF FileNext

-----------------------------------------------------------------------------
(* A directory.  The table is written from TableWord on and read back to   *)
(* there, so it shows one block more, as long as it is long enough to      *)
(* reach the place of that one.                                            *)

DirFits == PerBlock >= 2 /\ Direct - TableWord < PerBlock

Shown(x) == disk[Collected[x[1]]][x[2]]
OfDir == {k \in Places : Collected[k] # 0}

(* What the inode and the table lead to: direct blocks, with the first one *)
(* among them, and one more when there is a table; each once.              *)
DirMap ==
    /\ 0 \in OfDir /\ \A k \in OfDir : Collected[k] \in used \ foreign /\ k <= Direct
    /\ \A k \in 0 .. Direct - 1 : Collected[k] = inode.i_block[k]
    /\ \A j, k \in OfDir : Collected[j] = Collected[k] => j = k
    /\ HasTable => /\ 0 .. Direct \subseteq OfDir
                   /\ inode.i_block[Direct] \in used \ foreign
                   /\ \A k \in OfDir : Collected[k] # inode.i_block[Direct]
    /\ ~HasTable => Direct \notin OfDir
    /\ used = foreign \cup {Collected[k] : k \in OfDir} \cup ({inode.i_block[Direct]} \ {0})

(* What stands in the blocks: the two dots where they were put, and every  *)
(* name entered, once.                                                     *)
DirCells ==
    /\ <<0, 0>> \in Listed /\ Shown(<<0, 0>>) = Dot
    /\ <<0, 1>> \in Listed /\ Shown(<<0, 1>>) = DotDot
    /\ \A x \in Listed : Shown(x) \in {Dot, DotDot} \cup DirNames
    /\ \A x, y \in Listed : Shown(x) = Shown(y) => x = y
    /\ entered = {Shown(x) : x \in Listed} \cap DirNames
    /\ IsFiniteSet(entered) /\ inode.i_size = Cardinality(entered) + 2

DirInv ==
    /\ BlockTypes /\ diskBitmap = used /\ OthersUntouched
    /\ DirMap /\ DirCells

LEMMA SyncExact ==
    ASSUME NEW old \in SUBSET Blocks, NEW mem \in SUBSET Blocks, NEW S,
           \A b \in Blocks : b \in S \/ (b \in mem <=> b \in old)
    PROVE  bitmap_sync(old, mem, S) = mem
<1>1. \A b \in Blocks : b \in bitmap_sync(old, mem, S) <=> b \in mem
  <2> TAKE b \in Blocks
  <2>1. b \in S => \E x \in S : x \div BitsPerSector = b \div BitsPerSector
    OBVIOUS
  <2> QED BY <2>1 DEF bitmap_sync
<1>2. bitmap_sync(old, mem, S) \subseteq Blocks
  BY DEF bitmap_sync
<1> QED BY <1>1, <1>2

LEMMA LeastPlace ==
    ASSUME NEW S \in SUBSET Nat, S # {}
    PROVE  Smallest(S) \in S /\ \A x \in S : Smallest(S) <= x
<1>1. \E x \in S : \A y \in S : x <= y
  BY LeastNumber
<1> QED BY <1>1 DEF Smallest

LEMMA Numbers ==
    /\ Direct \in Nat /\ Direct >= 2 /\ PerBlock \in Nat /\ PerBlock >= 1 /\ MaxBlocks = Direct + PerBlock
    /\ Cells = 0 .. PerBlock - 1 /\ Places = 0 .. MaxBlocks - 1 /\ 0 \notin Blocks /\ 0 \in Cells
    /\ TableWord \in Nat /\ 1 <= TableWord /\ TableWord < Direct
    /\ 0 .. Direct \subseteq Places /\ Addresses = Blocks \cup {0} /\ Blocks \subseteq Int
<1>1. Addresses = Blocks \cup {0}
  BY DEF Addresses, Blocks
<1>2. MaxBlocks = Direct + PerBlock /\ Cells = 0 .. PerBlock - 1 /\ Places = 0 .. MaxBlocks - 1
      /\ 0 \notin Blocks /\ Blocks \subseteq Int
  BY DEF MaxBlocks, Cells, Places, Blocks
<1>3. 0 .. Direct \subseteq Places
  BY <1>2
<1> QED BY <1>1, <1>2, <1>3

(* The place that sync_dir_entry finds.                                    *)
LEMMA PlaceFound ==
    ASSUME BlockTypes
    PROVE  /\ PlaceFor \in 0 .. Direct
           /\ PlaceFor < Direct => Seen[PlaceFor] = inode.i_block[PlaceFor]
           /\ PlaceFor = Direct => Seen[PlaceFor] = 0 /\ \A k \in 0 .. Direct - 1 : inode.i_block[k] # 0
           /\ Seen[PlaceFor] = 0 \/ Vacant(Seen[PlaceFor]) # {}
<1> DEFINE S == {k \in Places : Seen[k] = 0 \/ Vacant(Seen[k]) # {}}
<1>1. \A k \in Places : Seen[k] = IF k < Direct THEN inode.i_block[k] ELSE 0
  BY DEF Seen, DirectBlocks
<1>2. Direct \in Places /\ Seen[Direct] = 0 /\ S \in SUBSET Nat
  BY <1>1, Numbers
<1>3. Direct \in S
  BY <1>2
<1>4. PlaceFor \in S /\ \A k \in S : PlaceFor <= k
  <2> HIDE DEF S
  <2>1. Smallest(S) \in S /\ \A k \in S : Smallest(S) <= k
    BY <1>2, <1>3, LeastPlace
  <2> QED BY <2>1 DEF PlaceFor, S
<1>5. PlaceFor \in 0 .. Direct
  BY <1>2, <1>3, <1>4, Numbers
<1>6. PlaceFor < Direct => Seen[PlaceFor] = inode.i_block[PlaceFor]
  BY <1>1, <1>4
<1>7. PlaceFor = Direct => Seen[PlaceFor] = 0 /\ \A k \in 0 .. Direct - 1 : inode.i_block[k] # 0
  <2> SUFFICES ASSUME PlaceFor = Direct, NEW k \in 0 .. Direct - 1, inode.i_block[k] = 0 PROVE FALSE
    BY <1>2
  <2>1. k \in Places /\ k < Direct
    BY Numbers
  <2>2. k \in S
    BY <1>1, <2>1
  <2> QED BY <1>4, <2>1, <2>2, Numbers
<1> QED BY <1>4, <1>5, <1>6, <1>7

(* What is gathered when neither the direct addresses nor the table change.*)
LEMMA CollectedKept ==
    ASSUME inode'.i_block = inode.i_block,
           HasTable => disk'[inode.i_block[Direct]] = disk[inode.i_block[Direct]]
    PROVE  Collected' = Collected /\ OfDir' = OfDir /\ (HasTable' <=> HasTable)
<1>1. HasTable' <=> HasTable
  BY DEF HasTable
<1>2. DirectBlocks(0)' = DirectBlocks(0)
  BY DEF DirectBlocks
<1>3. HasTable => Table' = Table
  BY DEF Table
<1>4. Collected' = Collected
  <2>1. CASE HasTable
    <3>1. \A q : ReadTable(q, TableWord)' = ReadTable(q, TableWord)
      BY <1>3, <2>1 DEF ReadTable
    <3> QED BY <1>1, <1>2, <2>1, <3>1 DEF Collected, ReadTable
  <2>2. CASE ~HasTable
    BY <1>1, <1>2, <2>2 DEF Collected
  <2> QED BY <2>1, <2>2
<1>5. OfDir' = OfDir
  BY <1>4 DEF OfDir
<1> QED BY <1>1, <1>4, <1>5

LEMMA CollectedDirect ==
    ASSUME ~HasTable
    PROVE  \A k \in Places : Collected[k] = IF k < Direct THEN inode.i_block[k] ELSE 0
BY DEF Collected, DirectBlocks

(* Cleared memory, and what any other words add to what is found in it.    *)
LEMMA SearchedCleared == Searched(0) = Collected
BY DEF Searched, Collected

LEMMA SearchedMore ==
    ASSUME NEW rest \in Addresses
    PROVE  search_dir_entry(0) \subseteq search_dir_entry(rest)
<1>1. \A k \in Places : DirectBlocks(0)[k] # 0 => DirectBlocks(rest)[k] = DirectBlocks(0)[k]
  BY DEF DirectBlocks
<1>2. \A k \in Places : Searched(0)[k] # 0 => Searched(rest)[k] = Searched(0)[k]
  <2>1. CASE HasTable
    BY <1>1, <2>1 DEF Searched, ReadTable
  <2>2. CASE ~HasTable
    BY <1>1, <2>2 DEF Searched
  <2> QED BY <2>1, <2>2
<1>3. \A k \in Places : Searched(0)[k] # 0 => Searched(rest)[k] # 0
  BY <1>2
<1> QED BY <1>2, <1>3 DEF search_dir_entry

LEMMA ListedIs ==
    /\ Listed = {x \in Places \X Cells : x[1] \in OfDir /\ Shown(x) # Unused}
    /\ Listed' = {x \in Places \X Cells : x[1] \in OfDir' /\ Shown(x)' # Unused}
    /\ search_dir_entry(0) = {Shown(x) : x \in Listed} \cap DirNames
<1>0. Listed' = {x \in Places \X Cells : x[1] \in OfDir' /\ Shown(x)' # Unused}
  BY DEF Listed, OfDir, Shown
<1>1. Listed = {x \in Places \X Cells : x[1] \in OfDir /\ Shown(x) # Unused}
  BY DEF Listed, OfDir, Shown
<1>2. \A k \in Places, c \in Cells : <<k, c>> \in Places \X Cells /\ Shown(<<k, c>>) = disk[Collected[k]][c]
  BY DEF Shown
<1>3. \A x \in Places \X Cells : x[1] \in Places /\ x[2] \in Cells /\ Shown(x) = disk[Collected[x[1]]][x[2]]
  BY DEF Shown
<1>4. Unused \notin DirNames
  BY DEF Unused
<1>5. \A v \in DirNames : v \in search_dir_entry(0) <=> \E k \in OfDir, c \in Cells : v = disk[Collected[k]][c]
  BY SearchedCleared DEF search_dir_entry, OfDir
<1>6. OfDir \subseteq Places
  BY DEF OfDir
<1>7. ASSUME NEW v \in search_dir_entry(0) PROVE v \in DirNames /\ \E x \in Listed : v = Shown(x)
  <2>1. v \in DirNames
    BY DEF search_dir_entry
  <2>2. PICK k \in OfDir, c \in Cells : v = disk[Collected[k]][c]
    BY <1>5, <2>1
  <2>3. <<k, c>> \in Listed
    BY <1>1, <1>2, <1>4, <1>6, <2>1, <2>2
  <2> QED BY <1>2, <1>6, <2>1, <2>2, <2>3
<1>8. ASSUME NEW x \in Listed, Shown(x) \in DirNames PROVE Shown(x) \in search_dir_entry(0)
  BY <1>1, <1>3, <1>5, <1>8
<1> QED BY <1>0, <1>1, <1>7, <1>8

(* One cell more, or one less.                                             *)
LEMMA CellsGrow ==
    ASSUME DirCells, NEW n \in DirNames, n \notin search_dir_entry(0),
           NEW x0, x0 \notin Listed, Listed' = Listed \cup {x0}, Shown(x0)' = n,
           \A x \in Listed : Shown(x)' = Shown(x),
           entered' = entered \cup {n}, inode'.i_size = inode.i_size + 1
    PROVE  DirCells'
<1>1. n \notin entered /\ \A x \in Listed : Shown(x) # n
  BY ListedIs DEF DirCells
<1>2. n # Dot /\ n # DotDot
  BY DEF Dot, DotDot
<1>3. IsFiniteSet(entered') /\ Cardinality(entered') = Cardinality(entered) + 1
  BY <1>1, FS_AddElement DEF DirCells
<1>4. Cardinality(entered) \in Nat
  BY FS_CardinalityType DEF DirCells
<1>5. inode'.i_size = Cardinality(entered') + 2
  BY <1>3, <1>4 DEF DirCells
<1>6. entered' = {Shown(x)' : x \in Listed'} \cap DirNames
  <2>1. {Shown(x)' : x \in Listed'} = {Shown(x) : x \in Listed} \cup {n}
    OBVIOUS
  <2> QED BY <2>1 DEF DirCells
<1>7. \A x \in Listed' : Shown(x)' \in {Dot, DotDot} \cup DirNames
  BY DEF DirCells
<1>8. \A x, y \in Listed' : Shown(x)' = Shown(y)' => x = y
  BY <1>1 DEF DirCells
<1> QED BY <1>3, <1>5, <1>6, <1>7, <1>8 DEF DirCells

LEMMA CellsShrink ==
    ASSUME DirCells, NEW n \in DirNames,
           NEW x0 \in Listed, Shown(x0) = n, Listed' = Listed \ {x0},
           \A x \in Listed' : Shown(x)' = Shown(x),
           entered' = entered \ {n}, inode'.i_size = inode.i_size - 1
    PROVE  DirCells' /\ inode'.i_size \in Nat
<1>1. n \in entered /\ \A x \in Listed' : Shown(x) # n
  BY DEF DirCells
<1>2. n # Dot /\ n # DotDot
  BY DEF Dot, DotDot
<1>3. IsFiniteSet(entered') /\ Cardinality(entered') = Cardinality(entered) - 1
  BY <1>1, FS_RemoveElement DEF DirCells
<1>4. Cardinality(entered) \in Nat /\ Cardinality(entered') \in Nat
  BY <1>3, FS_CardinalityType DEF DirCells
<1>5. inode'.i_size = Cardinality(entered') + 2
  BY <1>3, <1>4 DEF DirCells
<1>6. entered' = {Shown(x)' : x \in Listed'} \cap DirNames
  <2>1. {Shown(x)' : x \in Listed'} = {Shown(x) : x \in Listed} \ {n}
    BY <1>1
  <2> QED BY <2>1 DEF DirCells
<1>7. \A x \in Listed' : Shown(x)' \in {Dot, DotDot} \cup DirNames
  BY DEF DirCells
<1>8. \A x, y \in Listed' : Shown(x)' = Shown(y)' => x = y
  BY DEF DirCells
<1>9. <<0, 0>> \in Listed' /\ <<0, 1>> \in Listed' /\ Shown(<<0, 0>>)' = Dot /\ Shown(<<0, 1>>)' = DotDot
  BY <1>2 DEF DirCells
<1> QED BY <1>3, <1>4, <1>5, <1>6, <1>7, <1>8, <1>9 DEF DirCells

(* An entry goes to an unused cell of a block.                             *)
LEMMA EntersBlockStep ==
    ASSUME DirInv, NEW n \in DirNames, n \notin search_dir_entry(0), EntersBlock(n),
           entered' = entered \cup {n}, foreign' = foreign
    PROVE  DirInv'
<1> DEFINE p == PlaceFor
           b == Seen[p]
           c == Smallest(Vacant(b))
           tb == inode.i_block[Direct]
<1>1. /\ b # 0 /\ disk' = [disk EXCEPT ![b][c] = n] /\ inode' = [inode EXCEPT !.i_size = @ + 1]
      /\ used' = used /\ diskBitmap' = diskBitmap
  BY DEF EntersBlock
<1>2. BlockTypes /\ DirMap /\ DirCells /\ OthersUntouched /\ diskBitmap = used
  BY DEF DirInv
<1>3. /\ p \in 0 .. Direct /\ (p < Direct => b = inode.i_block[p]) /\ (p = Direct => b = 0)
      /\ (b = 0 \/ Vacant(b) # {})
  BY <1>2, PlaceFound
<1> HIDE DEF p, b
<1>4. p \in 0 .. Direct - 1 /\ p \in Places /\ Collected[p] = b /\ p \in OfDir
  <2>1. p \in 0 .. Direct - 1 /\ p \in Places /\ p < Direct
    BY <1>1, <1>3, Numbers
  <2> QED BY <1>1, <1>2, <1>3, <2>1 DEF DirMap, OfDir
<1>5. b \in used \ foreign /\ b \in Blocks /\ (HasTable => b # tb)
  BY <1>2, <1>4 DEF DirMap, BlockTypes
<1>6. c \in Cells /\ disk[b][c] = Unused
  <2>1. Vacant(b) \in SUBSET Nat /\ Vacant(b) # {} /\ Vacant(b) = {i \in Cells : disk[b][i] = Unused}
    BY <1>1, <1>3, Numbers DEF Vacant
  <2>2. c \in Vacant(b)
    BY <2>1, LeastPlace
  <2> QED BY <2>1, <2>2
<1> HIDE DEF c
<1>7. /\ inode'.i_block = inode.i_block /\ inode'.i_size = inode.i_size + 1
      /\ inode' \in [i_size : Nat, i_block : [0 .. Direct -> Addresses]]
  BY <1>1, <1>2 DEF BlockTypes
<1>8. /\ disk' \in [Blocks -> [Cells -> Int]]
      /\ \A x \in Blocks : x # b => disk'[x] = disk[x]
      /\ \A i \in Cells : disk'[b][i] = IF i = c THEN n ELSE disk[b][i]
  <2>1. n \in Int /\ disk \in [Blocks -> [Cells -> Int]] /\ disk[b] \in [Cells -> Int]
    BY <1>2, <1>5 DEF BlockTypes
  <2> QED BY <1>1, <1>5, <1>6, <2>1
<1>9. Collected' = Collected /\ OfDir' = OfDir /\ (HasTable' <=> HasTable)
  <2>1. HasTable => disk'[tb] = disk[tb]
    BY <1>2, <1>5, <1>8 DEF DirMap, BlockTypes
  <2> QED BY <1>7, <2>1, CollectedKept
<1>10. \A x \in Places \X Cells : x[1] \in OfDir =>
          Shown(x)' = IF x = <<p, c>> THEN n ELSE Shown(x)
  <2> SUFFICES ASSUME NEW k \in OfDir, NEW i \in Cells
               PROVE  Shown(<<k, i>>)' = IF k = p /\ i = c THEN n ELSE Shown(<<k, i>>)
    OBVIOUS
  <2>1. Shown(<<k, i>>)' = disk'[Collected[k]][i] /\ Shown(<<k, i>>) = disk[Collected[k]][i]
    BY <1>9 DEF Shown
  <2>2. Collected[k] \in Blocks /\ (Collected[k] = b <=> k = p)
    BY <1>2, <1>4 DEF DirMap, BlockTypes
  <2> QED BY <1>8, <2>1, <2>2
<1>11. Shown(<<p, c>>) = Unused /\ n # Unused /\ <<p, c>> \in Places \X Cells
  BY <1>4, <1>6 DEF Shown, Unused
<1>12. PICK x0 : /\ x0 \notin Listed /\ Listed' = Listed \cup {x0} /\ Shown(x0)' = n
                 /\ \A x \in Listed : Shown(x)' = Shown(x)
  <2>1. Listed = {x \in Places \X Cells : x[1] \in OfDir /\ Shown(x) # Unused}
    BY ListedIs
  <2>2. Listed' = {x \in Places \X Cells : x[1] \in OfDir /\ Shown(x)' # Unused}
    BY <1>9, ListedIs
  <2>3. <<p, c>>[1] \in OfDir
    BY <1>4
  <2>4. PICK xx : xx = <<p, c>>
    OBVIOUS
  <2>5. xx \in Places \X Cells /\ xx[1] \in OfDir /\ Shown(xx) = Unused /\ n # Unused
    BY <1>11, <2>3, <2>4
  <2>6. \A x \in Places \X Cells : x[1] \in OfDir => Shown(x)' = IF x = xx THEN n ELSE Shown(x)
    BY <1>10, <2>4
  <2>7. Listed' = Listed \cup {xx} /\ xx \notin Listed /\ Shown(xx)' = n
        /\ \A x \in Listed : Shown(x)' = Shown(x)
    BY <2>1, <2>2, <2>5, <2>6
  <2> QED BY <2>7
<1>13. DirCells'
  <2>1. entered' = entered \cup {n} /\ inode'.i_size = inode.i_size + 1 /\ n \notin search_dir_entry(0)
    BY <1>7
  <2> QED BY <1>2, <1>12, <2>1, CellsGrow
<1>14. DirMap'
  BY <1>1, <1>2, <1>7, <1>9 DEF DirMap
<1>15. BlockTypes' /\ diskBitmap' = used' /\ OthersUntouched'
  BY <1>1, <1>2, <1>5, <1>7, <1>8 DEF BlockTypes, OthersUntouched
<1> QED BY <1>13, <1>14, <1>15 DEF DirInv

(* A new block for one entry.                                              *)
LEMMA BlockAdded ==
    ASSUME DirInv, NEW n \in DirNames, n \notin search_dir_entry(0),
           NEW p \in Places, p \notin OfDir, NEW b \in Blocks \ used,
           \A k \in Places : Collected'[k] = IF k = p THEN b ELSE Collected[k],
           disk'[b] = OnlyEntry(n), \A x \in used : disk'[x] = disk[x],
           entered' = entered \cup {n}, inode'.i_size = inode.i_size + 1
    PROVE  /\ OfDir' = OfDir \cup {p} /\ DirCells'
           /\ \A k \in OfDir : Collected[k] \in used \ foreign /\ Collected[k] # b
<1>1. BlockTypes /\ DirMap /\ DirCells
  BY DEF DirInv
<1>2. OfDir' = OfDir \cup {p} /\ OfDir \subseteq Places
  BY Numbers DEF OfDir
<1>3. \A k \in OfDir : Collected[k] \in used \ foreign /\ Collected[k] # b
  BY <1>1 DEF DirMap
<1>4. \A c \in Cells : disk'[b][c] = IF c = 0 THEN n ELSE Unused
  BY Numbers DEF OnlyEntry, ZeroBlock, Unused
<1>5. PICK xx : xx = <<p, 0>>
  OBVIOUS
<1>6. Listed = {x \in Places \X Cells : x[1] \in OfDir /\ Shown(x) # Unused}
      /\ Listed' = {x \in Places \X Cells : x[1] \in OfDir' /\ Shown(x)' # Unused}
  BY ListedIs
<1>7. \A k \in OfDir, c \in Cells : Shown(<<k, c>>)' = Shown(<<k, c>>)
  <2> TAKE k \in OfDir, c \in Cells
  <2>1. Collected'[k] = Collected[k]
    BY <1>2
  <2> QED BY <1>3, <2>1 DEF Shown
<1>8. \A c \in Cells : Shown(<<p, c>>)' = IF c = 0 THEN n ELSE Unused
  BY <1>4 DEF Shown
<1>9. \A x \in Places \X Cells : x[1] \in OfDir => Shown(x)' = Shown(x)
  <2> TAKE x \in Places \X Cells
  <2>1. PICK k \in Places, c \in Cells : x = <<k, c>> /\ x[1] = k
    OBVIOUS
  <2> QED BY <1>7, <2>1
<1>10. \A x \in Places \X Cells : x[1] = p => Shown(x)' = IF x = xx THEN n ELSE Unused
  <2> TAKE x \in Places \X Cells
  <2>1. PICK k \in Places, c \in Cells : x = <<k, c>> /\ x[1] = k
    OBVIOUS
  <2>2. CASE k = p
    <3>1. x = <<p, c>> /\ (x = xx <=> c = 0)
      BY <1>5, <2>1, <2>2
    <3>2. Shown(x)' = IF c = 0 THEN n ELSE Unused
      BY <1>8, <3>1
    <3> QED BY <3>1, <3>2
  <2> QED BY <2>1, <2>2
<1>11. xx \in Places \X Cells /\ xx[1] = p
  BY <1>5, Numbers
<1>12. n # Unused
  BY DEF Unused
<1>13. /\ xx \notin Listed /\ Listed' = Listed \cup {xx} /\ Shown(xx)' = n
       /\ \A x \in Listed : Shown(x)' = Shown(x)
  BY <1>2, <1>6, <1>9, <1>10, <1>11, <1>12
<1>14. DirCells'
  BY <1>1, <1>13, CellsGrow
<1> QED BY <1>2, <1>3, <1>14

LEMMA EntersDirectStep ==
    ASSUME DirInv, NEW n \in DirNames, n \notin search_dir_entry(0), EntersDirect(n),
           entered' = entered \cup {n}, foreign' = foreign
    PROVE  DirInv'
<1>1. PICK p, b : p = PlaceFor /\ b = Head(FreeBlocks)
  OBVIOUS
<1>2. /\ Seen[p] = 0 /\ p < Direct /\ FreeBlocks # <<>>
      /\ used' = used \cup {b} /\ diskBitmap' = bitmap_sync(diskBitmap, used', {b})
      /\ disk' = [disk EXCEPT ![b] = OnlyEntry(n)]
      /\ inode' = [inode EXCEPT !.i_size = @ + 1, !.i_block[p] = b]
  BY <1>1 DEF EntersDirect
<1>3. BlockTypes /\ DirMap /\ DirCells /\ OthersUntouched /\ diskBitmap = used
  BY DEF DirInv
<1>4. b \in Blocks \ used
  BY <1>1, <1>2, Successive
<1>5. p \in 0 .. Direct - 1 /\ p \in Places /\ inode.i_block[p] = 0 /\ p \notin OfDir /\ ~HasTable
  <2>1. p \in 0 .. Direct /\ inode.i_block[p] = 0
    BY <1>1, <1>2, <1>3, PlaceFound
  <2>2. p \in 0 .. Direct - 1 /\ p \in Places
    BY <1>2, <2>1, Numbers
  <2>3. p \notin OfDir
    BY <1>3, <2>1, <2>2 DEF DirMap, OfDir
  <2> QED BY <1>3, <2>1, <2>2, <2>3 DEF DirMap
<1>6. /\ inode' \in [i_size : Nat, i_block : [0 .. Direct -> Addresses]]
      /\ inode'.i_size = inode.i_size + 1
      /\ inode'.i_block = [inode.i_block EXCEPT ![p] = b]
  <2>1. PICK s \in Nat, ib \in [0 .. Direct -> Addresses] : inode = [i_size |-> s, i_block |-> ib]
    BY <1>3 DEF BlockTypes
  <2>2. inode' = [i_size |-> s + 1, i_block |-> [ib EXCEPT ![p] = b]]
    BY <1>2, <2>1
  <2>3. [ib EXCEPT ![p] = b] \in [0 .. Direct -> Addresses]
    BY <1>4, Numbers
  <2> QED BY <2>1, <2>2, <2>3
<1>7. \A k \in 0 .. Direct : inode'.i_block[k] = IF k = p THEN b ELSE inode.i_block[k]
  BY <1>3, <1>6 DEF BlockTypes
<1>8. ~HasTable' /\ inode'.i_block[Direct] = 0 /\ inode.i_block[Direct] = 0
  BY <1>5, <1>7, Numbers DEF HasTable
<1>9. \A k \in Places : /\ Collected[k] = IF k < Direct THEN inode.i_block[k] ELSE 0
                        /\ Collected'[k] = IF k < Direct THEN inode'.i_block[k] ELSE 0
  <2>1. \A k \in Places : Collected'[k] = IF k < Direct THEN inode'.i_block[k] ELSE 0
    BY <1>8 DEF Collected, DirectBlocks
  <2> QED BY <1>5, <2>1, CollectedDirect
<1>10. \A k \in Places : Collected'[k] = IF k = p THEN b ELSE Collected[k]
  <2>1. \A k \in Places : k < Direct => k \in 0 .. Direct
    BY Numbers
  <2> QED BY <1>2, <1>7, <1>9, <2>1
<1>11. /\ disk' \in [Blocks -> [Cells -> Int]] /\ disk'[b] = OnlyEntry(n)
       /\ \A x \in Blocks : x # b => disk'[x] = disk[x]
  <2>1. OnlyEntry(n) \in [Cells -> Int]
    BY Numbers DEF OnlyEntry, ZeroBlock
  <2> QED BY <1>2, <1>3, <1>4, <2>1 DEF BlockTypes
<1>12. \A x \in used : disk'[x] = disk[x]
  BY <1>3, <1>4, <1>11 DEF BlockTypes
<1>13. /\ OfDir' = OfDir \cup {p} /\ DirCells'
       /\ \A k \in OfDir : Collected[k] \in used \ foreign /\ Collected[k] # b
  BY <1>4, <1>5, <1>6, <1>10, <1>11, <1>12, BlockAdded
<1>14. diskBitmap' = used' /\ used' \subseteq Blocks
  <2>1. diskBitmap \in SUBSET Blocks /\ used' \in SUBSET Blocks
    BY <1>2, <1>3, <1>4 DEF BlockTypes
  <2> QED BY <1>2, <1>3, <2>1, SyncExact
<1>15. BlockTypes' /\ OthersUntouched'
  BY <1>2, <1>3, <1>6, <1>11, <1>12, <1>14 DEF BlockTypes, OthersUntouched
<1>16. DirMap'
  <2>1. \A k \in OfDir' : Collected'[k] \in used' \ foreign' /\ k <= Direct
    BY <1>2, <1>3, <1>4, <1>5, <1>10, <1>13 DEF DirMap, OfDir, BlockTypes
  <2>2. \A k \in 0 .. Direct - 1 : Collected'[k] = inode'.i_block[k]
    <3>1. \A k \in 0 .. Direct - 1 : k \in Places /\ k < Direct
      BY Numbers
    <3> QED BY <1>9, <3>1
  <2>3. \A j, k \in OfDir' : Collected'[j] = Collected'[k] => j = k
    BY <1>3, <1>10, <1>13 DEF DirMap, OfDir
  <2>4. used' = foreign' \cup {Collected'[k] : k \in OfDir'}
    <3>1. used = foreign \cup {Collected[k] : k \in OfDir}
      BY <1>3, <1>8 DEF DirMap
    <3>2. {Collected'[k] : k \in OfDir'} = {Collected[k] : k \in OfDir} \cup {b}
      BY <1>5, <1>10, <1>13 DEF OfDir
    <3> QED BY <1>2, <3>1, <3>2
  <2>5. Direct \notin OfDir' /\ 0 \in OfDir'
    BY <1>3, <1>5, <1>13, Numbers DEF DirMap
  <2> QED BY <1>8, <2>1, <2>2, <2>3, <2>4, <2>5 DEF DirMap
<1> QED BY <1>13, <1>14, <1>15, <1>16 DEF DirInv

(* The table and the first block it leads to.                              *)
LEMMA EntersIndirectStep ==
    ASSUME DirFits, DirInv, NEW n \in DirNames, n \notin search_dir_entry(0), EntersIndirect(n), ~spoiled',
           entered' = entered \cup {n}, foreign' = foreign
    PROVE  DirInv'
<1>1. PICK t, b : t = FreeBlocks[1] /\ b = FreeBlocks[2]
  OBVIOUS
<1>2. /\ Seen[PlaceFor] = 0 /\ PlaceFor = Direct /\ Len(FreeBlocks) >= 2 /\ ~HasTable
      /\ used' = used \cup {t, b}
      /\ diskBitmap' = bitmap_sync(bitmap_sync(diskBitmap, used \cup {t}, {t}), used', {b})
      /\ disk' = [disk EXCEPT ![t] = TableOf(b), ![b] = OnlyEntry(n)]
      /\ inode' = [inode EXCEPT !.i_size = @ + 1, !.i_block[Direct] = t]
  BY <1>1 DEF EntersIndirect
<1>3. BlockTypes /\ DirMap /\ DirCells /\ OthersUntouched /\ diskBitmap = used
  BY DEF DirInv
<1>4. t \in Blocks \ used /\ b \in Blocks \ used /\ t # b
  <2>1. 1 \in DOMAIN FreeBlocks /\ 2 \in DOMAIN FreeBlocks
    BY <1>2, Successive
  <2> QED BY <1>1, <2>1, Successive
<1>5. \A k \in 0 .. Direct - 1 : inode.i_block[k] # 0
  BY <1>2, <1>3, PlaceFound
<1>6. Direct \in Places /\ Direct \notin OfDir
  BY <1>2, <1>3, Numbers DEF DirMap
<1>7. /\ inode' \in [i_size : Nat, i_block : [0 .. Direct -> Addresses]]
      /\ inode'.i_size = inode.i_size + 1
      /\ inode'.i_block = [inode.i_block EXCEPT ![Direct] = t]
  <2>1. PICK s \in Nat, ib \in [0 .. Direct -> Addresses] : inode = [i_size |-> s, i_block |-> ib]
    BY <1>3 DEF BlockTypes
  <2>2. inode' = [i_size |-> s + 1, i_block |-> [ib EXCEPT ![Direct] = t]]
    BY <1>2, <2>1
  <2>3. [ib EXCEPT ![Direct] = t] \in [0 .. Direct -> Addresses]
    BY <1>4, Numbers
  <2> QED BY <2>1, <2>2, <2>3
<1>8. /\ \A k \in 0 .. Direct - 1 : inode'.i_block[k] = inode.i_block[k]
      /\ inode'.i_block[Direct] = t /\ HasTable'
  <2>1. inode.i_block \in [0 .. Direct -> Addresses]
    BY <1>3 DEF BlockTypes
  <2>2. Direct \in 0 .. Direct /\ \A k \in 0 .. Direct - 1 : k \in 0 .. Direct /\ k # Direct
    BY Numbers
  <2>3. inode'.i_block[Direct] = t /\ \A k \in 0 .. Direct - 1 : inode'.i_block[k] = inode.i_block[k]
    BY <1>7, <2>1, <2>2
  <2> QED BY <1>4, <2>3, Numbers DEF HasTable
<1>9. /\ disk' \in [Blocks -> [Cells -> Int]] /\ disk'[b] = OnlyEntry(n) /\ disk'[t] = TableOf(b)
      /\ \A x \in Blocks : x # b /\ x # t => disk'[x] = disk[x]
  <2>1. OnlyEntry(n) \in [Cells -> Int]
    BY Numbers DEF OnlyEntry, ZeroBlock
  <2>2. TableOf(b) \in [Cells -> Int]
    <3>1. \A k \in Places : Seen[k] \in Int
      <4> TAKE k \in Places
      <4>1. CASE k < Direct
        <5>1. k \in 0 .. Direct
          BY <4>1, Numbers
        <5>2. inode.i_block[k] \in Addresses
          BY <1>3, <5>1 DEF BlockTypes
        <5>3. Seen[k] = inode.i_block[k]
          BY <4>1 DEF Seen, DirectBlocks
        <5>4. \A x \in Addresses : x \in Int
          BY Numbers
        <5> QED BY <5>2, <5>3, <5>4
      <4>2. CASE ~(k < Direct)
        BY <4>2 DEF Seen, DirectBlocks
      <4> QED BY <4>1, <4>2
    <3>2. \A c \in Cells : TableWord + c \in Places
      BY Numbers
    <3>3. b \in Int
      BY <1>4, Numbers
    <3> QED BY <3>1, <3>2, <3>3 DEF TableOf
  <2> QED BY <1>2, <1>3, <1>4, <2>1, <2>2 DEF BlockTypes
<1>10. \A x \in used : disk'[x] = disk[x]
  BY <1>3, <1>4, <1>9 DEF BlockTypes
<1>11. \A k \in Places : Collected'[k] = IF k = Direct THEN b ELSE Collected[k]
  <2> TAKE k \in Places
  <2>1. Collected[k] = IF k < Direct THEN inode.i_block[k] ELSE 0
    BY <1>2, CollectedDirect
  <2>2. Seen[k] = Collected[k]
    BY <2>1 DEF Seen, DirectBlocks
  <2>3. Table' = TableOf(b)
    BY <1>8, <1>9 DEF Table
  <2>4. DirectBlocks(0)'[k] = Collected[k]
    <3>1. k < Direct => k \in 0 .. Direct - 1
      BY Numbers
    <3> QED BY <1>8, <2>1, <3>1 DEF DirectBlocks
  <2>5. Collected'[k] = IF k - TableWord \in Cells THEN TableOf(b)[k - TableWord] ELSE DirectBlocks(0)'[k]
    BY <1>8, <2>3 DEF Collected, ReadTable
  <2>6. k = Direct => k - TableWord \in Cells
    BY Numbers DEF DirFits
  <2>7. TableWord + (k - TableWord) = k
    BY Numbers
  <2>8. k - TableWord \in Cells => TableOf(b)[k - TableWord] = IF k = Direct THEN b ELSE Seen[k]
    BY <2>7 DEF TableOf
  <2> QED BY <2>2, <2>4, <2>5, <2>6, <2>8
<1>12. /\ OfDir' = OfDir \cup {Direct} /\ DirCells'
       /\ \A k \in OfDir : Collected[k] \in used \ foreign /\ Collected[k] # b
  <2>1. PICK p \in Places : p = Direct
    BY <1>6
  <2>2. p \notin OfDir /\ \A k \in Places : Collected'[k] = IF k = p THEN b ELSE Collected[k]
    BY <1>6, <1>11, <2>1
  <2>3. disk'[b] = OnlyEntry(n) /\ (\A y \in used : disk'[y] = disk[y]) /\ inode'.i_size = inode.i_size + 1
    BY <1>7, <1>9, <1>10
  <2>4. b \in Blocks \ used
    BY <1>4
  <2>5. p \notin OfDir
    BY <2>2
  <2>6. \A k \in Places : Collected'[k] = IF k = p THEN b ELSE Collected[k]
    BY <2>2
  <2>7. disk'[b] = OnlyEntry(n)
    BY <2>3
  <2>8. \A y \in used : disk'[y] = disk[y]
    BY <2>3
  <2>9. inode'.i_size = inode.i_size + 1
    BY <2>3
  <2>10. OfDir' = OfDir \cup {p} /\ DirCells'
         /\ \A k \in OfDir : Collected[k] \in used \ foreign /\ Collected[k] # b
    BY <2>4, <2>5, <2>6, <2>7, <2>8, <2>9, BlockAdded
  <2> QED BY <2>1, <2>10
<1>13. diskBitmap' = used' /\ used' \subseteq Blocks
  <2>1. used \in SUBSET Blocks /\ used \cup {t} \in SUBSET Blocks /\ used' \in SUBSET Blocks
    BY <1>2, <1>3, <1>4 DEF BlockTypes
  <2>2. bitmap_sync(used, used \cup {t}, {t}) = used \cup {t}
    BY <2>1, SyncExact
  <2>3. bitmap_sync(used \cup {t}, used', {b}) = used'
    BY <1>2, <2>1, SyncExact
  <2> QED BY <1>2, <1>3, <2>1, <2>2, <2>3
<1>14. BlockTypes' /\ OthersUntouched'
  BY <1>2, <1>3, <1>7, <1>9, <1>10, <1>13 DEF BlockTypes, OthersUntouched
<1>15. DirMap'
  <2>1. \A k \in OfDir' : Collected'[k] \in used' \ foreign' /\ k <= Direct
    <3>1. foreign \subseteq used /\ OfDir \subseteq Places /\ Direct <= Direct
      BY <1>3, Numbers DEF BlockTypes, OfDir
    <3>2. \A k \in OfDir : Collected'[k] = Collected[k] /\ k <= Direct
      BY <1>3, <1>6, <1>11, <3>1 DEF DirMap
    <3>3. Collected'[Direct] = b
      BY <1>6, <1>11
    <3> QED BY <1>2, <1>4, <1>12, <3>1, <3>2, <3>3
  <2>2. \A k \in 0 .. Direct - 1 : Collected'[k] = inode'.i_block[k]
    <3>1. \A k \in 0 .. Direct - 1 : k \in Places /\ k # Direct
      BY Numbers
    <3> QED BY <1>3, <1>8, <1>11, <3>1 DEF DirMap
  <2>3. \A j, k \in OfDir' : Collected'[j] = Collected'[k] => j = k
    BY <1>3, <1>11, <1>12 DEF DirMap, OfDir
  <2>4. used' = foreign' \cup {Collected'[k] : k \in OfDir'} \cup {t}
    <3>1. used = foreign \cup {Collected[k] : k \in OfDir}
      BY <1>2, <1>3 DEF DirMap, HasTable
    <3>2. {Collected'[k] : k \in OfDir'} = {Collected[k] : k \in OfDir} \cup {b}
      BY <1>6, <1>11, <1>12 DEF OfDir
    <3> QED BY <1>2, <3>1, <3>2
  <2>5. 0 .. Direct \subseteq OfDir' /\ 0 \in OfDir'
    <3>1. \A k \in 0 .. Direct - 1 : k \in OfDir
      <4>1. 0 .. Direct - 1 \subseteq Places
        BY Numbers
      <4> QED BY <1>3, <1>5, <4>1 DEF DirMap, OfDir
    <3>2. \A k \in 0 .. Direct : k = Direct \/ k \in 0 .. Direct - 1
      BY Numbers
    <3> QED BY <1>12, <3>1, <3>2, Numbers
  <2>6. t \in used' \ foreign' /\ \A k \in OfDir' : Collected'[k] # t
    BY <1>2, <1>3, <1>4, <1>11, <1>12 DEF BlockTypes, OfDir
  <2>7. inode'.i_block[Direct] = t /\ {t} \ {0} = {t}
    BY <1>4, <1>8, Numbers
  <2> QED BY <1>8, <2>1, <2>2, <2>3, <2>4, <2>5, <2>6, <2>7 DEF DirMap
<1> QED BY <1>12, <1>13, <1>14, <1>15 DEF DirInv

(* The entry that is removed, and its block when nothing else is in it.    *)
LEMMA EntryFound ==
    ASSUME DirInv, NEW n \in DirNames, n \in search_dir_entry(0)
    PROVE  LET found == {j \in Places : Collected[j] # 0 /\ Holds(Collected[j], n) # {}}
               k == Smallest(found)
           IN  /\ k \in OfDir
               /\ \E c \in Cells : /\ <<k, c>> \in Listed /\ Shown(<<k, c>>) = n
                                   /\ disk[Collected[k]][c] = n
<1> DEFINE found == {j \in Places : Collected[j] # 0 /\ Holds(Collected[j], n) # {}}
           k == Smallest(found)
<1>1. PICK x \in Listed : Shown(x) = n
  BY ListedIs
<1>2. PICK j \in OfDir, i \in Cells : x = <<j, i>> /\ Shown(x) = disk[Collected[j]][i]
  <2>1. x \in Places \X Cells /\ x[1] \in OfDir /\ Shown(x) = disk[Collected[x[1]]][x[2]]
    BY ListedIs DEF Shown
  <2> QED BY <2>1
<1>3. j \in found
  BY <1>1, <1>2 DEF OfDir, Holds
<1>4. found \in SUBSET Nat
  BY Numbers
<1> HIDE DEF found
<1>5. k \in found
  BY <1>3, <1>4, LeastPlace
<1>6. k \in OfDir /\ k \in Places /\ Holds(Collected[k], n) # {}
  BY <1>5 DEF found, OfDir
<1> HIDE DEF k
<1>7. PICK c \in Cells : disk[Collected[k]][c] = n
  BY <1>6 DEF Holds
<1>8. n # Unused
  BY DEF Unused
<1>9. Shown(<<k, c>>) = n
  BY <1>7 DEF Shown
<1>10. <<k, c>> \in Listed
  BY <1>6, <1>8, <1>9, ListedIs
<1> QED BY <1>6, <1>7, <1>9, <1>10 DEF k, found

LEMMA RemovesStep ==
    ASSUME DirInv, NEW n \in DirNames, delete_dir_entry(n), ~spoiled'
    PROVE  DirInv'
<1>1. PICK k, b : /\ k = Smallest({j \in Places : Collected[j] # 0 /\ Holds(Collected[j], n) # {}})
                  /\ b = Collected[k]
  OBVIOUS
<1>2. /\ n \in search_dir_entry(0) /\ k < Direct
      /\ entered' = entered \ {n} /\ foreign' = foreign
      /\ \/ /\ Reclaims(b, n) /\ ~HasTable
            /\ used' = used \ {b} /\ diskBitmap' = bitmap_sync(diskBitmap, used', {b})
            /\ inode' = [inode EXCEPT !.i_size = @ - 1, !.i_block[k] = 0]
            /\ disk' = disk
         \/ /\ disk' = [disk EXCEPT ![b] = [c \in Cells |-> IF @[c] = n THEN Unused ELSE @[c]]]
            /\ inode' = [inode EXCEPT !.i_size = @ - 1]
            /\ used' = used /\ diskBitmap' = diskBitmap
  BY <1>1 DEF delete_dir_entry
<1>3. BlockTypes /\ DirMap /\ DirCells /\ OthersUntouched /\ diskBitmap = used
  BY DEF DirInv
<1>4. k \in OfDir /\ \E c \in Cells : /\ <<k, c>> \in Listed /\ Shown(<<k, c>>) = n
                                      /\ disk[b][c] = n
  BY <1>1, <1>2, EntryFound
<1>5. PICK c, xx : c \in Cells /\ xx = <<k, c>> /\ xx \in Listed /\ Shown(xx) = n /\ disk[b][c] = n
  BY <1>4
<1>6. /\ b \in used \ foreign /\ b \in Blocks /\ k \in Places /\ k \in 0 .. Direct - 1
      /\ \A j \in OfDir : Collected[j] \in Blocks /\ (Collected[j] = b <=> j = k)
      /\ inode.i_block[k] = b
  <2>1. k \in Places /\ k \in 0 .. Direct - 1
    BY <1>2, <1>4, Numbers DEF OfDir
  <2>2. b \in used \ foreign /\ \A j \in OfDir : Collected[j] \in Blocks /\ (Collected[j] = b <=> j = k)
    BY <1>1, <1>3, <1>4 DEF DirMap, BlockTypes
  <2> QED BY <1>1, <1>3, <2>1, <2>2 DEF DirMap, BlockTypes
<1>7. Listed = {x \in Places \X Cells : x[1] \in OfDir /\ Shown(x) # Unused}
      /\ Listed' = {x \in Places \X Cells : x[1] \in OfDir' /\ Shown(x)' # Unused}
  BY ListedIs
<1>8. CASE disk' = [disk EXCEPT ![b] = [i \in Cells |-> IF @[i] = n THEN Unused ELSE @[i]]]
           /\ inode' = [inode EXCEPT !.i_size = @ - 1] /\ used' = used /\ diskBitmap' = diskBitmap
  <2>1. /\ disk' \in [Blocks -> [Cells -> Int]]
        /\ \A x \in Blocks : x # b => disk'[x] = disk[x]
        /\ \A i \in Cells : disk'[b][i] = IF disk[b][i] = n THEN Unused ELSE disk[b][i]
    <3>1. disk \in [Blocks -> [Cells -> Int]] /\ disk[b] \in [Cells -> Int] /\ Unused \in Int
      BY <1>3, <1>6 DEF BlockTypes, Unused
    <3> QED BY <1>6, <1>8, <3>1
  <2>2. inode'.i_block = inode.i_block /\ inode'.i_size = inode.i_size - 1
        /\ (inode'.i_size \in Nat => inode' \in [i_size : Nat, i_block : [0 .. Direct -> Addresses]])
    <3>1. PICK s \in Nat, ib \in [0 .. Direct -> Addresses] : inode = [i_size |-> s, i_block |-> ib]
      BY <1>3 DEF BlockTypes
    <3>2. inode' = [i_size |-> s - 1, i_block |-> ib]
      BY <1>8, <3>1
    <3> QED BY <3>1, <3>2
  <2>3. Collected' = Collected /\ OfDir' = OfDir /\ (HasTable' <=> HasTable)
    <3>1. HasTable => disk'[inode.i_block[Direct]] = disk[inode.i_block[Direct]]
      BY <1>1, <1>3, <1>4, <2>1 DEF DirMap, BlockTypes
    <3> QED BY <2>2, <3>1, CollectedKept
  <2>4. \A x \in Places \X Cells : x[1] \in OfDir =>
            Shown(x)' = IF x = xx THEN Unused ELSE Shown(x)
    <3> SUFFICES ASSUME NEW j \in OfDir, NEW i \in Cells, NEW x, x = <<j, i>>
                 PROVE  Shown(x)' = IF x = xx THEN Unused ELSE Shown(x)
      OBVIOUS
    <3>1. Shown(x)' = disk'[Collected[j]][i] /\ Shown(x) = disk[Collected[j]][i]
      BY <2>3 DEF Shown
    <3>2. CASE j = k /\ disk[b][i] = n
      <4>1. Shown(x) = n /\ x \in Places \X Cells /\ x[1] \in OfDir /\ n # Unused
        BY <1>1, <1>6, <3>1, <3>2 DEF Unused
      <4>2. x \in Listed
        BY <1>7, <4>1
      <4>3. x = xx
        BY <1>3, <1>5, <4>1, <4>2 DEF DirCells
      <4> QED BY <1>1, <2>1, <3>1, <3>2, <4>3
    <3>3. CASE ~(j = k /\ disk[b][i] = n)
      <4>1. x # xx
        BY <1>5, <3>3
      <4>2. Collected[j] \in Blocks /\ (Collected[j] = b <=> j = k)
        BY <1>6
      <4> QED BY <1>1, <2>1, <3>1, <3>3, <4>1, <4>2
    <3> QED BY <3>2, <3>3
  <2>5. Listed' = Listed \ {xx} /\ \A x \in Listed' : Shown(x)' = Shown(x)
    BY <1>5, <1>7, <2>3, <2>4
  <2>6. DirCells' /\ inode'.i_size \in Nat
    BY <1>2, <1>3, <1>5, <2>2, <2>5, CellsShrink
  <2>7. DirMap'
    BY <1>2, <1>3, <1>8, <2>2, <2>3 DEF DirMap
  <2>8. BlockTypes' /\ OthersUntouched' /\ diskBitmap' = used'
    <3>1. BlockTypes' /\ diskBitmap' = used'
      BY <1>2, <1>3, <1>8, <2>1, <2>2, <2>6 DEF BlockTypes
    <3>2. \A x \in foreign : x \in Blocks /\ x # b
      BY <1>3, <1>6 DEF BlockTypes
    <3> QED BY <1>2, <1>3, <1>8, <2>1, <3>1, <3>2 DEF OthersUntouched
  <2> QED BY <2>6, <2>7, <2>8 DEF DirInv
<1>9. CASE /\ Reclaims(b, n) /\ ~HasTable
           /\ used' = used \ {b} /\ diskBitmap' = bitmap_sync(diskBitmap, used', {b})
           /\ inode' = [inode EXCEPT !.i_size = @ - 1, !.i_block[k] = 0]
           /\ disk' = disk
  <2>1. /\ inode'.i_size = inode.i_size - 1
        /\ inode'.i_size \in Nat => inode' \in [i_size : Nat, i_block : [0 .. Direct -> Addresses]]
        /\ \A j \in 0 .. Direct : inode'.i_block[j] = IF j = k THEN 0 ELSE inode.i_block[j]
    <3>1. PICK s \in Nat, ib \in [0 .. Direct -> Addresses] : inode = [i_size |-> s, i_block |-> ib]
      BY <1>3 DEF BlockTypes
    <3>2. inode' = [i_size |-> s - 1, i_block |-> [ib EXCEPT ![k] = 0]]
      BY <1>9, <3>1
    <3>3. [ib EXCEPT ![k] = 0] \in [0 .. Direct -> Addresses]
      BY Numbers
    <3> QED BY <3>1, <3>2, <3>3
  <2>2. inode.i_block[Direct] = 0 /\ inode'.i_block[Direct] = 0 /\ ~HasTable'
    BY <1>2, <1>9, <2>1, Numbers DEF HasTable
  <2>3. \A j \in Places : /\ Collected[j] = IF j < Direct THEN inode.i_block[j] ELSE 0
                          /\ Collected'[j] = IF j < Direct THEN inode'.i_block[j] ELSE 0
    <3>1. \A j \in Places : Collected'[j] = IF j < Direct THEN inode'.i_block[j] ELSE 0
      BY <2>2 DEF Collected, DirectBlocks
    <3> QED BY <1>9, <3>1, CollectedDirect
  <2>4. \A j \in Places : Collected'[j] = IF j = k THEN 0 ELSE Collected[j]
    <3>1. \A j \in Places : j < Direct => j \in 0 .. Direct
      BY Numbers
    <3> QED BY <1>2, <2>1, <2>3, <3>1
  <2>5. OfDir' = OfDir \ {k}
    BY <2>4 DEF OfDir
  <2>6. k # 0
    <3>1. <<0, 0>> \in Listed /\ Shown(<<0, 0>>) = Dot
      BY <1>3 DEF DirCells
    <3>2. Collected[0] = b => disk[b][0] = Dot
      BY <3>1 DEF Shown
    <3> QED BY <1>1, <1>9, <3>2, Numbers DEF Reclaims
  <2>7. ASSUME NEW x \in Listed, x[1] = k PROVE x = xx
    <3>1. PICK i \in Cells : x = <<k, i>> /\ Shown(x) = disk[b][i]
      <4>1. x \in Places \X Cells /\ Shown(x) = disk[Collected[x[1]]][x[2]]
        BY <1>7 DEF Shown
      <4>2. PICK i \in Cells : x = <<k, i>> /\ x[2] = i
        BY <2>7, <4>1
      <4>3. Shown(x) = disk[b][i]
        BY <1>1, <2>7, <4>1, <4>2
      <4> QED BY <4>2, <4>3
    <3>2. Shown(x) # Dot /\ (Shown(x) \in DirNames => Shown(x) = n)
      BY <1>9, <3>1 DEF Reclaims
    <3>3. Shown(x) = DotDot => x = <<0, 1>>
      BY <1>3 DEF DirCells
    <3>4. Shown(x) = n
      BY <1>3, <2>6, <3>1, <3>2, <3>3 DEF DirCells
    <3> QED BY <1>3, <1>5, <3>4 DEF DirCells
  <2>8. \A x \in Places \X Cells : x[1] \in OfDir' => Shown(x)' = Shown(x)
    <3> SUFFICES ASSUME NEW j \in OfDir', NEW i \in Cells, NEW x, x = <<j, i>>
                 PROVE  Shown(x)' = Shown(x)
      OBVIOUS
    <3>1. Collected'[j] = Collected[j]
      BY <2>4, <2>5 DEF OfDir
    <3> QED BY <1>9, <3>1 DEF Shown
  <2>9. Listed' = Listed \ {xx} /\ \A x \in Listed' : Shown(x)' = Shown(x)
    <3>1. \A x \in Listed' : x \in Listed /\ x[1] # k /\ Shown(x)' = Shown(x)
      BY <1>7, <2>5, <2>8
    <3>2. \A x \in Listed : x = xx \/ x \in Listed'
      BY <1>7, <2>5, <2>7, <2>8
    <3>3. xx[1] = k
      BY <1>5
    <3> QED BY <3>1, <3>2, <3>3
  <2>10. DirCells' /\ inode'.i_size \in Nat
    BY <1>2, <1>3, <1>5, <2>1, <2>9, CellsShrink
  <2>11. diskBitmap' = used' /\ used' \subseteq Blocks
    <3>1. diskBitmap \in SUBSET Blocks /\ used' \in SUBSET Blocks
      BY <1>3, <1>9 DEF BlockTypes
    <3> QED BY <1>3, <1>9, <3>1, SyncExact
  <2>12. BlockTypes' /\ OthersUntouched'
    BY <1>2, <1>3, <1>6, <1>9, <2>1, <2>10, <2>11 DEF BlockTypes, OthersUntouched
  <2>13. DirMap'
    <3>1. \A j \in OfDir' : Collected'[j] = Collected[j] /\ j \in OfDir /\ Collected[j] # b
      BY <1>6, <2>4, <2>5 DEF OfDir
    <3>2. \A j \in OfDir' : Collected'[j] \in used' \ foreign' /\ j <= Direct
      BY <1>2, <1>3, <1>9, <3>1 DEF DirMap
    <3>3. \A j \in 0 .. Direct - 1 : Collected'[j] = inode'.i_block[j]
      <4>1. \A j \in 0 .. Direct - 1 : j \in Places /\ j < Direct
        BY Numbers
      <4> QED BY <2>3, <4>1
    <3>4. \A i, j \in OfDir' : Collected'[i] = Collected'[j] => i = j
      BY <1>3, <3>1 DEF DirMap
    <3>5. used' = foreign' \cup {Collected'[j] : j \in OfDir'}
      <4>1. used = foreign \cup {Collected[j] : j \in OfDir}
        BY <1>3, <2>2 DEF DirMap
      <4>2. {Collected'[j] : j \in OfDir'} = {Collected[j] : j \in OfDir} \ {b}
        BY <1>6, <2>5, <3>1
      <4> QED BY <1>2, <1>6, <1>9, <4>1, <4>2
    <3>6. 0 \in OfDir' /\ Direct \notin OfDir'
      BY <1>3, <1>9, <2>5, <2>6 DEF DirMap
    <3> QED BY <2>2, <3>2, <3>3, <3>4, <3>5, <3>6 DEF DirMap
  <2> QED BY <2>10, <2>11, <2>12, <2>13 DEF DirInv
<1> QED BY <1>2, <1>8, <1>9

LEMMA DirInitInv == DirFits /\ DirInit => DirInv
<1> SUFFICES ASSUME DirFits, DirInit PROVE DirInv
  OBVIOUS
<1>1. /\ foreign \subseteq Blocks \ {1} /\ used = foreign \cup {1} /\ diskBitmap = used
      /\ disk = [b \in Blocks |-> IF b \in foreign THEN ForeignBlock
                                 ELSE IF b \in {1} THEN DotBlock ELSE ZeroBlock]
      /\ inode = [i_size |-> 2, i_block |-> [inode_init.i_block EXCEPT ![0] = 1]]
      /\ entered = {}
  BY DEF DirInit, BlockMapInit, Blocks
<1>2. 1 \in Blocks /\ 1 \in Cells /\ 0 \in 0 .. Direct - 1 /\ Direct # 0
  BY Numbers DEF Blocks, DirFits
<1>3. inode.i_size = 2 /\ inode.i_block = [k \in 0 .. Direct |-> IF k = 0 THEN 1 ELSE 0]
      /\ inode \in [i_size : Nat, i_block : [0 .. Direct -> Addresses]]
  <2>1. [inode_init.i_block EXCEPT ![0] = 1] = [k \in 0 .. Direct |-> IF k = 0 THEN 1 ELSE 0]
    BY DEF inode_init
  <2>2. [k \in 0 .. Direct |-> IF k = 0 THEN 1 ELSE 0] \in [0 .. Direct -> Addresses]
    BY <1>2, Numbers
  <2> QED BY <1>1, <2>1, <2>2
<1>4. disk \in [Blocks -> [Cells -> Int]] /\ disk[1] = DotBlock
      /\ \A b \in foreign : disk[b] = ForeignBlock
  <2>1. ForeignBlock \in [Cells -> Int] /\ DotBlock \in [Cells -> Int] /\ ZeroBlock \in [Cells -> Int]
    BY DEF ForeignBlock, DotBlock, ZeroBlock, Dot, DotDot, Unused
  <2> QED BY <1>1, <1>2, <2>1
<1>5. BlockTypes /\ OthersUntouched
  BY <1>1, <1>2, <1>3, <1>4 DEF BlockTypes, OthersUntouched
<1>6. ~HasTable /\ inode.i_block[Direct] = 0
  BY <1>2, <1>3, Numbers DEF HasTable
<1>7. \A k \in Places : Collected[k] = IF k = 0 THEN 1 ELSE 0
  <2>1. \A k \in Places : k < Direct => k \in 0 .. Direct
    BY Numbers
  <2>2. \A k \in 0 .. Direct : inode.i_block[k] = IF k = 0 THEN 1 ELSE 0
    BY <1>3
  <2>3. \A k \in Places : Collected[k] = IF k < Direct THEN inode.i_block[k] ELSE 0
    BY <1>6, CollectedDirect
  <2>4. 0 < Direct
    BY Numbers
  <2> TAKE k \in Places
  <2>5. CASE k < Direct
    BY <2>1, <2>2, <2>3, <2>5
  <2>6. CASE ~(k < Direct)
    BY <2>3, <2>4, <2>6
  <2> QED BY <2>5, <2>6
<1>8. OfDir = {0} /\ 0 \in Places
  BY <1>7, Numbers DEF OfDir
<1>9. DirMap
  <2>1. \A k \in 0 .. Direct - 1 : Collected[k] = inode.i_block[k]
    <3>1. \A k \in 0 .. Direct - 1 : k \in Places /\ k \in 0 .. Direct
      BY Numbers
    <3> QED BY <1>3, <1>7, <3>1
  <2> QED BY <1>1, <1>2, <1>6, <1>7, <1>8, <2>1, Numbers DEF DirMap
<1>10. \A c \in Cells : Shown(<<0, c>>) = IF c = 0 THEN Dot ELSE IF c = 1 THEN DotDot ELSE Unused
  BY <1>4, <1>7, <1>8 DEF Shown, DotBlock
<1>11. Dot # Unused /\ DotDot # Unused /\ Dot # DotDot /\ Dot \notin DirNames /\ DotDot \notin DirNames
  BY DEF Dot, DotDot, Unused
<1>12. Listed = {<<0, 0>>, <<0, 1>>}
  <2>1. Listed = {x \in Places \X Cells : x[1] \in OfDir /\ Shown(x) # Unused}
    BY ListedIs
  <2>2. \A x \in Places \X Cells : x[1] \in OfDir => \E c \in Cells : x = <<0, c>>
    BY <1>8
  <2>3. \A c \in Cells : <<0, c>> \in Places \X Cells /\ <<0, c>>[1] \in OfDir
    BY <1>8
  <2>4. \A c \in Cells : <<0, c>> \in Listed <=> c = 0 \/ c = 1
    BY <1>10, <1>11, <2>1, <2>3
  <2>5. \A x \in Listed : \E c \in Cells : x = <<0, c>>
    BY <2>1, <2>2
  <2> QED BY <1>2, <2>4, <2>5, Numbers
<1>13. DirCells
  <2>1. Shown(<<0, 0>>) = Dot /\ Shown(<<0, 1>>) = DotDot
    BY <1>2, <1>10, Numbers
  <2>2. entered = {Shown(x) : x \in Listed} \cap DirNames
    BY <1>1, <1>11, <1>12, <2>1
  <2>3. IsFiniteSet(entered) /\ inode.i_size = Cardinality(entered) + 2
    BY <1>1, <1>3, FS_EmptySet
  <2> QED BY <1>11, <1>12, <2>1, <2>2, <2>3 DEF DirCells
<1> QED BY <1>1, <1>5, <1>9, <1>13 DEF DirInv

(* What is beyond a directory that outgrew its table is not described.     *)
LEMMA DirStep == DirFits /\ (~spoiled => DirInv) /\ DirNext => (~spoiled' => DirInv')
<1> SUFFICES ASSUME DirFits, ~spoiled => DirInv, DirNext, ~spoiled' PROVE DirInv'
  OBVIOUS
<1>1. ASSUME NEW n \in DirNames, sync_dir_entry(n) PROVE DirInv'
  <2>1. n \notin search_dir_entry(0) /\ entered' = entered \cup {n} /\ foreign' = foreign
    <3>1. /\ \E rest \in Addresses : n \notin search_dir_entry(rest)
          /\ entered' = entered \cup {n} /\ foreign' = foreign
      BY <1>1 DEF sync_dir_entry
    <3> QED BY <3>1, SearchedMore
  <2>2. EntersBlock(n) \/ EntersDirect(n) \/ EntersIndirect(n)
    BY <1>1 DEF sync_dir_entry
  <2>3. ~spoiled
    BY <2>2 DEF EntersBlock, EntersDirect, EntersIndirect
  <2> QED BY <2>1, <2>2, <2>3, EntersBlockStep, EntersDirectStep, EntersIndirectStep
<1>2. ASSUME NEW n \in DirNames, delete_dir_entry(n) PROVE DirInv'
  <2>1. ~spoiled
    BY <1>2 DEF delete_dir_entry
  <2> QED BY <1>2, <2>1, RemovesStep
<1> QED BY <1>1, <1>2 DEF DirNext

LEMMA DirInvExact == DirInv => DirectoryExact /\ DirBlocksExact
<1> SUFFICES ASSUME DirInv PROVE DirectoryExact /\ DirBlocksExact
  OBVIOUS
<1>1. DirMap /\ DirCells /\ diskBitmap = used
  BY DEF DirInv
<1>2. IsFiniteSet(Places) /\ IsFiniteSet(Cells)
  <2>1. 0 \in Int /\ MaxBlocks - 1 \in Int /\ PerBlock - 1 \in Int
    BY Numbers
  <2> QED BY <2>1, FS_Interval DEF Places, Cells
<1>3. IsFiniteSet(Listed) /\ IsFiniteSet(OfDir)
  <2>1. IsFiniteSet(Places \X Cells)
    BY <1>2, FS_Product
  <2>2. Listed \subseteq Places \X Cells /\ OfDir \subseteq Places
    BY ListedIs DEF OfDir
  <2> QED BY <1>2, <2>1, <2>2, FS_Subset
<1>4. Cardinality(Listed) = Cardinality(entered) + 2
  <2> DEFINE f == [x \in Listed |-> Shown(x)]
             S == {f[x] : x \in Listed}
  <2>1. \A x \in Listed : f[x] = Shown(x)
    OBVIOUS
  <2>2. f = [x \in Listed |-> f[x]]
    OBVIOUS
  <2>3. S = entered \cup {Dot} \cup {DotDot}
    BY <1>1, <2>1 DEF DirCells
  <2> HIDE DEF f
  <2>4. \A x, y \in Listed : f[x] = f[y] => x = y
    BY <1>1, <2>1 DEF DirCells
  <2>5. Cardinality(S) = Cardinality(Listed)
    BY <1>3, <2>2, <2>4, SameCount
  <2>6. Dot \notin entered /\ DotDot \notin entered \cup {Dot} /\ IsFiniteSet(entered)
    BY <1>1 DEF DirCells, Dot, DotDot
  <2>7. IsFiniteSet(entered \cup {Dot}) /\ Cardinality(entered \cup {Dot}) = Cardinality(entered) + 1
    BY <2>6, FS_AddElement
  <2>8. Cardinality((entered \cup {Dot}) \cup {DotDot}) = Cardinality(entered \cup {Dot}) + 1
    BY <2>6, <2>7, FS_AddElement
  <2>9. Cardinality(entered) \in Nat
    BY <2>6, FS_CardinalityType
  <2>10. Cardinality(Listed) = Cardinality((entered \cup {Dot}) \cup {DotDot})
    BY <2>3, <2>5
  <2> QED BY <2>7, <2>8, <2>9, <2>10
<1>5. DirectoryExact
  <2>1. search_dir_entry(0) = entered /\ inode.i_size = Cardinality(entered) + 2
    BY <1>1, ListedIs DEF DirCells
  <2> QED BY <1>4, <2>1, SearchedMore DEF DirectoryExact
<1>6. DirBlocksExact
  <2> DEFINE f == [k \in OfDir |-> Collected[k]]
             S == {f[k] : k \in OfDir}
             tb == inode.i_block[Direct]
             held == S \cup ({tb} \ {0})
  <2>1. \A k \in OfDir : f[k] = Collected[k]
    OBVIOUS
  <2>2. f = [k \in OfDir |-> f[k]] /\ S = {Collected[k] : k \in OfDir}
    OBVIOUS
  <2>3. used = foreign \cup held
    BY <1>1, <2>2 DEF DirMap
  <2> HIDE DEF f
  <2>4. \A j, k \in OfDir : f[j] = f[k] => j = k
    BY <1>1, <2>1 DEF DirMap
  <2>5. Cardinality(S) = Cardinality(OfDir)
    BY <1>3, <2>2, <2>4, SameCount
  <2>6. IsFiniteSet(S)
    <3>1. S \subseteq Blocks
      BY <1>1, <2>1 DEF DirMap, DirInv, BlockTypes
    <3>2. IsFiniteSet(Blocks)
      BY FS_Interval DEF Blocks
    <3> QED BY <3>1, <3>2, FS_Subset
  <2>7. Cardinality(held) = Cardinality(OfDir) + IF HasTable THEN 1 ELSE 0
    <3>1. CASE HasTable
      <4>1. tb \notin S /\ held = S \cup {tb}
        BY <1>1, <2>1, <3>1 DEF DirMap, HasTable
      <4>2. Cardinality(S \cup {tb}) = Cardinality(S) + 1
        BY <2>6, <4>1, FS_AddElement
      <4> QED BY <2>5, <3>1, <4>1, <4>2
    <3>2. CASE ~HasTable
      <4>1. held = S
        BY <3>2 DEF HasTable
      <4>2. Cardinality(OfDir) \in Nat
        BY <1>3, FS_CardinalityType
      <4>3. Cardinality(held) = Cardinality(OfDir)
        BY <2>5, <4>1
      <4> HIDE DEF held
      <4> QED BY <3>2, <4>2, <4>3
    <3> QED BY <3>1, <3>2
  <2> HIDE DEF held
  <2>8. LET K == {k \in Places : Collected[k] # 0}
            h == {Collected[k] : k \in K} \cup ({inode.i_block[Direct]} \ {0})
        IN  K = OfDir /\ h = held
    BY <2>2 DEF OfDir, held
  <2> QED BY <1>1, <2>3, <2>7, <2>8 DEF DirBlocksExact
<1> QED BY <1>5, <1>6

-----------------------------------------------------------------------------
(* A file or a directory.                                                  *)

FileStays == kind \in {"file", "dir"} /\ (kind = "file" => FileInv)
DirStays == kind \in {"file", "dir"} /\ (kind = "dir" /\ Intact => DirInv)
mcVars == <<blockVars, fileVars, dirVars, kind>>

LEMMA Unchanged ==
    ASSUME UNCHANGED mcVars
    PROVE  /\ FileInv => FileInv'
           /\ DirInv => DirInv'
           /\ UNCHANGED <<inode, used, disk, foreign, spoiled, kind, fd_pos, round, answer>>
<1>1. /\ UNCHANGED <<inode, used, diskBitmap, disk, foreign, slot, fd_pos, round, gaveUp, answer>>
      /\ UNCHANGED <<entered, spoiled, kind>>
  BY DEF mcVars, blockVars, fileVars, dirVars
<1>2. FileInv => FileInv'
  <2>1. BlocksInv => BlocksInv'
    BY <1>1, BlocksKept DEF blockVars
  <2> QED BY <1>1, <2>1 DEF FileInv, FileTypes, BlocksInv
<1>3. DirInv => DirInv'
  <2>1. Collected' = Collected /\ OfDir' = OfDir /\ (HasTable' <=> HasTable)
    BY <1>1, CollectedKept
  <2>2. DirMap => DirMap'
    BY <1>1, <2>1 DEF DirMap
  <2>3. Listed' = Listed /\ \A x : Shown(x)' = Shown(x)
    BY <1>1, <2>1 DEF Listed, Shown
  <2>4. DirCells => DirCells'
    BY <1>1, <2>3 DEF DirCells
  <2>5. BlockTypes /\ OthersUntouched => BlockTypes' /\ OthersUntouched'
    BY <1>1 DEF BlockTypes, OthersUntouched
  <2> QED BY <1>1, <2>2, <2>4, <2>5 DEF DirInv
<1> QED BY <1>1, <1>2, <1>3

LEMMA SpecFile == ~TableCalls => (MCSpec => []FileStays)
<1> SUFFICES ASSUME ~TableCalls PROVE MCSpec => []FileStays
  OBVIOUS
<1>1. MCInit => FileStays
  BY FileInitInv DEF MCInit, FileStays
<1>2. FileStays /\ [MCNext]_mcVars => FileStays'
  <2> SUFFICES ASSUME FileStays, [MCNext]_mcVars PROVE FileStays'
    OBVIOUS
  <2>1. CASE kind = "file" /\ FileNext /\ UNCHANGED <<dirVars, kind>>
    <3>1. FileInv'
      BY <2>1, FileStep DEF FileStays
    <3> QED BY <2>1, <3>1 DEF FileStays
  <2>2. CASE kind = "dir" /\ DirNext /\ UNCHANGED <<fileVars, kind>>
    BY <2>2 DEF FileStays
  <2>3. CASE UNCHANGED mcVars
    BY <2>3, Unchanged DEF FileStays
  <2> QED BY <2>1, <2>2, <2>3 DEF MCNext
<1> QED BY <1>1, <1>2, PTL DEF MCSpec, mcVars

LEMMA SpecDir == DirFits => (MCSpec => []DirStays)
<1> SUFFICES ASSUME DirFits PROVE MCSpec => []DirStays
  OBVIOUS
<1>1. MCInit => DirStays
  BY DirInitInv DEF MCInit, DirStays
<1>2. DirStays /\ [MCNext]_mcVars => DirStays'
  <2> SUFFICES ASSUME DirStays, [MCNext]_mcVars PROVE DirStays'
    OBVIOUS
  <2>1. CASE kind = "file" /\ FileNext /\ UNCHANGED <<dirVars, kind>>
    BY <2>1 DEF DirStays
  <2>2. CASE kind = "dir" /\ DirNext /\ UNCHANGED <<fileVars, kind>>
    <3>1. ~spoiled' => DirInv'
      BY <2>2, DirStep DEF DirStays, Intact
    <3> QED BY <2>2, <3>1 DEF DirStays, Intact
  <2>3. CASE UNCHANGED mcVars
    BY <2>3, Unchanged DEF DirStays, Intact
  <2> QED BY <2>1, <2>2, <2>3 DEF MCNext
<1> QED BY <1>1, <1>2, PTL DEF MCSpec, mcVars

(* The blocks that the invariant speaks of are those of Held.              *)
LEMMA InvBlocksExact == FileInv => FileBlocksExact
<1> SUFFICES ASSUME FileInv PROVE FileBlocksExact
  OBVIOUS
<1>1. BlockTypes /\ Mapped /\ EachOnce /\ NoneLost
  BY DEF FileInv, FileTypes
<1>2. CASE FirstWrite
  <2>1. Held = <<>> /\ DOMAIN Held = {}
    BY <1>2 DEF Held
  <2>2. {Held[k] : k \in DOMAIN Held} = {} /\ BlocksHeld = {}
    BY <1>2, <2>1 DEF BlocksHeld
  <2> QED BY <1>1, <2>1, <2>2 DEF FileBlocksExact, NoneLost
<1>3. CASE ~FirstWrite
  <2> DEFINE H == HasUsed
             T == IF HasTable THEN 1 ELSE 0
             tb == inode.i_block[Direct]
             s == [k \in 1 .. H |-> BlockOf(k - 1)]
             t == IF HasTable THEN <<tb>> ELSE <<>>
  <2>1. H \in Nat /\ T \in {0, 1} /\ (T = 1 <=> HasTable)
    <3>1. inode.i_size \div PerBlock \in Nat
      BY <1>1, Divided DEF BlockTypes
    <3> QED BY <3>1 DEF HasUsed, BlockSize
  <2>2. /\ \A k \in Indexes : BlockOf(k) \in used \ foreign /\ BlockOf(k) # tb
        /\ \A j, k \in Indexes : BlockOf(j) = BlockOf(k) => j = k
        /\ HasTable => tb \in used \ foreign
        /\ HasTable <=> tb # 0
        /\ BlocksHeld = {BlockOf(k) : k \in Indexes} \cup ({tb} \ {0})
    BY <1>1, <1>3 DEF Mapped, EachOnce, BlocksHeld, HasTable
  <2>3. Held = s \o t
    BY <1>3 DEF Held
  <2>4. Indexes = 0 .. H - 1 /\ \A k \in 1 .. H : k - 1 \in Indexes
    BY <2>1 DEF Indexes
  <2> HIDE DEF H, tb, T
  <2>5. s \in Seq(used) /\ Len(s) = H /\ \A k \in 1 .. H : s[k] = BlockOf(k - 1)
    BY <2>1, <2>2, <2>4
  <2>6. t \in Seq(used) /\ Len(t) = T /\ (HasTable => t[1] = tb)
    BY <2>1, <2>2
  <2> HIDE DEF s, t
  <2>7. DOMAIN Held = 1 .. H + T
        /\ \A k \in 1 .. H + T : Held[k] = IF k <= H THEN s[k] ELSE t[k - H]
    BY <2>1, <2>3, <2>5, <2>6
  <2>8. \A k \in DOMAIN Held : \/ k \in 1 .. H /\ k - 1 \in Indexes /\ Held[k] = BlockOf(k - 1)
                               \/ HasTable /\ k = H + 1 /\ Held[k] = tb
    <3> TAKE k \in DOMAIN Held
    <3>1. k \in 1 .. H + T
      BY <2>7
    <3>2. CASE k <= H
      BY <2>1, <2>4, <2>5, <2>7, <3>1, <3>2
    <3>3. CASE ~(k <= H)
      <4>1. T = 1 /\ k = H + 1 /\ k - H = 1
        BY <2>1, <3>1, <3>3
      <4> QED BY <2>1, <2>6, <2>7, <3>1, <3>3, <4>1
    <3> QED BY <3>2, <3>3
  <2>9. \A j, k \in DOMAIN Held : Held[j] = Held[k] => j = k
    <3> SUFFICES ASSUME NEW j \in DOMAIN Held, NEW k \in DOMAIN Held, Held[j] = Held[k] PROVE j = k
      OBVIOUS
    <3>1. CASE j \in 1 .. H /\ k \in 1 .. H /\ j - 1 \in Indexes /\ k - 1 \in Indexes
               /\ BlockOf(j - 1) = BlockOf(k - 1)
      <4>1. j - 1 = k - 1
        BY <2>2, <3>1
      <4> QED BY <2>1, <3>1, <4>1
    <3> QED BY <2>2, <2>8, <3>1
  <2>10. \A k \in DOMAIN Held : Held[k] \in used \ foreign
    BY <2>2, <2>8
  <2>11. {Held[k] : k \in DOMAIN Held} = BlocksHeld
    <3>1. \A k \in DOMAIN Held : Held[k] \in BlocksHeld
      BY <2>2, <2>8
    <3>2. ASSUME NEW i \in Indexes PROVE \E k \in DOMAIN Held : Held[k] = BlockOf(i)
      <4>1. i + 1 \in 1 .. H /\ i + 1 \in 1 .. H + T /\ (i + 1) - 1 = i
        BY <2>1, <2>4
      <4>2. Held[i + 1] = BlockOf((i + 1) - 1)
        BY <2>1, <2>5, <2>7, <4>1
      <4> QED BY <2>7, <4>1, <4>2
    <3>3. HasTable => \E k \in DOMAIN Held : Held[k] = tb
      <4> SUFFICES ASSUME HasTable PROVE \E k \in DOMAIN Held : Held[k] = tb
        OBVIOUS
      <4>1. H + 1 \in 1 .. H + T /\ ~(H + 1 <= H) /\ (H + 1) - H = 1
        BY <2>1
      <4>2. Held[H + 1] = tb
        BY <2>6, <2>7, <4>1
      <4> QED BY <2>7, <4>1, <4>2
    <3> QED BY <2>2, <3>1, <3>2, <3>3
  <2> QED BY <1>1, <2>9, <2>10, <2>11 DEF FileBlocksExact, NoneLost
<1> QED BY <1>2, <1>3

(* file.cpp:390-564, inode.cpp:189: whatever is written, given up, removed *)
(* and written again, a file has the blocks that its size calls for, each  *)
(* once, marked and its own; none is lost but in a first write that fails. *)
THEOREM BlocksExact == ~TableCalls => (MCSpec => []FileExact)
<1> SUFFICES ASSUME ~TableCalls PROVE MCSpec => []FileExact
  OBVIOUS
<1>1. FileStays => FileExact
  BY InvBlocksExact DEF FileStays, FileExact
<1> QED BY <1>1, SpecFile, PTL

(* file.cpp:435-562: of the bits that file_write sets only the table's may *)
(* be missing on the disk, and not once a block of its sector follows.     *)
THEOREM BitsWritten == ~TableCalls => (MCSpec => []BitmapWritten)
<1> SUFFICES ASSUME ~TableCalls PROVE MCSpec => []BitmapWritten
  OBVIOUS
<1>1. FileStays => BitmapWritten
  BY DEF FileStays, FileInv, BitmapWritten
<1> QED BY <1>1, SpecFile, PTL

(* dir.cpp:52-389: a directory finds, counts and lists what was entered    *)
(* and owns its blocks, with any number of direct blocks and, although the *)
(* table is read and written at the wrong place, with the first indirect   *)
(* one.                                                                    *)
THEOREM DirectoryFinds == DirFits => (MCSpec => []DirExact)
<1> SUFFICES ASSUME DirFits PROVE MCSpec => []DirExact
  OBVIOUS
<1>1. DirStays => DirExact
  BY DirInvExact DEF DirStays, Intact, DirExact, DirectoryExact, DirBlocksExact
<1> QED BY <1>1, SpecDir, PTL

(* Neither takes or writes a block that another file has; a directory as   *)
(* long as it has not outgrown its table.                                  *)
THEOREM OthersSafe == ~TableCalls /\ DirFits => (MCSpec => [](Intact => OthersUntouched))
<1> SUFFICES ASSUME ~TableCalls, DirFits PROVE MCSpec => [](Intact => OthersUntouched)
  OBVIOUS
<1>1. FileStays /\ DirStays => (Intact => OthersUntouched)
  BY DEF FileStays, DirStays, FileInv, DirInv
<1> QED BY <1>1, SpecFile, SpecDir, PTL
-----------------------------------------------------------------------------
(* The file of bytes: what each call does to Content.                      *)

ByteAt(p) == disk[BlockOf(p \div PerBlock)][p % PerBlock]

LEMMA ContentIs ==
    ASSUME BlockTypes, Mapped
    PROVE  /\ inode.i_size \in Nat
           /\ Content = [j \in 1 .. inode.i_size |-> ByteAt(j - 1)]
           /\ \A p \in 0 .. inode.i_size - 1 :
                 /\ ~FirstWrite /\ p \div PerBlock \in Indexes /\ p % PerBlock \in Cells
                 /\ BlockOf(p \div PerBlock) \in used \ foreign /\ ByteAt(p) \in Int
           /\ Content \in Seq(Int) /\ Len(Content) = inode.i_size
<1>1. inode.i_size \in Nat
  BY DEF BlockTypes
<1>2. Content = [j \in 1 .. inode.i_size |-> ByteAt(j - 1)]
  BY Zenon DEF Content, ByteAt, BlockSize
<1>3. ASSUME NEW p \in 0 .. inode.i_size - 1
      PROVE  /\ ~FirstWrite /\ p \div PerBlock \in Indexes /\ p % PerBlock \in Cells
             /\ BlockOf(p \div PerBlock) \in used \ foreign /\ ByteAt(p) \in Int
  <2>1. p \in Nat /\ p <= inode.i_size /\ inode.i_size > 0
    BY <1>1
  <2>2. ~FirstWrite
    <3>1. inode_init.i_size = 0
      BY DEF inode_init
    <3> QED BY <2>1, <3>1 DEF Mapped
  <2>3. p \div PerBlock \in Nat /\ p % PerBlock \in Cells /\ inode.i_size \div PerBlock \in Nat
    BY <1>1, <2>1, Divided
  <2>4. p \div PerBlock <= inode.i_size \div PerBlock
    BY <1>1, <2>1, DivGrows
  <2>5. p \div PerBlock \in Indexes
    BY <2>3, <2>4 DEF Indexes, HasUsed, BlockSize
  <2>6. BlockOf(p \div PerBlock) \in used \ foreign
    BY <2>2, <2>5 DEF Mapped
  <2>7. ByteAt(p) \in Int
    BY <2>3, <2>6 DEF BlockTypes, ByteAt
  <2> QED BY <2>2, <2>3, <2>5, <2>6, <2>7
<1>4. \A j \in 1 .. inode.i_size : j - 1 \in 0 .. inode.i_size - 1
  BY <1>1
<1>5. Content \in Seq(Int) /\ Len(Content) = inode.i_size
  <2>1. \A j \in 1 .. inode.i_size : ByteAt(j - 1) \in Int
    BY <1>3, <1>4
  <2> QED BY <1>1, <1>2, <2>1
<1> QED BY <1>1, <1>2, <1>3, <1>5

LEMMA Elements ==
    ASSUME NEW s \in Seq(Int), NEW n \in Nat, Len(s) = n
    PROVE  s = [j \in 1 .. n |-> s[j]]
OBVIOUS

LEMMA Joined ==
    ASSUME NEW s \in Seq(Int), NEW t \in Seq(Int)
    PROVE  /\ s \o t \in Seq(Int) /\ Len(s \o t) = Len(s) + Len(t)
           /\ \A j \in 1 .. Len(s) + Len(t) : (s \o t)[j] = IF j <= Len(s) THEN s[j] ELSE t[j - Len(s)]
OBVIOUS

(* A write leaves the bytes there are and adds its own.                    *)
LEMMA WriteExtends ==
    ASSUME FileInv, NEW d \in Fds, NEW count \in Counts, file_write(d, count)
    PROVE  Content' = Content \o [j \in 1 .. count |-> Byte(round, Len(Content) + j - 1)]
<1>1. PICK junk \in Addresses : Written(d, count, junk)
  BY WriteNamed
<1> DEFINE a == AllBlocks(count, junk)
           dk == NewDisk(count, junk)
           size == inode.i_size
<1>2. BlockTypes /\ Mapped /\ EachOnce /\ Writable(count) /\ round \in Int
      /\ (junk # 0 => MakesTable(count)) /\ disk' = dk
  BY <1>1 DEF FileInv, FileTypes, Written
<1>3. /\ inode'.i_size = size + count
      /\ \A k \in Reached(count) : BlockOf(k)' = a[k]
  BY <1>1, WriteLeads
<1>4. /\ \A k \in Reached(count) :
            dk[a[k]] = IF k \in Touched(count) THEN Filled(disk[a[k]], k, count) ELSE disk[a[k]]
      /\ \A k \in Reached(count) :
            \/ k \in Fed(count) /\ a[k] = Given(count)[k]
            \/ k \in Indexes /\ k \notin Added(count) /\ ~FirstWrite /\ a[k] = BlockOf(k)
  BY <1>2, DiskThen, Maps
<1>5. size \in Nat /\ count \in Nat /\ count >= 1
  BY <1>2, Sizes
<1>6. /\ Content = [j \in 1 .. size |-> ByteAt(j - 1)]
      /\ \A p \in 0 .. size - 1 : ~FirstWrite /\ p \div PerBlock \in Indexes
      /\ Content \in Seq(Int) /\ Len(Content) = size
  BY <1>2, ContentIs
<1>7. Content' = [j \in 1 .. size + count |-> disk'[BlockOf((j - 1) \div PerBlock)'][(j - 1) % PerBlock]]
  BY <1>3, Zenon DEF Content, BlockSize
<1> HIDE DEF a, dk, size
<1>8. ASSUME NEW p \in 0 .. size + count - 1
      PROVE  disk'[BlockOf(p \div PerBlock)'][p % PerBlock]
                = IF p < size THEN ByteAt(p) ELSE Byte(round, p)
  <2> DEFINE k == p \div PerBlock
             c == p % PerBlock
             h == size \div PerBlock
  <2>1. p \in Nat /\ p <= size + count - 1 /\ size + count - 1 \in Nat /\ size + count \in Nat
        /\ size + count - 1 <= size + count
    BY <1>5
  <2>2. /\ k \in Nat /\ c \in Cells /\ k * PerBlock + c = p /\ h \in Nat
        /\ (size + count - 1) \div PerBlock \in Nat /\ (size + count) \div PerBlock \in Nat
    BY <1>5, <2>1, Divided
  <2>3. /\ k <= (size + count - 1) \div PerBlock
        /\ (size + count - 1) \div PerBlock <= (size + count) \div PerBlock
    BY <2>1, DivGrows
  <2>4. (p < size => k <= h) /\ (~(p < size) => h <= k)
    <3>1. p < size => p <= size
      BY <1>5, <2>1
    <3>2. ~(p < size) => size <= p
      BY <1>5, <2>1
    <3> QED BY <1>5, <2>1, <3>1, <3>2, DivGrows
  <2>5. k \in Reached(count)
    BY <2>2, <2>3 DEF Reached, WillUse, BlockSize, size
  <2>6. k \in Touched(count) <=> h <= k
    BY <2>2, <2>3 DEF Touched, BlockSize, size
  <2>7. Filled(disk[a[k]], k, count)[c]
           = IF p \in size .. size + count - 1 THEN Byte(round, p)
             ELSE IF k = h THEN disk[a[k]][c] ELSE 0
    <3> HIDE DEF k, c, h
    <3>1. Filled(disk[a[k]], k, count)[c]
            = LET pos == k * PerBlock + c IN
              IF pos \in size .. size + count - 1 THEN Byte(round, pos)
              ELSE IF k = size \div PerBlock THEN disk[a[k]][c] ELSE 0
      BY <2>2 DEF Filled, BlockSize, size
    <3> QED BY <2>2, <3>1 DEF h
  <2>8. disk'[BlockOf(k)'][c] = dk[a[k]][c]
    BY <1>2, <1>3, <2>5
  <2>9. CASE ~(p < size)
    <3>1. p \in size .. size + count - 1
      BY <1>5, <2>1, <2>9
    <3>2. dk[a[k]] = Filled(disk[a[k]], k, count)
      BY <1>4, <2>4, <2>5, <2>6, <2>9
    <3> HIDE DEF k, c
    <3>3. disk'[BlockOf(k)'][c] = Byte(round, p)
      BY <2>7, <2>8, <3>1, <3>2
    <3> QED BY <2>9, <3>3, Zenon DEF k, c
  <2>10. CASE p < size
    <3>1. p \notin size .. size + count - 1 /\ p \in 0 .. size - 1
      BY <1>5, <2>1, <2>10
    <3>2. ~FirstWrite /\ k \in Indexes
      BY <1>6, <3>1
    <3>3. k \notin Fed(count)
      <4>1. HasUsed \in Nat /\ HasUsed <= WillUse(count)
        BY <1>2, Sizes
      <4> HIDE DEF k
      <4> QED BY <3>2, <4>1 DEF Fed, Added, Indexes
    <3>4. a[k] = BlockOf(k)
      BY <1>4, <2>5, <3>3
    <3>5. dk[a[k]][c] = disk[a[k]][c]
      <4>1. CASE h <= k
        <5>1. k = h
          BY <2>2, <2>4, <2>10, <4>1
        <5>2. dk[a[k]] = Filled(disk[a[k]], k, count)
          BY <1>4, <2>5, <2>6, <4>1
        <5> HIDE DEF k, c, h
        <5> QED BY <2>7, <3>1, <5>1, <5>2
      <4>2. CASE ~(h <= k)
        BY <1>4, <2>5, <2>6, <4>2
      <4> QED BY <4>1, <4>2
    <3> HIDE DEF k, c
    <3>6. ByteAt(p) = disk[BlockOf(k)][c]
      BY DEF ByteAt, k, c
    <3>7. disk'[BlockOf(k)'][c] = ByteAt(p)
      BY <2>8, <3>4, <3>5, <3>6
    <3> QED BY <2>10, <3>7, Zenon DEF k, c
  <2> QED BY <2>9, <2>10
<1> DEFINE new == [j \in 1 .. count |-> Byte(round, size + j - 1)]
           old == [j \in 1 .. size |-> ByteAt(j - 1)]
<1>9. new \in Seq(Int) /\ Len(new) = count
  <2>1. \A j \in 1 .. count : Byte(round, size + j - 1) \in Int
    <3>1. MaxSize \in Int /\ NumBlocks \in Int
      BY DEF MaxSize, MaxBlocks, BlockSize
    <3>2. round * MaxSize \in Int
      BY <1>2, <3>1
    <3> QED BY <1>5, <3>1, <3>2 DEF Byte
  <2> QED BY <1>5, <2>1
<1>10. old \in Seq(Int) /\ Len(old) = size
  BY <1>6
<1>11. \A j \in 1 .. size + count : j - 1 \in 0 .. size + count - 1 /\ (j - 1 < size <=> j <= size)
  BY <1>5
<1>12. \A j \in 1 .. size + count :
         disk'[BlockOf((j - 1) \div PerBlock)'][(j - 1) % PerBlock]
            = IF j <= size THEN ByteAt(j - 1) ELSE Byte(round, j - 1)
  BY <1>8, <1>11
<1>13. Content' = [j \in 1 .. size + count |-> IF j <= size THEN ByteAt(j - 1) ELSE Byte(round, j - 1)]
  BY <1>7, <1>12, Zenon
<1>14. old \o new = [j \in 1 .. size + count |-> IF j <= size THEN old[j] ELSE new[j - size]]
  <2> HIDE DEF old, new
  <2>1. old \o new \in Seq(Int) /\ Len(old \o new) = size + count
    BY <1>9, <1>10, Joined
  <2>2. \A j \in 1 .. size + count : (old \o new)[j] = IF j <= size THEN old[j] ELSE new[j - size]
    BY <1>9, <1>10, Joined, Zenon
  <2>3. old \o new = [j \in 1 .. size + count |-> (old \o new)[j]]
    <3>1. size + count \in Nat
      BY <1>5
    <3> QED BY <2>1, <3>1, Elements, Zenon
  <2> QED BY <2>2, <2>3, Zenon
<1>15. \A j \in 1 .. size + count :
          (IF j <= size THEN ByteAt(j - 1) ELSE Byte(round, j - 1))
             = IF j <= size THEN old[j] ELSE new[j - size]
  <2> TAKE j \in 1 .. size + count
  <2>1. j <= size => old[j] = ByteAt(j - 1)
    BY <1>5
  <2>2. ~(j <= size) => j - size \in 1 .. count /\ size + (j - size) - 1 = j - 1
    BY <1>5
  <2>3. ~(j <= size) => new[j - size] = Byte(round, j - 1)
    <3>1. \A i \in 1 .. count : new[i] = Byte(round, size + i - 1)
      OBVIOUS
    <3> HIDE DEF new
    <3>2. ~(j <= size) => new[j - size] = Byte(round, size + (j - size) - 1)
      BY <2>2, <3>1
    <3> QED BY <2>2, <3>2
  <2> QED BY <2>1, <2>3
<1>16. Content' = old \o new
  <2> HIDE DEF old, new
  <2> QED BY <1>13, <1>14, <1>15, Zenon
<1> QED BY <1>6, <1>16

(* A read gives the bytes from the position on: the direct blocks that it  *)
(* looks at are those of the file.                                         *)
LEMMA ReadGives ==
    ASSUME FileInv, ~TableCalls, NEW d \in Fds, NEW count \in Counts, file_read(d, count)
    PROVE  LET n == Within(d, count)
               at == fd_pos[d]
           IN  /\ n \in 1 .. MaxSize /\ at \in Nat /\ at + n <= inode.i_size
               /\ answer' = [from |-> at, bytes |-> SubSeq(Content, at + 1, at + n)]
<1> DEFINE n == Within(d, count)
           at == fd_pos[d]
           size == inode.i_size
<1>1. /\ n > 0 /\ d \in OpenFds /\ (at + n) \div PerBlock < Direct
      /\ \E junk \in Addresses :
            /\ junk = 0
            /\ answer' = [from |-> at,
                          bytes |-> [j \in 1 .. n |->
                             LET b == DirectBlocks(0)[(at + j - 1) \div PerBlock]
                             IN  IF b = 0 THEN -1 ELSE disk[b][(at + j - 1) % PerBlock]]]
  BY DEF file_read, ReadBlocks, BlockSize
<1>2. BlockTypes /\ Mapped /\ fd_pos \in [Fds -> Nat \cup {-1}]
  BY DEF FileInv, FileTypes
<1>3. /\ size \in Nat /\ Content = [j \in 1 .. size |-> ByteAt(j - 1)]
      /\ \A p \in 0 .. size - 1 : p \div PerBlock \in Indexes /\ BlockOf(p \div PerBlock) \in used
      /\ Content \in Seq(Int) /\ Len(Content) = size
  BY <1>2, ContentIs
<1>4. at \in Nat /\ count \in Nat /\ count >= 1 /\ count <= MaxSize
  <2>1. MaxBlocks * PerBlock \in Int
    BY DEF MaxBlocks
  <2> QED BY <1>1, <1>2, <2>1 DEF OpenFds, MaxSize, BlockSize
<1>5. n = IF at + count > size THEN size - at ELSE count
  BY DEF Within
<1> HIDE DEF n, at, size
<1>6. n \in Nat /\ n >= 1 /\ n <= count /\ at + n <= size
  BY <1>1, <1>3, <1>4, <1>5
<1>7. n \in 1 .. MaxSize
  <2>1. MaxSize \in Int
    BY DEF MaxSize, MaxBlocks, BlockSize
  <2> QED BY <1>4, <1>6, <2>1
<1>8. ASSUME NEW j \in 1 .. n
      PROVE  LET b == DirectBlocks(0)[(at + j - 1) \div PerBlock]
             IN  (IF b = 0 THEN -1 ELSE disk[b][(at + j - 1) % PerBlock]) = Content[at + j]
  <2> DEFINE p == at + j - 1
             k == p \div PerBlock
  <2>1. p \in 0 .. size - 1 /\ p \in Nat /\ p <= at + n /\ at + n \in Nat
        /\ at + j \in 1 .. size /\ (at + j) - 1 = p
    BY <1>3, <1>4, <1>6
  <2>2. k \in Nat /\ k <= (at + n) \div PerBlock /\ (at + n) \div PerBlock \in Nat
    BY <2>1, Divided, DivGrows
  <2>3. k < Direct /\ k \in Places
    BY <1>1, <2>2 DEF Places, MaxBlocks
  <2>4. DirectBlocks(0)[k] = BlockOf(k)
    BY <2>3 DEF DirectBlocks, BlockOf
  <2>5. BlockOf(k) # 0
    <3>1. BlockOf(k) \in Blocks
      BY <1>2, <1>3, <2>1 DEF BlockTypes
    <3> QED BY <3>1 DEF Blocks
  <2>6. Content[at + j] = ByteAt(p)
    BY <1>3, <2>1
  <2>7. ByteAt(p) = disk[BlockOf(k)][p % PerBlock]
    BY DEF ByteAt
  <2> QED BY <2>4, <2>5, <2>6, <2>7, Zenon
<1>9. SubSeq(Content, at + 1, at + n) = [j \in 1 .. n |-> Content[at + j]]
  <2>1. SubSeq(Content, at + 1, at + n) \in Seq(Int) /\ Len(SubSeq(Content, at + 1, at + n)) = n
    BY <1>3, <1>4, <1>6
  <2>2. \A j \in 1 .. n : SubSeq(Content, at + 1, at + n)[j] = Content[at + j]
    BY <1>3, <1>4, <1>6
  <2>3. SubSeq(Content, at + 1, at + n) = [j \in 1 .. n |-> SubSeq(Content, at + 1, at + n)[j]]
    BY <1>6, <2>1, Elements, Zenon
  <2> QED BY <2>2, <2>3, Zenon
<1>10. answer' = [from |-> at, bytes |-> [j \in 1 .. n |-> Content[at + j]]]
  <2> DEFINE got == [j \in 1 .. n |-> LET b == DirectBlocks(0)[(at + j - 1) \div PerBlock]
                        IN  IF b = 0 THEN -1 ELSE disk[b][(at + j - 1) % PerBlock]]
  <2>1. answer' = [from |-> at, bytes |-> got]
    BY <1>1
  <2>2. got = [j \in 1 .. n |-> Content[at + j]]
    BY <1>8, Zenon
  <2> QED BY <2>1, <2>2
<1> QED BY <1>4, <1>6, <1>7, <1>9, <1>10 DEF n, at, size

(* The bytes stay when neither the file's blocks nor its size change.      *)
LEMMA ContentKept ==
    ASSUME BlocksInv, UNCHANGED <<used, disk, foreign, slot>>, inode' \in {inode, slot}
    PROVE  Content' = Content
<1>1. CASE inode' = inode
  <2>1. \A k : BlockOf(k)' = BlockOf(k)
    BY <1>1 DEF BlockOf, Table
  <2> QED BY <1>1, <2>1, Zenon DEF Content
<1>2. CASE inode' = slot /\ slot # inode
  <2>1. inode.i_size = 0 /\ slot.i_size = 0
    BY <1>2 DEF BlocksInv, SlotFollows, inode_init
  <2>2. Content = <<>> /\ Content' = <<>>
    BY <1>2, <2>1 DEF Content
  <2> QED BY <2>2
<1> QED BY <1>1, <1>2

-----------------------------------------------------------------------------
BFcontent == IF kind = "file" THEN Content ELSE <<>>

LEMMA CallImplements ==
    ASSUME ~TableCalls, FileInv, FileNext, kind = "file", kind' = kind
    PROVE  BF!Next
<1>1. BlocksInv /\ BlockTypes /\ Mapped /\ fd_pos \in [Fds -> Nat \cup {-1}]
  BY DEF FileInv, FileTypes, BlocksInv
<1>2. Len(Content) = inode.i_size /\ inode.i_size \in Nat
  BY <1>1, ContentIs
<1>3. BFcontent = Content /\ BFcontent' = Content'
  BY DEF BFcontent
<1>4. NoAnswer = BF!NoAnswer
  BY DEF NoAnswer, BF!NoAnswer
<1>5. ASSUME NEW d \in Fds, sys_open(d) PROVE BF!Open(d)
  <2>1. Content' = Content
    BY <1>1, <1>5, ContentKept DEF sys_open, blockVars
  <2> QED BY <1>3, <1>4, <1>5, <2>1 DEF sys_open, BF!Open, BFcontent
<1>6. ASSUME NEW d \in Fds, sys_close(d) PROVE BF!Close(d)
  <2>1. Content' = Content
    BY <1>1, <1>6, ContentKept DEF sys_close
  <2> QED BY <1>3, <1>4, <1>6, <2>1 DEF sys_close, BF!Close, BFcontent, OpenFds
<1>7. ASSUME NEW d \in Fds, sys_lseek(d) PROVE BF!Seek(d)
  <2>1. Content' = Content
    BY <1>1, <1>7, ContentKept DEF sys_lseek, blockVars
  <2> QED BY <1>2, <1>3, <1>4, <1>7, <2>1 DEF sys_lseek, BF!Seek, BFcontent, OpenFds
<1>8. ASSUME NEW d \in Fds, NEW count \in Counts, file_write(d, count)
      PROVE  BF!Extend(d, count) /\ count \in 1 .. MaxSize
  <2>1. Content' = Content \o [j \in 1 .. count |-> Byte(round, Len(Content) + j - 1)]
    BY <1>8, WriteExtends
  <2>2. count \in 1 .. MaxSize
    BY DEF MaxSize, BlockSize
  <2> QED BY <1>2, <1>3, <1>4, <1>8, <2>1, <2>2 DEF file_write, BF!Extend, BFcontent, OpenFds
<1>9. ASSUME NEW d \in Fds, NEW count \in Counts, file_write_gives_up(d, count) PROVE BF!Fail
  <2>1. inode'.i_size = inode.i_size /\ inode.i_size = 0
    BY <1>1, <1>9 DEF file_write_gives_up, Mapped, inode_init, BlockTypes
  <2>2. Content' = <<>> /\ Content = <<>>
    BY <2>1 DEF Content
  <2> QED BY <1>3, <1>4, <1>9, <2>2 DEF file_write_gives_up, BF!Fail, BFcontent
<1>10. ASSUME NEW d \in Fds, NEW count \in Counts, file_read(d, count)
       PROVE  BF!Read(d, Within(d, count)) /\ Within(d, count) \in 1 .. MaxSize
  <2>1. Content' = Content
    BY <1>1, <1>10, ContentKept DEF file_read, blockVars
  <2>2. /\ Within(d, count) \in 1 .. MaxSize /\ fd_pos[d] + Within(d, count) <= inode.i_size
        /\ answer' = [from |-> fd_pos[d],
                      bytes |-> SubSeq(Content, fd_pos[d] + 1, fd_pos[d] + Within(d, count))]
    BY <1>10, ReadGives
  <2> QED BY <1>2, <1>3, <1>10, <2>1, <2>2 DEF file_read, BF!Read, BFcontent, OpenFds
<1>11. ASSUME sys_unlink PROVE BF!Renew
  <2>1. inode'.i_size = 0
    BY <1>11 DEF sys_unlink, inode_init
  <2>2. Content' = <<>>
    BY <2>1 DEF Content
  <2> QED BY <1>3, <1>4, <1>11, <2>2 DEF sys_unlink, BF!Renew, BFcontent, OpenFds
<1>12. ASSUME mount_partition PROVE BF!Shutdown
  <2>1. Content' = Content
    BY <1>1, <1>12, ContentKept DEF mount_partition
  <2> QED BY <1>3, <1>4, <1>12, <2>1 DEF mount_partition, BF!Shutdown, BFcontent
<1> QED BY <1>5, <1>6, <1>7, <1>8, <1>9, <1>10, <1>11, <1>12 DEF FileNext, BF!Next

(* Every call on a file does what it does to a sequence of bytes, for all  *)
(* sizes of blocks and counts: what was written is read, at the positions  *)
(* where it was written, across closes, failures and restarts.             *)
THEOREM RefinesByteFile == ~TableCalls => (MCSpec => ImplementsByteFile)
<1> SUFFICES ASSUME ~TableCalls PROVE MCSpec => ImplementsByteFile
  OBVIOUS
<1>1. MCInit => BF!Init
  <2> SUFFICES ASSUME MCInit PROVE BF!Init
    OBVIOUS
  <2>1. /\ inode.i_size = 0 \/ kind # "file"
        /\ round = 0 /\ fd_pos = [d \in Fds |-> -1] /\ answer = NoAnswer
    BY DEF MCInit, FileInit, NoFile, inode_init
  <2>2. inode.i_size = 0 => Content = <<>>
    BY DEF Content
  <2> QED BY <2>1, <2>2 DEF BF!Init, NoAnswer, BF!NoAnswer
<1>2. FileStays /\ [MCNext]_mcVars => [BF!Next]_<<BFcontent, round, fd_pos, answer>>
  <2> SUFFICES ASSUME FileStays, [MCNext]_mcVars
               PROVE  BF!Next \/ UNCHANGED <<BFcontent, round, fd_pos, answer>>
    OBVIOUS
  <2>1. CASE kind = "file" /\ FileNext /\ UNCHANGED <<dirVars, kind>>
    BY <2>1, CallImplements DEF FileStays
  <2>2. CASE kind = "dir" /\ DirNext /\ UNCHANGED <<fileVars, kind>>
    BY <2>2 DEF fileVars, BFcontent
  <2>3. CASE UNCHANGED mcVars
    <3>1. UNCHANGED <<inode, disk, kind, round, fd_pos, answer>>
      BY <2>3, Unchanged
    <3>2. \A k : BlockOf(k)' = BlockOf(k)
      BY <3>1 DEF BlockOf, Table
    <3>3. Content' = Content
      BY <3>1, <3>2, Zenon DEF Content
    <3> QED BY <3>1, <3>3 DEF BFcontent
  <2> QED BY <2>1, <2>2, <2>3 DEF MCNext
<1> QED BY <1>1, <1>2, SpecFile, PTL DEF MCSpec, mcVars, ImplementsByteFile, BF!Spec, BFcontent
=============================================================================
