-------------------------- MODULE BitmapScanProofs --------------------------
(***************************************************************************)
(* bitmap_scan is first fit for every size of bitmap, width of byte and    *)
(* count.  The loops are short, so the invariant says of each one what it  *)
(* has found out so far.                                                   *)
(***************************************************************************)
EXTENDS BitmapScan, TLAPS

(* Every bit below n is 1.                                                 *)
UsedBelow(n) == \A b \in 0 .. n - 1 : b \in bits

InBytes == pc = "bytes" => UsedBelow(idx_byte * Width)

InBits == pc = "bits" => /\ idx_byte < BytesLen /\ idx_bit < Width
                         /\ ~ByteFull(idx_byte)
                         /\ UsedBelow(Found)

(* The last count bits are free, and no run can start before them.         *)
InRun == pc = "run" => /\ cnt > 1 /\ result = -1
                       /\ next_bit >= 1 /\ count < cnt /\ count <= next_bit
                       /\ \A b \in next_bit - count .. next_bit - 1 : b \notin bits
                       /\ \A s \in 0 .. next_bit - count - 1 : Blocked(s)

(* What the scan answers, return by return.  With one bit the byte and the *)
(* bit it stops at exist; a longer run may end one bit past the bitmap.    *)
Answer ==
    pc = "returned" =>
        \/ /\ result = -2 /\ bits = Bits
        \/ /\ result = -1 /\ cnt > 1
           /\ \A s \in Bits : Blocked(s)
        \/ /\ result \in Bits /\ result + cnt <= Size + 1
           /\ \A k \in 0 .. cnt - 1 : result + k \notin bits
           /\ \A s \in 0 .. result - 1 : Blocked(s)

IInv == TypeOK /\ InBytes /\ InBits /\ InRun /\ Answer

USE BitmapAssumption

-----------------------------------------------------------------------------
(* A byte of the bitmap ends inside it.                                    *)
LEMMA ByteInside ==
    ASSUME NEW i \in Nat, i < BytesLen
    PROVE  /\ i * Width \in Nat
           /\ i * Width + Width = (i + 1) * Width
           /\ i * Width + Width <= Size
<1> DEFINE left == BytesLen - (i + 1)
<1>1. left \in Nat
  OBVIOUS
<1>2. left * Width \in Nat /\ i * Width \in Nat
  BY <1>1
<1>3. Size = left * Width + (i + 1) * Width
  BY <1>1 DEF Size
<1>4. (i + 1) * Width = i * Width + Width
  OBVIOUS
<1> HIDE DEF left
<1> QED BY <1>2, <1>3, <1>4, <1>1

LEMMA SizeIsNat == Size \in Nat /\ BytesLen * Width = Size
BY DEF Size

LEMMA InitIInv == Init => IInv
BY SizeIsNat DEF Init, IInv, TypeOK, InBytes, InBits, InRun, Answer, Bits

LEMMA SkipByteIInv == IInv /\ SkipByte => IInv'
<1> SUFFICES ASSUME IInv, SkipByte PROVE IInv'
  OBVIOUS
<1> USE DEF IInv, SkipByte, run
<1>1. TypeOK'
  BY SizeIsNat DEF TypeOK
<1>2. InBytes'
  <2>1. (idx_byte + 1) * Width = idx_byte * Width + Width /\ idx_byte * Width \in Nat
    BY ByteInside DEF TypeOK
  <2>2. ASSUME NEW b \in 0 .. (idx_byte + 1) * Width - 1
        PROVE  b \in bits
    <3>1. CASE b < idx_byte * Width
      BY <2>1, <3>1 DEF InBytes, UsedBelow
    <3>2. CASE b >= idx_byte * Width
      BY <2>1, <3>2 DEF ByteFull
    <3> QED BY <2>1, <3>1, <3>2
  <2> QED BY <2>2 DEF InBytes, UsedBelow
<1> QED BY <1>1, <1>2 DEF InBits, InRun, Answer

LEMMA NoByteIInv == IInv /\ NoByte => IInv'
<1> SUFFICES ASSUME IInv, NoByte PROVE IInv'
  OBVIOUS
<1> USE DEF IInv, NoByte, position, run
<1>1. TypeOK'
  BY DEF TypeOK
<1>2. idx_byte * Width = Size
  BY SizeIsNat DEF TypeOK
<1>3. bits = Bits
  BY <1>2 DEF InBytes, UsedBelow, TypeOK, Bits
<1> QED BY <1>1, <1>3 DEF InBytes, InBits, InRun, Answer, Bits

LEMMA EnterByteIInv == IInv /\ EnterByte => IInv'
<1> SUFFICES ASSUME IInv, EnterByte PROVE IInv'
  OBVIOUS
<1> USE DEF IInv, EnterByte, run
<1>1. TypeOK'
  BY DEF TypeOK
<1>2. idx_byte * Width \in Nat /\ Found' = idx_byte * Width
  BY ByteInside DEF Found, TypeOK
<1>3. InBits'
  BY <1>2 DEF InBits, InBytes, UsedBelow, ByteFull
<1> QED BY <1>1, <1>3 DEF InBytes, InRun, Answer

LEMMA SkipBitIInv == IInv /\ SkipBit => IInv'
<1> SUFFICES ASSUME IInv, SkipBit PROVE IInv'
  OBVIOUS
<1> USE DEF IInv, SkipBit, run
<1>1. TypeOK'
  BY DEF TypeOK, InBits
<1>2. /\ idx_byte * Width \in Nat /\ idx_bit \in Nat /\ idx_bit < Width
      /\ Found' = Found + 1 /\ Found = idx_byte * Width + idx_bit
  BY ByteInside DEF Found, TypeOK, InBits
<1>3. UsedBelow(Found)'
  <2> SUFFICES ASSUME NEW b \in 0 .. Found PROVE b \in bits
    BY <1>2 DEF UsedBelow
  <2> QED BY <1>2 DEF InBits, UsedBelow
<1>4. idx_bit + 1 # Width
  BY <1>2, <1>3 DEF InBits, UsedBelow, ByteFull
<1>5. InBits'
  BY <1>2, <1>3, <1>4 DEF InBits, ByteFull
<1> QED BY <1>1, <1>5 DEF InBytes, InRun, Answer

(* For one bit the scan is over; for more the run starts with this one.    *)
LEMMA FreeBitIInv == IInv /\ FreeBit => IInv'
<1> SUFFICES ASSUME IInv, FreeBit PROVE IInv'
  OBVIOUS
<1> USE DEF IInv, FreeBit, position, run
<1>1. /\ Found \in Nat /\ Found < Size /\ Size \in Nat
      /\ Found' = Found
  BY ByteInside, SizeIsNat DEF Found, TypeOK, InBits
<1>2. \A s \in 0 .. Found - 1 : Blocked(s)
  BY <1>1 DEF InBits, UsedBelow, Blocked, TypeOK
<1>3. CASE cnt = 1
  <2>1. TypeOK'
    BY <1>1, <1>3 DEF TypeOK
  <2>2. Answer'
    BY <1>1, <1>2, <1>3 DEF Answer, Bits, Blocked
  <2> QED BY <2>1, <2>2, <1>3 DEF InBytes, InBits, InRun
<1>4. CASE cnt # 1
  <2>1. TypeOK'
    BY <1>1, <1>4 DEF TypeOK
  <2>2. InRun'
    BY <1>1, <1>2, <1>4 DEF InRun, Blocked, TypeOK
  <2> QED BY <2>1, <2>2, <1>4 DEF InBytes, InBits, Answer
<1> QED BY <1>3, <1>4

(* A run that is one longer, or none that starts at or before next_bit.    *)
LEMMA TestBitIInv == IInv /\ TestBit => IInv'
<1> SUFFICES ASSUME IInv, TestBit PROVE IInv'
  OBVIOUS
<1> USE DEF IInv, TestBit, position
<1>1. /\ cnt \in Nat /\ cnt > 1 /\ next_bit \in Nat /\ next_bit >= 1 /\ next_bit <= Size
      /\ Size \in Nat /\ count \in Nat /\ count < cnt /\ count <= next_bit /\ result = -1
      /\ bits \subseteq Bits
  BY SizeIsNat DEF TypeOK, InRun
<1>2. PICK free \in BOOLEAN :
        /\ next_bit \in Bits => free = (next_bit \notin bits)
        /\ count' = IF free THEN count + 1 ELSE 0
  BY DEF TestBit
<1>3. CASE free
  <2> next_bit \notin bits
    BY <1>1, <1>2, <1>3, Zenon
  <2>1. \A b \in next_bit - count .. next_bit : b \notin bits
    BY <1>1 DEF InRun
  <2>2. CASE count + 1 = cnt
    <3>1. pc' = "returned" /\ result' = next_bit - count /\ count' = cnt /\ next_bit' = next_bit
      BY <1>1, <1>2, <1>3, <2>2
    <3>2. TypeOK'
      BY <1>1, <3>1, SizeIsNat DEF TypeOK
    <3>3. result' \in Bits
      BY <1>1, <3>1, <2>2 DEF Bits
    <3>4. Answer'
      BY <1>1, <2>1, <2>2, <3>1, <3>3 DEF Answer, InRun, Blocked
    <3> QED BY <3>1, <3>2, <3>4 DEF InBytes, InBits, InRun
  <2>3. CASE count + 1 # cnt
    <3>1. pc' = "run" /\ result' = -1 /\ count' = count + 1 /\ next_bit' = next_bit + 1
      BY <1>1, <1>2, <1>3, <2>3
    <3>2. TypeOK'
      BY <1>1, <3>1, SizeIsNat DEF TypeOK
    <3>3. next_bit' - count' = next_bit - count /\ next_bit' - 1 = next_bit
      BY <1>1, <3>1
    <3>4. \A s \in 0 .. next_bit - count - 1 : Blocked(s)'
      BY DEF InRun, Blocked
    <3>5. InRun'
      BY <1>1, <2>1, <2>3, <3>1, <3>3, <3>4 DEF InRun
    <3> QED BY <3>1, <3>2, <3>5 DEF InBytes, InBits, Answer
  <2> QED BY <2>2, <2>3
<1>4. CASE ~free
  <2>1. pc' = "run" /\ result' = -1 /\ count' = 0 /\ next_bit' = next_bit + 1
    BY <1>1, <1>2, <1>4
  <2>2. TypeOK'
    BY <1>1, <2>1, SizeIsNat DEF TypeOK
  <2>3. next_bit \notin Bits \ bits
    BY <1>2, <1>4
  <2>4. ASSUME NEW s \in 0 .. next_bit, s >= next_bit - count
        PROVE  Blocked(s)
    <3>1. next_bit - s \in 0 .. cnt - 1 /\ s + (next_bit - s) = next_bit
      BY <1>1, <2>4
    <3> QED BY <3>1, <2>3 DEF Blocked
  <2>5. \A s \in 0 .. next_bit : Blocked(s)
    BY <1>1, <2>4 DEF InRun
  <2>6. InRun'
    BY <1>1, <2>1, <2>5 DEF InRun, Blocked
  <2> QED BY <2>1, <2>2, <2>6 DEF InBytes, InBits, Answer
<1> QED BY <1>2, <1>3, <1>4

(* Where the run of free bits at the end of the bitmap is too short.       *)
LEMMA NoRunIInv == IInv /\ NoRun => IInv'
<1> SUFFICES ASSUME IInv, NoRun PROVE IInv'
  OBVIOUS
<1> USE DEF IInv, NoRun, position, run
<1>1. /\ cnt \in Nat /\ cnt > 1 /\ next_bit = Size + 1 /\ Size \in Nat
      /\ count \in Nat /\ count < cnt /\ result = -1
  BY SizeIsNat DEF TypeOK, InRun
<1>2. ASSUME NEW s \in Bits
      PROVE  Blocked(s)
  <2>1. CASE s < next_bit - count
    BY <1>1, <2>1 DEF InRun, Bits
  <2>2. CASE s >= next_bit - count
    <3>1. s + (cnt - 1) \notin Bits /\ cnt - 1 \in 0 .. cnt - 1
      BY <1>1, <2>2 DEF Bits
    <3> QED BY <3>1 DEF Blocked
  <2> QED BY <1>1, <2>1, <2>2 DEF Bits
<1>3. TypeOK'
  BY DEF TypeOK
<1>4. Answer'
  BY <1>1, <1>2 DEF Answer, Blocked
<1> QED BY <1>3, <1>4 DEF InBytes, InBits, InRun

(* Outside the scan the invariant says only that 1 bits are bits.          *)
LEMMA RestIInv ==
    IInv /\ (\/ \E n \in Counts : bitmap_scan(n)
             \/ SetsBit \/ Dies \/ Answers
             \/ \E b \in Bits : bitmap_clear(b)
             \/ Remount) => IInv'
<1> USE SizeIsNat DEF IInv, TypeOK, InBytes, InBits, InRun, Answer, position, run, DropLocals
<1>1. ASSUME IInv, NEW n \in Counts, bitmap_scan(n) PROVE IInv'
  BY <1>1 DEF bitmap_scan, UsedBelow
<1>2. ASSUME IInv, SetsBit PROVE IInv'
  BY <1>2 DEF SetsBit
<1>3. ASSUME IInv, Dies PROVE IInv'
  BY <1>3 DEF Dies
<1>4. ASSUME IInv, Answers PROVE IInv'
  BY <1>4 DEF Answers
<1>5. ASSUME IInv, NEW b \in Bits, bitmap_clear(b) PROVE IInv'
  BY <1>5 DEF bitmap_clear
<1>6. ASSUME IInv, Remount PROVE IInv'
  BY <1>6 DEF Remount
<1> QED BY <1>1, <1>2, <1>3, <1>4, <1>5, <1>6

LEMMA StutterIInv == IInv /\ UNCHANGED vars => IInv'
BY DEF IInv, TypeOK, InBytes, InBits, InRun, Answer, vars, UsedBelow, ByteFull, Found,
       Blocked

(* The invariant of the scan loops holds in every reachable state.         *)
THEOREM SpecIInv == Spec => []IInv
<1>1. IInv /\ [Next]_vars => IInv'
  BY SkipByteIInv, NoByteIInv, EnterByteIInv, SkipBitIInv, FreeBitIInv, TestBitIInv, NoRunIInv,
     RestIInv, StutterIInv
  DEF Next, Step
<1> QED BY InitIInv, <1>1, PTL DEF Spec

(* What a scan returns, for every size of bitmap, width of byte and count: *)
(* the lowest place where a run fits, and a negative number where none     *)
(* does, but for a run that ends one bit past the end.                     *)
THEOREM FirstFit == Spec => []ScanIsFirstFit
<1>1. ASSUME IInv, pc = "returned" PROVE ScanIsFirstFit
  <2> DEFINE fits == {s \in Bits : ~Blocked(s)}
  <2>1. cnt \in Nat \ {0} /\ result \in Int /\ Size \in Nat
    BY <1>1, SizeIsNat DEF IInv, TypeOK
  <2>2. CASE fits = {} /\ result < 0
    BY <2>2 DEF ScanIsFirstFit
  <2>3. CASE /\ result \in Bits /\ result + cnt <= Size + 1
             /\ \A k \in 0 .. cnt - 1 : result + k \notin bits
             /\ \A s \in 0 .. result - 1 : Blocked(s)
    <3>1. \A s \in fits : result <= s
      BY <2>1, <2>3 DEF Bits
    <3>2. CASE result + cnt <= Size
      <4>1. \A k \in 0 .. cnt - 1 : result + k \in Bits \ bits
        BY <2>1, <2>3, <3>2 DEF Bits
      <4>2. result \in fits
        BY <2>3, <4>1 DEF Blocked
      <4> HIDE DEF fits
      <4>3. fits # {} /\ result \in fits /\ \A s \in fits : result <= s
        BY <3>1, <4>2
      <4> QED BY <4>3 DEF ScanIsFirstFit, fits
    <3>3. CASE result + cnt = Size + 1
      <4>1. ASSUME NEW s \in fits PROVE FALSE
        <5>1. s + (cnt - 1) \in Bits
          BY <2>1, <4>1 DEF Blocked
        <5>2. s \in Nat /\ s + (cnt - 1) <= Size - 1 /\ result <= s
          BY <2>1, <3>1, <4>1, <5>1 DEF Bits
        <5> QED BY <2>1, <3>3, <5>2
      <4>2. fits = {}
        BY <4>1
      <4>3. cnt > 1
        <5>1. SUFFICES ASSUME cnt = 1 PROVE FALSE
          BY <2>1
        <5>2. \A k \in 0 .. cnt - 1 : result + k \in Bits \ bits
          BY <2>1, <2>3, <5>1 DEF Bits
        <5>3. result \in fits
          BY <2>3, <5>2 DEF Blocked
        <5> QED BY <4>1, <5>3
      <4> QED BY <3>3, <4>2, <4>3 DEF ScanIsFirstFit
    <3> QED BY <2>1, <2>3, <3>2, <3>3 DEF Bits
  <2>4. ASSUME bits = Bits PROVE \A s \in Bits : Blocked(s)
    BY <2>1, <2>4 DEF Blocked
  <2> QED BY <1>1, <2>2, <2>3, <2>4 DEF IInv, Answer
<1>2. IInv => ScanIsFirstFit
  BY <1>1 DEF ScanIsFirstFit
<1> QED BY SpecIInv, <1>2, PTL

(* Every index and counter of the scan stays in its range: the scan reads  *)
(* at most one bit past the bitmap, and the allocators set no bit that is  *)
(* not in it.                                                              *)
THEOREM TypeCorrect == Spec => []TypeOK
<1>1. IInv => TypeOK
  BY DEF IInv
<1> QED BY SpecIInv, <1>1, PTL
=============================================================================
