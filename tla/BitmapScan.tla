----------------------------- MODULE BitmapScan -----------------------------
(***************************************************************************)
(* bitmap.cpp: bitmap_scan searches for cnt free bits in a row, first byte *)
(* by byte, then bit by bit; inode_bitmap_alloc and block_bitmap_alloc     *)
(* (file.cpp) scan for one bit and set it.  One step per loop iteration.   *)
(*                                                                         *)
(* A bitmap is the set of its 1 bits.  Only cnt = 1 has callers; a scan    *)
(* for more hands its answer back and nothing is set.                      *)
(***************************************************************************)
EXTENDS Integers

CONSTANTS BytesLen,   \* btmp_bytes_len
          Width,      \* bits of a byte, 8
          Counts      \* the values of cnt

ASSUME BitmapAssumption ==
    /\ BytesLen \in Nat \ {0} /\ Width \in Nat \ {0}
    /\ Counts \subseteq Nat \ {0}

Size == BytesLen * Width
Bits == 0 .. Size - 1

VARIABLES
    bits,       \* the bits that are 1
    pc,         \* where the scan stands, "idle" between two calls
    cnt,
    idx_byte, idx_bit,
    next_bit, count,
    result      \* bit_idx_start, what the scan returns

vars == <<bits, pc, cnt, idx_byte, idx_bit, next_bit, count, result>>
position == <<idx_byte, idx_bit>>
run == <<next_bit, count>>

(* Definitions named _seeded hold a plausible bug, for the runs that show  *)
(* a property fails with the bug in place.                                 *)
ByteFull_seeded(i) == \E b \in i * Width .. i * Width + Width - 1 : b \in bits  \* byte # 0
ByteFull(i) == \A b \in i * Width .. i * Width + Width - 1 : b \in bits
Found == idx_byte * Width + idx_bit

Init ==
    /\ bits = {} /\ pc = "idle" /\ cnt = 1
    /\ idx_byte = 0 /\ idx_bit = 0 /\ next_bit = 0 /\ count = 0 /\ result = -1

(* The locals of the scan are gone when its caller is done with it.        *)
DropLocals ==
    /\ cnt' = 1 /\ idx_byte' = 0 /\ idx_bit' = 0
    /\ next_bit' = 0 /\ count' = 0 /\ result' = -1

bitmap_scan(n) ==
    /\ pc = "idle"
    /\ pc' = "bytes" /\ cnt' = n /\ idx_byte' = 0
    /\ UNCHANGED <<bits, idx_bit, run, result>>

(* The code reads the byte at idx_byte before it compares idx_byte with    *)
(* the length; what it reads past the end makes no difference.             *)
SkipByte ==
    /\ pc = "bytes" /\ idx_byte < BytesLen /\ ByteFull(idx_byte)
    /\ idx_byte' = idx_byte + 1
    /\ UNCHANGED <<bits, pc, cnt, idx_bit, run, result>>

(* The test for idx_byte = btmp_bytes_len that follows in the code, and    *)
(* its return -1, are never reached.                                       *)
NoByte ==
    /\ pc = "bytes" /\ idx_byte >= BytesLen
    /\ pc' = "returned" /\ result' = -2
    /\ UNCHANGED <<bits, cnt, position, run>>

EnterByte ==
    /\ pc = "bytes" /\ idx_byte < BytesLen /\ ~ByteFull(idx_byte)
    /\ pc' = "bits" /\ idx_bit' = 0
    /\ UNCHANGED <<bits, cnt, idx_byte, run, result>>

SkipBit_seeded ==                               \* idx_bit++ is forgotten
    /\ pc = "bits" /\ Found \in bits
    /\ UNCHANGED vars

SkipBit ==
    /\ pc = "bits" /\ Found \in bits
    /\ idx_bit' = idx_bit + 1
    /\ UNCHANGED <<bits, pc, cnt, idx_byte, run, result>>

FreeBit ==
    /\ pc = "bits" /\ Found \notin bits
    /\ IF cnt = 1
       THEN pc' = "returned" /\ result' = Found /\ UNCHANGED run
       ELSE pc' = "run" /\ result' = -1 /\ next_bit' = Found + 1 /\ count' = 1
    /\ UNCHANGED <<bits, cnt, position>>

TestBit_seeded ==                               \* bit_left one too large
    /\ pc = "run" /\ next_bit <= Size + 1
    /\ count' = 0 /\ next_bit' = next_bit + 1
    /\ UNCHANGED <<bits, cnt, position, pc, result>>

(* bit_left lets next_bit go up to Size, one bit past the bitmap: the byte *)
(* there is whatever the memory holds.                                     *)
TestBit ==
    /\ pc = "run" /\ next_bit <= Size
    /\ \E free \in IF next_bit \in Bits THEN {next_bit \notin bits} ELSE BOOLEAN :
          count' = IF free THEN count + 1 ELSE 0
    /\ IF count' = cnt
       THEN pc' = "returned" /\ result' = next_bit - cnt + 1 /\ UNCHANGED next_bit
       ELSE next_bit' = next_bit + 1 /\ UNCHANGED <<pc, result>>
    /\ UNCHANGED <<bits, cnt, position>>

NoRun ==
    /\ pc = "run" /\ next_bit > Size
    /\ pc' = "returned"
    /\ UNCHANGED <<bits, cnt, position, run, result>>

(* The two allocators look for -1 alone; bitmap_set(-2) writes outside the *)
(* process and ends it.                                                    *)
SetsBit ==
    /\ pc = "returned" /\ cnt = 1 /\ result >= 0
    /\ bits' = bits \cup {result} /\ pc' = "idle" /\ DropLocals

Dies ==
    /\ pc = "returned" /\ cnt = 1 /\ result = -2
    /\ pc' = "dead" /\ DropLocals
    /\ UNCHANGED bits

Answers ==
    /\ pc = "returned" /\ (cnt > 1 \/ result = -1)
    /\ pc' = "idle" /\ DropLocals
    /\ UNCHANGED bits

(* inode_release and delete_dir_entry: bitmap_set(b, 0).                   *)
bitmap_clear(b) ==
    /\ pc = "idle" /\ b \in bits
    /\ bits' = bits \ {b}
    /\ UNCHANGED <<pc, cnt, position, run, result>>

(* The next process mounts the bitmap that the last one had synced.        *)
Remount ==
    /\ pc = "dead" /\ pc' = "idle"
    /\ UNCHANGED <<bits, cnt, position, run, result>>

Step == SkipByte \/ NoByte \/ EnterByte \/ SkipBit \/ FreeBit \/ TestBit \/ NoRun
            \/ SetsBit \/ Dies \/ Answers

Next ==
    \/ \E n \in Counts : bitmap_scan(n)
    \/ Step
    \/ \E b \in Bits : bitmap_clear(b)
    \/ Remount

(* A call runs to its end: nothing else runs in the process.               *)
Spec == Init /\ [][Next]_vars /\ WF_vars(Step)

-----------------------------------------------------------------------------
TypeOK ==
    /\ bits \subseteq Bits
    /\ pc \in {"idle", "bytes", "bits", "run", "returned", "dead"}
    /\ cnt \in Nat \ {0}
    /\ idx_byte \in 0 .. BytesLen /\ idx_bit \in 0 .. Width
    /\ next_bit \in 0 .. Size + 1 /\ count \in Nat
    /\ result \in Int

(* s cannot be the first of cnt free bits of the bitmap.                   *)
Blocked(s) == \E k \in 0 .. cnt - 1 : s + k \notin Bits \ bits

(* bitmap_scan is first fit: when cnt free bits in a row exist it returns  *)
(* the lowest place of such a run, and otherwise no place, so a negative   *)
(* number.  A run of several that it follows up to the border of the       *)
(* bitmap is the exception: it may end one bit past it (bitmap.cpp:58).    *)
ScanIsFirstFit ==
    pc = "returned" =>
        LET fits == {s \in Bits : ~Blocked(s)}
        IN  IF fits # {} THEN result \in fits /\ \A s \in fits : result <= s
                         ELSE result < 0 \/ (cnt > 1 /\ result + cnt = Size + 1)

(* Every scan comes back, however full the bitmap is.                      *)
ScanEnds == pc = "bytes" ~> pc \in {"idle", "dead"}
=============================================================================
