------------------------------ MODULE ByteFile ------------------------------
(***************************************************************************)
(* What a file is to its user: a sequence of bytes that writes extend, and *)
(* descriptors with a position in it.  FileData.tla implements it.         *)
(***************************************************************************)
EXTENDS Integers, Sequences

CONSTANTS Fds,
          MaxSize,       \* bytes of the longest file
          Byte(_, _)     \* the byte written at a position of the file of a round

VARIABLES
    content,             \* the bytes
    round,               \* the file was created anew an odd number of times
    fd_pos,              \* position of each descriptor, -1 when closed
    answer               \* the last read: where it started and what it gave

NoAnswer == [from |-> 0, bytes |-> <<>>]

Init == content = <<>> /\ round = 0 /\ fd_pos = [d \in Fds |-> -1] /\ answer = NoAnswer

Open(d) ==
    /\ fd_pos[d] = -1 /\ fd_pos' = [fd_pos EXCEPT ![d] = 0]
    /\ answer' = NoAnswer /\ UNCHANGED <<content, round>>

Close(d) ==
    /\ fd_pos[d] # -1 /\ fd_pos' = [fd_pos EXCEPT ![d] = -1]
    /\ answer' = NoAnswer /\ UNCHANGED <<content, round>>

(* A write appends, wherever its descriptor was, and leaves it on the last *)
(* byte.                                                                   *)
Extend(d, n) ==
    /\ fd_pos[d] # -1
    /\ content' = content \o [j \in 1 .. n |-> Byte(round, Len(content) + j - 1)]
    /\ fd_pos' = [fd_pos EXCEPT ![d] = Len(content) + n - 1]
    /\ answer' = NoAnswer /\ UNCHANGED round

Read(d, n) ==
    /\ fd_pos[d] # -1 /\ fd_pos[d] + n <= Len(content)
    /\ answer' = [from |-> fd_pos[d], bytes |-> SubSeq(content, fd_pos[d] + 1, fd_pos[d] + n)]
    /\ fd_pos' = [fd_pos EXCEPT ![d] = @ + n]
    /\ UNCHANGED <<content, round>>

Seek(d) ==
    /\ fd_pos[d] # -1
    /\ \E k \in 0 .. Len(content) - 1 : fd_pos' = [fd_pos EXCEPT ![d] = k]
    /\ answer' = NoAnswer /\ UNCHANGED <<content, round>>

(* Nobody has the file open: it is removed, and an empty one created.      *)
Renew ==
    /\ \A d \in Fds : fd_pos[d] = -1
    /\ content' = <<>> /\ round' = 1 - round
    /\ answer' = NoAnswer /\ UNCHANGED fd_pos

(* The process ends; the bytes stay.                                       *)
Shutdown ==
    /\ fd_pos' = [d \in Fds |-> -1]
    /\ answer' = NoAnswer /\ UNCHANGED <<content, round>>

(* A call fails: nothing changes but that there is no answer.              *)
Fail == answer' = NoAnswer /\ UNCHANGED <<content, round, fd_pos>>

Next ==
    \/ \E d \in Fds : Open(d) \/ Close(d) \/ Seek(d)
    \/ \E d \in Fds, n \in 1 .. MaxSize : Extend(d, n) \/ Read(d, n)
    \/ Renew \/ Shutdown \/ Fail

Spec == Init /\ [][Next]_<<content, round, fd_pos, answer>>
=============================================================================
