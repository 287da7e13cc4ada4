----------------------------- MODULE ByteQueue -----------------------------
(***************************************************************************)
(* What decoding/ringbuffer.rs promises to its callers: an unbounded queue *)
(* of bytes.  Capacity, wrap-around, the sentinel slot and the             *)
(* overshooting copies are invisible.  Every operation is recorded in      *)
(* "call", so that an implementation has to agree on which operation was   *)
(* executed as well as on its effect.                                      *)
(***************************************************************************)
EXTENDS Integers, Sequences

CONSTANTS Byte,     \* the values of a byte
          Payloads, \* the byte strings callers append
          MaxCall   \* bound: the largest numeric argument of a call

VARIABLES queue,    \* the bytes in the buffer, oldest first
          call      \* the last operation with its arguments

vars == <<queue, call>>

Init == queue = <<>> /\ call = [op |-> "new"]

Reserve(n) ==
    /\ call' = [op |-> "reserve", amount |-> n]
    /\ UNCHANGED queue

Extend(data) ==
    /\ call' = [op |-> "extend", data |-> data]
    /\ queue' = queue \o data

PushBack(byte) ==
    /\ call' = [op |-> "push_back", byte |-> byte]
    /\ queue' = Append(queue, byte)

DropFirstN(n) ==
    /\ n <= Len(queue)
    /\ call' = [op |-> "drop_first_n", amount |-> n]
    /\ queue' = SubSeq(queue, n + 1, Len(queue))

\* The appended copy is a substring of the queue as it was before the call.
ExtendFromWithin(start, len) ==
    /\ start + len <= Len(queue)
    /\ call' = [op |-> "extend_from_within", start |-> start, len |-> len]
    /\ queue' = queue \o SubSeq(queue, start + 1, start + len)

Clear ==
    /\ call' = [op |-> "clear"]
    /\ queue' = <<>>

Next ==
    \/ \E n \in 0..MaxCall : Reserve(n) \/ DropFirstN(n)
    \/ \E data \in Payloads : Extend(data)
    \/ \E byte \in Byte : PushBack(byte)
    \/ \E start, len \in 0..MaxCall : ExtendFromWithin(start, len)
    \/ Clear

Spec == Init /\ [][Next]_vars
=============================================================================
