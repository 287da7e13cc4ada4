---------------------------- MODULE DecodeBuffer ----------------------------
(***************************************************************************)
(* decoding/decode_buffer.rs: the window of decoded bytes.  Literals and   *)
(* matches are appended to a ring; callers drain it through sinks that may *)
(* stop early; the content hash is fed on the way out.  While little has   *)
(* been output, a match may reach back into the dictionary.                *)
(*                                                                         *)
(* "out" and "drained" are history: the bytes the calls made so far stand  *)
(* for, by the definition of a match on the whole history, and the bytes   *)
(* the callers' sinks were given.  The hash is the sequence of bytes it    *)
(* was fed.                                                                *)
(***************************************************************************)
EXTENDS Ring

CONSTANTS Windows,    \* window sizes of the frames
          Dicts,      \* dictionary contents
          Payloads,   \* literals of one push
          MaxOffset,  \* bound: the largest match offset
          MaxMatch,   \* bound: the longest match
          MaxOut      \* bound: bytes output by one frame

ASSUME WindowsAssumption == Windows \subseteq Nat
ASSUME DictsAssumption == Dicts \subseteq Seq(Byte)
ASSUME PayloadsAssumption == Payloads \subseteq Seq(Byte)
ASSUME BoundsAssumption == MaxOffset \in Nat /\ MaxMatch \in Nat /\ MaxOut \in Nat

VARIABLES buffer, dict_content, window_size, total_output_counter, hash,
          finished,  \* the frame decoder has seen the last block
          last,      \* the last call and what it returned
          conforming,  \* no match so far was one the format forbids
          out, drained

vars == <<buffer, dict_content, window_size, total_output_counter, hash,
          finished, last, conforming, out, drained>>

frame == <<dict_content, window_size, finished>>

Init ==
    /\ window_size \in Windows
    /\ buffer = NewRing /\ dict_content = <<>> /\ total_output_counter = 0
    /\ hash = <<>> /\ finished = FALSE /\ conforming = TRUE
    /\ last = [op |-> "new"] /\ out = <<>> /\ drained = <<>>

\* reset, for the next frame: the ring keeps its allocation.
Reset(w) ==
    /\ Fits(Cleared(buffer), w)
    /\ window_size' = w
    /\ buffer' = Reserved(Cleared(buffer), w)
    /\ dict_content' = <<>> /\ total_output_counter' = 0 /\ hash' = <<>>
    /\ finished' = FALSE /\ conforming' = TRUE /\ last' = [op |-> "reset"] /\ out' = <<>> /\ drained' = <<>>

\* DecoderScratch::init_from_dict: the frame decoder calls it before it decodes
\* a block, force_dict at any time.
InitFromDict(d) ==
    /\ dict_content' = d
    /\ last' = [op |-> "init_from_dict"]
    /\ UNCHANGED <<buffer, window_size, total_output_counter, hash, finished, conforming, out, drained>>

Push(data) ==
    /\ ~finished /\ Len(out) + Len(data) <= MaxOut /\ Fits(buffer, Len(data))
    /\ buffer' = Extended(buffer, data)
    /\ total_output_counter' = total_output_counter + Len(data)
    /\ out' = out \o data
    /\ last' = [op |-> "push"]
    /\ UNCHANGED <<frame, hash, conforming, drained>>

-----------------------------------------------------------------------------
(* repeat                                                                  *)

\* What a match means: it copies, byte after byte, from "offset" back in the
\* history, and so repeats itself when it is longer than the offset.
Match(history, offset, len) ==
    [i \in 1..len |-> history[Len(history) - offset + 1 + ((i - 1) % offset)]]

\* Mutant: the last chunk is as long as the others.
Chunks_WholeChunks(r, offset, len) ==
    [k \in 1..((len + offset - 1) \div offset) |->
       [start |-> RingLen(r) - offset + (k - 1) * offset, len |-> offset]]

\* The copies repeat makes inside the ring: one, or chunks of "offset" bytes.
Chunks(r, offset, len) ==
    LET start == RingLen(r) - offset
        count == (len + offset - 1) \div offset
    IN  IF start + len <= RingLen(r)
        THEN <<[start |-> start, len |-> len]>>
        ELSE [k \in 1..count |-> [start |-> start + (k - 1) * offset,
                                  len   |-> Least(offset, len - (k - 1) * offset)]]

\* The ring after each of the copies, the state before the first one at 0.
AfterChunks(r, chunks) ==
    LET ring[k \in 0..Len(chunks)] ==
            IF k = 0 THEN r ELSE CopiedWithin(ring[k - 1], chunks[k].start, chunks[k].len)
    IN  ring

Repeated(r, offset, len) ==
    LET chunks == Chunks(r, offset, len)
    IN  AfterChunks(Reserved(r, len), chunks)[Len(chunks)]

\* The offsets the format allows at this point of a frame: into the
\* dictionary while no more than a window has been output, within the window
\* after that.
Conforming(offset) ==
    IF Len(out) <= window_size THEN offset <= Len(dict_content) + Len(out)
                               ELSE offset <= window_size

Matched(offset, len) ==
    /\ out' = out \o Match(dict_content \o out, offset, len)
    /\ conforming' = (conforming /\ Conforming(offset))
    /\ last' = [op |-> "repeat", offset |-> offset, result |-> "ok"]
    /\ UNCHANGED <<frame, hash, drained>>

Accepts(offset, len) == ~finished /\ Len(out) + len <= MaxOut /\ Fits(buffer, len)

RepeatInBuffer(offset, len) ==
    /\ Accepts(offset, len)
    /\ offset <= RingLen(buffer)
    /\ buffer' = Repeated(buffer, offset, len)
    /\ total_output_counter' = total_output_counter + len
    /\ Matched(offset, len)

\* repeat_from_dict: how much of the match lies before the buffer.
BytesFromDict(offset) == offset - RingLen(buffer)

\* Mutant: the dictionary is dropped one byte early.
DictReachable_Early(offset) ==
    /\ offset > RingLen(buffer)
    /\ total_output_counter < window_size
    /\ BytesFromDict(offset) <= Len(dict_content)

DictReachable(offset) ==
    /\ offset > RingLen(buffer)
    /\ total_output_counter <= window_size
    /\ BytesFromDict(offset) <= Len(dict_content)

DictTail(n) == SubSeq(dict_content, Len(dict_content) - n + 1, Len(dict_content))

\* The match starts in the dictionary and goes on at the start of the buffer.
RepeatAcrossDict(offset, len) ==
    /\ Accepts(offset, len)
    /\ DictReachable(offset) /\ BytesFromDict(offset) < len
    /\ LET n == BytesFromDict(offset)
           r == Extended(buffer, DictTail(n))
       IN  /\ Fits(r, len - n)
           /\ buffer' = Repeated(r, RingLen(r), len - n)
           /\ total_output_counter' = total_output_counter + n + (len - n)
    /\ Matched(offset, len)

\* The whole match lies in the dictionary.  The counter is not advanced.
RepeatInDict(offset, len) ==
    /\ Accepts(offset, len)
    /\ DictReachable(offset) /\ BytesFromDict(offset) >= len
    /\ buffer' = Extended(buffer, SubSeq(DictTail(BytesFromDict(offset)), 1, len))
    /\ UNCHANGED total_output_counter
    /\ Matched(offset, len)

RepeatFails(offset) ==
    /\ ~finished /\ offset > RingLen(buffer) /\ ~DictReachable(offset)
    /\ last' = [op |-> "repeat", offset |-> offset,
                result |-> IF total_output_counter > window_size
                           THEN "OffsetTooBig" ELSE "NotEnoughBytesInDictionary"]
    /\ UNCHANGED <<frame, hash, drained, buffer, total_output_counter, conforming, out>>

Repeat(offset, len) ==
    RepeatInBuffer(offset, len) \/ RepeatAcrossDict(offset, len) \/ RepeatInDict(offset, len)

-----------------------------------------------------------------------------
(* Draining                                                                *)

\* Mutant: gives away one byte of the window.
CanDrainToWindowSize_OneMore ==
    IF RingLen(buffer) >= window_size /\ RingLen(buffer) > 0
    THEN RingLen(buffer) - window_size + 1 ELSE 0

CanDrainToWindowSize ==
    IF RingLen(buffer) > window_size THEN RingLen(buffer) - window_size ELSE 0

\* Mutant: the hash takes the whole first slice, however little was written.
Hashed_WholeSlice(s1, s2, k1, k2) == s1 \o SubSeq(s2, 1, k2)

\* What the hash and the sink see of the two slices, k1 and k2 bytes of them.
Hashed(s1, s2, k1, k2)    == SubSeq(s1, 1, k1) \o SubSeq(s2, 1, k2)
Delivered(s1, s2, k1, k2) == SubSeq(s1, 1, k1) \o SubSeq(s2, 1, k2)

\* Mutant: the guard drops what was asked for, not what was written.
DropAfterDrain_Asked(amount, written) == Dropped(buffer, amount)

\* DrainGuard::drop.
DropAfterDrain(amount, written) ==
    IF written = 0 THEN buffer ELSE Dropped(buffer, written)

\* A sink took k of n bytes: all of them, or it stopped with Ok(0) or an error.
SinkTakes(k, n, ok) == k \in 0..n /\ (k = n => ok)

DrainTo(amount, k1, ok1, k2, ok2) ==
    LET n1 == Least(Len(FirstSlice(buffer)), amount)
        n2 == Least(Len(SecondSlice(buffer)), amount - n1)
        s1 == SubSeq(FirstSlice(buffer), 1, n1)
        s2 == SubSeq(SecondSlice(buffer), 1, n2)
    IN  /\ amount > 0
        /\ SinkTakes(k1, n1, ok1)
        /\ IF ok1 /\ k1 = n1 THEN SinkTakes(k2, n2, ok2) ELSE k2 = 0 /\ ok2
        /\ buffer' = DropAfterDrain(amount, k1 + k2)
        /\ hash' = hash \o Hashed(s1, s2, k1, k2)
        /\ drained' = drained \o Delivered(s1, s2, k1, k2)
        /\ last' = [op |-> "drain", result |-> IF ok1 /\ ok2 THEN "ok" ELSE "error"]
        /\ UNCHANGED <<frame, total_output_counter, conforming, out>>

\* The sink is a slice or a Vec, which take everything.
DrainFully(amount) == \E k1, k2 \in 0..amount :
    k1 + k2 = amount /\ DrainTo(amount, k1, TRUE, k2, TRUE)

DrainToSink(amount) == \E k1, k2 \in 0..amount, ok1, ok2 \in BOOLEAN :
    DrainTo(amount, k1, ok1, k2, ok2)

Read(n)              == DrainFully(Least(CanDrainToWindowSize, n))
DrainToWindowSize    == DrainFully(CanDrainToWindowSize)
DrainToWindowSizeWriter == DrainToSink(CanDrainToWindowSize)

\* The frame decoder gives up the window only once the frame has ended.
ReadAll(n)    == finished /\ DrainFully(Least(RingLen(buffer), n))
DrainToWriter == finished /\ DrainToSink(RingLen(buffer))

Drain ==
    /\ finished
    /\ hash' = hash \o FirstSlice(buffer) \o SecondSlice(buffer)
    /\ drained' = drained \o Content(buffer)
    /\ buffer' = Cleared(buffer)
    /\ last' = [op |-> "drain", result |-> "ok"]
    /\ UNCHANGED <<frame, total_output_counter, conforming, out>>

\* The frame decoder has decoded the last block.
Finish ==
    /\ ~finished /\ finished' = TRUE /\ last' = [op |-> "finish"]
    /\ UNCHANGED <<buffer, dict_content, window_size, total_output_counter, hash, conforming, out, drained>>

-----------------------------------------------------------------------------
DrainSome ==
    \/ \E n \in 1..MaxMatch : Read(n) \/ ReadAll(n)
    \/ DrainToWindowSize \/ DrainToWindowSizeWriter \/ DrainToWriter \/ Drain

Frames == (\E w \in Windows : Reset(w)) \/ (\E d \in Dicts : InitFromDict(d)) \/ Finish

\* Any stream of sequences, damaged ones included.
Next ==
    \/ Frames \/ DrainSome
    \/ \E data \in Payloads : Push(data)
    \/ \E offset \in 1..MaxOffset, len \in 1..MaxMatch : Repeat(offset, len)
    \/ \E offset \in 1..MaxOffset : RepeatFails(offset)

Spec == Init /\ [][Next]_vars

-----------------------------------------------------------------------------
\* While no match has an offset the format forbids, what callers were given and
\* what the buffer still holds is, in order and without gaps, what the
\* sequences stand for: through dictionary matches, overlapping copies, growth
\* of the ring, and sinks that stop anywhere.
NothingLostOrReordered == conforming => drained \o Content(buffer) = out

\* The content checksum covers exactly the bytes that left the buffer, also
\* when a sink fails half-way through a slice.
HashCoversWhatLeft == hash = drained

\* Before the frame ends draining leaves every byte a conforming match may
\* refer to: the last window_size bytes, or all there are.
WindowIsKept == finished \/ RingLen(buffer) >= Least(window_size, Len(out))

\* The two requirements of the unsafe extend_from_within_unchecked hold at
\* every chunk repeat copies, for every offset within the buffer and length.
ChunksAreSafe ==
    \A offset \in 1..RingLen(buffer), len \in 1..MaxMatch :
        Fits(buffer, len) =>
            LET chunks == Chunks(buffer, offset, len)
                ring   == AfterChunks(Reserved(buffer, len), chunks)
            IN  \A k \in 1..Len(chunks) :
                   /\ chunks[k].start + chunks[k].len <= RingLen(ring[k - 1])
                   /\ chunks[k].len <= Free(ring[k - 1])

\* A match the format allows at this point of a frame is never refused, even
\* in a stream that has held offsets it does not allow.
ConformingMatchesSucceed ==
    [][last'.op = "repeat" /\ Conforming(last'.offset) => last'.result = "ok"]_vars
=============================================================================
