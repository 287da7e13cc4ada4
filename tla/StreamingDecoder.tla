-------------------------- MODULE StreamingDecoder --------------------------
(***************************************************************************)
(* decoding/streaming_decoder.rs: io::Read over a FrameDecoder and its     *)
(* source.  A read decodes until as many bytes can be collected as were    *)
(* asked for, or the frame has ended.                                      *)
(***************************************************************************)
EXTENDS FrameDecoder

Streaming(n) == [op |-> "stream", n |-> n]

\* new, or new_with_decoder with the decoder of the frame before, taken back when
\* its end was seen.  The caller has its StreamingDecoder only when init succeeds.
New ==
    /\ state = None \/ (ret = Ok("stream", 0) /\ IsFinished /\ CanCollect = 0)
    /\ Reset

Usable == source.usable /\ state # None /\ ret.result = "ok"

\* Mutant: either condition ends the stream.
StreamRead_Or(n) ==
    /\ call = Idle /\ Usable
    /\ IF IsFinished \/ CanCollect = 0
       THEN ret' = Ok("stream", 0) /\ UNCHANGED call
       ELSE ret' = Ok("called", n) /\ call' = Streaming(n)
    /\ UNCHANGED <<source, state, dicts, collected>>

StreamRead(n) ==
    /\ call = Idle /\ Usable
    /\ IF IsFinished /\ CanCollect = 0
       THEN ret' = Ok("stream", 0) /\ UNCHANGED call
       ELSE ret' = Ok("called", n) /\ call' = Streaming(n)
    /\ UNCHANGED <<source, state, dicts, collected>>

NeedsMore == CanCollect < call.n /\ ~IsFinished

\* Mutant: asks for the whole slice again in every round.
Needed_All == call.n

Needed == call.n - CanCollect

\* One round of the while loop.
DecodeMore ==
    /\ call.op = "stream" /\ ret.result = "ok" /\ NeedsMore
    /\ DecodeBlocks([kind |-> "UptoBytes", n |-> Needed], call)

\* Mutant: the error is dropped and the loop goes on.
StreamFails_Dropped ==
    /\ call.op = "stream" /\ ret.result # "ok"
    /\ ret' = Ok("called", call.n)
    /\ UNCHANGED <<source, state, dicts, call, collected>>

\* decode_blocks has failed.
StreamFails ==
    /\ call.op = "stream" /\ ret.result # "ok"
    /\ call' = Idle /\ ret' = Err("stream", ret.result)
    /\ UNCHANGED <<source, state, dicts, collected>>

StreamReturns ==
    /\ call.op = "stream" /\ ret.result = "ok" /\ ~NeedsMore
    /\ Take(Smaller(call.n, Readable))
    /\ call' = Idle /\ ret' = Ok("stream", Smaller(call.n, Readable))

Library == DecodeMore \/ BlockStep \/ StreamFails \/ StreamReturns
Reader  == New \/ \E n \in ReadSizes : StreamRead(n)

StreamNext == Library \/ Reader

-----------------------------------------------------------------------------
MaxRead == CHOOSE n \in ReadSizes : \A m \in ReadSizes : m <= n

Largest(f) == CHOOSE n \in {f.blocks[k].size : k \in 1..Len(f.blocks)} :
                 \A k \in 1..Len(f.blocks) : f.blocks[k].size <= n

\* However long the frame, the decoder never holds more than its window, the
\* slice asked for and one block.
MemoryIsBounded ==
    state # None =>
        state.buffered < state.header.window + MaxRead + Largest(state.header)

\* A read falls short of its slice only at the end of the frame: nothing is
\* left and everything was handed out.  In particular Ok(0) means the end, but
\* to those who read into an empty slice.
ShortReadOnlyAtEnd ==
    [][ret'.op = "stream" /\ ret'.result = "ok"
         /\ (call = Idle \/ (call.op = "stream" /\ ret'.n < call.n))
         => IsFinished' /\ state'.buffered = 0 /\ collected' = ContentSize(state.header)]_vars

\* The first n frames of the source are there, whole and readable.
Intact(n) ==
    /\ n <= Len(source.frames) /\ source.end >= FrameStart(source.frames, n + 1)
    /\ \A i \in 1..n :
          LET f == source.frames[i]
          IN  /\ f.kind = "zstd" /\ f.dict \in dicts \cup {NoDict}
              /\ i > 1 => f.window <= MaxWindow
              /\ \A k \in 1..Len(f.blocks) : f.blocks[k].kind = "good"

\* Reading intact frames one after the other, with one decoder, ends with the last
\* of them and all of its content, whatever stands behind it.
IntactFrameIsRead ==
    Intact(1) => <>(/\ ret = Ok("stream", 0) /\ collected = ContentSize(source.frames[source.cur])
                    /\ ~Intact(source.cur + 1))
=============================================================================
