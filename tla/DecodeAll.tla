----------------------------- MODULE DecodeAll -----------------------------
(***************************************************************************)
(* FrameDecoder::decode_all and decode_all_to_vec: every frame of an input *)
(* into one output slice, or into the spare capacity of a vector.          *)
(***************************************************************************)
EXTENDS FrameDecoder

CONSTANTS Batch,    \* bytes asked of decode_blocks per round (1 MiB in the code)
          Outputs,  \* lengths of output slices and spare capacities
          Capacity  \* capacity of the vector

VARIABLE vec_len  \* length of the vector

allVars == <<source, state, dicts, call, ret, collected, vec_len>>

AllInit == Init /\ vec_len \in {Capacity - n : n \in Outputs}

\* len: the length of the vector when the call began.
DecodeAll(room, vec) ==
    /\ call = Idle /\ source.usable /\ source.pos = 0
    /\ call' = [op |-> "all", at |-> "init", vec |-> vec, len |-> vec_len,
                output |-> room, room |-> room, total |-> 0]
    /\ vec_len' = IF vec THEN Capacity ELSE vec_len
    /\ ret' = Ok("called", 0)
    /\ UNCHANGED <<source, state, dicts, collected>>

At(where) == call.op = "all" /\ call.at = where

\* What is returned, and what decode_all_to_vec makes of it.
Finish(result, n) ==
    /\ call' = Idle
    /\ ret' = [op |-> "all", result |-> result, n |-> n]
    /\ vec_len' = IF ~call.vec THEN vec_len
                  ELSE IF result = "ok" THEN Smaller(call.len + n, Capacity) ELSE call.len

InputEmpty ==
    /\ At("init") /\ source.pos = source.end
    /\ Finish("ok", call.total)
    /\ UNCHANGED <<source, state, dicts, collected>>

NextInit ==
    /\ At("init") /\ source.pos < source.end /\ AtFrame
    /\ LET result == ResetResult(NextFrame)
       IN  /\ ResetTo(NextFrame, result)
           /\ IF result \in {"ok", "SkipFrame"}
              THEN /\ call' = [call EXCEPT !.at = IF result = "ok" THEN "decode" ELSE "skip"]
                   /\ UNCHANGED <<ret, vec_len>>
              ELSE Finish(result, 0)

\* Mutant: a skippable frame at the very end is refused.
SkipFits_Strict(n) == source.pos + n < source.end

SkipFits(n) == Has(source, n)

Skip ==
    /\ At("skip")
    /\ LET n == source.frames[source.cur].skipped
       IN  IF SkipFits(n)
           THEN source' = Advanced(source, n) /\ call' = [call EXCEPT !.at = "init"]
                /\ UNCHANGED <<ret, vec_len>>
           ELSE source' = Spent(source) /\ Finish("FailedToSkipFrame", 0)
    /\ UNCHANGED <<state, dicts, collected>>

Decode ==
    /\ At("decode")
    /\ DecodeBlocks([kind |-> "UptoBytes", n |-> Batch], [call EXCEPT !.at = "drain"])
    /\ UNCHANGED vec_len

\* Mutant: what does not fit is dropped.
TooSmall_Never(n) == FALSE

\* can_collect is not 0 after n bytes have been read into the output.
TooSmall(n) ==
    IF IsFinished THEN state.buffered > n ELSE state.buffered > state.header.window + n

AfterRead(n) ==
    [call EXCEPT !.at = IF IsFinished THEN "init" ELSE "decode",
                 !.room = @ - n, !.total = @ + n]

Drain ==
    /\ At("drain")
    /\ IF ret.result # "ok"
       THEN Finish(ret.result, 0) /\ UNCHANGED <<source, state, dicts, collected>>
       ELSE LET n == Smaller(call.room, Readable)
            IN  /\ Take(n)
                /\ IF TooSmall(n) THEN Finish("TargetTooSmall", 0)
                   ELSE call' = AfterRead(n) /\ UNCHANGED <<ret, vec_len>>

Library == InputEmpty \/ NextInit \/ Skip \/ Decode \/ Drain \/ (BlockStep /\ UNCHANGED vec_len)

AllNext ==
    \/ Library
    \/ \E room \in Outputs : DecodeAll(room, FALSE)
    \/ DecodeAll(Capacity - vec_len, TRUE)
    \/ Sources /\ UNCHANGED vec_len

-----------------------------------------------------------------------------
\* What the output should be: the content of every frame of the input.
Content(frames, k) == Total([i \in 1..k |-> ContentSize(frames[i])])
Frames == Len(source.frames)

\* Success means that the input was a whole number of frames and the output is
\* all of their content, however the frames fall into rounds and windows;
\* TargetTooSmall that the content is larger than the output.  A vector has grown by
\* that content, cut off nowhere, and has its old length after any error.
AnswerIsTrue ==
    [][call.op = "all" /\ ret'.op = "all" =>
         /\ call.vec => vec_len' = call.len + (IF ret'.result = "ok" THEN ret'.n ELSE 0)
         /\ ret'.result = "ok" =>
               \E k \in 0..Frames : /\ source.end = FrameStart(source.frames, k + 1)
                                    /\ ret'.n = Content(source.frames, k)
         /\ ret'.result = "TargetTooSmall" => call.output < Content(source.frames, Frames)]_allVars

Intact(s) ==
    /\ s.end = FrameStart(s.frames, Len(s.frames) + 1)
    /\ \A i \in 1..Len(s.frames) :
          LET f == s.frames[i]
          IN  /\ f.kind # "bad"
              /\ f.kind = "skippable" \/ f.window <= MaxWindow
              /\ f.dict \in dicts \cup {NoDict}
              /\ \A k \in 1..Len(f.blocks) : f.blocks[k].kind = "good"

\* Frames that are intact and fit the output are decoded.
IntactInputIsDecoded ==
    [][call.op = "all" /\ ret'.op = "all" /\ Intact(source)
          /\ call.output >= Content(source.frames, Frames)
         => ret'.result = "ok"]_allVars
=============================================================================
