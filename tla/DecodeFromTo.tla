---------------------------- MODULE DecodeFromTo ----------------------------
(***************************************************************************)
(* FrameDecoder::decode_from_to: the slice-to-slice interface.  The caller *)
(* holds the source and moves on by the number of bytes each call reports; *)
(* the decoder sees one slice at a time and must not lose its place when a *)
(* slice ends inside a header, a block or the checksum.                    *)
(***************************************************************************)
EXTENDS FrameDecoder

VARIABLE offered  \* the next slice ends behind this: the last one led nowhere

ftVars == <<source, state, dicts, call, ret, collected, offered>>

FtInit == Init /\ offered = 0

ChecksumPending == state # None /\ state.header.checksum /\ state.frame_finished /\ ~state.check_sum

CallWith(at, end, room, before) ==
    [op |-> "from_to", at |-> at, end |-> end, room |-> room,
     bytes_read_at_start |-> before]

\* The slice from the caller's position to end, and a target of room bytes.
Slice(end) == end \in source.pos..source.end /\ end >= offered

Reject(result) == call' = Idle /\ ret' = Err("from_to", result)

\* The first call reads the frame header.
CallInit(end, room) ==
    /\ call = Idle /\ state = None /\ AtFrame /\ Slice(end)
    /\ LET f == NextFrame
           slice == [source EXCEPT !.end = end]
           e == IF ~Has(slice, f.header) \/ f.kind = "bad" THEN "ReadFrameHeaderError"
                ELSE IF f.kind = "skippable" THEN "SkipFrame"
                ELSE IF f.dict \notin dicts \cup {NoDict} THEN "DictNotProvided" ELSE "ok"
       IN  /\ IF e \in {"ok", "DictNotProvided"}
              THEN state' = Fresh(f, IF e = "ok" THEN f.dict ELSE NoDict) /\ collected' = 0
              ELSE UNCHANGED <<state, collected>>
           /\ source' = IF e = "ReadFrameHeaderError" /\ f.kind # "bad" THEN source
                        ELSE [source EXCEPT !.cur = @ + 1, !.usable = (e = "ok")]
           /\ IF e = "ok"
              THEN call' = CallWith(source.pos + f.header, end, room, 0) /\ UNCHANGED <<ret, offered>>
              ELSE Reject(e) /\ offered' = Smaller(end + 1, source.end)
    /\ UNCHANGED dicts

\* Mutant: the bytes of the checksum are reported, not counted.
CallChecksum_Uncounted(end) ==
    /\ call = Idle /\ InFrame /\ ChecksumPending /\ Slice(end)
    /\ IF end - source.pos >= Checksum
       THEN state' = [state EXCEPT !.check_sum = TRUE]
       ELSE UNCHANGED state
    /\ source' = Advanced(source, Checksum)
    /\ ret' = Ok("from_to", Checksum) /\ offered' = 0
    /\ UNCHANGED <<dicts, call, collected>>

\* The checksum was not in the slice of the call that decoded the last block.
\* Four bytes are reported as read whether or not there were four.
CallChecksum(end) ==
    /\ call = Idle /\ InFrame /\ ChecksumPending /\ Slice(end)
    /\ IF end - source.pos >= Checksum
       THEN state' = [state EXCEPT !.bytes_read_counter = @ + Checksum, !.check_sum = TRUE]
       ELSE UNCHANGED state
    /\ source' = Advanced(source, Checksum)
    /\ ret' = Ok("from_to", Checksum) /\ offered' = 0
    /\ UNCHANGED <<dicts, call, collected>>

\* A finished frame is only read from.
Call(end, room) ==
    /\ call = Idle /\ InFrame /\ ~ChecksumPending /\ Slice(end)
    /\ call' = CallWith(IF IsFinished THEN end ELSE source.pos, end, room, state.bytes_read_counter)
    /\ UNCHANGED <<source, state, dicts, ret, collected, offered>>

-----------------------------------------------------------------------------
Left == call.end - call.at
At   == call.at - FrameStart(source.frames, source.cur)

\* Mutant: a block that ends with the slice waits for another one.
BlockIsThere_Strict ==
    /\ ~state.frame_finished
    /\ Left >= BlockHeader
    /\ Left > IF BlockAt(At).kind = "reserved" THEN BlockHeader ELSE BlockSize(BlockAt(At))

\* The loop goes on while the frame has not ended and header and body of the
\* next block are in the slice.
BlockIsThere ==
    /\ ~state.frame_finished
    /\ Left >= BlockHeader
    /\ Left >= IF BlockAt(At).kind = "reserved" THEN BlockHeader ELSE BlockSize(BlockAt(At))

InLoop == call.op = "from_to" /\ BlockIsThere

BlockFails ==
    /\ InLoop /\ BlockAt(At).kind # "good"
    /\ IF BlockAt(At).kind = "reserved"
       THEN UNCHANGED state /\ Reject("FailedToReadBlockHeader")
       ELSE /\ \E n \in 0..BlockAt(At).size :
                  state' = [state EXCEPT !.bytes_read_counter = @ + BlockHeader, !.buffered = @ + n]
            /\ Reject("FailedToReadBlockBody")
    /\ source' = [source EXCEPT !.usable = FALSE]
    /\ UNCHANGED <<dicts, collected, offered>>

BlockDecoded ==
    /\ InLoop /\ BlockAt(At).kind = "good" /\ ~IsLastAt(At)
    /\ state' = WithBlock(BlockAt(At))
    /\ call' = [call EXCEPT !.at = @ + BlockSize(BlockAt(At))]
    /\ UNCHANGED <<source, dicts, ret, collected, offered>>

LastBlockDecoded ==
    /\ InLoop /\ BlockAt(At).kind = "good" /\ IsLastAt(At)
    /\ LET n == BlockSize(BlockAt(At))
           s == [WithBlock(BlockAt(At)) EXCEPT !.frame_finished = TRUE]
           sum == state.header.checksum /\ Left - n >= Checksum
       IN  /\ state' = IF sum
                       THEN [s EXCEPT !.bytes_read_counter = @ + Checksum, !.check_sum = TRUE]
                       ELSE s
           /\ call' = [call EXCEPT !.at = @ + n]
    /\ UNCHANGED <<source, dicts, ret, collected, offered>>

\* read() into the target; the caller moves on by the bytes reported.
Returns ==
    /\ call.op = "from_to" /\ ~BlockIsThere
    /\ LET written == Smaller(call.room, Readable)
           read == state.bytes_read_counter - call.bytes_read_at_start
       IN  /\ state' = [state EXCEPT !.buffered = @ - written]
           /\ collected' = collected + written
           /\ source' = Advanced(source, read)
           /\ ret' = Ok("from_to", read)
           /\ offered' = IF read = 0 /\ written = 0 THEN Smaller(call.end + 1, source.end) ELSE 0
           /\ call' = Idle
    /\ UNCHANGED dicts

FrameDone == state # None /\ IsFinished /\ CanCollect = 0

\* The caller goes on to the next frame.
NextFrameReset ==
    /\ FrameDone
    /\ Reset /\ offered' = 0

Library == BlockFails \/ BlockDecoded \/ LastBlockDecoded \/ Returns

Caller(end) ==
    \/ CallChecksum(end)
    \/ \E room \in ReadSizes : CallInit(end, room) \/ Call(end, room)

FtNext == Library \/ NextFrameReset \/ \E end \in 0..source.end : Caller(end)

FtSpec == FtInit /\ [][FtNext]_ftVars

\* Callers that offer at least the four bytes of a checksum they still owe, and
\* turn to the next frame when they have all of this one.
CarefulCaller(end) ==
    /\ ChecksumPending => end - source.pos >= Checksum
    /\ ~FrameDone
    /\ Caller(end)

CarefulCalls == NextFrameReset \/ \E end \in 0..source.end : CarefulCaller(end)

CarefulNext == Library \/ CarefulCalls

-----------------------------------------------------------------------------
\* frame_decoder.rs: "Returns (read, written)": no more is read than was offered.
ReadsOnlyWhatIsOffered == source.pos <= source.end

Intact ==
    /\ source.end = FrameStart(source.frames, Len(source.frames) + 1)
    /\ \A i \in 1..Len(source.frames) :
          LET f == source.frames[i]
          IN  /\ f.kind = "zstd" /\ f.dict \in dicts \cup {NoDict} /\ f.window <= MaxWindow
              /\ \A k \in 1..Len(f.blocks) : f.blocks[k].kind = "good"

\* A caller that offers more whenever a call led nowhere gets every frame of an
\* intact source.
EverythingArrives ==
    Intact => <>(source.cur = Len(source.frames) /\ state # None /\ IsFinished
                   /\ collected = ContentSize(state.header))
=============================================================================
