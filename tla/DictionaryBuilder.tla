-------------------------- MODULE DictionaryBuilder --------------------------
(***************************************************************************)
(* create_raw_dict_from_source (dictionary/mod.rs): a sample of the source *)
(* is taken (reservoir.rs), the best segment of it is put into a pool once *)
(* for every piece of the rest of the source (cover.rs), and the pool is   *)
(* the dictionary.  Bytes are named by their place in the source, from 1;  *)
(* 0 is a byte of the lake nobody has read.  What a segment scores is some *)
(* function of the sample.                                                 *)
(***************************************************************************)
EXTENDS Integers, Sequences, FiniteSetsExt

CONSTANTS Calls,    \* calls: [length of the source, source_size, dict_size]
          Gives,    \* how many bytes a source may give at once
          Fails,    \* whether a source may fail
          MaxScore  \* bound of scores

K           == 16
SegmentSize == 2048
EpochBytes  == 100          \* the length of current_epoch

VARIABLES call,
          phase,
          given,            \* how many bytes of the source have been read
          lake, total,      \* the sample, and how many bytes it took
          scores,           \* what each segment of the sample scores
          pool,             \* lengths and scores of the segments picked
          written           \* how many bytes went to the output

vars == <<call, phase, given, lake, total, scores, pool, written>>

Least3(a, b, c) == Min({a, b, c})

Init ==
    /\ call \in Calls /\ phase = "start"
    /\ given = 0 /\ lake = <<>> /\ total = 0 /\ scores = <<>> /\ pool = <<>> /\ written = 0

\* How much one read of up to n bytes gets: nothing only at the end.
Reads(n) == {Least3(n, g, call.length - given) : g \in Gives}

-----------------------------------------------------------------------------
(* The sample                                                              *)

\* Less than one segment is a division by zero, and less than 16 bytes no size
\* for a reservoir.
StartSample ==
    LET num_segments == call.source_size \div SegmentSize
        least        == Min({call.source_size \div (2 * num_segments), 256})
        size         == call.source_size \div least
    IN  /\ phase = "start"
        /\ IF num_segments = 0 \/ size < 16
           THEN phase' = "panicked" /\ UNCHANGED lake
           ELSE phase' = "filling" /\ lake' = [i \in 1..size |-> 0]
        /\ UNCHANGED <<call, given, total, scores, pool, written>>

Resized(bytes, n) == [i \in 1..n |-> IF i <= Len(bytes) THEN bytes[i] ELSE 0]

\* Every read starts at the front of the lake.
FillLake ==
    \E n \in Reads(Len(lake)) :
       LET read == [i \in 1..Len(lake) |-> IF i <= n THEN given + i ELSE lake[i]]
           full == total + n = Len(lake)
       IN  /\ phase = "filling"
           /\ given' = given + n /\ total' = total + n
           /\ lake' = IF n = 0 /\ ~full THEN Resized(read, total) ELSE read
           /\ phase' = IF full THEN "sampling" ELSE phase
           /\ UNCHANGED <<call, scores, pool, written>>

Segments == (Len(lake) + SegmentSize - 1) \div SegmentSize

SegmentLen(s) == Min({SegmentSize, Len(lake) - (s - 1) * SegmentSize})

\* The first chunk that is skipped is read into a vector of length 0, which ends
\* the loop.  Only an empty lake begins with a chunk that is kept, and then there
\* is none to choose.
Sample ==
    LET end_of_lake == (Len(lake) + K - 1) \div K
    IN  /\ phase = "sampling"
        /\ IF end_of_lake \div K = Len(lake)
           THEN phase' = "panicked" /\ UNCHANGED scores
           ELSE phase' = "epochs" /\ scores' \in [1..Segments -> 0..MaxScore]
        /\ UNCHANGED <<call, given, lake, total, pool, written>>

\* An error ends the first loop as if the lake were full; the second expects none.
ReadFails ==
    /\ Fails /\ phase \in {"filling", "epochs"}
    /\ phase' = IF phase = "filling" THEN "sampling" ELSE "panicked"
    /\ UNCHANGED <<call, given, lake, total, scores, pool, written>>

-----------------------------------------------------------------------------
(* The segments                                                            *)

\* pick_best_segment: the first of those that score most.
BestSegment == Min({s \in 1..Segments : scores[s] = Max({scores[t] : t \in 1..Segments})})

\* score_segment counts from 0 to len - K - 1.
CanBeScored(s) == SegmentLen(s) - K - 1 >= 0

\* A piece of the source is read and not looked at; its segment is one of the
\* sample.
PickSegment ==
    \E n \in Reads(EpochBytes) :
       /\ phase = "epochs" /\ n > 0
       /\ given' = given + n
       /\ IF \A s \in 1..Segments : CanBeScored(s)
          THEN /\ pool' = Append(pool, [len |-> SegmentLen(BestSegment), score |-> scores[BestSegment]])
               /\ UNCHANGED phase
          ELSE phase' = "panicked" /\ UNCHANGED pool
       /\ UNCHANGED <<call, lake, total, scores, written>>

EndOfSource ==
    /\ phase = "epochs" /\ 0 \in Reads(EpochBytes)
    /\ phase' = "writing"
    /\ UNCHANGED <<call, given, lake, total, scores, pool, written>>

\* The one that scores least first.
WriteSegment ==
    /\ phase = "writing" /\ pool # <<>>
    /\ \E i \in DOMAIN pool :
          /\ \A j \in DOMAIN pool : pool[i].score <= pool[j].score
          /\ written' = written + pool[i].len
          /\ pool' = SubSeq(pool, 1, i - 1) \o SubSeq(pool, i + 1, Len(pool))
    /\ UNCHANGED <<call, phase, given, lake, total, scores>>

Finish ==
    /\ phase = "writing" /\ pool = <<>>
    /\ phase' = "done"
    /\ UNCHANGED <<call, given, lake, total, scores, pool, written>>

Next == StartSample \/ FillLake \/ Sample \/ ReadFails \/ PickSegment \/ EndOfSource \/ WriteSegment \/ Finish

Spec == Init /\ [][Next]_vars

-----------------------------------------------------------------------------
\* "The completed dictionary will be this size or smaller": what
\* create_raw_dict_from_source writes is never more than dict_size.
DictionaryFits == written <= call.dict_size
=============================================================================
