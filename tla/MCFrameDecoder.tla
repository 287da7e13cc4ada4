---- MODULE MCFrameDecoder ----
\* Frames for FrameDecoder: with and without checksum, a skippable, a damaged and
\* a foreign one, one with a window that is too big, one that needs a dictionary.
EXTENDS FrameDecoder

CONSTANT d

Block(body, size) == [kind |-> "good", body |-> body, size |-> size]
Frame(window, checksum, dict, blocks) ==
    [kind |-> "zstd", header |-> 2, skipped |-> 0, window |-> window,
     checksum |-> checksum, dict |-> dict, blocks |-> blocks]

Plain     == Frame(1, FALSE, NoDict, <<Block(2, 2), Block(1, 3)>>)
Checked   == Frame(2, TRUE,  NoDict, <<Block(1, 3), Block(1, 0), Block(1, 1)>>)
Small     == Frame(1, TRUE,  NoDict, <<Block(1, 2)>>)
WithDict  == Frame(1, FALSE, d,      <<Block(1, 2)>>)
BigWindow == Frame(3, FALSE, NoDict, <<Block(1, 1)>>)
Reserved  == Frame(1, FALSE, NoDict, <<Block(1, 2), [Block(1, 1) EXCEPT !.kind = "reserved"]>>)
Corrupt   == Frame(1, TRUE,  NoDict, <<Block(1, 2), [Block(2, 2) EXCEPT !.kind = "corrupt"]>>)
Skippable == [Frame(0, FALSE, NoDict, <<>>) EXCEPT !.kind = "skippable", !.header = 8, !.skipped = 2]
Foreign   == [Frame(0, FALSE, NoDict, <<>>) EXCEPT !.kind = "bad"]

MCStrategies == {[kind |-> "All", n |-> 0], [kind |-> "UptoBlocks", n |-> 1],
                 [kind |-> "UptoBytes", n |-> 2]}
====
