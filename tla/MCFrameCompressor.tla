---- MODULE MCFrameCompressor ----
\* FrameCompressor on every input of up to four bytes of two kinds and three
\* longer ones, in spaces of two and four bytes; more than one literal is
\* Huffman coded.
EXTENDS FrameCompressor

MCInputs == UNION {[1..n -> {"a", "b"}] : n \in 0..4}
              \cup {<<"a", "b", "a", "a", "a", "b">>, <<"b", "a", "b", "b", "b", "b", "a">>,
                    <<"a", "b", "a", "b", "a", "a", "b">>}
====
