---- MODULE MCInterfaces ----
\* Interfaces on inputs of up to three frames, cut off after any byte: those of
\* MCFrameDecoder, and one with blocks that are empty, larger than the window
\* and smaller than a read.  Block by block there are more ways to go wrong, with
\* one frame to a source.
EXTENDS MCFrameDecoder, Interfaces

Long == Frame(2, TRUE, NoDict, <<Block(1, 4), Block(1, 0), Block(1, 3), Block(1, 4)>>)

MCDirect == {<<Checked>>, <<WithDict, Skippable>>, <<BigWindow>>, <<Foreign>>, <<Reserved>>}

MCWhole == {<<Plain, Skippable>>, <<WithDict, Small>>, <<BigWindow>>, <<Corrupt>>}

MCStreams == {<<Long>>, <<Skippable, Plain, Skippable>>, <<Small, Plain>>,
              <<BigWindow, Plain>>, <<WithDict, BigWindow>>, <<Corrupt>>}

MCInputs == MCDirect \cup MCStreams \cup MCWhole

MCInputsOf(i) == IF i = "direct" THEN MCDirect ELSE IF i = "all" THEN MCWhole ELSE MCStreams
====
