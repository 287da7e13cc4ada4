---- MODULE MCDecodeFromTo ----
\* DecodeFromTo on sources of up to two frames of MCFrameDecoder, in slices cut
\* anywhere.
EXTENDS MCFrameDecoder, DecodeFromTo

MCSlices == {<<Checked, Small>>, <<BigWindow, Plain>>, <<Skippable, WithDict>>,
             <<Small, Reserved>>, <<Corrupt>>, <<Small, Foreign>>, <<WithDict, Plain>>}
====
