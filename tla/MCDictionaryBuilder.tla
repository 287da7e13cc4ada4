------------------------- MODULE MCDictionaryBuilder -------------------------
\* DictionaryBuilder on sources around the smallest that can be sampled.
EXTENDS DictionaryBuilder

MCCalls ==
    {[length |-> n, source_size |-> n, dict_size |-> d] : n \in {2047, 4095, 4096, 4352, 5000}, d \in {200, 1000}}
      \cup {[length |-> 0, source_size |-> 8704, dict_size |-> 200]}
=============================================================================
