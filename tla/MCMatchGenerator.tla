---- MODULE MCMatchGenerator ----
\* MatchGenerator on blocks of up to four bytes of two kinds, two slices in the
\* window, matches of two bytes at least, and a hash that collides.
EXTENDS MatchGenerator

MCSpaces == {<<0, 0, 1, 0>>, <<0, 1, 0, 1>>, <<1, 1, 1, 0>>, <<1, 0, 0, 1>>, <<0, 0, 0, 0>>,
             <<0>>, <<1, 1, 0>>, <<0, 1>>}

MCSlot(key, slots) == (2 * key[1] + key[2]) % slots
====
