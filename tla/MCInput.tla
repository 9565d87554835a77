------------------------------ MODULE MCInput ------------------------------
(* Rings of two events, with counters that wrap around at four.            *)
EXTENDS Input

\* A letter, a shift key and the right control key, which sends two bytes.
MCKeys == {<<30>>, <<42>>, <<224, 29>>}

\* A move with the button down and both axes negative, and one that overflowed.
MCPackets == {<<57, 255, 1>>, <<72, 8, 8>>}
=============================================================================
