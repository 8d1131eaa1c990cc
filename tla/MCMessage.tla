---------------------------- MODULE MCMessage ----------------------------
(* Instances of Message for TLC.                                          *)
EXTENDS Message

\* An empty content, incomplete and complete words, the longest with two words
\* of horizontal parity.
MCContents == {<<>>, <<0>>, <<9, 6>>, <<15, 0, 5>>}

\* What a segment server passes, and the zeros that shipfile passes.
MCIds == {<<18, 1, 7, 2>>, <<0, 0, 33, 0>>}
==========================================================================
