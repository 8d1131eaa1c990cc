--------------------------- MODULE MCBlockClient ---------------------------
(* The client on every byte stream of at most MaxStream bytes.             *)
EXTENDS BlockClient

CONSTANT MaxStream       \* bound: length of the stream

\* A message with data, one of zeros only, and one with a full block.
MCMessages == {<<1, 0>>, <<0, 0>>, <<1, 2, 0>>}

MCStreams == UNION {[1 .. n -> Byte] : n \in 0 .. MaxStream}
===========================================================================
