------------------------------ MODULE Parity ------------------------------
(***************************************************************************)
(* Vertical and horizontal odd parity of a byte string,                    *)
(* justin-snapshot/src/parity.c.                                           *)
(*                                                                         *)
(* A byte has Bits bits (8 in the code), the vertical parity looks at      *)
(* words of VBytes bytes (32), the horizontal one at words of HBytes bytes *)
(* (4).  Bits and bytes are numbered from 0, as in the code.               *)
(*                                                                         *)
(* The vertical parity is an array of uint64, four for bytes of eight      *)
(* bits, and its masks are computed as (uint64)(1 << n) with an int 1: an  *)
(* int has half the bits of a uint64.  The shift count is a run-time value *)
(* and may exceed the width of int; the shift instructions of the machines *)
(* the program runs on (x86-64, arm64) then take it modulo that width, and *)
(* shifting into the sign bit fills the upper half of the uint64.          *)
(***************************************************************************)
EXTENDS Integers, Sequences, FiniteSets, FiniteSetsExt

CONSTANTS Bits, VBytes, HBytes

ASSUME ParityAssumption ==
    /\ Bits \in Nat /\ Bits >= 2 /\ Bits % 2 = 0
    /\ VBytes \in Nat \ {0} /\ VBytes % Bits = 0
    /\ HBytes \in Nat \ {0}

Octet == 0 .. 2 ^ Bits - 1
BitSet(b, k) == (b \div 2 ^ k) % 2 = 1

\* The byte with the bits K set.
ByteOf(K) == MapThenSumSet(LAMBDA k : 2 ^ k, K)

Quads == Bits \div 2                    \* uint64s in the vertical parity
QuadBits == (VBytes * Bits) \div Quads  \* 64
IntBits == QuadBits \div 2              \* 32

compute_vparity_length == (QuadBits \div Bits) * Quads

\* The bits of (uint64)(1 << s).
Mask(s) == LET k == s % IntBits
           IN  IF k = IntBits - 1 THEN k .. QuadBits - 1 ELSE {k}

\* bit_total of iteration i: the bits of buf in the position it selects,
\* byte i % 32 of every word and bit i % 8 of that byte.
VTotal(buf, i) == Cardinality({j \in 0 .. Len(buf) - 1 :
                                  j % VBytes = i % VBytes /\ BitSet(buf[j + 1], i % Bits)})

Iterations == 0 .. VBytes * Bits - 1

\* A uint64 is the set of its bits.
compute_vparity(buf) ==
    [q \in 0 .. Quads - 1 |->
        UNION {Mask(i % QuadBits) : i \in {n \in Iterations : /\ n \div QuadBits = q
                                                             /\ VTotal(buf, n) % 2 = 0}}]

\* Faulty variant: the last word of an incomplete sequence is not looked at.
CheckVWholeWords(buf, parity) ==
    \A i \in Iterations :
        LET whole == SubSeq(buf, 1, VBytes * (Len(buf) \div VBytes))
            set == IF parity[i \div QuadBits] \cap Mask(i % QuadBits) # {} THEN 1 ELSE 0
        IN  (VTotal(whole, i) + set) % 2 = 1

check_vparity(buf, parity) ==
    \A i \in Iterations :
        LET set == IF parity[i \div QuadBits] \cap Mask(i % QuadBits) # {} THEN 1 ELSE 0
        IN  (VTotal(buf, i) + set) % 2 = 1

---------------------------------------------------------------------------
compute_hparity_words(len) == len \div HBytes + IF len % HBytes # 0 THEN 1 ELSE 0

compute_hparity_length(len) ==
    LET words == compute_hparity_words(len)
    IN  words \div Bits + IF words % Bits # 0 THEN 1 ELSE 0

\* Bits set in word i of buf, by bit_table; the last word may be incomplete.
WordTotal(buf, i) == Cardinality({jk \in (0 .. HBytes - 1) \X (0 .. Bits - 1) :
                                    /\ i * HBytes + jk[1] < Len(buf)
                                    /\ BitSet(buf[i * HBytes + jk[1] + 1], jk[2])})

compute_hparity(buf) ==
    [p \in 1 .. compute_hparity_length(Len(buf)) |->
        ByteOf({i % Bits : i \in {n \in 0 .. compute_hparity_words(Len(buf)) - 1 :
                                     n \div Bits = p - 1 /\ WordTotal(buf, n) % 2 = 0}})]

\* Faulty variant: an incomplete last word is left out.
CheckHWholeWords(buf, parity) ==
    \A i \in 0 .. Len(buf) \div HBytes - 1 :
        (WordTotal(buf, i) + IF BitSet(parity[i \div Bits + 1], i % Bits) THEN 1 ELSE 0) % 2 = 1

check_hparity(buf, parity) ==
    \A i \in 0 .. compute_hparity_words(Len(buf)) - 1 :
        (WordTotal(buf, i) + IF BitSet(parity[i \div Bits + 1], i % Bits) THEN 1 ELSE 0) % 2 = 1
===========================================================================
