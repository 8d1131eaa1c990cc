--------------------------- MODULE ParityErrors ---------------------------
(***************************************************************************)
(* A byte string travels with its parity and bits of it are inverted on    *)
(* the way: what check_vparity and check_hparity notice.                   *)
(***************************************************************************)
EXTENDS Parity

CONSTANTS MaxBytes,      \* bound: length of the string
          MaxFlips       \* bound: bits inverted

ASSUME BoundsAssumption == MaxBytes \in Nat /\ MaxFlips \in Nat

VARIABLES sent,          \* the string the parity was computed for
          buf,           \* the string as it arrives
          vparity, hparity,
          flips          \* bits inverted so far

vars == <<sent, buf, vparity, hparity, flips>>

\* form_msg computes both parities (message.c:91-92).
Init ==
    /\ sent \in UNION {[1 .. n -> Octet] : n \in 0 .. MaxBytes}
    /\ buf = sent
    /\ vparity = compute_vparity(sent)
    /\ hparity = compute_hparity(sent)
    /\ flips = 0

Flip(b, k) == IF BitSet(b, k) THEN b - 2 ^ k ELSE b + 2 ^ k

FlipData ==
    /\ flips < MaxFlips
    /\ \E p \in 1 .. Len(buf), k \in 0 .. Bits - 1 :
         buf' = [buf EXCEPT ![p] = Flip(@, k)]
    /\ flips' = flips + 1
    /\ UNCHANGED <<sent, vparity, hparity>>

FlipHparity ==
    /\ flips < MaxFlips
    /\ \E p \in 1 .. Len(hparity), k \in 0 .. Bits - 1 :
         hparity' = [hparity EXCEPT ![p] = Flip(@, k)]
    /\ flips' = flips + 1
    /\ UNCHANGED <<sent, buf, vparity>>

Next == FlipData \/ FlipHparity

Spec == Init /\ [][Next]_vars

---------------------------------------------------------------------------
\* The bits of byte p, counted from 0, that differ from what was sent.
Changed(p) == {k \in 0 .. Bits - 1 : BitSet(buf[p + 1], k) # BitSet(sent[p + 1], k)}

\* The parity bit of word i was inverted.
ParityChanged(i) ==
    BitSet(hparity[i \div Bits + 1], i % Bits)
      # BitSet(compute_hparity(sent)[i \div Bits + 1], i % Bits)

\* check_hparity fails exactly when some word, with its parity bit, has an odd
\* number of inverted bits, the incomplete last word included.
HorizontalExact ==
    check_hparity(buf, hparity) <=>
        \A i \in 0 .. compute_hparity_words(Len(buf)) - 1 :
            (Cardinality({pk \in (i * HBytes .. i * HBytes + HBytes - 1) \X (0 .. Bits - 1) :
                            pk[1] < Len(buf) /\ pk[2] \in Changed(pk[1])})
               + IF ParityChanged(i) THEN 1 ELSE 0) % 2 = 0

\* In column c, k of the words, bit k of byte c, an odd number of bits was
\* inverted.
OddColumn(c, k) ==
    Cardinality({j \in 0 .. Len(buf) - 1 : j % VBytes = c /\ k \in Changed(j)}) % 2 = 1

\* check_vparity refuses every string with an odd number of inverted bits in a
\* column it looks at, bit p % 8 of byte p of every word, whatever the other
\* columns and the incomplete last word hold; and it accepts every string in
\* which no column at all has an odd number.  Nothing is claimed of a string
\* whose odd columns are all among those it does not look at.
VerticalExact ==
    /\ (\E p \in 0 .. VBytes - 1 : OddColumn(p, p % Bits)) => ~check_vparity(buf, vparity)
    /\ (\A p \in 0 .. VBytes - 1, k \in 0 .. Bits - 1 : ~OddColumn(p, k))
          => check_vparity(buf, vparity)
===========================================================================
