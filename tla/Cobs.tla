------------------------------- MODULE Cobs -------------------------------
(***************************************************************************)
(* Consistent overhead byte stuffing, justin-snapshot/src/cobs.c: the      *)
(* encoder, both verifiers, both decoders and the length calculators.      *)
(*                                                                         *)
(* A byte array is a sequence of bytes.  MaxMarker stands for 0xFF, the    *)
(* largest byte and the largest marker; the TLC models scale it down so    *)
(* that full blocks (0xFE data bytes under marker 0xFF) appear in short    *)
(* strings.  Nothing but the constants 0xFF and 0xFE (254) of the code     *)
(* depends on it.  The library is built with SPECIAL_CHAR = 0x00           *)
(* (hdr/cobs.h:10).                                                        *)
(***************************************************************************)
EXTENDS Integers, Sequences, SequencesExt

CONSTANT MaxMarker

ASSUME MaxMarkerAssumption == MaxMarker \in Nat /\ MaxMarker >= 3

SPECIAL_CHAR == 0
Byte == 0 .. MaxMarker
FullBlock == MaxMarker - 1     \* 0xFE = 254
Offset == Nat \ {0}            \* of a byte in an array, or past its end

(* The value of a destination byte that is reserved but not yet written.   *)
Unwritten == MaxMarker + 1

---------------------------------------------------------------------------
(***************************************************************************)
(* cobs_encode.  The locals of the C function are dst (what has been       *)
(* written or reserved so far), curr (the offset curr_dst points to) and   *)
(* marker.                                                                 *)
(***************************************************************************)

\* Set-up before the loop: curr_dst = dst++ reserves the first marker slot.
EncInit == [dst |-> <<Unwritten>>, curr |-> 1, marker |-> 1]

\* #define PlaceMarker(X): write the marker where it was reserved, reserve
\* the next slot and start a new block.
PlaceMarker(e) ==
    [dst    |-> Append([e.dst EXCEPT ![e.curr] = e.marker], Unwritten),
     curr   |-> Len(e.dst) + 1,
     marker |-> 1]

\* *dst++ = *src, marker++: copy a byte that needs no marker.
CopyByte(e, b) ==
    [dst |-> Append(e.dst, b), curr |-> e.curr, marker |-> e.marker + 1]

\* Faulty variant: the block is not closed when the marker reaches its
\* maximum, so the marker wraps around as a uchar8 does.
EncStepNoFullBlock(e, b) ==
    IF b = SPECIAL_CHAR THEN PlaceMarker(e)
    ELSE [CopyByte(e, b) EXCEPT !.marker = @ % (MaxMarker + 1)]

\* Faulty variant: a block is closed after every data byte.
EncStepEager(e, b) ==
    IF b = SPECIAL_CHAR THEN PlaceMarker(e)
    ELSE PlaceMarker(CopyByte(e, b))

\* One iteration of the while loop on source byte b.
EncStep(e, b) ==
    IF b = SPECIAL_CHAR
    THEN PlaceMarker(e)
    ELSE LET f == CopyByte(e, b)
         IN  IF f.marker = MaxMarker THEN PlaceMarker(f) ELSE f

\* Faulty variant: the open block is terminated without its marker.
EncFinishNoMarker(e) == [e EXCEPT !.dst = [@ EXCEPT ![e.curr] = SPECIAL_CHAR]]

\* After the loop: close an open block and terminate the string.
EncFinish(e) ==
    LET f == IF e.marker # 1 THEN PlaceMarker(e) ELSE e
    IN  [f EXCEPT !.dst = [@ EXCEPT ![f.curr] = SPECIAL_CHAR]]

cobs_encode(src) ==
    LET loop[k \in 0 .. Len(src)] ==
          IF k = 0 THEN EncInit ELSE EncStep(loop[k - 1], src[k])
    IN  EncFinish(loop[Len(src)]).dst

---------------------------------------------------------------------------
(***************************************************************************)
(* Decoding.  p is the offset of the byte that src points to.              *)
(***************************************************************************)

\* Faulty variant: a zero is appended after every block but the last, full
\* blocks included.
DecodeAlwaysAppend(src, len) ==
    LET from[p \in Offset] ==
          IF p > len THEN << >>
          ELSE LET next == p + IF src[p] = SPECIAL_CHAR THEN 1 ELSE src[p]
               IN  SubSeq(src, p + 1, p + src[p] - 1)
                     \o (IF next <= len THEN <<SPECIAL_CHAR>> ELSE << >>)
                     \o from[next]
    IN  from[1]

\* Faulty variant: the zero is appended after the last block too.
DecodeAppendAtEnd(src, len) ==
    LET from[p \in Offset] ==
          IF p > len THEN << >>
          ELSE LET next == p + IF src[p] = SPECIAL_CHAR THEN 1 ELSE src[p]
               IN  SubSeq(src, p + 1, p + src[p] - 1)
                     \o (IF src[p] < MaxMarker THEN <<SPECIAL_CHAR>> ELSE << >>)
                     \o from[next]
    IN  from[1]

\* cobs_decode: the bytes written to dst.  The blocks must not run off src,
\* which is what the verifiers below establish before it is called.
cobs_decode(src, len) ==
    LET from[p \in Offset] ==
          IF p > len THEN << >>
          ELSE LET next == p + IF src[p] = SPECIAL_CHAR THEN 1 ELSE src[p]
               IN  SubSeq(src, p + 1, p + src[p] - 1)
                     \o (IF src[p] < MaxMarker /\ next <= len
                         THEN <<SPECIAL_CHAR>> ELSE << >>)
                     \o from[next]
    IN  from[1]

\* The literal 0x255 of cobs_partial_decode: 597, which is no byte.
Hex255 == MaxMarker + 342

\* Faulty variant: running out of source in mid string is not noticed.
PartialDecodeNoCheck(src, slen, dlen) ==
    LET from[p \in Offset] == [d \in Nat |->
          IF p > slen \/ d = 0 THEN << >>
          ELSE LET n    == CHOOSE m \in {src[p] - 1, slen - p, d} :
                              \A k \in {src[p] - 1, slen - p, d} : m <= k
                   zero == d > n /\ src[p] # Hex255
               IN  SubSeq(src, p + 1, p + n)
                     \o (IF zero THEN <<SPECIAL_CHAR>> ELSE << >>)
                     \o from[p + 1 + n][d - n - IF zero THEN 1 ELSE 0]]
    IN  [ret |-> dlen, dst |-> from[1][dlen]]

\* cobs_partial_decode: ret is the value returned, dst what a success wrote.
\* fail marks the jump to the fail label.
cobs_partial_decode(src, slen, dlen) ==
    LET fail == <<Unwritten>>
        from[p \in Offset] == [d \in Nat |->
          IF p > slen \/ d = 0 THEN << >>
          ELSE IF src[p] = 0 THEN fail
          ELSE LET n    == CHOOSE m \in {src[p] - 1, slen - p, d} :
                              \A k \in {src[p] - 1, slen - p, d} : m <= k
                   zero == d > n /\ src[p] # Hex255
               IN  IF p + n = slen /\ d > n THEN fail
                   ELSE SubSeq(src, p + 1, p + n)
                          \o (IF zero THEN <<SPECIAL_CHAR>> ELSE << >>)
                          \o from[p + 1 + n][d - n - IF zero THEN 1 ELSE 0]]
        out == from[1][dlen]
    IN  IF slen < dlen \/ (out # << >> /\ out[Len(out)] = Unwritten)
        THEN [ret |-> 0, dst |-> << >>]
        ELSE [ret |-> dlen, dst |-> out]

---------------------------------------------------------------------------
(***************************************************************************)
(* Verification of a received string, terminator excluded.                 *)
(***************************************************************************)

\* Faulty variant: a block may run past the end of the string.
AltVerifyOverrun(src, len) ==
    LET walk[p \in Offset] ==
          IF p > len THEN TRUE
          ELSE src[p] # 0 /\ walk[p + src[p]]
    IN  walk[1] /\ \A p \in 1 .. len : src[p] # SPECIAL_CHAR

\* alt_cobs_verify: the markers lead exactly to the end and no byte is zero.
alt_cobs_verify(src, len) ==
    LET walk[p \in Offset] ==
          IF p > len THEN p = len + 1
          ELSE src[p] # 0 /\ walk[p + src[p]]
    IN  walk[1] /\ \A p \in 1 .. len : src[p] # SPECIAL_CHAR

\* cobs_verify: the same in one pass that counts each marker down to zero.
cobs_verify(src, len) ==
    LET rest[p \in Offset] == [marker \in Nat |->
          IF p > len THEN marker = 0
          ELSE /\ src[p] # SPECIAL_CHAR
               /\ rest[p + 1][(IF marker = 0 THEN src[p] ELSE marker) - 1]]
    IN  rest[1][0]

---------------------------------------------------------------------------
(***************************************************************************)
(* Length calculators.                                                     *)
(***************************************************************************)

cobs_encoded_length_from_encoded(src) ==
    CHOOSE n \in 1 .. Len(src) :
        src[n] = SPECIAL_CHAR /\ \A p \in 1 .. n - 1 : src[p] # SPECIAL_CHAR

cobs_encoded_length_from_decoded(src, len) ==
    LET run[i \in Offset] == [last \in Nat |->
          IF i > len THEN 0
          ELSE LET l == IF src[i] = SPECIAL_CHAR THEN 0 ELSE last + 1
               IN  IF l >= FullBlock THEN 1 + run[i + 1][0] ELSE run[i + 1][l]]
    IN  len + 2 + run[1][0]

\* cobs_decoded_length_from_encoded, for a terminated string.  -1 stands for
\* the failure of assert(src == end), which aborts the program.
cobs_decoded_length_from_encoded(src) ==
    LET end == cobs_encoded_length_from_encoded(src)
        sum[p \in Offset] ==
          IF p = end THEN 0
          ELSE IF p > end THEN -1
          ELSE LET rest == sum[p + src[p]]
               IN  IF rest = -1 THEN -1
                   ELSE rest + IF src[p] = MaxMarker THEN FullBlock ELSE src[p]
    IN  sum[1]

cobs_encoded_length_worse_case(len) == len + 2 + (len \div FullBlock)

cobs_encoded_length_best_case(len) == len + 2
===========================================================================
