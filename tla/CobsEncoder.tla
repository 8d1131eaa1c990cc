---------------------------- MODULE CobsEncoder ----------------------------
(***************************************************************************)
(* One call of cobs_encode as a state machine: one step per source byte,   *)
(* then the step after the loop.  The invariants say what the receiver     *)
(* and the callers that size buffers rely on when the call returns.        *)
(* src ranges over every byte string of at most MaxLen bytes, so it also   *)
(* serves as an arbitrary received string for the verifiers.               *)
(***************************************************************************)
EXTENDS Cobs

CONSTANT MaxLen                \* bound: length of the source array

ASSUME MaxLenAssumption == MaxLen \in Nat

VARIABLES src,    \* the array to encode; never modified
          i,      \* bytes of src consumed
          enc,    \* locals of cobs_encode: dst, curr_dst, marker
          done    \* the call has returned

vars == <<src, i, enc, done>>

Init ==
    /\ src \in UNION {[1 .. n -> Byte] : n \in 0 .. MaxLen}
    /\ i = 0
    /\ enc = EncInit
    /\ done = FALSE

\* One iteration of the loop.
EncodeByte ==
    /\ ~done /\ i < Len(src)
    /\ enc' = EncStep(enc, src[i + 1])
    /\ i' = i + 1
    /\ UNCHANGED <<src, done>>

\* src == end: leave the loop, close the last block and terminate.
Finish ==
    /\ ~done /\ i = Len(src)
    /\ enc' = EncFinish(enc)
    /\ done' = TRUE
    /\ UNCHANGED <<src, i>>

Next == EncodeByte \/ Finish

Spec == Init /\ [][Next]_vars

---------------------------------------------------------------------------
\* The encoded string without its terminator, as read_blocks collects it.
Payload == SubSeq(enc.dst, 1, Len(enc.dst) - 1)

\* A zero at the end of the source is not represented in the encoding.
DroppedZero == src # << >> /\ src[Len(src)] = SPECIAL_CHAR

Restored == IF DroppedZero THEN SubSeq(src, 1, Len(src) - 1) ELSE src

\* Type correctness of the locals of cobs_encode.
TypeOK ==
    /\ src \in Seq(Byte)
    /\ i \in 0 .. Len(src)
    /\ enc \in [dst : Seq(0 .. Unwritten), curr : Nat, marker : 1 .. MaxMarker - 1]
    /\ enc.curr \in 1 .. Len(enc.dst)
    /\ done \in BOOLEAN

\* Framing: in what cobs_encode returns the one zero byte is the last byte,
\* and no reserved marker slot is left unwritten.  The client cuts the TCP
\* stream at zero bytes (client/read_blocks.c:93), so this is what keeps
\* one message in one frame.
Framed ==
    done => \A p \in 1 .. Len(enc.dst) :
              /\ enc.dst[p] \in Byte
              /\ enc.dst[p] = SPECIAL_CHAR <=> p = Len(enc.dst)

\* Decoding the frame without its terminator, as read_blocks does, gives
\* back the source except for one zero at its end.
RoundTrip == done => cobs_decode(Payload, Len(Payload)) = Restored

\* alt_cobs_verify was written "to replace cobs_verify" (cobs.c:96): on every
\* received string both give the same answer, although one walks the
\* markers and the other counts them down; and the client never drops an
\* undamaged frame, both accept every payload that cobs_encode produces.
VerifiersAgree ==
    /\ alt_cobs_verify(src, Len(src)) = cobs_verify(src, Len(src))
    /\ done => alt_cobs_verify(Payload, Len(Payload)) /\ cobs_verify(Payload, Len(Payload))

\* A string that passes the check is decoded inside a buffer of its own
\* length, malloc(bindex) in read_blocks.c:124, with at least a byte to spare
\* as the comment above that line claims; and the length scan neither fails
\* its assertion nor reports more than that buffer holds.
DecodeFitsBuffer ==
    alt_cobs_verify(src, Len(src)) /\ src # << >> =>
        /\ Len(cobs_decode(src, Len(src))) < Len(src)
        /\ cobs_decoded_length_from_encoded(Append(src, SPECIAL_CHAR)) \in 1 .. Len(src)

\* The encoding fits the buffers sized without looking at the data: the
\* worst case of the library, and the 2 * l2 bytes msg_to_cobs allocates
\* (socket_msg_help.c:30) for a message of three bytes or more.
EncodingBounded ==
    done =>
        /\ Len(enc.dst) <= cobs_encoded_length_worse_case(Len(src))
        /\ Len(src) >= 3 => Len(enc.dst) <= 2 * Len(src)

\* Buffers sized by the length calculators are large enough: the scan of the
\* source predicts no less than is written and no more than the worst case, the
\* scan of the result finds its length, and what decoding writes, with the
\* terminator counted or without, stays within the decoded length.
LengthsSuffice ==
    done =>
        LET predicted == cobs_encoded_length_from_decoded(src, Len(src))
            promised  == cobs_decoded_length_from_encoded(enc.dst)
        IN  /\ Len(enc.dst) <= predicted
            /\ predicted <= cobs_encoded_length_worse_case(Len(src))
            /\ cobs_encoded_length_from_encoded(enc.dst) = Len(enc.dst)
            /\ Len(cobs_decode(enc.dst, Len(enc.dst))) = promised
            /\ Len(cobs_decode(Payload, Len(Payload))) <= promised

\* No FullBlock consecutive bytes of the source are without a zero.
NoFullBlock ==
    \A p \in 1 .. Len(src) - FullBlock + 1 :
        \E q \in p .. p + FullBlock - 1 : src[q] = SPECIAL_CHAR

\* hce_try_header recovers a header from the front of a damaged frame
\* (handle_errors.c:97): when no block is full, every success of
\* cobs_partial_decode is a prefix of the source, and asking for no more than
\* the source holds succeeds.
PartialDecodePrefixNoFull ==
    done /\ NoFullBlock =>
        \A d \in 1 .. Len(enc.dst) :
            LET r == cobs_partial_decode(Payload, Len(Payload), d) IN
            /\ r.ret \in {0, d}
            /\ r.ret = d => d <= Len(src) /\ r.dst = SubSeq(src, 1, d)
            /\ d <= Len(Restored) => r.ret = d

---------------------------------------------------------------------------
(***************************************************************************)
(* The inductive invariant of the loop.  Len(enc.dst) - i - 1 is the       *)
(* number of full blocks so far: every byte consumed has produced a byte   *)
(* (data, or a marker for a zero) and only a full block adds one more.     *)
(***************************************************************************)
\* While cobs_encode runs, curr_dst is the only byte not yet written, marker
\* is its distance to the end, every other byte is non-zero, and each extra
\* marker has been paid for by a full block of data bytes.
LoopInv ==
    ~done =>
        /\ enc.marker = Len(enc.dst) - enc.curr + 1
        /\ \A p \in 1 .. Len(enc.dst) : p # enc.curr => enc.dst[p] \in 1 .. MaxMarker
        /\ i + 1 <= Len(enc.dst)
        /\ FullBlock * (Len(enc.dst) - i - 1) + (enc.marker - 1) <= i

===========================================================================
