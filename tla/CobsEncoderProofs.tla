------------------------- MODULE CobsEncoderProofs -------------------------
(***************************************************************************)
(* Proofs about CobsEncoder, for every MaxMarker >= 3 and every source     *)
(* length: the type invariant, the framing property, the buffer bound, the *)
(* round trip, the length calculators and the verifiers.                   *)
(***************************************************************************)
EXTENDS CobsEncoder, CobsProofs

---------------------------------------------------------------------------
(***************************************************************************)
(* The invariants of the specification.                                    *)
(***************************************************************************)

\* The bound of cobs_encoded_length_worse_case from the invariant's product.
LEMMA QuotientBound ==
    ASSUME NEW K \in Nat, K >= 2, NEW f \in Nat, NEW n \in Nat, K * f <= n
    PROVE  f <= n \div K /\ 2 * f <= n
  <1>1. 2 * f <= K * f
    OBVIOUS
  <1>2. n \div K \in Nat /\ n < K * (n \div K) + K
    OBVIOUS
  <1>3. f > n \div K => K * f >= K * (n \div K) + K
    <2> SUFFICES ASSUME f >= (n \div K) + 1
                 PROVE  K * f >= K * ((n \div K) + 1)
      BY <1>2
    <2> QED BY <1>2
  <1> QED BY <1>1, <1>2, <1>3

\* The product in LoopInv over one iteration: n bytes consumed, l written, m
\* the marker, before and after.
LEMMA BlockCount ==
    ASSUME NEW K \in Nat, NEW n \in Nat, NEW l \in Nat, NEW m \in Nat,
           NEW l2 \in Nat, NEW m2 \in Nat,
           m >= 1, n + 1 <= l, K * (l - n - 1) + (m - 1) <= n,
           \/ l2 = l + 1 /\ m2 = m + 1
           \/ l2 = l + 1 /\ m2 = 1
           \/ l2 = l + 2 /\ m2 = 1 /\ m = K
    PROVE  n + 2 <= l2 /\ K * (l2 - (n + 1) - 1) + (m2 - 1) <= n + 1
  <1> DEFINE full == l - n - 1
  <1>1. full \in Nat
    OBVIOUS
  <1>2. K * full \in Nat /\ K * full + (m - 1) <= n
    BY <1>1
  <1>3. CASE l2 = l + 1
    <2>1. l2 - (n + 1) - 1 = full
      BY <1>3
    <2> HIDE DEF full
    <2> QED BY <1>2, <1>3, <2>1
  <1>4. CASE l2 = l + 2 /\ m2 = 1 /\ m = K
    <2>1. l2 - (n + 1) - 1 = full + 1
      BY <1>4
    <2> HIDE DEF full
    <2>2. K * (full + 1) = K * full + K
      BY <1>1
    <2> QED BY <1>2, <1>4, <2>1, <2>2
  <1> QED BY <1>3, <1>4

\* What the product gives for the length l2 of the terminated string.
LEMMA ResultBound ==
    ASSUME NEW K \in Nat, NEW n \in Nat, NEW l \in Nat, NEW m \in Nat, NEW l2 \in Nat,
           K >= 2, m >= 1, n + 1 <= l, K * (l - n - 1) + (m - 1) <= n,
           m = 1 => l2 = l, m # 1 => l2 = l + 1
    PROVE  l2 <= n + 2 + (n \div K) /\ (n >= 3 => l2 <= 2 * n)
  <1>1. PICK full \in Nat : l = n + 1 + full
    <2>1. l - n - 1 \in Nat /\ l = n + 1 + (l - n - 1)
      OBVIOUS
    <2> QED BY <2>1
  <1>2. K * full \in Nat /\ K * full + (m - 1) <= n
    <2>1. l - n - 1 = full
      BY <1>1
    <2> QED BY <2>1
  <1>3. n - (m - 1) \in Nat /\ K * full <= n - (m - 1) /\ K * full <= n
    BY <1>2
  <1>4. full <= n \div K
    BY <1>3, QuotientBound
  <1>5. 2 * full <= n - (m - 1)
    BY <1>3, QuotientBound
  <1>6. n \div K \in Nat
    OBVIOUS
  <1> QED BY <1>1, <1>4, <1>5, <1>6

\* The same for the length that is foreseen.
LEMMA ScanBound ==
    ASSUME NEW K \in Nat, NEW n \in Nat, NEW l \in Nat, NEW m \in Nat,
           K >= 2, m >= 1, n + 1 <= l, K * (l - n - 1) + (m - 1) <= n
    PROVE  l + 1 <= n + 2 + (n \div K)
  <1> DEFINE full == l - n - 1
  <1>1. full \in Nat /\ l = n + 1 + full
    OBVIOUS
  <1>2. K * full \in Nat /\ K * full + (m - 1) <= n
    BY <1>1
  <1> HIDE DEF full
  <1>3. K * full <= n
    BY <1>2
  <1>4. full <= n \div K
    BY <1>1, <1>3, QuotientBound
  <1>5. n \div K \in Nat
    OBVIOUS
  <1> QED BY <1>1, <1>4, <1>5

\* What has been written holds the encoding of the i bytes consumed, and the
\* scan of cobs_encoded_length_from_decoded foresees the rest of it.
Halfway == ~done => Encodes(src, i, enc) /\ Foreseen(src, i, enc)

\* The result is a frame of the source, as long as the scan foresaw or one
\* byte shorter, and the scan stays within the worst case.
Complete ==
    done =>
        /\ EncodedAs(src, enc.dst)
        /\ cobs_encoded_length_from_decoded(src, Len(src)) \in {Len(enc.dst), Len(enc.dst) + 1}
        /\ cobs_encoded_length_from_decoded(src, Len(src))
              <= cobs_encoded_length_worse_case(Len(src))

\* The inductive invariant: types, the loop's shape and progress, and the
\* promises about the result, which the final step establishes.
IInv == TypeOK /\ LoopInv /\ Framed /\ EncodingBounded /\ Halfway /\ Complete

\* The code before the loop (cobs.c:9-13) establishes the invariant.
LEMMA InitIInv == Init => IInv
  <1> SUFFICES ASSUME Init PROVE IInv
    OBVIOUS
  <1>1. src \in Seq(Byte)
    BY DEF Init
  <1>2. /\ enc.dst = <<Unwritten>> /\ enc.curr = 1 /\ enc.marker = 1
        /\ enc = [dst |-> <<Unwritten>>, curr |-> 1, marker |-> 1]
    BY DEF Init, EncInit
  <1>3. Unwritten \in 0 .. Unwritten /\ 1 \in 1 .. MaxMarker - 1 /\ FullBlock \in Nat
    BY MaxMarkerAssumption DEF Unwritten, FullBlock
  <1>4. TypeOK
    <2>1. <<Unwritten>> \in Seq(0 .. Unwritten) /\ Len(<<Unwritten>>) = 1
      BY <1>3
    <2>2. enc \in [dst : Seq(0 .. Unwritten), curr : Nat, marker : 1 .. MaxMarker - 1]
      BY <1>2, <1>3, <2>1
    <2>3. enc.curr \in 1 .. Len(enc.dst)
      BY <1>2, <2>1
    <2>4. i \in 0 .. Len(src)
      <3>1. Len(src) \in Nat /\ i = 0
        BY <1>1 DEF Init
      <3> QED BY <3>1
    <2>5. done \in BOOLEAN
      BY Zenon DEF Init
    <2> QED BY <1>1, <2>2, <2>3, <2>4, <2>5 DEF TypeOK
  <1>5. LoopInv
    BY <1>2, <1>3 DEF LoopInv, Init
  <1>6. Halfway
    <2>1. enc = EncInit /\ i = 0
      BY DEF Init
    <2> QED BY <1>1, <2>1, EncodesInit, ForeseenInit DEF Halfway
  <1> QED BY <1>4, <1>5, <1>6 DEF IInv, Framed, EncodingBounded, Complete, Init

\* Consuming one byte preserves the invariant.
LEMMA EncodeByteIInv == IInv /\ EncodeByte => IInv'
  <1> SUFFICES ASSUME IInv, EncodeByte PROVE IInv'
    OBVIOUS
  <1>1. /\ TypeOK /\ LoopInv /\ ~done /\ ~done' /\ i' = i + 1 /\ src' = src
        /\ enc' = EncStep(enc, src[i + 1]) /\ i < Len(src)
    BY DEF IInv, EncodeByte
  <1>2. /\ src[i + 1] \in Byte /\ i \in Nat /\ i + 1 \in 0 .. Len(src)
        /\ MaxMarker \in Nat /\ MaxMarker >= 3
    BY <1>1, MaxMarkerAssumption DEF TypeOK
  <1>3. enc \in Locals /\ enc.marker < MaxMarker
    BY <1>1, <1>2 DEF TypeOK, Locals
  <1>4. OnlyHole(enc) /\ enc.marker = Len(enc.dst) - enc.curr + 1
    BY <1>1 DEF TypeOK, LoopInv, OnlyHole
  <1>5. /\ enc' \in Locals /\ OnlyHole(enc') /\ enc'.marker < MaxMarker
        /\ enc'.marker = Len(enc'.dst) - enc'.curr + 1
        /\ \/ Len(enc'.dst) = Len(enc.dst) + 1 /\ enc'.marker = enc.marker + 1
           \/ Len(enc'.dst) = Len(enc.dst) + 1 /\ enc'.marker = 1
           \/ Len(enc'.dst) = Len(enc.dst) + 2 /\ enc'.marker = 1 /\ enc.marker = FullBlock
    BY <1>1, <1>2, <1>3, <1>4, EncStepShape
  <1>6. TypeOK'
    <2>1. enc' \in [dst : Seq(0 .. Unwritten), curr : Nat, marker : 1 .. MaxMarker - 1]
      <3>1. /\ enc' = [dst |-> enc'.dst, curr |-> enc'.curr, marker |-> enc'.marker]
            /\ enc'.dst \in Seq(0 .. Unwritten) /\ enc'.curr \in Nat
            /\ enc'.marker \in 1 .. MaxMarker
        BY <1>5 DEF Locals
      <3>2. enc'.marker \in 1 .. MaxMarker - 1
        BY <1>2, <1>5, <3>1
      <3> QED BY <3>1, <3>2
    <2>2. enc'.curr \in 1 .. Len(enc'.dst)
      BY <1>5 DEF OnlyHole
    <2>3. src' \in Seq(Byte) /\ i' \in 0 .. Len(src') /\ done' \in BOOLEAN
      BY <1>1, <1>2 DEF TypeOK, EncodeByte
    <2> QED BY <2>1, <2>2, <2>3 DEF TypeOK
  <1>7. LoopInv'
    <2>1. /\ Len(enc.dst) \in Nat /\ enc.marker \in Nat /\ enc.marker >= 1
          /\ FullBlock \in Nat /\ FullBlock = MaxMarker - 1
      BY <1>2, <1>3 DEF Locals, FullBlock
    <2>2. /\ i + 1 <= Len(enc.dst)
          /\ FullBlock * (Len(enc.dst) - i - 1) + (enc.marker - 1) <= i
      BY <1>1 DEF LoopInv
    <2>3. Len(enc'.dst) \in Nat /\ enc'.marker \in Nat
      BY <1>5 DEF Locals
    <2>4. /\ i + 2 <= Len(enc'.dst)
          /\ FullBlock * (Len(enc'.dst) - (i + 1) - 1) + (enc'.marker - 1) <= i + 1
      BY <1>2, <1>5, <2>1, <2>2, <2>3, BlockCount
    <2>5. /\ i' + 1 <= Len(enc'.dst)
          /\ FullBlock * (Len(enc'.dst) - i' - 1) + (enc'.marker - 1) <= i'
      BY <1>1, <1>2, <2>3, <2>4
    <2> QED BY <1>5, <2>5 DEF LoopInv, OnlyHole
  <1>8. Halfway'
    <2>1. src \in Seq(Byte) /\ i + 1 <= Len(src)
      BY <1>1, <1>2 DEF TypeOK
    <2>2. Encodes(src, i, enc) /\ Foreseen(src, i, enc)
      BY <1>1 DEF IInv, Halfway
    <2>3. Encodes(src, i + 1, enc') /\ Foreseen(src, i + 1, enc')
      BY <1>1, <1>2, <2>1, <2>2, EncodesStep, ForeseenStep
    <2> QED BY <1>1, <2>3 DEF Halfway
  <1> QED BY <1>1, <1>6, <1>7, <1>8 DEF IInv, Framed, EncodingBounded, Complete

\* The code after the loop establishes what is promised of the result.
LEMMA FinishIInv == IInv /\ Finish => IInv'
  <1> SUFFICES ASSUME IInv, Finish PROVE IInv'
    OBVIOUS
  <1>1. /\ TypeOK /\ LoopInv /\ ~done /\ done' = TRUE /\ i' = i /\ src' = src
        /\ enc' = EncFinish(enc) /\ i = Len(src)
    BY DEF IInv, Finish
  <1>2. i \in Nat /\ MaxMarker \in Nat /\ MaxMarker >= 3
    BY <1>1, MaxMarkerAssumption DEF TypeOK
  <1>3. enc \in Locals /\ enc.marker < MaxMarker
    BY <1>1, <1>2 DEF TypeOK, Locals
  <1>4. OnlyHole(enc) /\ enc.marker = Len(enc.dst) - enc.curr + 1
    BY <1>1 DEF TypeOK, LoopInv, OnlyHole
  <1>5. /\ enc' \in Locals /\ enc'.curr = Len(enc'.dst) /\ enc'.marker = 1
        /\ enc.marker = 1 => Len(enc'.dst) = Len(enc.dst)
        /\ enc.marker # 1 => Len(enc'.dst) = Len(enc.dst) + 1
        /\ enc'.curr \in 1 .. Len(enc'.dst)
        /\ enc'.dst[enc'.curr] = SPECIAL_CHAR
        /\ \A p \in 1 .. Len(enc'.dst) : p # enc'.curr => enc'.dst[p] \in 1 .. MaxMarker
    BY <1>1, <1>3, <1>4, EncFinishShape
  <1>6. TypeOK'
    <2>1. enc' \in [dst : Seq(0 .. Unwritten), curr : Nat, marker : 1 .. MaxMarker - 1]
      <3>1. /\ enc' = [dst |-> enc'.dst, curr |-> enc'.curr, marker |-> enc'.marker]
            /\ enc'.dst \in Seq(0 .. Unwritten) /\ enc'.curr \in Nat
        BY <1>5 DEF Locals
      <3>2. enc'.marker \in 1 .. MaxMarker - 1
        BY <1>2, <1>5
      <3> QED BY <3>1, <3>2
    <2>2. src' \in Seq(Byte) /\ i' \in 0 .. Len(src') /\ done' \in BOOLEAN
      BY <1>1, <1>2 DEF TypeOK
    <2> QED BY <1>5, <2>1, <2>2 DEF TypeOK
  <1>7. Framed'
    <2> SUFFICES ASSUME NEW p \in 1 .. Len(enc'.dst)
                 PROVE  /\ enc'.dst[p] \in Byte
                        /\ enc'.dst[p] = SPECIAL_CHAR <=> p = Len(enc'.dst)
      BY DEF Framed
    <2>1. CASE p = enc'.curr
      BY <1>2, <1>5, <2>1 DEF Byte, SPECIAL_CHAR
    <2>2. CASE p # enc'.curr
      BY <1>2, <1>5, <2>2 DEF Byte, SPECIAL_CHAR
    <2> QED BY <2>1, <2>2
  <1>8. EncodingBounded'
    <2>1. /\ Len(enc.dst) \in Nat /\ enc.marker \in Nat /\ enc.marker >= 1
          /\ FullBlock \in Nat /\ FullBlock >= 2 /\ Len(enc'.dst) \in Nat
      BY <1>2, <1>3, <1>5 DEF Locals, FullBlock
    <2>2. i + 1 <= Len(enc.dst) /\ FullBlock * (Len(enc.dst) - i - 1) + (enc.marker - 1) <= i
      BY <1>1 DEF LoopInv
    <2>3. /\ Len(enc'.dst) <= i + 2 + (i \div FullBlock)
          /\ i >= 3 => Len(enc'.dst) <= 2 * i
      BY <1>2, <1>5, <2>1, <2>2, ResultBound
    <2> QED BY <1>1, <2>3 DEF EncodingBounded, cobs_encoded_length_worse_case
  <1>9. Complete'
    <2> DEFINE n == Len(src)
               predicted == cobs_encoded_length_from_decoded(src, n)
    <2>1. src \in Seq(Byte) /\ n \in Nat /\ i = n
      BY <1>1 DEF TypeOK
    <2>2. Encodes(src, n, enc) /\ Foreseen(src, n, enc)
      BY <1>1 DEF IInv, Halfway
    <2>3. EncodedAs(src, enc'.dst)
      BY <1>1, <2>1, <2>2, EncodesFinish
    <2>4. predicted = Len(enc.dst) + 1
      BY <2>1, <2>2, ForeseenAtEnd
    <2>5. /\ Len(enc.dst) \in Nat /\ enc.marker \in Nat /\ enc.marker >= 1
          /\ FullBlock \in Nat /\ FullBlock >= 2 /\ Len(enc'.dst) \in Nat
      BY <1>2, <1>3, <1>5 DEF Locals, FullBlock
    <2> HIDE DEF predicted
    <2>6. predicted \in {Len(enc'.dst), Len(enc'.dst) + 1}
      BY <1>5, <2>4, <2>5
    <2>7. n + 1 <= Len(enc.dst) /\ FullBlock * (Len(enc.dst) - n - 1) + (enc.marker - 1) <= n
      BY <1>1 DEF LoopInv
    <2>8. Len(enc.dst) + 1 <= n + 2 + (n \div FullBlock)
      <3> HIDE DEF n
      <3> QED BY <2>1, <2>5, <2>7, ScanBound
    <2> QED BY <1>1, <2>3, <2>4, <2>6, <2>8 DEF Complete, predicted, cobs_encoded_length_worse_case
  <1> QED BY <1>1, <1>6, <1>7, <1>8, <1>9 DEF IInv, LoopInv, Halfway

\* Every reachable state satisfies the inductive invariant.
THEOREM Invariance == Spec => []IInv
  <1>1. IInv /\ UNCHANGED vars => IInv'
    BY DEF IInv, TypeOK, LoopInv, Framed, EncodingBounded, Halfway, Complete, vars
  <1>2. IInv /\ [Next]_vars => IInv'
    BY <1>1, EncodeByteIInv, FinishIInv DEF Next
  <1> QED BY InitIInv, <1>2, PTL DEF Spec

\* The locals of cobs_encode keep their types: in particular marker never
\* leaves 1 .. 0xFE between iterations, so the uchar8 never wraps to zero.
THEOREM TypeCorrect == Spec => []TypeOK
  <1>1. IInv => TypeOK
    BY DEF IInv
  <1> QED BY Invariance, <1>1, PTL

\* The frame cobs_encode returns contains exactly one zero byte, its last,
\* for every source array and every marker range.
THEOREM Framing == Spec => []Framed
  <1>1. IInv => Framed
    BY DEF IInv
  <1> QED BY Invariance, <1>1, PTL

\* No encoding is longer than the worst case of the library, nor than the
\* 2 * l2 bytes of msg_to_cobs for a message of three bytes or more.
THEOREM BufferBound == Spec => []EncodingBounded
  <1>1. IInv => EncodingBounded
    BY DEF IInv
  <1> QED BY Invariance, <1>1, PTL

\* The round trip: decoding what cobs_encode returned, without its terminator,
\* gives back the source except for one zero at its end, for every source.
THEOREM RoundTripHolds == Spec => []RoundTrip
  <1>1. IInv => RoundTrip
    <2> SUFFICES ASSUME IInv, done PROVE cobs_decode(Payload, Len(Payload)) = Restored
      BY DEF RoundTrip
    <2>1. src \in Seq(Byte) /\ EncodedAs(src, enc.dst)
      BY DEF IInv, TypeOK, Complete
    <2>2. Payload = Unterminated(enc.dst) /\ Restored = Stripped(src)
      BY DEF Payload, Unterminated, Restored, DroppedZero, Stripped
    <2> QED BY <2>1, <2>2, EncodedRoundTrip
  <1> QED BY Invariance, <1>1, PTL

\* Buffers sized by the length calculators are large enough for what the
\* encoder and the decoder write, for every source, and the assertion of
\* cobs_decoded_length_from_encoded holds.
THEOREM LengthsHold == Spec => []LengthsSuffice
  <1>1. IInv => LengthsSuffice
    <2> DEFINE predicted == cobs_encoded_length_from_decoded(src, Len(src))
               promised == cobs_decoded_length_from_encoded(enc.dst)
    <2> SUFFICES ASSUME IInv, done
                 PROVE  /\ Len(enc.dst) <= predicted
                        /\ predicted <= cobs_encoded_length_worse_case(Len(src))
                        /\ cobs_encoded_length_from_encoded(enc.dst) = Len(enc.dst)
                        /\ Len(cobs_decode(enc.dst, Len(enc.dst))) = promised
                        /\ Len(cobs_decode(Payload, Len(Payload))) <= promised
      BY DEF LengthsSuffice
    <2>1. src \in Seq(Byte) /\ EncodedAs(src, enc.dst) /\ Len(enc.dst) \in Nat
      BY DEF IInv, TypeOK, Complete
    <2>2. Payload = Unterminated(enc.dst)
      BY DEF Payload, Unterminated
    <2>3. /\ promised = Len(cobs_decode(enc.dst, Len(enc.dst)))
          /\ promised \in {Len(Stripped(src)), Len(Stripped(src)) + 1}
          /\ cobs_decode(Payload, Len(Payload)) = Stripped(src)
          /\ cobs_encoded_length_from_encoded(enc.dst) = Len(enc.dst)
      BY <2>1, <2>2, EncodedRoundTrip
    <2>4. Len(Stripped(src)) \in Nat
      BY <2>1 DEF Stripped
    <2>5. predicted \in {Len(enc.dst), Len(enc.dst) + 1} /\ predicted <= cobs_encoded_length_worse_case(Len(src))
      BY DEF IInv, Complete
    <2> HIDE DEF predicted, promised
    <2> QED BY <2>1, <2>3, <2>4, <2>5
  <1> QED BY Invariance, <1>1, PTL

\* alt_cobs_verify may replace cobs_verify: they agree on every received string,
\* and both accept everything that cobs_encode produces.
THEOREM VerifiersHold == Spec => []VerifiersAgree
  <1>1. IInv => VerifiersAgree
    <2> SUFFICES ASSUME IInv PROVE VerifiersAgree
      OBVIOUS
    <2>1. src \in Seq(Byte)
      BY DEF IInv, TypeOK
    <2>2. alt_cobs_verify(src, Len(src)) = cobs_verify(src, Len(src))
      BY <2>1, VerifiersEqual
    <2>3. ASSUME done
          PROVE  alt_cobs_verify(Payload, Len(Payload)) /\ cobs_verify(Payload, Len(Payload))
      <3>1. EncodedAs(src, enc.dst)
        BY <2>3 DEF IInv, Complete
      <3>2. Payload = Unterminated(enc.dst)
        BY DEF Payload, Unterminated
      <3>3. Payload \in Seq(Byte) /\ alt_cobs_verify(Payload, Len(Payload))
        BY <2>1, <3>1, <3>2, EncodedRoundTrip
      <3>4. alt_cobs_verify(Payload, Len(Payload)) = cobs_verify(Payload, Len(Payload))
        BY <3>3, VerifiersEqual
      <3> QED BY <3>3, <3>4
    <2> QED BY <2>2, <2>3 DEF VerifiersAgree
  <1> QED BY Invariance, <1>1, PTL

\* Every received string that passes the check of read_blocks.c:109 is decoded
\* inside the buffer of read_blocks.c:124, and the length by which it is then
\* parsed lies inside it.
THEOREM DecodeFits == Spec => []DecodeFitsBuffer
  <1>1. IInv => DecodeFitsBuffer
    <2> SUFFICES ASSUME src \in Seq(Byte), alt_cobs_verify(src, Len(src)), src # << >>
                 PROVE  /\ Len(cobs_decode(src, Len(src))) < Len(src)
                        /\ cobs_decoded_length_from_encoded(Append(src, SPECIAL_CHAR))
                             \in 1 .. Len(src)
      BY DEF IInv, TypeOK, DecodeFitsBuffer
    <2> QED BY VerifiedDecodes, VerifiedLength
  <1> QED BY Invariance, <1>1, PTL

\* Recovery of a header from the front of a frame (handle_errors.c:97), for every
\* source without a full block: a success of cobs_partial_decode is a prefix of the
\* source, and asking for no more than the encoding keeps succeeds.
THEOREM PartialDecodeHolds == Spec => []PartialDecodePrefixNoFull
  <1>1. IInv => PartialDecodePrefixNoFull
    <2> SUFFICES ASSUME IInv, done, NoFullBlock, NEW d \in 1 .. Len(enc.dst),
                        NEW r, r = cobs_partial_decode(Payload, Len(Payload), d)
                 PROVE  /\ r.ret \in {0, d}
                        /\ r.ret = d => d <= Len(src) /\ r.dst = SubSeq(src, 1, d)
                        /\ d <= Len(Restored) => r.ret = d
      BY DEF PartialDecodePrefixNoFull
    <2>1. src \in Seq(Byte) /\ EncodedAs(src, enc.dst)
      BY DEF IInv, TypeOK, Complete
    <2>2. Payload = Unterminated(enc.dst) /\ Restored = Stripped(src)
      BY DEF Payload, Unterminated, Restored, DroppedZero, Stripped
    <2>3. NoFull(src)
      <3> SUFFICES ASSUME NEW a \in 0 .. Len(src) - FullBlock
                   PROVE  \E k \in 1 .. FullBlock : src[a + k] = SPECIAL_CHAR
        BY DEF NoFull
      <3>1. Len(src) \in Nat /\ FullBlock \in Nat
        BY <2>1, MaxMarkerAssumption DEF FullBlock
      <3>2. a + 1 \in 1 .. Len(src) - FullBlock + 1
        BY <3>1
      <3>3. PICK q \in a + 1 .. (a + 1) + FullBlock - 1 : src[q] = SPECIAL_CHAR
        BY <3>2 DEF NoFullBlock
      <3>4. q - a \in 1 .. FullBlock /\ a + (q - a) = q
        BY <3>1
      <3> QED BY <3>3, <3>4
    <2> QED BY <2>1, <2>2, <2>3, EncodedPartial
  <1> QED BY Invariance, <1>1, PTL
===========================================================================
