------------------------------ MODULE Message ------------------------------
(***************************************************************************)
(* The life of one message: form_msg and msg_to_bytes on the sender        *)
(* (justin-snapshot/src/message.c), bits inverted or the end lost on the   *)
(* way, then the two receivers there are: read_blocks, which calls         *)
(* msg_from_bytes and validate_message (client/handle_errors.c), and the   *)
(* segment client, which calls msg_from_bytes and verify_msg.              *)
(*                                                                         *)
(* Widths are scaled down: a byte has Bits bits, every field wider than a  *)
(* byte has two bytes, most significant first (hton16, hton32 and hton64). *)
(* The header is the C struct, field by field; mbz, chanType, dataType and *)
(* msgID are its first bytes, as many as a pointer has in the program.     *)
(***************************************************************************)
EXTENDS Parity

CONSTANTS Contents,      \* the contents a message may be formed with
          Ids,           \* tuples of sendID, recvID, msgID and segmentNum
          MaxSize,       \* MAX_MESSAGE_SIZE, scaled down
          MaxAltered     \* bound: bits inverted on the way

ASSUME MessageAssumption == /\ MaxSize \in Nat /\ MaxAltered \in Nat
                            /\ \A c \in Contents : c \in Seq(Octet)
                            /\ \A ids \in Ids : ids \in Seq(Nat) /\ Len(ids) = 4

VARIABLES
    msg,         \* the message formed
    bytes,       \* its bytes as they arrive
    altered,     \* bits inverted so far
    cut,         \* bytes cut off
    pc,          \* "formed", "sent", "head", "body", "parsed", "unparsable", "done"
    head, body, trail,      \* what was parsed; NoPart before
    at,          \* bytes consumed by the parser
    outcome      \* what validate_message and verify_msg said, and the log

vars == <<msg, bytes, altered, cut, pc, head, body, trail, at, outcome>>

NoPart == <<>>
NoOutcome == [counted |-> FALSE, verified |-> FALSE, logged |-> "none"]
Base == 2 ^ Bits

---------------------------------------------------------------------------
(* The wire format.                                                        *)

Fields == <<"mbz", "chanType", "dataType", "msgID", "totalLength", "bodyLength",
            "contentLength", "parityLength", "sendID", "recvID", "segmentNum", "crc">>
Narrow == {"chanType", "dataType"}

\* Bytes of the struct before field k; Offset(13) is its size.
Offset(k) == Cardinality({j \in 1 .. k - 1 : Fields[j] \in Narrow})
               + 2 * Cardinality({j \in 1 .. k - 1 : Fields[j] \notin Narrow})

HeaderLen == Offset(Len(Fields) + 1)
PointerLen == Offset(5)         \* sizeof(m->head), the size of a pointer

Width(k) == Offset(k + 1) - Offset(k)

\* Host to network order, and back.
Put(v, w) == IF w = 1 THEN <<v>> ELSE <<v \div Base, v % Base>>
Get(b) == IF Len(b) = 1 THEN b[1] ELSE b[1] * Base + b[2]

\* The field a byte of the struct belongs to.
FieldAt(n) == CHOOSE k \in 1 .. Len(Fields) : Offset(k) < n /\ n <= Offset(k + 1)

msg_header_to_bytes(h) ==
    [n \in 1 .. HeaderLen |->
        LET k == FieldAt(n) IN Put(h[Fields[k]], Width(k))[n - Offset(k)]]

msg_ht_from_bytes(b) ==
    [f \in {Fields[k] : k \in 1 .. Len(Fields)} |->
        LET k == CHOOSE j \in 1 .. Len(Fields) : Fields[j] = f
        IN  Get(SubSeq(b, Offset(k) + 1, Offset(k + 1)))]

\* The uint64s of the vertical parity, most significant byte first.
QuadBytes == QuadBits \div Bits

VparityToBytes(v) ==
    [n \in 1 .. compute_vparity_length |->
        LET q == (n - 1) \div QuadBytes
            lo == Bits * (QuadBytes - 1 - ((n - 1) % QuadBytes))
        IN  ByteOf({k \in 0 .. Bits - 1 : lo + k \in v[q]})]
VparityFromBytes(b) ==
    [q \in 0 .. Quads - 1 |->
        {k \in 0 .. QuadBits - 1 :
            BitSet(b[q * QuadBytes + QuadBytes - k \div Bits], k % Bits)}]

calculate_parity_length(clen) == compute_vparity_length + compute_hparity_length(clen)
calculate_body_length(clen) == clen + calculate_parity_length(clen)
calculate_total_length(clen) == HeaderLen + calculate_body_length(clen) + HeaderLen

---------------------------------------------------------------------------
(* The sender.                                                             *)

form_msg(sID, rID, chant, datat, id, snum, content) ==
    LET clen == Len(content)
        h == [mbz |-> 0, chanType |-> chant, dataType |-> datat, msgID |-> id,
              totalLength   |-> calculate_total_length(clen) % (Base * Base),
              bodyLength    |-> calculate_body_length(clen) % (Base * Base),
              contentLength |-> clen,
              parityLength  |-> calculate_parity_length(clen) % (Base * Base),
              sendID |-> sID, recvID |-> rID, segmentNum |-> snum, crc |-> 0]
    IN  [head |-> h, content |-> content, vparity |-> compute_vparity(content),
         hparity |-> compute_hparity(content), trail |-> h]

\* Faulty variant: the horizontal parity is left out.
MsgToBytesNoHparity(m) ==
    msg_header_to_bytes(m.head) \o m.content \o VparityToBytes(m.vparity)
      \o msg_header_to_bytes(m.trail)

msg_to_bytes(m) ==
    msg_header_to_bytes(m.head) \o m.content \o VparityToBytes(m.vparity) \o m.hparity
      \o msg_header_to_bytes(m.trail)

Init ==
    /\ \E ids \in Ids, chant \in {0, 1}, datat \in {0, 4}, content \in Contents :
         msg = form_msg(ids[1], ids[2], chant, datat, ids[3], ids[4], content)
    /\ bytes = << >>
    /\ altered = 0 /\ cut = 0
    /\ pc = "formed"
    /\ head = NoPart /\ body = NoPart /\ trail = NoPart
    /\ at = 0
    /\ outcome = NoOutcome

Serialise ==
    /\ pc = "formed"
    /\ bytes' = msg_to_bytes(msg)
    /\ pc' = "sent"
    /\ UNCHANGED <<msg, altered, cut, head, body, trail, at, outcome>>

Flip(b, k) == IF BitSet(b, k) THEN b - 2 ^ k ELSE b + 2 ^ k

\* A bit is inverted on the way.
Alter ==
    /\ pc = "sent" /\ altered < MaxAltered /\ cut = 0
    /\ \E n \in 1 .. Len(bytes), k \in 0 .. Bits - 1 :
         bytes' = [bytes EXCEPT ![n] = Flip(@, k)]
    /\ altered' = altered + 1
    /\ UNCHANGED <<msg, cut, pc, head, body, trail, at, outcome>>

\* The end is missing: an altered byte became a delimiter.
CutOff ==
    /\ pc = "sent" /\ cut = 0
    /\ \E n \in 0 .. Len(bytes) - 1 : bytes' = SubSeq(bytes, 1, n) /\ cut' = Len(bytes) - n
    /\ UNCHANGED <<msg, altered, pc, head, body, trail, at, outcome>>

---------------------------------------------------------------------------
(* msg_from_bytes.  safe_memcpy refuses to copy n bytes beyond the end.    *)

safe_memcpy(n) == n >= 0 /\ at + n <= Len(bytes)

\* The next n bytes.
Copied(from, n) == SubSeq(bytes, from + 1, from + n)

ParseHead ==
    /\ pc = "sent"
    /\ IF safe_memcpy(HeaderLen)
       THEN /\ head' = msg_ht_from_bytes(Copied(at, HeaderLen))
            /\ at' = at + HeaderLen
            /\ pc' = "head"
       ELSE pc' = "unparsable" /\ UNCHANGED <<head, at>>
    /\ UNCHANGED <<msg, bytes, altered, cut, body, trail, outcome>>

\* Faulty variant: the horizontal parity is copied without a check.
ParseBodyUnchecked ==
    /\ pc = "head"
    /\ LET clen == head.contentLength
           vlen == compute_vparity_length
           hlen == head.parityLength - vlen
           size == clen + vlen + hlen
       IN  IF Len(bytes) > at /\ clen < MaxSize /\ hlen >= 0 /\ safe_memcpy(clen + vlen)
           THEN /\ body' = [content |-> Copied(at, clen),
                            vparity |-> VparityFromBytes(Copied(at + clen, vlen)),
                            hparity |-> [p \in 1 .. hlen |-> 0]]
                /\ at' = at + size
                /\ pc' = "body"
           ELSE pc' = "unparsable" /\ UNCHANGED <<body, at>>
    /\ UNCHANGED <<msg, bytes, altered, cut, head, trail, outcome>>

\* The three copies of msg_body_from_bytes are adjacent.  A negative length of
\* the horizontal parity makes malloc fail.
ParseBody ==
    /\ pc = "head"
    /\ LET clen == head.contentLength
           vlen == compute_vparity_length
           hlen == head.parityLength - vlen
           size == clen + vlen + hlen
       IN  IF Len(bytes) > at /\ clen < MaxSize /\ hlen >= 0 /\ safe_memcpy(size)
           THEN /\ body' = [content |-> Copied(at, clen),
                            vparity |-> VparityFromBytes(Copied(at + clen, vlen)),
                            hparity |-> Copied(at + clen + vlen, hlen)]
                /\ at' = at + size
                /\ pc' = "body"
           ELSE pc' = "unparsable" /\ UNCHANGED <<body, at>>
    /\ UNCHANGED <<msg, bytes, altered, cut, head, trail, outcome>>

\* Faulty variant: a missing trailer is taken to be as the header.
ParseTrailOptional ==
    /\ pc = "body"
    /\ IF safe_memcpy(HeaderLen)
       THEN trail' = msg_ht_from_bytes(Copied(at, HeaderLen)) /\ at' = at + HeaderLen
       ELSE trail' = head /\ UNCHANGED at
    /\ pc' = "parsed"
    /\ UNCHANGED <<msg, bytes, altered, cut, head, body, outcome>>

ParseTrail ==
    /\ pc = "body"
    /\ IF safe_memcpy(HeaderLen)
       THEN /\ trail' = msg_ht_from_bytes(Copied(at, HeaderLen))
            /\ at' = at + HeaderLen
            /\ pc' = "parsed"
       ELSE pc' = "unparsable" /\ UNCHANGED <<trail, at>>
    /\ UNCHANGED <<msg, bytes, altered, cut, head, body, outcome>>

---------------------------------------------------------------------------
(* The receivers' verdicts.                                                *)

\* validate_message lets the message count.
Plausible ==
    /\ head.chanType <= 1
    /\ head.dataType <= 4
    /\ head.totalLength <= MaxSize
    /\ head.totalLength <= Len(bytes)
    /\ head.bodyLength <= head.totalLength

\* Header and trailer agree in the bytes that bcmp compares.
SameStart == \A k \in 1 .. Len(Fields) :
                Offset(k) < PointerLen => head[Fields[k]] = trail[Fields[k]]

\* Faulty variant: header and trailer are not compared.
VerifyMsgHeadOnly ==
    /\ head.totalLength = calculate_total_length(head.contentLength)
    /\ head.totalLength = 2 * HeaderLen + head.bodyLength
    /\ head.parityLength = calculate_parity_length(head.contentLength)
    /\ check_vparity(body.content, body.vparity)
    /\ check_hparity(body.content, body.hparity)
    /\ head.crc = 0

verify_msg ==
    /\ \A k \in 1 .. Len(Fields) : Fields[k] # "mbz" => head[Fields[k]] = trail[Fields[k]]
    /\ head.totalLength = calculate_total_length(head.contentLength)
    /\ head.totalLength = (2 * HeaderLen + head.bodyLength) % (Base * Base)
    /\ head.parityLength = calculate_parity_length(head.contentLength)
    /\ check_vparity(body.content, body.vparity)
    /\ check_hparity(body.content, body.hparity)
    /\ head.crc = 0

\* read_blocks counts a message that validate_message returns 1 for, also one
\* whose trailer it logged as different.
Validate ==
    /\ pc = "parsed"
    /\ outcome' = [counted |-> Plausible, verified |-> verify_msg,
                   logged |-> IF ~Plausible THEN "parse"
                              ELSE IF ~SameStart THEN "head<>trail" ELSE "none"]
    /\ pc' = "done"
    /\ UNCHANGED <<msg, bytes, altered, cut, head, body, trail, at>>

\* handle_busted_msg1 logs one line, whatever it finds in the bytes.
Busted ==
    /\ pc = "unparsable"
    /\ outcome' = [NoOutcome EXCEPT !.logged = "parse"]
    /\ pc' = "done"
    /\ UNCHANGED <<msg, bytes, altered, cut, head, body, trail, at>>

Next == Serialise \/ Alter \/ CutOff \/ ParseHead \/ ParseBody \/ ParseTrail
          \/ Validate \/ Busted

Spec == Init /\ [][Next]_vars

---------------------------------------------------------------------------
\* Bits that differ between what was sent and what arrived.
ChangedBits ==
    LET sent == msg_to_bytes(msg)
    IN  {nk \in (1 .. Len(bytes)) \X (0 .. Bits - 1) :
            BitSet(bytes[nk[1]], nk[2]) # BitSet(sent[nk[1]], nk[2])}

\* A bit of the message whose value means something to verify_msg: not mbz, not
\* the vertical parity and not the unused bits of the last byte of hparity.
Protected(n, k) ==
    LET clen == Len(msg.content)
        hstart == HeaderLen + clen + compute_vparity_length
        tstart == hstart + compute_hparity_length(clen)
    IN  CASE n <= HeaderLen -> n > Offset(2)
          [] n > HeaderLen /\ n <= HeaderLen + clen -> TRUE
          [] n > HeaderLen + clen /\ n <= hstart -> FALSE
          [] n > hstart /\ n <= tstart ->
                (n - hstart - 1) * Bits + k < compute_hparity_words(clen)
          [] OTHER -> n > tstart + Offset(2)

\* The parser never consumes a byte beyond those it was given, whatever the
\* lengths of an altered or shortened message say: msg_from_bytes with
\* safe_memcpy in front of every copy.
ParseReadsInside ==
    /\ at <= Len(bytes)
    /\ body # NoPart => Len(body.content) + Len(body.hparity) <= Len(bytes)

\* An unaltered message is parsed back to what form_msg made, to its last byte,
\* read_blocks counts it without a log line and verify_msg accepts it:
\* message.c:140-192 against 349-377 and 416-496, handle_errors.c:233-294.
RoundTrip ==
    pc = "done" /\ altered = 0 /\ cut = 0 =>
        /\ head = msg.head /\ trail = msg.trail
        /\ body = [content |-> msg.content, vparity |-> msg.vparity, hparity |-> msg.hparity]
        /\ at = Len(bytes)
        /\ outcome.verified
        /\ msg.head.totalLength <= MaxSize =>
              outcome = [counted |-> TRUE, verified |-> TRUE, logged |-> "none"]

\* A message that lost its end is logged and never counted, when its header
\* arrived as sent: read_blocks.c:132-142.
TruncatedNeverCounted ==
    pc = "done" /\ altered = 0 /\ cut > 0 =>
        ~outcome.counted /\ ~outcome.verified /\ outcome.logged # "none"

\* verify_msg refuses every message in which a single meaningful bit was
\* inverted, the length fields that decide where the rest is read included:
\* message.c:416-496.
OneBitRefused ==
    pc = "done" /\ cut = 0 =>
        LET changed == ChangedBits
        IN  Cardinality(changed) = 1 /\ (\A nk \in changed : Protected(nk[1], nk[2]))
              => ~outcome.verified

\* A message that read_blocks does not count leaves a line in the log, and so
\* does one in which a bit of the start of the header was inverted.
NotCountedIsLogged ==
    pc = "done" =>
        /\ ~outcome.counted => outcome.logged # "none"
        /\ (cut = 0 /\ trail # NoPart /\ \E nk \in ChangedBits : nk[1] <= PointerLen)
             => outcome.logged # "none"

\* No message is lost in silence: cut or damaged, it is not taken for a whole
\* one, and one that is not counted can be found in the log.
LossNoticed == TruncatedNeverCounted /\ NotCountedIsLogged

---------------------------------------------------------------------------
(* What a comment in the repository says and the code does not do.         *)

\* handle_errors.c:275, "compare header and trailer -- should be equal": a
\* message whose header and trailer differ leaves a line in the log.
HeaderTrailerCompared ==
    pc = "done" /\ trail # NoPart /\ head # trail => outcome.logged # "none"
===========================================================================
