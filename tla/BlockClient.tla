---------------------------- MODULE BlockClient ----------------------------
(***************************************************************************)
(* The client: read_blocks (client/read_blocks.c) with the error handlers  *)
(* it calls (client/handle_errors.c).  It reads the socket byte by byte,   *)
(* cuts the stream at zero bytes and tries to decode and parse every chunk.*)
(*                                                                         *)
(* Messages is the set of byte strings msg_to_bytes can produce here; each *)
(* ends in a zero, the last byte of the crc of the trailer, which form_msg *)
(* sets to 0.  Parsing (msg_from_bytes and validate_message) is abstracted *)
(* to its outcome: a decoded string that begins with a whole message is    *)
(* accepted, one too short for a header and a trailer is not parsed, and   *)
(* any other, being damaged, may end in any of the ways the code has.      *)
(***************************************************************************)
EXTENDS Cobs, FiniteSets

CONSTANTS Messages,          \* serialised messages the server may send
          HeaderLen,         \* sizeof(msg_header_t), scaled down
          InitialSize,       \* BLOCK_INITIAL_SIZE, scaled down
          Streams            \* byte streams the client may be sent

ASSUME MessagesAssumption ==
    \A m \in Messages : /\ m \in Seq(Byte) /\ m # << >> /\ m[Len(m)] = SPECIAL_CHAR
                        /\ Len(m) >= 2 * HeaderLen
                        /\ Len(cobs_encode(m)) <= InitialSize
ASSUME SizesAssumption == HeaderLen \in Nat \ {0} /\ InitialSize \in Nat \ {0}
ASSUME StreamsAssumption == Streams \subseteq Seq(Byte)

VARIABLES
    stream,       \* bytes that have arrived and are not yet read
    closed,       \* the server has closed its end
    cpc,          \* "reading", "eof" (returned), "bail" (out of memory), "abort"
    buffer,       \* buffer[0 .. bindex-1]
    chunkcount, blockcount,
    errlog,       \* lines of log_error: kind of error and the count printed
    received,     \* auxiliary: every byte read so far
    accepted      \* auxiliary: end in received, and bytes, of every chunk counted

cvars == <<stream, closed, cpc, buffer, chunkcount, blockcount, errlog, received, accepted>>

ClientInit ==
    /\ cpc = "reading"
    /\ buffer = << >>
    /\ chunkcount = 0 /\ blockcount = 0
    /\ errlog = << >>
    /\ received = << >>
    /\ accepted = << >>

Init == ClientInit /\ stream \in Streams /\ closed = TRUE

\* A byte that is not the delimiter.
ReadByte ==
    /\ cpc = "reading" /\ stream # << >> /\ Head(stream) # SPECIAL_CHAR
    /\ stream' = Tail(stream)
    /\ buffer' = Append(buffer, Head(stream))
    /\ received' = Append(received, Head(stream))
    /\ UNCHANGED <<closed, cpc, chunkcount, blockcount, errlog, accepted>>

---------------------------------------------------------------------------
(* What becomes of a chunk.                                                *)

\* decoded begins with m; the last byte of m, a zero, is not decoded.
BeginsWith(decoded, m) == IsPrefix(SubSeq(m, 1, Len(m) - 1), decoded)

\* Faulty variant: the zero that the encoding drops is required for a match.
ParseOutcomesShort(decoded, len) ==
    IF \E m \in Messages : IsPrefix(m, decoded) THEN {"valid"}
    ELSE IF len < 2 * HeaderLen THEN {"unparsable"}
    ELSE {"valid", "head<>trail", "unparsable", "invalid"}

\* msg_from_bytes and validate_message on a decoded chunk of len bytes.
ParseOutcomes(decoded, len) ==
    IF \E m \in Messages : BeginsWith(decoded, m) /\ Len(m) <= len THEN {"valid"}
    ELSE IF len < 2 * HeaderLen THEN {"unparsable"}
    ELSE {"valid", "head<>trail", "unparsable", "invalid"}

\* handle_cobs_errors: hce_try_header either cannot decode a header, or finds
\* one whose totalLength is beyond the chunk or not.
CobsErrors(buf) ==
    IF cobs_partial_decode(buf, Len(buf), HeaderLen).ret # HeaderLen
    THEN {"unknown"}
    ELSE {"fragment-header", "smashed packet"}

\* How the chunk in buf may end.  The buffer holds a terminator for the
\* length scan only in its first InitialSize bytes, which are zeroed; past
\* them the scan reads memory nobody wrote, and may trip its assertion.
Outcomes(buf) ==
    IF buf = << >> THEN {"null packet"}
    ELSE IF ~alt_cobs_verify(buf, Len(buf)) THEN CobsErrors(buf)
    ELSE LET len == cobs_decoded_length_from_encoded(Append(buf, SPECIAL_CHAR))
         IN  ParseOutcomes(cobs_decode(buf, Len(buf)), len)
               \cup (IF Len(buf) < InitialSize THEN {} ELSE {"abort"})

Counted == {"valid", "head<>trail"}       \* validate_message returned 1

\* A line of the error log: type and subtype are one kind here, the rest of
\* the line is left out.
log_error(bcount, kind) == [kind |-> kind, count |-> bcount]

---------------------------------------------------------------------------
\* A chunk with outcome o is taken off the stream; n chunks are counted and
\* buf is what remains in the buffer.
ChunkEffect(o, n, buf) ==
    /\ stream' = Tail(stream)
    /\ received' = Append(received, Head(stream))
    /\ chunkcount' = chunkcount + n
    /\ blockcount' = blockcount + IF o \in Counted THEN 1 ELSE 0
    /\ errlog' = IF o \in {"valid", "abort"} THEN errlog
                 ELSE Append(errlog, log_error(chunkcount', o))
    /\ accepted' = IF o \in Counted
                   THEN Append(accepted, [to |-> Len(received'), bytes |-> buffer])
                   ELSE accepted
    /\ buffer' = buf
    /\ cpc' = IF o = "abort" THEN "abort" ELSE "reading"
    /\ UNCHANGED closed

\* Faulty variant: a chunk that fails the COBS check stays in the buffer.
HandleChunkNotCleared(o) == ChunkEffect(o, 1, IF o = "unknown" THEN buffer ELSE << >>)

\* Faulty variant: a null packet does not count as a chunk.
HandleChunkNullUncounted(o) == ChunkEffect(o, IF o = "null packet" THEN 0 ELSE 1, << >>)

\* Every outcome but "valid" is logged, with the chunk's own number; two of
\* them count the block.  The next chunk starts with an empty buffer.
HandleChunk(o) == ChunkEffect(o, 1, << >>)

\* The delimiter: the chunk collected so far is handled and the buffers are
\* freed.
Chunk ==
    /\ cpc = "reading" /\ stream # << >> /\ Head(stream) = SPECIAL_CHAR
    /\ \E o \in Outcomes(buffer) : HandleChunk(o)

\* Faulty variant: the loop ends only between two chunks.
EofBetweenChunks ==
    /\ cpc = "reading" /\ stream = << >> /\ closed /\ buffer = << >>
    /\ cpc' = "eof"
    /\ UNCHANGED <<stream, closed, buffer, chunkcount, blockcount, errlog, received, accepted>>

\* fgetc returns EOF: what is in the buffer is freed without a word.
Eof ==
    /\ cpc = "reading" /\ stream = << >> /\ closed
    /\ cpc' = "eof"
    /\ buffer' = << >>
    /\ UNCHANGED <<stream, closed, chunkcount, blockcount, errlog, received, accepted>>

\* malloc at the start of a chunk, or realloc of a full buffer, fails.
Bail ==
    /\ cpc = "reading" /\ Len(buffer) % InitialSize = 0
    /\ cpc' = "bail"
    /\ UNCHANGED <<stream, closed, buffer, chunkcount, blockcount, errlog, received, accepted>>

Reading == ReadByte \/ Chunk \/ Eof

Next == Reading \/ Bail

\* The client is scheduled while it has something to read.
Spec == Init /\ [][Next]_cvars /\ WF_cvars(Reading)

---------------------------------------------------------------------------
Rejected(l) == l.kind # "head<>trail"

\* The kinds of error that are logged.
ErrorKinds == {"null packet", "unknown", "fragment-header", "smashed packet",
               "head<>trail", "unparsable", "invalid"}

\* Type correctness of the client's state.
TypeOK ==
    /\ stream \in Seq(Byte) /\ closed \in BOOLEAN
    /\ cpc \in {"reading", "eof", "bail", "abort"}
    /\ buffer \in Seq(1 .. MaxMarker)
    /\ chunkcount \in Nat /\ blockcount \in 0 .. chunkcount
    /\ blockcount = Len(accepted)
    /\ errlog \in Seq([kind : ErrorKinds, count : Nat])
    /\ received \in Seq(Byte)
    /\ accepted \in Seq([to : Nat, bytes : Seq(1 .. MaxMarker)])

\* Every chunk read_blocks has handled is accounted for exactly once: counted
\* as a block or reported as an error, whatever way it went wrong.  What the
\* number in an error line counts is no part of the claim.
ChunksAccountedFor ==
    cpc # "abort" =>
        chunkcount = blockcount + Cardinality({k \in DOMAIN errlog : Rejected(errlog[k])})

\* The bytes p .. q of what was read are one chunk and its delimiter.
IsChunk(p, q) ==
    /\ p \in 1 .. q /\ received[q] = SPECIAL_CHAR
    /\ p = 1 \/ received[p - 1] = SPECIAL_CHAR
    /\ \A r \in p .. q - 1 : received[r] # SPECIAL_CHAR

\* Every counted block is one whole chunk of the stream that passed the COBS
\* check: nothing left over from an earlier, damaged chunk is in it.
CountedAreWholeChunks ==
    \A k \in 1 .. Len(accepted) :
        LET q == accepted[k].to
            p == q - Len(accepted[k].bytes)
        IN  /\ IsChunk(p, q)
            /\ accepted[k].bytes = SubSeq(received, p, q - 1)
            /\ alt_cobs_verify(accepted[k].bytes, Len(accepted[k].bytes))

\* Resynchronisation: whatever bytes surround it, a chunk that is exactly the
\* encoding of a message is counted, and counted once.
WholeFramesCounted ==
    \A q \in 1 .. Len(received) : \A p \in 1 .. q :
        IsChunk(p, q) /\ SubSeq(received, p, q) \in {cobs_encode(m) : m \in Messages}
          => \E k \in 1 .. Len(accepted) :
                /\ accepted[k].to = q
                /\ \A j \in 1 .. Len(accepted) : accepted[j].to = q => j = k

\* read_blocks returns once the server has closed, unless memory it never
\* wrote or ran out of stopped it.
ClientEnds == <>(cpc # "reading")

===========================================================================
