------------------------- MODULE BlockClientProofs -------------------------
(***************************************************************************)
(* Proofs about BlockClient, for every set of messages, every stream of    *)
(* bytes and every MaxMarker >= 3: what the client counts, what it logs,   *)
(* and that an undamaged frame is never missed.                            *)
(***************************************************************************)
EXTENDS BlockClient, CobsProofs, FiniteSetTheorems

(***************************************************************************)
(* Parsing.                                                                *)
(***************************************************************************)

\* Every outcome is one the code has, and a chunk is counted only after it has
\* passed the check of read_blocks.c:109.
LEMMA OutcomeKinds ==
    ASSUME NEW buf, NEW o \in Outcomes(buf)
    PROVE  /\ o \in ErrorKinds \cup {"valid", "abort"}
           /\ o \in Counted => alt_cobs_verify(buf, Len(buf))
  <1>1. CASE buf = << >>
    BY <1>1 DEF Outcomes, ErrorKinds, Counted
  <1>2. CASE buf # << >> /\ ~alt_cobs_verify(buf, Len(buf))
    BY <1>2 DEF Outcomes, CobsErrors, ErrorKinds, Counted
  <1>3. CASE buf # << >> /\ alt_cobs_verify(buf, Len(buf))
    <2> DEFINE len == cobs_decoded_length_from_encoded(Append(buf, SPECIAL_CHAR))
               dec == cobs_decode(buf, Len(buf))
    <2>1. \/ o \in ParseOutcomes(dec, len)
          \/ o = "abort"
      <3> HIDE DEF len, dec
      <3> QED BY <1>3 DEF Outcomes, len, dec
    <2> HIDE DEF len, dec
    <2> QED BY <1>3, <2>1 DEF ParseOutcomes, ErrorKinds
  <1> QED BY <1>1, <1>2, <1>3

\* The frame of a non-empty string is not just a terminator.
LEMMA FrameNotEmpty ==
    ASSUME NEW X \in Seq(Byte), X # << >>, NEW F, Frame(X, F)
    PROVE  Unterminated(F) # << >>
  <1>1. F \in Seq(Byte) /\ Len(F) \in Nat /\ Len(F) >= 1 /\ Len(X) \in Nat /\ Len(X) # 0
    BY DEF Frame
  <1>2. PICK B, off : Layout(B, off, F, X, Len(F)) /\ off[Len(F)] = Len(X)
    BY DEF Frame
  <1>3. Len(F) # 1
    BY <1>1, <1>2 DEF Layout
  <1>4. Len(Unterminated(F)) = Len(F) - 1
    BY UnterminatedProperties
  <1> QED BY <1>1, <1>3, <1>4

\* A chunk that is the encoding of a message, terminator excluded, has one
\* outcome: it is decoded to the message without its last zero, its length is
\* that of the message, and it is counted without an error.
LEMMA MessageOutcome ==
    ASSUME NEW m \in Messages, NEW buf, Append(buf, SPECIAL_CHAR) = cobs_encode(m),
           buf = Unterminated(cobs_encode(m))
    PROVE  Outcomes(buf) = {"valid"}
  <1> DEFINE F == cobs_encode(m)
             len == cobs_decoded_length_from_encoded(F)
             dec == cobs_decode(buf, Len(buf))
  <1>1. m \in Seq(Byte) /\ m # << >> /\ m[Len(m)] = SPECIAL_CHAR /\ Len(F) <= InitialSize
    BY MessagesAssumption
  <1>2. EncodedAs(m, F)
    BY <1>1, EncodeFrames
  <1>3. Frame(m, F)
    <2> HIDE DEF F
    <2> QED BY <1>1, <1>2 DEF EncodedAs
  <1>4. /\ alt_cobs_verify(buf, Len(buf)) /\ dec = Stripped(m) /\ len = Len(m)
        /\ F \in Seq(Byte) /\ Len(F) >= 1
    <2> HIDE DEF F
    <2> QED BY <1>1, <1>2, EncodedRoundTrip DEF F
  <1>5. buf # << >> /\ Len(buf) = Len(F) - 1
    <2> HIDE DEF F
    <2> QED BY <1>1, <1>3, FrameNotEmpty, UnterminatedProperties DEF F
  <1>6. Len(buf) < InitialSize
    <2>1. Len(F) \in Nat
      <3> HIDE DEF F
      <3> QED BY <1>4
    <2> HIDE DEF F
    <2> QED BY <1>1, <1>5, <2>1, SizesAssumption
  <1>7. BeginsWith(dec, m)
    <2>1. dec = SubSeq(m, 1, Len(m) - 1)
      <3> HIDE DEF dec
      <3> QED BY <1>1, <1>4 DEF Stripped
    <2>2. dec \in Seq(Byte)
      <3> HIDE DEF dec
      <3> QED BY <1>1, <1>4, StrippedProperties
    <2>3. Len(dec) <= Len(dec)
      <3> HIDE DEF dec
      <3> QED BY <2>2
    <2> HIDE DEF dec
    <2> QED BY <2>1, <2>3, Zenon DEF BeginsWith, IsPrefix
  <1>8. Len(m) <= len
    BY <1>1, <1>4
  <1>9. ParseOutcomes(dec, len) = {"valid"}
    <2> HIDE DEF dec, len
    <2> QED BY <1>7, <1>8 DEF ParseOutcomes
  <1>10. Outcomes(buf) = ParseOutcomes(dec, len) \cup {}
    <2> HIDE DEF dec, len
    <2> QED BY <1>4, <1>5, <1>6, Zenon DEF Outcomes, dec, len, F
  <1> QED BY <1>9, <1>10

---------------------------------------------------------------------------
(***************************************************************************)
(* The inductive invariant.                                                *)
(***************************************************************************)

\* While the loop runs, the buffer is what was read since the last delimiter.
Buffered ==
    cpc = "reading" =>
        LET b == Len(received) - Len(buffer) IN
        /\ b \in Nat
        /\ b = 0 \/ received[b] = SPECIAL_CHAR
        /\ \A r \in 1 .. Len(buffer) : received[b + r] = buffer[r]

\* Blocks are counted at ends of chunks already read, in order.
InOrder ==
    /\ \A k \in 1 .. Len(accepted) : accepted[k].to \in 1 .. Len(received)
    /\ \A j, k \in 1 .. Len(accepted) : j < k => accepted[j].to < accepted[k].to

\* What every step of read_blocks keeps: the properties of the runs, with the
\* state of the buffer and the order of the counted blocks they follow from.
IInv == /\ TypeOK /\ Buffered /\ InOrder
        /\ ChunksAccountedFor /\ CountedAreWholeChunks /\ WholeFramesCounted

\* A piece of a sequence, element by element.
LEMMA PieceIs ==
    ASSUME NEW S, NEW s \in Seq(S), NEW p \in 1 .. Len(s) + 1, NEW q \in 0 .. Len(s), p <= q + 1,
           NEW t \in Seq(S), Len(t) = q - p + 1, \A r \in 1 .. Len(t) : t[r] = s[p + r - 1]
    PROVE  t = SubSeq(s, p, q)
  <1>1. \A r \in p .. q : s[r] \in S
    OBVIOUS
  <1>2. /\ SubSeq(s, p, q) \in Seq(S)
        /\ Len(SubSeq(s, p, q)) = IF p <= q THEN q - p + 1 ELSE 0
        /\ \A r \in 1 .. q - p + 1 : SubSeq(s, p, q)[r] = s[p + r - 1]
    BY <1>1, SubSeqProperties
  <1>3. Len(SubSeq(s, p, q)) = Len(t)
    BY <1>2
  <1> QED BY <1>2, <1>3, SeqEqual

\* Reading one byte more does not disturb what was read.
LEMMA Longer ==
    ASSUME NEW S, NEW s \in Seq(S), NEW x \in S
    PROVE  /\ Append(s, x) \in Seq(S)
           /\ Len(Append(s, x)) = Len(s) + 1
           /\ Append(s, x)[Len(s) + 1] = x
           /\ \A r \in 1 .. Len(s) : Append(s, x)[r] = s[r]
           /\ \A p \in 1 .. Len(s) + 1, q \in 0 .. Len(s) :
                 p <= q + 1 => SubSeq(Append(s, x), p, q) = SubSeq(s, p, q)
  <1> DEFINE t == Append(s, x)
  <1>1. /\ t \in Seq(S) /\ Len(t) = Len(s) + 1 /\ t[Len(s) + 1] = x
        /\ \A r \in 1 .. Len(s) : t[r] = s[r]
    OBVIOUS
  <1> HIDE DEF t
  <1>2. ASSUME NEW p \in 1 .. Len(s) + 1, NEW q \in 0 .. Len(s), p <= q + 1
        PROVE  SubSeq(t, p, q) = SubSeq(s, p, q)
    <2> DEFINE u == SubSeq(t, p, q)
    <2>1. \A r \in p .. q : t[r] \in S
      BY <1>1
    <2>2. /\ u \in Seq(S) /\ Len(u) = (IF p <= q THEN q - p + 1 ELSE 0)
          /\ \A r \in 1 .. q - p + 1 : u[r] = t[p + r - 1]
      BY <1>1, <2>1, SubSeqProperties
    <2> HIDE DEF u
    <2>3. Len(u) = q - p + 1
      BY <1>2, <2>2
    <2>4. \A r \in 1 .. Len(u) : u[r] = s[p + r - 1]
      <3>1. \A r \in 1 .. q - p + 1 : p + r - 1 \in 1 .. Len(s)
        OBVIOUS
      <3> QED BY <1>1, <2>2, <2>3, <3>1
    <2> QED BY <1>2, <2>2, <2>3, <2>4, PieceIs DEF u
  <1> QED BY <1>1, <1>2 DEF t

\* A string of non-zero bytes is a string of bytes.
LEMMA NonZeroBytes ==
    ASSUME NEW s \in Seq(1 .. MaxMarker)
    PROVE  s \in Seq(Byte)
  <1>1. 1 .. MaxMarker \subseteq Byte
    BY MaxMarkerAssumption DEF Byte
  <1> QED BY <1>1, SeqMonotonic

\* The chunk that ends with the delimiter now read starts where the buffer does.
LEMMA ChunkIsBuffer ==
    ASSUME TypeOK, Buffered, cpc = "reading",
           NEW p \in 1 .. Len(received) + 1,
           p = 1 \/ received[p - 1] = SPECIAL_CHAR,
           \A r \in p .. Len(received) : received[r] # SPECIAL_CHAR
    PROVE  p = Len(received) - Len(buffer) + 1
  <1> DEFINE n == Len(received)
             b == n - Len(buffer)
  <1>1. /\ b \in Nat /\ (b = 0 \/ received[b] = SPECIAL_CHAR)
        /\ \A r \in 1 .. Len(buffer) : received[b + r] = buffer[r]
        /\ n \in Nat /\ Len(buffer) \in Nat
    BY DEF Buffered, TypeOK
  <1>2. \A r \in 1 .. Len(buffer) : buffer[r] # SPECIAL_CHAR
    <2>1. buffer \in Seq(1 .. MaxMarker)
      BY DEF TypeOK
    <2>2. \A r \in 1 .. Len(buffer) : buffer[r] \in 1 .. MaxMarker
      BY <2>1, ElementOfSeq
    <2> QED BY <2>2 DEF SPECIAL_CHAR
  <1>3. ~(p - 1 > b)
    <2> SUFFICES ASSUME p - 1 > b PROVE FALSE
      OBVIOUS
    <2>1. p # 1 /\ (p - 1) - b \in 1 .. Len(buffer) /\ b + ((p - 1) - b) = p - 1
      BY <1>1
    <2> HIDE DEF b, n
    <2> QED BY <1>1, <1>2, <2>1
  <1>4. ~(p - 1 < b)
    <2> SUFFICES ASSUME p - 1 < b PROVE FALSE
      OBVIOUS
    <2>1. b # 0 /\ b \in p .. n
      BY <1>1
    <2> HIDE DEF b
    <2> QED BY <1>1, <2>1
  <1> QED BY <1>1, <1>3, <1>4

\* The notions of the properties for a given string s, so that they can be
\* carried from one state to the next.  Bytes p .. q are a chunk and its
\* delimiter.
ChunkOf(s, p, q) ==
    /\ p \in 1 .. q /\ s[q] = SPECIAL_CHAR
    /\ p = 1 \/ s[p - 1] = SPECIAL_CHAR
    /\ \A r \in p .. q - 1 : s[r] # SPECIAL_CHAR

\* a is a chunk of s rightly counted.
CountedIn(s, a) ==
    /\ ChunkOf(s, a.to - Len(a.bytes), a.to)
    /\ a.bytes = SubSeq(s, a.to - Len(a.bytes), a.to - 1)
    /\ alt_cobs_verify(a.bytes, Len(a.bytes))

\* Bytes p .. q of s are the frame of a message.
FrameIn(s, p, q) == ChunkOf(s, p, q) /\ SubSeq(s, p, q) \in {cobs_encode(m) : m \in Messages}

\* One block of acc, and no other, ends at q.
Once(acc, q) ==
    \E k \in 1 .. Len(acc) : /\ acc[k].to = q
                             /\ \A j \in 1 .. Len(acc) : acc[j].to = q => j = k

\* The properties in these terms.
LEMMA Restated ==
    /\ CountedAreWholeChunks <=> \A k \in 1 .. Len(accepted) : CountedIn(received, accepted[k])
    /\ WholeFramesCounted <=>
         \A q \in 1 .. Len(received) : \A p \in 1 .. q : FrameIn(received, p, q) => Once(accepted, q)
  BY DEF CountedAreWholeChunks, WholeFramesCounted, IsChunk, ChunkOf, CountedIn, FrameIn, Once

\* The same after a step.
LEMMA RestatedNext ==
    /\ (\A k \in 1 .. Len(accepted') : CountedIn(received', accepted'[k]))
          => CountedAreWholeChunks'
    /\ (\A q \in 1 .. Len(received') : \A p \in 1 .. q :
           FrameIn(received', p, q) => Once(accepted', q))
          => WholeFramesCounted'
  BY DEF CountedAreWholeChunks, WholeFramesCounted, IsChunk, ChunkOf, CountedIn, FrameIn, Once

\* An entry of the record of counted blocks.
Block == [to : Nat, bytes : Seq(1 .. MaxMarker)]

\* Chunks that have been read stay what they are when a byte is added.
LEMMA ChunkStays ==
    ASSUME NEW s \in Seq(Byte), NEW x \in Byte, NEW q \in 1 .. Len(s), NEW p \in 1 .. q
    PROVE  /\ ChunkOf(Append(s, x), p, q) <=> ChunkOf(s, p, q)
           /\ FrameIn(Append(s, x), p, q) <=> FrameIn(s, p, q)
  <1> DEFINE t == Append(s, x)
  <1>1. /\ \A r \in 1 .. Len(s) : t[r] = s[r]
        /\ SubSeq(t, p, q) = SubSeq(s, p, q)
    <2>1. p \in 1 .. Len(s) + 1 /\ q \in 0 .. Len(s) /\ p <= q + 1
      OBVIOUS
    <2> QED BY <2>1, Longer
  <1> HIDE DEF t
  <1>2. /\ q \in 1 .. Len(s) /\ \A r \in p .. q - 1 : r \in 1 .. Len(s)
        /\ p # 1 => p - 1 \in 1 .. Len(s)
    OBVIOUS
  <1>3. ChunkOf(t, p, q) <=> ChunkOf(s, p, q)
    BY <1>1, <1>2 DEF ChunkOf
  <1> QED BY <1>1, <1>3 DEF FrameIn, t

\* A chunk rightly counted stays so when a byte is added.
LEMMA CountedStays ==
    ASSUME NEW s \in Seq(Byte), NEW x \in Byte, NEW a \in Block, a.to \in 1 .. Len(s),
           CountedIn(s, a)
    PROVE  CountedIn(Append(s, x), a)
  <1> DEFINE q == a.to
             p == a.to - Len(a.bytes)
  <1>1. p \in 1 .. q /\ Len(s) \in Nat
    BY DEF CountedIn, ChunkOf
  <1>2. p \in 1 .. Len(s) + 1 /\ q - 1 \in 0 .. Len(s) /\ p <= (q - 1) + 1
    <2> HIDE DEF p
    <2> QED BY <1>1
  <1>3. SubSeq(Append(s, x), p, q - 1) = SubSeq(s, p, q - 1)
    <2> HIDE DEF p, q
    <2> QED BY <1>2, Longer
  <1>4. ChunkOf(Append(s, x), p, q)
    <2> HIDE DEF p
    <2>1. ChunkOf(s, p, q)
      BY DEF p, CountedIn
    <2> QED BY <1>1, <2>1, ChunkStays
  <1> QED BY <1>3, <1>4 DEF CountedIn

\* A block counted once stays so when one with another end is counted.
LEMMA OnceStays ==
    ASSUME NEW acc \in Seq(Block), NEW a \in Block, NEW q, Once(acc, q), a.to # q
    PROVE  Once(Append(acc, a), q)
  <1> DEFINE t == Append(acc, a)
  <1>1. /\ Len(t) = Len(acc) + 1 /\ t[Len(acc) + 1] = a /\ Len(acc) \in Nat
        /\ \A k \in 1 .. Len(acc) : t[k] = acc[k]
    BY Longer
  <1> HIDE DEF t
  <1>2. PICK k \in 1 .. Len(acc) : acc[k].to = q /\ \A j \in 1 .. Len(acc) : acc[j].to = q => j = k
    BY DEF Once
  <1>3. k \in 1 .. Len(t) /\ t[k].to = q
    BY <1>1, <1>2
  <1>4. ASSUME NEW j \in 1 .. Len(t), t[j].to = q
        PROVE  j = k
    <2>1. j \in 1 .. Len(acc)
      BY <1>1, <1>4
    <2> QED BY <1>1, <1>2, <1>4, <2>1
  <1> QED BY <1>3, <1>4 DEF Once, t

\* A block with a new end is counted once.
LEMMA OnceNew ==
    ASSUME NEW acc \in Seq(Block), NEW a \in Block, \A k \in 1 .. Len(acc) : acc[k].to # a.to
    PROVE  Once(Append(acc, a), a.to)
  <1> DEFINE t == Append(acc, a)
  <1>1. /\ Len(t) = Len(acc) + 1 /\ t[Len(acc) + 1] = a /\ Len(acc) \in Nat
        /\ \A k \in 1 .. Len(acc) : t[k] = acc[k]
    BY Longer
  <1> HIDE DEF t
  <1>2. Len(t) \in 1 .. Len(t) /\ t[Len(t)].to = a.to
    BY <1>1
  <1>3. ASSUME NEW j \in 1 .. Len(t), t[j].to = a.to
        PROVE  j = Len(t)
    <2> SUFFICES ASSUME j # Len(t) PROVE FALSE
      OBVIOUS
    <2>1. j \in 1 .. Len(acc)
      BY <1>1
    <2> QED BY <1>1, <1>3, <2>1
  <1> QED BY <1>2, <1>3 DEF Once, t

---------------------------------------------------------------------------
(***************************************************************************)
(* Every step keeps the invariant.                                         *)
(***************************************************************************)

\* The invariant holds when read_blocks is called, whatever has arrived.
LEMMA StartIInv ==
    ASSUME ClientInit, stream \in Seq(Byte), closed \in BOOLEAN
    PROVE  IInv
  <1>1. /\ cpc = "reading" /\ buffer = << >> /\ chunkcount = 0 /\ blockcount = 0 /\ errlog = << >>
        /\ received = << >> /\ accepted = << >>
    BY DEF ClientInit
  <1>2. /\ Len(received) = 0 /\ Len(accepted) = 0 /\ Len(errlog) = 0 /\ Len(buffer) = 0
        /\ DOMAIN errlog = {}
    BY <1>1
  <1>3. TypeOK
    BY <1>1, <1>2 DEF TypeOK
  <1>4. Buffered /\ InOrder
    BY <1>2 DEF Buffered, InOrder
  <1>5. ChunksAccountedFor
    <2>1. {k \in DOMAIN errlog : Rejected(errlog[k])} = {}
      BY <1>2
    <2>2. Cardinality({}) = 0
      BY FS_EmptySet
    <2> QED BY <1>1, <1>2, <2>1, <2>2 DEF ChunksAccountedFor
  <1>6. CountedAreWholeChunks /\ WholeFramesCounted
    BY <1>2 DEF CountedAreWholeChunks, WholeFramesCounted
  <1> QED BY <1>3, <1>4, <1>5, <1>6 DEF IInv

\* Reading a byte: every chunk already read, and counted, is still there.
LEMMA AppendIInv ==
    ASSUME IInv, NEW x \in Byte, received' = Append(received, x)
    PROVE  /\ received' \in Seq(Byte) /\ Len(received') = Len(received) + 1
           /\ received'[Len(received) + 1] = x
           /\ \A r \in 1 .. Len(received) : received'[r] = received[r]
           /\ \A k \in 1 .. Len(accepted) :
                 accepted[k].to \in 1 .. Len(received') /\ CountedIn(received', accepted[k])
           /\ \A q \in 1 .. Len(received) : \A p \in 1 .. q :
                 FrameIn(received', p, q) => Once(accepted, q)
  <1>1. received \in Seq(Byte) /\ accepted \in Seq(Block)
    BY DEF IInv, TypeOK, Block
  <1>2. /\ received' \in Seq(Byte) /\ Len(received') = Len(received) + 1
        /\ received'[Len(received) + 1] = x
        /\ \A r \in 1 .. Len(received) : received'[r] = received[r]
    BY <1>1, Longer
  <1>3. ASSUME NEW k \in 1 .. Len(accepted)
        PROVE  accepted[k].to \in 1 .. Len(received') /\ CountedIn(received', accepted[k])
    <2>1. accepted[k] \in Block
      BY <1>1, ElementOfSeq
    <2>2. accepted[k].to \in 1 .. Len(received) /\ CountedIn(received, accepted[k])
      BY Restated DEF IInv, InOrder
    <2>3. CountedIn(received', accepted[k])
      BY <1>1, <2>1, <2>2, CountedStays
    <2>4. accepted[k].to \in 1 .. Len(received')
      BY <1>1, <1>2, <2>2
    <2> QED BY <2>3, <2>4
  <1>4. ASSUME NEW q \in 1 .. Len(received), NEW p \in 1 .. q, FrameIn(received', p, q)
        PROVE  Once(accepted, q)
    <2>1. FrameIn(received, p, q)
      BY <1>1, <1>4, ChunkStays
    <2> QED BY <2>1, Restated DEF IInv
  <1> QED BY <1>2, <1>3, <1>4

\* A byte that is not the delimiter is put into the buffer.
LEMMA ReadByteIInv == IInv /\ ReadByte => IInv'
  <1> SUFFICES ASSUME IInv, ReadByte PROVE IInv'
    OBVIOUS
  <1> DEFINE x == Head(stream)
             n == Len(received)
  <1>1. /\ cpc = "reading" /\ stream # << >> /\ x # SPECIAL_CHAR /\ stream' = Tail(stream)
        /\ buffer' = Append(buffer, x) /\ received' = Append(received, x)
        /\ UNCHANGED <<closed, cpc, chunkcount, blockcount, errlog, accepted>>
    BY DEF ReadByte
  <1>2. /\ stream \in Seq(Byte) /\ buffer \in Seq(1 .. MaxMarker) /\ received \in Seq(Byte)
        /\ accepted \in Seq(Block)
    BY DEF IInv, TypeOK, Block
  <1>3. x \in Byte /\ Tail(stream) \in Seq(Byte)
    BY <1>1, <1>2
  <1>4. x \in 1 .. MaxMarker
    BY <1>1, <1>3, MaxMarkerAssumption DEF Byte, SPECIAL_CHAR
  <1> HIDE DEF x
  <1>5. /\ received' \in Seq(Byte) /\ Len(received') = n + 1 /\ received'[n + 1] = x
        /\ \A r \in 1 .. n : received'[r] = received[r]
        /\ \A k \in 1 .. Len(accepted) :
              accepted[k].to \in 1 .. Len(received') /\ CountedIn(received', accepted[k])
        /\ \A q \in 1 .. n : \A p \in 1 .. q :
              FrameIn(received', p, q) => Once(accepted, q)
    BY <1>1, <1>3, AppendIInv
  <1>6. /\ buffer' \in Seq(1 .. MaxMarker) /\ Len(buffer') = Len(buffer) + 1
        /\ buffer'[Len(buffer) + 1] = x /\ \A r \in 1 .. Len(buffer) : buffer'[r] = buffer[r]
    BY <1>1, <1>2, <1>4, Longer
  <1>7. TypeOK'
    BY <1>1, <1>3, <1>5, <1>6 DEF IInv, TypeOK
  <1>8. Buffered'
    <2> DEFINE b == n - Len(buffer)
    <2>1. /\ b \in Nat /\ (b = 0 \/ received[b] = SPECIAL_CHAR)
          /\ \A r \in 1 .. Len(buffer) : received[b + r] = buffer[r]
          /\ n \in Nat /\ Len(buffer) \in Nat
      BY <1>1, <1>2 DEF IInv, Buffered
    <2>2. Len(received') - Len(buffer') = b /\ b <= n /\ b + (Len(buffer) + 1) = n + 1
      <3> HIDE DEF n
      <3> QED BY <1>5, <1>6, <2>1
    <2> HIDE DEF b, n
    <2>3. b = 0 \/ received'[b] = SPECIAL_CHAR
      BY <1>5, <2>1, <2>2
    <2>4. ASSUME NEW r \in 1 .. Len(buffer')
          PROVE  received'[b + r] = buffer'[r]
      <3>1. CASE r = Len(buffer) + 1
        BY <1>5, <1>6, <2>2, <3>1
      <3>2. CASE r # Len(buffer) + 1
        <4>1. r \in 1 .. Len(buffer) /\ b + r \in 1 .. n
          BY <1>6, <2>1, <2>2, <3>2
        <4> QED BY <1>5, <1>6, <2>1, <4>1
      <3> QED BY <3>1, <3>2
    <2> QED BY <2>1, <2>2, <2>3, <2>4 DEF Buffered
  <1>9. InOrder'
    BY <1>1, <1>5 DEF IInv, InOrder
  <1>10. ChunksAccountedFor'
    BY <1>1 DEF IInv, ChunksAccountedFor
  <1>11. CountedAreWholeChunks'
    <2>1. \A k \in 1 .. Len(accepted') : CountedIn(received', accepted'[k])
      BY <1>1, <1>5
    <2> QED BY <2>1, RestatedNext
  <1>12. WholeFramesCounted'
    <2>1. ASSUME NEW q \in 1 .. Len(received'), NEW p \in 1 .. q, FrameIn(received', p, q)
          PROVE  Once(accepted, q)
      <3>1. q # n + 1
        BY <1>1, <1>5, <2>1 DEF FrameIn, ChunkOf
      <3>2. q \in 1 .. n
        <4>1. n \in Nat
          BY <1>2
        <4> QED BY <1>5, <3>1, <4>1
      <3> QED BY <1>5, <2>1, <3>2
    <2> QED BY <1>1, <2>1, RestatedNext
  <1> QED BY <1>7, <1>8, <1>9, <1>10, <1>11, <1>12 DEF IInv

\* The number of lines of the error log that reject a chunk.
Rejections(log) == Cardinality({k \in DOMAIN log : Rejected(log[k])})

\* How the error log grows.
LEMMA LogGrows ==
    ASSUME NEW log \in Seq([kind : ErrorKinds, count : Nat]),
           NEW l \in [kind : ErrorKinds, count : Nat]
    PROVE  /\ Rejections(log) \in Nat
           /\ Rejections(Append(log, l)) = Rejections(log) + IF Rejected(l) THEN 1 ELSE 0
  <1> DEFINE t == Append(log, l)
             R == {k \in DOMAIN log : Rejected(log[k])}
             R2 == {k \in DOMAIN t : Rejected(t[k])}
  <1>1. /\ Len(t) = Len(log) + 1 /\ t[Len(log) + 1] = l /\ Len(log) \in Nat
        /\ \A k \in 1 .. Len(log) : t[k] = log[k] /\ t \in Seq([kind : ErrorKinds, count : Nat])
    BY Longer
  <1>2. DOMAIN log = 1 .. Len(log) /\ DOMAIN t = 1 .. Len(log) + 1
    BY <1>1
  <1> HIDE DEF t
  <1>3. IsFiniteSet(R) /\ Len(log) + 1 \notin R
    <2>1. IsFiniteSet(1 .. Len(log)) /\ R \subseteq 1 .. Len(log)
      BY <1>1, <1>2, FS_Interval
    <2> QED BY <1>1, <2>1, FS_Subset
  <1>4. Cardinality(R) \in Nat
    BY <1>3, FS_CardinalityType
  <1>5. CASE Rejected(l)
    <2>1. R2 = R \cup {Len(log) + 1}
      BY <1>1, <1>2, <1>5
    <2>2. Cardinality(R \cup {Len(log) + 1}) = Cardinality(R) + 1
      <3> HIDE DEF R
      <3> QED BY <1>3, FS_AddElement
    <2> HIDE DEF R, R2
    <2> QED BY <1>4, <1>5, <2>1, <2>2 DEF Rejections, R, R2, t
  <1>6. CASE ~Rejected(l)
    <2>1. R2 = R
      BY <1>1, <1>2, <1>6
    <2>2. Rejections(log) = Cardinality(R) /\ Rejections(t) = Cardinality(R2)
      BY DEF Rejections
    <2> HIDE DEF R, R2
    <2> QED BY <1>4, <1>6, <2>1, <2>2 DEF t
  <1> QED BY <1>5, <1>6

\* The delimiter: the chunk is counted or logged, and only a whole one is.
LEMMA ChunkIInv == IInv /\ Chunk => IInv'
  <1> SUFFICES ASSUME IInv, Chunk PROVE IInv'
    OBVIOUS
  <1> DEFINE n == Len(received)
             b == n - Len(buffer)
             a == [to |-> n + 1, bytes |-> buffer]
  <1>1. PICK o \in Outcomes(buffer) : HandleChunk(o)
    BY DEF Chunk
  <1>2. /\ cpc = "reading" /\ stream # << >> /\ Head(stream) = SPECIAL_CHAR
    BY DEF Chunk
  <1>3. /\ stream \in Seq(Byte) /\ buffer \in Seq(1 .. MaxMarker) /\ received \in Seq(Byte)
        /\ accepted \in Seq(Block) /\ errlog \in Seq([kind : ErrorKinds, count : Nat])
        /\ chunkcount \in Nat /\ blockcount \in 0 .. chunkcount /\ blockcount = Len(accepted)
        /\ n \in Nat /\ closed \in BOOLEAN
    BY DEF IInv, TypeOK, Block
  <1>4. SPECIAL_CHAR \in Byte /\ Tail(stream) \in Seq(Byte)
    BY <1>2, <1>3, MaxMarkerAssumption DEF SPECIAL_CHAR, Byte
  <1>5. o \in ErrorKinds \cup {"valid", "abort"} /\ (o \in Counted => alt_cobs_verify(buffer, Len(buffer)))
    BY <1>1, OutcomeKinds
  <1>6. /\ stream' = Tail(stream) /\ received' = Append(received, SPECIAL_CHAR)
        /\ chunkcount' = chunkcount + 1 /\ buffer' = << >> /\ closed' = closed
        /\ cpc' = IF o = "abort" THEN "abort" ELSE "reading"
    BY <1>1, <1>2 DEF HandleChunk, ChunkEffect
  <1>7. /\ received' \in Seq(Byte) /\ Len(received') = n + 1 /\ received'[n + 1] = SPECIAL_CHAR
        /\ \A r \in 1 .. n : received'[r] = received[r]
        /\ \A k \in 1 .. Len(accepted) :
              accepted[k].to \in 1 .. Len(received') /\ CountedIn(received', accepted[k])
        /\ \A q \in 1 .. n : \A p \in 1 .. q :
              FrameIn(received', p, q) => Once(accepted, q)
    BY <1>4, <1>6, AppendIInv
  <1>8. /\ o \in Counted => blockcount' = blockcount + 1 /\ accepted' = Append(accepted, a)
        /\ o \notin Counted => blockcount' = blockcount /\ accepted' = accepted
    <2>1. Len(received') = n + 1
      BY <1>7
    <2> HIDE DEF n
    <2> QED BY <1>1, <1>3, <2>1 DEF HandleChunk, ChunkEffect
  <1>9. /\ o \in {"valid", "abort"} => errlog' = errlog
        /\ o \notin {"valid", "abort"} => errlog' = Append(errlog, log_error(chunkcount', o))
    BY <1>1 DEF HandleChunk, ChunkEffect
  <1>10. a \in Block /\ a.to = n + 1 /\ a.bytes = buffer
    BY <1>3 DEF Block
  <1>11. /\ b \in Nat /\ (b = 0 \/ received[b] = SPECIAL_CHAR) /\ b <= n
         /\ \A r \in 1 .. Len(buffer) : received[b + r] = buffer[r]
         /\ Len(buffer) \in Nat /\ n = b + Len(buffer)
    <2>1. Len(buffer) \in Nat
      BY <1>3
    <2>2. /\ b \in Nat /\ (b = 0 \/ received[b] = SPECIAL_CHAR)
          /\ \A r \in 1 .. Len(buffer) : received[b + r] = buffer[r]
      BY <1>2 DEF IInv, Buffered
    <2>3. b <= n /\ n = b + Len(buffer)
      <3> HIDE DEF n
      <3> QED BY <1>3, <2>1
    <2> QED BY <2>1, <2>2, <2>3
  <1> HIDE DEF a, b, n
  <1>12. TypeOK'
    <2>1. blockcount' \in 0 .. chunkcount' /\ blockcount' = Len(accepted')
      BY <1>3, <1>6, <1>8, <1>10
    <2>2. accepted' \in Seq(Block)
      <3>1. Append(accepted, a) \in Seq(Block)
        BY <1>3, <1>10, Longer
      <3> QED BY <1>3, <1>8, <3>1
    <2>3. errlog' \in Seq([kind : ErrorKinds, count : Nat])
      <3>1. CASE o \in {"valid", "abort"}
        BY <1>3, <1>9, <3>1
      <3>2. CASE o \notin {"valid", "abort"}
        <4>1. o \in ErrorKinds /\ chunkcount' \in Nat
          BY <1>3, <1>5, <1>6, <3>2
        <4>2. log_error(chunkcount', o) \in [kind : ErrorKinds, count : Nat]
          BY <4>1, Zenon DEF log_error
        <4>3. Append(errlog, log_error(chunkcount', o)) \in Seq([kind : ErrorKinds, count : Nat])
          BY <1>3, <4>2, Longer
        <4> QED BY <1>9, <3>2, <4>3
      <3> QED BY <3>1, <3>2
    <2>4. cpc' \in {"reading", "eof", "bail", "abort"} /\ << >> \in Seq(1 .. MaxMarker)
      BY <1>6
    <2> QED BY <1>3, <1>4, <1>6, <1>7, <2>1, <2>2, <2>3, <2>4 DEF TypeOK, Block
  <1>13. Buffered'
    BY <1>3, <1>6, <1>7 DEF Buffered
  <1>14. /\ Len(accepted') = Len(accepted) + (IF o \in Counted THEN 1 ELSE 0)
         /\ o \in Counted => accepted'[Len(accepted) + 1] = a
         /\ \A k \in 1 .. Len(accepted) : accepted'[k] = accepted[k]
         /\ Len(accepted) \in Nat
    <2> DEFINE t == Append(accepted, a)
    <2>1. /\ Len(t) = Len(accepted) + 1 /\ t[Len(accepted) + 1] = a
          /\ \A k \in 1 .. Len(accepted) : t[k] = accepted[k]
          /\ Len(accepted) \in Nat
      BY <1>3, <1>10, Longer
    <2>2. (o \in Counted => accepted' = t) /\ (o \notin Counted => accepted' = accepted)
      BY <1>8
    <2> HIDE DEF t
    <2>3. CASE o \in Counted
      BY <2>1, <2>2, <2>3
    <2>4. CASE o \notin Counted
      BY <2>1, <2>2, <2>4
    <2> QED BY <2>3, <2>4
  <1>15. InOrder'
    <2>1. ASSUME NEW k \in 1 .. Len(accepted'), k \notin 1 .. Len(accepted)
          PROVE  k = Len(accepted) + 1 /\ accepted'[k] = a
      BY <1>14, <2>1
    <2>2. \A k \in 1 .. Len(accepted') : accepted'[k].to \in 1 .. Len(received')
      BY <1>3, <1>7, <1>10, <1>14, <2>1, SMTT(30)
    <2>3. ASSUME NEW j \in 1 .. Len(accepted'), NEW k \in 1 .. Len(accepted'), j < k
          PROVE  accepted'[j].to < accepted'[k].to
      <3>1. CASE k \in 1 .. Len(accepted)
        <4>1. j \in 1 .. Len(accepted)
          BY <1>14, <2>3, <3>1
        <4> QED BY <1>14, <2>3, <3>1, <4>1 DEF IInv, InOrder
      <3>2. CASE k \notin 1 .. Len(accepted)
        <4>1. j \in 1 .. Len(accepted) /\ accepted'[k].to = n + 1
          BY <1>10, <1>14, <2>1, <2>3, <3>2
        <4>2. accepted[j].to \in 1 .. n
          BY <4>1 DEF IInv, InOrder, n
        <4>3. accepted'[j] = accepted[j]
          BY <1>14, <4>1
        <4> QED BY <1>3, <4>1, <4>2, <4>3
      <3> QED BY <3>1, <3>2
    <2> QED BY <2>2, <2>3 DEF InOrder
  <1>16. CountedAreWholeChunks'
    <2>1. ASSUME o \in Counted
          PROVE  CountedIn(received', a)
      <3>1. a.to - Len(a.bytes) = b + 1
        BY <1>3, <1>10, <1>11
      <3>2. ChunkOf(received', b + 1, n + 1)
        <4>1. b + 1 \in 1 .. n + 1 /\ received'[n + 1] = SPECIAL_CHAR
          BY <1>3, <1>7, <1>11
        <4>2. b + 1 = 1 \/ received'[(b + 1) - 1] = SPECIAL_CHAR
          <5>1. b # 0 => b \in 1 .. n /\ (b + 1) - 1 = b
            BY <1>3, <1>11
          <5> QED BY <1>7, <1>11, <5>1
        <4>3. \A r \in b + 1 .. (n + 1) - 1 : received'[r] # SPECIAL_CHAR
          <5> SUFFICES ASSUME NEW r \in b + 1 .. n PROVE received'[r] # SPECIAL_CHAR
            BY <1>3
          <5>1. r - b \in 1 .. Len(buffer) /\ b + (r - b) = r /\ r \in 1 .. n
            BY <1>3, <1>11
          <5>2. buffer[r - b] \in 1 .. MaxMarker
            BY <1>3, <5>1, ElementOfSeq
          <5>3. received'[r] = buffer[r - b]
            BY <1>7, <1>11, <5>1
          <5> QED BY <5>2, <5>3 DEF SPECIAL_CHAR
        <4> QED BY <4>1, <4>2, <4>3 DEF ChunkOf
      <3>3. buffer = SubSeq(received', b + 1, n)
        <4>1. buffer \in Seq(Byte)
          BY <1>3, NonZeroBytes
        <4>2. /\ b + 1 \in 1 .. Len(received') + 1 /\ n \in 0 .. Len(received') /\ b + 1 <= n + 1
              /\ Len(buffer) = n - (b + 1) + 1
          BY <1>3, <1>7, <1>11
        <4>3. ASSUME NEW r \in 1 .. Len(buffer)
              PROVE  buffer[r] = received'[(b + 1) + r - 1]
          <5>1. b + r \in 1 .. n /\ (b + 1) + r - 1 = b + r
            BY <1>3, <1>11
          <5> QED BY <1>7, <1>11, <5>1
        <4> QED BY <1>7, <4>1, <4>2, <4>3, PieceIs
      <3>4. (n + 1) - 1 = n
        BY <1>3
      <3> QED BY <1>5, <1>10, <2>1, <3>1, <3>2, <3>3, <3>4 DEF CountedIn
    <2>2. \A k \in 1 .. Len(accepted') : CountedIn(received', accepted'[k])
      <3>1. \A k \in 1 .. Len(accepted') : k \in 1 .. Len(accepted) \/ (o \in Counted /\ k = Len(accepted) + 1)
        BY <1>14
      <3> QED BY <1>7, <1>14, <2>1, <3>1
    <2> QED BY <2>2, RestatedNext
  <1>17. WholeFramesCounted'
    <2>1. ASSUME NEW q \in 1 .. n, NEW p \in 1 .. q, FrameIn(received', p, q)
          PROVE  Once(accepted', q)
      <3>1. Once(accepted, q)
        BY <1>7, <2>1
      <3>2. a.to # q
        BY <1>3, <1>10
      <3> QED BY <1>3, <1>8, <1>10, <3>1, <3>2, OnceStays
    <2>2. ASSUME NEW p \in 1 .. n + 1, FrameIn(received', p, n + 1)
          PROVE  Once(accepted', n + 1)
      <3>1. PICK m \in Messages : SubSeq(received', p, n + 1) = cobs_encode(m)
        BY <2>2 DEF FrameIn
      <3>2. p = b + 1
        <4>1. p = 1 \/ received[p - 1] = SPECIAL_CHAR
          <5>1. p = 1 \/ received'[p - 1] = SPECIAL_CHAR
            BY <2>2 DEF FrameIn, ChunkOf
          <5>2. p # 1 => p - 1 \in 1 .. n
            BY <1>3
          <5> QED BY <1>7, <5>1, <5>2
        <4>2. \A r \in p .. n : received[r] # SPECIAL_CHAR
          <5>1. \A r \in p .. n : r \in p .. (n + 1) - 1 /\ r \in 1 .. n
            BY <1>3
          <5>2. \A r \in p .. (n + 1) - 1 : received'[r] # SPECIAL_CHAR
            BY <2>2 DEF FrameIn, ChunkOf
          <5> QED BY <1>7, <5>1, <5>2
        <4> QED BY <1>2, <4>1, <4>2, ChunkIsBuffer DEF IInv, b, n
      <3>3. Append(buffer, SPECIAL_CHAR) = cobs_encode(m)
        <4> DEFINE t == Append(buffer, SPECIAL_CHAR)
        <4>1. buffer \in Seq(Byte)
          BY <1>3, NonZeroBytes
        <4>2. /\ t \in Seq(Byte) /\ Len(t) = Len(buffer) + 1 /\ t[Len(buffer) + 1] = SPECIAL_CHAR
              /\ \A r \in 1 .. Len(buffer) : t[r] = buffer[r]
          BY <1>4, <4>1, Longer
        <4> HIDE DEF t
        <4>3. /\ p \in 1 .. Len(received') + 1 /\ n + 1 \in 0 .. Len(received') /\ p <= (n + 1) + 1
              /\ Len(t) = (n + 1) - p + 1
          BY <1>3, <1>7, <1>11, <3>2, <4>2
        <4>4. ASSUME NEW r \in 1 .. Len(t)
              PROVE  t[r] = received'[p + r - 1]
          <5>1. CASE r = Len(buffer) + 1
            <6>1. p + r - 1 = n + 1
              BY <1>3, <1>11, <3>2, <5>1
            <6> QED BY <1>7, <4>2, <5>1, <6>1
          <5>2. CASE r # Len(buffer) + 1
            <6>1. r \in 1 .. Len(buffer) /\ b + r \in 1 .. n /\ p + r - 1 = b + r
              BY <1>3, <1>11, <3>2, <4>2, <5>2
            <6> QED BY <1>7, <1>11, <4>2, <6>1
          <5> QED BY <5>1, <5>2
        <4>5. t = SubSeq(received', p, n + 1)
          BY <1>7, <4>2, <4>3, <4>4, PieceIs
        <4> QED BY <3>1, <4>5 DEF t
      <3>4. buffer = Unterminated(cobs_encode(m))
        <4> DEFINE t == Append(buffer, SPECIAL_CHAR)
        <4>1. buffer \in Seq(Byte)
          BY <1>3, NonZeroBytes
        <4>2. /\ t \in Seq(Byte) /\ Len(t) = Len(buffer) + 1 /\ Len(t) - 1 = Len(buffer)
              /\ \A r \in 1 .. Len(buffer) : t[r] = buffer[r]
          BY <1>4, <4>1, Longer
        <4> HIDE DEF t
        <4>3. /\ 1 \in 1 .. Len(t) + 1 /\ Len(buffer) \in 0 .. Len(t) /\ 1 <= Len(buffer) + 1
              /\ Len(buffer) = Len(buffer) - 1 + 1 /\ \A r \in 1 .. Len(buffer) : 1 + r - 1 = r
          BY <1>11, <4>2
        <4>4. buffer = SubSeq(t, 1, Len(buffer))
          BY <4>1, <4>2, <4>3, PieceIs
        <4>5. t = cobs_encode(m)
          BY <3>3 DEF t
        <4> QED BY <4>2, <4>4, <4>5 DEF Unterminated
      <3>5. o = "valid"
        BY <1>1, <3>3, <3>4, MessageOutcome
      <3>6. accepted' = Append(accepted, a)
        BY <1>8, <3>5 DEF Counted
      <3>7. \A k \in 1 .. Len(accepted) : accepted[k].to # a.to
        <4>1. \A k \in 1 .. Len(accepted) : accepted[k].to \in 1 .. n
          BY DEF IInv, InOrder, n
        <4> QED BY <1>3, <1>10, <4>1
      <3> QED BY <1>3, <1>10, <3>6, <3>7, OnceNew
    <2>3. ASSUME NEW q \in 1 .. Len(received'), NEW p \in 1 .. q, FrameIn(received', p, q)
          PROVE  Once(accepted', q)
      <3>1. q \in 1 .. n \/ q = n + 1
        BY <1>3, <1>7
      <3> QED BY <2>1, <2>2, <2>3, <3>1
    <2> QED BY <2>3, RestatedNext
  <1>18. ChunksAccountedFor'
    <2>1. chunkcount = blockcount + Rejections(errlog)
      BY <1>2 DEF IInv, ChunksAccountedFor, Rejections
    <2>2. CASE o \in {"valid", "abort"}
      <3>1. errlog' = errlog
        BY <1>9, <2>2
      <3>2. Rejections(errlog) \in Nat
        <4>1. [kind |-> "unknown", count |-> 0] \in [kind : ErrorKinds, count : Nat]
          BY DEF ErrorKinds
        <4> QED BY <1>3, <4>1, LogGrows
      <3>3. cpc' # "abort" => chunkcount' = blockcount' + Rejections(errlog')
        <4>1. cpc' # "abort" => blockcount' = blockcount + 1
          BY <1>6, <1>8, <2>2 DEF Counted
        <4> QED BY <1>3, <1>6, <2>1, <3>1, <3>2, <4>1
      <3> QED BY <3>1, <3>3 DEF ChunksAccountedFor, Rejections
    <2>3. CASE o \notin {"valid", "abort"}
      <3> DEFINE l == [kind |-> o, count |-> chunkcount']
      <3>1. /\ errlog' = Append(errlog, l) /\ o \in ErrorKinds /\ l \in [kind : ErrorKinds, count : Nat]
            /\ l.kind = o /\ l.count = chunkcount + 1
        BY <1>3, <1>5, <1>6, <1>9, <2>3 DEF log_error
      <3> HIDE DEF l
      <3>2. /\ Rejections(errlog) \in Nat
            /\ Rejections(errlog') = Rejections(errlog) + IF Rejected(l) THEN 1 ELSE 0
        BY <1>3, <3>1, LogGrows
      <3>3. blockcount' = blockcount + (IF Rejected(l) THEN 0 ELSE 1)
        BY <1>3, <1>8, <2>3, <3>1 DEF Rejected, Counted
      <3>4. chunkcount' = blockcount' + Rejections(errlog')
        BY <1>3, <1>6, <2>1, <3>2, <3>3
      <3> QED BY <3>4 DEF ChunksAccountedFor, Rejections
    <2> QED BY <2>2, <2>3
  <1> QED BY <1>12, <1>13, <1>15, <1>16, <1>17, <1>18 DEF IInv

\* The loop ends, with or without memory: nothing that was counted changes.
LEMMA StopIInv == IInv /\ (Eof \/ Bail) => IInv'
  <1> SUFFICES ASSUME IInv, Eof \/ Bail PROVE IInv'
    OBVIOUS
  <1>1. /\ cpc' \in {"eof", "bail"} /\ buffer' \in {buffer, << >>}
        /\ UNCHANGED <<stream, closed, chunkcount, blockcount, errlog, received, accepted>>
        /\ cpc = "reading"
    BY DEF Eof, Bail
  <1>2. TypeOK'
    <2>1. buffer \in Seq(1 .. MaxMarker) /\ << >> \in Seq(1 .. MaxMarker)
      BY DEF IInv, TypeOK
    <2> QED BY <1>1, <2>1 DEF IInv, TypeOK
  <1>3. Buffered' /\ InOrder'
    BY <1>1 DEF IInv, Buffered, InOrder
  <1>4. ChunksAccountedFor'
    BY <1>1 DEF IInv, ChunksAccountedFor
  <1>5. CountedAreWholeChunks' /\ WholeFramesCounted'
    BY <1>1, Restated, RestatedNext DEF IInv
  <1> QED BY <1>2, <1>3, <1>4, <1>5 DEF IInv

\* More bytes arrive, or the server closes its end.
LEMMA ArrivalIInv ==
    ASSUME IInv, stream' \in Seq(Byte), closed' \in BOOLEAN,
           UNCHANGED <<cpc, buffer, chunkcount, blockcount, errlog, received, accepted>>
    PROVE  IInv'
  <1>1. TypeOK' /\ Buffered' /\ InOrder' /\ ChunksAccountedFor'
    BY DEF IInv, TypeOK, Buffered, InOrder, ChunksAccountedFor
  <1>2. CountedAreWholeChunks' /\ WholeFramesCounted'
    BY Restated, RestatedNext DEF IInv
  <1> QED BY <1>1, <1>2 DEF IInv

\* Every step of the client keeps the invariant.
LEMMA StepIInv ==
    ASSUME IInv, [Next]_cvars
    PROVE  IInv'
  <1>1. CASE UNCHANGED cvars
    <2>1. /\ UNCHANGED <<cpc, buffer, chunkcount, blockcount, errlog, received, accepted>>
          /\ stream' \in Seq(Byte) /\ closed' \in BOOLEAN
      BY <1>1 DEF cvars, IInv, TypeOK
    <2> QED BY <2>1, ArrivalIInv
  <1> QED BY <1>1, ReadByteIInv, ChunkIInv, StopIInv DEF Next, Reading

---------------------------------------------------------------------------
(***************************************************************************)
(* What the composition with a server needs to know of the client.         *)
(***************************************************************************)

\* The frame of a message: bytes that are not zero, and a zero.
LEMMA MessageFrame ==
    ASSUME NEW m \in Messages
    PROVE  LET F == cobs_encode(m) IN
           /\ F \in Seq(Byte) /\ Len(F) \in Nat \ {0} /\ F[Len(F)] = SPECIAL_CHAR
           /\ \A p \in 1 .. Len(F) - 1 : F[p] # SPECIAL_CHAR
  <1> DEFINE F == cobs_encode(m)
  <1>1. m \in Seq(Byte) /\ m # << >> /\ m[Len(m)] = SPECIAL_CHAR
    BY MessagesAssumption
  <1>2. EncodedAs(m, F)
    BY <1>1, EncodeFrames
  <1> HIDE DEF F
  <1>3. Frame(m, F)
    BY <1>1, <1>2 DEF EncodedAs
  <1>4. /\ F \in Seq(Byte) /\ Len(F) >= 1 /\ F[Len(F)] = SPECIAL_CHAR
        /\ \A p \in 1 .. Len(F) - 1 : F[p] \in 1 .. MaxMarker
    BY <1>3 DEF Frame
  <1>5. Len(F) \in Nat \ {0}
    BY <1>4
  <1>6. \A p \in 1 .. Len(F) - 1 : F[p] # SPECIAL_CHAR
    BY <1>4 DEF SPECIAL_CHAR
  <1>7. /\ F \in Seq(Byte) /\ Len(F) \in Nat \ {0} /\ F[Len(F)] = SPECIAL_CHAR
        /\ \A p \in 1 .. Len(F) - 1 : F[p] # SPECIAL_CHAR
    BY <1>4, <1>5, <1>6
  <1> QED BY <1>7 DEF F

\* A buffer with exactly the frame of a message but its delimiter is counted
\* without an error.
LEMMA ExactOutcome ==
    ASSUME NEW m \in Messages, NEW buf \in Seq(1 .. MaxMarker),
           Append(buf, SPECIAL_CHAR) = cobs_encode(m)
    PROVE  Outcomes(buf) = {"valid"}
  <1> DEFINE F == Append(buf, SPECIAL_CHAR)
  <1>1. buf \in Seq(Byte) /\ SPECIAL_CHAR \in Byte
    BY NonZeroBytes, MaxMarkerAssumption DEF Byte, SPECIAL_CHAR
  <1>2. Len(F) = Len(buf) + 1 /\ F \in Seq(Byte) /\ \A r \in 1 .. Len(buf) : F[r] = buf[r]
    BY <1>1, Longer
  <1> HIDE DEF F
  <1>3. buf = SubSeq(F, 1, Len(F) - 1)
    <2>1. Len(buf) \in Nat
      OBVIOUS
    <2>2. /\ 1 \in 1 .. Len(F) + 1 /\ Len(F) - 1 \in 0 .. Len(F) /\ 1 <= (Len(F) - 1) + 1
          /\ Len(buf) = (Len(F) - 1) - 1 + 1
      BY <1>2, <2>1
    <2>3. \A r \in 1 .. Len(buf) : buf[r] = F[1 + r - 1]
      <3>1. \A r \in 1 .. Len(buf) : 1 + r - 1 = r
        BY <2>1
      <3> QED BY <1>2, <3>1
    <2> QED BY <1>1, <1>2, <2>2, <2>3, PieceIs
  <1>4. buf = Unterminated(cobs_encode(m))
    BY <1>3 DEF Unterminated, F
  <1> QED BY <1>4, MessageOutcome

\* The invariant, in terms of the variables alone.
LEMMA Known ==
    ASSUME IInv
    PROVE  /\ stream \in Seq(Byte) /\ received \in Seq(Byte) /\ buffer \in Seq(1 .. MaxMarker)
           /\ accepted \in Seq(Block) /\ blockcount = Len(accepted)
           /\ cpc = "reading" =>
                /\ Len(received) - Len(buffer) \in Nat
                /\ \/ Len(received) - Len(buffer) = 0
                   \/ received[Len(received) - Len(buffer)] = SPECIAL_CHAR
                /\ \A r \in 1 .. Len(buffer) :
                      received[Len(received) - Len(buffer) + r] = buffer[r]
           /\ \A k \in 1 .. Len(accepted) :
                 /\ accepted[k].to \in 1 .. Len(received)
                 /\ ChunkOf(received, accepted[k].to - Len(accepted[k].bytes), accepted[k].to)
                 /\ accepted[k].bytes =
                      SubSeq(received, accepted[k].to - Len(accepted[k].bytes), accepted[k].to - 1)
           /\ \A j, k \in 1 .. Len(accepted) : j < k => accepted[j].to < accepted[k].to
           /\ \A q \in 1 .. Len(received) : \A p \in 1 .. q :
                 ChunkOf(received, p, q) /\ (\E m \in Messages : SubSeq(received, p, q) = cobs_encode(m))
                   => \E k \in 1 .. Len(accepted) : accepted[k].to = q
  <1>1. TypeOK /\ Buffered /\ InOrder /\ CountedAreWholeChunks /\ WholeFramesCounted
    BY DEF IInv
  <1>2. \A k \in 1 .. Len(accepted) : CountedIn(received, accepted[k])
    BY <1>1, Restated
  <1>3. \A q \in 1 .. Len(received) : \A p \in 1 .. q : FrameIn(received, p, q) => Once(accepted, q)
    BY <1>1, Restated
  <1>4. /\ stream \in Seq(Byte) /\ received \in Seq(Byte) /\ buffer \in Seq(1 .. MaxMarker)
        /\ accepted \in Seq(Block) /\ blockcount = Len(accepted)
    BY <1>1 DEF TypeOK, Block
  <1>5. cpc = "reading" =>
                /\ Len(received) - Len(buffer) \in Nat
                /\ \/ Len(received) - Len(buffer) = 0
                   \/ received[Len(received) - Len(buffer)] = SPECIAL_CHAR
                /\ \A r \in 1 .. Len(buffer) :
                      received[Len(received) - Len(buffer) + r] = buffer[r]
    BY <1>1, Zenon DEF Buffered
  <1>6. \A j, k \in 1 .. Len(accepted) : j < k => accepted[j].to < accepted[k].to
    BY <1>1, Zenon DEF InOrder
  <1>7. ASSUME NEW k \in 1 .. Len(accepted)
        PROVE  /\ accepted[k].to \in 1 .. Len(received)
               /\ ChunkOf(received, accepted[k].to - Len(accepted[k].bytes), accepted[k].to)
               /\ accepted[k].bytes =
                    SubSeq(received, accepted[k].to - Len(accepted[k].bytes), accepted[k].to - 1)
    BY <1>1, <1>2, Zenon DEF InOrder, CountedIn
  <1>8. ASSUME NEW q \in 1 .. Len(received), NEW p \in 1 .. q, ChunkOf(received, p, q),
               NEW m \in Messages, SubSeq(received, p, q) = cobs_encode(m)
        PROVE  \E k \in 1 .. Len(accepted) : accepted[k].to = q
    <2>1. FrameIn(received, p, q)
      BY <1>8, Zenon DEF FrameIn
    <2> QED BY <1>3, <2>1, Zenon DEF Once
  <1> QED BY <1>4, <1>5, <1>6, <1>7, <1>8, Zenon

---------------------------------------------------------------------------
\* Every reachable state satisfies the inductive invariant.
THEOREM Invariance == Spec => []IInv
  <1>1. Init => IInv
    BY StartIInv, StreamsAssumption DEF Init
  <1>2. IInv /\ [Next]_cvars => IInv'
    BY StepIInv
  <1> QED BY <1>1, <1>2, PTL DEF Spec

\* The client's state keeps its types; in particular no delimiter is ever in
\* the buffer.
THEOREM TypeCorrect == Spec => []TypeOK
  <1>1. IInv => TypeOK
    BY DEF IInv
  <1> QED BY Invariance, <1>1, PTL

\* Every chunk read_blocks has handled is counted or logged, once.
THEOREM AccountedFor == Spec => []ChunksAccountedFor
  <1>1. IInv => ChunksAccountedFor
    BY DEF IInv
  <1> QED BY Invariance, <1>1, PTL

\* Only whole chunks that passed the COBS check are counted.
THEOREM CountedWhole == Spec => []CountedAreWholeChunks
  <1>1. IInv => CountedAreWholeChunks
    BY DEF IInv
  <1> QED BY Invariance, <1>1, PTL

\* Resynchronisation, for every stream: the encoding of a message between two
\* delimiters is counted, exactly once, whatever bytes surround it.
THEOREM Resynchronises == Spec => []WholeFramesCounted
  <1>1. IInv => WholeFramesCounted
    BY DEF IInv
  <1> QED BY Invariance, <1>1, PTL
===========================================================================
