------------------------- MODULE QdTransferProofs -------------------------
(***************************************************************************)
(* Proofs about QdTransfer, for directories, messages and streams of every *)
(* length and any number of altered bytes.  The invariants of the two ends *)
(* are those of FileTransferProofs and BlockClientProofs; what is added is *)
(* where each frame lies in the bytes that arrive.                         *)
(***************************************************************************)
EXTENDS QdTransfer, SequenceTheorems, FiniteSetTheorems, TLAPS

\* The proofs about the server child and about the client.
SP == INSTANCE FileTransferProofs WITH MayReset <- TRUE, Blocks <- DOMAIN MsgBytes,
                                       drained <- Len(frames)
CP == INSTANCE BlockClientProofs WITH blockcount <- blocksRead, Streams <- {}

(***************************************************************************)
(* The inductive invariant.                                                *)
(***************************************************************************)

\* What a byte of the stream may be.
Bytes == 0 .. MaxMarker

\* What is known of a frame under way.
Transmission == [to : Nat, sent : Seq(Bytes), got : Seq(Bytes)]

\* Bytes that are not zero, and a zero.
Framed(f) ==
    /\ f \in Seq(Bytes) /\ Len(f) \in Nat \ {0} /\ f[Len(f)] = 0
    /\ \A p \in 1 .. Len(f) - 1 : f[p] # 0

\* The bytes of the stream before the k-th frame, and before the next one.
StartOf(fs, k) == IF k = 1 THEN 0 ELSE fs[k - 1].to
EndOf(fs) == IF fs = << >> THEN 0 ELSE fs[Len(fs)].to

\* The k-th frame of fs occupies its own bytes of all, next to its neighbours.
LaidAt(fs, all, k) ==
    /\ StartOf(fs, k) \in Nat
    /\ fs[k].to = StartOf(fs, k) + Len(fs[k].sent) /\ fs[k].to <= Len(all)
    /\ Len(fs[k].got) = Len(fs[k].sent)
    /\ \A r \in 1 .. Len(fs[k].sent) : all[StartOf(fs, k) + r] = fs[k].got[r]

\* At most one byte of a transmission is altered.
OneByte(t) ==
    \A i, j \in 1 .. Len(t.sent) : t.got[i] # t.sent[i] /\ t.got[j] # t.sent[j] => i = j

\* All bytes that have arrived.
Arrived == received \o stream

\* The frames that were altered on the way.
Altered(fs) == {k \in 1 .. Len(fs) : fs[k].got # fs[k].sent}

\* Type correctness of the connection.
NetType ==
    /\ frames \in Seq(Transmission) /\ errs \in Nat /\ partial \in Seq(Bytes)
    /\ closed \in BOOLEAN

\* The frames are those of the blocks written, in order; each has its bytes.
Carried ==
    /\ Len(frames) <= Len(wire)
    /\ \A k \in 1 .. Len(frames) : /\ frames[k].sent = Frame[wire[k]]
                                   /\ LaidAt(frames, Arrived, k)
                                   /\ OneByte(frames[k])

\* What arrives are the frames and, at the end, what a dying server had
\* written of one more: bytes of a frame before its delimiter.
Ending ==
    /\ Len(Arrived) = EndOf(frames) + (IF closed THEN Len(partial) ELSE 0)
    /\ closed => /\ \A r \in 1 .. Len(partial) : Arrived[EndOf(frames) + r] = partial[r]
                 /\ pc \in {"exited", "killed"} /\ Len(frames) = Len(wire)
    /\ \A r \in 1 .. Len(partial) : partial[r] # 0
    /\ partial # << >> => pc = "killed"
    /\ cpc = "eof" => closed /\ stream = << >>

\* The errors are the altered frames; without them the client has logged
\* nothing.
Errors ==
    /\ errs = Cardinality(Altered(frames))
    /\ errs = 0 => errlog = << >>

\* What a step of either end, or of the network, keeps.
IInv == SP!IInv /\ CP!IInv /\ NetType /\ Carried /\ Ending /\ Errors

(***************************************************************************)
(* The parts, as QdTransfer and as their proofs name them, are the same.   *)
(***************************************************************************)

\* The operators of Cobs.
LEMMA SameCobs ==
    ASSUME NEW src, NEW slen, NEW dlen
    PROVE  /\ C!cobs_encode(src) = CP!cobs_encode(src)
           /\ C!alt_cobs_verify(src, slen) = CP!alt_cobs_verify(src, slen)
           /\ C!cobs_decode(src, slen) = CP!cobs_decode(src, slen)
           /\ C!cobs_decoded_length_from_encoded(src) = CP!cobs_decoded_length_from_encoded(src)
           /\ C!cobs_partial_decode(src, slen, dlen) = CP!cobs_partial_decode(src, slen, dlen)
  <1>1. C!cobs_encode(src) = CP!cobs_encode(src)
    BY DEF C!cobs_encode, CP!cobs_encode, C!EncFinish, CP!EncFinish, C!EncInit, CP!EncInit,
           C!EncStep, CP!EncStep, C!PlaceMarker, CP!PlaceMarker, C!CopyByte, CP!CopyByte,
           C!Unwritten, CP!Unwritten, C!SPECIAL_CHAR, CP!SPECIAL_CHAR
  <1>2. C!alt_cobs_verify(src, slen) = CP!alt_cobs_verify(src, slen)
    BY DEF C!alt_cobs_verify, CP!alt_cobs_verify, C!SPECIAL_CHAR, CP!SPECIAL_CHAR,
           C!Offset, CP!Offset
  <1>3. C!cobs_decode(src, slen) = CP!cobs_decode(src, slen)
    BY DEF C!cobs_decode, CP!cobs_decode, C!SPECIAL_CHAR, CP!SPECIAL_CHAR, C!Offset,
           CP!Offset
  <1>4. C!cobs_decoded_length_from_encoded(src) = CP!cobs_decoded_length_from_encoded(src)
    BY DEF C!cobs_decoded_length_from_encoded, CP!cobs_decoded_length_from_encoded,
           C!cobs_encoded_length_from_encoded, CP!cobs_encoded_length_from_encoded,
           C!SPECIAL_CHAR, CP!SPECIAL_CHAR, C!Offset, CP!Offset, C!FullBlock, CP!FullBlock
  <1>5. C!cobs_partial_decode(src, slen, dlen) = CP!cobs_partial_decode(src, slen, dlen)
    BY DEF C!cobs_partial_decode, CP!cobs_partial_decode, C!SPECIAL_CHAR, CP!SPECIAL_CHAR,
           C!Offset, CP!Offset, C!Hex255, CP!Hex255, C!Unwritten, CP!Unwritten
  <1> QED BY <1>1, <1>2, <1>3, <1>4, <1>5

\* What becomes of a chunk.
LEMMA SameOutcomes ==
    ASSUME NEW buf
    PROVE  C!Outcomes(buf) = CP!Outcomes(buf)
  <1>1. C!CobsErrors(buf) = CP!CobsErrors(buf)
    BY SameCobs DEF C!CobsErrors, CP!CobsErrors
  <1>2. ASSUME NEW d, NEW l
        PROVE  C!ParseOutcomes(d, l) = CP!ParseOutcomes(d, l)
    BY Zenon DEF C!ParseOutcomes, CP!ParseOutcomes, C!BeginsWith, CP!BeginsWith,
                 C!IsPrefix, CP!IsPrefix
  <1>3. C!SPECIAL_CHAR = CP!SPECIAL_CHAR
    BY DEF C!SPECIAL_CHAR, CP!SPECIAL_CHAR
  <1> QED BY <1>1, <1>2, <1>3, SameCobs, Zenon DEF C!Outcomes, CP!Outcomes

\* The steps of the client.
LEMMA SameClient ==
    /\ C!ClientInit <=> CP!ClientInit
    /\ C!ReadByte <=> CP!ReadByte
    /\ C!Chunk <=> CP!Chunk
    /\ C!Eof <=> CP!Eof
    /\ C!Bail <=> CP!Bail
  <1>1. C!ClientInit <=> CP!ClientInit
    BY DEF C!ClientInit, CP!ClientInit
  <1>2. C!ReadByte <=> CP!ReadByte
    BY DEF C!ReadByte, CP!ReadByte, C!SPECIAL_CHAR, CP!SPECIAL_CHAR
  <1>3. (C!Eof <=> CP!Eof) /\ (C!Bail <=> CP!Bail)
    BY DEF C!Eof, CP!Eof, C!Bail, CP!Bail
  <1>4. ASSUME NEW o
        PROVE  C!HandleChunk(o) <=> CP!HandleChunk(o)
    BY DEF C!HandleChunk, CP!HandleChunk, C!ChunkEffect, CP!ChunkEffect, C!Counted,
           CP!Counted, C!log_error, CP!log_error
  <1>5. C!Chunk <=> CP!Chunk
    BY <1>4, SameOutcomes, Zenon DEF C!Chunk, CP!Chunk, C!SPECIAL_CHAR, CP!SPECIAL_CHAR
  <1> QED BY <1>1, <1>2, <1>3, <1>5

\* The steps of the server child.
LEMMA SameServer ==
    /\ S!Init <=> SP!Init
    /\ S!Child <=> SP!Child
    /\ S!SendNoMemory <=> SP!SendNoMemory
    /\ S!PeerReset <=> SP!PeerReset
    /\ S!NoSkips <=> SP!NoSkips
  <1>1. S!Init <=> SP!Init
    BY DEF S!Init, SP!Init
  <1>2. S!Child <=> SP!Child
    BY DEF S!Opendir, SP!Opendir, S!TypeSelected, SP!TypeSelected, S!SkipEntry,
           SP!SkipEntry, S!NotShipped, SP!NotShipped, S!OpenFile, SP!OpenFile,
           S!CountBlock, SP!CountBlock, S!CanSend, SP!CanSend, S!SendBlock, SP!SendBlock, S!SendFails,
           SP!SendFails, S!SendKilled, SP!SendKilled, S!CloseFile, SP!CloseFile,
           S!hipftlog, SP!hipftlog, S!LogAndExit, SP!LogAndExit, S!Child, SP!Child,
           S!DT_REG, SP!DT_REG
  <1>3. S!SendNoMemory <=> SP!SendNoMemory
    BY DEF S!SendNoMemory, SP!SendNoMemory, S!CountBlock, SP!CountBlock
  <1>4. S!PeerReset <=> SP!PeerReset
    BY DEF S!PeerReset, SP!PeerReset
  <1>5. S!NoSkips <=> SP!NoSkips
    BY DEF S!NoSkips, SP!NoSkips, S!Done, SP!Done, S!TypeSelected, SP!TypeSelected,
           S!Shipped, SP!Shipped, S!DT_REG, SP!DT_REG
  <1> QED BY <1>1, <1>2, <1>3, <1>4, <1>5

\* The assumptions of the parts hold.
LEMMA PartsAssumed ==
    /\ SP!BlockSizeAssumption /\ SP!UninitAssumption /\ SP!RoomAssumption
    /\ SP!MayResetAssumption /\ SP!DirsAssumption
    /\ CP!MaxMarkerAssumption /\ CP!MessagesAssumption /\ CP!SizesAssumption
    /\ CP!StreamsAssumption
  <1>1. /\ SP!BlockSizeAssumption /\ SP!UninitAssumption /\ SP!RoomAssumption
        /\ SP!MayResetAssumption
    BY PartsAssumption DEF S!RoomAssumption, SP!RoomAssumption, S!BlockSizeAssumption, SP!BlockSizeAssumption, S!UninitAssumption,
           SP!UninitAssumption, S!MayResetAssumption, SP!MayResetAssumption
  <1>2. SP!DirsAssumption
    BY PartsAssumption DEF S!DirsAssumption, SP!DirsAssumption, S!DirEntry, SP!DirEntry
  <1>3. CP!MaxMarkerAssumption /\ CP!SizesAssumption /\ CP!StreamsAssumption
    BY PartsAssumption DEF C!MaxMarkerAssumption, CP!MaxMarkerAssumption, C!SizesAssumption,
           CP!SizesAssumption,
           CP!StreamsAssumption
  <1>4. CP!MessagesAssumption
    BY PartsAssumption, SameCobs, Zenon
       DEF C!MessagesAssumption, CP!MessagesAssumption, C!Byte, CP!Byte, C!SPECIAL_CHAR,
           CP!SPECIAL_CHAR
  <1> QED BY <1>1, <1>2, <1>3, <1>4

\* The frame of a block is the encoding of a message: bytes that are not zero,
\* and a zero.
LEMMA BlockFrame ==
    ASSUME NEW b \in DOMAIN MsgBytes
    PROVE  /\ Framed(Frame[b])
           /\ \E m \in Messages : Frame[b] = CP!cobs_encode(m)
  <1>1. MsgBytes[b] \in Messages
    BY MsgBytesAssumption
  <1>2. Frame[b] = CP!cobs_encode(MsgBytes[b])
    BY SameCobs DEF Frame
  <1> DEFINE F == CP!cobs_encode(MsgBytes[b])
  <1>3. /\ F \in Seq(CP!Byte) /\ Len(F) \in Nat \ {0} /\ F[Len(F)] = CP!SPECIAL_CHAR
        /\ \A p \in 1 .. Len(F) - 1 : F[p] # CP!SPECIAL_CHAR
    BY <1>1, PartsAssumed, CP!MessageFrame, Zenon
  <1> HIDE DEF F
  <1>4. Framed(F)
    BY <1>3 DEF Framed, Bytes, CP!Byte, CP!SPECIAL_CHAR
  <1> QED BY <1>1, <1>2, <1>4 DEF F

---------------------------------------------------------------------------
(***************************************************************************)
(* Where the frames lie in the stream.                                     *)
(***************************************************************************)

\* The frames of fs lie one behind the other in all.
Laid(fs, all) ==
    /\ fs \in Seq(Transmission) /\ all \in Seq(Bytes)
    /\ \A k \in 1 .. Len(fs) : LaidAt(fs, all, k) /\ Framed(fs[k].sent)

\* The numbers of one frame.
LEMMA FrameSpan ==
    ASSUME NEW fs, NEW all, Laid(fs, all), NEW k \in 1 .. Len(fs)
    PROVE  /\ StartOf(fs, k) \in Nat /\ fs[k].to \in Nat /\ StartOf(fs, k) < fs[k].to
           /\ fs[k].to = StartOf(fs, k) + Len(fs[k].sent) /\ fs[k].to <= Len(all)
           /\ Len(fs[k].sent) \in Nat \ {0} /\ Len(all) \in Nat /\ Len(fs) \in Nat
           /\ fs[k] \in Transmission
  <1>1. /\ StartOf(fs, k) \in Nat /\ fs[k].to = StartOf(fs, k) + Len(fs[k].sent)
        /\ fs[k].to <= Len(all) /\ Len(fs[k].sent) \in Nat \ {0}
    BY DEF Laid, LaidAt, Framed
  <1>2. fs[k] \in Transmission /\ Len(all) \in Nat /\ Len(fs) \in Nat
    BY DEF Laid
  <1> QED BY <1>1, <1>2

\* Frames do not overlap.
LEMMA Ordered ==
    ASSUME NEW fs, NEW all, Laid(fs, all), NEW j \in 1 .. Len(fs), NEW k \in 1 .. Len(fs), j < k
    PROVE  fs[j].to <= StartOf(fs, k) /\ fs[j].to < fs[k].to
  <1> DEFINE T == {d \in Nat : j + d \in 1 .. Len(fs) => fs[j].to <= fs[j + d].to}
  <1>0. Len(fs) \in Nat /\ j \in Nat /\ k \in Nat
    BY FrameSpan
  <1>1. 0 \in T
    <2>1. j + 0 = j /\ fs[j].to \in Nat
      BY <1>0, FrameSpan
    <2> QED BY <2>1
  <1>2. ASSUME NEW d \in Nat, d \in T
        PROVE  d + 1 \in T
    <2> SUFFICES ASSUME j + (d + 1) \in 1 .. Len(fs) PROVE fs[j].to <= fs[j + (d + 1)].to
      OBVIOUS
    <2> DEFINE i == j + (d + 1)
    <2>1. i \in 1 .. Len(fs) /\ i # 1 /\ i - 1 = j + d /\ j + d \in 1 .. Len(fs)
      BY <1>0
    <2>2. StartOf(fs, i) = fs[j + d].to
      <3> HIDE DEF i
      <3> QED BY <2>1 DEF StartOf
    <2>3. StartOf(fs, i) < fs[i].to /\ StartOf(fs, i) \in Nat /\ fs[i].to \in Nat /\ fs[j].to \in Nat
      <3> HIDE DEF i
      <3> QED BY <2>1, FrameSpan
    <2>4. fs[j].to <= fs[j + d].to
      BY <1>2, <2>1
    <2> HIDE DEF i
    <2>5. fs[j].to <= fs[i].to
      BY <2>2, <2>3, <2>4
    <2> QED BY <2>5 DEF i
  <1>3. (k - 1) - j \in T
    <2>1. (k - 1) - j \in Nat
      BY <1>0
    <2> HIDE DEF T
    <2> QED BY <1>1, <1>2, <2>1, PartsAssumed, SP!NatSetInduction
  <1>4. j + ((k - 1) - j) = k - 1 /\ k - 1 \in 1 .. Len(fs) /\ k # 1
    BY <1>0
  <1>5. fs[j].to <= fs[k - 1].to
    BY <1>3, <1>4
  <1>6. StartOf(fs, k) = fs[k - 1].to
    BY <1>4 DEF StartOf
  <1>7. StartOf(fs, k) < fs[k].to /\ StartOf(fs, k) \in Nat /\ fs[k].to \in Nat /\ fs[j].to \in Nat
    BY FrameSpan
  <1> QED BY <1>5, <1>6, <1>7

\* Every byte up to the end of the last frame belongs to one.
LEMMA Within ==
    ASSUME NEW fs, NEW all, Laid(fs, all), NEW q \in Nat \ {0}, q <= EndOf(fs)
    PROVE  \E k \in 1 .. Len(fs) : \E r \in 1 .. Len(fs[k].sent) : q = StartOf(fs, k) + r
  <1> DEFINE T == {k \in 1 .. Len(fs) : q <= fs[k].to}
  <1>0. fs \in Seq(Transmission) /\ Len(fs) \in Nat
    BY DEF Laid
  <1>1. Len(fs) \in T
    <2>1. fs # << >>
      BY DEF EndOf
    <2>2. EndOf(fs) = fs[Len(fs)].to /\ Len(fs) \in 1 .. Len(fs)
      BY <1>0, <2>1 DEF EndOf
    <2> QED BY <2>2
  <1>2. T \in SUBSET Nat
    BY <1>0
  <1>3. PICK k \in T : \A i \in T : k <= i
    <2> HIDE DEF T
    <2> QED BY <1>1, <1>2, PartsAssumed, SP!LeastNat
  <1>4. /\ k \in 1 .. Len(fs) /\ q <= fs[k].to /\ StartOf(fs, k) \in Nat
        /\ fs[k].to = StartOf(fs, k) + Len(fs[k].sent) /\ Len(fs[k].sent) \in Nat
    BY <1>3, FrameSpan
  <1>5. StartOf(fs, k) < q
    <2>1. CASE k = 1
      BY <2>1 DEF StartOf
    <2>2. CASE k # 1
      <3>1. k - 1 \in 1 .. Len(fs) /\ ~(k <= k - 1)
        BY <1>0, <1>4, <2>2
      <3>2. ~(q <= fs[k - 1].to)
        BY <1>3, <3>1
      <3>3. fs[k - 1].to \in Nat /\ StartOf(fs, k) = fs[k - 1].to
        BY <2>2, <3>1, FrameSpan DEF StartOf
      <3> QED BY <3>2, <3>3
    <2> QED BY <2>1, <2>2
  <1> DEFINE r == q - StartOf(fs, k)
  <1>6. r \in 1 .. Len(fs[k].sent) /\ q = StartOf(fs, k) + r
    BY <1>4, <1>5
  <1> QED BY <1>4, <1>6

\* A frame that arrived unaltered: no zero but the last byte.
LEMMA Unaltered ==
    ASSUME NEW fs, NEW all, Laid(fs, all), NEW k \in 1 .. Len(fs), fs[k].got = fs[k].sent
    PROVE  /\ all[fs[k].to] = 0
           /\ \A r \in 1 .. Len(fs[k].sent) : all[StartOf(fs, k) + r] = fs[k].sent[r]
           /\ \A i \in StartOf(fs, k) + 1 .. fs[k].to - 1 : all[i] # 0
           /\ \A r \in 1 .. Len(fs[k].sent) : all[StartOf(fs, k) + r] = 0 => r = Len(fs[k].sent)
  <1>1. /\ \A r \in 1 .. Len(fs[k].sent) : all[StartOf(fs, k) + r] = fs[k].sent[r]
        /\ fs[k].sent[Len(fs[k].sent)] = 0
        /\ \A p \in 1 .. Len(fs[k].sent) - 1 : fs[k].sent[p] # 0
    BY DEF Laid, LaidAt, Framed
  <1>2. /\ StartOf(fs, k) \in Nat /\ fs[k].to = StartOf(fs, k) + Len(fs[k].sent)
        /\ Len(fs[k].sent) \in Nat \ {0}
    BY FrameSpan
  <1>3. all[fs[k].to] = 0
    <2>1. Len(fs[k].sent) \in 1 .. Len(fs[k].sent)
      BY <1>2
    <2> QED BY <1>1, <1>2, <2>1
  <1>4. ASSUME NEW i \in StartOf(fs, k) + 1 .. fs[k].to - 1
        PROVE  all[i] # 0
    <2> DEFINE r == i - StartOf(fs, k)
    <2>1. r \in 1 .. Len(fs[k].sent) - 1 /\ r \in 1 .. Len(fs[k].sent) /\ i = StartOf(fs, k) + r
      BY <1>2
    <2> HIDE DEF r
    <2> QED BY <1>1, <2>1
  <1>5. ASSUME NEW r \in 1 .. Len(fs[k].sent), all[StartOf(fs, k) + r] = 0
        PROVE  r = Len(fs[k].sent)
    <2> SUFFICES ASSUME r # Len(fs[k].sent) PROVE FALSE
      OBVIOUS
    <2>1. r \in 1 .. Len(fs[k].sent) - 1
      BY <1>2
    <2> QED BY <1>1, <1>5, <2>1
  <1> QED BY <1>1, <1>3, <1>4, <1>5

\* The end of a chunk says where it starts.
LEMMA OneStart ==
    ASSUME NEW all, NEW q \in Nat, NEW a \in Nat, NEW b \in Nat, a < q, b < q,
           a = 0 \/ all[a] = 0, b = 0 \/ all[b] = 0,
           \A i \in a + 1 .. q - 1 : all[i] # 0,
           \A i \in b + 1 .. q - 1 : all[i] # 0
    PROVE  a = b
  <1>1. CASE a < b
    <2>1. b \in a + 1 .. q - 1 /\ b # 0
      BY <1>1
    <2> QED BY <2>1
  <1>2. CASE b < a
    <2>1. a \in b + 1 .. q - 1 /\ a # 0
      BY <1>2
    <2> QED BY <2>1
  <1> QED BY <1>1, <1>2

\* Frames stay where they are when bytes are added behind them.
LEMMA LaidLonger ==
    ASSUME NEW fs, NEW all, Laid(fs, all), NEW all2 \in Seq(Bytes), Len(all) <= Len(all2),
           \A i \in 1 .. Len(all) : all2[i] = all[i]
    PROVE  Laid(fs, all2)
  <1>1. ASSUME NEW k \in 1 .. Len(fs)
        PROVE  LaidAt(fs, all2, k)
    <2>1. /\ StartOf(fs, k) \in Nat /\ fs[k].to = StartOf(fs, k) + Len(fs[k].sent)
          /\ fs[k].to <= Len(all) /\ Len(fs[k].sent) \in Nat /\ Len(all) \in Nat
      BY FrameSpan
    <2>2. Len(all2) \in Nat
      OBVIOUS
    <2>3. fs[k].to <= Len(all2)
      BY <2>1, <2>2
    <2>4. ASSUME NEW r \in 1 .. Len(fs[k].sent)
          PROVE  all2[StartOf(fs, k) + r] = fs[k].got[r]
      <3>1. StartOf(fs, k) + r \in 1 .. Len(all)
        BY <2>1
      <3>2. all[StartOf(fs, k) + r] = fs[k].got[r]
        BY DEF Laid, LaidAt
      <3> QED BY <3>1, <3>2
    <2>5. LaidAt(fs, all, k)
      BY DEF Laid
    <2> QED BY <2>3, <2>4, <2>5 DEF LaidAt
  <1> QED BY <1>1 DEF Laid

\* One more frame, at the end.
LEMMA LaidNext ==
    ASSUME NEW fs, NEW all, Laid(fs, all), NEW t \in Transmission, Framed(t.sent),
           t.to = EndOf(fs) + Len(t.sent), t.to <= Len(all), Len(t.got) = Len(t.sent),
           \A r \in 1 .. Len(t.sent) : all[EndOf(fs) + r] = t.got[r]
    PROVE  Laid(Append(fs, t), all) /\ EndOf(Append(fs, t)) = t.to /\ EndOf(fs) \in Nat
  <1> DEFINE gs == Append(fs, t)
  <1>0. fs \in Seq(Transmission) /\ Len(fs) \in Nat
    BY DEF Laid
  <1>1. /\ gs \in Seq(Transmission) /\ Len(gs) = Len(fs) + 1 /\ gs[Len(fs) + 1] = t
        /\ \A k \in 1 .. Len(fs) : gs[k] = fs[k]
    BY <1>0
  <1>2. gs # << >>
    BY <1>0, <1>1
  <1> HIDE DEF gs
  <1>3. EndOf(gs) = t.to
    BY <1>1, <1>2 DEF EndOf
  <1>4. EndOf(fs) \in Nat
    <2>1. CASE fs = << >>
      BY <2>1 DEF EndOf
    <2>2. CASE fs # << >>
      <3>1. Len(fs) \in 1 .. Len(fs)
        BY <1>0, <2>2
      <3> QED BY <2>2, <3>1, FrameSpan DEF EndOf
    <2> QED BY <2>1, <2>2
  <1>5. StartOf(gs, Len(fs) + 1) = EndOf(fs)
    <2>1. CASE fs = << >>
      <3>1. Len(fs) = 0
        BY <2>1
      <3> QED BY <2>1, <3>1 DEF StartOf, EndOf
    <2>2. CASE fs # << >>
      <3>1. Len(fs) \in 1 .. Len(fs) /\ Len(fs) + 1 # 1 /\ (Len(fs) + 1) - 1 = Len(fs)
        BY <1>0, <2>2
      <3> QED BY <1>1, <2>2, <3>1 DEF StartOf, EndOf
    <2> QED BY <2>1, <2>2
  <1>6. LaidAt(gs, all, Len(fs) + 1)
    BY <1>1, <1>4, <1>5 DEF LaidAt
  <1>7. ASSUME NEW k \in 1 .. Len(fs)
        PROVE  LaidAt(gs, all, k) /\ Framed(gs[k].sent)
    <2>1. LaidAt(fs, all, k) /\ Framed(fs[k].sent) /\ gs[k] = fs[k]
      BY <1>1 DEF Laid
    <2>2. StartOf(gs, k) = StartOf(fs, k)
      <3>1. CASE k = 1
        BY <3>1 DEF StartOf
      <3>2. CASE k # 1
        <4>1. k - 1 \in 1 .. Len(fs)
          BY <1>0, <3>2
        <4> QED BY <1>1, <3>2, <4>1 DEF StartOf
      <3> QED BY <3>1, <3>2
    <2> QED BY <2>1, <2>2 DEF LaidAt
  <1>8. ASSUME NEW k \in 1 .. Len(gs)
        PROVE  LaidAt(gs, all, k) /\ Framed(gs[k].sent)
    <2>1. k \in 1 .. Len(fs) \/ k = Len(fs) + 1
      BY <1>0, <1>1
    <2> QED BY <1>1, <1>6, <1>7, <2>1
  <1> QED BY <1>0, <1>1, <1>3, <1>4, <1>8 DEF Laid, gs

\* The first m values of f rise.
Rising(f, m) ==
    /\ m \in Nat /\ \A i \in 1 .. m : f[i] \in Nat
    /\ \A i, j \in 1 .. m : i < j => f[i] < f[j]

\* They are among the first n of g.
Among(f, m, g, n) == \A i \in 1 .. m : \E j \in 1 .. n : f[i] = g[j]

\* Two rising sequences of numbers with the same elements are the same.
LEMMA SameRising ==
    ASSUME NEW m, NEW n, NEW f, NEW g, Rising(f, m), Rising(g, n),
           Among(f, m, g, n), Among(g, n, f, m)
    PROVE  m = n /\ \A i \in 1 .. m : f[i] = g[i]
  <1> DEFINE T == {k \in Nat : \A i \in 1 .. k : (i <= m <=> i <= n) /\ (i <= m /\ i <= n => f[i] = g[i])}
  <1>0. /\ m \in Nat /\ \A i \in 1 .. m : f[i] \in Nat
        /\ \A i, j \in 1 .. m : i < j => f[i] < f[j]
        /\ n \in Nat /\ \A i \in 1 .. n : g[i] \in Nat
        /\ \A i, j \in 1 .. n : i < j => g[i] < g[j]
        /\ \A i \in 1 .. m : \E j \in 1 .. n : f[i] = g[j]
        /\ \A j \in 1 .. n : \E i \in 1 .. m : f[i] = g[j]
    BY DEF Rising, Among
  <1>1. 0 \in T
    OBVIOUS
  <1>2. ASSUME NEW k \in Nat, k \in T
        PROVE  k + 1 \in T
    <2> DEFINE c == k + 1
    <2>0. \A i \in 1 .. k : (i <= m <=> i <= n) /\ (i <= m /\ i <= n => f[i] = g[i])
      BY <1>2
    <2>1. ASSUME c <= m PROVE c <= n /\ g[c] <= f[c]
      <3>1. c \in 1 .. m
        BY <1>0, <2>1
      <3>2. PICK j \in 1 .. n : f[c] = g[j]
        BY <1>0, <3>1
      <3>3. ~(j < c)
        <4> SUFFICES ASSUME j < c PROVE FALSE
          OBVIOUS
        <4>1. j \in 1 .. k /\ j <= n /\ j \in 1 .. m
          BY <1>0, <2>1
        <4>2. f[j] = g[j] /\ f[j] < f[c] /\ f[j] \in Nat /\ f[c] \in Nat
          BY <1>0, <2>0, <3>1, <4>1
        <4> QED BY <3>2, <4>2
      <3>4. c <= n /\ c \in 1 .. n /\ (j = c \/ c < j)
        BY <1>0, <3>3
      <3>5. g[c] \in Nat /\ g[j] \in Nat /\ (j = c \/ g[c] < g[j])
        BY <1>0, <3>4
      <3>6. g[c] <= g[j]
        BY <3>5
      <3> QED BY <3>2, <3>4, <3>6
    <2>2. ASSUME c <= n PROVE c <= m /\ f[c] <= g[c]
      <3>1. c \in 1 .. n
        BY <1>0, <2>2
      <3>2. PICK j \in 1 .. m : f[j] = g[c]
        BY <1>0, <3>1
      <3>3. ~(j < c)
        <4> SUFFICES ASSUME j < c PROVE FALSE
          OBVIOUS
        <4>1. j \in 1 .. k /\ j <= m /\ j \in 1 .. n
          BY <1>0, <2>2
        <4>2. f[j] = g[j] /\ g[j] < g[c] /\ g[j] \in Nat /\ g[c] \in Nat
          BY <1>0, <2>0, <3>1, <4>1
        <4> QED BY <3>2, <4>2
      <3>4. c <= m /\ c \in 1 .. m /\ (j = c \/ c < j)
        BY <1>0, <3>3
      <3>5. f[c] \in Nat /\ f[j] \in Nat /\ (j = c \/ f[c] < f[j])
        BY <1>0, <3>4
      <3>6. f[c] <= f[j]
        BY <3>5
      <3> QED BY <3>2, <3>4, <3>6
    <2>3. (c <= m <=> c <= n) /\ (c <= m /\ c <= n => f[c] = g[c])
      <3>1. c <= m <=> c <= n
        BY <2>1, <2>2
      <3>2. ASSUME c <= m, c <= n PROVE f[c] = g[c]
        <4>1. f[c] \in Nat /\ g[c] \in Nat /\ f[c] <= g[c] /\ g[c] <= f[c]
          BY <1>0, <2>1, <2>2, <3>1, <3>2
        <4> QED BY <4>1
      <3> QED BY <3>1, <3>2
    <2>4. ASSUME NEW i \in 1 .. k + 1
          PROVE  (i <= m <=> i <= n) /\ (i <= m /\ i <= n => f[i] = g[i])
      <3>1. CASE i = c
        BY <2>3, <3>1
      <3>2. CASE i # c
        <4>1. i \in 1 .. k
          BY <3>2
        <4> QED BY <2>0, <4>1
      <3> QED BY <3>1, <3>2
    <2> QED BY <2>4
  <1>3. m + n \in T
    <2>1. m + n \in Nat
      BY <1>0
    <2> HIDE DEF T
    <2> QED BY <1>1, <1>2, <2>1, PartsAssumed, SP!NatSetInduction
  <1>4. \A i \in 1 .. m + n : (i <= m <=> i <= n) /\ (i <= m /\ i <= n => f[i] = g[i])
    BY <1>3
  <1>5. m = n
    <2>1. CASE m < n
      <3>1. n \in 1 .. m + n
        BY <1>0, <2>1
      <3> QED BY <1>0, <1>4, <2>1, <3>1
    <2>2. CASE n < m
      <3>1. m \in 1 .. m + n
        BY <1>0, <2>2
      <3> QED BY <1>0, <1>4, <2>2, <3>1
    <2> QED BY <1>0, <2>1, <2>2
  <1>6. \A i \in 1 .. m : f[i] = g[i]
    BY <1>0, <1>4, <1>5
  <1> QED BY <1>5, <1>6

---------------------------------------------------------------------------
(***************************************************************************)
(* Every step keeps the invariant.                                         *)
(***************************************************************************)

\* What the invariant says of the frames and of the bytes that have arrived.
LEMMA Layout ==
    ASSUME IInv
    PROVE  /\ received \in Seq(Bytes) /\ stream \in Seq(Bytes) /\ Arrived \in Seq(Bytes)
           /\ wire \in Seq(DOMAIN MsgBytes) /\ left \in Seq(DOMAIN MsgBytes)
           /\ Len(wire) \in Nat /\ Len(frames) \in Nat /\ Len(partial) \in Nat
           /\ \A k \in 1 .. Len(frames) : k \in 1 .. Len(wire) /\ wire[k] \in DOMAIN MsgBytes
           /\ Laid(frames, Arrived) /\ EndOf(frames) \in Nat
  <1>1. /\ received \in Seq(Bytes) /\ stream \in Seq(Bytes)
    BY PartsAssumed, CP!Known DEF IInv, Bytes, CP!Byte
  <1>2. Arrived \in Seq(Bytes)
    BY <1>1 DEF Arrived
  <1>3. wire \in Seq(DOMAIN MsgBytes) /\ left \in Seq(DOMAIN MsgBytes)
    BY DEF IInv, SP!IInv, SP!TypeOK
  <1>4. frames \in Seq(Transmission) /\ partial \in Seq(Bytes) /\ Len(frames) <= Len(wire)
    BY DEF IInv, NetType, Carried
  <1>5. Len(wire) \in Nat /\ Len(frames) \in Nat /\ Len(partial) \in Nat
    BY <1>3, <1>4
  <1>6. \A k \in 1 .. Len(frames) : k \in 1 .. Len(wire) /\ wire[k] \in DOMAIN MsgBytes
    BY <1>3, <1>4, <1>5
  <1>7. ASSUME NEW k \in 1 .. Len(frames)
        PROVE  LaidAt(frames, Arrived, k) /\ Framed(frames[k].sent)
    <2>1. LaidAt(frames, Arrived, k) /\ frames[k].sent = Frame[wire[k]]
      BY DEF IInv, Carried
    <2> QED BY <1>6, <2>1, BlockFrame
  <1>8. Laid(frames, Arrived)
    BY <1>2, <1>4, <1>7 DEF Laid
  <1>9. EndOf(frames) \in Nat
    <2>1. CASE frames = << >>
      BY <2>1 DEF EndOf
    <2>2. CASE frames # << >>
      <3>1. Len(frames) \in 1 .. Len(frames)
        BY <1>4, <1>5, <2>2
      <3> QED BY <1>8, <2>2, <3>1, FrameSpan DEF EndOf
    <2> QED BY <2>1, <2>2
  <1> QED BY <1>1, <1>2, <1>3, <1>5, <1>6, <1>8, <1>9

\* The bytes read, r, and the bytes on the way, s, are those of before with g behind them.
Spliced(r, s, g) ==
    /\ r \o (s \o g) \in Seq(Bytes) /\ s \o g \in Seq(Bytes)
    /\ Len(r \o (s \o g)) = Len(r \o s) + Len(g) /\ Len(r \o s) \in Nat /\ Len(g) \in Nat
    /\ \A i \in 1 .. Len(r \o s) : (r \o (s \o g))[i] = (r \o s)[i]
    /\ \A i \in 1 .. Len(g) : (r \o (s \o g))[Len(r \o s) + i] = g[i]

\* Bytes g arrive behind s, of which r was read before.
LEMMA Joined ==
    ASSUME NEW r \in Seq(Bytes), NEW s \in Seq(Bytes), NEW g \in Seq(Bytes)
    PROVE  Spliced(r, s, g)
  <1> DEFINE t == s \o g
  <1>1. /\ t \in Seq(Bytes) /\ Len(t) = Len(s) + Len(g)
        /\ \A i \in 1 .. Len(s) : t[i] = s[i]
        /\ \A i \in 1 .. Len(g) : t[Len(s) + i] = g[i]
    <2>1. t \in Seq(Bytes) /\ Len(t) = Len(s) + Len(g)
      OBVIOUS
    <2>2. \A i \in 1 .. Len(s) : t[i] = s[i]
      OBVIOUS
    <2>3. ASSUME NEW i \in 1 .. Len(g)
          PROVE  t[Len(s) + i] = g[i]
      <3>1. Len(s) \in Nat /\ Len(g) \in Nat
        OBVIOUS
      <3>2. Len(s) + i \in 1 .. Len(s) + Len(g) /\ ~(Len(s) + i <= Len(s)) /\ (Len(s) + i) - Len(s) = i
        BY <3>1
      <3> QED BY <3>1, <3>2
    <2> QED BY <2>1, <2>2, <2>3
  <1> HIDE DEF t
  <1>2. /\ Len(r) \in Nat /\ Len(s) \in Nat /\ Len(g) \in Nat
        /\ Len(r \o s) = Len(r) + Len(s)
    OBVIOUS
  <1>3. r \o t \in Seq(Bytes) /\ Len(r \o t) = Len(r) + Len(t)
    <2>1. t \in Seq(Bytes)
      BY <1>1
    <2> QED BY <2>1
  <1>4. Len(r \o t) = Len(r \o s) + Len(g)
    BY <1>1, <1>2, <1>3
  <1>5. ASSUME NEW i \in 1 .. Len(r \o s)
        PROVE  (r \o t)[i] = (r \o s)[i]
    <2>1. CASE i <= Len(r)
      <3>1. i \in 1 .. Len(r)
        BY <1>2, <2>1
      <3>2. (r \o t)[i] = r[i] /\ (r \o s)[i] = r[i]
        BY <1>1, <3>1
      <3> QED BY <3>2
    <2>2. CASE ~(i <= Len(r))
      <3>1. i - Len(r) \in 1 .. Len(s) /\ i \in 1 .. Len(r) + Len(t) /\ i \in 1 .. Len(r) + Len(s)
        BY <1>1, <1>2, <2>2
      <3>2. (r \o t)[i] = t[i - Len(r)]
        BY <1>1, <1>2, <2>2, <3>1
      <3>3. (r \o s)[i] = s[i - Len(r)]
        BY <1>2, <2>2, <3>1
      <3> QED BY <1>1, <3>1, <3>2, <3>3
    <2> QED BY <2>1, <2>2
  <1>6. ASSUME NEW i \in 1 .. Len(g)
        PROVE  (r \o t)[Len(r \o s) + i] = g[i]
    <2> DEFINE k == Len(r) + Len(s) + i
    <2>1. /\ k \in 1 .. Len(r) + Len(t) /\ ~(k <= Len(r)) /\ k - Len(r) = Len(s) + i
          /\ Len(r \o s) + i = k
      BY <1>1, <1>2
    <2> HIDE DEF k
    <2>2. (r \o t)[k] = t[k - Len(r)]
      BY <1>1, <1>2, <2>1
    <2> QED BY <1>1, <2>1, <2>2
  <1> QED BY <1>1, <1>2, <1>3, <1>4, <1>5, <1>6 DEF t, Spliced

\* The invariant holds before the child and the client have done anything.
LEMMA InitIInv == Init => IInv
  <1> SUFFICES ASSUME Init PROVE IInv
    OBVIOUS
  <1>1. /\ C!ClientInit /\ S!Init /\ stream = << >> /\ closed = FALSE
        /\ frames = << >> /\ errs = 0 /\ partial = << >>
    BY DEF Init
  <1>2. SP!IInv
    BY <1>1, SameServer, PartsAssumed, SP!InitIInv
  <1>3. CP!IInv
    <2>1. stream \in Seq(CP!Byte) /\ closed \in BOOLEAN
      <3>1. << >> \in Seq(CP!Byte)
        OBVIOUS
      <3> QED BY <1>1, <3>1
    <2> QED BY <1>1, <2>1, SameClient, PartsAssumed, CP!StartIInv
  <1>4. wire = << >> /\ received = << >> /\ errlog = << >> /\ cpc = "reading"
    BY <1>1 DEF S!Init, C!ClientInit
  <1>5. Arrived = << >>
    BY <1>1, <1>4 DEF Arrived
  <1>6. NetType
    <2>1. << >> \in Seq(Transmission) /\ << >> \in Seq(Bytes)
      OBVIOUS
    <2> QED BY <1>1, <2>1 DEF NetType
  <1>7. Carried
    BY <1>1, <1>4 DEF Carried
  <1>8. Ending
    BY <1>1, <1>4, <1>5 DEF Ending, EndOf
  <1>9. Errors
    <2>1. Altered(frames) = {}
      BY <1>1 DEF Altered
    <2> QED BY <1>1, <1>4, <2>1, FS_EmptySet DEF Errors
  <1> QED BY <1>2, <1>3, <1>6, <1>7, <1>8, <1>9 DEF IInv

\* A step that leaves the client alone leaves its invariant alone.
LEMMA ClientRests ==
    ASSUME IInv, UNCHANGED client
    PROVE  CP!IInv' /\ Arrived' = Arrived
  <1>1. UNCHANGED <<stream, closed, cpc, buffer, chunkcount, blocksRead, errlog, received, accepted>>
    BY DEF client
  <1>2. UNCHANGED CP!cvars
    BY <1>1 DEF CP!cvars
  <1> QED BY <1>1, <1>2, PartsAssumed, CP!StepIInv DEF IInv, Arrived

\* A step that leaves the server child alone, and takes at most one frame out
\* of its socket, leaves its invariant alone.
LEMMA ServerRests ==
    ASSUME IInv, UNCHANGED server,
           \/ Len(frames') = Len(frames)
           \/ Len(frames) < Len(wire) /\ Len(frames') = Len(frames) + 1
    PROVE  SP!IInv'
  <1>1. UNCHANGED <<dir0, dir, pc, left, blockcount, bytecount, blocktotal, bytetotal,
                    errors, sendMutex, peerGone, wire, dropped, readErr, log>>
    BY DEF server
  <1>2. SP!Quiet
    BY <1>1 DEF SP!Quiet
  <1> QED BY <1>2, PartsAssumed, SP!QuietIInv DEF IInv

\* The server child runs, or is reset; or nothing happens.
LEMMA ServerIInv ==
    ASSUME IInv, ServerStep \/ ServerNoMemory \/ ClientResets \/ UNCHANGED vars
    PROVE  IInv'
  <1>1. UNCHANGED client /\ UNCHANGED <<frames, errs, partial>>
    BY DEF ServerStep, ServerNoMemory, ClientResets, vars, net
  <1>2. UNCHANGED <<stream, closed, cpc, errlog, received>>
    BY <1>1 DEF client
  <1>3. CP!IInv' /\ Arrived' = Arrived
    BY <1>1, ClientRests
  <1>4. \/ SP!Child \/ SP!SendNoMemory
        \/ SP!PeerReset
        \/ UNCHANGED server
    BY SameServer DEF ServerStep, ServerNoMemory, ClientResets, vars
  <1>5. SP!IInv'
    <2>1. CASE UNCHANGED server
      BY <1>1, <2>1, ServerRests
    <2>2. CASE SP!Child \/ SP!SendNoMemory \/ SP!PeerReset
      <3>1. SP!Next
        BY <2>2 DEF SP!Next
      <3> QED BY <3>1, PartsAssumed, SP!StepIInv DEF IInv
    <2> QED BY <1>4, <2>1, <2>2
  <1>6. \/ UNCHANGED <<wire, pc>>
        \/ /\ pc \in {"opendir", "readdir", "fread"}
           /\ wire' = wire \/ \E b \in DOMAIN MsgBytes : wire' = Append(wire, b)
    <2>1. CASE UNCHANGED server
      BY <2>1 DEF server
    <2>2. CASE SP!PeerReset
      BY <2>2 DEF SP!PeerReset
    <2>3. CASE SP!Child \/ SP!SendNoMemory
      BY <2>3, PartsAssumed, SP!WireGrows DEF IInv
    <2> QED BY <1>4, <2>1, <2>2, <2>3
  <1>7. /\ wire \in Seq(DOMAIN MsgBytes) /\ Len(wire) \in Nat /\ Len(frames) \in Nat
        /\ \A k \in 1 .. Len(frames) : k \in 1 .. Len(wire)
    BY Layout
  <1>8. Len(wire) <= Len(wire') /\ Len(wire') \in Nat /\ \A k \in 1 .. Len(wire) : wire'[k] = wire[k]
    <2>1. CASE wire' = wire
      BY <1>7, <2>1
    <2>2. CASE \E b \in DOMAIN MsgBytes : wire' = Append(wire, b)
      <3>1. PICK b \in DOMAIN MsgBytes : wire' = Append(wire, b)
        BY <2>2
      <3>2. Len(wire') = Len(wire) + 1 /\ \A k \in 1 .. Len(wire) : wire'[k] = wire[k]
        BY <1>7, <3>1
      <3> QED BY <1>7, <3>2
    <2> QED BY <1>6, <2>1, <2>2
  <1>9. NetType'
    BY <1>1, <1>2 DEF IInv, NetType
  <1>10. Carried'
    <2>1. Len(frames') <= Len(wire')
      <3>1. Len(frames) <= Len(wire)
        BY DEF IInv, Carried
      <3> QED BY <1>1, <1>7, <1>8, <3>1
    <2>2. ASSUME NEW k \in 1 .. Len(frames')
          PROVE  /\ frames'[k].sent = Frame[wire'[k]]
                 /\ LaidAt(frames', Arrived', k) /\ OneByte(frames'[k])
      <3>1. k \in 1 .. Len(frames) /\ frames'[k] = frames[k] /\ wire'[k] = wire[k]
        BY <1>1, <1>7, <1>8
      <3>2. frames[k].sent = Frame[wire[k]] /\ LaidAt(frames, Arrived, k) /\ OneByte(frames[k])
        BY <3>1 DEF IInv, Carried
      <3> QED BY <1>1, <1>3, <3>1, <3>2
    <2> QED BY <2>1, <2>2 DEF Carried
  <1>11. Ending'
    <2>1. CASE UNCHANGED <<wire, pc>>
      BY <1>1, <1>2, <1>3, <2>1 DEF IInv, Ending
    <2>2. CASE pc \in {"opendir", "readdir", "fread"}
      <3>1. ~closed /\ partial = << >> /\ cpc # "eof"
        BY <2>2 DEF IInv, Ending, NetType
      <3>2. Len(Arrived) = EndOf(frames) + (IF closed THEN Len(partial) ELSE 0)
        BY DEF IInv, Ending
      <3> QED BY <1>1, <1>2, <1>3, <3>1, <3>2 DEF Ending
    <2> QED BY <1>6, <2>1, <2>2
  <1>12. Errors'
    BY <1>1, <1>2 DEF IInv, Errors
  <1> QED BY <1>3, <1>5, <1>9, <1>10, <1>11, <1>12 DEF IInv

\* The server process is killed, with part of a frame written.
LEMMA ServerDiesIInv ==
    ASSUME IInv, ServerDies
    PROVE  IInv'
  <1>1. /\ pc \notin {"exited", "killed"} /\ pc' = "killed"
        /\ UNCHANGED <<dir0, dir, left, blockcount, bytecount, blocktotal, bytetotal,
                       errors, sendMutex, peerGone, wire, dropped, readErr, log, frames, errs>>
        /\ UNCHANGED client
    BY DEF ServerDies
  <1>2. UNCHANGED <<stream, closed, cpc, errlog, received>>
    BY <1>1 DEF client
  <1>3. CP!IInv' /\ Arrived' = Arrived
    BY <1>1, ClientRests
  <1>4. SP!IInv'
    <2>1. SP!Quiet
      BY <1>1 DEF SP!Quiet
    <2> QED BY <2>1, PartsAssumed, SP!QuietIInv DEF IInv
  <1>5. ~closed /\ partial = << >> /\ cpc # "eof"
    BY <1>1 DEF IInv, Ending, NetType
  <1>6. partial' \in Seq(Bytes) /\ \A r \in 1 .. Len(partial') : partial'[r] # 0
    <2>1. CASE partial' = partial
      BY <1>5, <2>1
    <2>2. CASE left # << >> /\ \E n \in 0 .. Len(Frame[Head(left)]) - 1 :
                                   partial' = SubSeq(Frame[Head(left)], 1, n)
      <3> DEFINE f == Frame[Head(left)]
      <3>1. PICK n \in 0 .. Len(f) - 1 : partial' = SubSeq(f, 1, n)
        BY <2>2
      <3>2. Head(left) \in DOMAIN MsgBytes
        BY <2>2, Layout
      <3>3. Framed(f)
        BY <3>2, BlockFrame
      <3> HIDE DEF f
      <3>4. /\ f \in Seq(Bytes) /\ Len(f) \in Nat \ {0} /\ n \in 0 .. Len(f)
            /\ \A p \in 1 .. n : p \in 1 .. Len(f) - 1 /\ f[p] # 0 /\ f[p] \in Bytes
        BY <3>3 DEF Framed
      <3>5. /\ SubSeq(f, 1, n) \in Seq(Bytes)
            /\ Len(SubSeq(f, 1, n)) = IF 1 <= n THEN n - 1 + 1 ELSE 0
            /\ \A r \in 1 .. n - 1 + 1 : SubSeq(f, 1, n)[r] = f[1 + r - 1]
        BY <3>4, SubSeqProperties
      <3>6. n \in Nat /\ Len(SubSeq(f, 1, n)) = n /\ n - 1 + 1 = n
        BY <3>4, <3>5
      <3>7. \A r \in 1 .. n : 1 + r - 1 = r
        BY <3>6
      <3>8. \A r \in 1 .. n : SubSeq(f, 1, n)[r] = f[r]
        BY <3>5, <3>6, <3>7
      <3> QED BY <3>1, <3>4, <3>5, <3>6, <3>8
    <2> QED BY <2>1, <2>2 DEF ServerDies
  <1>7. NetType'
    BY <1>1, <1>2, <1>6 DEF IInv, NetType
  <1>8. Carried'
    BY <1>1, <1>3 DEF IInv, Carried
  <1>9. Ending'
    <2>1. Len(Arrived) = EndOf(frames) + (IF closed THEN Len(partial) ELSE 0)
      BY DEF IInv, Ending
    <2> QED BY <1>1, <1>2, <1>3, <1>5, <1>6, <2>1 DEF Ending
  <1>10. Errors'
    BY <1>1, <1>2 DEF IInv, Errors
  <1> QED BY <1>3, <1>4, <1>7, <1>8, <1>9, <1>10 DEF IInv

\* f with at most one byte altered.
LEMMA DamagedFrame ==
    ASSUME NEW f, Framed(f), NEW g \in Damaged(f)
    PROVE  /\ g \in Seq(Bytes) /\ Len(g) = Len(f)
           /\ \A i, j \in 1 .. Len(f) : g[i] # f[i] /\ g[j] # f[j] => i = j
  <1>0. f \in Seq(Bytes) /\ Len(f) \in Nat
    BY DEF Framed
  <1>1. CASE g = f
    BY <1>0, <1>1
  <1>2. CASE \E k \in 1 .. Len(f), b \in Bytes : g = [f EXCEPT ![k] = b]
    <2>1. PICK k \in 1 .. Len(f), b \in Bytes : g = [f EXCEPT ![k] = b]
      BY <1>2
    <2>2. g \in Seq(Bytes) /\ Len(g) = Len(f)
      BY <1>0, <2>1
    <2>3. \A i \in 1 .. Len(f) : g[i] # f[i] => i = k
      BY <1>0, <2>1
    <2> QED BY <2>2, <2>3
  <1> QED BY <1>1, <1>2 DEF Damaged, Bytes, C!Byte

\* One altered frame more, or none.
LEMMA AlteredNext ==
    ASSUME NEW fs \in Seq(Transmission), NEW t \in Transmission
    PROVE  /\ IsFiniteSet(Altered(fs)) /\ Cardinality(Altered(fs)) \in Nat
           /\ Cardinality(Altered(Append(fs, t))) =
                Cardinality(Altered(fs)) + (IF t.got = t.sent THEN 0 ELSE 1)
  <1> DEFINE gs == Append(fs, t)
  <1>1. /\ Len(gs) = Len(fs) + 1 /\ gs[Len(fs) + 1] = t /\ Len(fs) \in Nat
        /\ \A k \in 1 .. Len(fs) : gs[k] = fs[k]
    OBVIOUS
  <1> HIDE DEF gs
  <1>2. IsFiniteSet(Altered(fs))
    <2>1. IsFiniteSet(1 .. Len(fs)) /\ Altered(fs) \subseteq 1 .. Len(fs)
      BY <1>1, FS_Interval DEF Altered
    <2> QED BY <2>1, FS_Subset
  <1>3. Cardinality(Altered(fs)) \in Nat
    BY <1>2, FS_CardinalityType
  <1>4. \A k : k \in 1 .. Len(gs) <=> k \in 1 .. Len(fs) \/ k = Len(fs) + 1
    BY <1>1
  <1>5. CASE t.got = t.sent
    <2>1. Altered(gs) = Altered(fs)
      BY <1>1, <1>4, <1>5 DEF Altered
    <2> QED BY <1>2, <1>3, <1>5, <2>1 DEF gs
  <1>6. CASE t.got # t.sent
    <2>1. Altered(gs) = Altered(fs) \cup {Len(fs) + 1} /\ Len(fs) + 1 \notin Altered(fs)
      BY <1>1, <1>4, <1>6 DEF Altered
    <2> QED BY <1>2, <1>3, <1>6, <2>1, FS_AddElement DEF gs
  <1> QED BY <1>5, <1>6

\* The next frame arrives, perhaps with a byte altered.
LEMMA TransmitIInv ==
    ASSUME IInv, Transmit
    PROVE  IInv'
  <1> DEFINE f == Frame[wire[Len(frames) + 1]]
  <1>1. PICK g \in IF errs < MaxErrs THEN Damaged(f) ELSE {f} :
            /\ stream' = stream \o g
            /\ frames' = Append(frames, [to |-> Position + Len(f), sent |-> f, got |-> g])
            /\ errs' = errs + (IF g = f THEN 0 ELSE 1)
    BY DEF Transmit
  <1>2. /\ Len(frames) < Len(wire) /\ UNCHANGED server /\ UNCHANGED <<wire, pc>>
        /\ UNCHANGED <<partial, closed, cpc, buffer, chunkcount, blocksRead,
                       errlog, received, accepted>>
    BY DEF Transmit, server
  <1>3. /\ received \in Seq(Bytes) /\ stream \in Seq(Bytes) /\ Laid(frames, Arrived)
        /\ wire \in Seq(DOMAIN MsgBytes) /\ Len(frames) \in Nat /\ Len(wire) \in Nat
        /\ EndOf(frames) \in Nat
    BY Layout
  <1>4. Framed(f)
    <2>1. Len(frames) + 1 \in 1 .. Len(wire)
      BY <1>2, <1>3
    <2>2. wire[Len(frames) + 1] \in DOMAIN MsgBytes
      BY <1>3, <2>1
    <2> QED BY <2>2, BlockFrame
  <1> HIDE DEF f
  <1>5. /\ g \in Seq(Bytes) /\ Len(g) = Len(f)
        /\ \A i, j \in 1 .. Len(f) : g[i] # f[i] /\ g[j] # f[j] => i = j
    <2>1. g \in Damaged(f)
      BY <1>1 DEF Damaged
    <2> QED BY <1>4, <2>1, DamagedFrame
  <1>6. ~closed /\ Len(Arrived) = EndOf(frames) /\ cpc # "eof"
    <2>1. ~closed
      BY <1>2, <1>3 DEF IInv, Ending
    <2>2. Len(Arrived) = EndOf(frames) + 0
      BY <2>1 DEF IInv, Ending
    <2> QED BY <1>3, <2>1, <2>2 DEF IInv, Ending
  <1> DEFINE t == [to |-> Position + Len(f), sent |-> f, got |-> g]
  <1>7. /\ t.to = EndOf(frames) + Len(t.sent) /\ t.sent = f /\ t.got = g /\ t \in Transmission
    <2>1. Position = EndOf(frames)
      BY DEF Position, EndOf
    <2>2. f \in Seq(Bytes) /\ Len(f) \in Nat
      BY <1>4 DEF Framed
    <2> QED BY <1>3, <1>5, <2>1, <2>2 DEF Transmission
  <1>8. frames' = Append(frames, t)
    BY <1>1
  <1> HIDE DEF t
  <1>9. /\ Arrived' \in Seq(Bytes) /\ stream' \in Seq(Bytes)
        /\ Len(Arrived') = Len(Arrived) + Len(g) /\ Len(Arrived) \in Nat /\ Len(g) \in Nat
        /\ \A i \in 1 .. Len(Arrived) : Arrived'[i] = Arrived[i]
        /\ \A i \in 1 .. Len(g) : Arrived'[Len(Arrived) + i] = g[i]
    <2>1. Arrived' = received \o (stream \o g) /\ Arrived = received \o stream
      BY <1>1, <1>2 DEF Arrived
    <2>2. stream' = stream \o g /\ g \in Seq(Bytes)
      BY <1>1, <1>5
    <2>3. Spliced(received, stream, g)
      BY <1>3, <2>2, Joined
    <2> QED BY <2>1, <2>2, <2>3, Zenon DEF Spliced
  <1>10. Laid(frames, Arrived')
    <2>1. Len(Arrived) <= Len(Arrived')
      BY <1>9
    <2> QED BY <1>3, <1>9, <2>1, LaidLonger
  <1>11. /\ Laid(frames', Arrived') /\ EndOf(frames') = t.to
    <2>1. /\ t.to <= Len(Arrived') /\ Len(t.got) = Len(t.sent)
          /\ \A r \in 1 .. Len(t.sent) : Arrived'[EndOf(frames) + r] = t.got[r]
      BY <1>5, <1>6, <1>7, <1>9
    <2> QED BY <1>4, <1>7, <1>8, <1>10, <2>1, LaidNext
  <1>12. SP!IInv'
    BY <1>1, <1>2, <1>3, ServerRests
  <1>13. CP!IInv'
    <2>1. stream' \in Seq(CP!Byte) /\ closed' \in BOOLEAN
      BY <1>2, <1>9 DEF Bytes, CP!Byte, IInv, NetType
    <2> QED BY <1>2, <2>1, PartsAssumed, CP!ArrivalIInv DEF IInv
  <1>14. /\ frames \in Seq(Transmission) /\ errs \in Nat
         /\ frames' \in Seq(Transmission) /\ Len(frames') = Len(frames) + 1
         /\ frames'[Len(frames) + 1] = t /\ \A k \in 1 .. Len(frames) : frames'[k] = frames[k]
    <2>1. frames \in Seq(Transmission) /\ errs \in Nat
      BY DEF IInv, NetType
    <2> QED BY <1>7, <1>8, <2>1
  <1>15. NetType'
    <2>1. errs' \in Nat
      BY <1>1, <1>14
    <2> QED BY <1>2, <1>14, <2>1 DEF IInv, NetType
  <1>16. Carried'
    <2>1. Len(frames') <= Len(wire')
      BY <1>2, <1>3, <1>14
    <2>2. ASSUME NEW k \in 1 .. Len(frames')
          PROVE  /\ frames'[k].sent = Frame[wire'[k]]
                 /\ LaidAt(frames', Arrived', k) /\ OneByte(frames'[k])
      <3>1. LaidAt(frames', Arrived', k)
        BY <1>11 DEF Laid
      <3>2. CASE k \in 1 .. Len(frames)
        <4>1. frames[k].sent = Frame[wire[k]] /\ OneByte(frames[k])
          BY <3>2 DEF IInv, Carried
        <4> QED BY <1>2, <1>14, <3>1, <3>2, <4>1
      <3>3. CASE k = Len(frames) + 1
        <4>1. frames'[k].sent = f /\ frames'[k].got = g
          BY <1>7, <1>14, <3>3
        <4>2. OneByte(frames'[k])
          BY <1>5, <4>1 DEF OneByte
        <4> QED BY <1>2, <3>1, <3>3, <4>1, <4>2 DEF f
      <3> QED BY <1>3, <1>14, <3>2, <3>3
    <2> QED BY <2>1, <2>2 DEF Carried
  <1>17. Ending'
    <2>1. Len(Arrived') = EndOf(frames') + 0
      BY <1>3, <1>5, <1>6, <1>7, <1>9, <1>11
    <2> QED BY <1>2, <1>6, <2>1 DEF IInv, Ending
  <1>18. Errors'
    <2>1. /\ Cardinality(Altered(frames)) \in Nat
          /\ Cardinality(Altered(frames')) =
               Cardinality(Altered(frames)) + (IF t.got = t.sent THEN 0 ELSE 1)
      BY <1>7, <1>8, <1>14, AlteredNext
    <2>2. errs = Cardinality(Altered(frames)) /\ (errs = 0 => errlog = << >>)
      BY DEF IInv, Errors
    <2>3. errs' = Cardinality(Altered(frames'))
      BY <1>1, <1>7, <2>1, <2>2
    <2>4. errs' = 0 => errs = 0
      BY <1>1, <1>14
    <2> QED BY <1>2, <2>2, <2>3, <2>4 DEF Errors
  <1> QED BY <1>12, <1>13, <1>15, <1>16, <1>17, <1>18 DEF IInv

\* The connection is closed behind what a dying server had written.
LEMMA CloseIInv ==
    ASSUME IInv, Close
    PROVE  IInv'
  <1>1. /\ pc \in {"exited", "killed"} /\ Len(frames) = Len(wire) /\ ~closed
        /\ stream' = stream \o partial /\ closed' = TRUE
        /\ UNCHANGED server /\ UNCHANGED <<wire, pc, frames, errs, partial>>
        /\ UNCHANGED <<cpc, buffer, chunkcount, blocksRead, errlog, received, accepted>>
    BY DEF Close, server, net
  <1>2. /\ received \in Seq(Bytes) /\ stream \in Seq(Bytes) /\ Laid(frames, Arrived)
        /\ EndOf(frames) \in Nat
    BY Layout
  <1>3. partial \in Seq(Bytes)
    BY DEF IInv, NetType
  <1>4. /\ Arrived' \in Seq(Bytes) /\ stream' \in Seq(Bytes)
        /\ Len(Arrived') = Len(Arrived) + Len(partial)
        /\ Len(Arrived) \in Nat /\ Len(partial) \in Nat
        /\ \A i \in 1 .. Len(Arrived) : Arrived'[i] = Arrived[i]
        /\ \A i \in 1 .. Len(partial) : Arrived'[Len(Arrived) + i] = partial[i]
    <2>1. Arrived' = received \o (stream \o partial) /\ Arrived = received \o stream
      BY <1>1 DEF Arrived
    <2>2. /\ stream' = stream \o partial
          /\ received \in Seq(Bytes) /\ stream \in Seq(Bytes) /\ partial \in Seq(Bytes)
      BY <1>1, <1>2, <1>3
    <2>3. Spliced(received, stream, partial)
      BY <2>2, Joined
    <2> QED BY <2>1, <2>2, <2>3, Zenon DEF Spliced
  <1>5. Laid(frames, Arrived')
    <2>1. Len(Arrived) <= Len(Arrived')
      BY <1>4
    <2> QED BY <1>2, <1>4, <2>1, LaidLonger
  <1>6. Len(Arrived) = EndOf(frames) /\ cpc # "eof"
    <2>1. Len(Arrived) = EndOf(frames) + 0
      BY <1>1 DEF IInv, Ending
    <2> QED BY <1>1, <1>2, <2>1 DEF IInv, Ending
  <1>7. SP!IInv'
    BY <1>1, ServerRests
  <1>8. CP!IInv'
    <2>1. stream' \in Seq(CP!Byte) /\ closed' \in BOOLEAN
      BY <1>1, <1>4 DEF Bytes, CP!Byte
    <2> QED BY <1>1, <2>1, PartsAssumed, CP!ArrivalIInv DEF IInv
  <1>9. NetType'
    BY <1>1 DEF IInv, NetType
  <1>10. Carried'
    <2>1. \A k \in 1 .. Len(frames) : LaidAt(frames, Arrived', k)
      BY <1>5 DEF Laid
    <2> QED BY <1>1, <2>1 DEF IInv, Carried
  <1>11. Ending'
    BY <1>1, <1>4, <1>6 DEF IInv, Ending
  <1>12. Errors'
    BY <1>1 DEF IInv, Errors
  <1> QED BY <1>7, <1>8, <1>9, <1>10, <1>11, <1>12 DEF IInv

\* What was read is the beginning of what has arrived; the next byte follows.
LEMMA ReadSoFar ==
    ASSUME NEW r \in Seq(Bytes), NEW s \in Seq(Bytes)
    PROVE  /\ Len(r) \in Nat /\ Len(r) <= Len(r \o s) /\ Len(r \o s) \in Nat
           /\ \A i \in 1 .. Len(r) : (r \o s)[i] = r[i]
           /\ s # << >> => (r \o s)[Len(r) + 1] = Head(s) /\ Len(r) + 1 <= Len(r \o s)
           /\ s = << >> => Len(r \o s) = Len(r)
  <1>1. Len(r) \in Nat /\ Len(s) \in Nat /\ Len(r \o s) = Len(r) + Len(s)
    OBVIOUS
  <1>2. \A i \in 1 .. Len(r) : (r \o s)[i] = r[i]
    OBVIOUS
  <1>3. ASSUME s # << >>
        PROVE  (r \o s)[Len(r) + 1] = Head(s) /\ Len(r) + 1 <= Len(r \o s)
    <2>1. Len(s) \in Nat \ {0} /\ Head(s) = s[1]
      BY <1>3
    <2>2. Len(r) + 1 \in 1 .. Len(r) + Len(s) /\ ~(Len(r) + 1 <= Len(r)) /\ (Len(r) + 1) - Len(r) = 1
      BY <1>1, <2>1
    <2>3. (r \o s)[Len(r) + 1] = s[1]
      BY <2>2
    <2> QED BY <1>1, <2>1, <2>2, <2>3
  <1>4. s = << >> => Len(s) = 0
    OBVIOUS
  <1> QED BY <1>1, <1>2, <1>3, <1>4

\* The bytes of c are those of all behind position b and before the delimiter
\* at q, and they start at one.
ChunkAt(all, q, b, c) ==
    /\ b \in Nat /\ b < q /\ (b = 0 \/ all[b] = 0)
    /\ \A i \in b + 1 .. q - 1 : all[i] # 0
    /\ c \in Seq(1 .. MaxMarker) /\ b + Len(c) = q - 1
    /\ \A r \in 1 .. Len(c) : c[r] = all[b + r]

\* The chunk that ends with an unaltered frame, behind a delimiter, is that frame.
LEMMA ChunkIsFrame ==
    ASSUME NEW fs, NEW all, Laid(fs, all), NEW k \in 1 .. Len(fs), fs[k].got = fs[k].sent,
           StartOf(fs, k) = 0 \/ all[StartOf(fs, k)] = 0,
           NEW b, NEW c, ChunkAt(all, fs[k].to, b, c)
    PROVE  Append(c, 0) = fs[k].sent
  <1> DEFINE f == fs[k].sent
             a == StartOf(fs, k)
  <1>0. /\ b \in Nat /\ b < fs[k].to /\ (b = 0 \/ all[b] = 0)
        /\ \A i \in b + 1 .. fs[k].to - 1 : all[i] # 0
        /\ c \in Seq(1 .. MaxMarker) /\ b + Len(c) = fs[k].to - 1
        /\ \A r \in 1 .. Len(c) : c[r] = all[b + r]
    BY DEF ChunkAt
  <1>1. /\ a \in Nat /\ fs[k].to \in Nat /\ a < fs[k].to /\ fs[k].to = a + Len(f)
        /\ Len(f) \in Nat \ {0} /\ Len(c) \in Nat
    BY <1>0, FrameSpan
  <1>2. /\ \A r \in 1 .. Len(f) : all[a + r] = f[r]
        /\ \A i \in a + 1 .. fs[k].to - 1 : all[i] # 0
    BY Unaltered
  <1>3. Framed(f)
    BY DEF Laid
  <1>4. a = b
    <2> HIDE DEF a
    <2> QED BY <1>0, <1>1, <1>2, OneStart DEF a
  <1>5. Len(c) + 1 = Len(f) /\ 0 \in Nat /\ \A r \in 1 .. Len(c) : r \in 1 .. Len(f)
    <2> HIDE DEF f, a
    <2> QED BY <1>0, <1>1, <1>4
  <1>6. \A r \in 1 .. Len(c) : c[r] = f[r]
    BY <1>0, <1>2, <1>4, <1>5
  <1>7. f \in Seq(Nat) /\ c \in Seq(Nat) /\ f[Len(f)] = 0
    <2>1. Bytes \subseteq Nat /\ 1 .. MaxMarker \subseteq Nat
      BY DEF Bytes
    <2>2. f \in Seq(Bytes) /\ f[Len(f)] = 0
      BY <1>3 DEF Framed
    <2> HIDE DEF f
    <2> QED BY <1>0, <2>1, <2>2, SeqMonotonic
  <1> DEFINE d == Append(c, 0)
  <1>8. /\ d \in Seq(Nat) /\ Len(d) = Len(c) + 1 /\ d[Len(c) + 1] = 0
        /\ \A r \in 1 .. Len(c) : d[r] = c[r]
    BY <1>7
  <1> HIDE DEF d, f
  <1>9. Len(d) = Len(f) /\ \A r \in 1 .. Len(d) : d[r] = f[r]
    <2>1. \A r \in 1 .. Len(d) : r \in 1 .. Len(c) \/ r = Len(c) + 1
      BY <1>1, <1>8
    <2> QED BY <1>5, <1>6, <1>7, <1>8, <2>1
  <1>10. d = f
    BY <1>7, <1>8, <1>9, SeqEqual
  <1> QED BY <1>10 DEF d, f

\* A zero is a byte of a frame, not of what a dying server left unfinished.
LEMMA InFrames ==
    ASSUME IInv, NEW q \in Nat \ {0}, q <= Len(Arrived), Arrived[q] = 0
    PROVE  q <= EndOf(frames)
  <1>1. Laid(frames, Arrived) /\ EndOf(frames) \in Nat /\ Len(partial) \in Nat
    BY Layout
  <1>2. /\ Len(Arrived) = EndOf(frames) + (IF closed THEN Len(partial) ELSE 0)
        /\ closed => \A r \in 1 .. Len(partial) : Arrived[EndOf(frames) + r] = partial[r]
        /\ \A r \in 1 .. Len(partial) : partial[r] # 0
    BY DEF IInv, Ending
  <1> SUFFICES ASSUME ~(q <= EndOf(frames)) PROVE FALSE
    OBVIOUS
  <1>3. CASE closed
    <2>1. Len(Arrived) = EndOf(frames) + Len(partial)
      BY <1>2, <1>3
    <2> DEFINE r == q - EndOf(frames)
    <2>2. r \in 1 .. Len(partial) /\ q = EndOf(frames) + r
      BY <1>1, <2>1
    <2> HIDE DEF r
    <2> QED BY <1>2, <1>3, <2>2
  <1>4. CASE ~closed
    BY <1>1, <1>2, <1>4
  <1> QED BY <1>3, <1>4

\* Where nothing was altered, a delimiter read now ends a frame.
LEMMA CleanEnd ==
    ASSUME IInv, Altered(frames) = {}, NEW q \in Nat \ {0}, q <= Len(Arrived), Arrived[q] = 0
    PROVE  \E k \in 1 .. Len(frames) : q = frames[k].to
  <1>1. Laid(frames, Arrived)
    BY Layout
  <1>2. q <= EndOf(frames)
    BY InFrames
  <1>3. PICK k \in 1 .. Len(frames) : \E r \in 1 .. Len(frames[k].sent) : q = StartOf(frames, k) + r
    BY <1>1, <1>2, Within
  <1>4. PICK r \in 1 .. Len(frames[k].sent) : q = StartOf(frames, k) + r
    BY <1>3
  <1>5. frames[k].got = frames[k].sent
    BY DEF Altered
  <1>6. r = Len(frames[k].sent)
    BY <1>1, <1>4, <1>5, Unaltered
  <1>7. q = frames[k].to
    BY <1>1, <1>4, <1>6, FrameSpan
  <1> QED BY <1>7

\* The altered frames are finitely many.
LEMMA AlteredCount ==
    ASSUME IInv
    PROVE  /\ IsFiniteSet(Altered(frames)) /\ Cardinality(Altered(frames)) = errs /\ errs \in Nat
           /\ errs = 0 => Altered(frames) = {}
  <1>1. IsFiniteSet(Altered(frames))
    <2>1. Len(frames) \in Nat
      BY Layout
    <2>2. IsFiniteSet(1 .. Len(frames)) /\ Altered(frames) \subseteq 1 .. Len(frames)
      BY <2>1, FS_Interval DEF Altered
    <2> QED BY <2>2, FS_Subset
  <1>2. Cardinality(Altered(frames)) = errs /\ errs \in Nat
    BY DEF IInv, Errors, NetType
  <1>3. errs = 0 => Altered(frames) = {}
    BY <1>1, <1>2, FS_EmptySet
  <1> QED BY <1>1, <1>2, <1>3

\* Where nothing was altered, every chunk is valid: nothing is logged.
LEMMA CleanChunk ==
    ASSUME IInv, CP!Chunk, errs = 0
    PROVE  errlog' = errlog
  <1>1. /\ received \in Seq(Bytes) /\ stream \in Seq(Bytes) /\ Laid(frames, Arrived)
        /\ Len(frames) \in Nat
    BY Layout
  <1>2. /\ cpc = "reading" /\ stream # << >> /\ Head(stream) = 0
        /\ \E o \in CP!Outcomes(buffer) : CP!HandleChunk(o)
    BY DEF CP!Chunk, CP!SPECIAL_CHAR
  <1>3. Altered(frames) = {}
    BY AlteredCount
  <1> DEFINE q == Len(received) + 1
             b == Len(received) - Len(buffer)
  <1>4. /\ Len(received) \in Nat /\ q \in Nat \ {0} /\ q <= Len(Arrived) /\ Arrived[q] = 0
        /\ \A i \in 1 .. Len(received) : Arrived[i] = received[i]
    <2>1. /\ Len(received) \in Nat /\ Len(received) + 1 <= Len(Arrived)
          /\ Arrived[Len(received) + 1] = Head(stream)
          /\ \A i \in 1 .. Len(received) : Arrived[i] = received[i]
      BY <1>1, <1>2, ReadSoFar DEF Arrived
    <2> QED BY <1>2, <2>1
  <1>5. PICK k \in 1 .. Len(frames) : q = frames[k].to
    <2> HIDE DEF q
    <2> QED BY <1>3, <1>4, CleanEnd
  <1>6. /\ buffer \in Seq(1 .. MaxMarker) /\ b \in Nat
        /\ b = 0 \/ received[b] = 0
        /\ \A r \in 1 .. Len(buffer) : received[b + r] = buffer[r]
    BY <1>2, PartsAssumed, CP!Known DEF IInv, CP!SPECIAL_CHAR
  <1>7. Len(buffer) \in Nat /\ \A r \in 1 .. Len(buffer) : buffer[r] \in 1 .. MaxMarker
    <2>1. buffer \in Seq(1 .. MaxMarker)
      BY <1>6
    <2> QED BY ONLY <2>1, ElementOfSeq, LenProperties
  <1>8. \A r \in 1 .. Len(buffer) : buffer[r] # 0
    BY <1>7
  <1>9. b <= Len(received) /\ b < q /\ b + Len(buffer) = q - 1
    BY <1>4, <1>6, <1>7
  <1>10. frames[k].got = frames[k].sent
    BY <1>3 DEF Altered
  <1>11. StartOf(frames, k) = 0 \/ Arrived[StartOf(frames, k)] = 0
    <2>1. CASE k = 1
      BY <2>1 DEF StartOf
    <2>2. CASE k # 1
      <3>1. k - 1 \in 1 .. Len(frames)
        BY <1>1, <2>2
      <3>2. frames[k - 1].got = frames[k - 1].sent
        BY <1>3, <3>1 DEF Altered
      <3>3. Arrived[frames[k - 1].to] = 0
        BY <1>1, <3>1, <3>2, Unaltered
      <3> QED BY <2>2, <3>3 DEF StartOf
    <2> QED BY <2>1, <2>2
  <1>12. b = 0 \/ Arrived[b] = 0
    <2>1. b = 0 \/ b \in 1 .. Len(received)
      BY <1>4, <1>6, <1>9
    <2> HIDE DEF b
    <2> QED BY <1>4, <1>6, <2>1
  <1>13. \A r \in 1 .. Len(buffer) : buffer[r] = Arrived[b + r]
    <2>1. \A r \in 1 .. Len(buffer) : b + r \in 1 .. Len(received)
      BY <1>4, <1>6, <1>7, <1>9
    <2> HIDE DEF b
    <2> QED BY <1>4, <1>6, <2>1
  <1>14. ASSUME NEW i \in b + 1 .. q - 1
         PROVE  Arrived[i] # 0
    <2> DEFINE r == i - b
    <2>1. r \in 1 .. Len(buffer) /\ i = b + r
      BY <1>4, <1>6, <1>7, <1>9
    <2> HIDE DEF b, r
    <2> QED BY <1>8, <1>13, <2>1
  <1>15. Append(buffer, 0) = frames[k].sent
    <2>1. ChunkAt(Arrived, q, b, buffer)
      <3> HIDE DEF b, q
      <3> QED BY <1>6, <1>9, <1>12, <1>13, <1>14 DEF ChunkAt
    <2> HIDE DEF b, q
    <2> QED BY <1>1, <1>5, <1>10, <1>11, <2>1, ChunkIsFrame
  <1>16. PICK m \in Messages : Append(buffer, 0) = CP!cobs_encode(m)
    <2>1. frames[k].sent = Frame[wire[k]] /\ wire[k] \in DOMAIN MsgBytes
      BY Layout DEF IInv, Carried
    <2> QED BY <1>15, <2>1, BlockFrame
  <1>17. CP!Outcomes(buffer) = {"valid"}
    BY <1>6, <1>16, PartsAssumed, CP!ExactOutcome DEF CP!SPECIAL_CHAR
  <1> QED BY <1>2, <1>17 DEF CP!HandleChunk, CP!ChunkEffect

\* The client reads, stops or runs out of memory.
LEMMA ClientIInv ==
    ASSUME IInv, ClientStep \/ ClientBails
    PROVE  IInv'
  <1>1. UNCHANGED server /\ UNCHANGED <<frames, errs, partial, wire, pc>>
    BY DEF ClientStep, ClientBails, net, server
  <1>2. CP!ReadByte \/ CP!Chunk \/ CP!Eof \/ CP!Bail
    BY SameClient DEF ClientStep, ClientBails, C!Reading
  <1>3. SP!IInv'
    BY <1>1, ServerRests
  <1>4. CP!IInv'
    <2>1. CP!Next
      BY <1>2 DEF CP!Next, CP!Reading
    <2> QED BY <2>1, PartsAssumed, CP!StepIInv DEF IInv
  <1>5. received \in Seq(Bytes) /\ stream \in Seq(Bytes)
    BY Layout
  <1>6. Arrived' = Arrived /\ closed' = closed
    <2>1. CASE CP!ReadByte \/ CP!Chunk
      <3>1. /\ stream # << >> /\ stream' = Tail(stream) /\ closed' = closed
            /\ received' = Append(received, Head(stream))
        BY <2>1 DEF CP!ReadByte, CP!Chunk, CP!HandleChunk, CP!ChunkEffect
      <3>2. Append(received, Head(stream)) \o Tail(stream) = received \o stream
        BY <1>5, <3>1, PartsAssumed, SP!MoveHead
      <3> QED BY <3>1, <3>2 DEF Arrived
    <2>2. CASE CP!Eof \/ CP!Bail
      BY <2>2 DEF CP!Eof, CP!Bail, Arrived
    <2> QED BY <1>2, <2>1, <2>2
  <1>7. cpc' = "eof" => closed' /\ stream' = << >>
    <2>1. CASE CP!ReadByte \/ CP!Chunk
      BY <2>1 DEF CP!ReadByte, CP!Chunk, CP!HandleChunk, CP!ChunkEffect
    <2>2. CASE CP!Eof \/ CP!Bail
      BY <2>2 DEF CP!Eof, CP!Bail
    <2> QED BY <1>2, <2>1, <2>2
  <1>8. errs = 0 => errlog' = errlog
    BY <1>2, CleanChunk DEF CP!ReadByte, CP!Eof, CP!Bail
  <1>9. NetType'
    BY <1>1, <1>6 DEF IInv, NetType
  <1>10. Carried'
    BY <1>1, <1>6 DEF IInv, Carried
  <1>11. Ending'
    BY <1>1, <1>6, <1>7 DEF IInv, Ending
  <1>12. Errors'
    BY <1>1, <1>8 DEF IInv, Errors
  <1> QED BY <1>3, <1>4, <1>9, <1>10, <1>11, <1>12 DEF IInv

\* The frames lie in the stream as they were sent, up to the altered bytes, and
\* both ends keep the invariants they keep on their own.
THEOREM Invariance == Spec => []IInv
  <1>1. IInv /\ [Next]_vars => IInv'
    BY ServerIInv, ServerDiesIInv, TransmitIInv, CloseIInv, ClientIInv DEF Next
  <1> QED BY <1>1, InitIInv, PTL DEF Spec

---------------------------------------------------------------------------
(***************************************************************************)
(* Damage is local.                                                        *)
(***************************************************************************)

\* Nothing, or a delimiter, is in front of the k-th frame.
CleanStart(k) == StartOf(frames, k) = 0 \/ Arrived[StartOf(frames, k)] = 0

\* What was read, and what has arrived.
LEMMA ReadIsArrived ==
    ASSUME IInv
    PROVE  /\ Len(received) \in Nat /\ Len(received) <= Len(Arrived) /\ Len(Arrived) \in Nat
           /\ \A i \in 1 .. Len(received) : Arrived[i] = received[i]
           /\ stream = << >> => Len(Arrived) = Len(received)
  <1>1. received \in Seq(Bytes) /\ stream \in Seq(Bytes)
    BY Layout
  <1> QED BY <1>1, ReadSoFar DEF Arrived

\* A counted block is a chunk of what has arrived.
LEMMA CountedChunk ==
    ASSUME IInv, NEW j \in 1 .. Len(accepted)
    PROVE  /\ accepted[j].to \in Nat \ {0} /\ accepted[j].to <= Len(Arrived)
           /\ Arrived[accepted[j].to] = 0
           /\ \E b : ChunkAt(Arrived, accepted[j].to, b, accepted[j].bytes)
  <1> DEFINE q == accepted[j].to
             c == accepted[j].bytes
             p == q - Len(c)
  <1>1. /\ accepted \in Seq(CP!Block) /\ q \in 1 .. Len(received)
        /\ CP!ChunkOf(received, p, q) /\ c = SubSeq(received, p, q - 1)
        /\ received \in Seq(CP!Byte)
    BY PartsAssumed, CP!Known DEF IInv
  <1>2. c \in Seq(1 .. MaxMarker)
    <2>1. accepted[j] \in CP!Block
      BY <1>1, ElementOfSeq
    <2> QED BY <2>1 DEF CP!Block
  <1>3. /\ Len(received) \in Nat /\ Len(received) <= Len(Arrived) /\ Len(Arrived) \in Nat
        /\ \A i \in 1 .. Len(received) : Arrived[i] = received[i]
    BY ReadIsArrived
  <1>4. Len(c) \in Nat
    BY <1>2, LenProperties
  <1>5. /\ p \in 1 .. q /\ received[q] = 0 /\ (p = 1 \/ received[p - 1] = 0)
        /\ \A r \in p .. q - 1 : received[r] # 0
    BY <1>1 DEF CP!ChunkOf, CP!SPECIAL_CHAR
  <1>6. \A r \in 1 .. Len(c) : c[r] = received[p + r - 1]
    <2>1. /\ \A i \in p .. q - 1 : received[i] \in CP!Byte
          /\ q - 1 - p + 1 = Len(c) /\ p \in Int /\ q - 1 \in Int
      <3>1. \A i \in 1 .. Len(received) : received[i] \in CP!Byte
        BY <1>1, ElementOfSeq
      <3>2. q \in Int /\ p \in Int
        BY <1>1, <1>4
      <3>3. \A i \in p .. q - 1 : i \in 1 .. Len(received)
        BY <1>1, <1>3, <1>5
      <3>4. (q - 1) - p + 1 = Len(c)
        BY <1>4, <3>2, SMTT(30)
      <3> QED BY <3>1, <3>2, <3>3, <3>4
    <2>2. \A r \in 1 .. (q - 1) - p + 1 : SubSeq(received, p, q - 1)[r] = received[p + r - 1]
      <3> HIDE DEF p, q
      <3> QED BY <2>1, SubSeqProperties
    <2> HIDE DEF p, q
    <2> QED BY <1>1, <2>1, <2>2
  <1> DEFINE b == p - 1
  <1> HIDE DEF q, c, p
  <1>7. b \in Nat /\ b < q /\ b + Len(c) = q - 1 /\ q \in Nat \ {0}
    BY <1>1, <1>4, <1>5 DEF p
  <1>8. q <= Len(Arrived) /\ Arrived[q] = 0
    BY <1>1, <1>3, <1>5
  <1>9. b = 0 \/ Arrived[b] = 0
    <2>1. b = 0 \/ b \in 1 .. Len(received)
      <3> HIDE DEF b
      <3> QED BY <1>1, <1>3, <1>7
    <2>2. b = 0 \/ received[b] = 0
      BY <1>5
    <2> HIDE DEF b
    <2> QED BY <1>3, <2>1, <2>2
  <1>10. ASSUME NEW i \in b + 1 .. q - 1
         PROVE  Arrived[i] # 0
    <2>1. i \in p .. q - 1 /\ i \in 1 .. Len(received)
      BY <1>1, <1>3, <1>5, <1>7
    <2> QED BY <1>3, <1>5, <2>1
  <1>11. ASSUME NEW r \in 1 .. Len(c)
         PROVE  c[r] = Arrived[b + r]
    <2>1. p + r - 1 = b + r /\ b + r \in 1 .. Len(received)
      BY <1>1, <1>3, <1>4, <1>5, <1>7
    <2> HIDE DEF b
    <2> QED BY <1>3, <1>6, <2>1
  <1>12. ChunkAt(Arrived, q, b, c)
    <2> HIDE DEF b
    <2> QED BY <1>2, <1>7, <1>9, <1>10, <1>11 DEF ChunkAt
  <1> HIDE DEF b
  <1> QED BY <1>7, <1>8, <1>12 DEF q, c

\* A chunk counted where an unaltered frame ends, behind a delimiter, is that
\* frame.
LEMMA CountedFrame ==
    ASSUME IInv, NEW k \in 1 .. Len(frames), frames[k].got = frames[k].sent, CleanStart(k),
           NEW j \in 1 .. Len(accepted), accepted[j].to = frames[k].to
    PROVE  Append(accepted[j].bytes, 0) = frames[k].sent
  <1>1. PICK b : ChunkAt(Arrived, accepted[j].to, b, accepted[j].bytes)
    BY CountedChunk
  <1>2. Laid(frames, Arrived)
    BY Layout
  <1> DEFINE c == accepted[j].bytes
  <1>3. ChunkAt(Arrived, frames[k].to, b, c)
    BY <1>1
  <1>4. StartOf(frames, k) = 0 \/ Arrived[StartOf(frames, k)] = 0
    BY DEF CleanStart
  <1> HIDE DEF c
  <1>5. Append(c, 0) = frames[k].sent
    BY <1>2, <1>3, <1>4, ChunkIsFrame
  <1> QED BY <1>5 DEF c

\* An unaltered frame behind a delimiter is counted once it is read.
LEMMA FrameCounted ==
    ASSUME IInv, NEW k \in 1 .. Len(frames), frames[k].got = frames[k].sent, CleanStart(k),
           frames[k].to <= Len(received)
    PROVE  \E j \in 1 .. Len(accepted) : accepted[j].to = frames[k].to
  <1> DEFINE f == frames[k].sent
             a == StartOf(frames, k)
             q == frames[k].to
  <1>1. Laid(frames, Arrived) /\ received \in Seq(Bytes)
    BY Layout
  <1>2. /\ a \in Nat /\ q \in Nat /\ a < q /\ q = a + Len(f) /\ Len(f) \in Nat \ {0}
    BY <1>1, FrameSpan
  <1>3. /\ Len(received) \in Nat
        /\ \A i \in 1 .. Len(received) : Arrived[i] = received[i]
    BY ReadIsArrived
  <1>4. /\ Arrived[q] = 0
        /\ \A r \in 1 .. Len(f) : Arrived[a + r] = f[r]
        /\ \A i \in a + 1 .. q - 1 : Arrived[i] # 0
    BY <1>1, Unaltered
  <1>5. f \in Seq(Bytes)
    BY <1>1 DEF Laid, Framed
  <1>6. \E m \in Messages : f = CP!cobs_encode(m)
    <2>1. frames[k].sent = Frame[wire[k]] /\ wire[k] \in DOMAIN MsgBytes
      BY Layout DEF IInv, Carried
    <2> QED BY <2>1, BlockFrame
  <1>7. a = 0 \/ Arrived[a] = 0
    BY DEF CleanStart
  <1>8. q <= Len(received)
    OBVIOUS
  <1> HIDE DEF f, a, q
  <1> DEFINE p == a + 1
  <1>9. p \in 1 .. q /\ q \in 1 .. Len(received) /\ p \in Nat /\ p - 1 = a /\ (p = 1 <=> a = 0)
    BY <1>2, <1>3, <1>8
  <1>10. CP!ChunkOf(received, p, q)
    <2>1. received[q] = 0
      BY <1>3, <1>4, <1>9
    <2>2. p = 1 \/ received[p - 1] = 0
      <3>1. a = 0 \/ a \in 1 .. Len(received)
        BY <1>2, <1>3, <1>8
      <3> HIDE DEF p
      <3> QED BY <1>3, <1>7, <1>9, <3>1
    <2>3. ASSUME NEW r \in p .. q - 1
          PROVE  received[r] # 0
      <3>1. r \in 1 .. Len(received) /\ r \in a + 1 .. q - 1
        BY <1>2, <1>3, <1>8
      <3> QED BY <1>3, <1>4, <3>1
    <2> HIDE DEF p
    <2> QED BY <1>9, <2>1, <2>2, <2>3 DEF CP!ChunkOf, CP!SPECIAL_CHAR
  <1>11. f = SubSeq(received, p, q)
    <2>1. \A r \in 1 .. Len(f) : a + r \in 1 .. Len(received) /\ p + r - 1 = a + r
      BY <1>2, <1>3, <1>8
    <2>2. /\ p \in 1 .. Len(received) + 1 /\ q \in 0 .. Len(received) /\ p <= q + 1
          /\ Len(f) = q - p + 1
      BY <1>2, <1>3, <1>8
    <2>3. \A r \in 1 .. Len(f) : f[r] = received[p + r - 1]
      <3> HIDE DEF p
      <3> QED BY <1>3, <1>4, <2>1
    <2> HIDE DEF p
    <2> QED BY <1>1, <1>5, <2>2, <2>3, PartsAssumed, CP!PieceIs
  <1>12. \A qq \in 1 .. Len(received) : \A pp \in 1 .. qq :
            CP!ChunkOf(received, pp, qq)
            /\ (\E m \in Messages : SubSeq(received, pp, qq) = CP!cobs_encode(m))
              => \E j \in 1 .. Len(accepted) : accepted[j].to = qq
    BY PartsAssumed, CP!Known DEF IInv
  <1> HIDE DEF p
  <1>13. \E j \in 1 .. Len(accepted) : accepted[j].to = q
    BY <1>6, <1>9, <1>10, <1>11, <1>12
  <1> QED BY <1>13 DEF q

\* The byte in front of the k-th frame is the last of the frame before.
LEMMA FrontOf ==
    ASSUME IInv, NEW k \in 1 .. Len(frames), k # 1
    PROVE  /\ k - 1 \in 1 .. Len(frames) /\ StartOf(frames, k) = frames[k - 1].to
           /\ Len(frames[k - 1].got) = Len(frames[k - 1].sent)
           /\ Arrived[StartOf(frames, k)] = frames[k - 1].got[Len(frames[k - 1].got)]
  <1>1. Laid(frames, Arrived) /\ Len(frames) \in Nat
    BY Layout
  <1>2. k - 1 \in 1 .. Len(frames)
    BY <1>1
  <1>3. LaidAt(frames, Arrived, k - 1)
    BY <1>1, <1>2 DEF Laid
  <1> DEFINE i == k - 1
             n == Len(frames[i].sent)
  <1>4. n \in 1 .. n /\ frames[i].to = StartOf(frames, i) + n
    <2> HIDE DEF i
    <2> QED BY <1>1, <1>2, FrameSpan DEF i
  <1>5. Len(frames[i].got) = n /\ Arrived[StartOf(frames, i) + n] = frames[i].got[n]
    <2> HIDE DEF i
    <2> QED BY <1>3, <1>4 DEF LaidAt, i
  <1>6. StartOf(frames, k) = frames[i].to
    BY DEF StartOf
  <1> HIDE DEF n
  <1> QED BY <1>2, <1>4, <1>5, <1>6 DEF n

\* The inductive invariant says that damage is local.
LEMMA LocalDamage == IInv => DamageIsLocal
  <1> SUFFICES ASSUME IInv, NEW k \in 1 .. Len(frames), frames[k].got = frames[k].sent,
                      k = 1 \/ frames[k - 1].got[Len(frames[k - 1].got)] = 0,
                      Len(received) >= frames[k].to
               PROVE  \E j \in 1 .. Len(accepted) :
                         /\ accepted[j].to = frames[k].to
                         /\ Append(accepted[j].bytes, 0) = frames[k].sent
    BY DEF DamageIsLocal
  <1>1. CleanStart(k)
    <2>1. CASE k = 1
      BY <2>1 DEF CleanStart, StartOf
    <2>2. CASE k # 1
      BY <2>2, FrontOf DEF CleanStart
    <2> QED BY <2>1, <2>2
  <1>2. frames[k].to <= Len(received)
    <2>1. frames[k].to \in Nat /\ Len(received) \in Nat
      BY Layout, ReadIsArrived, FrameSpan
    <2> QED BY <2>1
  <1>3. PICK j \in 1 .. Len(accepted) : accepted[j].to = frames[k].to
    BY <1>1, <1>2, FrameCounted
  <1> QED BY <1>1, <1>3, CountedFrame

\* Whatever bytes were altered before it, a frame that arrives unaltered behind
\* a delimiter is counted with its own bytes by read_blocks.
THEOREM Local == Spec => []DamageIsLocal
  BY Invariance, LocalDamage, PTL

---------------------------------------------------------------------------
(***************************************************************************)
(* End to end.                                                             *)
(***************************************************************************)

\* The client has read to the end: every frame has been sent, arrived and read.
LEMMA AtEof ==
    ASSUME IInv, cpc = "eof"
    PROVE  /\ Len(frames) = Len(wire) /\ Len(wire) \in Nat /\ Len(Arrived) = Len(received)
           /\ \A k \in 1 .. Len(frames) : frames[k].to \in Nat /\ frames[k].to <= Len(received)
           /\ Len(accepted) \in Nat /\ blocksRead = Len(accepted)
           /\ \A j, k \in 1 .. Len(accepted) : j < k => accepted[j].to < accepted[k].to
           /\ \A j, k \in 1 .. Len(frames) : j < k => frames[j].to < frames[k].to
  <1>1. stream = << >> /\ closed /\ Len(frames) = Len(wire)
    BY DEF IInv, Ending
  <1>2. Len(wire) \in Nat /\ Laid(frames, Arrived)
    BY Layout
  <1>3. Len(Arrived) = Len(received)
    BY <1>1, ReadIsArrived
  <1>4. \A k \in 1 .. Len(frames) : frames[k].to \in Nat /\ frames[k].to <= Len(received)
    BY <1>2, <1>3, FrameSpan
  <1>5. accepted \in Seq(CP!Block) /\ blocksRead = Len(accepted)
    BY PartsAssumed, CP!Known DEF IInv
  <1>6. \A j, k \in 1 .. Len(accepted) : j < k => accepted[j].to < accepted[k].to
    BY PartsAssumed, CP!Known DEF IInv
  <1>7. Len(accepted) \in Nat
    BY <1>5, LenProperties
  <1>8. \A j, k \in 1 .. Len(frames) : j < k => frames[j].to < frames[k].to
    BY <1>2, Ordered
  <1> QED BY <1>1, <1>2, <1>3, <1>4, <1>5, <1>6, <1>7, <1>8

\* Only a frame that was altered lacks its delimiter.
LEMMA UnalteredFront ==
    ASSUME IInv, NEW k \in 1 .. Len(frames), k = 1 \/ frames[k - 1].got = frames[k - 1].sent
    PROVE  CleanStart(k)
  <1>1. CASE k = 1
    BY <1>1 DEF CleanStart, StartOf
  <1>2. CASE k # 1
    <2>1. k - 1 \in 1 .. Len(frames) /\ StartOf(frames, k) = frames[k - 1].to
      BY <1>2, FrontOf
    <2>2. Laid(frames, Arrived)
      BY Layout
    <2>3. Arrived[frames[k - 1].to] = 0
      BY <1>2, <2>1, <2>2, Unaltered
    <2> QED BY <2>1, <2>3 DEF CleanStart
  <1> QED BY <1>1, <1>2

\* Where nothing was altered the blocks counted are the frames.
LEMMA CleanTransfer ==
    ASSUME IInv, cpc = "eof", errs = 0
    PROVE  /\ Len(accepted) = Len(wire)
           /\ \A k \in 1 .. Len(wire) : Append(accepted[k].bytes, 0) = Frame[wire[k]]
  <1>1. Altered(frames) = {}
    BY AlteredCount
  <1>2. /\ Len(frames) = Len(wire) /\ Len(wire) \in Nat /\ Len(Arrived) = Len(received)
        /\ \A k \in 1 .. Len(frames) : frames[k].to \in Nat /\ frames[k].to <= Len(received)
        /\ Len(accepted) \in Nat
        /\ \A j, k \in 1 .. Len(accepted) : j < k => accepted[j].to < accepted[k].to
        /\ \A j, k \in 1 .. Len(frames) : j < k => frames[j].to < frames[k].to
    BY AtEof
  <1>3. ASSUME NEW k \in 1 .. Len(frames)
        PROVE  frames[k].got = frames[k].sent /\ CleanStart(k)
    <2>1. \A i \in 1 .. Len(frames) : frames[i].got = frames[i].sent
      BY <1>1 DEF Altered
    <2>2. k = 1 \/ k - 1 \in 1 .. Len(frames)
      BY <1>2
    <2> QED BY <2>1, <2>2, UnalteredFront
  <1>4. \A j \in 1 .. Len(accepted) : accepted[j].to \in Nat
    BY CountedChunk
  <1>5. \A j \in 1 .. Len(accepted) : \E k \in 1 .. Len(frames) : accepted[j].to = frames[k].to
    BY <1>1, CountedChunk, CleanEnd
  <1>6. \A k \in 1 .. Len(frames) : \E j \in 1 .. Len(accepted) : accepted[j].to = frames[k].to
    BY <1>2, <1>3, FrameCounted
  <1> DEFINE m == Len(accepted)
             n == Len(frames)
             f == [j \in 1 .. m |-> accepted[j].to]
             g == [k \in 1 .. n |-> frames[k].to]
  <1>7. Rising(f, m) /\ Rising(g, n)
    BY <1>2, <1>4 DEF Rising
  <1>8. Among(f, m, g, n) /\ Among(g, n, f, m)
    BY <1>5, <1>6 DEF Among
  <1>9. m = n /\ \A i \in 1 .. m : f[i] = g[i]
    <2> HIDE DEF m, n, f, g
    <2> QED BY <1>7, <1>8, SameRising
  <1>10. \A k \in 1 .. Len(frames) : k \in 1 .. Len(accepted) /\ accepted[k].to = frames[k].to
    BY <1>9
  <1>11. ASSUME NEW k \in 1 .. Len(wire)
         PROVE  Append(accepted[k].bytes, 0) = Frame[wire[k]]
    <2>1. k \in 1 .. Len(frames) /\ frames[k].sent = Frame[wire[k]]
      BY <1>2 DEF IInv, Carried
    <2>2. Append(accepted[k].bytes, 0) = frames[k].sent
      BY <1>3, <1>10, <2>1, CountedFrame
    <2> QED BY <2>1, <2>2
  <1> QED BY <1>2, <1>9, <1>11

\* The inductive invariant says that a transfer without damage is complete.
LEMMA WholeTransfer == IInv => EndToEnd
  <1> SUFFICES ASSUME IInv, cpc = "eof", errs = 0, log # << >>, dropped = 0
               PROVE  /\ [k \in 1 .. Len(accepted) |-> Append(accepted[k].bytes, 0)]
                           = [k \in 1 .. Len(wire) |-> Frame[wire[k]]]
                      /\ errlog = << >>
                      /\ S!NoSkips => blocksRead = log.blocks
    BY DEF EndToEnd
  <1>1. /\ Len(accepted) = Len(wire)
        /\ \A k \in 1 .. Len(wire) : Append(accepted[k].bytes, 0) = Frame[wire[k]]
    BY CleanTransfer
  <1>2. errlog = << >>
    BY DEF IInv, Errors
  <1>3. ASSUME S!NoSkips PROVE blocksRead = log.blocks
    <2>1. log.blocks = Len(wire) + 0
      BY <1>3, SameServer DEF IInv, SP!IInv, SP!LogTruthful
    <2>2. Len(wire) \in Nat /\ blocksRead = Len(accepted)
      BY AtEof
    <2> QED BY <1>1, <2>1, <2>2
  <1> QED BY <1>1, <1>2, <1>3

\* When nothing is altered and no send fails, read_blocks counts exactly the
\* blocks of the directory, in order and without an error, and as many as the
\* child logs.
THEOREM Complete == Spec => []EndToEnd
  BY Invariance, WholeTransfer, PTL

---------------------------------------------------------------------------
(***************************************************************************)
(* What an altered byte costs.                                             *)
(***************************************************************************)

\* A relation that gives every element of U one of V, and none of V to two.
LEMMA AtMost ==
    ASSUME NEW U, NEW V, IsFiniteSet(V), NEW R,
           \A x \in U : \E y \in V : <<x, y>> \in R,
           \A x, z \in U : \A y \in V : <<x, y>> \in R /\ <<z, y>> \in R => x = z
    PROVE  /\ IsFiniteSet(U) /\ Cardinality(U) <= Cardinality(V)
           /\ Cardinality(U) \in Nat /\ Cardinality(V) \in Nat
  <1> DEFINE f == [x \in U |-> CHOOSE y \in V : <<x, y>> \in R]
  <1>1. \A x \in U : f[x] \in V /\ <<x, f[x]>> \in R
    OBVIOUS
  <1>2. f \in [U -> V]
    BY <1>1
  <1>3. \A x, z \in U : f[x] = f[z] => x = z
    <2> HIDE DEF f
    <2> QED BY <1>1
  <1> HIDE DEF f
  <1>4. f \in Injection(U, V)
    BY <1>2, <1>3 DEF Injection, IsInjective
  <1>5. IsFiniteSet(U) /\ Cardinality(U) <= Cardinality(V)
    BY <1>4, FS_Injection
  <1> QED BY <1>5, FS_CardinalityType

\* The size of two sets together.
LEMMA UnionAtMost ==
    ASSUME NEW U, NEW V, IsFiniteSet(U), IsFiniteSet(V)
    PROVE  /\ IsFiniteSet(U \cup V) /\ Cardinality(U \cup V) \in Nat
           /\ Cardinality(U \cup V) <= Cardinality(U) + Cardinality(V)
  <1>1. /\ IsFiniteSet(U \cup V)
        /\ Cardinality(U \cup V) = Cardinality(U) + Cardinality(V) - Cardinality(U \cap V)
    BY FS_Union
  <1>2. IsFiniteSet(U \cap V)
    BY FS_Intersection
  <1>3. /\ Cardinality(U) \in Nat /\ Cardinality(V) \in Nat /\ Cardinality(U \cap V) \in Nat
        /\ Cardinality(U \cup V) \in Nat
    BY <1>1, <1>2, FS_CardinalityType
  <1> QED BY <1>1, <1>3

\* The numbers up to n.
LEMMA FirstNumbers ==
    ASSUME NEW n \in Nat
    PROVE  IsFiniteSet(1 .. n) /\ Cardinality(1 .. n) = n
  <1>1. /\ IsFiniteSet(1 .. n)
        /\ Cardinality(1 .. n) = IF 1 > n THEN 0 ELSE n - 1 + 1
    BY FS_Interval
  <1> QED BY <1>1

\* Every frame is counted but the altered ones and those right behind them.
LEMMA Lost ==
    ASSUME IInv, cpc = "eof"
    PROVE  blocksRead >= Len(wire) - 2 * errs
  <1> DEFINE n == Len(wire)
             A == Altered(frames)
             Behind == {k \in 1 .. n : k - 1 \in A}
             Safe == {k \in 1 .. n : k \notin A /\ k - 1 \notin A}
             Got == 1 .. Len(accepted)
  <1>1. /\ Len(frames) = n /\ n \in Nat /\ Len(accepted) \in Nat /\ blocksRead = Len(accepted)
        /\ \A k \in 1 .. Len(frames) : frames[k].to <= Len(received)
        /\ \A j, k \in 1 .. Len(frames) : j < k => frames[j].to < frames[k].to
        /\ \A k \in 1 .. Len(frames) : frames[k].to \in Nat
    BY AtEof
  <1>2. IsFiniteSet(A) /\ Cardinality(A) = errs /\ errs \in Nat
    BY AlteredCount
  <1>3. IsFiniteSet(Behind) /\ Cardinality(Behind) <= errs /\ Cardinality(Behind) \in Nat
    <2> DEFINE R == {p \in (1 .. n) \X A : p[2] = p[1] - 1}
    <2>1. \A k \in Behind : \E a \in A : <<k, a>> \in R
      OBVIOUS
    <2>2. \A k, i \in Behind : \A a \in A : <<k, a>> \in R /\ <<i, a>> \in R => k = i
      <3>1. \A k, i \in 1 .. n : k - 1 = i - 1 => k = i
        OBVIOUS
      <3> QED BY <3>1
    <2> HIDE DEF R, A, Behind
    <2> QED BY <1>2, <2>1, <2>2, AtMost
  <1>4. IsFiniteSet(Safe) /\ Cardinality(Safe) <= Len(accepted) /\ Cardinality(Safe) \in Nat
    <2> DEFINE R == {p \in (1 .. n) \X Got : accepted[p[2]].to = frames[p[1]].to}
    <2>1. ASSUME NEW k \in Safe
          PROVE  \E j \in Got : <<k, j>> \in R
      <3>1. k \in 1 .. Len(frames) /\ frames[k].got = frames[k].sent
        BY <1>1 DEF Altered
      <3>2. k = 1 \/ frames[k - 1].got = frames[k - 1].sent
        <4>1. k = 1 \/ k - 1 \in 1 .. Len(frames)
          BY <1>1
        <4> QED BY <4>1 DEF Altered
      <3>3. CleanStart(k)
        BY <3>1, <3>2, UnalteredFront
      <3>4. PICK j \in Got : accepted[j].to = frames[k].to
        BY <1>1, <3>1, <3>3, FrameCounted
      <3> QED BY <3>4
    <2>2. ASSUME NEW k \in Safe, NEW i \in Safe, NEW j \in Got, <<k, j>> \in R, <<i, j>> \in R
          PROVE  k = i
      <3>1. k \in 1 .. Len(frames) /\ i \in 1 .. Len(frames) /\ frames[k].to = frames[i].to
        BY <1>1, <2>2
      <3>2. frames[k].to \in Nat /\ ~(k < i) /\ ~(i < k)
        BY <1>1, <3>1
      <3> QED BY <3>1, <3>2
    <2>3. IsFiniteSet(Got) /\ Cardinality(Got) = Len(accepted)
      BY <1>1, FirstNumbers
    <2> HIDE DEF R, Safe, Got
    <2>4. IsFiniteSet(Safe) /\ Cardinality(Safe) <= Cardinality(Got) /\ Cardinality(Safe) \in Nat
      BY <2>1, <2>2, <2>3, AtMost
    <2> QED BY <2>3, <2>4
  <1>5. 1 .. n = Safe \cup (A \cup Behind)
    <2>1. A \subseteq 1 .. n
      BY <1>1 DEF Altered
    <2> HIDE DEF A
    <2> QED BY <2>1
  <1>6. Cardinality(1 .. n) = n
    BY <1>1, FirstNumbers
  <1> HIDE DEF A, Behind, Safe, Got, n
  <1>7. /\ IsFiniteSet(A \cup Behind) /\ Cardinality(A \cup Behind) \in Nat
        /\ Cardinality(A \cup Behind) <= Cardinality(A) + Cardinality(Behind)
    BY <1>2, <1>3, UnionAtMost
  <1>8. Cardinality(1 .. n) <= Cardinality(Safe) + Cardinality(A \cup Behind)
    BY <1>4, <1>5, <1>7, UnionAtMost
  <1>9. n <= Len(accepted) + (errs + errs)
    BY <1>1, <1>2, <1>3, <1>4, <1>6, <1>7, <1>8
  <1>10. blocksRead >= n - 2 * errs
    BY <1>1, <1>2, <1>9
  <1> QED BY <1>10 DEF n

\* A zero is the end of a frame, or the one altered byte of a frame.
LEMMA ZeroByte ==
    ASSUME IInv, NEW q \in Nat \ {0}, q <= Len(Arrived), Arrived[q] = 0
    PROVE  \E k \in 1 .. Len(frames) :
              \/ q = frames[k].to
              \/ \E r \in 1 .. Len(frames[k].sent) :
                    q = StartOf(frames, k) + r /\ frames[k].got[r] # frames[k].sent[r]
  <1>1. Laid(frames, Arrived)
    BY Layout
  <1>2. q <= EndOf(frames)
    BY InFrames
  <1>3. PICK k \in 1 .. Len(frames) : \E r \in 1 .. Len(frames[k].sent) : q = StartOf(frames, k) + r
    BY <1>1, <1>2, Within
  <1>4. PICK r \in 1 .. Len(frames[k].sent) : q = StartOf(frames, k) + r
    BY <1>3
  <1>5. /\ LaidAt(frames, Arrived, k) /\ Framed(frames[k].sent) /\ Len(frames[k].sent) \in Nat
        /\ frames[k].to = StartOf(frames, k) + Len(frames[k].sent)
    BY <1>1, FrameSpan DEF Laid
  <1>6. CASE r = Len(frames[k].sent)
    BY <1>4, <1>5, <1>6
  <1>7. CASE r # Len(frames[k].sent)
    <2>1. frames[k].got[r] = 0
      BY <1>4, <1>5 DEF LaidAt
    <2>2. r \in 1 .. Len(frames[k].sent) - 1
      BY <1>5, <1>7
    <2>3. frames[k].sent[r] # 0
      BY <1>5, <2>2 DEF Framed
    <2> QED BY <1>4, <2>1, <2>3
  <1> QED BY <1>6, <1>7

\* Every counted block ends with a frame, or within an altered one.
LEMMA Invented ==
    ASSUME IInv, cpc = "eof"
    PROVE  blocksRead <= Len(wire) + errs
  <1> DEFINE n == Len(wire)
             A == Altered(frames)
             m == Len(accepted)
             EndsAt(j, k) == accepted[j].to = frames[k].to
             EndsIn(j, k) == \E r \in 1 .. Len(frames[k].sent) :
                                /\ accepted[j].to = StartOf(frames, k) + r
                                /\ frames[k].got[r] # frames[k].sent[r]
             Frames == 1 .. n
             Ends == {j \in 1 .. m : \E k \in Frames : EndsAt(j, k)}
             Inner == {j \in 1 .. m : \E k \in A : EndsIn(j, k)}
  <1>1. /\ Len(frames) = n /\ n \in Nat /\ m \in Nat /\ blocksRead = m
        /\ \A j, k \in 1 .. m : j < k => accepted[j].to < accepted[k].to
    BY AtEof
  <1>2. \A j \in 1 .. m : accepted[j].to \in Nat
    BY CountedChunk
  <1>3. \A i, j \in 1 .. m : accepted[i].to = accepted[j].to => i = j
    <2> SUFFICES ASSUME NEW i \in 1 .. m, NEW j \in 1 .. m, accepted[i].to = accepted[j].to
                 PROVE  i = j
      OBVIOUS
    <2>1. accepted[i].to \in Nat /\ ~(i < j) /\ ~(j < i)
      BY <1>1, <1>2
    <2> QED BY <2>1
  <1>4. IsFiniteSet(A) /\ Cardinality(A) = errs /\ errs \in Nat
    BY AlteredCount
  <1>5. IsFiniteSet(Ends) /\ Cardinality(Ends) <= n /\ Cardinality(Ends) \in Nat
    <2> DEFINE R == {p \in (1 .. m) \X Frames : EndsAt(p[1], p[2])}
    <2>1. \A j \in Ends : \E k \in Frames : <<j, k>> \in R
      OBVIOUS
    <2>2. \A i, j \in Ends : \A k \in Frames : <<i, k>> \in R /\ <<j, k>> \in R => i = j
      BY <1>3
    <2>3. IsFiniteSet(Frames) /\ Cardinality(Frames) = n
      BY <1>1, FirstNumbers
    <2> HIDE DEF R, Ends, Frames
    <2>4. IsFiniteSet(Ends) /\ Cardinality(Ends) <= Cardinality(Frames) /\ Cardinality(Ends) \in Nat
      BY <2>1, <2>2, <2>3, AtMost
    <2> QED BY <2>3, <2>4
  <1>6. IsFiniteSet(Inner) /\ Cardinality(Inner) <= errs /\ Cardinality(Inner) \in Nat
    <2> DEFINE R == {p \in (1 .. m) \X A : EndsIn(p[1], p[2])}
    <2>1. \A j \in Inner : \E k \in A : <<j, k>> \in R
      OBVIOUS
    <2>2. ASSUME NEW i \in Inner, NEW j \in Inner, NEW k \in A, EndsIn(i, k), EndsIn(j, k)
          PROVE  i = j
      <3>1. PICK r \in 1 .. Len(frames[k].sent) :
                    /\ accepted[i].to = StartOf(frames, k) + r
                    /\ frames[k].got[r] # frames[k].sent[r]
        BY <2>2
      <3>2. PICK s \in 1 .. Len(frames[k].sent) :
                    /\ accepted[j].to = StartOf(frames, k) + s
                    /\ frames[k].got[s] # frames[k].sent[s]
        BY <2>2
      <3>3. OneByte(frames[k])
        BY DEF IInv, Carried, Altered
      <3>4. r = s
        BY <3>1, <3>2, <3>3 DEF OneByte
      <3> QED BY <1>3, <3>1, <3>2, <3>4
    <2>3. \A i, j \in Inner : \A k \in A : <<i, k>> \in R /\ <<j, k>> \in R => i = j
      <3> HIDE DEF Inner, EndsIn, A
      <3> QED BY <2>2
    <2> HIDE DEF R, Inner, A
    <2> QED BY <1>4, <2>1, <2>3, AtMost
  <1>7. 1 .. m = Ends \cup Inner
    <2>1. ASSUME NEW j \in 1 .. m
          PROVE  j \in Ends \/ j \in Inner
      <3>1. PICK k \in 1 .. Len(frames) : EndsAt(j, k) \/ EndsIn(j, k)
        BY CountedChunk, ZeroByte
      <3>2. CASE EndsAt(j, k)
        BY <1>1, <3>2
      <3>3. CASE EndsIn(j, k)
        <4>1. frames[k].got # frames[k].sent
          BY <3>3
        <4>2. k \in A
          BY <4>1 DEF Altered
        <4> HIDE DEF A, EndsIn
        <4> QED BY <3>3, <4>2
      <3> QED BY <3>1, <3>2, <3>3
    <2> QED BY <2>1
  <1>8. Cardinality(1 .. m) = m
    BY <1>1, FirstNumbers
  <1> HIDE DEF Ends, Inner, n, m, A
  <1>9. Cardinality(1 .. m) <= Cardinality(Ends) + Cardinality(Inner)
    BY <1>5, <1>6, <1>7, UnionAtMost
  <1>10. blocksRead <= n + errs
    BY <1>1, <1>4, <1>5, <1>6, <1>8, <1>9
  <1> QED BY <1>10 DEF n

\* One altered byte costs read_blocks at most two blocks and makes it count at
\* most one that was not sent, whether or not the server dies in mid-frame.
THEOREM Bounded == Spec => []LossBounded
  <1>1. IInv => LossBounded
    BY Lost, Invented DEF LossBounded
  <1> QED BY <1>1, Invariance, PTL
=============================================================================
