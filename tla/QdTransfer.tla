---------------------------- MODULE QdTransfer ----------------------------
(***************************************************************************)
(* A server child and a client joined by a connection: FileTransfer sends  *)
(* blocks, the connection carries their COBS frames as bytes and may alter *)
(* some of them (the errors the client is written to survive and report),  *)
(* BlockClient cuts the bytes into chunks.  The stream itself is TCP: in   *)
(* order, nothing lost while both ends live.  The server process may die   *)
(* in the middle of a write; a client that stops early resets the          *)
(* connection.                                                             *)
(***************************************************************************)
EXTENDS Integers, Sequences, SequencesExt

CONSTANTS Dirs, BlockSize, Uninit, Room,              \* see FileTransfer
          MaxMarker, Messages, HeaderLen, InitialSize, \* see BlockClient
          MsgBytes,      \* block |-> the bytes of the message that carries it
          MaxErrs,       \* bound: bytes altered on the way, one per frame
          MayCrash       \* whether the server process may be killed

VARIABLES
    dir0, dir, pc, left, blockcount, bytecount, blocktotal, bytetotal, errors,
    sendMutex, peerGone, wire, dropped, readErr, log,
    stream, closed, cpc, buffer, chunkcount, blocksRead, errlog, received, accepted,
    frames,      \* what was put on the stream for each block delivered so far
    errs,        \* bytes altered so far
    partial      \* bytes of an unfinished write when the server was killed

\* A block leaves the server's socket when its frame arrives.
S == INSTANCE FileTransfer WITH MayReset <- TRUE, Blocks <- DOMAIN MsgBytes,
                                drained <- Len(frames)
C == INSTANCE BlockClient WITH blockcount <- blocksRead, Streams <- {}

ASSUME PartsAssumption ==
    /\ S!BlockSizeAssumption /\ S!UninitAssumption /\ S!RoomAssumption /\ S!DirsAssumption
    /\ C!MaxMarkerAssumption /\ C!MessagesAssumption /\ C!SizesAssumption
ASSUME MsgBytesAssumption == \A b \in DOMAIN MsgBytes : MsgBytes[b] \in Messages

server == <<dir0, dir, pc, left, blockcount, bytecount, blocktotal, bytetotal,
            errors, sendMutex, peerGone, wire, dropped, readErr, log>>
client == <<stream, closed, cpc, buffer, chunkcount, blocksRead, errlog, received, accepted>>
net == <<frames, errs, partial>>
vars == <<server, client, net>>

Init ==
    /\ frames = << >> /\ errs = 0 /\ partial = << >>
    /\ S!Init
    /\ C!ClientInit /\ stream = << >> /\ closed = FALSE

\* msg_to_cobs: the frame in which each block travels.
Frame == [b \in DOMAIN MsgBytes |-> C!cobs_encode(MsgBytes[b])]

\* The bytes already put on the stream.
Position == IF frames = << >> THEN 0 ELSE frames[Len(frames)].to

\* f with at most one byte altered.
Damaged(f) == {f} \cup {[f EXCEPT ![k] = b] : k \in 1 .. Len(f), b \in C!Byte}

\* The next written frame arrives, with some of its bytes altered: a step
\* S!Drain for the server.
Transmit ==
    /\ Len(frames) < Len(wire) /\ ~peerGone
    /\ LET f == Frame[wire[Len(frames) + 1]] IN
       \E g \in IF errs < MaxErrs THEN Damaged(f) ELSE {f} :
         /\ stream' = stream \o g
         /\ frames' = Append(frames, [to |-> Position + Len(f), sent |-> f, got |-> g])
         /\ errs' = errs + IF g = f THEN 0 ELSE 1
    /\ UNCHANGED <<server, partial, closed, cpc, buffer, chunkcount, blocksRead,
                   errlog, received, accepted>>

\* The server process has ended and the kernel has delivered what it wrote.
Close ==
    /\ pc \in {"exited", "killed"} /\ Len(frames) = Len(wire)
    /\ ~closed /\ ~peerGone
    /\ stream' = stream \o partial
    /\ closed' = TRUE
    /\ UNCHANGED <<server, net, cpc, buffer, chunkcount, blocksRead, errlog,
                   received, accepted>>

\* The server process is killed, perhaps with part of a frame written.
ServerDies ==
    /\ MayCrash /\ pc \notin {"exited", "killed"}
    /\ pc' = "killed"
    /\ IF pc = "fread" /\ left # << >> /\ ~sendMutex
       THEN \E n \in 0 .. Len(Frame[Head(left)]) - 1 :
                partial' = SubSeq(Frame[Head(left)], 1, n)
       ELSE UNCHANGED partial
    /\ UNCHANGED <<dir0, dir, left, blockcount, bytecount, blocktotal, bytetotal,
                   errors, sendMutex, peerGone, wire, dropped, readErr, log,
                   client, frames, errs>>

ServerStep == UNCHANGED <<client, net>> /\ S!Child
ServerNoMemory == UNCHANGED <<client, net>> /\ S!SendNoMemory
ClientStep == C!Reading /\ UNCHANGED <<server, net>>
ClientBails == C!Bail /\ UNCHANGED <<server, net>>

\* A client that stops before the end of the stream resets the connection.
ClientResets ==
    /\ cpc \in {"bail", "abort"}
    /\ UNCHANGED <<client, net>>
    /\ S!PeerReset

Next == \/ ServerStep \/ ServerNoMemory \/ ServerDies
        \/ Transmit \/ Close
        \/ ClientStep \/ ClientBails \/ ClientResets

\* Both processes are scheduled and the network delivers; nobody has to fail.
Spec == /\ Init /\ [][Next]_vars
        /\ WF_vars(ServerStep) /\ WF_vars(ClientStep)
        /\ WF_vars(Transmit) /\ WF_vars(Close)

---------------------------------------------------------------------------
\* End to end: when nothing was altered and nothing failed, the client ends
\* having counted exactly the blocks of the files, in order, and reported no
\* error; and that is the number the server logged.
EndToEnd ==
    cpc = "eof" /\ errs = 0 /\ log # << >> /\ dropped = 0 =>
        /\ [k \in 1 .. Len(accepted) |-> Append(accepted[k].bytes, 0)]
              = [k \in 1 .. Len(wire) |-> Frame[wire[k]]]
        /\ errlog = << >>
        /\ S!NoSkips => blocksRead = log.blocks

\* Damage is local: a frame that arrives unaltered behind a frame whose
\* delimiter survived is counted with its own bytes, whatever happened to
\* the bytes before it.
DamageIsLocal ==
    \A k \in 1 .. Len(frames) :
        /\ frames[k].got = frames[k].sent
        /\ k = 1 \/ frames[k - 1].got[Len(frames[k - 1].got)] = 0
        /\ Len(received) >= frames[k].to
        /\ cpc # "abort"
        => \E j \in 1 .. Len(accepted) :
              /\ accepted[j].to = frames[k].to
              /\ Append(accepted[j].bytes, 0) = frames[k].sent

\* One altered byte costs at most two blocks and invents at most one, even
\* when the server dies in mid-frame: the rest of an unfinished frame is
\* never counted.
LossBounded ==
    cpc = "eof" =>
        /\ blocksRead >= Len(wire) - 2 * errs
        /\ blocksRead <= Len(wire) + errs

\* The server child ends when its client reads to the end of the stream.
ChildEndsWithClient == <>(pc \in {"exited", "killed"} \/ cpc \in {"bail", "abort"})
===========================================================================
