--------------------------- MODULE SegmentClient ---------------------------
(***************************************************************************)
(* The segment client, justin-snapshot/drv/client.c: numDownloads times it *)
(* opens a channel, gathers the file, asks for the segments that arrived   *)
(* damaged and closes the channel.  It never looks at the kind or number   *)
(* of a verified message: what arrives is taken for what is expected.      *)
(***************************************************************************)
EXTENDS SegmentNet

CONSTANTS
    MAX_SIZE,        \* bytes of a segment
    Signed           \* 2^31, scaled down: offsets are cast to int32

ASSUME ClientAssumption == MAX_SIZE \in Nat \ {0} /\ Signed \in Nat \ {0}

VARIABLE cl          \* per client, its state

\* missed and inStep are history: the segments that arrived damaged in this
\* download, and whether every message taken was the one expected and its
\* streams kept their frames.
ClientInit ==
    cl = [c \in Clients |->
            [pc |-> IF c \in sc.clients THEN "connect" ELSE "done", cycle |-> 1,
             other |-> 0, count |-> 0, got |-> 0, missing |-> {}, out |-> << >>, pos |-> 0,
             result |-> "none", sendLocked |-> FALSE, recvLocked |-> FALSE,
             missed |-> {}, inStep |-> TRUE]]

selfID(c) == 10 * c + cl[c].cycle
Is(c, pc) == cl[c].pc = pc

Become(c, next) == cl' = [cl EXCEPT ![c] = next]

\* The process ends: the kernel closes its socket.
Exits(c, pc) ==
    /\ cl' = [cl EXCEPT ![c].pc = pc]
    /\ gone' = [gone EXCEPT ![c] = Closed(toClient[c])]
    /\ toClient' = [toClient EXCEPT ![c] = << >>]

---------------------------------------------------------------------------
(* send_msg: the client goes on as next, unless the write kills it.  After *)
(* an error its send_mutex stays locked.                                   *)

SendOk(c, m, next) ==
    /\ Accepts(toServer[c], ServerEnd(c))
    /\ toServer' = [toServer EXCEPT ![c] = Sent(@, ServerEnd(c), m)]
    /\ shut' = [shut EXCEPT ![c] = EndAfter(@)]
    /\ Become(c, next)
    /\ UNCHANGED <<sc, server, toClient, gone, backlog, altered, upset>>

SendFails(c, next) ==
    /\ ServerEnd(c) = "reset"
    /\ Become(c, [next EXCEPT !.sendLocked = TRUE])
    /\ UNCHANGED net

SendKills(c) ==
    /\ ServerEnd(c) = "reset"
    /\ Exits(c, "crashed")
    /\ UNCHANGED <<sc, server, toServer, shut, backlog, altered, upset>>

client_send(c, m, next) ==
    /\ ~cl[c].sendLocked
    /\ SendOk(c, m, next) \/ SendFails(c, next) \/ SendKills(c)

---------------------------------------------------------------------------
(* recv_msg: what was read becomes Taken, with the lock as readn left it.  *)

CanTake(c) == CanRecv(toClient[c], ServerEnd(c), cl[c].recvLocked)
Read(c) == recv_msg(toClient[c], ServerEnd(c))

Takes(c, next) ==
    /\ toClient' = [toClient EXCEPT ![c] = Read(c).rest]
    /\ Become(c, [next EXCEPT !.recvLocked = Read(c).locked])
    /\ UNCHANGED <<sc, server, toServer, gone, shut, backlog, altered>>

\* NULL is passed to verify_msg.
Crashes(c) ==
    /\ Read(c).msg = Null
    /\ Exits(c, "crashed")
    /\ UNCHANGED <<sc, server, toServer, shut, backlog, altered, upset>>

Taken(c) == Read(c).msg # Null

\* Whether m is the message of kind type, numbered n, that client c waits for.
Expected(c, m, type, n) == cl[c].inStep /\ m.recv = selfID(c) /\ m.type = type /\ m.seg = n

---------------------------------------------------------------------------
(* establish_channel and ready_channel.                                    *)

Connect(c) ==
    /\ Is(c, "connect") /\ server = "up"
    /\ backlog' = Append(backlog, c)
    /\ Become(c, [cl[c] EXCEPT !.pc = "syn"])
    /\ UNCHANGED <<sc, server, toServer, toClient, gone, shut, altered, upset>>

Syn(c) ==
    /\ Is(c, "syn")
    /\ client_send(c, form_msg(selfID(c), 0, "CONTROL", "SYN", MAX_SIZE, sc.file), [cl[c] EXCEPT !.pc = "ack"])

\* A damaged answer: the request is repeated.
SynAgain(c) ==
    /\ Is(c, "again")
    /\ client_send(c, form_msg(selfID(c), 0, "CONTROL", "RTS", MAX_SIZE, sc.file), [cl[c] EXCEPT !.pc = "ack"])

\* The number of segments is read from the request, which was freed: it is
\* the answer's when that took its place in memory, or what was there.
TotalSegments(m) == IF m.send = 0 THEN {0} ELSE IF sc.reuse THEN {m.seg, MAX_SIZE} ELSE {m.seg}

Ack(c) ==
    /\ Is(c, "ack") /\ CanTake(c)
    /\ \/ Crashes(c)
       \/ /\ Taken(c) /\ ~Read(c).msg.intact
          /\ Takes(c, [cl[c] EXCEPT !.pc = "again"]) /\ UNCHANGED upset
       \/ LET m == Read(c).msg
          IN  /\ Taken(c) /\ m.intact
              /\ \E n \in TotalSegments(m) :
                   /\ Takes(c, [cl[c] EXCEPT !.pc = "ready", !.other = m.send, !.count = n,
                                             !.inStep = Expected(c, m, "ACK", n)])
                   /\ upset' = IF n = 0 \/ n # m.seg THEN upset \cup {c} ELSE upset

\* Then gather_file starts, which returns at once without segments.
Ready(c) ==
    /\ Is(c, "ready")
    /\ client_send(c, form_msg(selfID(c), cl[c].other, "CONTROL", "SYN", MAX_SIZE, sc.file),
                   IF cl[c].count = 0 THEN [cl[c] EXCEPT !.pc = "fin", !.result = "not found"]
                   ELSE [cl[c] EXCEPT !.pc = "gather", !.got = 0, !.missing = {}, !.missed = {},
                                      !.out = << >>, !.pos = 0, !.result = "none"])

---------------------------------------------------------------------------
(* gather_file.                                                            *)

\* fwrite of bytes at position pos; a gap reads as zeros.
fwrite(out, pos, bytes) ==
    IF bytes = << >> THEN out
    ELSE [k \in 1 .. Max({Len(out), pos + Len(bytes)}) |->
            IF k \in pos + 1 .. pos + Len(bytes) THEN bytes[k - pos]
            ELSE IF k <= Len(out) THEN out[k] ELSE 0]

\* fseek to (int32)offset: a negative one fails and leaves the position.
fseek(pos, offset) == IF offset % (2 * Signed) < Signed THEN offset % (2 * Signed) ELSE pos

\* NULL in gather_file: the download is given up.
GivesUp(c) ==
    /\ Read(c).msg = Null
    /\ Takes(c, [cl[c] EXCEPT !.pc = "fin", !.result = "gave up"]) /\ UNCHANGED upset

\* What is left to do when the segments have been read, or one was repeated.
Onward(s) == IF s.missing = {} THEN [s EXCEPT !.pc = "fin", !.result = "written"] ELSE [s EXCEPT !.pc = "rts"]

\* Faulty variant: the empty segment behind the last one is not read.
GatheredShort(s) == IF s.got < s.count THEN [s EXCEPT !.pc = "gather"] ELSE Onward(s)
Gathered(s) == IF s.got <= s.count THEN [s EXCEPT !.pc = "gather"] ELSE Onward(s)

\* numfilepcks + 1 messages are read; damaged ones leave no gap in the file.
Gather(c) ==
    /\ Is(c, "gather") /\ CanTake(c)
    /\ \/ GivesUp(c)
       \/ LET m == Read(c).msg
              n == cl[c].got + 1
              s == [cl[c] EXCEPT !.got = n, !.inStep = Expected(c, m, "SYN", n)]
          IN  /\ Taken(c) /\ UNCHANGED upset
              /\ Takes(c, Gathered(
                   IF m.intact
                   THEN [s EXCEPT !.out = fwrite(@, s.pos, m.content), !.pos = @ + Len(m.content)]
                   ELSE [s EXCEPT !.missing = @ \cup {n}, !.missed = @ \cup {n}]))

Rts(c) ==
    /\ Is(c, "rts")
    /\ client_send(c, form_msg(selfID(c), cl[c].other, "CONTROL", "RTS", Min(cl[c].missing), << >>),
                   [cl[c] EXCEPT !.pc = "answer"])

\* A verified message is taken for the lowest missing segment; the last
\* segment is not written.
Repaired(s, low, m) ==
    LET at == fseek(s.pos, (low - 1) * MAX_SIZE)
    IN  IF low < s.count
        THEN [s EXCEPT !.missing = @ \ {low}, !.out = fwrite(@, at, m.content), !.pos = at + Len(m.content)]
        ELSE [s EXCEPT !.missing = @ \ {low}]

AnswerRead(c) ==
    /\ Is(c, "answer") /\ CanTake(c)
    /\ \/ GivesUp(c)
       \/ LET m == Read(c).msg
              low == Min(cl[c].missing)
              s == [cl[c] EXCEPT !.inStep = Expected(c, m, "SYN", low)]
          IN  /\ Taken(c) /\ UNCHANGED upset
              /\ Takes(c, Onward(IF m.intact THEN Repaired(s, low, m) ELSE s))

---------------------------------------------------------------------------
(* cease_channel and cease_connection.                                     *)

Cease(c) ==
    /\ Is(c, "fin")
    /\ client_send(c, form_msg(selfID(c), cl[c].other, "CONTROL", "FIN", 0, << >>), [cl[c] EXCEPT !.pc = "finack"])

\* Whatever arrives is the answer; the next download or the end follows.
FinAck(c) ==
    /\ Is(c, "finack") /\ CanTake(c)
    /\ \/ Crashes(c)
       \/ LET s == [cl[c] EXCEPT !.inStep = Expected(c, Read(c).msg, "FIN", 0), !.other = 0]
          IN  /\ Taken(c) /\ UNCHANGED upset
              /\ Takes(c, IF s.cycle < sc.downloads THEN [s EXCEPT !.pc = "syn", !.cycle = @ + 1]
                          ELSE [s EXCEPT !.pc = "bye"])

Bye(c) ==
    /\ Is(c, "bye")
    /\ client_send(c, form_msg(0, 0, "CONTROL", "FIN", 0, << >>), [cl[c] EXCEPT !.pc = "close"])

Close(c) ==
    /\ Is(c, "close") /\ Exits(c, "done")
    /\ UNCHANGED <<sc, server, toServer, shut, backlog, altered, upset>>

ClientStep(c) ==
    \/ Connect(c) \/ Syn(c) \/ SynAgain(c) \/ Ack(c) \/ Ready(c) \/ Gather(c) \/ Rts(c) \/ AnswerRead(c)
    \/ Cease(c) \/ FinAck(c) \/ Bye(c) \/ Close(c)

\* The process is killed, or its machine fails, while it is connected.
ClientKilled(c) ==
    /\ sc.failures /\ c \in sc.frail /\ cl[c].pc \notin {"connect", "done", "crashed"}
    /\ Exits(c, "crashed")
    /\ UNCHANGED <<sc, server, toServer, shut, backlog, altered, upset>>
=============================================================================
