--------------------------- MODULE SegmentServer ---------------------------
(***************************************************************************)
(* The segment server: the select loop of justin-snapshot/drv/server.c and *)
(* the channel threads of server_help.c.  They share each channel's flags  *)
(* without a lock, and send_mutex.  A channel's selfID is its index in ch, *)
(* which keeps the channels that have ended.  What a thread has left to    *)
(* send again is a set, which is what a section implements (NumberSet).    *)
(***************************************************************************)
EXTENDS ConnChan, FileHandle

VARIABLES
    main,            \* the select loop: pc, readfds, i, the answer to send, the channel it is at
    ch,              \* the channels, with the state of their threads
    sendMutex,       \* who holds it: Free, Main, a channel, or Orphaned by a failed write
    recvMutex        \* TRUE: left locked by readn

serverVars == <<main, ch, sendMutex, recvMutex>>

Main == 0
Free == -1
Orphaned == -2

ServerInit ==
    /\ ArraysInit
    /\ main = [pc |-> "select", fds |-> {}, i |-> 1, answer |-> Null, at |-> 0]
    /\ ch = << >> /\ sendMutex = Free /\ recvMutex = FALSE

handles == open_dir_handle(sc.dir)
Bytes(id) == handles[ch[id].handle].bytes
Dies(cause) == server' = cause /\ UNCHANGED <<sc, toServer, toClient, gone, shut, backlog, altered, upset,
                                              arrays, serverVars>>

---------------------------------------------------------------------------
(* send_msg by w, the select loop or a thread, to client c; main2 and ch2  *)
(* are the state after it returned.  It keeps send_mutex while it waits    *)
(* for room, and for ever after an error.                                  *)

Write(w, c, m, main2, ch2) ==
    /\ sendMutex \in {Free, w} /\ Accepts(toClient[c], gone[c])
    /\ toClient' = [toClient EXCEPT ![c] = Sent(@, gone[c], m)]
    /\ gone' = [gone EXCEPT ![c] = EndAfter(@)]
    /\ sendMutex' = Free /\ main' = main2 /\ ch' = ch2
    /\ UNCHANGED <<sc, server, toServer, shut, backlog, altered, upset, arrays, recvMutex>>

WriteWaits(w, c) ==
    /\ sendMutex = Free /\ gone[c] = "no" /\ Len(toClient[c]) >= SockBuf
    /\ sendMutex' = w
    /\ UNCHANGED <<net, arrays, main, ch, recvMutex>>

WriteFails(w, c, main2, ch2) ==
    /\ sendMutex \in {Free, w} /\ gone[c] = "reset"
    /\ sendMutex' = Orphaned /\ main' = main2 /\ ch' = ch2
    /\ UNCHANGED <<net, arrays, recvMutex>>

\* SIGPIPE is not handled.
WriteKills(w, c) == sendMutex \in {Free, w} /\ gone[c] = "reset" /\ Dies("sigpipe")

send_msg(w, c, m, main2, ch2) ==
    \/ Write(w, c, m, main2, ch2)
    \/ WriteWaits(w, c)
    \/ WriteFails(w, c, main2, ch2)
    \/ WriteKills(w, c)

---------------------------------------------------------------------------
(* The select loop.                                                        *)

At(pc) == server = "up" /\ main.pc = pc
conn == conns[main.i]

\* The loop over the connections from entry i on: at the next one that was
\* readable, or back at select.
Loop(fds, i, entries) ==
    LET ready == {j \in i .. Len(entries) : entries[j] \in fds}
    IN  IF ready = {} THEN [pc |-> "select", fds |-> {}, i |-> 1, answer |-> Null, at |-> 0]
        ELSE [pc |-> "recv", fds |-> fds, i |-> Min(ready), answer |-> Null, at |-> 0]

NextEntry == Loop(main.fds, main.i + 1, conns)

\* Faulty variant: the end of a connection does not wake select.
ReadableBytes(c) == toServer[c] # << >>

Readable(c) == toServer[c] # << >> \/ gone[c] # "no"

\* The descriptors are those of the connections known before accept.
Select ==
    /\ At("select")
    /\ LET fds == {c \in ToSet(conns) : Readable(c)}
       IN  /\ fds # {} \/ backlog # << >>
           /\ main' = Loop(fds, 1, conns)
    /\ IF backlog = << >> THEN UNCHANGED <<arrays, backlog>>
       ELSE new_connection(Head(backlog)) /\ backlog' = Tail(backlog)
    /\ UNCHANGED <<sc, server, toServer, toClient, gone, shut, altered, upset, ch, sendMutex, recvMutex>>

AcceptFails == At("select") /\ sc.failures /\ backlog # << >> /\ Dies("accept")

Answer(m) == main' = [main EXCEPT !.pc = "send", !.answer = m]
Control(m, type) == form_msg(m.recv, m.send, "CONTROL", type, 0, << >>)
Fin(m, content) == form_msg(0, m.send, "CONTROL", "FIN", 0, content)

otherID == [id \in DOMAIN ch |-> ch[id].other]
Found(m, recvID) == find_existing_channel(conn, m.send, recvID, otherID)
Controls(m, types) == m.chan = "CONTROL" /\ m.type \in types
Disconnects(m) == Controls(m, {"FIN"}) /\ m.send = 0 /\ m.recv = 0
Opens(m) == Controls(m, {"SYN", "RTS"}) /\ m.send > 0 /\ m.recv = 0
Finishes(m) == Controls(m, {"FIN"}) /\ ~Disconnects(m)
Readies(m) == Controls(m, {"SYN"}) /\ m.recv > 0 /\ Found(m, m.recv) # 0
Asks(m) == Controls(m, {"RTS"}) /\ m.recv > 0 /\ Found(m, m.recv) # 0

\* The channel of a request, opened unless the client has it already.
NewChannel(m, handle) ==
    [conn |-> conn, other |-> m.send, maxSize |-> m.seg, handle |-> handle,
     ready |-> FALSE, kill |-> FALSE, data |-> FALSE, value |-> [seg |-> 0, live |-> FALSE],
     pc |-> "wait", next |-> 1, finished |-> FALSE, again |-> {}, used |-> FALSE, clobbered |-> FALSE]

Acknowledged(m, id, handle, size) ==
    form_msg(id, m.send, "CONTROL", "ACK",
             num_segments_in_file_handle(handles[handle].bytes, size), << >>)

\* A request to open a channel.  The limit is checked first, also for a
\* channel that is open already.
Open(m) ==
    LET handle == file_handle_for_file(handles, m.content)
        id == Found(m, 0)
    IN  CASE handle = 0 -> Answer(Fin(m, << >>)) /\ UNCHANGED <<arrays, ch>>
          [] handle # 0 /\ totalChannels >= sc.slots -> Answer(Fin(m, m.content)) /\ UNCHANGED <<arrays, ch>>
          [] handle # 0 /\ totalChannels < sc.slots /\ id # 0 ->
               /\ Answer(Acknowledged(m, id, ch[id].handle, ch[id].maxSize))
               /\ UNCHANGED <<arrays, ch>>
          [] handle # 0 /\ totalChannels < sc.slots /\ id = 0 ->
               /\ new_channel(conn, Len(ch) + 1)
               /\ ch' = Append(ch, NewChannel(m, handle))
               /\ Answer(Acknowledged(m, Len(ch) + 1, handle, m.seg))

\* Faulty variant: the channel is not taken off the total.
EndChannelUncounted(id, answer) ==
    /\ UNCHANGED arrays
    /\ ch' = [ch EXCEPT ![id].kill = TRUE]
    /\ main' = [main EXCEPT !.pc = "join", !.at = id, !.answer = answer]

\* end_channel up to the join; afterwards main sends the answer or, without
\* one, goes on with end_connection.
EndChannel(id, answer) ==
    /\ UncountChannel
    /\ ch' = [ch EXCEPT ![id].kill = TRUE]
    /\ main' = [main EXCEPT !.pc = "join", !.at = id, !.answer = answer]

\* A message m of the connection is dispatched.
Handle(m) ==
    \/ /\ m = Null \/ (m # Null /\ m.intact /\ Disconnects(m))
       /\ main' = [main EXCEPT !.pc = "endconn"] /\ UNCHANGED <<arrays, ch>>
    \/ /\ m # Null
       /\ \/ ~m.intact /\ Answer(Control(m, "RTS")) /\ UNCHANGED <<arrays, ch>>
          \/ m.intact /\ Opens(m) /\ Open(m)
          \/ /\ m.intact /\ Finishes(m)
             /\ IF Found(m, m.recv) # 0 THEN EndChannel(Found(m, m.recv), Fin(m, << >>))
                ELSE Answer(Fin(m, << >>)) /\ UNCHANGED <<arrays, ch>>
          \/ /\ m.intact /\ Readies(m)
             /\ ch' = [ch EXCEPT ![Found(m, m.recv)].ready = TRUE]
             /\ main' = NextEntry /\ UNCHANGED arrays
          \/ /\ m.intact /\ Asks(m)
             /\ ch' = [ch EXCEPT ![Found(m, m.recv)].value = [seg |-> m.seg, live |-> TRUE],
                                 ![Found(m, m.recv)].clobbered = @ \/ ch[Found(m, m.recv)].data]
             /\ main' = [main EXCEPT !.pc = "flag", !.at = Found(m, m.recv)]
             /\ UNCHANGED arrays
          \/ /\ m.intact /\ ~(Disconnects(m) \/ Opens(m) \/ Finishes(m) \/ Readies(m) \/ Asks(m))
             /\ Answer(Control(m, "NACK")) /\ UNCHANGED <<arrays, ch>>

Receive ==
    /\ At("recv") /\ CanRecv(toServer[conn], gone[conn], recvMutex)
    /\ LET r == recv_msg(toServer[conn], gone[conn])
       IN  /\ toServer' = [toServer EXCEPT ![conn] = r.rest]
           /\ recvMutex' = r.locked
           /\ Handle(r.msg)
    /\ UNCHANGED <<sc, server, toClient, gone, shut, backlog, altered, upset, sendMutex>>

\* chan->data = true, the second store of a relayed request.
Flag ==
    /\ At("flag")
    /\ ch' = [ch EXCEPT ![main.at].data = TRUE]
    /\ main' = NextEntry
    /\ UNCHANGED <<net, arrays, sendMutex, recvMutex>>

Reply == At("send") /\ send_msg(Main, conn, main.answer, NextEntry, ch)

\* The rest of end_channel, once the thread has ended.
Join ==
    /\ At("join") /\ ch[main.at].pc = "exited"
    /\ RemoveChannel(conn, main.at)
    /\ main' = [main EXCEPT !.pc = IF main.answer = Null THEN "endconn" ELSE "send", !.at = 0]
    /\ UNCHANGED <<net, ch, sendMutex, recvMutex>>

\* end_connection: its channels in turn, then the connection itself.  The
\* loop goes on behind it although the array has become shorter.
EndConnection ==
    /\ At("endconn")
    /\ IF chans[conn] # << >>
       THEN EndChannel(Head(chans[conn]), Null) /\ UNCHANGED shut
       ELSE /\ RemoveConnection(main.i) /\ UNCHANGED ch
            /\ main' = Loop(main.fds, main.i + 1, RemoveAt(conns, main.i))
            /\ shut' = [shut EXCEPT ![conn] = Closed(toServer[conn])]
    /\ UNCHANGED <<sc, server, toServer, toClient, gone, backlog, altered, upset, sendMutex, recvMutex>>

MainStep == Select \/ Receive \/ Flag \/ Reply \/ Join \/ EndConnection

---------------------------------------------------------------------------
(* A channel thread, fork_server_channel.                                  *)

InThread(id, pc) == server = "up" /\ id \in DOMAIN ch /\ ch[id].pc = pc
Thread(id, next) == ch' = [ch EXCEPT ![id] = next] /\ UNCHANGED <<net, arrays, main, sendMutex, recvMutex>>

\* Memory was freed twice: the allocator notices and aborts, or not.
FreedTwice(id, next) == Thread(id, next) \/ Dies("abort")

\* The flags are read, the first time once ready or kill is set.  Passes
\* without anything to do are left out.
Top(id) ==
    /\ InThread(id, "top") \/ (InThread(id, "wait") /\ (ch[id].ready \/ ch[id].kill))
    /\ ch[id].kill \/ ch[id].data \/ ~ch[id].finished \/ ch[id].again # {}
    /\ Thread(id, [ch[id] EXCEPT !.pc = IF ch[id].kill THEN "exit" ELSE IF ch[id].data THEN "relay" ELSE "work"])

\* The requested number is read through chan->value, which main may have
\* replaced, or which may be free already.
Relay(id) ==
    /\ InThread(id, "relay")
    /\ \E n \in {ch[id].value.seg} \cup (IF ch[id].value.live THEN {} ELSE {Stray}) :
         Thread(id, [ch[id] EXCEPT !.again = @ \cup {n}, !.used = TRUE, !.pc = "free"])

FreeValue(id) ==
    /\ InThread(id, "free")
    /\ LET next == [ch[id] EXCEPT !.value.live = FALSE, !.pc = "clear"]
       IN  IF ch[id].value.live THEN Thread(id, next) ELSE FreedTwice(id, next)

\* Faulty variant: the flag is not cleared.
ClearForgotten(id) ==
    /\ InThread(id, "clear")
    /\ Thread(id, [ch[id] EXCEPT !.pc = "work"])

Clear(id) ==
    /\ InThread(id, "clear")
    /\ Thread(id, [ch[id] EXCEPT !.data = FALSE, !.pc = "work"])

Segment(id, n) ==
    form_msg(id, ch[id].other, "DATA", "SYN", n, segment_in_file_handle(Bytes(id), n, ch[id].maxSize))

\* Faulty variant: without the empty segment.
SendNextNoEnd(id) ==
    /\ InThread(id, "work") /\ ~ch[id].finished
    /\ IF ch[id].next <= num_segments_in_file_handle(Bytes(id), ch[id].maxSize)
       THEN send_msg(id, ch[id].conn, Segment(id, ch[id].next), main,
                     [ch EXCEPT ![id].next = @ + 1, ![id].pc = "top"])
       ELSE Thread(id, [ch[id] EXCEPT !.finished = TRUE, !.pc = "top"])

\* All segments in order and an empty one behind them.
SendNext(id) ==
    /\ InThread(id, "work") /\ ~ch[id].finished
    /\ IF ch[id].next <= num_segments_in_file_handle(Bytes(id), ch[id].maxSize) + 1
       THEN send_msg(id, ch[id].conn, Segment(id, ch[id].next), main,
                     [ch EXCEPT ![id].next = @ + 1, ![id].pc = "top"])
       ELSE Thread(id, [ch[id] EXCEPT !.finished = TRUE, !.pc = "top"])

\* Then those asked for, the lowest number first.
SendAgain(id) ==
    /\ InThread(id, "work") /\ ch[id].finished
    /\ send_msg(id, ch[id].conn, Segment(id, Min(ch[id].again)), main,
                [ch EXCEPT ![id].again = @ \ {Min(@)}, ![id].pc = "top"])

\* Faulty variant: the request is freed without looking at the flag.
ExitFreesAlways(id) ==
    /\ InThread(id, "exit")
    /\ LET next == [ch[id] EXCEPT !.pc = "exited", !.value.live = FALSE]
       IN  IF ~ch[id].value.live \/ (ch[id].used /\ ch[id].again = {})
           THEN FreedTwice(id, next) ELSE Thread(id, next)

\* An unread request is freed, and the sections.  A section that was emptied
\* still points to its freed array.
Exit(id) ==
    /\ InThread(id, "exit")
    /\ LET next == [ch[id] EXCEPT !.pc = "exited", !.value.live = @ /\ ~ch[id].data]
       IN  IF (ch[id].data /\ ~ch[id].value.live) \/ (ch[id].used /\ ch[id].again = {})
           THEN FreedTwice(id, next) ELSE Thread(id, next)

ThreadStep(id) ==
    Top(id) \/ Relay(id) \/ FreeValue(id) \/ Clear(id) \/ SendNext(id) \/ SendAgain(id) \/ Exit(id)
=============================================================================
