-------------------------- MODULE SegmentTransfer --------------------------
(***************************************************************************)
(* The segment server and its clients together.  A scenario says which     *)
(* clients take part, how many downloads each makes, of which file, from   *)
(* which directory, how many channels the server allows, which recv_msg is *)
(* linked, how many messages may be damaged, whether a client may be       *)
(* killed or accept fail, and whether freed memory may keep its content.   *)
(***************************************************************************)
EXTENDS SegmentServer, SegmentClient

CONSTANT MaxChannels \* channels a behaviour may create, at most one per download

ASSUME TransferAssumption ==
    /\ MaxChannels \in Nat /\ Wrap = 2 * Signed
    /\ \A s \in Scenarios : /\ s.slots \in Nat
                          /\ open_dir_handle(s.dir) \in Seq([name : Seq(STRING), d_type : Nat, bytes : Seq(Nat)])

vars == <<net, arrays, serverVars, cl>>

Init == NetInit /\ ServerInit /\ ClientInit

ServerMain == MainStep /\ UNCHANGED cl
ServerThread(id) == ThreadStep(id) /\ UNCHANGED cl
Client(c) == ClientStep(c) /\ UNCHANGED <<arrays, serverVars>>

Disturb ==
    \/ AcceptFails /\ UNCHANGED cl
    \/ \E c \in Clients : Alter(c) /\ UNCHANGED <<arrays, serverVars, cl>>
    \/ \E c \in Clients : /\ Unframe(c) /\ cl' = [cl EXCEPT ![c].inStep = FALSE]
                         /\ UNCHANGED <<arrays, serverVars>>
    \/ \E c \in Clients : ClientKilled(c) /\ UNCHANGED <<arrays, serverVars>>

Next ==
    \/ ServerMain
    \/ \E id \in 1 .. MaxChannels : ServerThread(id)
    \/ \E c \in Clients : Client(c)
    \/ Disturb

Fairness ==
    /\ WF_vars(ServerMain)
    /\ \A id \in 1 .. MaxChannels : WF_vars(ServerThread(id))
    /\ \A c \in Clients : WF_vars(Client(c))

Spec == Init /\ [][Next]_vars /\ Fairness

---------------------------------------------------------------------------
Served == handles[file_handle_for_file(handles, sc.file)].bytes
Ended(c) == cl[c].pc \in {"done", "crashed"}

\* A download that is reported as written is the served file, byte for byte, if
\* the client was in step and none but the empty last segment was damaged
\* (client.c:50-101, server_help.c:70-81).  Offsets must fit 32 bits.
WrittenIsServed ==
    \A c \in Clients :
        /\ cl[c].result = "written" /\ cl[c].inStep /\ cl[c].missed \subseteq {cl[c].count + 1}
        /\ Len(Served) <= Wrap
        => cl[c].out = Served

\* Messages carry no number the client looks at, yet every message it takes is
\* the one it waits for, through damaged segments and repeated requests.  It
\* loses step only if it was refused or served an empty file, if it read a wrong
\* count from freed memory, if other messages of its own were damaged, or if
\* damage joined or split messages, which the client cannot notice by counting.
AnswersInOrder == \A c \in Clients \ upset : cl[c].inStep

\* The hand-over of a request through chan->value and chan->data, which has no
\* lock (server.c:238-239, server_help.c:53-56): while the client is in step no
\* request replaces one that the thread has not finished with, and the thread
\* never touches a request that was freed.
RelaySafe ==
    \A id \in DOMAIN ch :
        cl[ch[id].conn].inStep =>
            /\ ~ch[id].clobbered
            /\ ch[id].pc \in {"relay", "free"} => ch[id].value.live

\* The server process dies only of a failed accept; of a second free, when a
\* channel ends whose requests were all answered, or after a client lost step;
\* or of SIGPIPE, when a client crashed or was upset.
ServerSurvives ==
    \/ server \in {"up", "accept"}
    \/ /\ server = "abort"
       /\ \/ \E id \in DOMAIN ch : ch[id].pc = "exit" /\ ch[id].used /\ ch[id].again = {}
          \/ \E c \in Clients : ~cl[c].inStep
    \/ /\ server = "sigpipe"
       /\ \E c \in Clients : cl[c].pc = "crashed" \/ c \in upset

Running == {id \in DOMAIN ch : ch[id].pc # "exited"}
Held == UNION {ToSet(chans[c]) : c \in ToSet(conns)}

\* Between two calls of end_channel the threads that run are those of the arrays
\* of open connections, totalChannels counts them, and they keep to the limit
\* (server.c:184-200, conn_chan.c:34-58, 144-168): no slot leaks with a connection.
\* Arrays are allocated an entry short when they grow (conn_chan.c:20, 124), and
\* that shortfall does not add up.
ThreadsAccounted ==
    /\ main.pc # "join" => Running = Held /\ totalChannels = Cardinality(Running)
    /\ totalChannels <= sc.slots
    /\ \A c \in Clients \ ToSet(conns) : chans[c] = << >>
    /\ Len(conns) <= room + 1 /\ \A c \in Clients : Len(chans[c]) <= chanRoom[c] + 1

\* The server lives, no failed write holds send_mutex, and the select loop does
\* not wait inside recv_msg.
Unhindered ==
    /\ server = "up" /\ sendMutex # Orphaned
    /\ main.pc = "recv" => CanRecv(toServer[conn], gone[conn], recvMutex)

\* A connected client gets through all its downloads, whatever is damaged, lost
\* or killed elsewhere, unless the server is hindered or the client itself was
\* upset: no wait for the socket, the mutexes or a join is for ever.
DownloadsEnd == \A c \in Clients :
    (cl[c].pc = "syn") ~> (Ended(c) \/ ~Unhindered \/ c \in upset)

\* A connection whose client has gone is ended, and its channels with it, unless
\* the server is hindered (server.c:147-157), although the loop skips the entry
\* behind one that it removes.
SlotsReturned == \A c \in Clients :
    (gone[c] # "no") ~> (c \notin ToSet(conns) \/ ~Unhindered)
=============================================================================
