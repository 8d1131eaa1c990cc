----------------------------- MODULE SegmentNet -----------------------------
(***************************************************************************)
(* What the segment server and its clients share: messages, the TCP        *)
(* connections that carry them, and the ways justin-snapshot/src/          *)
(* socket_msg_help.c and socket_help.c read and write them.                *)
(*                                                                         *)
(* recv_msg is the "stub" that is linked, or the "plain" one the drivers   *)
(* are written for, which hands every message to its caller to verify.     *)
(* The revision sketched in recv_msg.c is left out: it does not compile,   *)
(* and it would refuse every frame, since it counts the delimiter          *)
(* (recv_msg.c:41-54) and cobs_verify admits none (cobs.c:147).            *)
(***************************************************************************)
EXTENDS Integers, Sequences, SequencesExt, FiniteSets, FiniteSetsExt

CONSTANTS
    Clients,         \* the client processes, as numbers from 1 on
    Scenarios,       \* circumstances a behaviour may start from
    SockBuf,         \* messages a socket buffers in one direction
    Stray            \* a number that damage or freed memory may show

ASSUME NetAssumption ==
    /\ Clients \subseteq Nat \ {0}
    /\ SockBuf \in Nat \ {0} /\ Stray \in Nat \ {0}

VARIABLES
    sc,              \* the scenario: see SegmentTransfer
    server,          \* "up", or what the server process died of
    toServer,        \* per client, messages under way to the server
    toClient,        \* per client, messages under way to the client
    gone,            \* per client, whether it has closed its end: "no", "eof", "reset"
    shut,            \* per client, whether the server has closed its end
    backlog,         \* connections not yet accepted
    altered,         \* messages damaged so far
    upset            \* history: clients whose exchange was disturbed, see Alter, Unframe

net == <<sc, server, toServer, toClient, gone, shut, backlog, altered, upset>>

NetInit ==
    /\ sc \in Scenarios
    /\ server = "up" /\ backlog = << >> /\ altered = 0 /\ upset = {}
    /\ toServer = [c \in Clients |-> << >>] /\ toClient = [c \in Clients |-> << >>]
    /\ gone = [c \in Clients |-> "no"] /\ shut = [c \in Clients |-> "no"]

\* intact is what verify_msg finds out.  chan is "PART" for what is left of a
\* message whose frame was altered, and "OPEN" as long as it has no delimiter.
form_msg(sID, rID, chant, datat, snum, content) ==
    [send |-> sID, recv |-> rID, chan |-> chant, type |-> datat,
     seg |-> snum, content |-> content, intact |-> TRUE]

Null == [msg |-> "NULL"]
Torn(q) == q # << >> /\ Head(q).chan = "OPEN"

---------------------------------------------------------------------------
(* Reading from q, whose other end is in state end: up to a delimiter, for *)
(* which recv_msg waits.  readn returns at the end of the stream, and on   *)
(* an error, with recv_mutex locked.                                       *)

Framed(q) == q # << >> /\ ~Torn(q)

CanRecv(q, end, locked) == sc.receiver = "stub" \/ (~locked /\ (Framed(q) \/ end # "no"))

recv_msg(q, end) ==
    IF sc.receiver = "stub" THEN [msg |-> Null, rest |-> q, locked |-> FALSE]
    ELSE IF Framed(q)
         THEN [msg |-> Head(q), rest |-> Tail(q), locked |-> FALSE]
         ELSE [msg |-> Null, rest |-> << >>, locked |-> TRUE]

---------------------------------------------------------------------------
(* Writing to q, whose other end is in state end.                          *)

\* write accepts everything: there is room, or the other end was closed and
\* answers with a reset.
Accepts(q, end) == end = "eof" \/ (end = "no" /\ Len(q) < SockBuf)

\* Behind a message without a delimiter, m becomes part of it.
Sent(q, end, m) ==
    IF end # "no" THEN q
    ELSE IF Torn(q) THEN [q EXCEPT ![1].chan = "PART"] ELSE Append(q, m)

EndAfter(end) == IF end = "eof" THEN "reset" ELSE end

\* How the kernel ends a connection that was closed with q unread.
Closed(q) == IF q = << >> THEN "eof" ELSE "reset"

\* The server's end as a client sees it.
ServerEnd(c) == IF server = "up" THEN shut[c] ELSE "reset"

\* One message is damaged on the way, within its frame, so that verify_msg
\* fails; in a header this may show as another receiver.  A damaged data message
\* of a client is what retransmission is for; any other damage upsets it.
Alter(c) ==
    /\ c \in sc.frail /\ altered < sc.damage /\ altered' = altered + 1
    /\ \/ /\ toServer[c] # << >> /\ Head(toServer[c]).intact
          /\ \E r \in {Head(toServer[c]).recv, Stray} :
               toServer' = [toServer EXCEPT ![c][1].intact = FALSE, ![c][1].recv = r]
          /\ upset' = upset \cup {c}
          /\ UNCHANGED toClient
       \/ /\ toClient[c] # << >> /\ Head(toClient[c]).intact
          /\ toClient' = [toClient EXCEPT ![c][1].intact = FALSE]
          /\ upset' = IF Head(toClient[c]).chan = "DATA" THEN upset ELSE upset \cup {c}
          /\ UNCHANGED toServer
    /\ UNCHANGED <<sc, server, gone, shut, backlog>>

\* What q can be after a byte of its first message was altered to a delimiter,
\* which splits it, or its delimiter to another byte, which joins it with what
\* comes next.  The parts do not verify and may show r as their receiver.
Unframed(q, r) ==
    LET part == [Head(q) EXCEPT !.intact = FALSE, !.chan = "PART", !.recv = r]
    IN  {<<part, part>> \o Tail(q),
         IF Len(q) > 1 THEN <<part>> \o Tail(Tail(q)) ELSE <<[part EXCEPT !.chan = "OPEN"]>>}

\* The stream of client c, or of the server to it, is altered in this way: the
\* number of messages is no longer the number that were sent.
Unframe(c) ==
    /\ sc.frames /\ c \in sc.frail /\ altered < sc.damage /\ altered' = altered + 1
    /\ \/ /\ toServer[c] # << >> /\ Head(toServer[c]).intact
          /\ \E r \in {Head(toServer[c]).recv, Stray} :
               \E q \in Unframed(toServer[c], r) : toServer' = [toServer EXCEPT ![c] = q]
          /\ UNCHANGED toClient
       \/ /\ toClient[c] # << >> /\ Head(toClient[c]).intact
          /\ \E q \in Unframed(toClient[c], Head(toClient[c]).recv) :
               toClient' = [toClient EXCEPT ![c] = q]
          /\ UNCHANGED toServer
    /\ upset' = upset \cup {c}
    /\ UNCHANGED <<sc, server, gone, shut, backlog>>
=============================================================================
