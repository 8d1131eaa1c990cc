------------------------------ MODULE ConnChan ------------------------------
(***************************************************************************)
(* The connections of a segment server and the channels of each            *)
(* (justin-snapshot/src/conn_chan.c): arrays of pointers that are copied   *)
(* whenever an element is added or removed.  A connection is named by its  *)
(* client, a channel by its selfID.                                        *)
(***************************************************************************)
EXTENDS SegmentNet

VARIABLES
    conns,           \* the array of connections
    room,            \* entries it was allocated with
    chans,           \* per connection, its array of channels
    chanRoom,        \* entries that was allocated with
    totalChannels

arrays == <<conns, room, chans, chanRoom, totalChannels>>

ArraysInit ==
    /\ conns = << >> /\ room = 0
    /\ chans = [c \in Clients |-> << >>] /\ chanRoom = [c \in Clients |-> 0]
    /\ totalChannels = 0

\* The entries allocated for n elements when the n-th is added.
Grown(n) == IF n = 1 THEN 1 ELSE n - 1

new_connection(c) ==
    /\ conns' = Append(conns, c)
    /\ room' = Grown(Len(conns) + 1)
    /\ UNCHANGED <<chans, chanRoom, totalChannels>>

\* The end of end_connection, when all channels are gone.
RemoveConnection(index) ==
    /\ conns' = RemoveAt(conns, index)
    /\ room' = Len(conns) - 1
    /\ UNCHANGED <<chans, chanRoom, totalChannels>>

new_channel(c, id) ==
    /\ totalChannels' = totalChannels + 1
    /\ chans' = [chans EXCEPT ![c] = Append(@, id)]
    /\ chanRoom' = [chanRoom EXCEPT ![c] = Grown(Len(chans[c]) + 1)]
    /\ UNCHANGED <<conns, room>>

\* The start of end_channel, before the thread is joined.
UncountChannel ==
    /\ totalChannels' = totalChannels - 1
    /\ UNCHANGED <<conns, room, chans, chanRoom>>

\* The end of end_channel, after its thread was joined.
RemoveChannel(c, id) ==
    /\ chans' = [chans EXCEPT ![c] = RemoveFirst(@, id)]
    /\ chanRoom' = [chanRoom EXCEPT ![c] = Len(chans[c]) - 1]
    /\ UNCHANGED <<conns, room, totalChannels>>

\* The channel of that selfID, or else the first one of that otherID; 0 for none.
find_existing_channel(c, sendID, recvID, otherID) ==
    LET first == SelectInSeq(chans[c], LAMBDA k : otherID[k] = sendID)
    IN  IF recvID \in ToSet(chans[c]) THEN recvID
        ELSE IF first # 0 THEN chans[c][first] ELSE 0
=============================================================================
