----------------------- MODULE SegmentTransferProofs -----------------------
(***************************************************************************)
(* Proofs about SegmentTransfer, for any clients, scenarios, buffer sizes  *)
(* and numbers of channels.  The first part is about the arrays of         *)
(* connections and channels, the threads and totalChannels (IInv).  The    *)
(* second is about the exchange between a client and its channel: Shapes   *)
(* says what messages, clients and channels are made of, and PInv where    *)
(* the exchange stands in each state of the client, what is on its way and *)
(* in whose hands it is.  No message carries a number that the client      *)
(* looks at: that it takes the one it waits for follows from PInv alone.   *)
(* The third is about what the messages carry (Content), and so about what *)
(* a client writes.                                                        *)
(***************************************************************************)
EXTENDS SegmentTransfer, WellFoundedInduction, SequenceTheorems, FiniteSetTheorems, TLAPS

\* No element occurs twice.
Distinct(s) == \A i, j \in DOMAIN s : s[i] = s[j] => i = j

\* A sequence, whatever its elements.
IsSeq(s) == s \in Seq(ToSet(s))

\* The fields of the select loop and of a channel that the arrays depend on.
MainFields == {"pc", "fds", "i", "answer", "at"}
MainStates == {"select", "recv", "flag", "send", "join", "endconn"}
ChanFields == {"conn", "pc", "kill"}

\* The waits and steps of main of client.c.
ClientStates == {"connect", "syn", "ack", "again", "ready", "gather", "rts", "answer", "fin", "finack", "bye", "close",
                 "done", "crashed"}

\* What the variables are, as far as the arrays depend on it.
Types ==
    /\ sc \in Scenarios /\ sc.slots \in Nat
    /\ conns \in Seq(Clients) /\ backlog \in Seq(Clients) /\ room \in Nat
    /\ chans \in [Clients -> Seq(Nat)] /\ chanRoom \in [Clients -> Nat]
    /\ totalChannels \in Int
    /\ DOMAIN main = MainFields /\ main.pc \in MainStates
    /\ IsSeq(ch) /\ \A id \in DOMAIN ch : ChanFields \subseteq DOMAIN ch[id] /\ ch[id].conn \in Clients
    /\ DOMAIN cl = Clients /\ \A c \in Clients : "pc" \in DOMAIN cl[c] /\ cl[c].pc \in ClientStates

\* Each client connects once, and its connection is in one place.
Connections ==
    /\ Distinct(conns) /\ Distinct(backlog)
    /\ ToSet(conns) \cap ToSet(backlog) = {}
    /\ \A c \in Clients : cl[c].pc = "connect" => c \notin ToSet(conns) \cup ToSet(backlog)

\* An array is allocated an entry short when it grows, and never shorter than that
\* (conn_chan.c:20, 124).
Rooms == Len(conns) <= room + 1 /\ \A c \in Clients : Len(chans[c]) <= chanRoom[c] + 1

\* The array of a connection holds channels of that connection.
Arrays ==
    /\ \A c \in Clients : Distinct(chans[c])
    /\ \A c \in Clients : \A id \in ToSet(chans[c]) : id \in DOMAIN ch /\ ch[id].conn = c
    /\ \A c \in Clients \ ToSet(conns) : chans[c] = << >>

\* A channel is in the array of its connection.
Listed(id) == id \in ToSet(chans[ch[id].conn])

\* A thread that runs is listed, and chan->kill is set only while end_channel joins it
\* (conn_chan.c:144-148, server_help.c:48-51).
Threads ==
    /\ \A id \in DOMAIN ch : ch[id].pc # "exited" => Listed(id)
    /\ \A id \in DOMAIN ch : ch[id].pc \in {"exit", "exited"} => ch[id].kill
    /\ \A id \in DOMAIN ch : ch[id].kill /\ Listed(id) => main.pc = "join" /\ main.at = id

\* The select loop is at an open connection, and at a channel of it.
AtConnection ==
    /\ main.pc # "select" => main.i \in DOMAIN conns
    /\ main.pc \in {"flag", "join"} => main.at \in ToSet(chans[conn])

\* totalChannels, which end_channel counts down before its pthread_join (conn_chan.c:145-148).
Counted ==
    /\ totalChannels = Cardinality(Held) - (IF main.pc = "join" THEN 1 ELSE 0)
    /\ totalChannels <= sc.slots

\* The invariant of the arrays, the threads and totalChannels.
IInv == Types /\ Connections /\ Rooms /\ Arrays /\ Threads /\ AtConnection /\ Counted

---------------------------------------------------------------------------
(* Sequences.                                                              *)

\* A sequence, appended to.
LEMMA AppendSeq ==
    ASSUME NEW s, IsSeq(s), NEW e
    PROVE  /\ IsSeq(Append(s, e)) /\ DOMAIN Append(s, e) = DOMAIN s \cup {Len(s) + 1}
           /\ Len(s) \in Nat /\ DOMAIN s = 1 .. Len(s) /\ Len(Append(s, e)) = Len(s) + 1
           /\ \A i \in DOMAIN s : Append(s, e)[i] = s[i]
           /\ Append(s, e)[Len(s) + 1] = e
           /\ ToSet(Append(s, e)) = ToSet(s) \cup {e}
  <1> DEFINE S == ToSet(s) \cup {e}
  <1>1. s \in Seq(S) /\ e \in S
    BY DEF IsSeq
  <1>2. /\ Append(s, e) \in Seq(S) /\ Len(s) \in Nat /\ DOMAIN s = 1 .. Len(s)
        /\ DOMAIN Append(s, e) = 1 .. Len(s) + 1 /\ Len(Append(s, e)) = Len(s) + 1
        /\ \A i \in DOMAIN s : Append(s, e)[i] = s[i]
        /\ Append(s, e)[Len(s) + 1] = e
    BY <1>1, AppendProperties
  <1>3. ToSet(Append(s, e)) = S
    <2> HIDE DEF S
    <2>1. \A x : x \in ToSet(Append(s, e)) <=> x \in ToSet(s) \cup {e}
      BY <1>2 DEF ToSet
    <2> QED BY <2>1 DEF S
  <1>4. IsSeq(Append(s, e))
    BY <1>2, <1>3 DEF IsSeq
  <1>5. DOMAIN Append(s, e) = DOMAIN s \cup {Len(s) + 1}
    BY <1>2
  <1> QED BY <1>2, <1>3, <1>4, <1>5

\* Elements of a sequence are known by their positions.
LEMMA SeqIsSeq ==
    ASSUME NEW S, NEW s \in Seq(S)
    PROVE  IsSeq(s) /\ ToSet(s) \subseteq S /\ Len(s) \in Nat /\ DOMAIN s = 1 .. Len(s)
  <1>1. Len(s) \in Nat /\ DOMAIN s = 1 .. Len(s) /\ s \in [1 .. Len(s) -> S]
    OBVIOUS
  <1>2. s \in [1 .. Len(s) -> ToSet(s)]
    BY <1>1 DEF ToSet
  <1>3. s \in Seq(ToSet(s))
    BY <1>1, <1>2, SeqDef
  <1>4. ToSet(s) \subseteq S
    BY <1>1 DEF ToSet
  <1>5. IsSeq(s)
    BY <1>3, Zenon DEF IsSeq
  <1> QED BY <1>1, <1>4, <1>5

\* One element of a sequence is replaced.
LEMMA SameDomain ==
    ASSUME NEW s, IsSeq(s), NEW U, NEW t, t \in [DOMAIN s -> U]
    PROVE  IsSeq(t) /\ Len(t) = Len(s)
  <1>1. Len(s) \in Nat /\ DOMAIN s = 1 .. Len(s)
    BY DEF IsSeq
  <1>2. t \in Seq(U) /\ Len(t) = Len(s)
    BY <1>1
  <1>3. IsSeq(t)
    BY <1>2, SeqIsSeq
  <1> QED BY <1>2, <1>3

\* An entry is taken out of an array whose elements differ.
LEMMA RemoveAtSeq ==
    ASSUME NEW S, NEW s \in Seq(S), Distinct(s), NEW i \in DOMAIN s
    PROVE  /\ RemoveAt(s, i) \in Seq(S) /\ Len(RemoveAt(s, i)) = Len(s) - 1
           /\ Distinct(RemoveAt(s, i)) /\ ToSet(RemoveAt(s, i)) = ToSet(s) \ {s[i]}
           /\ Len(s) \in Nat /\ DOMAIN RemoveAt(s, i) = 1 .. Len(s) - 1
  <1> DEFINE t == RemoveAt(s, i)
             a == SubSeq(s, 1, i - 1)
             b == SubSeq(s, i + 1, Len(s))
  <1>1. Len(s) \in Nat /\ DOMAIN s = 1 .. Len(s) /\ i \in 1 .. Len(s)
    OBVIOUS
  <1>2. /\ a \in Seq(S) /\ Len(a) = i - 1 /\ \A k \in 1 .. i - 1 : a[k] = s[k]
        /\ b \in Seq(S) /\ Len(b) = Len(s) - i /\ \A k \in 1 .. Len(s) - i : b[k] = s[i + k]
    BY SMTT(30), <1>1
  <1>3. t = a \o b
    BY DEF RemoveAt
  <1> HIDE DEF a, b, t
  <1>4. /\ t \in Seq(S) /\ Len(t) = Len(s) - 1 /\ DOMAIN t = 1 .. Len(s) - 1
        /\ \A k \in 1 .. i - 1 : t[k] = s[k]
        /\ \A k \in i .. Len(s) - 1 : t[k] = s[k + 1]
    <2>0. (i - 1) + (Len(s) - i) = Len(s) - 1 /\ Len(s) - 1 \in Nat
      BY <1>1
    <2>1. t \in Seq(S) /\ Len(t) = Len(s) - 1 /\ DOMAIN t = 1 .. Len(s) - 1
      <3>1. t \in Seq(S) /\ Len(t) = Len(a) + Len(b)
        BY <1>2, <1>3, ConcatProperties
      <3>2. Len(t) = Len(s) - 1
        BY <1>1, <1>2, <2>0, <3>1
      <3> QED BY <3>1, <3>2
    <2>2. \A k \in 1 .. Len(t) : t[k] = IF k <= Len(a) THEN a[k] ELSE b[k - Len(a)]
      <3>1. \A k \in 1 .. Len(a) + Len(b) : t[k] = IF k <= Len(a) THEN a[k] ELSE b[k - Len(a)]
        BY <1>2, <1>3, ConcatProperties
      <3> QED BY <1>1, <1>2, <2>0, <2>1, <3>1
    <2>3. \A k \in 1 .. i - 1 : t[k] = s[k]
      BY <1>1, <1>2, <2>1, <2>2
    <2>4. ASSUME NEW k \in i .. Len(s) - 1 PROVE t[k] = s[k + 1]
      <3>0. Len(a) = i - 1 /\ Len(t) = Len(s) - 1 /\ Len(s) \in Nat /\ i \in 1 .. Len(s)
        BY <1>1, <1>2, <2>1
      <3>1. k \in 1 .. Len(t) /\ ~(k <= Len(a)) /\ k - Len(a) \in 1 .. Len(s) - i
            /\ i + (k - Len(a)) = k + 1
        BY ONLY <3>0, k \in i .. Len(s) - 1
      <3> QED BY <1>2, <2>2, <3>1
    <2> QED BY <2>1, <2>3, <2>4
  <1>5. Distinct(t)
    <2> SUFFICES ASSUME NEW k \in DOMAIN t, NEW l \in DOMAIN t, t[k] = t[l] PROVE k = l
      BY DEF Distinct
    <2>1. \A x, y \in 1 .. Len(s) : s[x] = s[y] => x = y
      BY <1>1 DEF Distinct
    <2> QED BY SMTT(30), <1>1, <1>4, <2>1
  <1>6. ToSet(t) \subseteq ToSet(s) \ {s[i]}
    BY SMTT(30), <1>1, <1>4 DEF Distinct, ToSet
  <1>7. ASSUME NEW x \in ToSet(s) \ {s[i]} PROVE x \in ToSet(t)
    <2>1. PICK k \in DOMAIN s : x = s[k] /\ k # i
      BY <1>7 DEF ToSet
    <2>2. CASE k < i
      BY <1>1, <1>4, <2>1, <2>2 DEF ToSet
    <2>3. CASE k > i
      <3>1. k - 1 \in DOMAIN t /\ t[k - 1] = s[k]
        BY <1>1, <1>4, <2>1, <2>3
      <3> QED BY <2>1, <3>1 DEF ToSet
    <2> QED BY <1>1, <2>1, <2>2, <2>3
  <1>8. ToSet(t) = ToSet(s) \ {s[i]}
    BY <1>6, <1>7
  <1> QED BY <1>1, <1>4, <1>5, <1>8 DEF t

\* Every non-empty set of natural numbers has a least element.
LEMMA LeastNat ==
    ASSUME NEW T \in SUBSET Nat, T # {}
    PROVE  \E m \in T : \A k \in T : m <= k
  <1> DEFINE R == OpToRel(<, Nat)
  <1>1. IsWellFoundedOn(R, Nat)
    BY NatLessThanWellFounded
  <1>2. \A x, y \in Nat : <<x, y>> \notin R => ~(x < y)
    BY DEF OpToRel
  <1> HIDE DEF R
  <1>3. PICK m \in T : \A y \in T : <<y, m>> \notin R
    BY <1>1, WFMin
  <1>4. \A y \in T : ~(y < m)
    BY <1>2, <1>3
  <1> QED BY <1>4

\* The smallest of some positions is one of them.
LEMMA MinIn ==
    ASSUME NEW T \in SUBSET Nat, T # {}
    PROVE  Min(T) \in T /\ \A k \in T : Min(T) <= k
  <1>1. \E m \in T : \A k \in T : m <= k
    BY LeastNat
  <1> QED BY <1>1 DEF Min

\* end_channel takes the entry of a channel out of an array.
LEMMA RemoveFirstSeq ==
    ASSUME NEW S, NEW s \in Seq(S), Distinct(s), NEW e \in ToSet(s)
    PROVE  /\ RemoveFirst(s, e) \in Seq(S) /\ Len(RemoveFirst(s, e)) = Len(s) - 1 /\ Len(s) \in Nat
           /\ Distinct(RemoveFirst(s, e)) /\ ToSet(RemoveFirst(s, e)) = ToSet(s) \ {e}
  <1> DEFINE I == {i \in 1 .. Len(s) : s[i] = e}
             k == IF I # {} THEN Min(I) ELSE 0
  <1>1. I \in SUBSET Nat /\ DOMAIN s = 1 .. Len(s) /\ I # {}
    BY DEF ToSet
  <1>2. k \in I
    BY <1>1, MinIn
  <1>3. k \in DOMAIN s /\ s[k] = e
    BY <1>1, <1>2
  <1>4. RemoveFirst(s, e) = RemoveAt(s, k)
    <2>1. RemoveFirst(s, e) = RemoveAt(s, SelectInSeq(s, LAMBDA v : v = e))
      BY <1>1 DEF RemoveFirst
    <2> QED BY <2>1 DEF SelectInSeq
  <1> HIDE DEF k
  <1> QED BY <1>3, <1>4, RemoveAtSeq

---------------------------------------------------------------------------
(* What the steps do to the arrays.                                        *)

\* The loop over the connections stops at one of them or returns to select.
LEMMA LoopIn ==
    ASSUME NEW S, NEW entries \in Seq(S), NEW i \in Nat \ {0}, NEW fds
    PROVE  /\ DOMAIN Loop(fds, i, entries) = MainFields
           /\ Loop(fds, i, entries).pc \in {"select", "recv"}
           /\ Loop(fds, i, entries).pc = "recv" => Loop(fds, i, entries).i \in DOMAIN entries
  <1> DEFINE ready == {j \in i .. Len(entries) : entries[j] \in fds}
  <1>1. ready \in SUBSET Nat /\ Len(entries) \in Nat /\ DOMAIN entries = 1 .. Len(entries)
    OBVIOUS
  <1>2. ready # {} => Min(ready) \in i .. Len(entries)
    BY <1>1, MinIn
  <1> QED BY <1>1, <1>2 DEF Loop, MainFields

\* find_existing_channel returns a channel of the connection, or none.
LEMMA FoundIn ==
    ASSUME Types, NEW c \in Clients, NEW sendID, NEW recvID, NEW other
    PROVE  find_existing_channel(c, sendID, recvID, other) \in {0} \cup ToSet(chans[c])
  <1> DEFINE s == chans[c]
             I == {i \in 1 .. Len(s) : other[s[i]] = sendID}
             k == IF I # {} THEN Min(I) ELSE 0
  <1>1. s \in Seq(Nat) /\ DOMAIN s = 1 .. Len(s) /\ I \in SUBSET Nat
    BY DEF Types
  <1>2. k = 0 \/ k \in DOMAIN s
    BY <1>1, MinIn
  <1>3. k # 0 => s[k] \in ToSet(s)
    BY <1>2 DEF ToSet
  <1>4. SelectInSeq(chans[c], LAMBDA v : other[v] = sendID) = k
    BY DEF SelectInSeq
  <1>5. find_existing_channel(c, sendID, recvID, other)
          = IF recvID \in ToSet(s) THEN recvID ELSE IF k # 0 THEN s[k] ELSE 0
    BY <1>4 DEF find_existing_channel
  <1> HIDE DEF k, s
  <1>6. CASE recvID \in ToSet(s)
    BY <1>5, <1>6 DEF s
  <1>7. CASE recvID \notin ToSet(s) /\ k # 0
    BY <1>3, <1>5, <1>7 DEF s
  <1>8. CASE recvID \notin ToSet(s) /\ k = 0
    BY <1>5, <1>8
  <1> QED BY <1>6, <1>7, <1>8

\* Channels are as before, as far as the arrays are concerned.
SameChannels ==
    /\ IsSeq(ch') /\ DOMAIN ch' = DOMAIN ch
    /\ \A id \in DOMAIN ch :
          /\ ChanFields \subseteq DOMAIN ch'[id]
          /\ ch'[id].conn = ch[id].conn /\ ch'[id].pc = ch[id].pc /\ ch'[id].kill = ch[id].kill

\* A field of a channel that the arrays do not depend on.
LEMMA OtherField ==
    ASSUME Types, NEW id \in DOMAIN ch, NEW r,
           ch' = [ch EXCEPT ![id] = r],
           ChanFields \subseteq DOMAIN r,
           r.conn = ch[id].conn, r.pc = ch[id].pc, r.kill = ch[id].kill
    PROVE  SameChannels
  <1>1. ch' \in [DOMAIN ch -> ToSet(ch) \cup {r}]
    BY DEF Types, IsSeq, ToSet
  <1>2. IsSeq(ch') /\ DOMAIN ch' = DOMAIN ch
    BY <1>1, SameDomain DEF Types
  <1> QED BY <1>2 DEF SameChannels, Types

\* Nothing changes for the arrays but where the loop is, outside a join.
LEMMA MainMoves ==
    ASSUME IInv, SameChannels, UNCHANGED <<sc, arrays, backlog, cl>>,
           main.pc # "join", main'.pc # "join",
           DOMAIN main' = MainFields, main'.pc \in MainStates,
           main'.pc # "select" => main'.i \in DOMAIN conns,
           main'.pc = "flag" => main'.at \in ToSet(chans[conns[main'.i]])
    PROVE  IInv'
  <1>1. Types'
    BY DEF IInv, Types, SameChannels, arrays
  <1>2. Connections' /\ Rooms'
    BY DEF IInv, Connections, Rooms, arrays
  <1>3. Arrays'
    BY DEF IInv, Arrays, SameChannels, arrays
  <1>4. Threads'
    BY DEF IInv, Threads, SameChannels, arrays, Listed
  <1>5. AtConnection'
    BY DEF AtConnection, arrays, conn
  <1>6. Counted'
    BY DEF IInv, Counted, arrays, Held
  <1> QED BY <1>1, <1>2, <1>3, <1>4, <1>5, <1>6 DEF IInv

\* A client step other than connect.
LEMMA ClientMoves ==
    ASSUME IInv, UNCHANGED <<sc, arrays, backlog, main, ch>>,
           DOMAIN cl' = Clients,
           \A c \in Clients : "pc" \in DOMAIN cl'[c] /\ cl'[c].pc \in ClientStates /\ (cl'[c].pc = "connect" => cl[c].pc = "connect")
    PROVE  IInv'
  <1>1. Types'
    BY DEF IInv, Types, arrays
  <1>2. Connections' /\ Rooms' /\ Arrays'
    BY DEF IInv, Connections, Rooms, Arrays, arrays
  <1>3. Threads' /\ AtConnection'
    BY DEF IInv, Threads, AtConnection, arrays, Listed, conn
  <1>4. Counted'
    BY DEF IInv, Counted, arrays, Held
  <1> QED BY <1>1, <1>2, <1>3, <1>4 DEF IInv

\* A thread takes a step.
ThreadEffect(id) ==
    /\ id \in DOMAIN ch /\ UNCHANGED <<sc, arrays, backlog, main, cl>>
    /\ IsSeq(ch') /\ DOMAIN ch' = DOMAIN ch
    /\ \A k \in DOMAIN ch :
          /\ ChanFields \subseteq DOMAIN ch'[k]
          /\ ch'[k].conn = ch[k].conn /\ ch'[k].kill = ch[k].kill
          /\ k # id => ch'[k].pc = ch[k].pc
    /\ ch[id].pc # "exited" 
    /\ ch'[id].pc \in {"exit", "exited"} => ch[id].kill

\* Every step of a thread (server_help.c:48-87).
LEMMA ThreadMoves ==
    ASSUME IInv, NEW id, ThreadEffect(id)
    PROVE  IInv'
  <1>1. Types'
    BY DEF IInv, Types, ThreadEffect, arrays
  <1>2. Connections' /\ Rooms' /\ AtConnection'
    BY DEF IInv, Connections, Rooms, AtConnection, ThreadEffect, arrays, conn
  <1>3. Arrays'
    BY DEF IInv, Arrays, ThreadEffect, arrays
  <1>4. Threads'
    <2>1. \A k \in DOMAIN ch : Listed(k)' <=> Listed(k)
      BY DEF ThreadEffect, Listed, arrays
    <2>2. \A k \in DOMAIN ch : ch'[k].pc # "exited" => ch[k].pc # "exited"
      BY DEF ThreadEffect
    <2>3. \A k \in DOMAIN ch : ch'[k].pc \in {"exit", "exited"} => ch[k].kill
      BY DEF ThreadEffect, IInv, Threads
    <2> QED BY <2>1, <2>2, <2>3 DEF IInv, Threads, ThreadEffect
  <1>5. Counted'
    BY DEF IInv, Counted, ThreadEffect, arrays, Held
  <1> QED BY <1>1, <1>2, <1>3, <1>4, <1>5 DEF IInv

\* The server stands still, as far as its arrays are concerned.
Still == UNCHANGED <<sc, arrays, backlog, main, ch>>

\* The death of the process leaves the arrays.
LEMMA DiesStill == ASSUME NEW cause, Dies(cause) PROVE Still
  BY DEF Dies, Still, serverVars

\* The record of one thread is replaced.
LEMMA ThreadRecord ==
    ASSUME IInv, NEW id \in DOMAIN ch, NEW r, ch' = [ch EXCEPT ![id] = r],
           UNCHANGED <<sc, arrays, backlog, main, cl>>,
           ChanFields \subseteq DOMAIN r, r.conn = ch[id].conn, r.kill = ch[id].kill,
           ch[id].pc # "exited", r.pc \in {"exit", "exited"} => ch[id].kill
    PROVE  IInv'
  <1>1. ch' \in [DOMAIN ch -> ToSet(ch) \cup {r}]
    BY DEF IInv, Types, IsSeq, ToSet
  <1>2. IsSeq(ch') /\ DOMAIN ch' = DOMAIN ch
    BY <1>1, SameDomain DEF IInv, Types
  <1>3. ThreadEffect(id)
    BY <1>2 DEF ThreadEffect, IInv, Types
  <1> QED BY <1>3, ThreadMoves

\* Thread(id, r) for such a record r.
LEMMA ThreadPreserves ==
    ASSUME IInv, NEW id, id \in DOMAIN ch, NEW r, Thread(id, r), UNCHANGED cl,
           ChanFields \subseteq DOMAIN r, r.conn = ch[id].conn, r.kill = ch[id].kill,
           ch[id].pc # "exited", r.pc \in {"exit", "exited"} => ch[id].kill
    PROVE  IInv'
  <1>1. UNCHANGED <<sc, arrays, backlog, main, cl>> /\ ch' = [ch EXCEPT ![id] = r]
    BY DEF Thread, net
  <1> QED BY <1>1, ThreadRecord

\* A server that stands still beside clients that stand still.
LEMMA StillPreserves == ASSUME IInv, Still, UNCHANGED cl PROVE IInv'
  <1>1. DOMAIN cl' = Clients /\ \A c \in Clients : "pc" \in DOMAIN cl'[c] /\ cl'[c].pc \in ClientStates
    BY DEF IInv, Types
  <1> QED BY <1>1, ClientMoves DEF Still

\* The thread frees its request twice (server_help.c:84).
LEMMA FreedTwicePreserves ==
    ASSUME IInv, NEW id, id \in DOMAIN ch, NEW r, FreedTwice(id, r), UNCHANGED cl,
           ChanFields \subseteq DOMAIN r, r.conn = ch[id].conn, r.kill = ch[id].kill,
           ch[id].pc # "exited", r.pc \in {"exit", "exited"} => ch[id].kill
    PROVE  IInv'
  <1>1. CASE Thread(id, r)
    BY <1>1, ThreadPreserves
  <1>2. CASE Dies("abort")
    BY <1>2, DiesStill, StillPreserves
  <1> QED BY <1>1, <1>2 DEF FreedTwice

\* A thread that sends goes on as r once the message is written.
LEMMA SendPreserves ==
    ASSUME IInv, NEW id, id \in DOMAIN ch, NEW c, NEW m, NEW r, UNCHANGED cl,
           send_msg(id, c, m, main, [ch EXCEPT ![id] = r]),
           ChanFields \subseteq DOMAIN r, r.conn = ch[id].conn, r.kill = ch[id].kill,
           ch[id].pc # "exited", r.pc \in {"exit", "exited"} => ch[id].kill
    PROVE  IInv'
  <1>1. \/ UNCHANGED <<sc, arrays, backlog, main>> /\ ch' = [ch EXCEPT ![id] = r]
        \/ Still
    BY DiesStill DEF send_msg, Write, WriteWaits, WriteFails, WriteKills, net, Still
  <1> QED BY <1>1, ThreadRecord, StillPreserves

\* A channel thread preserves the invariant.
LEMMA ThreadStepIInv ==
    ASSUME IInv, NEW id, ThreadStep(id), UNCHANGED cl
    PROVE  IInv'
  <1> DEFINE r0 == ch[id]
  <1>0. id \in DOMAIN ch
    BY DEF ThreadStep, Top, Relay, FreeValue, Clear, SendNext, SendAgain, Exit, InThread
  <1>00. ChanFields \subseteq DOMAIN r0 /\ "pc" \in DOMAIN r0 /\ "kill" \in DOMAIN r0 /\ "conn" \in DOMAIN r0
    BY <1>0 DEF IInv, Types, ChanFields
  <1>000. r0.pc \in {"exit", "exited"} => r0.kill
    BY <1>0 DEF IInv, Threads
  <1>1. CASE Top(id)
    <2> DEFINE r == [r0 EXCEPT !.pc = IF r0.kill THEN "exit" ELSE IF r0.data THEN "relay" ELSE "work"]
    <2>1. Thread(id, r) /\ r0.pc # "exited"
      BY <1>1 DEF Top, InThread
    <2>2. DOMAIN r = DOMAIN r0 /\ r.conn = r0.conn /\ r.kill = r0.kill /\ (r.pc \in {"exit", "exited"} => r0.kill)
      BY <1>00
    <2> QED BY <1>0, <1>00, <2>1, <2>2, ThreadPreserves
  <1>2. CASE Relay(id)
    <2>1. PICK n : Thread(id, [r0 EXCEPT !.again = @ \cup {n}, !.used = TRUE, !.pc = "free"])
      BY <1>2 DEF Relay
    <2> DEFINE r == [r0 EXCEPT !.again = @ \cup {n}, !.used = TRUE, !.pc = "free"]
    <2>2. Thread(id, r) /\ r0.pc # "exited"
      BY <1>2, <2>1 DEF Relay, InThread
    <2>3. DOMAIN r = DOMAIN r0 /\ r.conn = r0.conn /\ r.kill = r0.kill /\ r.pc \notin {"exit", "exited"}
      BY <1>00
    <2> QED BY <1>0, <1>00, <2>2, <2>3, ThreadPreserves
  <1>3. CASE FreeValue(id)
    <2> DEFINE r == [r0 EXCEPT !.value.live = FALSE, !.pc = "clear"]
    <2>1. (Thread(id, r) \/ FreedTwice(id, r)) /\ r0.pc # "exited"
      BY <1>3 DEF FreeValue, InThread
    <2>2. DOMAIN r = DOMAIN r0 /\ r.conn = r0.conn /\ r.kill = r0.kill /\ r.pc \notin {"exit", "exited"}
      BY <1>00
    <2> QED BY <1>0, <1>00, <2>1, <2>2, ThreadPreserves, FreedTwicePreserves
  <1>4. CASE Clear(id)
    <2> DEFINE r == [r0 EXCEPT !.data = FALSE, !.pc = "work"]
    <2>1. Thread(id, r) /\ r0.pc # "exited"
      BY <1>4 DEF Clear, InThread
    <2>2. DOMAIN r = DOMAIN r0 /\ r.conn = r0.conn /\ r.kill = r0.kill /\ r.pc \notin {"exit", "exited"}
      BY <1>00
    <2> QED BY <1>0, <1>00, <2>1, <2>2, ThreadPreserves
  <1>5. CASE SendNext(id)
    <2>0. r0.pc # "exited"
      BY <1>5 DEF SendNext, InThread
    <2> DEFINE r == [r0 EXCEPT !.next = @ + 1, !.pc = "top"]
               t == [r0 EXCEPT !.finished = TRUE, !.pc = "top"]
    <2>1. [ch EXCEPT ![id].next = @ + 1, ![id].pc = "top"] = [ch EXCEPT ![id] = r]
      BY <1>0, <1>00
    <2>2. DOMAIN r = DOMAIN r0 /\ r.conn = r0.conn /\ r.kill = r0.kill /\ r.pc \notin {"exit", "exited"}
      BY <1>00
    <2>3. DOMAIN t = DOMAIN r0 /\ t.conn = r0.conn /\ t.kill = r0.kill /\ t.pc \notin {"exit", "exited"}
      BY <1>00
    <2>4. CASE send_msg(id, r0.conn, Segment(id, r0.next), main, [ch EXCEPT ![id].next = @ + 1, ![id].pc = "top"])
      BY <1>0, <1>00, <2>0, <2>1, <2>2, <2>4, SendPreserves
    <2>5. CASE Thread(id, t)
      BY <1>0, <1>00, <2>0, <2>3, <2>5, ThreadPreserves
    <2> QED BY <1>5, <2>4, <2>5 DEF SendNext
  <1>6. CASE SendAgain(id)
    <2>0. r0.pc # "exited"
      BY <1>6 DEF SendAgain, InThread
    <2> DEFINE r == [r0 EXCEPT !.again = @ \ {Min(@)}, !.pc = "top"]
    <2>1. [ch EXCEPT ![id].again = @ \ {Min(@)}, ![id].pc = "top"] = [ch EXCEPT ![id] = r]
      BY <1>0, <1>00
    <2>2. DOMAIN r = DOMAIN r0 /\ r.conn = r0.conn /\ r.kill = r0.kill /\ r.pc \notin {"exit", "exited"}
      BY <1>00
    <2>3. send_msg(id, r0.conn, Segment(id, Min(r0.again)), main, [ch EXCEPT ![id].again = @ \ {Min(@)}, ![id].pc = "top"])
      BY <1>6 DEF SendAgain
    <2> QED BY <1>0, <1>00, <2>0, <2>1, <2>2, <2>3, SendPreserves
  <1>7. CASE Exit(id)
    <2> DEFINE r == [r0 EXCEPT !.pc = "exited", !.value.live = @ /\ ~r0.data]
    <2>1. (Thread(id, r) \/ FreedTwice(id, r)) /\ r0.pc = "exit"
      BY <1>7 DEF Exit, InThread
    <2>2. DOMAIN r = DOMAIN r0 /\ r.conn = r0.conn /\ r.kill = r0.kill
      BY <1>00
    <2> QED BY <1>0, <1>00, <1>000, <2>1, <2>2, ThreadPreserves, FreedTwicePreserves
  <1> QED BY <1>1, <1>2, <1>3, <1>4, <1>5, <1>6, <1>7 DEF ThreadStep

---------------------------------------------------------------------------
(* The clients.                                                            *)

\* A client goes on as r and is connected.
Moved(c, r) ==
    /\ UNCHANGED <<sc, backlog>> /\ cl' = [cl EXCEPT ![c] = r]
    /\ "pc" \in DOMAIN r /\ r.pc \in ClientStates \ {"connect"}

\* A step that only moves the select loop on.
LEMMA MovedPreserves ==
    ASSUME IInv, NEW c \in Clients, UNCHANGED <<arrays, serverVars>>, NEW r, Moved(c, r)
    PROVE  IInv'
  <1>1. DOMAIN cl' = Clients
    BY DEF IInv, Types, Moved
  <1>2. \A d \in Clients : "pc" \in DOMAIN cl'[d] /\ cl'[d].pc \in ClientStates /\ (cl'[d].pc = "connect" => cl[d].pc = "connect")
    BY DEF IInv, Types, Moved
  <1> QED BY <1>1, <1>2, ClientMoves DEF serverVars, Moved

\* The socket of a process that ends is closed by the kernel.
LEMMA ExitsMoved ==
    ASSUME IInv, NEW c \in Clients, NEW pc, pc \in ClientStates \ {"connect"}, Exits(c, pc), UNCHANGED <<sc, backlog>>
    PROVE  \E r : Moved(c, r)
  <1> DEFINE r == [cl[c] EXCEPT !.pc = pc]
  <1>1. cl' = [cl EXCEPT ![c] = r] /\ "pc" \in DOMAIN r /\ r.pc = pc
    BY DEF Exits, IInv, Types
  <1> QED BY <1>1 DEF Moved

\* send_msg of a client: it goes on as r, or dies.
LEMMA SendMoved ==
    ASSUME IInv, NEW c \in Clients, NEW m, NEW r, "pc" \in DOMAIN r, r.pc \in ClientStates \ {"connect"},
           client_send(c, m, r)
    PROVE  \E t : Moved(c, t)
  <1>1. CASE SendOk(c, m, r)
    BY <1>1 DEF SendOk, Become, Moved
  <1>2. CASE SendFails(c, r)
    <2> DEFINE t == [r EXCEPT !.sendLocked = TRUE]
    <2>1. "pc" \in DOMAIN t /\ t.pc = r.pc
      OBVIOUS
    <2> QED BY <1>2, <2>1 DEF SendFails, Become, Moved, net
  <1>3. CASE SendKills(c)
    BY <1>3, ExitsMoved DEF SendKills, ClientStates
  <1> QED BY <1>1, <1>2, <1>3 DEF client_send

\* recv_msg of a client: it goes on as r.
LEMMA TakesMoved ==
    ASSUME IInv, NEW c \in Clients, NEW r, "pc" \in DOMAIN r, r.pc \in ClientStates \ {"connect"}, Takes(c, r)
    PROVE  \E t : Moved(c, t)
  <1> DEFINE t == [r EXCEPT !.recvLocked = Read(c).locked]
  <1>1. "pc" \in DOMAIN t /\ t.pc = r.pc
    OBVIOUS
  <1>2. cl' = [cl EXCEPT ![c] = t] /\ UNCHANGED <<sc, backlog>>
    BY DEF Takes, Become
  <1> QED BY <1>1, <1>2 DEF Moved

\* Each step of a client but connect leaves it connected.
LEMMA ClientStepMoved ==
    ASSUME IInv, NEW c \in Clients, ClientStep(c), ~Connect(c)
    PROVE  \E r : Moved(c, r)
  <1> DEFINE s == cl[c]
  <1>0. "pc" \in DOMAIN s /\ s.pc \in ClientStates
    BY DEF IInv, Types
  <1>a. CASE Crashes(c)
    BY <1>a, ExitsMoved DEF Crashes, ClientStates
  <1>c. CASE GivesUp(c)
    <2> DEFINE r == [s EXCEPT !.pc = "fin", !.result = "gave up"]
    <2>1. Takes(c, r)
      BY <1>c DEF GivesUp
    <2>2. "pc" \in DOMAIN r /\ r.pc \in ClientStates \ {"connect"}
      BY <1>0 DEF ClientStates
    <2> QED BY <2>1, <2>2, TakesMoved
  <1>1. CASE Syn(c) \/ SynAgain(c)
    <2> DEFINE r == [s EXCEPT !.pc = "ack"]
    <2>1. "pc" \in DOMAIN r /\ r.pc \in ClientStates \ {"connect"}
      BY <1>0 DEF ClientStates
    <2>2. \E m : client_send(c, m, r)
      BY <1>1 DEF Syn, SynAgain
    <2> QED BY <2>1, <2>2, SendMoved
  <1>2. CASE Ack(c)
    <2>1. CASE Taken(c) /\ ~Read(c).msg.intact /\ Takes(c, [cl[c] EXCEPT !.pc = "again"])
      <3> DEFINE r == [s EXCEPT !.pc = "again"]
      <3>1. Takes(c, r) /\ "pc" \in DOMAIN r /\ r.pc \in ClientStates \ {"connect"}
        BY <1>0, <2>1 DEF ClientStates
      <3> QED BY <3>1, TakesMoved
    <2>2. ASSUME NEW n, Takes(c, [cl[c] EXCEPT !.pc = "ready", !.other = Read(c).msg.send, !.count = n,
                                     !.inStep = Expected(c, Read(c).msg, "ACK", n)])
          PROVE  \E r : Moved(c, r)
      <3> DEFINE r == [s EXCEPT !.pc = "ready", !.other = Read(c).msg.send, !.count = n,
                                !.inStep = Expected(c, Read(c).msg, "ACK", n)]
      <3>1. Takes(c, r) /\ "pc" \in DOMAIN r /\ r.pc \in ClientStates \ {"connect"}
        BY <1>0, <2>2 DEF ClientStates
      <3> QED BY <3>1, TakesMoved
    <2> QED BY <1>2, <1>a, <2>1, <2>2 DEF Ack
  <1>3. CASE Ready(c)
    <2> DEFINE r == IF s.count = 0 THEN [s EXCEPT !.pc = "fin", !.result = "not found"]
                    ELSE [s EXCEPT !.pc = "gather", !.got = 0, !.missing = {}, !.missed = {},
                                   !.out = << >>, !.pos = 0, !.result = "none"]
    <2>1. "pc" \in DOMAIN r /\ r.pc \in ClientStates \ {"connect"}
      BY <1>0 DEF ClientStates
    <2>2. \E m : client_send(c, m, r)
      BY <1>3 DEF Ready
    <2> HIDE DEF r
    <2> QED BY <2>1, <2>2, SendMoved
  <1>4. CASE Gather(c)
    <2>1. ASSUME NEW t, "pc" \in DOMAIN t, Takes(c, Gathered(t))
          PROVE  \E r : Moved(c, r)
      <3>1. "pc" \in DOMAIN Gathered(t) /\ Gathered(t).pc \in ClientStates \ {"connect"}
        BY <2>1 DEF Gathered, Onward, ClientStates
      <3> QED BY <2>1, <3>1, TakesMoved
    <2>2. CASE Taken(c)
      <3> DEFINE m == Read(c).msg
                 n == s.got + 1
                 u == [s EXCEPT !.got = n, !.inStep = Expected(c, m, "SYN", n)]
                 t == IF m.intact
                      THEN [u EXCEPT !.out = fwrite(@, u.pos, m.content), !.pos = @ + Len(m.content)]
                      ELSE [u EXCEPT !.missing = @ \cup {n}, !.missed = @ \cup {n}]
      <3>1. CASE Takes(c, Gathered(t))
        <4>1. "pc" \in DOMAIN t
          BY <1>0
        <4> HIDE DEF t
        <4> QED BY <2>1, <3>1, <4>1
      <3> QED BY <1>4, <1>c, <3>1 DEF Gather
    <2>3. CASE ~Taken(c)
      BY <1>4, <1>c, <2>3 DEF Gather
    <2> QED BY <2>2, <2>3
  <1>5. CASE Rts(c)
    <2> DEFINE r == [s EXCEPT !.pc = "answer"]
    <2>1. "pc" \in DOMAIN r /\ r.pc \in ClientStates \ {"connect"}
      BY <1>0 DEF ClientStates
    <2>2. \E m : client_send(c, m, r)
      BY <1>5 DEF Rts
    <2> QED BY <2>1, <2>2, SendMoved
  <1>6. CASE AnswerRead(c)
    <2>1. ASSUME NEW t, "pc" \in DOMAIN t, Takes(c, Onward(t))
          PROVE  \E r : Moved(c, r)
      <3>1. "pc" \in DOMAIN Onward(t) /\ Onward(t).pc \in ClientStates \ {"connect"}
        BY <2>1 DEF Onward, ClientStates
      <3> QED BY <2>1, <3>1, TakesMoved
    <2> DEFINE m == Read(c).msg
               low == Min(s.missing)
               u == [s EXCEPT !.inStep = Expected(c, m, "SYN", low)]
               t == IF m.intact THEN Repaired(u, low, m) ELSE u
    <2>2. CASE Takes(c, Onward(t))
      <3>1. "pc" \in DOMAIN u
        BY <1>0
      <3>2. "pc" \in DOMAIN t
        <4> HIDE DEF u, low, m
        <4> QED BY <3>1 DEF Repaired
      <3> HIDE DEF t
      <3> QED BY <2>1, <2>2, <3>2
    <2> QED BY <1>6, <1>c, <2>2 DEF AnswerRead
  <1>7. CASE Cease(c)
    <2> DEFINE r == [s EXCEPT !.pc = "finack"]
    <2>1. "pc" \in DOMAIN r /\ r.pc \in ClientStates \ {"connect"}
      BY <1>0 DEF ClientStates
    <2>2. \E m : client_send(c, m, r)
      BY <1>7 DEF Cease
    <2> QED BY <2>1, <2>2, SendMoved
  <1>8. CASE FinAck(c)
    <2> DEFINE u == [s EXCEPT !.inStep = Expected(c, Read(c).msg, "FIN", 0), !.other = 0]
               r == IF u.cycle < sc.downloads THEN [u EXCEPT !.pc = "syn", !.cycle = @ + 1]
                    ELSE [u EXCEPT !.pc = "bye"]
    <2>1. CASE Takes(c, r)
      <3>1. "pc" \in DOMAIN r /\ r.pc \in ClientStates \ {"connect"}
        BY <1>0 DEF ClientStates
      <3> HIDE DEF r
      <3> QED BY <2>1, <3>1, TakesMoved
    <2> QED BY <1>8, <1>a, <2>1 DEF FinAck
  <1>9. CASE Bye(c)
    <2> DEFINE r == [s EXCEPT !.pc = "close"]
    <2>1. "pc" \in DOMAIN r /\ r.pc \in ClientStates \ {"connect"}
      BY <1>0 DEF ClientStates
    <2>2. \E m : client_send(c, m, r)
      BY <1>9 DEF Bye
    <2> QED BY <2>1, <2>2, SendMoved
  <1>10. CASE Close(c)
    BY <1>10, ExitsMoved DEF Close, ClientStates
  <1> QED BY <1>1, <1>2, <1>3, <1>4, <1>5, <1>6, <1>7, <1>8, <1>9, <1>10 DEF ClientStep

\* A client connects once.
LEMMA ConnectIInv ==
    ASSUME IInv, NEW c \in Clients, Connect(c), UNCHANGED <<arrays, serverVars>>
    PROVE  IInv'
  <1> DEFINE r == [cl[c] EXCEPT !.pc = "syn"]
  <1>1. /\ cl' = [cl EXCEPT ![c] = r] /\ backlog' = Append(backlog, c) /\ UNCHANGED sc
        /\ cl[c].pc = "connect"
    BY DEF Connect, Become, Is
  <1>2. DOMAIN r = DOMAIN cl[c] /\ r.pc = "syn" /\ DOMAIN cl' = Clients
    BY <1>1 DEF IInv, Types
  <1>3. \A d \in Clients : "pc" \in DOMAIN cl'[d] /\ cl'[d].pc \in ClientStates /\ (cl'[d].pc = "connect" => d # c /\ cl[d].pc = "connect")
    BY <1>1, <1>2 DEF IInv, Types, ClientStates
  <1>4. /\ ToSet(backlog') = ToSet(backlog) \cup {c} /\ backlog' \in Seq(Clients)
        /\ \A i \in DOMAIN backlog' : i \in DOMAIN backlog \/ i = Len(backlog) + 1
        /\ \A i \in DOMAIN backlog : backlog'[i] = backlog[i]
        /\ backlog'[Len(backlog) + 1] = c /\ c \notin ToSet(backlog) /\ c \notin ToSet(conns)
    BY SMTT(30), <1>1, AppendSeq, SeqIsSeq DEF IInv, Types, Connections
  <1>5. Types'
    BY <1>1, <1>2, <1>3, <1>4 DEF IInv, Types, arrays, serverVars
  <1>6. Distinct(backlog')
    BY <1>4 DEF Distinct, IInv, Connections, ToSet
  <1>7. Connections'
    <2>1. \A d \in Clients : cl'[d].pc = "connect" => d \notin ToSet(conns) \cup ToSet(backlog')
      BY <1>3, <1>4 DEF IInv, Connections
    <2>2. ToSet(conns) \cap ToSet(backlog') = {}
      BY <1>4 DEF IInv, Connections
    <2> QED BY <1>6, <2>1, <2>2 DEF IInv, Connections, arrays
  <1>8. Rooms' /\ Arrays'
    BY DEF IInv, Rooms, Arrays, arrays, serverVars
  <1>9. Threads' /\ AtConnection'
    BY DEF IInv, Threads, AtConnection, arrays, Listed, conn, serverVars
  <1>10. Counted'
    BY <1>1 DEF IInv, Counted, arrays, Held, serverVars
  <1> QED BY <1>5, <1>7, <1>8, <1>9, <1>10 DEF IInv

\* A client preserves the invariant.
LEMMA ClientIInv ==
    ASSUME IInv, NEW c \in Clients, Client(c)
    PROVE  IInv'
  <1>1. CASE Connect(c)
    BY <1>1, ConnectIInv DEF Client
  <1>2. CASE ~Connect(c)
    <2>1. PICK r : Moved(c, r)
      BY <1>2, ClientStepMoved DEF Client
    <2> QED BY <2>1, MovedPreserves DEF Client
  <1> QED BY <1>1, <1>2

\* What comes from outside preserves it.
LEMMA DisturbIInv == ASSUME IInv, Disturb PROVE IInv'
  <1>1. CASE AcceptFails /\ UNCHANGED cl
    BY <1>1, DiesStill, StillPreserves DEF AcceptFails
  <1>2. CASE \E c \in Clients : Alter(c) /\ UNCHANGED <<arrays, serverVars, cl>>
    <2>1. Still /\ UNCHANGED cl
      BY <1>2 DEF Alter, Still, serverVars
    <2> QED BY <2>1, StillPreserves
  <1>3. ASSUME NEW c \in Clients, ClientKilled(c), UNCHANGED <<arrays, serverVars>>
        PROVE  IInv'
    <2>1. PICK r : Moved(c, r)
      BY <1>3, ExitsMoved DEF ClientKilled, ClientStates
    <2> QED BY <1>3, <2>1, MovedPreserves
  <1>4. ASSUME NEW c \in Clients, Unframe(c), cl' = [cl EXCEPT ![c].inStep = FALSE], UNCHANGED <<arrays, serverVars>>
        PROVE  IInv'
    <2>1. Still
      BY <1>4 DEF Unframe, Still, serverVars
    <2>2. DOMAIN cl' = Clients /\ \A d \in Clients : "pc" \in DOMAIN cl'[d] /\ cl'[d].pc = cl[d].pc
      BY <1>4 DEF IInv, Types
    <2>3. \A d \in Clients : cl'[d].pc \in ClientStates
      BY <2>2 DEF IInv, Types
    <2> QED BY <2>1, <2>2, <2>3, ClientMoves DEF Still
  <1> QED BY <1>1, <1>2, <1>3, <1>4 DEF Disturb

---------------------------------------------------------------------------
(* The select loop.                                                        *)

\* accept adds a connection at the end of the array, which has no channels yet.
LEMMA SelectIInv == ASSUME IInv, Select, UNCHANGED cl PROVE IInv'
  <1> DEFINE fds == {c \in ToSet(conns) : Readable(c)}
  <1>1. /\ main.pc = "select" /\ main' = Loop(fds, 1, conns) /\ UNCHANGED <<sc, ch>>
    BY DEF Select, At
  <1>2. /\ conns \in Seq(Clients) /\ backlog \in Seq(Clients) /\ IsSeq(conns)
        /\ Len(conns) \in Nat /\ DOMAIN conns = 1 .. Len(conns)
    BY SeqIsSeq DEF IInv, Types
  <1>3. /\ DOMAIN main' = MainFields /\ main'.pc \in {"select", "recv"}
        /\ main'.pc = "recv" => main'.i \in DOMAIN conns
    <2> HIDE DEF fds
    <2> QED BY <1>1, <1>2, LoopIn
  <1>4. CASE backlog = << >>
    <2>1. UNCHANGED <<arrays, backlog>>
      BY <1>4 DEF Select
    <2>2. SameChannels
      BY <1>1 DEF SameChannels, IInv, Types
    <2>3. /\ main.pc # "join" /\ main'.pc # "join" /\ main'.pc \in MainStates /\ main'.pc # "flag"
          /\ main'.pc # "select" => main'.i \in DOMAIN conns
      BY <1>1, <1>3 DEF MainStates
    <2> QED BY <1>1, <1>3, <2>1, <2>2, <2>3, MainMoves
  <1>5. CASE backlog # << >>
    <2> DEFINE c == Head(backlog)
    <2>1. /\ conns' = Append(conns, c) /\ room' = Grown(Len(conns) + 1)
          /\ UNCHANGED <<chans, chanRoom, totalChannels>> /\ backlog' = Tail(backlog)
      BY <1>5 DEF Select, new_connection
    <2>2. /\ c \in Clients /\ c \in ToSet(backlog) /\ backlog' \in Seq(Clients)
          /\ Len(backlog') = Len(backlog) - 1 /\ Len(backlog) \in Nat
          /\ \A i \in 1 .. Len(backlog) - 1 : backlog'[i] = backlog[i + 1]
          /\ c = backlog[1] /\ DOMAIN backlog = 1 .. Len(backlog)
      <3>1. DOMAIN backlog = 1 .. Len(backlog) /\ Len(backlog) \in Nat /\ Len(backlog) # 0 /\ c = backlog[1]
        BY <1>2, <1>5
      <3>2. 1 \in DOMAIN backlog
        BY <3>1
      <3>3. c \in ToSet(backlog)
        BY <3>1, <3>2 DEF ToSet
      <3> QED BY <1>2, <1>5, <2>1, <3>1, <3>2, <3>3
    <2>3. Distinct(backlog') /\ c \notin ToSet(backlog') /\ ToSet(backlog') \subseteq ToSet(backlog)
      <3>1. DOMAIN backlog' = 1 .. Len(backlog) - 1
        BY <2>2
      <3>2. \A x, y \in 1 .. Len(backlog) : backlog[x] = backlog[y] => x = y
        BY <2>2 DEF Distinct, IInv, Connections
      <3> HIDE DEF c
      <3>3. Distinct(backlog')
        BY <2>2, <3>1, <3>2 DEF Distinct
      <3>4. ToSet(backlog') \subseteq ToSet(backlog)
        BY <2>2, <3>1 DEF ToSet
      <3>5. c \notin ToSet(backlog')
        BY <2>2, <3>1, <3>2 DEF ToSet
      <3> QED BY <3>3, <3>4, <3>5
    <2>4. c \notin ToSet(conns)
      BY <2>2 DEF IInv, Connections
    <2>5. /\ ToSet(conns') = ToSet(conns) \cup {c} /\ conns' \in Seq(Clients)
          /\ Len(conns') = Len(conns) + 1
          /\ \A i \in DOMAIN conns' : i \in DOMAIN conns \/ i = Len(conns) + 1
          /\ DOMAIN conns \subseteq DOMAIN conns'
          /\ \A i \in DOMAIN conns : conns'[i] = conns[i]
          /\ conns'[Len(conns) + 1] = c
      BY <1>2, <2>1, <2>2, AppendSeq
    <2> HIDE DEF c
    <2>6. Distinct(conns')
      BY <2>4, <2>5 DEF Distinct, IInv, Connections, ToSet
    <2>7. room' \in Nat /\ Len(conns') <= room' + 1
      BY <1>2, <2>1, <2>5 DEF Grown
    <2>8. Types'
      BY <1>1, <1>3, <2>1, <2>2, <2>5, <2>7 DEF IInv, Types, MainStates
    <2>9. Connections'
      BY <2>2, <2>3, <2>4, <2>5, <2>6 DEF IInv, Connections
    <2>10. Rooms'
      BY <2>1, <2>7 DEF IInv, Rooms
    <2>11. chans[c] = << >>
      BY <2>2, <2>4 DEF IInv, Arrays
    <2>12. Arrays'
      BY <1>1, <2>1, <2>5 DEF IInv, Arrays
    <2>13. Threads'
      BY <1>1, <2>1 DEF IInv, Threads, Listed
    <2>14. AtConnection'
      BY <1>3, <2>5 DEF AtConnection
    <2>15. Held' = Held
      <3>1. ToSet(chans[c]) = {}
        BY <2>11 DEF ToSet
      <3> QED BY <2>1, <2>5, <3>1 DEF Held
    <2>16. Counted'
      BY <1>1, <1>3, <2>1, <2>15 DEF IInv, Counted
    <2> QED BY <2>8, <2>9, <2>10, <2>12, <2>13, <2>14, <2>16 DEF IInv
  <1> QED BY <1>4, <1>5

\* The connection the loop is at, when it is not in select.
LEMMA AtConn ==
    ASSUME IInv, main.pc # "select"
    PROVE  /\ main.i \in 1 .. Len(conns) /\ Len(conns) \in Nat /\ DOMAIN conns = 1 .. Len(conns)
           /\ conns \in Seq(Clients) /\ conn \in Clients /\ conn \in ToSet(conns)
           /\ chans[conn] \in Seq(Nat) /\ Distinct(chans[conn])
  <1>1. conns \in Seq(Clients) /\ main.i \in DOMAIN conns
    BY DEF IInv, Types, AtConnection
  <1>2. conn \in Clients /\ conn \in ToSet(conns)
    BY <1>1 DEF conn, ToSet
  <1> QED BY <1>1, <1>2 DEF IInv, Types, Arrays

\* On to the next entry.
LEMMA NextEntryIInv ==
    ASSUME IInv, main.pc \notin {"select", "join"}, SameChannels, UNCHANGED <<sc, arrays, backlog, cl>>,
           main' = NextEntry
    PROVE  IInv'
  <1>1. main.i + 1 \in Nat \ {0} /\ conns \in Seq(Clients)
    BY AtConn
  <1>2. /\ DOMAIN main' = MainFields /\ main'.pc \in {"select", "recv"}
        /\ main'.pc = "recv" => main'.i \in DOMAIN conns
    BY <1>1, LoopIn DEF NextEntry
  <1>3. /\ main.pc # "join" /\ main'.pc # "join" /\ main'.pc \in MainStates /\ main'.pc # "flag"
        /\ main'.pc # "select" => main'.i \in DOMAIN conns
    BY <1>2 DEF MainStates
  <1> QED BY <1>2, <1>3, MainMoves

\* Nothing changes but the loop's own fields, at the same connection.
LEMMA MainFieldsIInv ==
    ASSUME IInv, main.pc \notin {"select", "join"}, SameChannels, UNCHANGED <<sc, arrays, backlog, cl>>,
           DOMAIN main' = MainFields, main'.i = main.i,
           main'.pc \in MainStates \ {"select", "join"},
           main'.pc = "flag" => main'.at \in ToSet(chans[conn])
    PROVE  IInv'
  <1>1. main'.i \in DOMAIN conns
    BY AtConn
  <1>2. main.pc # "join" /\ main'.pc # "join" /\ main'.pc \in MainStates
    OBVIOUS
  <1>3. main'.pc = "flag" => main'.at \in ToSet(chans[conns[main'.i]])
    BY DEF conn
  <1> QED BY <1>1, <1>2, <1>3, MainMoves

\* The channels have not changed at all.
LEMMA SameCh == ASSUME IInv, UNCHANGED ch PROVE SameChannels
  BY DEF IInv, Types, SameChannels

\* An answer is prepared.
LEMMA AnswerIInv ==
    ASSUME IInv, main.pc = "recv", NEW m, Answer(m), UNCHANGED <<sc, arrays, backlog, cl, ch>>
    PROVE  IInv'
  <1>1. DOMAIN main = MainFields
    BY DEF IInv, Types
  <1>2. DOMAIN main' = MainFields /\ main'.i = main.i /\ main'.pc = "send"
    BY <1>1 DEF Answer, MainFields
  <1>3. main'.pc \in MainStates \ {"select", "join"} /\ main'.pc # "flag"
    BY <1>2 DEF MainStates
  <1>4. SameChannels
    BY SameCh
  <1> QED BY <1>2, <1>3, <1>4, MainFieldsIInv

\* A channel is opened: its thread is counted and listed at once.
LEMMA NewChannelIInv ==
    ASSUME IInv, main.pc = "recv", UNCHANGED <<sc, backlog, cl>>, totalChannels < sc.slots,
           NEW m, NEW a, NEW handle,
           new_channel(conn, Len(ch) + 1), ch' = Append(ch, NewChannel(m, handle)), Answer(a)
    PROVE  IInv'
  <1> SUFFICES ASSUME NEW c, c = conn, NEW id, id = Len(ch) + 1, NEW r, r = NewChannel(m, handle)
               PROVE  IInv'
    OBVIOUS
  <1>1. /\ c \in Clients /\ c \in ToSet(conns) /\ main.i \in DOMAIN conns
        /\ chans[c] \in Seq(Nat) /\ Distinct(chans[c]) /\ DOMAIN main = MainFields
        /\ chans \in [Clients -> Seq(Nat)] /\ chanRoom \in [Clients -> Nat] /\ totalChannels \in Int
    BY AtConn DEF IInv, Types
  <1>2. DOMAIN main' = MainFields /\ main'.i = main.i /\ main'.pc = "send"
    BY <1>1 DEF Answer, MainFields
  <1>3. ChanFields \subseteq DOMAIN r /\ r.conn = c /\ r.pc = "wait" /\ r.kill = FALSE
    BY DEF NewChannel, ChanFields
  <1>4. /\ IsSeq(ch') /\ DOMAIN ch' = DOMAIN ch \cup {id} /\ id \notin DOMAIN ch /\ id \in Nat
        /\ \A k \in DOMAIN ch : ch'[k] = ch[k]
        /\ ch'[id] = r
    BY AppendSeq DEF IInv, Types
  <1>5. /\ conns' = conns /\ room' = room /\ totalChannels' = totalChannels + 1
        /\ chans' = [chans EXCEPT ![c] = Append(@, id)]
        /\ chanRoom' = [chanRoom EXCEPT ![c] = Grown(Len(chans[c]) + 1)]
    BY DEF new_channel
  <1>6. id \notin ToSet(chans[c])
    BY <1>1, <1>4 DEF IInv, Arrays
  <1>7. /\ chans'[c] = Append(chans[c], id) /\ chans' \in [Clients -> Seq(Nat)]
        /\ Len(chans[c]) \in Nat /\ Len(chans'[c]) = Len(chans[c]) + 1
        /\ \A d \in Clients : d # c => chans'[d] = chans[d]
        /\ ToSet(chans'[c]) = ToSet(chans[c]) \cup {id}
        /\ \A i \in DOMAIN chans'[c] : i \in DOMAIN chans[c] \/ i = Len(chans[c]) + 1
        /\ \A i \in DOMAIN chans[c] : chans'[c][i] = chans[c][i]
        /\ chans'[c][Len(chans[c]) + 1] = id
    BY <1>1, <1>4, <1>5, AppendSeq, SeqIsSeq
  <1>8. Distinct(chans'[c])
    BY <1>1, <1>6, <1>7 DEF Distinct, ToSet
  <1>9. /\ chanRoom' \in [Clients -> Nat] /\ Len(chans'[c]) <= chanRoom'[c] + 1
        /\ \A d \in Clients : d # c => chanRoom'[d] = chanRoom[d]
    BY <1>1, <1>5, <1>7 DEF Grown
  <1>10. Types'
    <2>1. \A k \in DOMAIN ch' : ChanFields \subseteq DOMAIN ch'[k] /\ ch'[k].conn \in Clients
      BY <1>1, <1>3, <1>4 DEF IInv, Types
    <2>2. /\ chans' \in [Clients -> Seq(Nat)] /\ chanRoom' \in [Clients -> Nat]
          /\ totalChannels' \in Int /\ conns' = conns /\ room' = room /\ backlog' = backlog
          /\ sc' = sc /\ cl' = cl
      BY <1>1, <1>5, <1>7, <1>9
    <2>3. DOMAIN main' = MainFields /\ main'.pc \in MainStates /\ IsSeq(ch')
      BY <1>2, <1>4 DEF MainStates
    <2>4. Types
      BY DEF IInv
    <2> QED BY ONLY <2>1, <2>2, <2>3, <2>4 DEF Types
  <1>11. Connections' /\ Rooms'
    BY <1>1, <1>5, <1>7, <1>9 DEF IInv, Connections, Rooms
  <1>12. Arrays'
    BY <1>1, <1>3, <1>4, <1>5, <1>7, <1>8 DEF IInv, Arrays
  <1>13. Threads'
    <2>1. ASSUME NEW k \in DOMAIN ch PROVE Listed(k)' <=> Listed(k)
      <3>1. ch[k].conn \in Clients /\ ch'[k] = ch[k] /\ k # id
        BY <1>4 DEF IInv, Types
      <3>2. CASE ch[k].conn = c
        BY ONLY <1>7, <3>1, <3>2 DEF Listed
      <3>3. CASE ch[k].conn # c
        BY ONLY <1>7, <3>1, <3>3 DEF Listed
      <3> QED BY <3>2, <3>3
    <2>2. Listed(id)'
      BY <1>3, <1>4, <1>7 DEF Listed
    <2>3. \A k \in DOMAIN ch : ~(ch[k].kill /\ Listed(k))
      BY DEF IInv, Threads
    <2> QED BY <1>3, <1>4, <2>1, <2>2, <2>3 DEF IInv, Threads
  <1>14. AtConnection'
    BY <1>1, <1>2, <1>5 DEF AtConnection
  <1>15. Held' = Held \cup {id} /\ id \notin Held /\ Held \subseteq DOMAIN ch
    <2>1. Held \subseteq DOMAIN ch
      BY SeqIsSeq DEF Held, IInv, Arrays, Types
    <2>2. \A d \in ToSet(conns) : d \in Clients
      BY SeqIsSeq DEF IInv, Types
    <2>3. \A x : x \in Held' <=> x \in Held \/ x = id
      <3>1. conns' = conns
        BY <1>5
      <3>2. \A x : x \in Held' <=> \E d \in ToSet(conns) : x \in ToSet(chans'[d])
        BY ONLY <3>1 DEF Held
      <3>3. \A x : x \in Held <=> \E d \in ToSet(conns) : x \in ToSet(chans[d])
        BY ONLY TRUE DEF Held
      <3>4. /\ \A d \in ToSet(conns) : d # c => ToSet(chans'[d]) = ToSet(chans[d])
            /\ ToSet(chans'[c]) = ToSet(chans[c]) \cup {id}
        BY ONLY <1>7, <2>2
      <3> QED BY ONLY <1>1, <3>2, <3>3, <3>4
    <2> QED BY <1>4, <2>1, <2>3
  <1>16. Counted'
    <2>1. IsFiniteSet(Held)
      <3>1. IsFiniteSet(DOMAIN ch)
        BY FS_Interval DEF IInv, Types, IsSeq
      <3> QED BY <1>15, <3>1, FS_Subset
    <2>2. Cardinality(Held') = Cardinality(Held) + 1 /\ Cardinality(Held) \in Nat
      BY <1>15, <2>1, FS_AddElement, FS_CardinalityType
    <2>3. totalChannels = Cardinality(Held)
      BY <2>2 DEF IInv, Counted
    <2>4. main'.pc # "join" /\ totalChannels' = totalChannels + 1 /\ totalChannels + 1 <= sc.slots
      BY SMTT(30), <1>1, <1>2, <1>5 DEF IInv, Types
    <2> QED BY ONLY <2>2, <2>3, <2>4, UNCHANGED sc DEF Counted
  <1> QED BY <1>10, <1>11, <1>12, <1>13, <1>14, <1>16 DEF IInv

\* The threads held by the arrays are finitely many channels.
LEMMA HeldFinite ==
    ASSUME IInv
    PROVE  Held \subseteq DOMAIN ch /\ IsFiniteSet(Held) /\ Cardinality(Held) \in Nat
  <1>1. IsFiniteSet(DOMAIN ch)
    <2>1. ch \in Seq(ToSet(ch))
      BY DEF IInv, Types, IsSeq
    <2>2. DOMAIN ch = 1 .. Len(ch) /\ Len(ch) \in Nat
      BY ONLY <2>1
    <2> QED BY <2>2, FS_Interval
  <1>2. Held \subseteq DOMAIN ch
    BY SeqIsSeq DEF Held, IInv, Arrays, Types
  <1> QED BY <1>1, <1>2, FS_Subset, FS_CardinalityType

\* end_channel takes a channel of the connection off the total and kills it.
LEMMA EndChannelIInv ==
    ASSUME IInv, main.pc \in {"recv", "endconn"}, UNCHANGED <<sc, backlog, cl>>,
           NEW id, id \in ToSet(chans[conn]), NEW answer, EndChannel(id, answer)
    PROVE  IInv'
  <1>1. /\ conn \in Clients /\ conn \in ToSet(conns) /\ main.i \in DOMAIN conns /\ DOMAIN main = MainFields
    BY AtConn DEF IInv, Types
  <1>2. id \in DOMAIN ch /\ ch[id].conn = conn /\ ChanFields \subseteq DOMAIN ch[id]
    BY <1>1 DEF IInv, Arrays, Types
  <1>3. /\ DOMAIN main' = MainFields /\ main'.i = main.i /\ main'.pc = "join" /\ main'.at = id
    BY <1>1 DEF EndChannel, MainFields
  <1>4. /\ totalChannels' = totalChannels - 1 /\ UNCHANGED <<conns, room, chans, chanRoom>>
    BY DEF EndChannel, UncountChannel
  <1> DEFINE r == [ch[id] EXCEPT !.kill = TRUE]
  <1>5. ch' = [ch EXCEPT ![id] = r]
    BY <1>2 DEF EndChannel
  <1>6. DOMAIN r = DOMAIN ch[id] /\ r.conn = ch[id].conn /\ r.pc = ch[id].pc
    BY <1>2 DEF ChanFields
  <1> HIDE DEF r
  <1>7. ch' \in [DOMAIN ch -> ToSet(ch) \cup {r}]
    BY <1>5 DEF IInv, Types, IsSeq, ToSet
  <1>8. IsSeq(ch') /\ DOMAIN ch' = DOMAIN ch
    BY <1>7, SameDomain DEF IInv, Types
  <1>9. /\ \A k \in DOMAIN ch : ChanFields \subseteq DOMAIN ch'[k] /\ ch'[k].conn = ch[k].conn /\ ch'[k].pc = ch[k].pc
        /\ \A k \in DOMAIN ch : k # id => ch'[k] = ch[k]
        /\ ch'[id].kill = TRUE
    BY <1>2, <1>5, <1>6 DEF IInv, Types, ChanFields, r
  <1>10. Types'
    <2>1. Types /\ main'.pc \in MainStates /\ UNCHANGED <<sc, backlog, cl>>
      BY <1>3 DEF IInv, MainStates
    <2>2. totalChannels' \in Int
      BY <1>4, <2>1 DEF Types
    <2> QED BY ONLY <1>3, <1>4, <1>8, <1>9, <2>1, <2>2 DEF Types
  <1>11. Connections' /\ Rooms'
    BY <1>4 DEF IInv, Connections, Rooms
  <1>12. Arrays'
    BY <1>4, <1>8, <1>9 DEF IInv, Arrays
  <1>13. Threads'
    <2>1. \A k \in DOMAIN ch : Listed(k)' <=> Listed(k)
      BY <1>4, <1>9 DEF Listed
    <2>2. \A k \in DOMAIN ch : ~(ch[k].kill /\ Listed(k))
      BY DEF IInv, Threads
    <2> QED BY <1>3, <1>8, <1>9, <2>1, <2>2 DEF IInv, Threads
  <1>14. AtConnection'
    BY <1>1, <1>3, <1>4 DEF AtConnection, conn
  <1>15. Counted'
    <2>1. Held' = Held
      BY <1>4 DEF Held
    <2>2. totalChannels = Cardinality(Held) /\ totalChannels <= sc.slots /\ sc.slots \in Nat
      BY HeldFinite DEF IInv, Counted, Types
    <2>3. Cardinality(Held) \in Nat
      BY HeldFinite
    <2>4. sc' = sc
      OBVIOUS
    <2> QED BY ONLY <1>3, <1>4, <2>1, <2>2, <2>3, <2>4 DEF Counted
  <1> QED BY <1>10, <1>11, <1>12, <1>13, <1>14, <1>15 DEF IInv

\* The joined channel leaves the array.
LEMMA JoinIInv == ASSUME IInv, Join, UNCHANGED cl PROVE IInv'
  <1> SUFFICES ASSUME NEW c, c = conn, NEW id, id = main.at PROVE IInv'
    OBVIOUS
  <1>1. /\ main.pc = "join" /\ ch[id].pc = "exited" /\ UNCHANGED <<sc, backlog, ch, conns, room, totalChannels>>
        /\ chans' = [chans EXCEPT ![c] = RemoveFirst(@, id)]
        /\ chanRoom' = [chanRoom EXCEPT ![c] = Len(chans[c]) - 1]
    BY DEF Join, At, RemoveChannel, net
  <1>2. /\ c \in Clients /\ c \in ToSet(conns) /\ main.i \in DOMAIN conns /\ DOMAIN main = MainFields
        /\ chans[c] \in Seq(Nat) /\ Distinct(chans[c]) /\ id \in ToSet(chans[c])
    BY <1>1, AtConn DEF IInv, Types, AtConnection
  <1>3. DOMAIN main' = MainFields /\ main'.i = main.i /\ main'.pc \in {"endconn", "send"}
    BY <1>2 DEF Join, MainFields
  <1>4. id \in DOMAIN ch /\ ch[id].conn = c
    BY <1>2 DEF IInv, Arrays
  <1>5. /\ chans' \in [Clients -> Seq(Nat)] /\ Distinct(chans'[c])
        /\ ToSet(chans'[c]) = ToSet(chans[c]) \ {id} /\ Len(chans'[c]) = Len(chans[c]) - 1
        /\ Len(chans[c]) \in Nat
        /\ \A d \in Clients : d # c => chans'[d] = chans[d]
    <2> DEFINE t == RemoveFirst(chans[c], id)
    <2>1. t \in Seq(Nat) /\ Distinct(t) /\ ToSet(t) = ToSet(chans[c]) \ {id} /\ Len(t) = Len(chans[c]) - 1
          /\ Len(chans[c]) \in Nat
      BY <1>2, RemoveFirstSeq
    <2>2. chans' = [chans EXCEPT ![c] = t] /\ chans \in [Clients -> Seq(Nat)]
      BY <1>1 DEF IInv, Types
    <2> HIDE DEF t
    <2>3. chans'[c] = t /\ chans' \in [Clients -> Seq(Nat)] /\ \A d \in Clients : d # c => chans'[d] = chans[d]
      BY <1>2, <2>1, <2>2
    <2> QED BY ONLY <2>1, <2>3
  <1>6. Len(chans[c]) # 0
    BY <1>2 DEF ToSet
  <1>7. /\ chanRoom' \in [Clients -> Nat] /\ chanRoom'[c] = Len(chans[c]) - 1
        /\ \A d \in Clients : d # c => chanRoom'[d] = chanRoom[d]
    BY SMTT(30), <1>1, <1>2, <1>5, <1>6 DEF IInv, Types
  <1>8. Types'
    <2>1. Types /\ cl' = cl /\ main'.pc \in MainStates
      BY <1>3 DEF IInv, MainStates
    <2>2. UNCHANGED <<sc, backlog, ch, conns, room, totalChannels>>
      BY <1>1
    <2> QED BY ONLY <1>3, <1>5, <1>7, <2>1, <2>2 DEF Types
  <1>9. Connections' /\ Rooms'
    <2>1. Len(chans'[c]) <= chanRoom'[c] + 1
      BY <1>5, <1>7
    <2>2. \A d \in Clients : Len(chans'[d]) <= chanRoom'[d] + 1
      BY ONLY IInv, <1>5, <1>7, <2>1 DEF IInv, Rooms
    <2> QED BY <1>1, <2>2 DEF IInv, Connections, Rooms
  <1>10. Arrays'
    <2>1. UNCHANGED <<ch, conns>>
      BY <1>1
    <2> QED BY ONLY IInv, <1>2, <1>5, <2>1 DEF IInv, Arrays
  <1>11. \A k \in DOMAIN ch : Listed(k)' <=> Listed(k) /\ k # id
    <2>1. UNCHANGED ch /\ \A k \in DOMAIN ch : ch[k].conn \in Clients
      BY <1>1 DEF IInv, Types
    <2>2. ASSUME NEW k \in DOMAIN ch PROVE Listed(k)' <=> Listed(k) /\ k # id
      <3>1. CASE ch[k].conn = c
        BY ONLY <1>5, <2>1, <2>2, <3>1 DEF Listed
      <3>2. CASE ch[k].conn # c
        BY ONLY <1>4, <1>5, <2>1, <2>2, <3>2 DEF Listed
      <3> QED BY <3>1, <3>2
    <2> QED BY <2>2
  <1>12. Threads'
    <2>1. UNCHANGED ch
      BY <1>1
    <2> QED BY ONLY IInv, <1>1, <1>11, <2>1, id = main.at DEF IInv, Threads
  <1>13. AtConnection'
    BY <1>1, <1>2, <1>3 DEF AtConnection
  <1>14. Held' = Held \ {id} /\ id \in Held
    <2>1. \A d \in ToSet(conns) : d \in Clients
      BY SeqIsSeq DEF IInv, Types
    <2>2. \A d \in Clients : d # c => id \notin ToSet(chans[d])
      BY <1>4 DEF IInv, Arrays
    <2>3. conns' = conns
      BY <1>1
    <2> QED BY ONLY <1>2, <1>5, <2>1, <2>2, <2>3 DEF Held
  <1>15. Counted'
    <2>1. IsFiniteSet(Held) /\ Cardinality(Held) \in Nat
      BY HeldFinite
    <2>2. Cardinality(Held') = Cardinality(Held) - 1
      BY <1>14, <2>1, FS_RemoveElement
    <2>3. totalChannels = Cardinality(Held) - 1 /\ totalChannels <= sc.slots
      BY <1>1 DEF IInv, Counted
    <2>4. totalChannels' = totalChannels /\ sc' = sc
      BY <1>1
    <2> QED BY ONLY <1>3, <2>1, <2>2, <2>3, <2>4 DEF Counted
  <1> QED BY <1>8, <1>9, <1>10, <1>12, <1>13, <1>15 DEF IInv

\* end_connection, when the last channel is gone.
LEMMA RemoveConnectionIInv ==
    ASSUME IInv, main.pc = "endconn", chans[conn] = << >>, RemoveConnection(main.i),
           UNCHANGED <<sc, backlog, cl, ch>>, main' = Loop(main.fds, main.i + 1, RemoveAt(conns, main.i))
    PROVE  IInv'
  <1> SUFFICES ASSUME NEW c, c = conn PROVE IInv'
    OBVIOUS
  <1>1. /\ main.i \in DOMAIN conns /\ main.i \in Nat /\ conns \in Seq(Clients) /\ c = conns[main.i] /\ c \in Clients
        /\ Distinct(conns) /\ chans[c] = << >>
    BY AtConn DEF IInv, Connections, conn
  <1>2. conns' = RemoveAt(conns, main.i) /\ room' = Len(conns) - 1 /\ UNCHANGED <<chans, chanRoom, totalChannels>>
    BY DEF RemoveConnection
  <1>3. /\ conns' \in Seq(Clients) /\ Len(conns') = Len(conns) - 1 /\ Distinct(conns')
        /\ ToSet(conns') = ToSet(conns) \ {c} /\ Len(conns) \in Nat /\ room' \in Nat
    BY <1>1, <1>2, RemoveAtSeq
  <1>4. /\ DOMAIN main' = MainFields /\ main'.pc \in {"select", "recv"}
        /\ main'.pc = "recv" => main'.i \in DOMAIN conns'
    <2>1. main.i + 1 \in Nat \ {0} /\ main' = Loop(main.fds, main.i + 1, conns')
      BY <1>1, <1>2
    <2> QED BY ONLY <1>3, <2>1, LoopIn
  <1>5. Types'
    <2>1. Types /\ main'.pc \in MainStates /\ UNCHANGED <<sc, backlog, cl, ch>>
      BY <1>4 DEF IInv, MainStates
    <2> QED BY ONLY <1>2, <1>3, <1>4, <2>1 DEF Types
  <1>6. Connections' /\ Rooms'
    <2>1. UNCHANGED <<cl, backlog>> /\ Connections /\ Rooms
      BY DEF IInv
    <2> QED BY ONLY <1>2, <1>3, <2>1 DEF Connections, Rooms
  <1>7. Arrays' /\ Threads'
    <2>1. UNCHANGED ch /\ Arrays /\ Threads /\ main.pc = "endconn"
      BY DEF IInv
    <2> QED BY ONLY <1>1, <1>2, <1>3, <1>4, <2>1 DEF Arrays, Threads, Listed
  <1>8. AtConnection'
    BY <1>4 DEF AtConnection
  <1>9. Held' = Held
    <2>1. ToSet(chans[c]) = {}
      BY <1>1 DEF ToSet
    <2> QED BY ONLY <1>2, <1>3, <2>1 DEF Held
  <1>10. Counted'
    <2>1. Counted /\ UNCHANGED sc /\ main.pc # "join" /\ main'.pc # "join"
      BY <1>4 DEF IInv
    <2> QED BY ONLY <1>2, <1>9, <2>1 DEF Counted
  <1> QED BY <1>5, <1>6, <1>7, <1>8, <1>10 DEF IInv

\* A message is dispatched.
LEMMA HandleIInv ==
    ASSUME IInv, main.pc = "recv", NEW m, Handle(m), UNCHANGED <<sc, backlog, cl>>
    PROVE  IInv'
  <1>0. DOMAIN main = MainFields /\ conn \in Clients
    BY AtConn DEF IInv, Types
  <1>f. \A k : Found(m, k) \in {0} \cup ToSet(chans[conn])
    BY <1>0, FoundIn DEF IInv, Found
  <1>i. \A id \in ToSet(chans[conn]) : id \in DOMAIN ch /\ ChanFields \subseteq DOMAIN ch[id]
    BY <1>0 DEF IInv, Arrays, Types
  <1>1. CASE main' = [main EXCEPT !.pc = "endconn"] /\ UNCHANGED <<arrays, ch>>
    <2>1. DOMAIN main' = MainFields /\ main'.i = main.i /\ main'.pc = "endconn"
      BY <1>0, <1>1 DEF MainFields
    <2>2. main'.pc \in MainStates \ {"select", "join"} /\ main'.pc # "flag"
      BY <2>1 DEF MainStates
    <2> QED BY <1>1, <2>1, <2>2, SameCh, MainFieldsIInv
  <1>2. CASE UNCHANGED <<main, arrays, ch>>
    <2>1. Still
      BY <1>2 DEF Still
    <2> QED BY <2>1, StillPreserves
  <1>3. CASE (\E a : Answer(a)) /\ UNCHANGED <<arrays, ch>>
    BY <1>3, AnswerIInv
  <1>4. CASE Open(m)
    <2>1. CASE (\E a : Answer(a)) /\ UNCHANGED <<arrays, ch>>
      BY <2>1, <1>3
    <2>2. CASE ~((\E a : Answer(a)) /\ UNCHANGED <<arrays, ch>>)
      <3>1. \E a, handle : /\ totalChannels < sc.slots /\ new_channel(conn, Len(ch) + 1)
                           /\ ch' = Append(ch, NewChannel(m, handle)) /\ Answer(a)
        <4>1. totalChannels \in Int /\ sc.slots \in Nat
          BY DEF IInv, Types
        <4>2. totalChannels >= sc.slots \/ totalChannels < sc.slots
          BY <4>1
        <4> QED BY <1>4, <2>2, <4>2, Zenon DEF Open
      <3> QED BY <3>1, NewChannelIInv
    <2> QED BY <2>1, <2>2
  <1>5. CASE Found(m, m.recv) # 0 /\ EndChannel(Found(m, m.recv), Fin(m, << >>))
    BY <1>5, <1>f, EndChannelIInv
  <1>6. CASE /\ Readies(m) /\ ch' = [ch EXCEPT ![Found(m, m.recv)].ready = TRUE]
             /\ main' = NextEntry /\ UNCHANGED arrays
    <2> DEFINE id == Found(m, m.recv)
               r == [ch[id] EXCEPT !.ready = TRUE]
    <2>1. id \in DOMAIN ch /\ ChanFields \subseteq DOMAIN ch[id]
      BY <1>6, <1>f, <1>i DEF Readies
    <2>2. ch' = [ch EXCEPT ![id] = r] /\ DOMAIN r = DOMAIN ch[id]
          /\ r.conn = ch[id].conn /\ r.pc = ch[id].pc /\ r.kill = ch[id].kill
      BY <1>6, <2>1 DEF ChanFields
    <2>3. SameChannels
      BY <2>1, <2>2, OtherField DEF IInv
    <2> QED BY <1>6, <2>3, NextEntryIInv
  <1>7. CASE /\ Asks(m)
             /\ ch' = [ch EXCEPT ![Found(m, m.recv)].value = [seg |-> m.seg, live |-> TRUE],
                                 ![Found(m, m.recv)].clobbered = @ \/ ch[Found(m, m.recv)].data]
             /\ main' = [main EXCEPT !.pc = "flag", !.at = Found(m, m.recv)]
             /\ UNCHANGED arrays
    <2> DEFINE id == Found(m, m.recv)
               v == [seg |-> m.seg, live |-> TRUE]
               r == [ch[id] EXCEPT !.value = v, !.clobbered = @ \/ ch[id].data]
    <2>1. id \in DOMAIN ch /\ ChanFields \subseteq DOMAIN ch[id] /\ id \in ToSet(chans[conn])
      BY <1>7, <1>f, <1>i DEF Asks
    <2>2. ch' = [ch EXCEPT ![id] = r] /\ DOMAIN r = DOMAIN ch[id]
          /\ r.conn = ch[id].conn /\ r.pc = ch[id].pc /\ r.kill = ch[id].kill
      <3> HIDE DEF v, id
      <3>1. ch' = [ch EXCEPT ![id].value = v, ![id].clobbered = @ \/ ch[id].data]
        BY <1>7 DEF v, id
      <3> QED BY <2>1, <3>1 DEF ChanFields
    <2>3. SameChannels
      <3> HIDE DEF id, r
      <3> QED BY <2>1, <2>2, OtherField DEF IInv
    <2>4. DOMAIN main' = MainFields /\ main'.i = main.i /\ main'.pc = "flag" /\ main'.at = id
      <3> HIDE DEF id
      <3>1. main' = [main EXCEPT !.pc = "flag", !.at = id]
        BY <1>7 DEF id
      <3> QED BY <1>0, <3>1 DEF MainFields
    <2>5. main'.pc \in MainStates \ {"select", "join"} /\ (main'.pc = "flag" => main'.at \in ToSet(chans[conn]))
      BY <2>1, <2>4 DEF MainStates
    <2> QED BY <1>7, <2>3, <2>4, <2>5, MainFieldsIInv
  <1> QED BY <1>1, <1>2, <1>3, <1>4, <1>5, <1>6, <1>7 DEF Handle

\* The select loop preserves the invariant.
LEMMA MainStepIInv == ASSUME IInv, MainStep, UNCHANGED cl PROVE IInv'
  <1>1. CASE Select
    BY <1>1, SelectIInv
  <1>2. CASE Receive
    <2>1. main.pc = "recv" /\ UNCHANGED <<sc, backlog>> /\ \E m : Handle(m)
      BY <1>2 DEF Receive, At
    <2> QED BY <2>1, HandleIInv
  <1>3. CASE Flag
    <2> DEFINE id == main.at
               r == [ch[id] EXCEPT !.data = TRUE]
    <2>1. /\ main.pc = "flag" /\ ch' = [ch EXCEPT ![id].data = TRUE] /\ main' = NextEntry
          /\ UNCHANGED <<sc, backlog, arrays>>
      BY <1>3 DEF Flag, At, net
    <2>2. id \in DOMAIN ch /\ ChanFields \subseteq DOMAIN ch[id]
      <3>1. id \in ToSet(chans[conn]) /\ conn \in Clients
        BY <2>1, AtConn DEF IInv, AtConnection
      <3> QED BY <3>1 DEF IInv, Arrays, Types
    <2>3. ch' = [ch EXCEPT ![id] = r] /\ DOMAIN r = DOMAIN ch[id]
          /\ r.conn = ch[id].conn /\ r.pc = ch[id].pc /\ r.kill = ch[id].kill
      BY <2>1, <2>2 DEF ChanFields
    <2>4. SameChannels
      BY <2>2, <2>3, OtherField DEF IInv
    <2> QED BY <2>1, <2>4, NextEntryIInv
  <1>4. CASE Reply
    <2>1. main.pc = "send" /\ send_msg(Main, conn, main.answer, NextEntry, ch)
      BY <1>4 DEF Reply, At
    <2>2. \/ UNCHANGED <<sc, arrays, backlog, ch>> /\ main' = NextEntry
          \/ Still
      BY <2>1, DiesStill DEF send_msg, Write, WriteWaits, WriteFails, WriteKills, net, Still
    <2>3. CASE UNCHANGED <<sc, arrays, backlog, ch>> /\ main' = NextEntry
      BY <2>1, <2>3, SameCh, NextEntryIInv
    <2> QED BY <2>2, <2>3, StillPreserves
  <1>5. CASE Join
    BY <1>5, JoinIInv
  <1>6. CASE EndConnection
    <2>1. main.pc = "endconn" /\ UNCHANGED <<sc, backlog>>
      BY <1>6 DEF EndConnection, At
    <2>2. CASE chans[conn] # << >>
      <3>1. EndChannel(Head(chans[conn]), Null)
        BY <1>6, <2>2 DEF EndConnection
      <3>2. chans[conn] \in Seq(Nat)
        BY <2>1, AtConn
      <3>3. 1 \in DOMAIN chans[conn] /\ Head(chans[conn]) = chans[conn][1]
        BY <2>2, <3>2
      <3>4. Head(chans[conn]) \in ToSet(chans[conn])
        BY <3>3 DEF ToSet
      <3> QED BY <2>1, <3>1, <3>4, EndChannelIInv
    <2>3. CASE chans[conn] = << >>
      BY <1>6, <2>1, <2>3, RemoveConnectionIInv DEF EndConnection
    <2> QED BY <2>2, <2>3
  <1> QED BY <1>1, <1>2, <1>3, <1>4, <1>5, <1>6 DEF MainStep

---------------------------------------------------------------------------
\* The server starts without connections and channels.
LEMMA InitIInv == Init => IInv
  <1> SUFFICES ASSUME Init PROVE IInv
    OBVIOUS
  <1>1. /\ conns = << >> /\ room = 0 /\ chans = [c \in Clients |-> << >>]
        /\ chanRoom = [c \in Clients |-> 0] /\ totalChannels = 0
        /\ main = [pc |-> "select", fds |-> {}, i |-> 1, answer |-> Null, at |-> 0]
        /\ ch = << >> /\ backlog = << >> /\ sc \in Scenarios
    BY DEF Init, NetInit, ServerInit, ArraysInit
  <1>2. ToSet(conns) = {} /\ ToSet(backlog) = {} /\ DOMAIN ch = {}
    BY <1>1 DEF ToSet
  <1>22. IsSeq(ch)
    <2>1. ch \in Seq({})
      BY <1>1
    <2> QED BY <2>1, SeqIsSeq
  <1>3. DOMAIN cl = Clients /\ \A c \in Clients : "pc" \in DOMAIN cl[c] /\ cl[c].pc \in ClientStates
    BY DEF Init, ClientInit, ClientStates
  <1>4. DOMAIN main = MainFields /\ main.pc = "select"
    BY <1>1 DEF MainFields
  <1>5. Types
    BY <1>1, <1>2, <1>22, <1>3, <1>4, TransferAssumption DEF Types, MainStates
  <1>6. Connections /\ Rooms
    BY <1>1, <1>2 DEF Connections, Rooms, Distinct
  <1>7. Arrays
    BY <1>1 DEF Arrays, ToSet, Distinct
  <1>8. Threads /\ AtConnection
    BY <1>2, <1>4 DEF Threads, AtConnection
  <1>9. Held = {}
    BY <1>2 DEF Held
  <1>10. Counted
    BY <1>1, <1>4, <1>5, <1>9, FS_EmptySet DEF Counted, Types
  <1> QED BY <1>5, <1>6, <1>7, <1>8, <1>10 DEF IInv

\* Every reachable state satisfies the invariant.
THEOREM Invariance == Spec => []IInv
  <1>1. ASSUME IInv, Next PROVE IInv'
    <2>1. CASE ServerMain
      BY <1>1, <2>1, MainStepIInv DEF ServerMain
    <2>2. CASE \E id \in 1 .. MaxChannels : ServerThread(id)
      BY <1>1, <2>2, ThreadStepIInv DEF ServerThread
    <2>3. CASE \E c \in Clients : Client(c)
      BY <1>1, <2>3, ClientIInv
    <2>4. CASE Disturb
      BY <1>1, <2>4, DisturbIInv
    <2> QED BY <1>1, <2>1, <2>2, <2>3, <2>4 DEF Next
  <1>2. ASSUME IInv, UNCHANGED vars PROVE IInv'
    <2>1. Still /\ UNCHANGED cl
      BY <1>2 DEF vars, Still, net, serverVars
    <2> QED BY <1>2, <2>1, StillPreserves
  <1> QED BY InitIInv, <1>1, <1>2, PTL DEF Spec

\* No slot leaks with a connection.
THEOREM SlotsAccounted == Spec => []ThreadsAccounted
  <1>1. IInv => ThreadsAccounted
    <2> SUFFICES ASSUME IInv PROVE ThreadsAccounted
      OBVIOUS
    <2>1. ASSUME main.pc # "join" PROVE Running = Held
      <3>1. ASSUME NEW id \in Running PROVE id \in Held
        <4>1. id \in DOMAIN ch /\ ch[id].conn \in Clients /\ id \in ToSet(chans[ch[id].conn])
          BY <3>1 DEF IInv, Threads, Types, Listed, Running
        <4>2. ch[id].conn \in ToSet(conns)
          BY <4>1 DEF IInv, Arrays, ToSet
        <4> QED BY <4>1, <4>2 DEF Held
      <3>2. \A id \in Held : id \in DOMAIN ch /\ Listed(id)
        BY SeqIsSeq DEF IInv, Arrays, Types, Held, Listed
      <3>3. \A id \in Held : ch[id].pc # "exited"
        BY <2>1, <3>2 DEF IInv, Threads
      <3> QED BY <3>1, <3>2, <3>3 DEF Running
    <2>2. main.pc # "join" => totalChannels = Cardinality(Held)
      BY HeldFinite DEF IInv, Counted
    <2> QED BY <2>1, <2>2 DEF ThreadsAccounted, IInv, Counted, Arrays, Rooms
  <1> QED BY Invariance, <1>1, PTL

\* The fields of a message, of a client and of a channel.
MsgFields == {"send", "recv", "chan", "type", "seg", "content", "intact"}
ClientFields == {"pc", "cycle", "other", "count", "got", "missing", "out", "pos", "result",
                 "sendLocked", "recvLocked", "missed", "inStep"}
ThreadFields == {"conn", "other", "maxSize", "handle", "ready", "kill", "data", "value", "pc", "next",
                 "finished", "again", "used", "clobbered"}

\* A message as form_msg builds it.
Formed(m) == DOMAIN m = MsgFields /\ m.intact /\ m.chan # "OPEN"

\* A sequence of messages.
Mails(q) == IsSeq(q) /\ \A k \in DOMAIN q : DOMAIN q[k] = MsgFields

\* Every socket holds messages; every client and every channel has its fields; an answer is a
\* message, built by form_msg and not yet sent.
NetShapes ==
    /\ DOMAIN toServer = Clients /\ DOMAIN toClient = Clients
    /\ DOMAIN gone = Clients /\ DOMAIN shut = Clients
    /\ \A c \in Clients : Mails(toServer[c]) /\ Mails(toClient[c])
ClientShapes == DOMAIN cl = Clients /\ \A c \in Clients : DOMAIN cl[c] = ClientFields /\ cl[c].cycle \in Nat
ThreadShapes ==
    \A id \in DOMAIN ch : DOMAIN ch[id] = ThreadFields /\ DOMAIN ch[id].value = {"seg", "live"}
AnswerShapes ==
    /\ main.pc = "send" => Formed(main.answer)
    /\ main.pc = "join" => main.answer = Null \/ Formed(main.answer)

\* num_segments_in_file_handle of a channel's file (file_handle.c:137-139).
NumOf(x) == num_segments_in_file_handle(handles[x.handle].bytes, x.maxSize)

\* The invariant of the shapes.
Shapes == NetShapes /\ ClientShapes /\ ThreadShapes /\ AnswerShapes

---------------------------------------------------------------------------
\* A message is added.
LEMMA AppendMails ==
    ASSUME NEW q, Mails(q), NEW m, DOMAIN m = MsgFields
    PROVE  Mails(Append(q, m))
  BY AppendSeq DEF Mails

\* The first message is taken off.
LEMMA TailSeq ==
    ASSUME NEW q, IsSeq(q), q # << >>
    PROVE  /\ Head(q) = q[1] /\ 1 \in DOMAIN q /\ Len(q) \in Nat /\ DOMAIN q = 1 .. Len(q)
           /\ IsSeq(Tail(q)) /\ Len(Tail(q)) = Len(q) - 1 /\ DOMAIN Tail(q) = 1 .. Len(q) - 1
           /\ \A k \in 1 .. Len(q) - 1 : Tail(q)[k] = q[k + 1] /\ k + 1 \in DOMAIN q
  <1>1. q \in Seq(ToSet(q))
    BY DEF IsSeq
  <1>2. /\ Tail(q) \in Seq(ToSet(q)) /\ Len(Tail(q)) = Len(q) - 1 /\ Len(q) \in Nat /\ Len(q) # 0
        /\ DOMAIN q = 1 .. Len(q) /\ Head(q) = q[1]
        /\ \A k \in 1 .. Len(q) - 1 : Tail(q)[k] = q[k + 1]
    BY <1>1
  <1>3. IsSeq(Tail(q))
    BY <1>2, SeqIsSeq
  <1> QED BY <1>2, <1>3

\* The first message is taken off.
LEMMA TailMails ==
    ASSUME NEW q, Mails(q), q # << >>
    PROVE  Mails(Tail(q)) /\ DOMAIN Head(q) = MsgFields /\ Head(q) # Null
  <1>1. Mails(Tail(q)) /\ DOMAIN Head(q) = MsgFields
    BY TailSeq DEF Mails
  <1>2. DOMAIN Null = {"msg"} /\ "msg" \notin MsgFields
    BY DEF Null, MsgFields
  <1> QED BY <1>1, <1>2

\* A message is damaged.
LEMMA AlterMails ==
    ASSUME NEW q, Mails(q), q # << >>, NEW r, DOMAIN r = MsgFields
    PROVE  /\ Mails([q EXCEPT ![1] = r]) /\ DOMAIN [q EXCEPT ![1] = r] = DOMAIN q
           /\ Len([q EXCEPT ![1] = r]) = Len(q)
  <1> DEFINE t == [q EXCEPT ![1] = r]
  <1>1. t \in [DOMAIN q -> ToSet(q) \cup {r}]
    BY DEF Mails, IsSeq, ToSet
  <1>2. IsSeq(t) /\ Len(t) = Len(q) /\ DOMAIN t = DOMAIN q
    BY <1>1, SameDomain DEF Mails
  <1>3. \A k \in DOMAIN t : DOMAIN t[k] = MsgFields
    BY <1>2 DEF Mails
  <1> QED BY <1>2, <1>3 DEF Mails

\* A message is written, behind the others or into the first one.
LEMMA SentMails ==
    ASSUME NEW q, Mails(q), NEW end, NEW m, DOMAIN m = MsgFields
    PROVE  Mails(Sent(q, end, m))
  <1>1. CASE end = "no" /\ Torn(q)
    <2> DEFINE r == [q[1] EXCEPT !.chan = "PART"]
    <2>1. q # << >> /\ 1 \in DOMAIN q /\ DOMAIN r = MsgFields
      BY <1>1, TailSeq DEF Torn, Mails
    <2>2. Sent(q, end, m) = [q EXCEPT ![1] = r]
      BY <1>1, <2>1 DEF Sent
    <2> HIDE DEF r
    <2>3. Mails([q EXCEPT ![1] = r])
      BY <2>1, AlterMails
    <2> QED BY <2>2, <2>3
  <1> QED BY <1>1, AppendMails DEF Sent

\* Message r is m, or what damage made of it.
Comes(r, m) ==
    \/ r = m
    \/ (~r.intact \/ r.chan = "PART") /\ r.type = m.type /\ r.seg = m.seg /\ r.content = m.content

\* The frames of a stream are altered.
LEMMA UnframedMails ==
    ASSUME NEW q, Mails(q), q # << >>, NEW r, NEW t \in Unframed(q, r)
    PROVE  Mails(t) /\ t # << >> /\ \A k \in DOMAIN t : \E j \in DOMAIN q : Comes(t[k], q[j])
  <1> DEFINE p == [Head(q) EXCEPT !.intact = FALSE, !.chan = "PART", !.recv = r]
             o == [p EXCEPT !.chan = "OPEN"]
  <1>1. /\ DOMAIN p = MsgFields /\ DOMAIN o = MsgFields /\ 1 \in DOMAIN q /\ Comes(p, q[1]) /\ Comes(o, q[1])
        /\ t \in {<<p, p>> \o Tail(q), IF Len(q) > 1 THEN <<p>> \o Tail(Tail(q)) ELSE <<o>>}
    BY TailMails, TailSeq DEF Unframed, MsgFields, Comes, Mails
  <1> HIDE DEF p, o
  <1>2. ASSUME NEW u, IsSeq(u), NEW v, Mails(v), t = u \o v, u # << >>,
               \A k \in DOMAIN u : DOMAIN u[k] = MsgFields /\ Comes(u[k], q[1]),
               \A k \in DOMAIN v : \E j \in DOMAIN q : v[k] = q[j]
        PROVE  Mails(t) /\ t # << >> /\ \A k \in DOMAIN t : \E j \in DOMAIN q : Comes(t[k], q[j])
    <2> DEFINE A == ToSet(u) \cup ToSet(v)
    <2>1. u \in Seq(A) /\ v \in Seq(A)
      BY <1>2, SeqIsSeq DEF Mails, IsSeq
    <2>2. /\ t \in Seq(A) /\ Len(t) = Len(u) + Len(v) /\ Len(u) \in Nat \ {0} /\ Len(v) \in Nat
          /\ DOMAIN t = 1 .. Len(t) /\ DOMAIN u = 1 .. Len(u) /\ DOMAIN v = 1 .. Len(v)
          /\ \A k \in 1 .. Len(t) : t[k] = IF k <= Len(u) THEN u[k] ELSE v[k - Len(u)]
      <3> HIDE DEF A
      <3> QED BY <1>2, <2>1
    <2>3. IsSeq(t)
      BY <2>2, SeqIsSeq
    <2>4. \A k \in DOMAIN t : (k \in DOMAIN u /\ t[k] = u[k]) \/ (k - Len(u) \in DOMAIN v /\ t[k] = v[k - Len(u)])
      BY <2>2
    <2>5. \A k \in DOMAIN t : \E j \in DOMAIN q : Comes(t[k], q[j])
      BY <1>1, <1>2, <2>4 DEF Comes
    <2> QED BY <1>2, <2>2, <2>3, <2>4, <2>5 DEF Mails
  <1>3. CASE t = <<p, p>> \o Tail(q)
    <2>1. IsSeq(<<p, p>>) /\ DOMAIN <<p, p>> = {1, 2} /\ <<p, p>> # << >>
      <3>1. <<p, p>> \in Seq({p}) /\ DOMAIN <<p, p>> = {1, 2} /\ <<p, p>> # << >>
        OBVIOUS
      <3> QED BY <3>1, SeqIsSeq
    <2>2. \A k \in {1, 2} : <<p, p>>[k] = p
      OBVIOUS
    <2>3. Mails(Tail(q)) /\ \A k \in DOMAIN Tail(q) : \E j \in DOMAIN q : Tail(q)[k] = q[j]
      BY TailMails, TailSeq DEF Mails
    <2> QED BY <1>1, <1>2, <1>3, <2>1, <2>2, <2>3
  <1>4. CASE Len(q) > 1 /\ t = <<p>> \o Tail(Tail(q))
    <2>1. IsSeq(<<p>>) /\ DOMAIN <<p>> = {1} /\ <<p>> # << >>
      <3>1. <<p>> \in Seq({p}) /\ DOMAIN <<p>> = {1} /\ <<p>> # << >>
        OBVIOUS
      <3> QED BY <3>1, SeqIsSeq
    <2> DEFINE v == Tail(q)
    <2>2. Mails(v) /\ \A k \in DOMAIN v : \E j \in DOMAIN q : v[k] = q[j]
      BY TailMails, TailSeq DEF Mails
    <2>3. v # << >>
      <3>1. Len(v) # 0
        BY <1>4, TailSeq DEF Mails
      <3> HIDE DEF v
      <3> QED BY <3>1
    <2>4. t = <<p>> \o Tail(v)
      BY <1>4
    <2> HIDE DEF v
    <2>5. Mails(Tail(v)) /\ \A k \in DOMAIN Tail(v) : \E j \in DOMAIN q : Tail(v)[k] = q[j]
      BY <2>2, <2>3, TailMails, TailSeq DEF Mails
    <2>6. \A k \in {1} : <<p>>[k] = p
      OBVIOUS
    <2> QED BY <1>1, <1>2, <2>1, <2>4, <2>5, <2>6
  <1>5. CASE t = <<o>>
    <2>1. <<o>> \in Seq({o}) /\ DOMAIN <<o>> = {1} /\ <<o>>[1] = o /\ <<o>> # << >>
      OBVIOUS
    <2> QED BY <1>1, <1>5, <2>1, SeqIsSeq DEF Mails
  <1> QED BY <1>1, <1>3, <1>4, <1>5

\* An empty socket.
LEMMA EmptyMails == Mails(<< >>)
  <1>1. << >> \in Seq({}) /\ DOMAIN << >> = {}
    OBVIOUS
  <1>2. IsSeq(<< >>)
    BY <1>1, SeqIsSeq
  <1> QED BY <1>1, <1>2 DEF Mails

\* What the socket of one client may become.
Socket(c) ==
    /\ DOMAIN toServer' = Clients /\ DOMAIN toClient' = Clients /\ DOMAIN gone' = Clients /\ DOMAIN shut' = Clients
    /\ \A d \in Clients \ {c} : toServer'[d] = toServer[d] /\ toClient'[d] = toClient[d]
    /\ Mails(toServer'[c]) /\ Mails(toClient'[c])

\* connect.
LEMMA SocketShapes == ASSUME NetShapes, NEW c \in Clients, Socket(c) PROVE NetShapes'
  BY DEF NetShapes, Socket

\* A client's own record.
LEMMA RecordShapes ==
    ASSUME ClientShapes, NEW c \in Clients, NEW r, cl' = [cl EXCEPT ![c] = r], DOMAIN r = ClientFields, r.cycle \in Nat
    PROVE  ClientShapes'
  BY DEF ClientShapes

\* send_msg of a client.
LEMMA SendShapes ==
    ASSUME NetShapes, ClientShapes, NEW c \in Clients, NEW m, DOMAIN m = MsgFields,
           NEW r, DOMAIN r = ClientFields, r.cycle \in Nat, client_send(c, m, r)
    PROVE  NetShapes' /\ ClientShapes'
  <1>1. CASE SendOk(c, m, r)
    <2>1. Mails(Sent(toServer[c], ServerEnd(c), m))
      BY SentMails DEF NetShapes
    <2>2. Socket(c)
      BY <1>1, <2>1 DEF SendOk, NetShapes, Socket
    <2>3. ClientShapes'
      BY <1>1, RecordShapes DEF SendOk, Become
    <2> QED BY <2>2, <2>3, SocketShapes
  <1>2. CASE SendFails(c, r)
    <2> DEFINE t == [r EXCEPT !.sendLocked = TRUE]
    <2>1. DOMAIN t = ClientFields /\ t.cycle \in Nat
      BY DEF ClientFields
    <2>2. cl' = [cl EXCEPT ![c] = t] /\ UNCHANGED net
      BY <1>2 DEF SendFails, Become
    <2>3. NetShapes'
      BY <2>2 DEF NetShapes, net
    <2> HIDE DEF t
    <2> QED BY <2>1, <2>2, <2>3, RecordShapes
  <1>3. CASE SendKills(c)
    <2> DEFINE t == [cl[c] EXCEPT !.pc = "crashed"]
    <2>1. DOMAIN t = ClientFields /\ t.cycle \in Nat
      BY DEF ClientFields, ClientShapes
    <2>2. cl' = [cl EXCEPT ![c] = t]
      BY <1>3 DEF SendKills, Exits, ClientShapes
    <2>3. Socket(c)
      BY <1>3, EmptyMails DEF SendKills, Exits, Socket, NetShapes
    <2> HIDE DEF t
    <2> QED BY <2>1, <2>2, <2>3, RecordShapes, SocketShapes
  <1> QED BY <1>1, <1>2, <1>3 DEF client_send

\* exit and return of main of a client.
LEMMA ExitsShapes ==
    ASSUME NetShapes, ClientShapes, NEW c \in Clients, NEW pc, Exits(c, pc), UNCHANGED <<toServer, shut>>
    PROVE  NetShapes' /\ ClientShapes'
  <1> DEFINE t == [cl[c] EXCEPT !.pc = pc]
  <1>1. DOMAIN t = ClientFields /\ t.cycle \in Nat
    BY DEF ClientFields, ClientShapes
  <1>2. cl' = [cl EXCEPT ![c] = t]
    BY DEF Exits, ClientShapes
  <1>3. Socket(c)
    BY EmptyMails DEF Exits, Socket, NetShapes
  <1> HIDE DEF t
  <1> QED BY <1>1, <1>2, <1>3, RecordShapes, SocketShapes

\* What a client has left to read.
LEMMA ReadMails ==
    ASSUME NetShapes, NEW c \in Clients
    PROVE  /\ Mails(Read(c).rest)
           /\ Taken(c) => /\ toClient[c] # << >> /\ Read(c).msg = toClient[c][1]
                          /\ Read(c).rest = Tail(toClient[c]) /\ DOMAIN Read(c).msg = MsgFields
                          /\ sc.receiver # "stub" /\ ~Torn(toClient[c])
  BY EmptyMails, TailMails, TailSeq DEF NetShapes, Read, recv_msg, Framed, Taken, Mails

\* recv_msg of a client.
LEMMA TakesShapes ==
    ASSUME NetShapes, ClientShapes, NEW c \in Clients,
           NEW r, DOMAIN r = ClientFields, r.cycle \in Nat, Takes(c, r)
    PROVE  NetShapes' /\ ClientShapes'
  <1> DEFINE t == [r EXCEPT !.recvLocked = Read(c).locked]
  <1>1. DOMAIN t = ClientFields /\ t.cycle \in Nat
    BY DEF ClientFields
  <1>2. cl' = [cl EXCEPT ![c] = t]
    BY DEF Takes, Become
  <1>3. Socket(c)
    BY ReadMails DEF Takes, Socket, NetShapes
  <1> HIDE DEF t
  <1> QED BY <1>1, <1>2, <1>3, RecordShapes, SocketShapes

\* A client's step leaves messages and records as they should be.
LEMMA ClientStepShapes ==
    ASSUME NetShapes, ClientShapes, NEW c \in Clients, ClientStep(c)
    PROVE  NetShapes' /\ ClientShapes'
  <1> DEFINE s == cl[c]
  <1>0. DOMAIN s = ClientFields /\ s.cycle \in Nat
    BY DEF ClientShapes
  <1>a. CASE Crashes(c)
    BY <1>a, ExitsShapes DEF Crashes
  <1>c. CASE GivesUp(c)
    <2> DEFINE r == [s EXCEPT !.pc = "fin", !.result = "gave up"]
    <2>1. Takes(c, r)
      BY <1>c DEF GivesUp
    <2>2. DOMAIN r = ClientFields /\ r.cycle \in Nat
      BY <1>0 DEF ClientFields
    <2> QED BY <2>1, <2>2, TakesShapes
  <1>d. ASSUME NEW pc, NEW sID, NEW rID, NEW t, NEW d, NEW n, NEW content,
               client_send(c, form_msg(sID, rID, t, d, n, content), [s EXCEPT !.pc = pc])
        PROVE  NetShapes' /\ ClientShapes'
    <2> DEFINE r == [s EXCEPT !.pc = pc]
    <2>1. DOMAIN r = ClientFields /\ r.cycle \in Nat
      BY <1>0 DEF ClientFields
    <2>2. DOMAIN form_msg(sID, rID, t, d, n, content) = MsgFields
      BY DEF form_msg, MsgFields
    <2> HIDE DEF r
    <2>3. client_send(c, form_msg(sID, rID, t, d, n, content), r)
      BY <1>d DEF r
    <2> QED BY <2>1, <2>2, <2>3, SendShapes
  <1>1. CASE Syn(c) \/ SynAgain(c) \/ Rts(c) \/ Cease(c) \/ Bye(c)
    BY <1>1, <1>d DEF Syn, SynAgain, Rts, Cease, Bye
  <1>2. CASE Ack(c)
    <2>1. CASE Takes(c, [cl[c] EXCEPT !.pc = "again"])
      <3> DEFINE r == [s EXCEPT !.pc = "again"]
      <3>1. Takes(c, r) /\ DOMAIN r = ClientFields /\ r.cycle \in Nat
        BY <1>0, <2>1 DEF ClientFields
      <3> QED BY <3>1, TakesShapes
    <2>2. ASSUME NEW n, Takes(c, [cl[c] EXCEPT !.pc = "ready", !.other = Read(c).msg.send, !.count = n,
                                     !.inStep = Expected(c, Read(c).msg, "ACK", n)])
          PROVE  NetShapes' /\ ClientShapes'
      <3> DEFINE r == [s EXCEPT !.pc = "ready", !.other = Read(c).msg.send, !.count = n,
                                !.inStep = Expected(c, Read(c).msg, "ACK", n)]
      <3>1. Takes(c, r) /\ DOMAIN r = ClientFields /\ r.cycle \in Nat
        BY <1>0, <2>2 DEF ClientFields
      <3> QED BY <3>1, TakesShapes
    <2> QED BY <1>2, <1>a, <2>1, <2>2 DEF Ack
  <1>3. CASE Ready(c)
    <2> DEFINE r == IF s.count = 0 THEN [s EXCEPT !.pc = "fin", !.result = "not found"]
                    ELSE [s EXCEPT !.pc = "gather", !.got = 0, !.missing = {}, !.missed = {},
                                   !.out = << >>, !.pos = 0, !.result = "none"]
               m == form_msg(selfID(c), s.other, "CONTROL", "SYN", MAX_SIZE, sc.file)
    <2>1. DOMAIN r = ClientFields /\ r.cycle \in Nat
      BY <1>0 DEF ClientFields
    <2>2. client_send(c, m, r)
      BY <1>3 DEF Ready
    <2>3. DOMAIN m = MsgFields
      BY DEF form_msg, MsgFields
    <2> HIDE DEF m, r
    <2> QED BY <2>1, <2>2, <2>3, SendShapes
  <1>4. CASE Gather(c)
    <2>1. ASSUME NEW t, DOMAIN t = ClientFields, t.cycle \in Nat, Takes(c, Gathered(t))
          PROVE  NetShapes' /\ ClientShapes'
      <3>1. DOMAIN Gathered(t) = ClientFields /\ Gathered(t).cycle \in Nat
        BY <2>1 DEF Gathered, Onward, ClientFields
      <3> QED BY <2>1, <3>1, TakesShapes
    <2> DEFINE m == Read(c).msg
               n == s.got + 1
               u == [s EXCEPT !.got = n, !.inStep = Expected(c, m, "SYN", n)]
               t == IF m.intact
                    THEN [u EXCEPT !.out = fwrite(@, u.pos, m.content), !.pos = @ + Len(m.content)]
                    ELSE [u EXCEPT !.missing = @ \cup {n}, !.missed = @ \cup {n}]
    <2>2. CASE Takes(c, Gathered(t))
      <3>1. DOMAIN t = ClientFields /\ t.cycle \in Nat
        BY <1>0 DEF ClientFields
      <3> HIDE DEF t
      <3> QED BY <2>1, <2>2, <3>1
    <2> QED BY <1>4, <1>c, <2>2 DEF Gather
  <1>6. CASE AnswerRead(c)
    <2>1. ASSUME NEW t, DOMAIN t = ClientFields, t.cycle \in Nat, Takes(c, Onward(t))
          PROVE  NetShapes' /\ ClientShapes'
      <3>1. DOMAIN Onward(t) = ClientFields /\ Onward(t).cycle \in Nat
        BY <2>1 DEF Onward, ClientFields
      <3> QED BY <2>1, <3>1, TakesShapes
    <2> DEFINE m == Read(c).msg
               low == Min(s.missing)
               u == [s EXCEPT !.inStep = Expected(c, m, "SYN", low)]
               t == IF m.intact THEN Repaired(u, low, m) ELSE u
    <2>2. CASE Takes(c, Onward(t))
      <3>1. DOMAIN u = ClientFields /\ u.cycle \in Nat
        BY <1>0 DEF ClientFields
      <3>2. DOMAIN t = ClientFields /\ t.cycle \in Nat
        <4> HIDE DEF u, low, m
        <4> QED BY <3>1 DEF Repaired, ClientFields
      <3> HIDE DEF t
      <3> QED BY <2>1, <2>2, <3>2
    <2> QED BY <1>6, <1>c, <2>2 DEF AnswerRead
  <1>8. CASE FinAck(c)
    <2> DEFINE u == [s EXCEPT !.inStep = Expected(c, Read(c).msg, "FIN", 0), !.other = 0]
               r == IF u.cycle < sc.downloads THEN [u EXCEPT !.pc = "syn", !.cycle = @ + 1]
                    ELSE [u EXCEPT !.pc = "bye"]
    <2>1. CASE Takes(c, r)
      <3>1. DOMAIN r = ClientFields /\ r.cycle \in Nat
        BY <1>0 DEF ClientFields
      <3> HIDE DEF r
      <3> QED BY <2>1, <3>1, TakesShapes
    <2> QED BY <1>8, <1>a, <2>1 DEF FinAck
  <1>10. CASE Close(c)
    BY <1>10, ExitsShapes DEF Close
  <1>11. CASE Connect(c)
    <2> DEFINE r == [s EXCEPT !.pc = "syn"]
    <2>1. DOMAIN r = ClientFields /\ r.cycle \in Nat
      BY <1>0 DEF ClientFields
    <2>2. cl' = [cl EXCEPT ![c] = r] /\ NetShapes'
      BY <1>11 DEF Connect, Become, NetShapes
    <2> HIDE DEF r
    <2> QED BY <2>1, <2>2, RecordShapes
  <1> QED BY <1>1, <1>2, <1>3, <1>4, <1>6, <1>8, <1>10, <1>11 DEF ClientStep

\* send_msg of the server to client c.
LEMMA WriteShapes ==
    ASSUME NetShapes, NEW c \in Clients, NEW w, NEW m, DOMAIN m = MsgFields, NEW main2, NEW ch2,
           send_msg(w, c, m, main2, ch2)
    PROVE  NetShapes'
  <1>1. CASE Write(w, c, m, main2, ch2)
    <2>1. Mails(Sent(toClient[c], gone[c], m))
      BY SentMails DEF NetShapes
    <2>2. Socket(c)
      BY <1>1, <2>1 DEF Write, NetShapes, Socket
    <2> QED BY <2>2, SocketShapes
  <1>2. CASE ~Write(w, c, m, main2, ch2)
    <2>1. UNCHANGED <<toServer, toClient, gone, shut>>
      BY <1>2 DEF send_msg, WriteWaits, WriteFails, WriteKills, Dies, net
    <2> QED BY <2>1 DEF NetShapes
  <1> QED BY <1>1, <1>2

\* The record of one thread is replaced.
LEMMA ThreadRecordShapes ==
    ASSUME ThreadShapes, NEW id, id \in DOMAIN ch, NEW r, ch' = [ch EXCEPT ![id] = r],
           DOMAIN r = ThreadFields, DOMAIN r.value = {"seg", "live"}
    PROVE  ThreadShapes'
  BY DEF ThreadShapes

\* What a step of a thread does to its record.
Steps(x, y) ==
    \/ /\ x.pc = "top" \/ (x.pc = "wait" /\ (x.ready \/ x.kill))
       /\ x.kill \/ x.data \/ ~x.finished \/ x.again # {}
       /\ y = [x EXCEPT !.pc = IF x.kill THEN "exit" ELSE IF x.data THEN "relay" ELSE "work"]
    \/ /\ x.pc = "relay"
       /\ \E n \in {x.value.seg} \cup (IF x.value.live THEN {} ELSE {Stray}) :
            y = [x EXCEPT !.again = @ \cup {n}, !.used = TRUE, !.pc = "free"]
    \/ /\ x.pc = "free"
       /\ y = [x EXCEPT !.value.live = FALSE, !.pc = "clear"]
    \/ /\ x.pc = "clear"
       /\ y = [x EXCEPT !.data = FALSE, !.pc = "work"]
    \/ /\ x.pc = "work" /\ ~x.finished /\ ~(x.next <= NumOf(x) + 1)
       /\ y = [x EXCEPT !.finished = TRUE, !.pc = "top"]
    \/ /\ x.pc = "exit"
       /\ y = [x EXCEPT !.pc = "exited", !.value.live = @ /\ ~x.data]

\* One segment is read from the file and sent, a next one or one
\* that was asked for again (server_help.c:61-81).
Sends(x, n, y) ==
    \/ /\ x.pc = "work" /\ ~x.finished /\ x.next <= NumOf(x) + 1 /\ n = x.next
       /\ y = [x EXCEPT !.next = @ + 1, !.pc = "top"]
    \/ /\ x.pc = "work" /\ x.finished /\ n = Min(x.again)
       /\ y = [x EXCEPT !.again = @ \ {Min(@)}, !.pc = "top"]

\* A step of a thread by its effect.
LEMMA ThreadStepEffect ==
    ASSUME ThreadShapes, NEW id, ThreadStep(id)
    PROVE  /\ id \in DOMAIN ch /\ server = "up"
           /\ \/ \E y : Steps(ch[id], y) /\ Thread(id, y)
              \/ /\ Dies("abort")
                 /\ \/ ch[id].pc = "free" /\ ~ch[id].value.live
                    \/ ch[id].pc = "exit" /\ ch[id].data /\ ~ch[id].value.live
                    \/ ch[id].pc = "exit" /\ ch[id].used /\ ch[id].again = {}
              \/ \E n, y : Sends(ch[id], n, y)
                           /\ send_msg(id, ch[id].conn, Segment(id, n), main, [ch EXCEPT ![id] = y])
  <1> DEFINE x == ch[id]
  <1>0. id \in DOMAIN ch /\ server = "up"
    BY DEF ThreadStep, Top, Relay, FreeValue, Clear, SendNext, SendAgain, Exit, InThread
  <1>00. DOMAIN x = ThreadFields
    BY <1>0 DEF ThreadShapes
  <1>1. CASE Top(id)
    BY <1>0, <1>1 DEF Top, InThread, Steps
  <1>2. CASE Relay(id)
    BY <1>0, <1>2 DEF Relay, InThread, Steps
  <1>3. CASE FreeValue(id)
    BY <1>0, <1>3 DEF FreeValue, InThread, Steps, FreedTwice
  <1>4. CASE Clear(id)
    BY <1>0, <1>4 DEF Clear, InThread, Steps
  <1>5. CASE SendNext(id)
    <2> DEFINE y == [x EXCEPT !.next = @ + 1, !.pc = "top"]
    <2>1. [ch EXCEPT ![id].next = @ + 1, ![id].pc = "top"] = [ch EXCEPT ![id] = y]
      BY <1>0, <1>00 DEF ThreadFields
    <2>2. NumOf(x) = num_segments_in_file_handle(Bytes(id), x.maxSize)
      BY DEF NumOf, Bytes
    <2>3. CASE x.next <= NumOf(x) + 1
      <3>1. Sends(x, x.next, y)
        BY <1>5, <2>3 DEF SendNext, InThread, Sends
      <3>2. send_msg(id, x.conn, Segment(id, x.next), main, [ch EXCEPT ![id] = y])
        BY <1>5, <2>1, <2>2, <2>3 DEF SendNext
      <3> QED BY <1>0, <3>1, <3>2
    <2>4. CASE ~(x.next <= NumOf(x) + 1)
      BY <1>0, <1>5, <2>2, <2>4 DEF SendNext, InThread, Steps
    <2> QED BY <2>3, <2>4
  <1>6. CASE SendAgain(id)
    <2> DEFINE y == [x EXCEPT !.again = @ \ {Min(@)}, !.pc = "top"]
    <2>1. [ch EXCEPT ![id].again = @ \ {Min(@)}, ![id].pc = "top"] = [ch EXCEPT ![id] = y]
      BY <1>0, <1>00 DEF ThreadFields
    <2>2. Sends(x, Min(x.again), y)
      BY <1>6 DEF SendAgain, InThread, Sends
    <2>3. send_msg(id, x.conn, Segment(id, Min(x.again)), main, [ch EXCEPT ![id] = y])
      BY <1>6, <2>1 DEF SendAgain
    <2> QED BY <1>0, <2>2, <2>3
  <1>7. CASE Exit(id)
    BY <1>0, <1>7 DEF Exit, InThread, Steps, FreedTwice
  <1> QED BY <1>1, <1>2, <1>3, <1>4, <1>5, <1>6, <1>7 DEF ThreadStep

\* What a step of a thread leaves alone.
LEMMA StepsKeep ==
    ASSUME NEW x, NEW y, DOMAIN x = ThreadFields, DOMAIN x.value = {"seg", "live"},
           Steps(x, y) \/ \E n : Sends(x, n, y)
    PROVE  /\ DOMAIN y = ThreadFields /\ DOMAIN y.value = {"seg", "live"} /\ y.value.seg = x.value.seg
           /\ y.conn = x.conn /\ y.other = x.other /\ y.handle = x.handle /\ y.maxSize = x.maxSize
           /\ y.kill = x.kill /\ y.ready = x.ready /\ y.clobbered = x.clobbered
           /\ NumOf(y) = NumOf(x)
  <1>1. CASE Steps(x, y)
    <2>1. CASE y = [x EXCEPT !.pc = IF x.kill THEN "exit" ELSE IF x.data THEN "relay" ELSE "work"]
      BY <2>1 DEF ThreadFields, NumOf
    <2>2. CASE \E n : y = [x EXCEPT !.again = @ \cup {n}, !.used = TRUE, !.pc = "free"]
      BY <2>2 DEF ThreadFields, NumOf
    <2>3. CASE y = [x EXCEPT !.value.live = FALSE, !.pc = "clear"]
      BY <2>3 DEF ThreadFields, NumOf
    <2>4. CASE y = [x EXCEPT !.data = FALSE, !.pc = "work"]
      BY <2>4 DEF ThreadFields, NumOf
    <2>5. CASE y = [x EXCEPT !.finished = TRUE, !.pc = "top"]
      BY <2>5 DEF ThreadFields, NumOf
    <2>6. CASE y = [x EXCEPT !.pc = "exited", !.value.live = @ /\ ~x.data]
      BY <2>6 DEF ThreadFields, NumOf
    <2> QED BY <1>1, <2>1, <2>2, <2>3, <2>4, <2>5, <2>6, Zenon DEF Steps
  <1>2. CASE \E n : Sends(x, n, y)
    BY ZenonT(40), <1>2 DEF Sends, ThreadFields, NumOf
  <1> QED BY <1>1, <1>2

\* The shapes are kept by a thread.
LEMMA ThreadStepShapes ==
    ASSUME IInv, Shapes, NEW id, ThreadStep(id), UNCHANGED cl
    PROVE  Shapes'
  <1>1. /\ id \in DOMAIN ch /\ ch[id].conn \in Clients /\ DOMAIN ch[id] = ThreadFields
        /\ DOMAIN ch[id].value = {"seg", "live"}
    BY ThreadStepEffect DEF Shapes, ThreadShapes, IInv, Types
  <1>2. ClientShapes'
    BY DEF Shapes, ClientShapes
  <1>3. ASSUME NEW y, Steps(ch[id], y), Thread(id, y) PROVE Shapes'
    <2>1. ThreadShapes'
      BY <1>1, <1>3, StepsKeep, ThreadRecordShapes DEF Thread, Shapes
    <2>2. NetShapes' /\ AnswerShapes'
      BY <1>3 DEF Thread, Shapes, NetShapes, AnswerShapes, net
    <2> QED BY <1>2, <2>1, <2>2 DEF Shapes
  <1>4. CASE Dies("abort")
    BY <1>2, <1>4 DEF Dies, Shapes, NetShapes, ThreadShapes, AnswerShapes, serverVars
  <1>5. ASSUME NEW n, NEW y, Sends(ch[id], n, y),
               send_msg(id, ch[id].conn, Segment(id, n), main, [ch EXCEPT ![id] = y])
        PROVE  Shapes'
    <2>1. NetShapes'
      <3>1. DOMAIN Segment(id, n) = MsgFields
        BY DEF Segment, form_msg, MsgFields
      <3> QED BY <1>1, <1>5, <3>1, WriteShapes DEF Shapes
    <2>2. UNCHANGED main /\ (ch' = ch \/ ch' = [ch EXCEPT ![id] = y])
      BY <1>5 DEF send_msg, Write, WriteWaits, WriteFails, WriteKills, Dies, serverVars
    <2>3. ThreadShapes'
      <3>1. DOMAIN y = ThreadFields /\ DOMAIN y.value = {"seg", "live"}
        BY <1>1, <1>5, StepsKeep
      <3>2. CASE ch' = ch
        BY <3>2 DEF Shapes, ThreadShapes
      <3> QED BY <1>1, <2>2, <3>1, <3>2, ThreadRecordShapes DEF Shapes
    <2> QED BY <1>2, <2>1, <2>2, <2>3 DEF Shapes, AnswerShapes
  <1> QED BY <1>3, <1>4, <1>5, ThreadStepEffect DEF Shapes

\* The select loop gets a message, or none.
Incoming == recv_msg(toServer[conn], gone[conn])

\* What recv_msg of the select loop gives, and what it leaves in the socket.
LEMMA IncomingMails ==
    ASSUME NetShapes, conn \in Clients
    PROVE  /\ Mails(Incoming.rest)
           /\ Incoming.msg # Null =>
                /\ toServer[conn] # << >> /\ Incoming.msg = toServer[conn][1] /\ DOMAIN Incoming.msg = MsgFields
                /\ Incoming.rest = Tail(toServer[conn]) /\ sc.receiver # "stub"
           /\ Incoming.msg = Null =>
                IF sc.receiver = "stub" THEN Incoming.rest = toServer[conn]
                ELSE Incoming.rest = << >> /\ (toServer[conn] = << >> \/ Torn(toServer[conn]))
  BY EmptyMails, TailMails, TailSeq DEF NetShapes, Incoming, recv_msg, Framed, Mails

\* The next entry of the loop.
LEMMA LoopFields ==
    ASSUME NEW fds, NEW i, NEW entries
    PROVE  Loop(fds, i, entries).pc \in {"select", "recv"} /\ DOMAIN Loop(fds, i, entries) = MainFields
  BY DEF Loop, MainFields

\* The shapes are kept by the select loop.
LEMMA MainStepShapes ==
    ASSUME IInv, Shapes, MainStep, UNCHANGED cl
    PROVE  Shapes'
  <1>1. ClientShapes'
    BY DEF Shapes, ClientShapes
  <1>2. DOMAIN main = MainFields
    BY DEF IInv, Types
  <1>3. CASE Select
    BY <1>1, <1>3, LoopFields DEF Select, Shapes, NetShapes, ThreadShapes, AnswerShapes
  <1>4. CASE Receive
    <2>1. main.pc = "recv" /\ conn \in Clients
      BY <1>4, AtConn DEF Receive, At
    <2>2. /\ toServer' = [toServer EXCEPT ![conn] = Incoming.rest] /\ UNCHANGED <<toClient, gone, shut>>
          /\ Handle(Incoming.msg)
      BY <1>4 DEF Receive, Incoming
    <2>3. Socket(conn)
      BY <2>1, <2>2, IncomingMails DEF Shapes, NetShapes, Socket
    <2>4. NetShapes'
      BY <2>1, <2>3, SocketShapes DEF Shapes
    <2> SUFFICES ASSUME NEW m, m = Incoming.msg PROVE ThreadShapes' /\ AnswerShapes'
      BY <1>1, <2>4 DEF Shapes
    <2>5. Handle(m)
      BY <2>2
    <2>6. \A k : Found(m, k) \in {0} \cup ToSet(chans[conn])
      BY <2>1, FoundIn DEF IInv, Found
    <2>7. \A id \in ToSet(chans[conn]) : id \in DOMAIN ch
      BY <2>1 DEF IInv, Arrays
    <2>8. ASSUME NEW a, Answer(a), Formed(a) PROVE AnswerShapes'
      BY <1>2, <2>8 DEF Answer, AnswerShapes, MainFields
    <2>9. ASSUME UNCHANGED ch PROVE ThreadShapes'
      BY <2>9 DEF ThreadShapes, Shapes
    <2>10. /\ Formed(Control(m, "RTS")) /\ Formed(Control(m, "NACK"))
           /\ Formed(Fin(m, << >>)) /\ Formed(Fin(m, m.content))
           /\ \A id, h, size : Formed(Acknowledged(m, id, h, size))
      BY DEF Formed, Control, Fin, Acknowledged, form_msg, MsgFields
    <2>11. CASE UNCHANGED ch /\ \E a : Answer(a) /\ Formed(a)
      BY <2>8, <2>9, <2>11
    <2>12. CASE UNCHANGED ch /\ (UNCHANGED main \/ main' = [main EXCEPT !.pc = "endconn"])
      BY <1>2, <2>9, <2>12 DEF AnswerShapes, MainFields, Shapes
    <2>13. CASE \E h : ch' = Append(ch, NewChannel(m, h)) /\ \E a : Answer(a) /\ Formed(a)
      <3>1. PICK h : ch' = Append(ch, NewChannel(m, h))
        BY <2>13
      <3> DEFINE r == NewChannel(m, h)
      <3>2. DOMAIN r = ThreadFields /\ DOMAIN r.value = {"seg", "live"}
        BY DEF NewChannel, ThreadFields
      <3>3. IsSeq(ch)
        BY DEF IInv, Types
      <3> HIDE DEF r
      <3>4. ThreadShapes'
        BY <3>1, <3>2, <3>3, AppendSeq DEF ThreadShapes, Shapes, r
      <3> QED BY <2>8, <2>13, <3>4
    <2>14. CASE Open(m)
      <3>1. totalChannels >= sc.slots \/ totalChannels < sc.slots
        BY DEF IInv, Types
      <3>2. \/ UNCHANGED ch /\ \E a : Answer(a) /\ Formed(a)
            \/ \E h : ch' = Append(ch, NewChannel(m, h)) /\ \E a : Answer(a) /\ Formed(a)
        BY <2>10, <2>14, <3>1, Zenon DEF Open
      <3> QED BY <2>11, <2>13, <3>2
    <2>15. CASE Found(m, m.recv) # 0 /\ EndChannel(Found(m, m.recv), Fin(m, << >>))
      <3> SUFFICES ASSUME NEW id, id = Found(m, m.recv) PROVE ThreadShapes' /\ AnswerShapes'
        OBVIOUS
      <3> DEFINE r == [ch[id] EXCEPT !.kill = TRUE]
      <3>1. id \in DOMAIN ch /\ DOMAIN ch[id] = ThreadFields /\ DOMAIN ch[id].value = {"seg", "live"}
        BY <2>6, <2>7, <2>15 DEF Shapes, ThreadShapes
      <3>2. ch' = [ch EXCEPT ![id] = r] /\ main' = [main EXCEPT !.pc = "join", !.at = id, !.answer = Fin(m, << >>)]
        BY <2>15, <3>1 DEF EndChannel
      <3>3. DOMAIN r = ThreadFields /\ DOMAIN r.value = {"seg", "live"}
        BY <3>1 DEF ThreadFields
      <3>4. AnswerShapes'
        BY <1>2, <2>10, <3>2 DEF AnswerShapes, MainFields
      <3> HIDE DEF r
      <3> QED BY <3>1, <3>2, <3>3, <3>4, ThreadRecordShapes DEF Shapes
    <2>16. CASE Readies(m) /\ ch' = [ch EXCEPT ![Found(m, m.recv)].ready = TRUE] /\ main' = NextEntry
      <3> SUFFICES ASSUME NEW id, id = Found(m, m.recv) PROVE ThreadShapes' /\ AnswerShapes'
        OBVIOUS
      <3> DEFINE r == [ch[id] EXCEPT !.ready = TRUE]
      <3>1. id \in DOMAIN ch /\ DOMAIN ch[id] = ThreadFields /\ DOMAIN ch[id].value = {"seg", "live"}
        BY <2>6, <2>7, <2>16 DEF Shapes, ThreadShapes, Readies
      <3>2. ch' = [ch EXCEPT ![id] = r]
        BY <2>16, <3>1
      <3>3. DOMAIN r = ThreadFields /\ DOMAIN r.value = {"seg", "live"}
        BY <3>1 DEF ThreadFields
      <3>4. AnswerShapes'
        BY <2>16, LoopFields DEF AnswerShapes, NextEntry
      <3> HIDE DEF r
      <3> QED BY <3>1, <3>2, <3>3, <3>4, ThreadRecordShapes DEF Shapes
    <2>17. CASE /\ Asks(m)
                /\ ch' = [ch EXCEPT ![Found(m, m.recv)].value = [seg |-> m.seg, live |-> TRUE],
                                    ![Found(m, m.recv)].clobbered = @ \/ ch[Found(m, m.recv)].data]
                /\ main' = [main EXCEPT !.pc = "flag", !.at = Found(m, m.recv)]
      <3> SUFFICES ASSUME NEW id, id = Found(m, m.recv) PROVE ThreadShapes' /\ AnswerShapes'
        OBVIOUS
      <3> DEFINE v == [seg |-> m.seg, live |-> TRUE]
                 r == [ch[id] EXCEPT !.value = v, !.clobbered = @ \/ ch[id].data]
      <3>1. id \in DOMAIN ch /\ DOMAIN ch[id] = ThreadFields
        BY <2>6, <2>7, <2>17 DEF Shapes, ThreadShapes, Asks
      <3>0. DOMAIN v = {"seg", "live"}
        OBVIOUS
      <3>2. ch' = [ch EXCEPT ![id] = r] /\ DOMAIN r = ThreadFields /\ r.value = v
        <4> HIDE DEF v
        <4>1. ch' = [ch EXCEPT ![id].value = v, ![id].clobbered = @ \/ ch[id].data]
          BY <2>17 DEF v
        <4> QED BY <3>1, <4>1 DEF ThreadFields
      <3>4. AnswerShapes'
        BY <1>2, <2>17 DEF AnswerShapes, MainFields
      <3> HIDE DEF r, v
      <3> QED BY <3>0, <3>1, <3>2, <3>4, ThreadRecordShapes DEF Shapes
    <2> QED BY <2>5, <2>10, <2>11, <2>12, <2>14, <2>15, <2>16, <2>17 DEF Handle
  <1>5. CASE Flag
    <2> SUFFICES ASSUME NEW id, id = main.at PROVE Shapes'
      OBVIOUS
    <2> DEFINE r == [ch[id] EXCEPT !.data = TRUE]
    <2>1. main.pc = "flag" /\ UNCHANGED net
      BY <1>5 DEF Flag, At
    <2>2. id \in DOMAIN ch /\ DOMAIN ch[id] = ThreadFields /\ DOMAIN ch[id].value = {"seg", "live"}
      BY <2>1, AtConn DEF Shapes, ThreadShapes, IInv, Arrays, AtConnection
    <2>3. ch' = [ch EXCEPT ![id] = r] /\ DOMAIN r = ThreadFields /\ DOMAIN r.value = {"seg", "live"}
      BY <1>5, <2>2 DEF Flag, ThreadFields
    <2>4. AnswerShapes'
      BY <1>5, LoopFields DEF Flag, AnswerShapes, NextEntry
    <2>5. NetShapes'
      BY <2>1 DEF Shapes, NetShapes, net
    <2> HIDE DEF r
    <2>6. ThreadShapes'
      BY <2>2, <2>3, ThreadRecordShapes DEF Shapes
    <2> QED BY <1>1, <2>4, <2>5, <2>6 DEF Shapes
  <1>6. CASE Reply
    <2>1. main.pc = "send" /\ send_msg(Main, conn, main.answer, NextEntry, ch) /\ conn \in Clients
      BY <1>6, AtConn DEF Reply, At
    <2>2. NetShapes'
      BY <2>1, WriteShapes DEF Shapes, AnswerShapes, Formed
    <2>3. UNCHANGED ch /\ (UNCHANGED main \/ main' = NextEntry)
      BY <2>1 DEF send_msg, Write, WriteWaits, WriteFails, WriteKills, Dies, serverVars
    <2>4. AnswerShapes'
      BY <2>3, LoopFields DEF Shapes, AnswerShapes, NextEntry
    <2> QED BY <1>1, <2>2, <2>3, <2>4 DEF Shapes, ThreadShapes
  <1>7. CASE Join
    BY <1>1, <1>2, <1>7 DEF Join, At, Shapes, NetShapes, ThreadShapes, AnswerShapes, net, MainFields
  <1>8. CASE EndConnection
    <2>1. main.pc = "endconn" /\ conn \in Clients
      BY <1>8, AtConn DEF EndConnection, At
    <2>2. NetShapes'
      BY <1>8, <2>1 DEF EndConnection, Shapes, NetShapes
    <2>3. CASE chans[conn] # << >>
      <3> SUFFICES ASSUME NEW id, id = Head(chans[conn]) PROVE Shapes'
        OBVIOUS
      <3> DEFINE r == [ch[id] EXCEPT !.kill = TRUE]
      <3>1. id \in DOMAIN ch
        <4>1. chans[conn] \in Seq(Nat)
          BY <2>1, AtConn
        <4>2. 1 \in DOMAIN chans[conn] /\ id = chans[conn][1]
          BY <2>3, <4>1
        <4>3. id \in ToSet(chans[conn])
          BY <4>2 DEF ToSet
        <4> QED BY <2>1, <4>3 DEF IInv, Arrays
      <3>2. DOMAIN ch[id] = ThreadFields /\ DOMAIN ch[id].value = {"seg", "live"}
        BY <3>1 DEF Shapes, ThreadShapes
      <3>3. ch' = [ch EXCEPT ![id] = r] /\ main' = [main EXCEPT !.pc = "join", !.at = id, !.answer = Null]
        BY <1>8, <2>3, <3>1, <3>2 DEF EndConnection, EndChannel
      <3>4. DOMAIN r = ThreadFields /\ DOMAIN r.value = {"seg", "live"}
        BY <3>2 DEF ThreadFields
      <3>5. AnswerShapes'
        BY <1>2, <3>3 DEF AnswerShapes, MainFields
      <3> HIDE DEF r
      <3> QED BY <1>1, <2>2, <3>1, <3>3, <3>4, <3>5, ThreadRecordShapes DEF Shapes
    <2>4. CASE chans[conn] = << >>
      BY <1>1, <1>8, <2>2, <2>4, LoopFields DEF EndConnection, Shapes, ThreadShapes, AnswerShapes
    <2> QED BY <2>3, <2>4
  <1> QED BY <1>3, <1>4, <1>5, <1>6, <1>7, <1>8 DEF MainStep

\* What comes from outside.
LEMMA DisturbShapes == ASSUME IInv, Shapes, Disturb PROVE Shapes'
  <1>1. CASE AcceptFails /\ UNCHANGED cl
    BY <1>1 DEF AcceptFails, Dies, Shapes, NetShapes, ClientShapes, ThreadShapes, AnswerShapes, serverVars
  <1>2. ASSUME NEW c \in Clients, Alter(c), UNCHANGED <<arrays, serverVars, cl>>
        PROVE  Shapes'
    <2>1. Mails(toServer[c]) /\ Mails(toClient[c])
      BY DEF Shapes, NetShapes
    <2>2. CASE /\ toServer[c] # << >> /\ UNCHANGED toClient
               /\ \E r : toServer' = [toServer EXCEPT ![c][1].intact = FALSE, ![c][1].recv = r]
      <3>1. PICK r : toServer' = [toServer EXCEPT ![c][1].intact = FALSE, ![c][1].recv = r]
        BY <2>2
      <3> DEFINE m == [toServer[c][1] EXCEPT !.intact = FALSE, !.recv = r]
      <3>2. 1 \in DOMAIN toServer[c] /\ DOMAIN toServer[c][1] = MsgFields
        BY <2>1, <2>2, TailSeq DEF Mails
      <3>3. DOMAIN m = MsgFields
        BY <3>2
      <3>4. toServer' = [toServer EXCEPT ![c] = [@ EXCEPT ![1] = m]]
        BY <3>1, <3>2 DEF Shapes, NetShapes, MsgFields
      <3> HIDE DEF m
      <3>5. Mails(toServer'[c])
        BY <2>1, <2>2, <3>3, <3>4, AlterMails DEF Shapes, NetShapes
      <3>6. Socket(c)
        BY <1>2, <2>1, <2>2, <3>4, <3>5 DEF Alter, Socket, Shapes, NetShapes
      <3>7. NetShapes'
        BY <3>6, SocketShapes DEF Shapes
      <3> QED BY <1>2, <3>7 DEF Shapes, ClientShapes, ThreadShapes, AnswerShapes, serverVars
    <2>3. CASE /\ toClient[c] # << >> /\ UNCHANGED toServer
               /\ toClient' = [toClient EXCEPT ![c][1].intact = FALSE]
      <3> DEFINE m == [toClient[c][1] EXCEPT !.intact = FALSE]
      <3>2. 1 \in DOMAIN toClient[c] /\ DOMAIN toClient[c][1] = MsgFields
        BY <2>1, <2>3, TailSeq DEF Mails
      <3>3. DOMAIN m = MsgFields
        BY <3>2
      <3>4. toClient' = [toClient EXCEPT ![c] = [@ EXCEPT ![1] = m]]
        BY <2>3, <3>2 DEF Shapes, NetShapes, MsgFields
      <3> HIDE DEF m
      <3>5. Mails(toClient'[c])
        <4>1. toClient'[c] = [toClient[c] EXCEPT ![1] = m]
          BY <3>4 DEF Shapes, NetShapes
        <4> QED BY <2>1, <2>3, <3>3, <4>1, AlterMails
      <3>6. Socket(c)
        BY <1>2, <2>1, <2>3, <3>4, <3>5 DEF Alter, Socket, Shapes, NetShapes
      <3>7. NetShapes'
        BY <3>6, SocketShapes DEF Shapes
      <3> QED BY <1>2, <3>7 DEF Shapes, ClientShapes, ThreadShapes, AnswerShapes, serverVars
    <2> QED BY <1>2, <2>2, <2>3 DEF Alter
  <1>3. ASSUME NEW c \in Clients, ClientKilled(c), UNCHANGED <<arrays, serverVars>>
        PROVE  Shapes'
    <2>1. NetShapes' /\ ClientShapes'
      BY <1>3, ExitsShapes DEF ClientKilled, Shapes
    <2> QED BY <1>3, <2>1 DEF Shapes, ThreadShapes, AnswerShapes, serverVars
  <1>4. ASSUME NEW c \in Clients, Unframe(c), cl' = [cl EXCEPT ![c].inStep = FALSE], UNCHANGED <<arrays, serverVars>>
        PROVE  Shapes'
    <2>1. ClientShapes'
      BY <1>4 DEF Shapes, ClientShapes, ClientFields
    <2>2. Socket(c)
      BY <1>4, UnframedMails DEF Unframe, Socket, Shapes, NetShapes
    <2>3. NetShapes'
      BY <2>2, SocketShapes DEF Shapes
    <2> QED BY <1>4, <2>1, <2>3 DEF Shapes, ThreadShapes, AnswerShapes, serverVars
  <1> QED BY <1>1, <1>2, <1>3, <1>4 DEF Disturb

\* The shapes of the initial states.
LEMMA InitShapes == Init => Shapes
  <1> SUFFICES ASSUME Init PROVE Shapes
    OBVIOUS
  <1>1. NetShapes
    BY EmptyMails DEF Init, NetInit, NetShapes
  <1>2. ClientShapes
    BY DEF Init, ClientInit, ClientShapes, ClientFields
  <1>3. ThreadShapes /\ AnswerShapes
    BY DEF Init, ServerInit, ThreadShapes, AnswerShapes
  <1> QED BY <1>1, <1>2, <1>3 DEF Shapes

---------------------------------------------------------------------------

\* No channel, and no work of the select loop for a client.
NoChannel == [pc |-> "none"]
NoWork == [pc |-> "none", answer |-> Null, at |-> 0]

\* The channel of a client, what the select loop does for it, and its number of segments.
Mine(c) == IF chans[c] = << >> THEN NoChannel ELSE ch[chans[c][1]]
Work(c) == IF main.pc \in {"send", "flag", "join", "endconn"} /\ conn = c
           THEN [pc |-> main.pc, answer |-> main.answer, at |-> main.at] ELSE NoWork
Num(c) == IF chans[c] = << >> THEN 0 ELSE NumOf(ch[chans[c][1]])

\* A request of client me to channel id: of one of these types, unless it was damaged.
Asked(m, me, id, types) ==
    m.intact => m.send = me /\ m.recv = id /\ m.chan = "CONTROL" /\ m.type \in types

\* Segment k, and the FIN that ends a channel (server_help.c:73, server.c:251).
IsData(m, me, k) == m.recv = me /\ m.chan = "DATA" /\ m.type = "SYN" /\ m.seg = k
IsFin(m, me) == m.recv = me /\ m.type = "FIN" /\ m.seg = 0

\* No FIN is on its way.
NoFin(r) == \A k \in DOMAIN r : r[k].type # "FIN"

\* The answer to a SYN: an ACK of the channel that was opened, or a FIN (server.c:180-203).
Opened(m, me, cs, n) ==
    /\ m.recv = me
    /\ \/ m.type = "ACK" /\ cs = <<m.send>> /\ m.seg = n
       \/ m.type = "FIN" /\ m.send = 0

\* A thread that nothing was asked again of: it has sent the segments below next.
Calm(x, n) ==
    /\ ~x.kill /\ ~x.data /\ x.again = {} /\ x.pc \in {"wait", "top", "work"} /\ x.next \in 1 .. n + 2
    /\ x.finished => x.next = n + 2 /\ x.pc # "work"
    /\ ~x.ready => x.pc = "wait"
    /\ x.pc = "wait" => x.next = 1 /\ ~x.finished

\* It has sent them all.
Quiet(x, n) == Calm(x, n) /\ x.ready /\ x.next = n + 2

\* It has them all sent and serves the request for segment low, from the request handed over
\* in chan->value to the section of segments to send again (server_help.c:53-69).
Serving(x, n, low) ==
    /\ ~x.kill /\ x.ready /\ x.next = n + 2
    /\ \/ /\ x.data /\ x.value.seg = low
          /\ \/ x.pc \in {"top", "work", "relay"} /\ x.again = {} /\ (x.pc = "work" => ~x.finished)
             \/ x.pc \in {"free", "clear"} /\ x.again = {low}
       \/ ~x.data /\ x.again = {low} /\ x.pc \in {"top", "work"}

\* It is being ended by end_channel.
Ending(x, n) ==
    /\ ~x.data /\ x.again = {} /\ x.pc \in {"wait", "top", "work", "exit", "exited"} /\ x.next \in 1 .. n + 2
    /\ x.pc = "work" => ~x.finished

\* The client's one channel is its own, and has it as otherID.
Own(me, cs, x, n) == Len(cs) = 1 /\ x.other = me /\ n \in Nat

\* The client has no channel, or one that was not told to begin.
Fresh(me, cs, x, n) == cs = << >> \/ (Own(me, cs, x, n) /\ Calm(x, n) /\ ~x.ready)

\* Nothing on its way to the server, and nothing in its hands.
Idle(q, b) == q = << >> /\ b.pc = "none"

\* A damaged request was answered by a RTS (server.c:158-165), which the client does not expect.
DeadEnd(u, q, r, b) ==
    /\ u /\ q = << >>
    /\ \/ b.pc = "send" /\ b.answer.type = "RTS" /\ r = << >>
       \/ b.pc = "none" /\ (r = << >> \/ (Len(r) = 1 /\ r[1].type = "RTS"))

\* The select loop has no answer for the client, or such a RTS.
Apologises(b) == b.pc = "none" \/ (b.pc = "send" /\ b.answer.type = "RTS")

\* Before the client's SYN, and after its last download.
SynPhase(q, r, cs, b) == Idle(q, b) /\ r = << >> /\ cs = << >>

\* The client waits for the answer to its SYN (client.c:18-42): the SYN is on its way, or is
\* being answered, or its answer is on its way.
AckPhase(me, u, q, r, cs, x, n, b) ==
    /\ Fresh(me, cs, x, n)
    /\ \/ b.pc = "none" /\ Len(q) = 1 /\ Asked(q[1], me, 0, {"SYN", "RTS"}) /\ q[1].seg = MAX_SIZE /\ r = << >>
       \/ q = << >> /\ b.pc = "send" /\ Opened(b.answer, me, cs, n) /\ r = << >>
       \/ Idle(q, b) /\ Len(r) = 1 /\ Opened(r[1], me, cs, n)
       \/ DeadEnd(u, q, r, b)

\* The client sends its SYN again.
AgainPhase(me, q, r, cs, x, n, b) == Idle(q, b) /\ r = << >> /\ Fresh(me, cs, x, n)

\* The client knows its channel, and the number of its segments.
Joined(me, s, cs, x, n) == Own(me, cs, x, n) /\ s.other = cs[1] /\ s.count = n

\* The client is about to send READY (client.c:43-48).
ReadyPhase(me, u, s, q, r, cs, x, n, b) ==
    /\ Joined(me, s, cs, x, n) /\ Calm(x, n) /\ ~x.ready /\ Idle(q, b) /\ r = << >> /\ (n = 0 => u)

\* The client reads the segments (client.c:62-76): unless it was upset, what is on its way is
\* exactly what was sent and not read.
GatherPhase(me, u, s, q, r, cs, x, n, b) ==
    /\ Joined(me, s, cs, x, n) /\ Calm(x, n) /\ n # 0 /\ s.got \in 0 .. n /\ s.missing \subseteq 1 .. s.got
    /\ \/ /\ Idle(q, b) /\ x.ready
          /\ \A k \in DOMAIN r : IsData(r[k], me, x.next - 1 - Len(r) + k)
          /\ Len(r) <= x.next - 1 - s.got /\ (~u => Len(r) = x.next - 1 - s.got)
       \/ b.pc = "none" /\ Len(q) = 1 /\ Asked(q[1], me, cs[1], {"SYN"}) /\ r = << >> /\ ~x.ready /\ s.got = 0
       \/ DeadEnd(u, q, r, b) /\ ~x.ready

\* The client is about to ask for the lowest segment it misses (client.c:79-82).
RtsPhase(me, s, q, r, cs, x, n, b) ==
    /\ Joined(me, s, cs, x, n) /\ Quiet(x, n) /\ Idle(q, b) /\ r = << >>
    /\ s.missing # {} /\ s.missing \subseteq 1 .. n + 1

\* It has asked (client.c:83-97): the RTS is on its way, or in the hands of the select loop, or
\* of the thread, or the segment is on its way.
AnswerPhase(me, u, s, q, r, cs, x, n, b) ==
    /\ Joined(me, s, cs, x, n) /\ s.missing # {} /\ s.missing \subseteq 1 .. n + 1
    /\ \/ /\ b.pc = "none" /\ Len(q) = 1 /\ Asked(q[1], me, cs[1], {"RTS"}) /\ q[1].seg = Min(s.missing)
          /\ r = << >> /\ Quiet(x, n)
       \/ q = << >> /\ b.pc = "flag" /\ b.at = cs[1] /\ r = << >> /\ Quiet(x, n) /\ x.value.seg = Min(s.missing)
       \/ Idle(q, b) /\ r = << >> /\ Serving(x, n, Min(s.missing))
       \/ Idle(q, b) /\ Quiet(x, n) /\ Len(r) = 1 /\ IsData(r[1], me, Min(s.missing))
       \/ DeadEnd(u, q, r, b) /\ Quiet(x, n)

\* The client is about to end the channel (client.c:102-105).
FinPhase(me, u, s, q, r, cs, x, n, b) ==
    /\ Joined(me, s, cs, x, n) /\ Calm(x, n) /\ NoFin(r)
    /\ ~u => Idle(q, b) /\ r = << >> /\ Quiet(x, n)
    /\ \/ q = << >> /\ Apologises(b)
       \/ b.pc = "none" /\ Len(q) = 1 /\ Asked(q[1], me, cs[1], {"SYN"}) /\ r = << >> /\ ~x.ready

\* It waits for the FIN (client.c:106-109): the channel is open and its FIN is on its way, or
\* is being joined, or the answer is being sent or is on its way.
FinackPhase(me, u, s, q, r, cs, x, n, b) ==
    \/ /\ Joined(me, s, cs, x, n) /\ Calm(x, n) /\ NoFin(r) /\ Apologises(b)
       /\ Len(q) \in {1, 2} /\ Asked(q[Len(q)], me, cs[1], {"FIN"})
       /\ Len(q) = 2 => Asked(q[1], me, cs[1], {"SYN"})
       /\ ~u => Len(q) = 1 /\ b.pc = "none" /\ r = << >> /\ Quiet(x, n)
    \/ /\ q = << >> /\ b.pc = "join" /\ Len(cs) = 1 /\ b.at = cs[1] /\ n \in Nat /\ b.answer # Null
       /\ IsFin(b.answer, me) /\ NoFin(r) /\ Ending(x, n) /\ (~u => r = << >> /\ x.next = n + 2)
    \/ q = << >> /\ b.pc = "send" /\ IsFin(b.answer, me) /\ cs = << >> /\ NoFin(r) /\ (~u => r = << >>)
    \/ /\ Idle(q, b) /\ cs = << >> /\ r # << >> /\ IsFin(r[Len(r)], me)
       /\ \A k \in 1 .. Len(r) - 1 : r[k].type # "FIN"
       /\ ~u => Len(r) = 1
    \/ /\ u /\ q = << >> /\ Apologises(b) /\ NoFin(r)
       /\ cs = << >> \/ (Own(me, cs, x, n) /\ Calm(x, n))

\* The client has ended its connection.
ClosePhase(u, q, r, cs, b) ==
    ~u => /\ cs = << >> /\ r = << >> /\ b.pc \in {"none", "endconn"}
          /\ q = << >> \/ (Len(q) = 1 /\ Asked(q[1], 0, 0, {"FIN"}))

\* Where the exchange stands, by the state s of the client me: q and r are on their way to the
\* server and back, cs its array of channels, x its channel with n segments, and b the work of
\* the select loop for it; u says it was upset.
PhaseOf(me, u, s, q, r, cs, x, n, b) ==
    /\ s.pc \in {"connect", "syn", "bye"} => SynPhase(q, r, cs, b)
    /\ s.pc = "ack" => AckPhase(me, u, q, r, cs, x, n, b)
    /\ s.pc = "again" => AgainPhase(me, q, r, cs, x, n, b)
    /\ s.pc = "ready" => ReadyPhase(me, u, s, q, r, cs, x, n, b)
    /\ s.pc = "gather" => GatherPhase(me, u, s, q, r, cs, x, n, b)
    /\ s.pc = "rts" => RtsPhase(me, s, q, r, cs, x, n, b)
    /\ s.pc = "answer" => AnswerPhase(me, u, s, q, r, cs, x, n, b)
    /\ s.pc = "fin" => FinPhase(me, u, s, q, r, cs, x, n, b)
    /\ s.pc = "finack" => FinackPhase(me, u, s, q, r, cs, x, n, b)
    /\ s.pc \in {"close", "done"} => ClosePhase(u, q, r, cs, b)

\* Every message has its frame, and a damaged request does not go unnoticed.
Sound(u, q, r) ==
    /\ \A k \in DOMAIN q : q[k].chan # "OPEN" /\ (~q[k].intact => u)
    /\ \A k \in DOMAIN r : r[k].chan # "OPEN"

\* The phase of a client in a state.
Phase(c) == PhaseOf(selfID(c), c \in upset, cl[c], toServer[c], toClient[c], chans[c], Mine(c), Num(c), Work(c))

\* While the client is in step and a server reads, the exchange is in its phase.
Talks(c) ==
    cl[c].inStep /\ sc.receiver # "stub" =>
        /\ cl[c].pc \notin {"done", "crashed"} => gone[c] = "no" /\ (cl[c].pc # "close" => shut[c] = "no")
        /\ cl[c].pc = "done" /\ c \notin upset => gone[c] # "reset"
        /\ Sound(c \in upset, toServer[c], toClient[c])
        /\ Phase(c) \/ (server # "up" /\ toClient[c] = << >>)

\* The requests to send a segment again that are on their way.
AsksIn(q) == {k \in DOMAIN q : q[k].intact /\ q[k].chan = "CONTROL" /\ q[k].type = "RTS" /\ q[k].recv # 0}

\* The request in chan->value is not replaced before it is used, and is not used when freed.
Relayed(x) ==
    /\ ~x.clobbered
    /\ x.pc \in {"relay", "free", "clear"} => x.data
    /\ x.data /\ x.pc \notin {"clear", "exited"} => x.value.live

\* At most one such request of a client in step is anywhere between the client and the thread
\* (server.c:234-239, server_help.c:53-56).
Handed(c) ==
    cl[c].inStep =>
        /\ \A id \in DOMAIN ch : ch[id].conn = c => Relayed(ch[id])
        /\ AsksIn(toServer[c]) # {} => 
              /\ \A i, j \in AsksIn(toServer[c]) : i = j
              /\ Work(c).pc # "flag" /\ \A id \in ToSet(chans[c]) : ~ch[id].data
        /\ main.pc = "flag" /\ conn = c => ~ch[main.at].data /\ ch[main.at].value.live

\* With the recv_msg that is not implemented no channel is ever opened.
StubInv == sc.receiver = "stub" =>
    /\ ch = << >> /\ main.pc \notin {"send", "flag", "join"}
    /\ \A c \in Clients : cl[c].pc \in {"connect", "syn", "ack", "crashed", "done"}

\* What the server process dies of.
Deaths ==
    /\ server \in {"up", "accept", "abort", "sigpipe"}
    /\ server = "abort" =>
          \/ \E id \in DOMAIN ch : ch[id].pc = "exit" /\ ch[id].used /\ ch[id].again = {}
          \/ \E c \in Clients : ~cl[c].inStep
    /\ server = "sigpipe" => \E c \in Clients : cl[c].pc = "crashed" \/ c \in upset

\* The invariant of the exchange.
PInv == /\ \A c \in Clients : Talks(c) /\ Handed(c) /\ (c \notin upset => cl[c].inStep)
        /\ StubInv /\ Deaths

---------------------------------------------------------------------------
(* The threads.                                                            *)

\* A calm thread takes a step that sends nothing.
LEMMA CalmSteps ==
    ASSUME NEW x, NEW y, NEW n \in Nat, DOMAIN x = ThreadFields, Calm(x, n), NumOf(x) = n, Steps(x, y)
    PROVE  Calm(y, n) /\ x.ready /\ y.next = x.next
  <1>1. x.pc \in {"wait", "top", "work"}
    BY DEF Calm
  <1>2. CASE y = [x EXCEPT !.pc = IF x.kill THEN "exit" ELSE IF x.data THEN "relay" ELSE "work"]
             /\ (x.pc = "top" \/ (x.pc = "wait" /\ (x.ready \/ x.kill))) /\ (x.kill \/ x.data \/ ~x.finished \/ x.again # {})
    BY <1>2 DEF Calm, ThreadFields
  <1>3. CASE y = [x EXCEPT !.finished = TRUE, !.pc = "top"] /\ x.pc = "work" /\ ~(x.next <= n + 1)
    BY <1>3 DEF Calm, ThreadFields
  <1> QED BY <1>1, <1>2, <1>3, Zenon DEF Steps

\* A calm thread sends its next segment, and the last, empty one.
LEMMA CalmSends ==
    ASSUME NEW x, NEW y, NEW k, NEW n \in Nat, DOMAIN x = ThreadFields, Calm(x, n), NumOf(x) = n, Sends(x, k, y)
    PROVE  Calm(y, n) /\ x.ready /\ k = x.next /\ y.next = x.next + 1 /\ x.next <= n + 1
  <1>1. /\ x.pc = "work" /\ ~x.finished /\ x.next <= n + 1 /\ k = x.next
        /\ y = [x EXCEPT !.next = @ + 1, !.pc = "top"]
    BY DEF Calm, Sends
  <1> QED BY <1>1 DEF Calm, ThreadFields

\* A thread that serves a request takes a step that sends nothing.
LEMMA ServingSteps ==
    ASSUME NEW x, NEW y, NEW n \in Nat, NEW low, DOMAIN x = ThreadFields, DOMAIN x.value = {"seg", "live"},
           Serving(x, n, low), Relayed(x), NumOf(x) = n, Steps(x, y)
    PROVE  Serving(y, n, low)
  <1>1. x.pc \in {"top", "work", "relay", "free", "clear"}
    BY DEF Serving
  <1>2. CASE y = [x EXCEPT !.pc = IF x.kill THEN "exit" ELSE IF x.data THEN "relay" ELSE "work"] /\ x.pc = "top"
    BY <1>2 DEF Serving, ThreadFields
  <1>3. CASE y = [x EXCEPT !.finished = TRUE, !.pc = "top"] /\ x.pc = "work"
    BY <1>3 DEF Serving, ThreadFields
  <1>4. CASE x.pc = "relay" /\ \E k \in {x.value.seg} \cup (IF x.value.live THEN {} ELSE {Stray}) :
                 y = [x EXCEPT !.again = @ \cup {k}, !.used = TRUE, !.pc = "free"]
    <2>1. x.value.live /\ x.data /\ x.value.seg = low /\ x.again = {}
      BY <1>4 DEF Serving, Relayed
    <2>2. y = [x EXCEPT !.again = {low}, !.used = TRUE, !.pc = "free"]
      BY <1>4, <2>1
    <2> QED BY <2>1, <2>2 DEF Serving, ThreadFields
  <1>5. CASE x.pc = "free" /\ y = [x EXCEPT !.value.live = FALSE, !.pc = "clear"]
    BY <1>5 DEF Serving, ThreadFields
  <1>6. CASE x.pc = "clear" /\ y = [x EXCEPT !.data = FALSE, !.pc = "work"]
    BY <1>6 DEF Serving, ThreadFields
  <1> QED BY <1>1, <1>2, <1>3, <1>4, <1>5, <1>6, Zenon DEF Steps

\* It sends the segment that was asked for.
LEMMA ServingSends ==
    ASSUME NEW x, NEW y, NEW k, NEW n \in Nat, NEW low \in Nat, DOMAIN x = ThreadFields,
           Serving(x, n, low), NumOf(x) = n, Sends(x, k, y)
    PROVE  Quiet(y, n) /\ k = low
  <1>1. x.pc = "work" /\ x.finished /\ ~x.data /\ x.again = {low}
    BY DEF Serving, Sends
  <1>2. Min({low}) = low
    <2>1. {low} \in SUBSET Nat /\ {low} # {}
      OBVIOUS
    <2> QED BY <2>1, MinIn
  <1>3. k = low /\ y = [x EXCEPT !.again = {}, !.pc = "top"]
    BY <1>1, <1>2 DEF Sends
  <1> QED BY <1>1, <1>3 DEF Serving, Quiet, Calm, ThreadFields

\* A thread that is being ended takes a step that sends nothing.
LEMMA EndingSteps ==
    ASSUME NEW x, NEW y, NEW n \in Nat, DOMAIN x = ThreadFields, Ending(x, n), NumOf(x) = n, Steps(x, y)
    PROVE  Ending(y, n) /\ y.next = x.next
  <1>1. x.pc \in {"wait", "top", "work", "exit", "exited"}
    BY DEF Ending
  <1>2. CASE y = [x EXCEPT !.pc = IF x.kill THEN "exit" ELSE IF x.data THEN "relay" ELSE "work"]
             /\ (x.kill \/ x.data \/ ~x.finished \/ x.again # {})
    BY <1>2 DEF Ending, ThreadFields
  <1>3. CASE y = [x EXCEPT !.finished = TRUE, !.pc = "top"]
    BY <1>3 DEF Ending, ThreadFields
  <1>4. CASE y = [x EXCEPT !.pc = "exited", !.value.live = @ /\ ~x.data]
    BY <1>4 DEF Ending, ThreadFields
  <1> QED BY <1>1, <1>2, <1>3, <1>4, Zenon DEF Steps

\* It sends a segment nevertheless.
LEMMA EndingSends ==
    ASSUME NEW x, NEW y, NEW k, NEW n \in Nat, DOMAIN x = ThreadFields, Ending(x, n), NumOf(x) = n, Sends(x, k, y)
    PROVE  Ending(y, n) /\ x.next <= n + 1
  <1>1. /\ x.pc = "work" /\ ~x.finished /\ x.next <= n + 1
        /\ y = [x EXCEPT !.next = @ + 1, !.pc = "top"]
    BY DEF Ending, Sends
  <1> QED BY <1>1 DEF Ending, ThreadFields

\* The thread of the channel goes on.
LEMMA StepsPhase ==
    ASSUME NEW me, NEW u, NEW s, NEW q, NEW r, NEW cs, NEW x, NEW n, NEW b, NEW y,
           DOMAIN x = ThreadFields, DOMAIN x.value = {"seg", "live"}, NumOf(x) = n, Relayed(x),
           cs # << >>, Steps(x, y), PhaseOf(me, u, s, q, r, cs, x, n, b)
    PROVE  PhaseOf(me, u, s, q, r, cs, y, n, b)
  <1>0. y.other = x.other /\ y.ready = x.ready /\ y.value.seg = x.value.seg
    BY StepsKeep
  <1>1. n \in Nat /\ Calm(x, n) => Calm(y, n) /\ x.ready /\ y.next = x.next
    BY CalmSteps
  <1>2. n \in Nat /\ Quiet(x, n) => Quiet(y, n)
    BY <1>0, <1>1 DEF Quiet
  <1>3. \A low : n \in Nat /\ Serving(x, n, low) => Serving(y, n, low)
    BY ServingSteps
  <1>4. n \in Nat /\ Ending(x, n) => Ending(y, n) /\ y.next = x.next
    BY EndingSteps
  <1>a. Own(me, cs, x, n) => Own(me, cs, y, n) /\ n \in Nat
    BY <1>0 DEF Own
  <1>b. Joined(me, s, cs, x, n) => Joined(me, s, cs, y, n) /\ n \in Nat
    BY <1>a DEF Joined
  <1>5. ASSUME s.pc \in {"connect", "syn", "bye"} PROVE SynPhase(q, r, cs, b)
    BY <1>5 DEF PhaseOf
  <1>6. ASSUME s.pc = "ack" PROVE AckPhase(me, u, q, r, cs, y, n, b)
    BY <1>0, <1>1, <1>6 DEF PhaseOf, AckPhase, Fresh, Own
  <1>7. ASSUME s.pc = "again" PROVE AgainPhase(me, q, r, cs, y, n, b)
    BY <1>0, <1>1, <1>7 DEF PhaseOf, AgainPhase, Fresh, Own
  <1>8. ASSUME s.pc = "ready" PROVE ReadyPhase(me, u, s, q, r, cs, y, n, b)
    BY <1>0, <1>1, <1>b, <1>8 DEF PhaseOf, ReadyPhase
  <1>9. ASSUME s.pc = "gather" PROVE GatherPhase(me, u, s, q, r, cs, y, n, b)
    BY <1>0, <1>1, <1>b, <1>9 DEF PhaseOf, GatherPhase
  <1>10. ASSUME s.pc = "rts" PROVE RtsPhase(me, s, q, r, cs, y, n, b)
    BY <1>0, <1>2, <1>b, <1>10 DEF PhaseOf, RtsPhase
  <1>11. ASSUME s.pc = "answer" PROVE AnswerPhase(me, u, s, q, r, cs, y, n, b)
    BY <1>0, <1>2, <1>3, <1>b, <1>11 DEF PhaseOf, AnswerPhase
  <1>12. ASSUME s.pc = "fin" PROVE FinPhase(me, u, s, q, r, cs, y, n, b)
    BY <1>0, <1>1, <1>2, <1>b, <1>12 DEF PhaseOf, FinPhase
  <1>13. ASSUME s.pc = "finack" PROVE FinackPhase(me, u, s, q, r, cs, y, n, b)
    BY <1>0, <1>1, <1>2, <1>4, <1>a, <1>b, <1>13 DEF PhaseOf, FinackPhase
  <1>14. ASSUME s.pc \in {"close", "done"} PROVE ClosePhase(u, q, r, cs, b)
    BY <1>14 DEF PhaseOf
  <1> QED BY <1>5, <1>6, <1>7, <1>8, <1>9, <1>10, <1>11, <1>12, <1>13, <1>14 DEF PhaseOf

\* It sends a segment.
LEMMA SendsPhase ==
    ASSUME NEW me, NEW u, NEW s, NEW q, NEW r, NEW cs, NEW x, NEW n, NEW b, NEW y, NEW k, NEW m,
           DOMAIN x = ThreadFields, DOMAIN x.value = {"seg", "live"}, NumOf(x) = n,
           cs # << >>, Sends(x, k, y), IsData(m, x.other, k), Mails(r),
           PhaseOf(me, u, s, q, r, cs, x, n, b)
    PROVE  PhaseOf(me, u, s, q, Append(r, m), cs, y, n, b)
  <1>0. y.other = x.other /\ y.ready = x.ready /\ y.value.seg = x.value.seg
    BY ZenonT(40), StepsKeep
  <1>1. n \in Nat /\ Calm(x, n) =>
          Calm(y, n) /\ x.ready /\ k = x.next /\ y.next = x.next + 1 /\ x.next <= n + 1 /\ x.next \in Nat
    BY CalmSends DEF Calm
  <1>2. ~(n \in Nat /\ Quiet(x, n))
    BY <1>1 DEF Quiet
  <1>3. s.missing # {} /\ s.missing \subseteq 1 .. n + 1 /\ n \in Nat /\ Serving(x, n, Min(s.missing))
          => Quiet(y, n) /\ k = Min(s.missing)
    <2>1. s.missing # {} /\ s.missing \subseteq 1 .. n + 1 /\ n \in Nat => Min(s.missing) \in Nat
      BY MinIn
    <2> QED BY <2>1, ServingSends
  <1>4. n \in Nat /\ Ending(x, n) => Ending(y, n) /\ x.next <= n + 1
    BY EndingSends
  <1>a. Own(me, cs, x, n) => Own(me, cs, y, n) /\ n \in Nat
    BY <1>0 DEF Own
  <1>b. Joined(me, s, cs, x, n) => Joined(me, s, cs, y, n) /\ n \in Nat /\ x.other = me
    BY <1>a DEF Joined, Own
  <1>c. /\ Len(r) \in Nat /\ Len(Append(r, m)) = Len(r) + 1 /\ DOMAIN r = 1 .. Len(r)
        /\ DOMAIN Append(r, m) = 1 .. Len(r) + 1
        /\ \A i \in DOMAIN r : Append(r, m)[i] = r[i]
        /\ Append(r, m)[Len(r) + 1] = m
        /\ r = << >> => Len(r) = 0
    BY AppendSeq DEF Mails
  <1>d. NoFin(r) => NoFin(Append(r, m))
    BY <1>c DEF NoFin, IsData
  <1>5. s.pc \notin {"connect", "syn", "bye", "ack", "again", "ready", "rts"}
    BY <1>1, <1>2, <1>b DEF PhaseOf, SynPhase, AckPhase, AgainPhase, ReadyPhase, RtsPhase, Fresh, Own
  <1>9. ASSUME s.pc = "gather" PROVE GatherPhase(me, u, s, q, Append(r, m), cs, y, n, b)
    <2>1. GatherPhase(me, u, s, q, r, cs, x, n, b) /\ n \in Nat /\ x.ready
      BY <1>1, <1>9, <1>b DEF PhaseOf, GatherPhase
    <2>2. /\ Idle(q, b) /\ \A i \in DOMAIN r : IsData(r[i], me, x.next - 1 - Len(r) + i)
          /\ Len(r) <= x.next - 1 - s.got /\ (~u => Len(r) = x.next - 1 - s.got) /\ s.got \in Nat
      BY <2>1 DEF GatherPhase
    <2>3. Calm(y, n) /\ k = x.next /\ y.next = x.next + 1 /\ x.next \in Nat /\ x.other = me
      BY <1>1, <1>b, <2>1 DEF GatherPhase
    <2>4. \A i \in DOMAIN Append(r, m) : IsData(Append(r, m)[i], me, y.next - 1 - Len(Append(r, m)) + i)
      <3> SUFFICES ASSUME NEW i \in 1 .. Len(r) + 1
                   PROVE  IsData(Append(r, m)[i], me, (x.next + 1) - 1 - (Len(r) + 1) + i)
        BY <1>c, <2>3
      <3>1. CASE i \in DOMAIN r
        <4>1. (x.next + 1) - 1 - (Len(r) + 1) + i = x.next - 1 - Len(r) + i
          BY <1>c, <2>3
        <4> QED BY <1>c, <2>2, <3>1, <4>1
      <3>2. CASE i = Len(r) + 1
        <4>1. (x.next + 1) - 1 - (Len(r) + 1) + i = x.next
          BY <1>c, <2>3, <3>2
        <4> QED BY <1>c, <2>3, <3>2, <4>1
      <3> QED BY <1>c, <3>1, <3>2
    <2>5. Len(Append(r, m)) <= y.next - 1 - s.got /\ (~u => Len(Append(r, m)) = y.next - 1 - s.got)
      BY <1>c, <2>2, <2>3
    <2> QED BY <1>0, <1>b, <2>1, <2>2, <2>3, <2>4, <2>5 DEF GatherPhase
  <1>11. ASSUME s.pc = "answer" PROVE AnswerPhase(me, u, s, q, Append(r, m), cs, y, n, b)
    <2>1. /\ Joined(me, s, cs, x, n) /\ s.missing # {} /\ s.missing \subseteq 1 .. n + 1
          /\ Idle(q, b) /\ r = << >> /\ Serving(x, n, Min(s.missing)) /\ n \in Nat
      BY <1>2, <1>11, <1>b DEF PhaseOf, AnswerPhase
    <2>2. Quiet(y, n) /\ IsData(m, me, Min(s.missing))
      BY <1>3, <1>b, <2>1
    <2>3. Len(Append(r, m)) = 1 /\ Append(r, m)[1] = m
      BY <1>c, <2>1
    <2> QED BY <1>b, <2>1, <2>2, <2>3 DEF AnswerPhase
  <1>12. ASSUME s.pc = "fin" PROVE FinPhase(me, u, s, q, Append(r, m), cs, y, n, b)
    <2>1. FinPhase(me, u, s, q, r, cs, x, n, b) /\ n \in Nat
      BY <1>12, <1>b DEF PhaseOf, FinPhase
    <2>2. u /\ x.ready
      BY <1>1, <1>2, <2>1 DEF FinPhase
    <2> QED BY <1>0, <1>1, <1>b, <1>d, <2>1, <2>2 DEF FinPhase
  <1>13. ASSUME s.pc = "finack" PROVE FinackPhase(me, u, s, q, Append(r, m), cs, y, n, b)
    <2>1. FinackPhase(me, u, s, q, r, cs, x, n, b)
      BY <1>13 DEF PhaseOf
    <2> QED BY <1>0, <1>1, <1>2, <1>4, <1>a, <1>b, <1>d, <2>1 DEF FinackPhase
  <1>14. ASSUME s.pc \in {"close", "done"} PROVE ClosePhase(u, q, Append(r, m), cs, b)
    BY <1>14 DEF PhaseOf, ClosePhase
  <1> QED BY <1>5, <1>9, <1>11, <1>12, <1>13, <1>14, Zenon DEF PhaseOf

---------------------------------------------------------------------------
(* The client.                                                             *)

\* The client takes the answer to its SYN.
LEMMA AckTakes ==
    ASSUME NEW me, NEW u, NEW q, NEW r, NEW cs, NEW x, NEW n, NEW b,
           AckPhase(me, u, q, r, cs, x, n, b), Mails(r), r # << >>
    PROVE  /\ AgainPhase(me, q, Tail(r), cs, x, n, b)
           /\ u => AckPhase(me, u, q, Tail(r), cs, x, n, b)
           /\ \A v, t : /\ r[1].type = "ACK" /\ r[1].recv = me /\ t.other = r[1].send /\ t.count = r[1].seg
                        /\ (r[1].seg = 0 => v)
                        => ReadyPhase(me, v, t, q, Tail(r), cs, x, n, b)
  <1>1. /\ Len(Tail(r)) = Len(r) - 1 /\ Len(r) \in Nat /\ Mails(Tail(r))
        /\ Len(Tail(r)) = 0 => Tail(r) = << >>
    BY TailSeq, TailMails DEF Mails, IsSeq
  <1>2. /\ Fresh(me, cs, x, n) /\ Idle(q, b) /\ Len(r) = 1
        /\ Opened(r[1], me, cs, n) \/ (u /\ r[1].type = "RTS")
    BY DEF AckPhase, DeadEnd, Idle
  <1>3. Tail(r) = << >>
    BY <1>1, <1>2
  <1>4. AgainPhase(me, q, Tail(r), cs, x, n, b)
    BY <1>2, <1>3 DEF AgainPhase
  <1>5. u => AckPhase(me, u, q, Tail(r), cs, x, n, b)
    BY <1>2, <1>3 DEF AckPhase, DeadEnd, Idle
  <1>7. ASSUME NEW v, NEW t, r[1].type = "ACK", r[1].recv = me, t.other = r[1].send, t.count = r[1].seg,
               r[1].seg = 0 => v
        PROVE  ReadyPhase(me, v, t, q, Tail(r), cs, x, n, b)
    <2>1. cs = <<r[1].send>> /\ r[1].seg = n
      BY <1>2, <1>7 DEF Opened
    <2>2. cs # << >> /\ cs[1] = r[1].send
      BY <2>1
    <2> QED BY <1>2, <1>3, <1>7, <2>1, <2>2 DEF ReadyPhase, Joined, Fresh
  <1> QED BY <1>4, <1>5, <1>7

\* The client takes a segment.
LEMMA GatherTakes ==
    ASSUME NEW me, NEW u, NEW s, NEW q, NEW r, NEW cs, NEW x, NEW n, NEW b,
           GatherPhase(me, u, s, q, r, cs, x, n, b), Mails(r), r # << >>
    PROVE  /\ u => GatherPhase(me, u, s, q, Tail(r), cs, x, n, b)
           /\ \A t : /\ r[1].type = "SYN" /\ r[1].seg = s.got + 1
                     /\ t.other = s.other /\ t.count = s.count /\ t.got = s.got + 1 /\ t.missing \subseteq 1 .. t.got
                     => /\ t.got <= t.count => GatherPhase(me, u, t, q, Tail(r), cs, x, n, b)
                        /\ ~(t.got <= t.count) /\ t.missing = {} => FinPhase(me, u, t, q, Tail(r), cs, x, n, b)
                        /\ ~(t.got <= t.count) /\ t.missing # {} => RtsPhase(me, t, q, Tail(r), cs, x, n, b)
  <1>1. /\ Len(Tail(r)) = Len(r) - 1 /\ Len(r) \in Nat /\ Len(r) # 0 /\ Mails(Tail(r))
        /\ Len(Tail(r)) = 0 => Tail(r) = << >>
        /\ DOMAIN r = 1 .. Len(r) /\ DOMAIN Tail(r) = 1 .. Len(r) - 1
        /\ \A k \in 1 .. Len(r) - 1 : Tail(r)[k] = r[k + 1] /\ k + 1 \in DOMAIN r
    BY TailSeq, TailMails DEF Mails, IsSeq
  <1>2. /\ Joined(me, s, cs, x, n) /\ Calm(x, n) /\ n # 0 /\ n \in Nat /\ s.got \in 0 .. n
        /\ s.missing \subseteq 1 .. s.got /\ s.count = n /\ s.other = cs[1] /\ x.next \in 1 .. n + 2
    BY DEF GatherPhase, Joined, Own, Calm
  <1>3. CASE DeadEnd(u, q, r, b) /\ ~x.ready
    <2>1. u /\ r[1].type = "RTS" /\ Len(r) = 1 /\ Idle(q, b)
      BY <1>3 DEF DeadEnd, Idle
    <2>2. DeadEnd(u, q, Tail(r), b)
      BY <1>1, <2>1 DEF DeadEnd, Idle
    <2> QED BY <1>2, <1>3, <2>1, <2>2 DEF GatherPhase
  <1>4. CASE /\ Idle(q, b) /\ x.ready
             /\ \A k \in DOMAIN r : IsData(r[k], me, x.next - 1 - Len(r) + k)
             /\ Len(r) <= x.next - 1 - s.got /\ (~u => Len(r) = x.next - 1 - s.got)
    <2>1. r[1].recv = me /\ r[1].type = "SYN" /\ r[1].seg = x.next - Len(r)
      <3>1. IsData(r[1], me, x.next - 1 - Len(r) + 1)
        BY <1>1, <1>4
      <3>2. x.next - 1 - Len(r) + 1 = x.next - Len(r)
        BY <1>1, <1>2
      <3> QED BY <3>1, <3>2 DEF IsData
    <2>3. \A k \in DOMAIN Tail(r) : IsData(Tail(r)[k], me, x.next - 1 - Len(Tail(r)) + k)
      <3> SUFFICES ASSUME NEW k \in 1 .. Len(r) - 1
                   PROVE  IsData(Tail(r)[k], me, x.next - 1 - (Len(r) - 1) + k)
        BY <1>1
      <3>0. Len(r) \in Int /\ x.next \in Int /\ k \in Int
        BY <1>1, <1>2
      <3>1. x.next - 1 - (Len(r) - 1) + k = x.next - 1 - Len(r) + (k + 1)
        BY ONLY SMTT(30), <3>0
      <3> QED BY <1>1, <1>4, <3>1
    <2>4. u => GatherPhase(me, u, s, q, Tail(r), cs, x, n, b)
      <3>1. Len(Tail(r)) <= x.next - 1 - s.got
        BY <1>1, <1>2, <1>4
      <3> QED BY <1>2, <1>4, <2>3, <3>1 DEF GatherPhase
    <2>5. ASSUME NEW t, r[1].seg = s.got + 1,
                 t.other = s.other, t.count = s.count, t.got = s.got + 1, t.missing \subseteq 1 .. t.got
          PROVE  /\ t.got <= t.count => GatherPhase(me, u, t, q, Tail(r), cs, x, n, b)
                 /\ ~(t.got <= t.count) /\ t.missing = {} => FinPhase(me, u, t, q, Tail(r), cs, x, n, b)
                 /\ ~(t.got <= t.count) /\ t.missing # {} => RtsPhase(me, t, q, Tail(r), cs, x, n, b)
      <3>1. Len(Tail(r)) = x.next - 1 - t.got /\ t.got \in 1 .. n + 1
        BY SMTT(30), <1>1, <1>2, <2>1, <2>5
      <3>2. Joined(me, t, cs, x, n)
        BY <1>2, <2>5 DEF Joined
      <3>3. CASE t.got <= t.count
        <4>1. t.got \in 0 .. n
          BY <1>2, <2>5, <3>1, <3>3
        <4> QED BY <1>2, <1>4, <2>3, <2>5, <3>1, <3>2, <3>3, <4>1 DEF GatherPhase
      <3>4. CASE ~(t.got <= t.count)
        <4>1. t.got = n + 1 /\ x.next = n + 2 /\ Len(Tail(r)) = 0
          <5>1. n \in Nat /\ x.next \in 1 .. n + 2 /\ Len(r) \in Nat /\ Len(r) # 0 /\ t.count = n
            BY <1>1, <1>2, <2>5
          <5>2. Len(Tail(r)) = Len(r) - 1
            BY <1>1
          <5> QED BY ONLY <3>1, <3>4, <5>1, <5>2
        <4>2. Tail(r) = << >> /\ Quiet(x, n)
          BY <1>1, <1>2, <1>4, <4>1 DEF Quiet
        <4>3. NoFin(Tail(r))
          BY <1>1, <4>1 DEF NoFin
        <4>4. t.missing \subseteq 1 .. n + 1
          BY <2>5, <4>1
        <4> QED BY <1>2, <1>4, <3>2, <3>4, <4>2, <4>3, <4>4 DEF FinPhase, RtsPhase, Idle, Apologises
      <3> QED BY <3>3, <3>4
    <2> QED BY <2>1, <2>4, <2>5
  <1> QED BY <1>3, <1>4 DEF GatherPhase

\* The client takes the segment it asked for.
LEMMA AnswerTakes ==
    ASSUME NEW me, NEW u, NEW s, NEW q, NEW r, NEW cs, NEW x, NEW n, NEW b,
           AnswerPhase(me, u, s, q, r, cs, x, n, b), Mails(r), r # << >>
    PROVE  /\ u => AnswerPhase(me, u, s, q, Tail(r), cs, x, n, b)
           /\ \A t : /\ r[1].type = "SYN"
                     /\ t.other = s.other /\ t.count = s.count /\ t.missing \subseteq s.missing
                     => /\ t.missing = {} => FinPhase(me, u, t, q, Tail(r), cs, x, n, b)
                        /\ t.missing # {} => RtsPhase(me, t, q, Tail(r), cs, x, n, b)
  <1>1. /\ Len(Tail(r)) = Len(r) - 1 /\ Len(r) \in Nat /\ Len(r) # 0 /\ Mails(Tail(r))
        /\ Len(Tail(r)) = 0 => Tail(r) = << >>
        /\ DOMAIN Tail(r) = 1 .. Len(r) - 1
    BY TailSeq, TailMails DEF Mails, IsSeq
  <1>2. /\ Joined(me, s, cs, x, n) /\ s.missing # {} /\ s.missing \subseteq 1 .. n + 1 /\ Quiet(x, n) /\ Calm(x, n)
        /\ Idle(q, b) /\ Len(r) = 1
        /\ \/ u /\ r[1].type = "RTS"
           \/ IsData(r[1], me, Min(s.missing))
    BY DEF AnswerPhase, DeadEnd, Idle, Quiet
  <1>3. Tail(r) = << >>
    BY <1>1, <1>2
  <1>4. u => AnswerPhase(me, u, s, q, Tail(r), cs, x, n, b)
    BY <1>2, <1>3 DEF AnswerPhase, DeadEnd, Idle
  <1>6. NoFin(Tail(r))
    BY <1>1, <1>2 DEF NoFin
  <1>7. ASSUME NEW t, t.other = s.other, t.count = s.count, t.missing \subseteq s.missing
        PROVE  /\ t.missing = {} => FinPhase(me, u, t, q, Tail(r), cs, x, n, b)
               /\ t.missing # {} => RtsPhase(me, t, q, Tail(r), cs, x, n, b)
    BY <1>2, <1>3, <1>6, <1>7 DEF FinPhase, RtsPhase, Joined, Idle, Apologises
  <1> QED BY <1>4, <1>7

\* The client takes what comes before the FIN, and the FIN.
LEMMA FinackTakes ==
    ASSUME NEW me, NEW u, NEW s, NEW q, NEW r, NEW cs, NEW x, NEW n, NEW b,
           FinackPhase(me, u, s, q, r, cs, x, n, b), Mails(r), r # << >>
    PROVE  /\ u => FinackPhase(me, u, s, q, Tail(r), cs, x, n, b)
           /\ r[1].type = "FIN" => SynPhase(q, Tail(r), cs, b)
  <1>1. /\ Len(Tail(r)) = Len(r) - 1 /\ Len(r) \in Nat /\ Len(r) # 0 /\ Mails(Tail(r))
        /\ Len(Tail(r)) = 0 => Tail(r) = << >>
        /\ DOMAIN r = 1 .. Len(r) /\ DOMAIN Tail(r) = 1 .. Len(r) - 1
        /\ \A k \in 1 .. Len(r) - 1 : Tail(r)[k] = r[k + 1] /\ k + 1 \in DOMAIN r
    BY TailSeq, TailMails DEF Mails, IsSeq
  <1>2. NoFin(r) => NoFin(Tail(r)) /\ r[1].type # "FIN"
    BY <1>1 DEF NoFin
  <1>3. CASE NoFin(r)
    <2>1. ~(Idle(q, b) /\ cs = << >> /\ r # << >> /\ IsFin(r[Len(r)], me))
      BY <1>1, <1>3 DEF NoFin, IsFin
    <2>2. u
      BY <2>1 DEF FinackPhase
    <2> QED BY <1>2, <1>3, <2>1, <2>2 DEF FinackPhase
  <1>4. CASE ~NoFin(r)
    <2>1. /\ Idle(q, b) /\ cs = << >> /\ IsFin(r[Len(r)], me)
          /\ \A k \in 1 .. Len(r) - 1 : r[k].type # "FIN"
          /\ ~u => Len(r) = 1
      BY <1>4 DEF FinackPhase
    <2>2. r[1].type = "FIN" => Len(r) = 1
      BY <1>1, <2>1
    <2>3. CASE Len(r) = 1
      <3>1. Tail(r) = << >> /\ NoFin(Tail(r))
        BY <1>1, <2>3 DEF NoFin
      <3> QED BY <2>1, <2>3, <3>1 DEF FinackPhase, SynPhase, Idle, Apologises, IsFin
    <2>4. CASE Len(r) # 1
      <3>1. Tail(r) # << >> /\ Tail(r)[Len(Tail(r))] = r[Len(r)]
        BY <1>1, <2>4
      <3>2. \A k \in 1 .. Len(Tail(r)) - 1 : Tail(r)[k].type # "FIN"
        BY <1>1, <2>1
      <3> QED BY <2>1, <2>2, <2>4, <3>1, <3>2 DEF FinackPhase
    <2> QED BY <2>3, <2>4
  <1> QED BY <1>3, <1>4

\* What a phase does not look at: locks and history of the client, the content of messages, and all of a damaged one but its number.
LEMMA PhaseKeeps ==
    ASSUME NEW me, NEW u, NEW v, NEW s, NEW t, NEW q, NEW q2, NEW r, NEW r2, NEW cs, NEW x, NEW n, NEW b,
           u => v,
           t.pc = s.pc, t.other = s.other, t.count = s.count, t.got = s.got, t.missing = s.missing,
           Len(q2) = Len(q), q2 = << >> <=> q = << >>,
           \A k \in {1, Len(q)} : q2[k].seg = q[k].seg /\ (q2[k].intact => q2[k] = q[k]),
           Len(r2) = Len(r), r2 = << >> <=> r = << >>, DOMAIN r2 = DOMAIN r,
           \A k \in DOMAIN r \cup {1, Len(r)} \cup 1 .. Len(r) - 1 :
              r2[k].type = r[k].type /\ r2[k].recv = r[k].recv /\ r2[k].send = r[k].send
              /\ r2[k].seg = r[k].seg /\ r2[k].chan = r[k].chan,
           PhaseOf(me, u, s, q, r, cs, x, n, b)
    PROVE  PhaseOf(me, v, t, q2, r2, cs, x, n, b)
  <1>1. \A to, id, types : /\ Asked(q[1], to, id, types) => Asked(q2[1], to, id, types)
                           /\ Asked(q[Len(q)], to, id, types) => Asked(q2[Len(q2)], to, id, types)
    BY DEF Asked
  <1>0. q2[1].seg = q[1].seg
    OBVIOUS
  <1>2. \A k \in DOMAIN r \cup {1} : \A j : IsData(r[k], me, j) => IsData(r2[k], me, j)
    BY DEF IsData
  <1>3. IsFin(r[Len(r)], me) => IsFin(r2[Len(r)], me)
    BY DEF IsFin
  <1>4. NoFin(r) => NoFin(r2)
    BY DEF NoFin
  <1>5. Opened(r[1], me, cs, n) => Opened(r2[1], me, cs, n)
    BY DEF Opened
  <1>6. DeadEnd(u, q, r, b) => DeadEnd(v, q2, r2, b)
    BY DEF DeadEnd
  <1>7. Idle(q, b) => Idle(q2, b)
    BY DEF Idle
  <1>8. Joined(me, s, cs, x, n) => Joined(me, t, cs, x, n)
    BY DEF Joined
  <1>11. ASSUME t.pc \in {"connect", "syn", "bye"} PROVE SynPhase(q2, r2, cs, b)
    BY <1>7, <1>11 DEF PhaseOf, SynPhase
  <1>12. ASSUME t.pc = "ack" PROVE AckPhase(me, v, q2, r2, cs, x, n, b)
    BY <1>0, <1>1, <1>5, <1>6, <1>7, <1>12 DEF PhaseOf, AckPhase
  <1>13. ASSUME t.pc = "again" PROVE AgainPhase(me, q2, r2, cs, x, n, b)
    BY <1>7, <1>13 DEF PhaseOf, AgainPhase
  <1>14. ASSUME t.pc = "ready" PROVE ReadyPhase(me, v, t, q2, r2, cs, x, n, b)
    BY <1>7, <1>8, <1>14 DEF PhaseOf, ReadyPhase
  <1>15. ASSUME t.pc = "gather" PROVE GatherPhase(me, v, t, q2, r2, cs, x, n, b)
    BY <1>1, <1>2, <1>6, <1>7, <1>8, <1>15 DEF PhaseOf, GatherPhase
  <1>16. ASSUME t.pc = "rts" PROVE RtsPhase(me, t, q2, r2, cs, x, n, b)
    BY <1>7, <1>8, <1>16 DEF PhaseOf, RtsPhase
  <1>17. ASSUME t.pc = "answer" PROVE AnswerPhase(me, v, t, q2, r2, cs, x, n, b)
    BY <1>0, <1>1, <1>2, <1>6, <1>7, <1>8, <1>17 DEF PhaseOf, AnswerPhase
  <1>18. ASSUME t.pc = "fin" PROVE FinPhase(me, v, t, q2, r2, cs, x, n, b)
    BY <1>1, <1>4, <1>7, <1>8, <1>18 DEF PhaseOf, FinPhase
  <1>19. ASSUME t.pc = "finack" PROVE FinackPhase(me, v, t, q2, r2, cs, x, n, b)
    BY <1>1, <1>3, <1>4, <1>7, <1>8, <1>19 DEF PhaseOf, FinackPhase
  <1>20. ASSUME t.pc \in {"close", "done"} PROVE ClosePhase(v, q2, r2, cs, b)
    BY <1>1, <1>20 DEF PhaseOf, ClosePhase
  <1> QED BY <1>11, <1>12, <1>13, <1>14, <1>15, <1>16, <1>17, <1>18, <1>19, <1>20 DEF PhaseOf

\* What the exchange of one client depends on is as before.
Same(d) ==
    /\ UNCHANGED sc /\ (server # "up" => server' # "up")
    /\ cl'[d] = cl[d] /\ toServer'[d] = toServer[d] /\ toClient'[d] = toClient[d]
    /\ gone'[d] = gone[d] /\ shut'[d] = shut[d] /\ (d \in upset' <=> d \in upset)
    /\ chans'[d] = chans[d] /\ Mine(d)' = Mine(d) /\ Work(d)' = Work(d)

\* The exchange of a client that is not concerned.
LEMMA SameTalks == ASSUME NEW d \in Clients, Talks(d), Same(d) PROVE Talks(d)'
  <1>1. UNCHANGED handles
    BY DEF handles, Same
  <1>2. Num(d)' = Num(d) /\ selfID(d)' = selfID(d)
    BY <1>1 DEF Num, Same, Mine, NumOf, selfID
  <1>3. Phase(d) => Phase(d)'
    BY <1>2, PhaseKeeps DEF Phase, Same
  <1>4. Sound(d \in upset, toServer[d], toClient[d])
          => Sound(d \in upset, toServer[d], toClient[d])'
    BY DEF Same, Sound
  <1> QED BY <1>3, <1>4 DEF Talks, Same

---------------------------------------------------------------------------
(* The client, between the states.                                         *)

\* Only what concerns client c changes, and nothing of the server.
Alone(c) ==
    /\ UNCHANGED <<sc, server, arrays, serverVars>>
    /\ \A d \in Clients \ {c} :
          /\ cl'[d] = cl[d] /\ toServer'[d] = toServer[d] /\ toClient'[d] = toClient[d]
          /\ gone'[d] = gone[d] /\ shut'[d] = shut[d] /\ (d \in upset' <=> d \in upset)

\* A step of another client does not concern it.
LEMMA AloneSame == ASSUME NEW c, Alone(c), NEW d \in Clients, d # c PROVE Same(d)
  BY DEF Alone, Same, Mine, Work, conn, arrays, serverVars

\* send_msg, recv_msg and exit of a client concern only that client.
LEMMA SendAlone ==
    ASSUME NetShapes, ClientShapes, NEW c \in Clients, NEW m, NEW r, client_send(c, m, r),
           UNCHANGED <<arrays, serverVars>>
    PROVE  Alone(c)
  <1>1. CASE SendOk(c, m, r)
    BY <1>1 DEF SendOk, Become, Alone, NetShapes, ClientShapes
  <1>2. CASE SendFails(c, r)
    BY <1>2 DEF SendFails, Become, Alone, NetShapes, ClientShapes, net
  <1>3. CASE SendKills(c)
    BY <1>3 DEF SendKills, Exits, Alone, NetShapes, ClientShapes
  <1> QED BY <1>1, <1>2, <1>3 DEF client_send

LEMMA TakesAlone ==
    ASSUME NetShapes, ClientShapes, NEW c \in Clients, NEW r, Takes(c, r),
           UNCHANGED <<arrays, serverVars>>, upset' = upset \/ upset' = upset \cup {c}
    PROVE  Alone(c)
  BY DEF Takes, Become, Alone, NetShapes, ClientShapes

LEMMA ExitsAlone ==
    ASSUME NetShapes, ClientShapes, NEW c \in Clients, NEW pc, Exits(c, pc),
           UNCHANGED <<arrays, serverVars, sc, server, toServer, shut, upset>>
    PROVE  Alone(c)
  BY DEF Exits, Alone, NetShapes, ClientShapes

\* So does every step of a client.
LEMMA ClientAlone ==
    ASSUME NetShapes, ClientShapes, NEW c \in Clients, ClientStep(c), UNCHANGED <<arrays, serverVars>>
    PROVE  Alone(c)
  <1>1. CASE Syn(c) \/ SynAgain(c) \/ Rts(c) \/ Cease(c) \/ Bye(c) \/ Ready(c)
    BY <1>1, SendAlone DEF Syn, SynAgain, Rts, Cease, Bye, Ready
  <1>2. CASE Crashes(c) \/ Close(c)
    BY <1>2, ExitsAlone DEF Crashes, Close
  <1>3. CASE GivesUp(c)
    BY <1>3, TakesAlone DEF GivesUp
  <1>4. CASE Ack(c)
    BY <1>2, <1>3, <1>4, TakesAlone DEF Ack
  <1>5. CASE Gather(c)
    BY <1>2, <1>3, <1>5, TakesAlone DEF Gather
  <1>6. CASE AnswerRead(c)
    BY <1>2, <1>3, <1>6, TakesAlone DEF AnswerRead
  <1>7. CASE FinAck(c)
    BY <1>2, <1>3, <1>7, TakesAlone DEF FinAck
  <1>8. CASE Connect(c)
    BY <1>8 DEF Connect, Become, Alone, NetShapes, ClientShapes
  <1> QED BY <1>1, <1>2, <1>4, <1>5, <1>6, <1>7, <1>8 DEF ClientStep

\* A message is sent and the client waits for its answer.
LEMMA SendingPhase ==
    ASSUME NEW me, NEW u, NEW s, NEW t, NEW q, NEW r, NEW cs, NEW x, NEW n, NEW b, NEW m, Mails(q),
           m.intact, m.chan = "CONTROL"
    PROVE  /\ /\ SynPhase(q, r, cs, b) \/ AgainPhase(me, q, r, cs, x, n, b)
              /\ m.send = me /\ m.recv = 0 /\ m.type \in {"SYN", "RTS"} /\ m.seg = MAX_SIZE
              => AckPhase(me, u, Append(q, m), r, cs, x, n, b)
           /\ /\ ReadyPhase(me, u, s, q, r, cs, x, n, b) /\ s.count = 0
              /\ m.send = me /\ m.recv = s.other /\ m.type = "SYN" /\ t.other = s.other /\ t.count = s.count
              => FinPhase(me, u, t, Append(q, m), r, cs, x, n, b)
           /\ /\ ReadyPhase(me, u, s, q, r, cs, x, n, b) /\ s.count # 0
              /\ m.send = me /\ m.recv = s.other /\ m.type = "SYN" /\ t.other = s.other /\ t.count = s.count
              /\ t.got = 0 /\ t.missing = {}
              => GatherPhase(me, u, t, Append(q, m), r, cs, x, n, b)
           /\ /\ RtsPhase(me, s, q, r, cs, x, n, b)
              /\ m.send = me /\ m.recv = s.other /\ m.type = "RTS" /\ m.seg = Min(s.missing)
              /\ t.other = s.other /\ t.count = s.count /\ t.missing = s.missing
              => AnswerPhase(me, u, t, Append(q, m), r, cs, x, n, b)
           /\ /\ FinPhase(me, u, s, q, r, cs, x, n, b)
              /\ m.send = me /\ m.recv = s.other /\ m.type = "FIN" /\ t.other = s.other /\ t.count = s.count
              => FinackPhase(me, u, t, Append(q, m), r, cs, x, n, b)
           /\ SynPhase(q, r, cs, b) /\ m.send = 0 /\ m.recv = 0 /\ m.type = "FIN"
              => ClosePhase(u, Append(q, m), r, cs, b)
  <1> DEFINE p == Append(q, m)
  <1>1. /\ Len(q) \in Nat /\ Len(p) = Len(q) + 1 /\ p[Len(q) + 1] = m
        /\ DOMAIN q = 1 .. Len(q) /\ \A i \in DOMAIN q : p[i] = q[i]
        /\ q = << >> => Len(q) = 0
    BY AppendSeq DEF Mails
  <1>2. q = << >> => Len(p) = 1 /\ p[1] = m
    BY <1>1
  <1>3. Len(q) = 1 => Len(p) = 2 /\ p[1] = q[1] /\ p[2] = m
    BY <1>1
  <1>4. NoFin(<< >>)
    BY DEF NoFin
  <1> HIDE DEF p
  <1>5. ASSUME SynPhase(q, r, cs, b) \/ AgainPhase(me, q, r, cs, x, n, b),
               m.send = me, m.recv = 0, m.type \in {"SYN", "RTS"}, m.seg = MAX_SIZE
        PROVE  AckPhase(me, u, p, r, cs, x, n, b)
    BY <1>2, <1>5 DEF SynPhase, AgainPhase, AckPhase, Idle, Asked, Fresh
  <1>6. ASSUME ReadyPhase(me, u, s, q, r, cs, x, n, b), m.send = me, m.recv = s.other, m.type = "SYN",
               t.other = s.other, t.count = s.count
        PROVE  /\ s.count = 0 => FinPhase(me, u, t, p, r, cs, x, n, b)
               /\ s.count # 0 /\ t.got = 0 /\ t.missing = {} => GatherPhase(me, u, t, p, r, cs, x, n, b)
    <2>1. /\ Joined(me, t, cs, x, n) /\ m.recv = cs[1] /\ n \in Nat /\ s.count = n /\ Asked(p[1], me, cs[1], {"SYN"})
          /\ Len(p) = 1 /\ r = << >> /\ b.pc = "none" /\ Calm(x, n) /\ ~x.ready /\ (n = 0 => u)
      BY <1>2, <1>6 DEF ReadyPhase, Joined, Own, Idle, Asked
    <2> QED BY <1>4, <2>1 DEF FinPhase, GatherPhase
  <1>7. ASSUME RtsPhase(me, s, q, r, cs, x, n, b),
               m.send = me, m.recv = s.other, m.type = "RTS", m.seg = Min(s.missing),
               t.other = s.other, t.count = s.count, t.missing = s.missing
        PROVE  AnswerPhase(me, u, t, p, r, cs, x, n, b)
    BY <1>2, <1>7 DEF RtsPhase, AnswerPhase, Joined, Idle, Asked
  <1>8. ASSUME FinPhase(me, u, s, q, r, cs, x, n, b),
               m.send = me, m.recv = s.other, m.type = "FIN", t.other = s.other, t.count = s.count
        PROVE  FinackPhase(me, u, t, p, r, cs, x, n, b)
    <2>1. Joined(me, t, cs, x, n) /\ Asked(m, me, cs[1], {"FIN"}) /\ Calm(x, n) /\ NoFin(r)
      BY <1>8 DEF FinPhase, Joined, Asked
    <2>2. CASE q = << >>
      <3>1. Len(p) = 1 /\ p[Len(p)] = m /\ Apologises(b) /\ (~u => b.pc = "none" /\ r = << >> /\ Quiet(x, n))
        BY <1>1, <1>2, <1>8, <2>2 DEF FinPhase, Idle
      <3> QED BY <2>1, <3>1 DEF FinackPhase
    <2>3. CASE q # << >>
      <3>1. u /\ b.pc = "none" /\ Len(q) = 1 /\ Asked(q[1], me, cs[1], {"SYN"})
        BY <1>8, <2>3 DEF FinPhase, Idle
      <3> QED BY <1>3, <2>1, <3>1 DEF FinackPhase, Apologises
    <2> QED BY <2>2, <2>3
  <1>9. ASSUME SynPhase(q, r, cs, b), m.send = 0, m.recv = 0, m.type = "FIN"
        PROVE  ClosePhase(u, p, r, cs, b)
    BY <1>2, <1>9 DEF SynPhase, ClosePhase, Idle, Asked
  <1> QED BY <1>5, <1>6, <1>7, <1>8, <1>9 DEF p

\* The server is gone before the last request.
LEMMA FinStranded ==
    ASSUME NEW me, NEW u, NEW s, NEW t, NEW q, NEW r, NEW cs, NEW x, NEW n, NEW b,
           FinPhase(me, u, s, q, r, cs, x, n, b), r # << >>
    PROVE  FinackPhase(me, u, t, q, r, cs, x, n, b)
  BY DEF FinPhase, FinackPhase, Joined

\* How the phase reads after a step of the client.
LEMMA OwnPhase ==
    ASSUME NEW c \in Clients, Alone(c),
           PhaseOf(10 * c + cl'[c].cycle, c \in upset', cl'[c], toServer'[c], toClient'[c],
                   chans[c], Mine(c), Num(c), Work(c))
    PROVE  Phase(c)'
  <1>1. UNCHANGED handles
    BY DEF handles, Alone
  <1>2. Mine(c)' = Mine(c) /\ Work(c)' = Work(c) /\ chans'[c] = chans[c]
    BY DEF Mine, Work, conn, arrays, serverVars, Alone
  <1>3. Num(c)' = Num(c) /\ selfID(c)' = 10 * c + cl'[c].cycle
    BY <1>1, <1>2 DEF Num, NumOf, selfID, Mine, arrays, serverVars, Alone
  <1> QED BY <1>2, <1>3 DEF Phase

\* A client that is in step with a server that reads.
Steady(c) == cl[c].inStep /\ sc.receiver # "stub"

\* Then Sent appends, and the first message is read.
LEMMA SoundFramed ==
    ASSUME NEW u, NEW q, NEW r, Mails(q), Mails(r), Sound(u, q, r)
    PROVE  ~Torn(q) /\ ~Torn(r)
  BY TailSeq DEF Sound, Torn, Mails

\* A message is added, or taken off.
LEMMA SoundAppend ==
    ASSUME NEW u, NEW q, NEW r, NEW m, Mails(q), m.intact, m.chan # "OPEN", Sound(u, q, r)
    PROVE  Sound(u, Append(q, m), r)
  BY AppendSeq DEF Sound, Mails

LEMMA SoundReply ==
    ASSUME NEW u, NEW q, NEW r, NEW m, Mails(r), m.chan # "OPEN", Sound(u, q, r)
    PROVE  Sound(u, q, Append(r, m))
  BY AppendSeq DEF Sound, Mails

LEMMA SoundTails ==
    ASSUME NEW u, NEW q, NEW r, Mails(q), Mails(r), Sound(u, q, r)
    PROVE  /\ q # << >> => Sound(u, Tail(q), r)
           /\ r # << >> => Sound(u, q, Tail(r))
           /\ Sound(u, q, << >>)
  BY TailSeq DEF Sound, Mails

\* The client sends message m and goes on in record t: the exchange is in its new phase.
LEMMA SendTalks ==
    ASSUME Shapes, NEW c \in Clients, Talks(c), Steady(c), cl[c].pc \notin {"close", "done", "crashed"}, Alone(c),
           NEW m, m.intact, m.chan # "OPEN",
           NEW t, client_send(c, m, t), DOMAIN t = ClientFields, t.cycle = cl[c].cycle, t.pc \notin {"done", "crashed"},
           Phase(c) =>
             PhaseOf(selfID(c), c \in upset, t, Append(toServer[c], m), toClient[c], chans[c], Mine(c), Num(c), Work(c)),
           Phase(c) /\ toClient[c] # << >> =>
             PhaseOf(selfID(c), c \in upset, t, toServer[c], toClient[c], chans[c], Mine(c), Num(c), Work(c))
    PROVE  Talks(c)'
  <1>0. /\ gone[c] = "no" /\ shut[c] = "no" /\ Sound(c \in upset, toServer[c], toClient[c])
        /\ Phase(c) \/ (server # "up" /\ toClient[c] = << >>)
        /\ selfID(c) = 10 * c + t.cycle
        /\ Mails(toServer[c]) /\ Mails(toClient[c]) /\ DOMAIN cl = Clients /\ DOMAIN cl[c] = ClientFields
        /\ c \in DOMAIN toServer /\ c \in DOMAIN toClient /\ c \in DOMAIN shut
    BY DEF Talks, Steady, selfID, Shapes, NetShapes, ClientShapes
  <1>1. CASE SendOk(c, m, t)
    <2>1. server = "up" /\ ServerEnd(c) = "no"
      BY <1>0, <1>1 DEF SendOk, Accepts, ServerEnd
    <2>2. /\ toServer'[c] = Append(toServer[c], m) /\ shut'[c] = "no" /\ cl'[c] = t
          /\ UNCHANGED <<toClient, gone, upset, server>>
      BY <1>0, <1>1, <2>1, SoundFramed DEF SendOk, Sent, EndAfter, Become
    <2>3. Phase(c)'
      <3>1. PhaseOf(10 * c + cl'[c].cycle, c \in upset', cl'[c], toServer'[c], toClient'[c],
                    chans[c], Mine(c), Num(c), Work(c))
        BY <1>0, <2>1, <2>2
      <3> QED BY <3>1, OwnPhase
    <2>4. Sound(c \in upset, Append(toServer[c], m), toClient[c])
      BY <1>0, SoundAppend
    <2>5. Sound(c \in upset, toServer[c], toClient[c])'
      BY <2>2, <2>4 DEF Sound, Alone
    <2> QED BY <1>0, <2>2, <2>3, <2>5 DEF Talks
  <1>2. CASE SendFails(c, t)
    <2>1. server # "up"
      BY <1>0, <1>2 DEF SendFails, ServerEnd
    <2> DEFINE y == [t EXCEPT !.sendLocked = TRUE]
    <2>2. cl'[c] = y /\ UNCHANGED net
      BY <1>0, <1>2 DEF SendFails, Become
    <2>3. /\ y.pc = t.pc /\ y.other = t.other /\ y.count = t.count /\ y.got = t.got /\ y.missing = t.missing
          /\ y.cycle = t.cycle
      BY DEF ClientFields
    <2> HIDE DEF y
    <2>4. Phase(c)' \/ (server' # "up" /\ toClient'[c] = << >>)
      <3>1. CASE toClient[c] = << >>
        BY <2>1, <2>2, <3>1 DEF net
      <3>2. CASE toClient[c] # << >>
        <4>1. PhaseOf(selfID(c), c \in upset, t, toServer[c], toClient[c], chans[c], Mine(c), Num(c), Work(c))
          BY <1>0, <3>2
        <4>2. PhaseOf(selfID(c), c \in upset, y, toServer[c], toClient[c], chans[c], Mine(c), Num(c), Work(c))
          BY ONLY <2>3, <4>1, PhaseKeeps
        <4>3. PhaseOf(10 * c + cl'[c].cycle, c \in upset', cl'[c], toServer'[c], toClient'[c],
                      chans[c], Mine(c), Num(c), Work(c))
          BY <1>0, <2>2, <2>3, <4>2 DEF net
        <4> QED BY <4>3, OwnPhase
      <3> QED BY <3>1, <3>2
    <2>5. Sound(c \in upset, toServer[c], toClient[c])'
      BY <1>0, <2>2 DEF Sound, net
    <2> QED BY <1>0, <2>2, <2>3, <2>4, <2>5 DEF Talks, net
  <1>3. CASE SendKills(c)
    <2>1. /\ cl'[c].pc = "crashed" /\ toClient'[c] = << >> /\ UNCHANGED <<sc, toServer, upset>>
      BY <1>0, <1>3 DEF SendKills, Exits, ClientFields
    <2>2. Sound(c \in upset, toServer[c], << >>)
      BY <1>0, SoundTails
    <2>3. Sound(c \in upset, toServer[c], toClient[c])'
      BY <2>1, <2>2 DEF Sound
    <2>4. Phase(c)'
      BY <2>1 DEF Phase, PhaseOf
    <2> QED BY <2>1, <2>3, <2>4 DEF Talks
  <1> QED BY <1>1, <1>2, <1>3 DEF client_send

\* A message is read, or none.
LEMMA ReadNone ==
    ASSUME NetShapes, NEW c \in Clients, sc.receiver # "stub", Read(c).msg = Null
    PROVE  Read(c).rest = << >> /\ (toClient[c] = << >> \/ Torn(toClient[c]))
  BY TailMails DEF NetShapes, Read, recv_msg, Framed

\* The client reads and goes on in record t: the exchange is in its new phase.
LEMMA TakeTalks ==
    ASSUME Shapes, NEW c \in Clients, Talks(c), Steady(c), cl[c].pc \notin {"close", "done", "crashed"}, Alone(c),
           NEW t, Takes(c, t), DOMAIN t = ClientFields, t.pc \notin {"close", "done", "crashed"},
           c \in upset => c \in upset',
           t.inStep =>
              \/ PhaseOf(10 * c + t.cycle, c \in upset', t, toServer[c], Read(c).rest,
                         chans[c], Mine(c), Num(c), Work(c))
              \/ server # "up" /\ Read(c).rest = << >>
    PROVE  Talks(c)'
  <1>0. /\ gone[c] = "no" /\ shut[c] = "no" /\ Sound(c \in upset, toServer[c], toClient[c])
        /\ Mails(toServer[c]) /\ Mails(toClient[c]) /\ DOMAIN cl = Clients /\ DOMAIN cl[c] = ClientFields
        /\ c \in DOMAIN toServer /\ c \in DOMAIN toClient /\ c \in DOMAIN shut
    BY DEF Talks, Steady, Shapes, NetShapes, ClientShapes
  <1> SUFFICES ASSUME cl'[c].inStep PROVE Talks(c)'
    BY DEF Talks
  <1> DEFINE y == [t EXCEPT !.recvLocked = Read(c).locked]
  <1>1. /\ cl'[c] = y /\ toClient'[c] = Read(c).rest
        /\ UNCHANGED <<sc, server, toServer, gone, shut>>
    BY <1>0 DEF Takes, Become
  <1>2. /\ y.pc = t.pc /\ y.other = t.other /\ y.count = t.count /\ y.got = t.got /\ y.missing = t.missing
        /\ y.cycle = t.cycle /\ y.inStep = t.inStep
    BY DEF ClientFields
  <1> HIDE DEF y
  <1>3. Sound(c \in upset, toServer[c], Read(c).rest)
    <2>1. Read(c).rest \in {toClient[c], << >>} \/ (toClient[c] # << >> /\ Read(c).rest = Tail(toClient[c]))
      BY ReadNone, ReadMails DEF Steady, Shapes, Taken
    <2> QED BY <1>0, <2>1, SoundTails
  <1>4. Sound(c \in upset, toServer[c], toClient[c])'
    BY <1>1, <1>3 DEF Sound
  <1>5. CASE PhaseOf(10 * c + t.cycle, c \in upset', t, toServer[c], Read(c).rest, chans[c], Mine(c), Num(c), Work(c))
    <2>1. PhaseOf(10 * c + t.cycle, c \in upset', y, toServer[c], Read(c).rest, chans[c], Mine(c), Num(c), Work(c))
      BY ONLY <1>2, <1>5, PhaseKeeps
    <2>2. PhaseOf(10 * c + cl'[c].cycle, c \in upset', cl'[c], toServer'[c], toClient'[c],
                  chans[c], Mine(c), Num(c), Work(c))
      BY <1>1, <1>2, <2>1
    <2>3. Phase(c)'
      BY <2>2, OwnPhase
    <2> QED BY <1>0, <1>1, <1>2, <1>4, <2>3 DEF Talks
  <1>6. CASE server # "up" /\ Read(c).rest = << >>
    BY <1>0, <1>1, <1>2, <1>4, <1>6 DEF Talks
  <1> QED BY <1>1, <1>2, <1>5, <1>6

\* The end of the stream, while a file is gathered.
LEMMA GivesUpTalks ==
    ASSUME Shapes, NEW c \in Clients, Talks(c), Steady(c), cl[c].pc \in {"gather", "answer"},
           CanTake(c), Alone(c), GivesUp(c)
    PROVE  Talks(c)'
  <1> DEFINE t == [cl[c] EXCEPT !.pc = "fin", !.result = "gave up"]
  <1>1. Takes(c, t) /\ UNCHANGED upset /\ Read(c).rest = << >> /\ toClient[c] = << >>
    BY ReadNone, SoundFramed DEF GivesUp, Steady, Talks, Shapes, NetShapes
  <1>2. DOMAIN t = ClientFields /\ t.pc = "fin"
    BY DEF ClientFields, Shapes, ClientShapes
  <1>3. server # "up"
    <2>1. shut[c] = "no"
      BY DEF Talks, Steady
    <2> QED BY <1>1, <2>1 DEF CanTake, CanRecv, Framed, ServerEnd, Steady
  <1> HIDE DEF t
  <1> QED BY <1>1, <1>2, <1>3, TakeTalks

\* The process ends without having closed the connection.
LEMMA CrashTalks ==
    ASSUME Shapes, NEW c \in Clients, Talks(c), Exits(c, "crashed"), UNCHANGED <<sc, toServer, upset>>
    PROVE  Talks(c)'
  <1>0. /\ Mails(toServer[c]) /\ Mails(toClient[c]) /\ DOMAIN cl = Clients /\ DOMAIN cl[c] = ClientFields
        /\ c \in DOMAIN toClient
    BY DEF Shapes, NetShapes, ClientShapes
  <1>1. /\ cl'[c].pc = "crashed" /\ toClient'[c] = << >> /\ cl'[c].inStep = cl[c].inStep
    BY <1>0 DEF Exits, ClientFields
  <1> SUFFICES ASSUME Steady(c) PROVE Talks(c)'
    BY <1>1 DEF Talks, Steady
  <1>2. Sound(c \in upset, toServer[c], << >>)
    BY <1>0, SoundTails DEF Talks, Steady
  <1>3. Sound(c \in upset, toServer[c], toClient[c])'
    BY <1>1, <1>2 DEF Sound
  <1>4. Phase(c)'
    BY <1>1 DEF Phase, PhaseOf
  <1> QED BY <1>1, <1>3, <1>4 DEF Talks

\* The client sends a request and waits.
LEMMA RequestTalks ==
    ASSUME Shapes, NEW c \in Clients, Talks(c), Steady(c), Alone(c),
           Syn(c) \/ SynAgain(c) \/ Rts(c) \/ Cease(c) \/ Bye(c)
    PROVE  Talks(c)'
  <1> DEFINE s == cl[c]
             P(t, q, r) == PhaseOf(selfID(c), c \in upset, t, q, r, chans[c], Mine(c), Num(c), Work(c))
  <1>0. /\ Mails(toServer[c]) /\ DOMAIN s = ClientFields
        /\ Phase(c) <=> P(s, toServer[c], toClient[c])
    BY DEF Shapes, NetShapes, ClientShapes, Phase
  <1>1. ASSUME NEW sID, NEW rID, NEW type, NEW n, NEW content, NEW pc \in {"ack", "answer", "finack", "close"},
               s.pc \in {"syn", "again", "rts", "fin", "bye"},
               client_send(c, form_msg(sID, rID, "CONTROL", type, n, content), [s EXCEPT !.pc = pc]),
               \A m, t : /\ m.intact /\ m.send = sID /\ m.recv = rID /\ m.chan = "CONTROL" /\ m.type = type /\ m.seg = n
                         /\ t.pc = pc /\ t.other = s.other /\ t.count = s.count /\ t.missing = s.missing
                         /\ P(s, toServer[c], toClient[c])
                         => /\ P(t, Append(toServer[c], m), toClient[c])
                            /\ toClient[c] # << >> => P(t, toServer[c], toClient[c])
        PROVE  Talks(c)'
    <2> DEFINE m == form_msg(sID, rID, "CONTROL", type, n, content)
               t == [s EXCEPT !.pc = pc]
    <2>1. /\ m.intact /\ m.send = sID /\ m.recv = rID /\ m.chan = "CONTROL" /\ m.type = type /\ m.seg = n
          /\ DOMAIN m = MsgFields
      BY DEF form_msg, MsgFields
    <2>2. /\ t.pc = pc /\ t.other = s.other /\ t.count = s.count /\ t.missing = s.missing /\ t.cycle = s.cycle
          /\ DOMAIN t = ClientFields
      BY <1>0 DEF ClientFields
    <2>3. client_send(c, m, t)
      BY <1>1
    <2> HIDE DEF m, t
    <2>4. P(s, toServer[c], toClient[c]) => /\ P(t, Append(toServer[c], m), toClient[c])
                                            /\ toClient[c] # << >> => P(t, toServer[c], toClient[c])
      BY <1>1, <2>1, <2>2
    <2> QED BY <1>0, <1>1, <2>1, <2>2, <2>3, <2>4, SendTalks
  <1>2. CASE Syn(c)
    <2>1. /\ s.pc = "syn"
          /\ client_send(c, form_msg(selfID(c), 0, "CONTROL", "SYN", MAX_SIZE, sc.file), [s EXCEPT !.pc = "ack"])
      BY <1>2 DEF Syn, Is
    <2>2. ASSUME NEW m, NEW t, m.intact, m.send = selfID(c), m.recv = 0, m.chan = "CONTROL", m.type = "SYN", m.seg = MAX_SIZE,
                 t.pc = "ack", P(s, toServer[c], toClient[c])
          PROVE  P(t, Append(toServer[c], m), toClient[c]) /\ toClient[c] = << >>
      BY ONLY <1>0, <2>1, <2>2, SendingPhase DEF PhaseOf, SynPhase
    <2> QED BY <1>1, <2>1, <2>2
  <1>3. CASE SynAgain(c)
    <2>1. /\ s.pc = "again"
          /\ client_send(c, form_msg(selfID(c), 0, "CONTROL", "RTS", MAX_SIZE, sc.file), [s EXCEPT !.pc = "ack"])
      BY <1>3 DEF SynAgain, Is
    <2>2. ASSUME NEW m, NEW t, m.intact, m.send = selfID(c), m.recv = 0, m.chan = "CONTROL", m.type = "RTS", m.seg = MAX_SIZE,
                 t.pc = "ack", P(s, toServer[c], toClient[c])
          PROVE  P(t, Append(toServer[c], m), toClient[c]) /\ toClient[c] = << >>
      BY ONLY <1>0, <2>1, <2>2, SendingPhase DEF PhaseOf, AgainPhase
    <2> QED BY <1>1, <2>1, <2>2
  <1>4. CASE Rts(c)
    <2>1. /\ s.pc = "rts"
          /\ client_send(c, form_msg(selfID(c), s.other, "CONTROL", "RTS", Min(s.missing), << >>), [s EXCEPT !.pc = "answer"])
      BY <1>4 DEF Rts, Is
    <2>2. ASSUME NEW m, NEW t, m.intact, m.send = selfID(c), m.recv = s.other, m.chan = "CONTROL", m.type = "RTS",
                 m.seg = Min(s.missing), t.pc = "answer", t.other = s.other, t.count = s.count, t.missing = s.missing,
                 P(s, toServer[c], toClient[c])
          PROVE  P(t, Append(toServer[c], m), toClient[c]) /\ toClient[c] = << >>
      BY ONLY <1>0, <2>1, <2>2, SendingPhase DEF PhaseOf, RtsPhase
    <2> QED BY <1>1, <2>1, <2>2
  <1>5. CASE Cease(c)
    <2>1. /\ s.pc = "fin"
          /\ client_send(c, form_msg(selfID(c), s.other, "CONTROL", "FIN", 0, << >>), [s EXCEPT !.pc = "finack"])
      BY <1>5 DEF Cease, Is
    <2>2. ASSUME NEW m, NEW t, m.intact, m.send = selfID(c), m.recv = s.other, m.chan = "CONTROL", m.type = "FIN",
                 t.pc = "finack", t.other = s.other, t.count = s.count,
                 P(s, toServer[c], toClient[c])
          PROVE  P(t, Append(toServer[c], m), toClient[c]) /\ (toClient[c] # << >> => P(t, toServer[c], toClient[c]))
      BY ONLY <1>0, <2>1, <2>2, SendingPhase, FinStranded DEF PhaseOf
    <2> QED BY <1>1, <2>1, <2>2
  <1>6. CASE Bye(c)
    <2>1. /\ s.pc = "bye"
          /\ client_send(c, form_msg(0, 0, "CONTROL", "FIN", 0, << >>), [s EXCEPT !.pc = "close"])
      BY <1>6 DEF Bye, Is
    <2>2. ASSUME NEW m, NEW t, m.intact, m.send = 0, m.recv = 0, m.chan = "CONTROL", m.type = "FIN",
                 t.pc = "close", P(s, toServer[c], toClient[c])
          PROVE  P(t, Append(toServer[c], m), toClient[c]) /\ toClient[c] = << >>
      BY ONLY <1>0, <2>1, <2>2, SendingPhase DEF PhaseOf, SynPhase
    <2> QED BY <1>1, <2>1, <2>2
  <1> QED BY <1>2, <1>3, <1>4, <1>5, <1>6

LEMMA ReadyTalks ==
    ASSUME Shapes, NEW c \in Clients, Talks(c), Steady(c), Alone(c), Ready(c)
    PROVE  Talks(c)'
  <1> DEFINE s == cl[c]
             P(t, q, r) == PhaseOf(selfID(c), c \in upset, t, q, r, chans[c], Mine(c), Num(c), Work(c))
             m == form_msg(selfID(c), s.other, "CONTROL", "SYN", MAX_SIZE, sc.file)
             t == IF s.count = 0 THEN [s EXCEPT !.pc = "fin", !.result = "not found"]
                  ELSE [s EXCEPT !.pc = "gather", !.got = 0, !.missing = {}, !.missed = {},
                                 !.out = << >>, !.pos = 0, !.result = "none"]
  <1>0. /\ Mails(toServer[c]) /\ DOMAIN s = ClientFields
        /\ Phase(c) <=> P(s, toServer[c], toClient[c])
    BY DEF Shapes, NetShapes, ClientShapes, Phase
  <1>1. /\ m.intact /\ m.send = selfID(c) /\ m.recv = s.other /\ m.chan = "CONTROL" /\ m.type = "SYN"
        /\ DOMAIN m = MsgFields
    BY DEF form_msg, MsgFields
  <1>2. /\ t.other = s.other /\ t.count = s.count /\ t.cycle = s.cycle /\ DOMAIN t = ClientFields
        /\ s.count = 0 => t.pc = "fin"
        /\ s.count # 0 => t.pc = "gather" /\ t.got = 0 /\ t.missing = {}
    BY <1>0 DEF ClientFields
  <1>3. client_send(c, m, t) /\ s.pc = "ready"
    BY DEF Ready, Is
  <1> HIDE DEF m, t
  <1>4. ASSUME P(s, toServer[c], toClient[c])
        PROVE  P(t, Append(toServer[c], m), toClient[c]) /\ toClient[c] = << >>
    <2>1. ReadyPhase(selfID(c), c \in upset, s, toServer[c], toClient[c], chans[c], Mine(c), Num(c), Work(c))
      BY <1>3, <1>4 DEF PhaseOf
    <2>2. toClient[c] = << >>
      BY <2>1 DEF ReadyPhase
    <2>3. CASE s.count = 0
      <3>1. FinPhase(selfID(c), c \in upset, t, Append(toServer[c], m), toClient[c], chans[c], Mine(c), Num(c), Work(c))
        BY ONLY <1>0, <1>1, <1>2, <2>1, <2>3, SendingPhase
      <3> QED BY <1>2, <2>2, <2>3, <3>1 DEF PhaseOf
    <2>4. CASE s.count # 0
      <3>1. GatherPhase(selfID(c), c \in upset, t, Append(toServer[c], m), toClient[c], chans[c], Mine(c), Num(c), Work(c))
        BY ONLY <1>0, <1>1, <1>2, <2>1, <2>4, SendingPhase
      <3> QED BY <1>2, <2>2, <2>4, <3>1 DEF PhaseOf
    <2> QED BY <2>3, <2>4
  <1>5. t.pc \in {"fin", "gather"}
    BY <1>2
  <1> QED BY <1>0, <1>1, <1>2, <1>3, <1>4, <1>5, SendTalks

\* What an upset client, and one that is not, take while they wait for the ACK.
LEMMA AckExpected ==
    ASSUME NEW me, NEW u, NEW q, NEW r, NEW cs, NEW x, NEW n, NEW b,
           AckPhase(me, u, q, r, cs, x, n, b), r # << >>
    PROVE  u \/ (r[1].recv = me /\ (r[1].type = "ACK" \/ r[1].send = 0))
  BY DEF AckPhase, DeadEnd, Opened

\* The answer to the request for a channel.
LEMMA AckTalks ==
    ASSUME Shapes, NEW c \in Clients, Talks(c), Steady(c), Alone(c), Ack(c)
    PROVE  Talks(c)' /\ (c \notin upset' => cl'[c].inStep)
  <1> DEFINE s == cl[c]
             m == Read(c).msg
             A(v, r) == AckPhase(selfID(c), v, toServer[c], r, chans[c], Mine(c), Num(c), Work(c))
  <1>0. /\ Mails(toClient[c]) /\ DOMAIN s = ClientFields /\ s.pc = "ack" /\ s.inStep /\ DOMAIN cl = Clients
        /\ A(c \in upset, toClient[c]) \/ (server # "up" /\ toClient[c] = << >>)
        /\ selfID(c) = 10 * c + s.cycle
    BY DEF Shapes, NetShapes, ClientShapes, Phase, Talks, Ack, Is, Steady, PhaseOf, selfID
  <1>1. CASE Crashes(c)
    <2>1. Talks(c)'
      BY <1>1, CrashTalks DEF Crashes
    <2> QED BY <1>0, <1>1, <2>1 DEF Crashes, Exits, ClientFields
  <1>3. ASSUME Taken(c)
        PROVE  /\ toClient[c] # << >> /\ m = toClient[c][1] /\ Read(c).rest = Tail(toClient[c])
               /\ A(c \in upset, toClient[c])
    BY <1>0, <1>3, ReadMails DEF Shapes
  <1>4. CASE Taken(c) /\ Takes(c, [s EXCEPT !.pc = "again"]) /\ UNCHANGED upset
    <2> DEFINE t == [s EXCEPT !.pc = "again"]
    <2>1. /\ DOMAIN t = ClientFields /\ t.pc = "again" /\ t.cycle = s.cycle /\ t.inStep
          /\ [t EXCEPT !.recvLocked = Read(c).locked].inStep
      BY <1>0 DEF ClientFields
    <2>2. Takes(c, t) /\ UNCHANGED upset
      BY <1>4
    <2> HIDE DEF t
    <2>3. AgainPhase(selfID(c), toServer[c], Tail(toClient[c]), chans[c], Mine(c), Num(c), Work(c))
      BY ONLY <1>0, <1>3, <1>4, AckTakes
    <2>4. PhaseOf(10 * c + t.cycle, c \in upset', t, toServer[c], Read(c).rest, chans[c], Mine(c), Num(c), Work(c))
      BY <1>0, <1>3, <1>4, <2>1, <2>3 DEF PhaseOf
    <2>5. Talks(c)'
      BY <1>0, <2>1, <2>2, <2>4, TakeTalks
    <2> QED BY <1>0, <2>1, <2>2, <2>5 DEF Takes, Become
  <1>5. ASSUME NEW n \in TotalSegments(m), Taken(c), m.intact,
               Takes(c, [s EXCEPT !.pc = "ready", !.other = m.send, !.count = n, !.inStep = Expected(c, m, "ACK", n)]),
               upset' = IF n = 0 \/ n # m.seg THEN upset \cup {c} ELSE upset
        PROVE  Talks(c)' /\ (c \notin upset' => cl'[c].inStep)
    <2> DEFINE e == Expected(c, m, "ACK", n)
               t == [s EXCEPT !.pc = "ready", !.other = m.send, !.count = n, !.inStep = e]
    <2>1. /\ DOMAIN t = ClientFields /\ t.pc = "ready" /\ t.cycle = s.cycle /\ t.other = m.send /\ t.count = n
          /\ (t.inStep <=> e) /\ ([t EXCEPT !.recvLocked = Read(c).locked].inStep <=> e)
      <3> HIDE DEF e
      <3> QED BY <1>0 DEF ClientFields
    <2>2. Takes(c, t)
      BY <1>5
    <2>3. e <=> m.recv = selfID(c) /\ m.type = "ACK" /\ m.seg = n
      BY <1>0 DEF Expected
    <2> HIDE DEF t, e
    <2>4. ASSUME e
          PROVE  PhaseOf(10 * c + t.cycle, c \in upset', t, toServer[c], Read(c).rest, chans[c], Mine(c), Num(c), Work(c))
      <3>1. m.seg = 0 => c \in upset'
        BY <1>5, <2>3, <2>4
      <3>2. ReadyPhase(selfID(c), c \in upset', t, toServer[c], Tail(toClient[c]), chans[c], Mine(c), Num(c), Work(c))
        <4>1. /\ toClient[c] # << >> /\ Mails(toClient[c]) /\ A(c \in upset, toClient[c])
              /\ toClient[c][1].type = "ACK" /\ toClient[c][1].recv = selfID(c)
              /\ t.other = toClient[c][1].send /\ t.count = toClient[c][1].seg
              /\ toClient[c][1].seg = 0 => c \in upset'
          BY <1>0, <1>3, <1>5, <2>1, <2>3, <2>4, <3>1
        <4> QED BY ONLY <4>1, AckTakes
      <3> QED BY <1>0, <1>3, <1>5, <2>1, <3>2 DEF PhaseOf
    <2>5. Talks(c)'
      BY <1>0, <1>5, <2>1, <2>2, <2>4, TakeTalks
    <2>6. ASSUME c \notin upset' PROVE e
      <3>1. c \notin upset /\ n # 0 /\ n = m.seg
        BY <1>5, <2>6
      <3>2. m.send # 0
        BY <1>5, <3>1 DEF TotalSegments
      <3>3. m.recv = selfID(c) /\ (m.type = "ACK" \/ m.send = 0)
        <4> DEFINE v == c \in upset
        <4>1. toClient[c] # << >> /\ A(v, toClient[c])
          BY <1>0, <1>3, <1>5, <3>1
        <4> HIDE DEF v
        <4>2. v \/ (toClient[c][1].recv = selfID(c) /\ (toClient[c][1].type = "ACK" \/ toClient[c][1].send = 0))
          BY ONLY <4>1, AckExpected
        <4> QED BY <1>3, <1>5, <3>1, <4>2 DEF v
      <3> QED BY <2>3, <3>1, <3>2, <3>3
    <2> QED BY <1>0, <2>1, <2>2, <2>5, <2>6 DEF Takes, Become
  <1> QED BY <1>1, <1>4, <1>5 DEF Ack

\* What the client takes is the segment, or the answer, that it waits for.
LEMMA GatherExpected ==
    ASSUME NEW me, NEW u, NEW s, NEW q, NEW r, NEW cs, NEW x, NEW n, NEW b,
           GatherPhase(me, u, s, q, r, cs, x, n, b), Mails(r), r # << >>
    PROVE  u \/ (r[1].recv = me /\ r[1].type = "SYN" /\ r[1].seg = s.got + 1)
  <1>1. Len(r) \in Nat /\ Len(r) # 0 /\ DOMAIN r = 1 .. Len(r)
    BY TailSeq DEF Mails, IsSeq
  <1>2. n \in Nat /\ s.got \in 0 .. n /\ x.next \in 1 .. n + 2
    BY DEF GatherPhase, Joined, Own, Calm
  <1>3. CASE DeadEnd(u, q, r, b)
    BY <1>3 DEF DeadEnd
  <1>4. CASE /\ \A k \in DOMAIN r : IsData(r[k], me, x.next - 1 - Len(r) + k)
             /\ ~u => Len(r) = x.next - 1 - s.got
    <2>1. IsData(r[1], me, x.next - 1 - Len(r) + 1)
      BY <1>1, <1>4
    <2>2. ~u => x.next - 1 - Len(r) + 1 = s.got + 1
      BY <1>1, <1>2, <1>4
    <2> QED BY <2>1, <2>2 DEF IsData
  <1> QED BY <1>3, <1>4 DEF GatherPhase

\* It takes the segment that follows.
LEMMA GatherOnward ==
    ASSUME NEW me, NEW u, NEW s, NEW q, NEW r, NEW cs, NEW x, NEW n, NEW b, NEW t,
           GatherPhase(me, u, s, q, r, cs, x, n, b), Mails(r), r # << >>,
           r[1].type = "SYN", r[1].seg = s.got + 1, t.other = s.other, t.count = s.count,
           t.got = s.got + 1, t.missing \subseteq 1 .. t.got
    PROVE  /\ t.got <= t.count => GatherPhase(me, u, t, q, Tail(r), cs, x, n, b)
           /\ ~(t.got <= t.count) /\ t.missing = {} => FinPhase(me, u, t, q, Tail(r), cs, x, n, b)
           /\ ~(t.got <= t.count) /\ t.missing # {} => RtsPhase(me, t, q, Tail(r), cs, x, n, b)
  BY GatherTakes

\* It takes the segment it asked for.
LEMMA AnswerExpected ==
    ASSUME NEW me, NEW u, NEW s, NEW q, NEW r, NEW cs, NEW x, NEW n, NEW b,
           AnswerPhase(me, u, s, q, r, cs, x, n, b), Mails(r), r # << >>
    PROVE  u \/ (r[1].recv = me /\ r[1].type = "SYN" /\ r[1].seg = Min(s.missing))
  BY DEF AnswerPhase, DeadEnd, IsData

\* It takes the FIN it waits for.
LEMMA FinackExpected ==
    ASSUME NEW me, NEW u, NEW s, NEW q, NEW r, NEW cs, NEW x, NEW n, NEW b,
           FinackPhase(me, u, s, q, r, cs, x, n, b), Mails(r), r # << >>
    PROVE  u \/ (r[1].recv = me /\ r[1].type = "FIN" /\ r[1].seg = 0)
  <1>1. CASE Idle(q, b) /\ cs = << >> /\ r # << >> /\ IsFin(r[Len(r)], me) /\ (~u => Len(r) = 1)
    BY <1>1 DEF IsFin
  <1> QED BY <1>1 DEF FinackPhase

\* The state of a client that has read a segment.
GatherNext(s, m, e) ==
    LET s1 == [s EXCEPT !.got = s.got + 1, !.inStep = e]
    IN  Gathered(IF m.intact
                 THEN [s1 EXCEPT !.out = fwrite(@, s1.pos, m.content), !.pos = @ + Len(m.content)]
                 ELSE [s1 EXCEPT !.missing = @ \cup {s.got + 1}, !.missed = @ \cup {s.got + 1}])

\* The record of a client that takes a segment (client.c:62-76).
LEMMA GatherRecord ==
    ASSUME NEW s, DOMAIN s = ClientFields, NEW m, NEW e, NEW t, t = GatherNext(s, m, e)
    PROVE  /\ DOMAIN t = ClientFields /\ t.cycle = s.cycle /\ t.other = s.other /\ t.count = s.count
           /\ t.got = s.got + 1 /\ (t.missing = s.missing \/ t.missing = s.missing \cup {s.got + 1})
           /\ t.inStep = e /\ t.pc \in {"gather", "fin", "rts"}
           /\ t.pc = "gather" <=> t.got <= t.count
           /\ t.pc = "fin" <=> ~(t.got <= t.count) /\ t.missing = {}
           /\ t.pc = "rts" <=> ~(t.got <= t.count) /\ t.missing # {}
           /\ \A lock : [t EXCEPT !.recvLocked = lock].inStep = e
  <1> DEFINE n == s.got + 1
             s1 == [s EXCEPT !.got = n, !.inStep = e]
             t1 == IF m.intact
                   THEN [s1 EXCEPT !.out = fwrite(@, s1.pos, m.content), !.pos = @ + Len(m.content)]
                   ELSE [s1 EXCEPT !.missing = @ \cup {n}, !.missed = @ \cup {n}]
  <1>1. t = Gathered(t1)
    BY DEF GatherNext
  <1>3. /\ DOMAIN s1 = ClientFields /\ s1.cycle = s.cycle /\ s1.other = s.other /\ s1.count = s.count
        /\ s1.got = n /\ s1.missing = s.missing /\ s1.inStep = e
    <2> HIDE DEF n
    <2> QED BY DEF ClientFields
  <1>4. /\ DOMAIN t1 = ClientFields /\ t1.cycle = s.cycle /\ t1.other = s.other /\ t1.count = s.count
        /\ t1.got = n /\ (t1.missing = s.missing \/ t1.missing = s.missing \cup {n}) /\ t1.inStep = e
    <2> HIDE DEF s1, n
    <2> QED BY <1>3 DEF ClientFields
  <1> HIDE DEF t1
  <1>5. DOMAIN t = ClientFields /\ t.cycle = t1.cycle /\ t.other = t1.other /\ t.count = t1.count
        /\ t.got = t1.got /\ t.missing = t1.missing /\ t.inStep = t1.inStep /\ t.pc \in {"gather", "fin", "rts"}
        /\ (t.pc = "gather" <=> t1.got <= t1.count)
        /\ (t.pc = "fin" <=> ~(t1.got <= t1.count) /\ t1.missing = {})
        /\ (t.pc = "rts" <=> ~(t1.got <= t1.count) /\ t1.missing # {})
    BY <1>1, <1>4 DEF ClientFields, Gathered, Onward
  <1>6. \A lock : [t EXCEPT !.recvLocked = lock].inStep = e
    BY ONLY <1>4, <1>5 DEF ClientFields
  <1> QED BY <1>4, <1>5, <1>6

\* A segment of the file is read.
LEMMA GatherTalks ==
    ASSUME Shapes, NEW c \in Clients, Talks(c), Steady(c), Alone(c), Gather(c)
    PROVE  Talks(c)' /\ (c \notin upset' => cl'[c].inStep)
  <1> DEFINE s == cl[c]
             m == Read(c).msg
             G(v, t, r) == GatherPhase(selfID(c), v, t, toServer[c], r, chans[c], Mine(c), Num(c), Work(c))
  <1>0. /\ Mails(toClient[c]) /\ DOMAIN s = ClientFields /\ s.pc = "gather" /\ s.inStep /\ DOMAIN cl = Clients
        /\ G(c \in upset, s, toClient[c]) \/ (server # "up" /\ toClient[c] = << >>)
        /\ selfID(c) = 10 * c + s.cycle
    BY DEF Shapes, NetShapes, ClientShapes, Phase, Talks, Gather, Is, Steady, PhaseOf, selfID
  <1>1. CASE GivesUp(c)
    <2>1. Talks(c)'
      BY <1>0, <1>1, GivesUpTalks DEF Gather
    <2> QED BY <1>0, <1>1, <2>1 DEF GivesUp, Takes, Become, ClientFields
  <1>3. CASE ~GivesUp(c)
    <2> DEFINE n == s.got + 1
               e == Expected(c, m, "SYN", n)
               t == GatherNext(s, m, e)
    <2>1. Taken(c) /\ UNCHANGED upset /\ Takes(c, t)
      BY <1>3 DEF Gather, GatherNext
    <2>2. /\ toClient[c] # << >> /\ m = toClient[c][1] /\ Read(c).rest = Tail(toClient[c])
          /\ G(c \in upset, s, toClient[c])
      BY <1>0, <2>1, ReadMails DEF Shapes
    <2>5. /\ DOMAIN t = ClientFields /\ t.cycle = s.cycle /\ t.other = s.other /\ t.count = s.count
          /\ t.got = s.got + 1 /\ (t.missing = s.missing \/ t.missing = s.missing \cup {s.got + 1})
          /\ t.inStep = e /\ t.pc \in {"gather", "fin", "rts"}
          /\ t.pc = "gather" <=> t.got <= t.count
          /\ t.pc = "fin" <=> ~(t.got <= t.count) /\ t.missing = {}
          /\ t.pc = "rts" <=> ~(t.got <= t.count) /\ t.missing # {}
          /\ [t EXCEPT !.recvLocked = Read(c).locked].inStep = e
      <3> HIDE DEF t, e
      <3>1. t = GatherNext(s, m, e)
        BY DEF t
      <3> QED BY ONLY <1>0, <3>1, GatherRecord
    <2>6. e <=> m.recv = selfID(c) /\ m.type = "SYN" /\ m.seg = n
      BY <1>0 DEF Expected
    <2>7. s.got \in Nat /\ s.missing \subseteq 1 .. s.got
      BY <2>2 DEF GatherPhase, Joined, Own
    <2>8. t.missing \subseteq 1 .. t.got
      <3>1. t.got = s.got + 1 /\ (t.missing = s.missing \/ t.missing = s.missing \cup {s.got + 1})
        BY <2>5
      <3>2. s.missing \subseteq 1 .. s.got + 1 /\ s.got + 1 \in 1 .. s.got + 1
        BY ONLY <2>7
      <3> QED BY ONLY <3>1, <3>2
    <2> HIDE DEF t, e
    <2>9. ASSUME e
          PROVE  PhaseOf(10 * c + t.cycle, c \in upset', t, toServer[c], Read(c).rest, chans[c], Mine(c), Num(c), Work(c))
      <3>1. /\ G(c \in upset, s, toClient[c]) /\ Mails(toClient[c]) /\ toClient[c] # << >>
            /\ toClient[c][1].type = "SYN" /\ toClient[c][1].seg = s.got + 1
            /\ t.other = s.other /\ t.count = s.count /\ t.got = s.got + 1 /\ t.missing \subseteq 1 .. t.got
        BY <1>0, <2>2, <2>5, <2>6, <2>8, <2>9
      <3>2. /\ t.got <= t.count => G(c \in upset, t, Tail(toClient[c]))
            /\ ~(t.got <= t.count) /\ t.missing = {} =>
                 FinPhase(selfID(c), c \in upset, t, toServer[c], Tail(toClient[c]), chans[c], Mine(c), Num(c), Work(c))
            /\ ~(t.got <= t.count) /\ t.missing # {} =>
                 RtsPhase(selfID(c), t, toServer[c], Tail(toClient[c]), chans[c], Mine(c), Num(c), Work(c))
        BY ONLY <3>1, GatherOnward
      <3> QED BY <1>0, <2>1, <2>2, <2>5, <3>2 DEF PhaseOf
    <2>10. Talks(c)'
      <3>1. /\ s.pc \notin {"close", "done", "crashed"} /\ t.pc \notin {"close", "done", "crashed"}
            /\ c \in upset => c \in upset'
        BY <1>0, <2>1, <2>5
      <3> QED BY <2>1, <2>5, <2>9, <3>1, TakeTalks
    <2>11. ASSUME c \notin upset' PROVE e
      <3> DEFINE v == c \in upset
      <3>1. toClient[c] # << >> /\ G(v, s, toClient[c]) /\ Mails(toClient[c])
        BY <1>0, <2>2
      <3> HIDE DEF v
      <3>2. v \/ (toClient[c][1].recv = selfID(c) /\ toClient[c][1].type = "SYN" /\ toClient[c][1].seg = s.got + 1)
        BY ONLY <3>1, GatherExpected
      <3> QED BY <2>1, <2>2, <2>6, <2>11, <3>2 DEF v
    <2> QED BY <1>0, <2>1, <2>5, <2>10, <2>11 DEF Takes, Become
  <1> QED BY <1>1, <1>3

\* The state of a client that has read a repeated segment.
AnswerNext(s, m, e) ==
    LET s1 == [s EXCEPT !.inStep = e]
    IN  Onward(IF m.intact THEN Repaired(s1, Min(s.missing), m) ELSE s1)

\* The record of a client that takes an answer to its RTS (client.c:83-97).
LEMMA AnswerRecord ==
    ASSUME NEW s, DOMAIN s = ClientFields, NEW m, NEW e, NEW t, t = AnswerNext(s, m, e)
    PROVE  /\ DOMAIN t = ClientFields /\ t.cycle = s.cycle /\ t.other = s.other /\ t.count = s.count
           /\ t.missing \subseteq s.missing /\ t.inStep = e /\ t.pc \in {"fin", "rts"}
           /\ t.pc = "fin" <=> t.missing = {}
           /\ \A lock : [t EXCEPT !.recvLocked = lock].inStep = e
  <1> DEFINE low == Min(s.missing)
             s1 == [s EXCEPT !.inStep = e]
             t1 == IF m.intact THEN Repaired(s1, low, m) ELSE s1
  <1>1. t = Onward(t1)
    BY DEF AnswerNext
  <1>3. /\ DOMAIN s1 = ClientFields /\ s1.cycle = s.cycle /\ s1.other = s.other /\ s1.count = s.count
        /\ s1.missing = s.missing /\ s1.inStep = e
    BY DEF ClientFields
  <1>4. /\ DOMAIN t1 = ClientFields /\ t1.cycle = s.cycle /\ t1.other = s.other /\ t1.count = s.count
        /\ t1.missing \subseteq s.missing /\ t1.inStep = e
    <2> HIDE DEF s1, low
    <2> QED BY <1>3 DEF ClientFields, Repaired
  <1> HIDE DEF t1
  <1>5. /\ DOMAIN t = ClientFields /\ t.cycle = t1.cycle /\ t.other = t1.other /\ t.count = t1.count
        /\ t.missing = t1.missing /\ t.inStep = t1.inStep /\ t.pc \in {"fin", "rts"}
        /\ t.pc = "fin" <=> t1.missing = {}
    BY <1>1, <1>4 DEF ClientFields, Onward
  <1>6. \A lock : [t EXCEPT !.recvLocked = lock].inStep = e
    BY ONLY <1>4, <1>5 DEF ClientFields
  <1> QED BY <1>4, <1>5, <1>6

\* A repeated segment is read.
LEMMA AnswerTalks ==
    ASSUME Shapes, NEW c \in Clients, Talks(c), Steady(c), Alone(c), AnswerRead(c)
    PROVE  Talks(c)' /\ (c \notin upset' => cl'[c].inStep)
  <1> DEFINE s == cl[c]
             m == Read(c).msg
             A(v, t, r) == AnswerPhase(selfID(c), v, t, toServer[c], r, chans[c], Mine(c), Num(c), Work(c))
  <1>0. /\ Mails(toClient[c]) /\ DOMAIN s = ClientFields /\ s.pc = "answer" /\ s.inStep /\ DOMAIN cl = Clients
        /\ A(c \in upset, s, toClient[c]) \/ (server # "up" /\ toClient[c] = << >>)
        /\ selfID(c) = 10 * c + s.cycle
    BY DEF Shapes, NetShapes, ClientShapes, Phase, Talks, AnswerRead, Is, Steady, PhaseOf, selfID
  <1>1. CASE GivesUp(c)
    <2>1. Talks(c)'
      BY <1>0, <1>1, GivesUpTalks DEF AnswerRead
    <2> QED BY <1>0, <1>1, <2>1 DEF GivesUp, Takes, Become, ClientFields
  <1>3. CASE ~GivesUp(c)
    <2> DEFINE low == Min(s.missing)
               e == Expected(c, m, "SYN", low)
               t == AnswerNext(s, m, e)
    <2>1. Taken(c) /\ UNCHANGED upset /\ Takes(c, t)
      BY <1>3 DEF AnswerRead, AnswerNext
    <2>2. /\ toClient[c] # << >> /\ m = toClient[c][1] /\ Read(c).rest = Tail(toClient[c])
          /\ A(c \in upset, s, toClient[c])
      BY <1>0, <2>1, ReadMails DEF Shapes
    <2>5. /\ DOMAIN t = ClientFields /\ t.cycle = s.cycle /\ t.other = s.other /\ t.count = s.count
          /\ t.missing \subseteq s.missing /\ t.inStep = e /\ t.pc \in {"fin", "rts"}
          /\ t.pc = "fin" <=> t.missing = {}
          /\ [t EXCEPT !.recvLocked = Read(c).locked].inStep = e
      <3> HIDE DEF t, e
      <3>1. t = AnswerNext(s, m, e)
        BY DEF t
      <3> QED BY ONLY <1>0, <3>1, AnswerRecord
    <2>6. e <=> m.recv = selfID(c) /\ m.type = "SYN" /\ m.seg = low
      BY <1>0 DEF Expected
    <2> HIDE DEF t, e
    <2>9. ASSUME e
          PROVE  PhaseOf(10 * c + t.cycle, c \in upset', t, toServer[c], Read(c).rest, chans[c], Mine(c), Num(c), Work(c))
      <3>1. /\ A(c \in upset, s, toClient[c]) /\ Mails(toClient[c]) /\ toClient[c] # << >>
            /\ toClient[c][1].type = "SYN"
            /\ t.other = s.other /\ t.count = s.count /\ t.missing \subseteq s.missing
        BY <1>0, <2>2, <2>5, <2>6, <2>9
      <3>2. /\ t.missing = {} =>
                 FinPhase(selfID(c), c \in upset, t, toServer[c], Tail(toClient[c]), chans[c], Mine(c), Num(c), Work(c))
            /\ t.missing # {} =>
                 RtsPhase(selfID(c), t, toServer[c], Tail(toClient[c]), chans[c], Mine(c), Num(c), Work(c))
        BY ONLY <3>1, AnswerTakes
      <3> QED BY <1>0, <2>1, <2>2, <2>5, <3>2 DEF PhaseOf
    <2>10. Talks(c)'
      <3>1. /\ s.pc \notin {"close", "done", "crashed"} /\ t.pc \notin {"close", "done", "crashed"}
            /\ c \in upset => c \in upset'
        BY <1>0, <2>1, <2>5
      <3> QED BY <2>1, <2>5, <2>9, <3>1, TakeTalks
    <2>11. ASSUME c \notin upset' PROVE e
      <3> DEFINE v == c \in upset
      <3>1. toClient[c] # << >> /\ A(v, s, toClient[c]) /\ Mails(toClient[c])
        BY <1>0, <2>2
      <3> HIDE DEF v
      <3>2. v \/ (toClient[c][1].recv = selfID(c) /\ toClient[c][1].type = "SYN" /\ toClient[c][1].seg = Min(s.missing))
        BY ONLY <3>1, AnswerExpected
      <3> QED BY <2>1, <2>2, <2>6, <2>11, <3>2 DEF v
    <2> QED BY <1>0, <2>1, <2>5, <2>10, <2>11 DEF Takes, Become
  <1> QED BY <1>1, <1>3

\* The state of a client that has read the answer to the end of its channel.
FinAckNext(s, e) ==
    LET s1 == [s EXCEPT !.inStep = e, !.other = 0]
    IN  IF s1.cycle < sc.downloads THEN [s1 EXCEPT !.pc = "syn", !.cycle = @ + 1] ELSE [s1 EXCEPT !.pc = "bye"]

\* The record of a client that takes the FIN (client.c:106-111).
LEMMA FinAckRecord ==
    ASSUME NEW s, DOMAIN s = ClientFields, NEW e, NEW t, t = FinAckNext(s, e)
    PROVE  /\ DOMAIN t = ClientFields /\ t.inStep = e /\ t.pc \in {"syn", "bye"}
           /\ \A lock : [t EXCEPT !.recvLocked = lock].inStep = e
  <1> DEFINE s1 == [s EXCEPT !.inStep = e, !.other = 0]
  <1>1. t = IF s1.cycle < sc.downloads THEN [s1 EXCEPT !.pc = "syn", !.cycle = @ + 1] ELSE [s1 EXCEPT !.pc = "bye"]
    BY DEF FinAckNext
  <1>2. DOMAIN s1 = ClientFields /\ s1.inStep = e
    BY DEF ClientFields
  <1> HIDE DEF s1
  <1> QED BY <1>1, <1>2 DEF ClientFields

\* The answer to the end of the channel is read.
LEMMA FinAckTalks ==
    ASSUME Shapes, NEW c \in Clients, Talks(c), Steady(c), Alone(c), FinAck(c)
    PROVE  Talks(c)' /\ (c \notin upset' => cl'[c].inStep)
  <1> DEFINE s == cl[c]
             m == Read(c).msg
             A(v, t, r) == FinackPhase(selfID(c), v, t, toServer[c], r, chans[c], Mine(c), Num(c), Work(c))
  <1>0. /\ Mails(toClient[c]) /\ DOMAIN s = ClientFields /\ s.pc = "finack" /\ s.inStep /\ DOMAIN cl = Clients
        /\ A(c \in upset, s, toClient[c]) \/ (server # "up" /\ toClient[c] = << >>)
        /\ selfID(c) = 10 * c + s.cycle
    BY DEF Shapes, NetShapes, ClientShapes, Phase, Talks, FinAck, Is, Steady, PhaseOf, selfID
  <1>1. CASE Crashes(c)
    <2>1. Talks(c)'
      BY <1>1, CrashTalks DEF Crashes
    <2> QED BY <1>0, <1>1, <2>1 DEF Crashes, Exits, ClientFields
  <1>3. CASE ~Crashes(c)
    <2> DEFINE e == Expected(c, m, "FIN", 0)
               t == FinAckNext(s, e)
    <2>1. Taken(c) /\ UNCHANGED upset /\ Takes(c, t)
      BY <1>3 DEF FinAck, FinAckNext
    <2>2. /\ toClient[c] # << >> /\ m = toClient[c][1] /\ Read(c).rest = Tail(toClient[c])
          /\ A(c \in upset, s, toClient[c])
      BY <1>0, <2>1, ReadMails DEF Shapes
    <2>5. /\ DOMAIN t = ClientFields /\ t.inStep = e /\ t.pc \in {"syn", "bye"}
          /\ [t EXCEPT !.recvLocked = Read(c).locked].inStep = e
      <3> HIDE DEF t, e
      <3>1. t = FinAckNext(s, e)
        BY DEF t
      <3> QED BY ONLY <1>0, <3>1, FinAckRecord
    <2>6. e <=> m.recv = selfID(c) /\ m.type = "FIN" /\ m.seg = 0
      BY <1>0 DEF Expected
    <2> HIDE DEF t, e
    <2>9. ASSUME e
          PROVE  PhaseOf(10 * c + t.cycle, c \in upset', t, toServer[c], Read(c).rest, chans[c], Mine(c), Num(c), Work(c))
      <3>1. /\ A(c \in upset, s, toClient[c]) /\ Mails(toClient[c]) /\ toClient[c] # << >>
            /\ toClient[c][1].type = "FIN"
        BY <1>0, <2>2, <2>6, <2>9
      <3>2. SynPhase(toServer[c], Tail(toClient[c]), chans[c], Work(c))
        BY ONLY <3>1, FinackTakes
      <3> QED BY <2>2, <2>5, <3>2 DEF PhaseOf
    <2>10. Talks(c)'
      <3>1. /\ s.pc \notin {"close", "done", "crashed"} /\ t.pc \notin {"close", "done", "crashed"}
            /\ c \in upset => c \in upset'
        BY <1>0, <2>1, <2>5
      <3> QED BY <2>1, <2>5, <2>9, <3>1, TakeTalks
    <2>11. ASSUME c \notin upset' PROVE e
      <3> DEFINE v == c \in upset
      <3>1. toClient[c] # << >> /\ A(v, s, toClient[c]) /\ Mails(toClient[c])
        BY <1>0, <2>2
      <3> HIDE DEF v
      <3>2. v \/ (toClient[c][1].recv = selfID(c) /\ toClient[c][1].type = "FIN" /\ toClient[c][1].seg = 0)
        BY ONLY <3>1, FinackExpected
      <3> QED BY <2>1, <2>2, <2>6, <2>11, <3>2 DEF v
    <2> QED BY <1>0, <2>1, <2>5, <2>10, <2>11 DEF Takes, Become
  <1> QED BY <1>1, <1>3

\* The connection is closed after the last download.
LEMMA CloseTalks ==
    ASSUME Shapes, NEW c \in Clients, Talks(c), Steady(c), Alone(c), Close(c)
    PROVE  Talks(c)'
  <1>0. /\ Mails(toServer[c]) /\ Mails(toClient[c]) /\ DOMAIN cl = Clients /\ DOMAIN cl[c] = ClientFields
        /\ c \in DOMAIN toClient /\ c \in DOMAIN gone
        /\ cl[c].pc = "close" /\ Exits(c, "done") /\ UNCHANGED <<sc, server, toServer, upset>>
    BY DEF Shapes, NetShapes, ClientShapes, Close, Is
  <1>1. /\ cl'[c].pc = "done" /\ toClient'[c] = << >> /\ gone'[c] = Closed(toClient[c])
    BY <1>0 DEF Exits, ClientFields
  <1>2. Sound(c \in upset, toServer[c], << >>)
    BY <1>0, SoundTails DEF Talks, Steady
  <1>3. Sound(c \in upset, toServer[c], toClient[c])'
    BY <1>0, <1>1, <1>2 DEF Sound
  <1>4. Phase(c) => ClosePhase(c \in upset, toServer[c], toClient[c], chans[c], Work(c))
    BY <1>0 DEF Phase, PhaseOf
  <1>5. c \notin upset => toClient[c] = << >>
    BY <1>4 DEF ClosePhase, Talks, Steady
  <1>6. c \notin upset' => gone'[c] # "reset"
    BY <1>0, <1>1, <1>5 DEF Closed
  <1>7. ASSUME Phase(c) PROVE Phase(c)'
    <2>1. ClosePhase(c \in upset, toServer[c], << >>, chans[c], Work(c))
      BY <1>4, <1>7 DEF ClosePhase
    <2>2. PhaseOf(10 * c + cl'[c].cycle, c \in upset', cl'[c], toServer'[c], toClient'[c],
                  chans[c], Mine(c), Num(c), Work(c))
      BY <1>0, <1>1, <2>1 DEF PhaseOf
    <2> QED BY <2>2, OwnPhase
  <1>8. Phase(c) \/ (server # "up" /\ toClient[c] = << >>)
    BY DEF Talks, Steady
  <1> QED BY <1>0, <1>1, <1>3, <1>6, <1>7, <1>8 DEF Talks

\* The client connects (client.c:148-171).
LEMMA ConnectTalks ==
    ASSUME Shapes, NEW c \in Clients, Talks(c), Steady(c), Alone(c), Connect(c)
    PROVE  Talks(c)'
  <1>0. /\ DOMAIN cl = Clients /\ DOMAIN cl[c] = ClientFields /\ cl[c].pc = "connect"
        /\ UNCHANGED <<sc, server, toServer, toClient, gone, shut, upset>>
    BY DEF Shapes, ClientShapes, Connect, Is
  <1>1. cl'[c].pc = "syn" /\ cl'[c].inStep = cl[c].inStep
    BY <1>0 DEF Connect, Become, ClientFields
  <1>2. ASSUME Phase(c) PROVE Phase(c)'
    <2>1. SynPhase(toServer[c], toClient[c], chans[c], Work(c))
      BY <1>0, <1>2 DEF Phase, PhaseOf
    <2>2. PhaseOf(10 * c + cl'[c].cycle, c \in upset', cl'[c], toServer'[c], toClient'[c],
                  chans[c], Mine(c), Num(c), Work(c))
      BY <1>0, <1>1, <2>1 DEF PhaseOf
    <2> QED BY <2>2, OwnPhase
  <1>3. Sound(c \in upset, toServer[c], toClient[c]) => Sound(c \in upset, toServer[c], toClient[c])'
    BY <1>0 DEF Sound
  <1> QED BY <1>0, <1>1, <1>2, <1>3 DEF Talks, Steady

\* A client that has lost step does not get back into it; only rts asks for a segment.
History(c) ==
    /\ cl'[c].inStep => cl[c].inStep
    /\ upset \subseteq upset' /\ cl[c].pc # "crashed"
    /\ Rts(c) \/ AsksIn(toServer'[c]) = AsksIn(toServer[c])

\* A message that is no request to send again is written.
LEMMA AsksSent ==
    ASSUME NEW q, Mails(q), NEW m, m.recv = 0 \/ m.type # "RTS", NEW end
    PROVE  AsksIn(Sent(q, end, m)) = AsksIn(q)
  <1>1. /\ DOMAIN Append(q, m) = DOMAIN q \cup {Len(q) + 1} /\ Append(q, m)[Len(q) + 1] = m
        /\ \A i \in DOMAIN q : Append(q, m)[i] = q[i]
    BY AppendSeq DEF Mails
  <1>2. AsksIn(Append(q, m)) = AsksIn(q)
    BY <1>1 DEF AsksIn
  <1>3. ASSUME Torn(q) PROVE AsksIn([q EXCEPT ![1].chan = "PART"]) = AsksIn(q)
    <2>1. 1 \in DOMAIN q /\ q[1].chan = "OPEN" /\ DOMAIN q[1] = MsgFields
      BY <1>3, TailSeq DEF Torn, Mails, IsSeq
    <2> DEFINE p == [q EXCEPT ![1].chan = "PART"]
    <2>2. DOMAIN p = DOMAIN q /\ p[1].chan = "PART" /\ \A k \in DOMAIN q : k # 1 => p[k] = q[k]
      BY <2>1 DEF MsgFields
    <2> HIDE DEF p
    <2>3. AsksIn(p) = AsksIn(q)
      BY <2>1, <2>2 DEF AsksIn
    <2> QED BY <2>3 DEF p
  <1> QED BY <1>2, <1>3 DEF Sent

\* None of the steps of a client but Rts adds a request to send again.
LEMMA SendHistory ==
    ASSUME Shapes, NEW c \in Clients, NEW m, NEW t, client_send(c, m, t), t.inStep = cl[c].inStep, DOMAIN t = ClientFields,
           cl[c].pc # "crashed"
    PROVE  /\ cl'[c].inStep => cl[c].inStep
           /\ upset \subseteq upset'
           /\ m.recv = 0 \/ m.type # "RTS" => AsksIn(toServer'[c]) = AsksIn(toServer[c])
  <1>0. DOMAIN cl = Clients /\ c \in DOMAIN toServer /\ Mails(toServer[c]) /\ DOMAIN cl[c] = ClientFields
    BY DEF Shapes, NetShapes, ClientShapes
  <1>1. CASE SendOk(c, m, t)
    <2>1. cl'[c] = t /\ UNCHANGED upset /\ toServer'[c] = Sent(toServer[c], ServerEnd(c), m)
      BY <1>0, <1>1 DEF SendOk, Become
    <2> QED BY <1>0, <2>1, AsksSent
  <1>2. CASE SendFails(c, t)
    <2>1. cl'[c].inStep = cl[c].inStep
      BY <1>0, <1>2 DEF SendFails, Become, ClientFields
    <2> QED BY <1>2, <2>1 DEF SendFails, net
  <1>3. CASE SendKills(c)
    <2>1. cl'[c].inStep = cl[c].inStep
      BY <1>0, <1>3 DEF SendKills, Exits, ClientFields
    <2> QED BY <1>3, <2>1 DEF SendKills
  <1> QED BY <1>1, <1>2, <1>3 DEF client_send

LEMMA TakesHistory ==
    ASSUME Shapes, NEW c \in Clients, NEW t, Takes(c, t), upset \subseteq upset', DOMAIN t = ClientFields,
           t.inStep => cl[c].inStep, cl[c].pc # "crashed"
    PROVE  History(c)
  <1>0. DOMAIN cl = Clients
    BY DEF Shapes, ClientShapes
  <1>1. cl'[c].inStep = t.inStep
    BY <1>0 DEF Takes, Become, ClientFields
  <1> QED BY <1>1 DEF Takes, History

LEMMA ExitsHistory ==
    ASSUME Shapes, NEW c \in Clients, NEW pc, Exits(c, pc), UNCHANGED <<toServer, upset>>, cl[c].pc # "crashed"
    PROVE  History(c)
  <1>0. DOMAIN cl = Clients /\ DOMAIN cl[c] = ClientFields
    BY DEF Shapes, ClientShapes
  <1>1. cl'[c].inStep = cl[c].inStep
    BY <1>0 DEF Exits, ClientFields
  <1> QED BY <1>1 DEF History

LEMMA ClientHistory ==
    ASSUME Shapes, NEW c \in Clients, ClientStep(c)
    PROVE  History(c)
  <1>0. DOMAIN cl = Clients /\ DOMAIN cl[c] = ClientFields
    BY DEF Shapes, ClientShapes
  <1>1. ASSUME NEW sID, NEW rID, NEW type, NEW n, NEW content, NEW pc, cl[c].pc # "crashed",
               rID = 0 \/ type # "RTS",
               client_send(c, form_msg(sID, rID, "CONTROL", type, n, content), [cl[c] EXCEPT !.pc = pc])
        PROVE  History(c)
    <2> DEFINE m == form_msg(sID, rID, "CONTROL", type, n, content)
               t == [cl[c] EXCEPT !.pc = pc]
    <2>1. m.recv = rID /\ m.type = type
      BY DEF form_msg
    <2>2. t.inStep = cl[c].inStep /\ DOMAIN t = ClientFields
      BY <1>0 DEF ClientFields
    <2>3. client_send(c, m, t)
      BY <1>1
    <2> HIDE DEF m, t
    <2>4. /\ cl'[c].inStep => cl[c].inStep
          /\ upset \subseteq upset'
          /\ AsksIn(toServer'[c]) = AsksIn(toServer[c])
      BY <1>1, <2>1, <2>2, <2>3, SendHistory
    <2> QED BY <1>1, <2>4 DEF History
  <1>2. CASE Syn(c) \/ SynAgain(c) \/ Rts(c) \/ Cease(c) \/ Bye(c)
    <2>1. CASE Syn(c)
      BY <1>1, <2>1 DEF Syn, Is
    <2>2. CASE SynAgain(c)
      BY <1>1, <2>2 DEF SynAgain, Is
    <2>3. CASE Rts(c)
      <3>1. /\ cl[c].pc # "crashed"
            /\ client_send(c, form_msg(selfID(c), cl[c].other, "CONTROL", "RTS", Min(cl[c].missing), << >>),
                           [cl[c] EXCEPT !.pc = "answer"])
        BY <2>3 DEF Rts, Is
      <3> DEFINE m == form_msg(selfID(c), cl[c].other, "CONTROL", "RTS", Min(cl[c].missing), << >>)
                 t == [cl[c] EXCEPT !.pc = "answer"]
      <3>2. t.inStep = cl[c].inStep /\ DOMAIN t = ClientFields
        BY <1>0 DEF ClientFields
      <3>3. client_send(c, m, t)
        BY <3>1
      <3> HIDE DEF m, t
      <3>4. (cl'[c].inStep => cl[c].inStep) /\ upset \subseteq upset'
        BY <3>1, <3>2, <3>3, SendHistory
      <3> QED BY <2>3, <3>1, <3>4 DEF History
    <2>4. CASE Cease(c)
      <3>1. /\ cl[c].pc # "crashed"
            /\ client_send(c, form_msg(selfID(c), cl[c].other, "CONTROL", "FIN", 0, << >>), [cl[c] EXCEPT !.pc = "finack"])
        BY <2>4 DEF Cease, Is
      <3>2. "FIN" # "RTS"
        OBVIOUS
      <3> QED BY ONLY <1>1, <3>1, <3>2
    <2>5. CASE Bye(c)
      BY <1>1, <2>5 DEF Bye, Is
    <2> QED BY <1>2, <2>1, <2>2, <2>3, <2>4, <2>5
  <1>3. CASE Ready(c)
    <2> DEFINE m == form_msg(selfID(c), cl[c].other, "CONTROL", "SYN", MAX_SIZE, sc.file)
               t == IF cl[c].count = 0 THEN [cl[c] EXCEPT !.pc = "fin", !.result = "not found"]
                    ELSE [cl[c] EXCEPT !.pc = "gather", !.got = 0, !.missing = {}, !.missed = {},
                                       !.out = << >>, !.pos = 0, !.result = "none"]
    <2>1. m.type = "SYN"
      BY DEF form_msg
    <2>2. t.inStep = cl[c].inStep /\ DOMAIN t = ClientFields
      BY <1>0 DEF ClientFields
    <2>3. client_send(c, m, t) /\ cl[c].pc = "ready"
      BY <1>3 DEF Ready, Is
    <2> HIDE DEF m, t
    <2>4. /\ cl'[c].inStep => cl[c].inStep
          /\ upset \subseteq upset'
          /\ AsksIn(toServer'[c]) = AsksIn(toServer[c])
      BY <2>1, <2>2, <2>3, SendHistory
    <2> QED BY <2>3, <2>4 DEF History
  <1>4. CASE (Crashes(c) \/ Close(c)) /\ cl[c].pc # "crashed"
    BY <1>4, ExitsHistory DEF Crashes, Close
  <1>5. CASE GivesUp(c) /\ cl[c].pc # "crashed"
    <2> DEFINE t == [cl[c] EXCEPT !.pc = "fin", !.result = "gave up"]
    <2>1. t.inStep = cl[c].inStep /\ DOMAIN t = ClientFields
      BY <1>0 DEF ClientFields
    <2>2. Takes(c, t) /\ UNCHANGED upset
      BY <1>5 DEF GivesUp
    <2> HIDE DEF t
    <2> QED BY <1>5, <2>1, <2>2, TakesHistory
  <1>6. CASE Ack(c)
    <2>0. cl[c].pc # "crashed"
      BY <1>6 DEF Ack, Is
    <2>1. CASE Takes(c, [cl[c] EXCEPT !.pc = "again"]) /\ UNCHANGED upset
      <3> DEFINE t == [cl[c] EXCEPT !.pc = "again"]
      <3>1. t.inStep = cl[c].inStep /\ DOMAIN t = ClientFields
        BY <1>0 DEF ClientFields
      <3>2. Takes(c, t)
        BY <2>1
      <3> HIDE DEF t
      <3> QED BY <2>0, <2>1, <3>1, <3>2, TakesHistory
    <2>2. ASSUME NEW n, NEW m,
                 Takes(c, [cl[c] EXCEPT !.pc = "ready", !.other = m.send, !.count = n, !.inStep = Expected(c, m, "ACK", n)]),
                 upset \subseteq upset'
          PROVE  History(c)
      <3> DEFINE e == Expected(c, m, "ACK", n)
                 t == [cl[c] EXCEPT !.pc = "ready", !.other = m.send, !.count = n, !.inStep = e]
      <3>0. Takes(c, t)
        BY <2>2
      <3>1. e => cl[c].inStep
        BY DEF Expected
      <3> HIDE DEF e
      <3>2. t.inStep = e /\ DOMAIN t = ClientFields
        BY <1>0 DEF ClientFields
      <3> HIDE DEF t
      <3> QED BY <2>0, <2>2, <3>0, <3>1, <3>2, TakesHistory
    <2>3. CASE ~Crashes(c) /\ ~(Takes(c, [cl[c] EXCEPT !.pc = "again"]) /\ UNCHANGED upset)
      <3>1. PICK n \in TotalSegments(Read(c).msg) :
              /\ Takes(c, [cl[c] EXCEPT !.pc = "ready", !.other = Read(c).msg.send, !.count = n,
                                        !.inStep = Expected(c, Read(c).msg, "ACK", n)])
              /\ upset' = IF n = 0 \/ n # Read(c).msg.seg THEN upset \cup {c} ELSE upset
        BY <1>6, <2>3 DEF Ack
      <3>2. upset \subseteq upset'
        BY <3>1
      <3> QED BY <2>2, <3>1, <3>2
    <2> QED BY <1>4, <1>6, <2>0, <2>1, <2>3 DEF Ack
  <1>7. CASE Gather(c)
    <2>1. CASE ~GivesUp(c)
      <3> DEFINE e == Expected(c, Read(c).msg, "SYN", cl[c].got + 1)
                 t == GatherNext(cl[c], Read(c).msg, e)
      <3>1. UNCHANGED upset /\ Takes(c, t) /\ cl[c].pc # "crashed"
        BY <1>7, <2>1 DEF Gather, GatherNext, Is
      <3>2. e => cl[c].inStep
        BY DEF Expected
      <3> HIDE DEF t, e
      <3>3. t = GatherNext(cl[c], Read(c).msg, e)
        BY DEF t
      <3>4. t.inStep = e /\ DOMAIN t = ClientFields
        BY ONLY <1>0, <3>3, GatherRecord
      <3> QED BY <3>1, <3>2, <3>4, TakesHistory
    <2> QED BY <1>5, <1>7, <2>1 DEF Gather, Is
  <1>8. CASE AnswerRead(c)
    <2>1. CASE ~GivesUp(c)
      <3> DEFINE e == Expected(c, Read(c).msg, "SYN", Min(cl[c].missing))
                 t == AnswerNext(cl[c], Read(c).msg, e)
      <3>1. UNCHANGED upset /\ Takes(c, t) /\ cl[c].pc # "crashed"
        BY <1>8, <2>1 DEF AnswerRead, AnswerNext, Is
      <3>2. e => cl[c].inStep
        BY DEF Expected
      <3> HIDE DEF t, e
      <3>3. t = AnswerNext(cl[c], Read(c).msg, e)
        BY DEF t
      <3>4. t.inStep = e /\ DOMAIN t = ClientFields
        BY ONLY <1>0, <3>3, AnswerRecord
      <3> QED BY <3>1, <3>2, <3>4, TakesHistory
    <2> QED BY <1>5, <1>8, <2>1 DEF AnswerRead, Is
  <1>9. CASE FinAck(c)
    <2>1. CASE ~Crashes(c)
      <3> DEFINE e == Expected(c, Read(c).msg, "FIN", 0)
                 t == FinAckNext(cl[c], e)
      <3>1. UNCHANGED upset /\ Takes(c, t) /\ cl[c].pc # "crashed"
        BY <1>9, <2>1 DEF FinAck, FinAckNext, Is
      <3>2. e => cl[c].inStep
        BY DEF Expected
      <3> HIDE DEF t, e
      <3>3. t = FinAckNext(cl[c], e)
        BY DEF t
      <3>4. t.inStep = e /\ DOMAIN t = ClientFields
        BY ONLY <1>0, <3>3, FinAckRecord
      <3> QED BY <3>1, <3>2, <3>4, TakesHistory
    <2> QED BY <1>4, <1>9, <2>1 DEF FinAck, Is
  <1>10. CASE Connect(c)
    <2>1. cl'[c].inStep = cl[c].inStep /\ UNCHANGED <<toServer, upset>> /\ cl[c].pc # "crashed"
      BY <1>0, <1>10 DEF Connect, Become, ClientFields, Is
    <2> QED BY <2>1 DEF History
  <1>11. CASE Close(c)
    BY <1>4, <1>11 DEF Close, Is
  <1> QED BY <1>2, <1>3, <1>6, <1>7, <1>8, <1>9, <1>10, <1>11 DEF ClientStep

\* With the recv_msg that is linked a client gets no further than its first request.
LEMMA ClientStub ==
    ASSUME Shapes, NEW c \in Clients, StubInv, sc.receiver = "stub", ClientStep(c), UNCHANGED <<arrays, serverVars>>
    PROVE  StubInv' /\ cl'[c].inStep = cl[c].inStep
  <1>0. /\ DOMAIN cl = Clients /\ DOMAIN cl[c] = ClientFields
        /\ cl[c].pc \in {"connect", "syn", "ack", "crashed", "done"}
    BY DEF Shapes, ClientShapes, StubInv
  <1>1. Alone(c)
    BY ClientAlone DEF Shapes
  <1>2. cl'[c].inStep = cl[c].inStep /\ cl'[c].pc \in {"connect", "syn", "ack", "crashed", "done"}
    <2>1. CASE Connect(c)
      BY <1>0, <2>1 DEF Connect, Become, ClientFields
    <2>2. CASE Syn(c)
      BY ZenonT(40), <1>0, <2>2 DEF Syn, client_send, SendOk, SendFails, SendKills, Exits, Become, ClientFields
    <2>3. CASE Ack(c)
      <3>1. Read(c).msg = Null
        BY DEF Read, recv_msg
      <3>2. Crashes(c)
        BY <2>3, <3>1 DEF Ack, Taken
      <3> QED BY <1>0, <3>2 DEF Crashes, Exits, ClientFields
    <2> QED BY <1>0, <2>1, <2>2, <2>3 DEF ClientStep, Is, SynAgain, Ready, Gather, Rts, AnswerRead, Cease, FinAck, Bye, Close
  <1>3. \A d \in Clients : cl'[d].pc \in {"connect", "syn", "ack", "crashed", "done"}
    BY <1>1, <1>2 DEF Alone, StubInv
  <1> QED BY <1>1, <1>2, <1>3 DEF StubInv, Alone, serverVars

\* The steps that take nothing do not lose step.
LEMMA SendKeeps ==
    ASSUME Shapes, NEW c \in Clients, NEW m, NEW t, client_send(c, m, t), DOMAIN t = ClientFields, t.inStep = cl[c].inStep
    PROVE  cl'[c].inStep = cl[c].inStep
  BY DEF Shapes, ClientShapes, client_send, SendOk, SendFails, SendKills, Exits, Become, ClientFields

LEMMA ClientKeeps ==
    ASSUME Shapes, NEW c \in Clients,
           Connect(c) \/ Syn(c) \/ SynAgain(c) \/ Ready(c) \/ Rts(c) \/ Cease(c) \/ Bye(c) \/ Close(c)
    PROVE  cl'[c].inStep = cl[c].inStep
  <1>0. DOMAIN cl = Clients /\ DOMAIN cl[c] = ClientFields
    BY DEF Shapes, ClientShapes
  <1>1. CASE Connect(c) \/ Close(c)
    BY <1>0, <1>1 DEF Connect, Close, Exits, Become, ClientFields
  <1>2. \A pc : DOMAIN [cl[c] EXCEPT !.pc = pc] = ClientFields /\ [cl[c] EXCEPT !.pc = pc].inStep = cl[c].inStep
    BY <1>0 DEF ClientFields
  <1>3. CASE Syn(c) \/ SynAgain(c) \/ Rts(c) \/ Cease(c) \/ Bye(c)
    <2>1. PICK m, pc : client_send(c, m, [cl[c] EXCEPT !.pc = pc])
      BY <1>3 DEF Syn, SynAgain, Rts, Cease, Bye
    <2> QED BY <1>2, <2>1, SendKeeps
  <1>4. CASE Ready(c)
    <2> DEFINE t == IF cl[c].count = 0 THEN [cl[c] EXCEPT !.pc = "fin", !.result = "not found"]
                    ELSE [cl[c] EXCEPT !.pc = "gather", !.got = 0, !.missing = {}, !.missed = {},
                                       !.out = << >>, !.pos = 0, !.result = "none"]
    <2>1. t.inStep = cl[c].inStep /\ DOMAIN t = ClientFields
      BY <1>0 DEF ClientFields
    <2>2. client_send(c, form_msg(selfID(c), cl[c].other, "CONTROL", "SYN", MAX_SIZE, sc.file), t)
      BY <1>4 DEF Ready
    <2> HIDE DEF t
    <2> QED BY <2>1, <2>2, SendKeeps
  <1> QED BY <1>1, <1>3, <1>4

\* The exchange of the client that takes the step.
LEMMA OwnTalks ==
    ASSUME Shapes, NEW c \in Clients, Talks(c), c \notin upset => cl[c].inStep, StubInv,
           ClientStep(c), UNCHANGED <<arrays, serverVars>>
    PROVE  Talks(c)' /\ (c \notin upset' => cl'[c].inStep)
  <1>1. Alone(c) /\ History(c)
    BY ClientAlone, ClientHistory DEF Shapes
  <1>2. CASE ~cl[c].inStep
    BY <1>1, <1>2 DEF Talks, History
  <1>3. CASE sc.receiver = "stub"
    <2>1. cl'[c].inStep = cl[c].inStep /\ sc' = sc
      BY <1>1, <1>3, ClientStub DEF Alone
    <2> QED BY <1>1, <1>3, <2>1 DEF History, Talks
  <1>4. CASE Steady(c)
    <2>1. CASE Connect(c) \/ Syn(c) \/ SynAgain(c) \/ Ready(c) \/ Rts(c) \/ Cease(c) \/ Bye(c) \/ Close(c)
      <3>1. cl'[c].inStep = cl[c].inStep
        BY <2>1, ClientKeeps
      <3>2. CASE Connect(c)
        BY <1>1, <1>4, <3>1, <3>2, ConnectTalks DEF Steady
      <3>3. CASE Close(c)
        BY <1>1, <1>4, <3>1, <3>3, CloseTalks DEF Steady
      <3>4. CASE Ready(c)
        BY <1>1, <1>4, <3>1, <3>4, ReadyTalks DEF Steady
      <3>5. CASE Syn(c) \/ SynAgain(c) \/ Rts(c) \/ Cease(c) \/ Bye(c)
        BY <1>1, <1>4, <3>1, <3>5, RequestTalks DEF Steady
      <3> QED BY <2>1, <3>2, <3>3, <3>4, <3>5
    <2>2. CASE Ack(c)
      BY <1>1, <1>4, <2>2, AckTalks
    <2>3. CASE Gather(c)
      BY <1>1, <1>4, <2>3, GatherTalks
    <2>4. CASE AnswerRead(c)
      BY <1>1, <1>4, <2>4, AnswerTalks
    <2>5. CASE FinAck(c)
      BY <1>1, <1>4, <2>5, FinAckTalks
    <2> QED BY <2>1, <2>2, <2>3, <2>4, <2>5 DEF ClientStep
  <1> QED BY <1>2, <1>3, <1>4 DEF Steady

---------------------------------------------------------------------------
(* The hand-over of requests.                                              *)

\* A client's step hands over no request but a first one.
LEMMA ClientHanded ==
    ASSUME IInv, Shapes, NEW c \in Clients, Talks(c), Handed(c), StubInv, ClientStep(c), UNCHANGED <<arrays, serverVars>>
    PROVE  Handed(c)'
  <1>1. Alone(c) /\ History(c) /\ Mails(toServer[c]) /\ UNCHANGED <<arrays, serverVars>>
    BY ClientAlone, ClientHistory DEF Shapes, NetShapes
  <1> SUFFICES ASSUME cl'[c].inStep, cl[c].inStep PROVE Handed(c)'
    BY <1>1 DEF Handed, History
  <1>2. Work(c)' = Work(c)
    BY DEF Work, conn, arrays, serverVars
  <1>3. ASSUME AsksIn(toServer[c])' = AsksIn(toServer[c]) PROVE Handed(c)'
    BY <1>2, <1>3 DEF Handed, conn, arrays, serverVars
  <1>4. CASE AsksIn(toServer'[c]) = AsksIn(toServer[c])
    BY <1>3, <1>4 DEF AsksIn
  <1>6. CASE Rts(c) /\ AsksIn(toServer'[c]) # AsksIn(toServer[c])
    <2>1. cl[c].pc = "rts" /\ sc.receiver # "stub"
      BY <1>6 DEF Rts, Is, StubInv
    <2>2. c \in DOMAIN toServer /\ shut[c] = "no" /\ ~Torn(toServer[c])
      BY <2>1, SoundFramed DEF Shapes, NetShapes, Talks
    <2>3. PICK m : server = "up" /\ toServer'[c] = Append(toServer[c], m)
      BY <1>6, <2>2 DEF Rts, client_send, SendOk, SendFails, SendKills, Sent, ServerEnd, net
    <2>4. RtsPhase(selfID(c), cl[c], toServer[c], toClient[c], chans[c], Mine(c), Num(c), Work(c))
      BY <2>1, <2>3 DEF Talks, Phase, PhaseOf
    <2>5. toServer[c] = << >> /\ Work(c).pc = "none" /\ Len(chans[c]) = 1 /\ ~Mine(c).data
      BY <2>4 DEF RtsPhase, Idle, Joined, Own, Quiet, Calm
    <2>6. \A i, j \in AsksIn(toServer[c])' : i = j
      <3>1. DOMAIN Append(toServer[c], m) = DOMAIN toServer[c] \cup {Len(toServer[c]) + 1}
        BY <1>1, AppendSeq DEF Mails
      <3>2. DOMAIN toServer'[c] = {1}
        BY <2>3, <2>5, <3>1
      <3> QED BY <3>2 DEF AsksIn
    <2>7. chans[c] \in Seq(Nat) /\ ToSet(chans[c]) = {chans[c][1]} /\ chans[c] # << >>
      <3>1. chans[c] \in Seq(Nat)
        BY DEF IInv, Types
      <3> QED BY <2>5, <3>1 DEF ToSet
    <2>8. \A id \in ToSet(chans[c]) : ~ch[id].data
      BY <2>5, <2>7 DEF Mine
    <2>9. Work(c)'.pc # "flag"
      BY <1>2, <2>5
    <2> QED BY <2>6, <2>8, <2>9, <1>1 DEF Handed, conn, arrays, serverVars
  <1> QED BY <1>1, <1>4, <1>6 DEF History

\* The requests of another client.
LEMMA SameHanded ==
    ASSUME NEW d \in Clients, Handed(d), Same(d), UNCHANGED <<arrays, serverVars>>
    PROVE  Handed(d)'
  <1>1. AsksIn(toServer[d])' = AsksIn(toServer[d]) /\ UNCHANGED ch /\ UNCHANGED conn /\ UNCHANGED main
    BY DEF AsksIn, Same, arrays, serverVars, conn
  <1> QED BY <1>1 DEF Handed, Same, Work

\* A step of a client keeps the invariant of the exchange.
LEMMA ClientPInv ==
    ASSUME IInv, Shapes, PInv, NEW c \in Clients, ClientStep(c), UNCHANGED <<arrays, serverVars>>
    PROVE  PInv'
  <1>1. Alone(c) /\ History(c)
    BY ClientAlone, ClientHistory DEF Shapes
  <1>2. Talks(c)' /\ (c \notin upset' => cl'[c].inStep)
    BY OwnTalks DEF PInv
  <1>3. Handed(c)'
    BY ClientHanded DEF PInv
  <1>4. ASSUME NEW d \in Clients, d # c
        PROVE  Talks(d)' /\ Handed(d)' /\ (d \notin upset' => cl'[d].inStep)
    <2>1. Same(d) /\ Talks(d) /\ Handed(d) /\ (d \notin upset => cl[d].inStep)
      BY <1>1, <1>4, AloneSame DEF PInv
    <2> QED BY <2>1, SameTalks, SameHanded DEF Same
  <1>5. StubInv'
    <2>1. CASE sc.receiver = "stub"
      BY <2>1, ClientStub DEF PInv
    <2>2. CASE sc.receiver # "stub"
      BY <1>1, <2>2 DEF StubInv, Alone
    <2> QED BY <2>1, <2>2
  <1>6. Deaths'
    <2>1. UNCHANGED <<server, ch>>
      BY <1>1 DEF Alone, serverVars
    <2>2. \A d \in Clients : (~cl[d].inStep => ~cl'[d].inStep) /\ (cl[d].pc = "crashed" => cl'[d].pc = "crashed")
      BY <1>1 DEF Alone, History
    <2>3. upset \subseteq upset'
      BY <1>1 DEF History
    <2> QED BY <2>1, <2>2, <2>3 DEF Deaths, PInv
  <1> QED BY <1>2, <1>3, <1>4, <1>5, <1>6 DEF PInv

\* The first message of q is damaged.
Damages(q, q2) ==
    /\ q # << >> /\ DOMAIN q2 = DOMAIN q /\ Len(q2) = Len(q)
    /\ ~q2[1].intact /\ q2[1].seg = q[1].seg /\ q2[1].type = q[1].type /\ q2[1].send = q[1].send /\ q2[1].chan = q[1].chan
    /\ \A k \in DOMAIN q : k # 1 => q2[k] = q[k]

\* A damaged message.
LEMMA AlterDamages ==
    ASSUME NEW q, Mails(q), q # << >>
    PROVE  /\ \A r : Damages(q, [q EXCEPT ![1].intact = FALSE, ![1].recv = r])
           /\ Damages(q, [q EXCEPT ![1].intact = FALSE])
           /\ [q EXCEPT ![1].intact = FALSE][1].recv = q[1].recv
  <1>1. q \in Seq(ToSet(q)) /\ 1 \in DOMAIN q /\ DOMAIN q[1] = MsgFields
    BY TailSeq DEF Mails, IsSeq
  <1>2. DOMAIN q = 1 .. Len(q) /\ Len(q) \in Nat
    BY <1>1
  <1>3. \A p : p \in [DOMAIN q -> ToSet(p)] => Len(p) = Len(q)
    BY <1>2
  <1>4. ASSUME NEW p, DOMAIN p = DOMAIN q, p = [k \in DOMAIN q |-> p[k]] PROVE Len(p) = Len(q)
    <2>1. p \in [DOMAIN q -> ToSet(p)]
      BY <1>4 DEF ToSet
    <2> QED BY <1>3, <2>1
  <1>5. ASSUME NEW r, NEW p, p = [q EXCEPT ![1].intact = FALSE, ![1].recv = r]
        PROVE  Damages(q, p)
    <2>1. DOMAIN p = DOMAIN q /\ p = [k \in DOMAIN q |-> p[k]]
      BY <1>5
    <2>2. Len(p) = Len(q)
      BY <1>4, <2>1
    <2>3. p[1] = [q[1] EXCEPT !.intact = FALSE, !.recv = r] /\ \A k \in DOMAIN q : k # 1 => p[k] = q[k]
      BY <1>1, <1>5
    <2>4. /\ ~p[1].intact /\ p[1].seg = q[1].seg /\ p[1].type = q[1].type /\ p[1].send = q[1].send
          /\ p[1].chan = q[1].chan
      BY <1>1, <2>3 DEF MsgFields
    <2> QED BY <2>1, <2>2, <2>3, <2>4 DEF Damages
  <1>6. ASSUME NEW p, p = [q EXCEPT ![1].intact = FALSE]
        PROVE  Damages(q, p) /\ p[1].recv = q[1].recv
    <2>1. DOMAIN p = DOMAIN q /\ p = [k \in DOMAIN q |-> p[k]]
      BY <1>6
    <2>2. Len(p) = Len(q)
      BY <1>4, <2>1
    <2> QED BY <1>1, <1>6, <2>1, <2>2 DEF Damages, MsgFields
  <1> QED BY <1>5, <1>6

\* A damaged message changes no phase.
LEMMA DamagedPhase ==
    ASSUME NEW me, NEW u, NEW v, NEW s, NEW q, NEW q2, NEW r, NEW r2, NEW cs, NEW x, NEW n, NEW b, Mails(q), Mails(r),
           u => v, q2 = q \/ Damages(q, q2), r2 = r \/ (Damages(r, r2) /\ r2[1].recv = r[1].recv),
           PhaseOf(me, u, s, q, r, cs, x, n, b)
    PROVE  PhaseOf(me, v, s, q2, r2, cs, x, n, b)
  <1>0. /\ DOMAIN q = 1 .. Len(q) /\ Len(q) \in Nat /\ DOMAIN r = 1 .. Len(r) /\ Len(r) \in Nat
        /\ q # << >> => Len(q) # 0
        /\ r # << >> => Len(r) # 0
    BY TailSeq DEF Mails, IsSeq
  <1>1. /\ Len(q2) = Len(q) /\ (q2 = << >> <=> q = << >>)
        /\ \A k \in {1, Len(q)} : q2[k].seg = q[k].seg /\ (q2[k].intact => q2[k] = q[k])
    <2>1. CASE q2 = q
      BY <2>1
    <2>2. CASE Damages(q, q2)
      <3>1. q # << >> /\ Len(q) \in DOMAIN q /\ DOMAIN q # {}
        BY <1>0, <2>2 DEF Damages
      <3>2. q2 # << >>
        BY <2>2, <3>1 DEF Damages
      <3> QED BY <2>2, <3>1, <3>2 DEF Damages
    <2> QED BY <2>1, <2>2
  <1>2. /\ Len(r2) = Len(r) /\ (r2 = << >> <=> r = << >>) /\ DOMAIN r2 = DOMAIN r
        /\ \A k \in DOMAIN r \cup {1, Len(r)} \cup 1 .. Len(r) - 1 :
              r2[k].type = r[k].type /\ r2[k].recv = r[k].recv /\ r2[k].send = r[k].send
              /\ r2[k].seg = r[k].seg /\ r2[k].chan = r[k].chan
    <2>1. CASE r2 = r
      BY <2>1
    <2>2. CASE Damages(r, r2) /\ r2[1].recv = r[1].recv
      <3>1. r # << >> /\ Len(r) \in DOMAIN r /\ DOMAIN r # {}
        BY <1>0, <2>2 DEF Damages
      <3>2. r2 # << >>
        BY <2>2, <3>1 DEF Damages
      <3>3. 1 .. Len(r) - 1 \subseteq DOMAIN r
        BY <1>0
      <3> QED BY <2>2, <3>1, <3>2, <3>3 DEF Damages
    <2> QED BY <2>1, <2>2
  <1> QED BY <1>1, <1>2, PhaseKeeps

\* A message is damaged on its way.
LEMMA AlterPInv ==
    ASSUME Shapes, PInv, NEW c \in Clients, Alter(c), UNCHANGED <<arrays, serverVars, cl>>
    PROVE  PInv'
  <1>0. /\ Mails(toServer[c]) /\ Mails(toClient[c]) /\ DOMAIN toServer = Clients /\ DOMAIN toClient = Clients
    BY DEF Shapes, NetShapes
  <1>1. /\ toServer'[c] = toServer[c] \/ Damages(toServer[c], toServer'[c])
        /\ toClient'[c] = toClient[c] \/ (Damages(toClient[c], toClient'[c]) /\ toClient'[c][1].recv = toClient[c][1].recv)
        /\ \A d \in Clients : d # c => toServer'[d] = toServer[d] /\ toClient'[d] = toClient[d] /\ (d \in upset' <=> d \in upset)
        /\ upset \subseteq upset'
        /\ toServer'[c] = toServer[c] \/ c \in upset'
    <2>1. CASE /\ toServer[c] # << >>
               /\ \E r \in {Head(toServer[c]).recv, Stray} :
                    toServer' = [toServer EXCEPT ![c][1].intact = FALSE, ![c][1].recv = r]
               /\ upset' = upset \cup {c} /\ UNCHANGED toClient
      <3>1. PICK r : toServer' = [toServer EXCEPT ![c][1].intact = FALSE, ![c][1].recv = r]
        BY <2>1
      <3>2. /\ toServer'[c] = [toServer[c] EXCEPT ![1].intact = FALSE, ![1].recv = r]
            /\ \A d \in Clients : d # c => toServer'[d] = toServer[d]
        BY <1>0, <3>1
      <3>3. Damages(toServer[c], [toServer[c] EXCEPT ![1].intact = FALSE, ![1].recv = r])
        BY ONLY <1>0, <2>1, AlterDamages
      <3>4. Damages(toServer[c], toServer'[c])
        BY <3>2, <3>3
      <3> QED BY <2>1, <3>2, <3>4
    <2>2. CASE /\ toClient[c] # << >>
               /\ toClient' = [toClient EXCEPT ![c][1].intact = FALSE]
               /\ upset' = IF Head(toClient[c]).chan = "DATA" THEN upset ELSE upset \cup {c}
               /\ UNCHANGED toServer
      <3>2. /\ toClient'[c] = [toClient[c] EXCEPT ![1].intact = FALSE]
            /\ \A d \in Clients : d # c => toClient'[d] = toClient[d]
        BY <1>0, <2>2
      <3> QED BY <1>0, <2>2, <3>2, AlterDamages
    <2> QED BY <2>1, <2>2 DEF Alter
  <1>2. UNCHANGED <<sc, server, gone, shut, arrays, serverVars, cl, handles>>
    BY DEF Alter, handles
  <1>3. \A d \in Clients : d # c => Same(d)
    BY <1>1, <1>2 DEF Same, Mine, Work, conn, arrays, serverVars
  <1>4. Talks(c)'
    <2>1. /\ Mine(c)' = Mine(c) /\ Num(c)' = Num(c) /\ Work(c)' = Work(c) /\ selfID(c)' = selfID(c)
      BY <1>2 DEF Mine, Num, NumOf, Work, conn, selfID, arrays, serverVars
    <2>2. ASSUME Phase(c) PROVE Phase(c)'
      <3>1. PhaseOf(selfID(c), c \in upset, cl[c], toServer[c], toClient[c], chans[c], Mine(c), Num(c), Work(c))
        BY <2>2 DEF Phase
      <3>2. PhaseOf(selfID(c), c \in upset', cl[c], toServer'[c], toClient'[c], chans[c], Mine(c), Num(c), Work(c))
        <4> DEFINE u == c \in upset
                   v == c \in upset'
        <4>1. u => v
          BY <1>1
        <4>2. PhaseOf(selfID(c), u, cl[c], toServer[c], toClient[c], chans[c], Mine(c), Num(c), Work(c))
          BY <3>1
        <4> HIDE DEF u, v
        <4>3. PhaseOf(selfID(c), v, cl[c], toServer'[c], toClient'[c], chans[c], Mine(c), Num(c), Work(c))
          BY <1>0, <1>1, <4>1, <4>2, DamagedPhase
        <4> QED BY <4>3 DEF v
      <3> QED BY <1>2, <2>1, <3>2 DEF Phase, arrays
    <2>3. ASSUME Sound(c \in upset, toServer[c], toClient[c])
          PROVE  Sound(c \in upset, toServer[c], toClient[c])'
      <3>1. \A k \in DOMAIN toServer'[c] :
               toServer'[c][k].chan # "OPEN" /\ (~toServer'[c][k].intact => c \in upset')
        BY <1>1, <2>3 DEF Sound, Damages
      <3>2. \A k \in DOMAIN toClient'[c] : toClient'[c][k].chan # "OPEN"
        BY <1>1, <2>3 DEF Sound, Damages
      <3> QED BY <1>2, <3>1, <3>2 DEF Sound
    <2>4. toClient[c] = << >> => toClient'[c] = << >>
      BY <1>1 DEF Damages
    <2> QED BY <1>1, <1>2, <2>2, <2>3, <2>4 DEF Talks, PInv
  <1>5. Handed(c)'
    <2>1. AsksIn(toServer'[c]) \subseteq AsksIn(toServer[c])
      BY <1>1 DEF AsksIn, Damages
    <2>2. AsksIn(toServer[c])' = AsksIn(toServer'[c])
      BY DEF AsksIn
    <2>3. Work(c)' = Work(c) /\ UNCHANGED <<main, conn, ch, chans, cl>>
      BY <1>2 DEF Work, conn, arrays, serverVars
    <2> QED BY <2>1, <2>2, <2>3 DEF Handed, PInv
  <1>6. \A d \in Clients : d # c => Talks(d)' /\ Handed(d)'
    BY <1>3, SameTalks, SameHanded DEF PInv
  <1>7. \A d \in Clients : d \notin upset' => cl'[d].inStep
    BY <1>1, <1>2 DEF PInv
  <1>8. StubInv' /\ Deaths'
    BY <1>1, <1>2 DEF PInv, StubInv, Deaths, serverVars
  <1> QED BY <1>4, <1>5, <1>6, <1>7, <1>8 DEF PInv

\* Damage changes the number of messages: the client counts as out of step.
LEMMA UnframePInv ==
    ASSUME Shapes, PInv, NEW c \in Clients, Unframe(c), cl' = [cl EXCEPT ![c].inStep = FALSE],
           UNCHANGED <<arrays, serverVars>>
    PROVE  PInv'
  <1>1. /\ ~cl'[c].inStep /\ cl'[c].pc = cl[c].pc /\ \A d \in Clients : d # c => cl'[d] = cl[d]
    BY DEF Shapes, ClientShapes, ClientFields
  <1>2. /\ UNCHANGED <<sc, server, gone, shut, arrays, serverVars>> /\ upset' = upset \cup {c}
        /\ \A d \in Clients : d # c => toServer'[d] = toServer[d] /\ toClient'[d] = toClient[d]
    BY DEF Unframe, Shapes, NetShapes
  <1>3. \A d \in Clients : d # c => Same(d)
    BY <1>1, <1>2 DEF Same, Mine, Work, conn, arrays, serverVars
  <1>4. Talks(c)' /\ Handed(c)' /\ c \in upset'
    BY <1>1, <1>2 DEF Talks, Handed
  <1>5. \A d \in Clients : d # c => Talks(d)' /\ Handed(d)' /\ (d \notin upset' => cl'[d].inStep)
    BY <1>1, <1>2, <1>3, SameTalks, SameHanded DEF PInv
  <1>6. \A d \in Clients : cl'[d].pc = cl[d].pc /\ (~cl[d].inStep => ~cl'[d].inStep)
    BY <1>1
  <1>7. StubInv' /\ Deaths'
    BY <1>2, <1>6 DEF PInv, StubInv, Deaths, serverVars
  <1> QED BY <1>4, <1>5, <1>7 DEF PInv

\* A client is killed.
LEMMA KilledPInv ==
    ASSUME Shapes, PInv, NEW c \in Clients, ClientKilled(c), UNCHANGED <<arrays, serverVars>>
    PROVE  PInv'
  <1>0. /\ Exits(c, "crashed") /\ UNCHANGED <<sc, server, toServer, shut, upset>> /\ cl[c].pc # "crashed"
        /\ DOMAIN cl = Clients /\ DOMAIN cl[c] = ClientFields
    BY DEF ClientKilled, Shapes, ClientShapes
  <1>1. Alone(c) /\ History(c)
    BY <1>0, ExitsAlone, ExitsHistory DEF Shapes
  <1>2. cl'[c].pc = "crashed" /\ cl'[c].inStep = cl[c].inStep
    BY <1>0 DEF Exits, ClientFields
  <1>3. Talks(c)'
    BY <1>0, CrashTalks DEF PInv
  <1>4. Handed(c)'
    <2>1. AsksIn(toServer[c])' = AsksIn(toServer[c]) /\ UNCHANGED <<ch, conn, main, chans>>
      BY <1>0 DEF AsksIn, arrays, serverVars, conn
    <2> QED BY <1>2, <2>1 DEF Handed, Work, PInv
  <1>5. ASSUME NEW d \in Clients, d # c
        PROVE  Talks(d)' /\ Handed(d)' /\ (d \notin upset' => cl'[d].inStep)
    <2>1. Same(d) /\ Talks(d) /\ Handed(d) /\ (d \notin upset => cl[d].inStep)
      BY <1>1, <1>5, AloneSame DEF PInv
    <2> QED BY <2>1, SameTalks, SameHanded DEF Same
  <1>6. StubInv'
    <2>1. sc.receiver = "stub" => \A d \in Clients : cl'[d].pc \in {"connect", "syn", "ack", "crashed", "done"}
      BY <1>1, <1>2 DEF Alone, StubInv, PInv
    <2> QED BY <1>0, <2>1 DEF StubInv, PInv, serverVars
  <1>7. Deaths'
    <2>1. UNCHANGED <<server, ch>>
      BY <1>1 DEF Alone, serverVars
    <2>2. \A d \in Clients : (~cl[d].inStep => ~cl'[d].inStep) /\ (cl[d].pc = "crashed" => cl'[d].pc = "crashed")
      BY <1>1 DEF Alone, History
    <2>3. upset \subseteq upset'
      BY <1>1 DEF History
    <2> QED BY <2>1, <2>2, <2>3 DEF Deaths, PInv
  <1>8. c \notin upset' => cl'[c].inStep
    BY <1>0, <1>2 DEF PInv
  <1> QED BY <1>3, <1>4, <1>5, <1>6, <1>7, <1>8 DEF PInv

\* The server dies and nothing else changes.
LEMMA DiesPInv ==
    ASSUME PInv, NEW cause, Dies(cause), UNCHANGED cl, server = "up", cause # "up", Deaths'
    PROVE  PInv'
  <1>1. /\ server' = cause /\ UNCHANGED <<sc, toServer, toClient, gone, shut, upset, arrays, serverVars>>
    BY DEF Dies
  <1>2. \A d \in Clients : Same(d)
    BY <1>1 DEF Same, Mine, Work, conn, arrays, serverVars
  <1>3. \A d \in Clients : Talks(d)' /\ Handed(d)'
    BY <1>1, <1>2, SameTalks, SameHanded DEF PInv
  <1>4. StubInv'
    BY <1>1 DEF StubInv, PInv, serverVars
  <1> QED BY <1>1, <1>3, <1>4 DEF PInv

\* Any disturbance.
LEMMA DisturbPInv == ASSUME Shapes, PInv, Disturb PROVE PInv'
  <1>1. CASE AcceptFails /\ UNCHANGED cl
    <2>1. Dies("accept") /\ server = "up"
      BY <1>1 DEF AcceptFails, At
    <2>2. Deaths'
      BY <2>1 DEF Dies, Deaths
    <2> QED BY <1>1, <2>1, <2>2, DiesPInv
  <1> QED BY <1>1, AlterPInv, UnframePInv, KilledPInv DEF Disturb

\* A phase that says anything says that there is one channel at most.
LEMMA PhaseChans ==
    ASSUME NEW me, NEW u, NEW s, NEW q, NEW r, NEW cs, NEW x, NEW n, NEW b,
           PhaseOf(me, u, s, q, r, cs, x, n, b), cs # << >>, Len(cs) # 1
    PROVE  \A q2, r2, cs2, x2, n2, b2 : PhaseOf(me, u, s, q2, r2, cs2, x2, n2, b2)
  <1>1. s.pc \notin {"connect", "syn", "bye", "ack", "again", "ready", "gather", "rts", "answer", "fin", "finack"}
    BY DEF PhaseOf, SynPhase, AckPhase, AgainPhase, ReadyPhase, GatherPhase, RtsPhase, AnswerPhase, FinPhase, FinackPhase,
           Fresh, Joined, Own
  <1>2. s.pc \in {"close", "done"} => u
    BY DEF PhaseOf, ClosePhase
  <1> QED BY <1>1, <1>2 DEF PhaseOf, ClosePhase

\* The request that a thread deals with stays its own.
LEMMA RelayedSteps ==
    ASSUME NEW x, NEW y, DOMAIN x = ThreadFields, DOMAIN x.value = {"seg", "live"}, Relayed(x), Steps(x, y)
    PROVE  Relayed(y) /\ (y.data => x.data) /\ (~x.data /\ x.value.live => y.value.live)
  <1>1. CASE y = [x EXCEPT !.pc = IF x.kill THEN "exit" ELSE IF x.data THEN "relay" ELSE "work"]
             /\ (x.pc = "top" \/ x.pc = "wait")
    BY <1>1 DEF Relayed, ThreadFields
  <1>2. CASE x.pc = "relay" /\ \E n : y = [x EXCEPT !.again = @ \cup {n}, !.used = TRUE, !.pc = "free"]
    BY <1>2 DEF Relayed, ThreadFields
  <1>3. CASE x.pc = "free" /\ y = [x EXCEPT !.value.live = FALSE, !.pc = "clear"]
    BY <1>3 DEF Relayed, ThreadFields
  <1>4. CASE x.pc = "clear" /\ y = [x EXCEPT !.data = FALSE, !.pc = "work"]
    BY <1>4 DEF Relayed, ThreadFields
  <1>5. CASE x.pc = "work" /\ y = [x EXCEPT !.finished = TRUE, !.pc = "top"]
    BY <1>5 DEF Relayed, ThreadFields
  <1>6. CASE x.pc = "exit" /\ y = [x EXCEPT !.pc = "exited", !.value.live = @ /\ ~x.data]
    <2>1. y.pc = "exited" /\ y.data = x.data /\ y.clobbered = x.clobbered /\ y.value.live = (x.value.live /\ ~x.data)
      BY <1>6 DEF ThreadFields
    <2> QED BY <2>1 DEF Relayed
  <1> QED BY <1>1, <1>2, <1>3, <1>4, <1>5, <1>6, Zenon DEF Steps

\* The request handed over, when a segment is sent.
LEMMA RelayedSends ==
    ASSUME NEW x, NEW y, NEW k, DOMAIN x = ThreadFields, DOMAIN x.value = {"seg", "live"}, Relayed(x), Sends(x, k, y)
    PROVE  Relayed(y) /\ (y.data => x.data) /\ (~x.data /\ x.value.live => y.value.live)
  <1>1. CASE x.pc = "work" /\ y = [x EXCEPT !.next = @ + 1, !.pc = "top"]
    BY <1>1 DEF Relayed, ThreadFields
  <1>2. CASE x.pc = "work" /\ y = [x EXCEPT !.again = @ \ {Min(@)}, !.pc = "top"]
    BY <1>2 DEF Relayed, ThreadFields
  <1> QED BY <1>1, <1>2, Zenon DEF Sends

\* The record of thread id becomes y.
Becomes(id, y) ==
    /\ ch' = [ch EXCEPT ![id] = y] /\ UNCHANGED <<sc, server, toServer, shut, upset, arrays, main, cl>>
    /\ Steps(ch[id], y) \/ \E k : Sends(ch[id], k, y)
    /\ \A d \in Clients : d # ch[id].conn => toClient'[d] = toClient[d] /\ gone'[d] = gone[d]

\* A thread does not concern the other clients.
LEMMA OtherClients ==
    ASSUME IInv, Shapes, NEW id \in DOMAIN ch, NEW y, Becomes(id, y), NEW d \in Clients, d # ch[id].conn
    PROVE  Same(d)
  <1>1. chans'[d] = chans[d] /\ Work(d)' = Work(d)
    BY DEF Becomes, arrays, Work, conn
  <1>2. Mine(d)' = Mine(d)
    <2>1. CASE chans[d] = << >>
      BY <1>1, <2>1 DEF Mine
    <2>2. CASE chans[d] # << >>
      <3>1. chans[d] \in Seq(Nat)
        BY DEF IInv, Types
      <3>2. chans[d][1] \in ToSet(chans[d])
        BY <2>2, <3>1 DEF ToSet
      <3>3. chans[d][1] \in DOMAIN ch /\ chans[d][1] # id
        BY <3>2 DEF IInv, Arrays
      <3> QED BY <1>1, <2>2, <3>3 DEF Mine, Becomes
    <2> QED BY <2>1, <2>2
  <1> QED BY <1>1, <1>2 DEF Same, Becomes

\* The requests of a client, when a thread takes a step.
LEMMA ThreadHanded ==
    ASSUME IInv, Shapes, NEW id \in DOMAIN ch, NEW y, Becomes(id, y), NEW d \in Clients, Handed(d)
    PROVE  Handed(d)'
  <1>0. DOMAIN ch[id] = ThreadFields /\ DOMAIN ch[id].value = {"seg", "live"}
    BY DEF Shapes, ThreadShapes
  <1> SUFFICES ASSUME cl[d].inStep PROVE Handed(d)'
    BY DEF Handed, Becomes
  <1>1. /\ UNCHANGED <<main, conn, chans, cl>> /\ AsksIn(toServer[d])' = AsksIn(toServer[d]) /\ Work(d)' = Work(d)
        /\ DOMAIN ch' = DOMAIN ch
    BY DEF Becomes, AsksIn, Work, conn, arrays
  <1>2. y.conn = ch[id].conn
    BY <1>0, StepsKeep DEF Becomes
  <1>3. ch'[id] = y /\ \A k \in DOMAIN ch : k # id => ch'[k] = ch[k]
    BY DEF Becomes
  <1>4. ch[id].conn = d => Relayed(y) /\ (y.data => ch[id].data) /\ (~ch[id].data /\ ch[id].value.live => y.value.live)
    BY <1>0, RelayedSteps, RelayedSends DEF Handed, Becomes
  <1>5. \A k \in ToSet(chans[d]) : k \in DOMAIN ch /\ ch[k].conn = d
    BY DEF IInv, Arrays
  <1>6. \A k \in DOMAIN ch : ch'[k].conn = d => Relayed(ch'[k])
    BY <1>2, <1>3, <1>4 DEF Handed
  <1>7. \A k \in ToSet(chans[d]) : ch'[k].data => ch[k].data
    BY <1>3, <1>4, <1>5
  <1>8. main.pc = "flag" /\ conn = d => ~ch'[main.at].data /\ ch'[main.at].value.live
    <2>1. main.pc = "flag" /\ conn = d => main.at \in ToSet(chans[d])
      BY DEF IInv, AtConnection
    <2> QED BY <1>3, <1>4, <1>5, <2>1 DEF Handed
  <1>9. \A k \in DOMAIN ch' : ch'[k].conn = d => Relayed(ch[k])'
    BY <1>1, <1>6 DEF Relayed
  <1> QED BY <1>1, <1>7, <1>8, <1>9 DEF Handed

\* How the phase of the client reads after a step of its thread id.
LEMMA ThreadPhase ==
    ASSUME IInv, Shapes, NEW c \in Clients, NEW id \in DOMAIN ch, ch[id].conn = c, Listed(id), NEW y, Becomes(id, y),
           NEW r, r = toClient'[c], Phase(c),
           PhaseOf(selfID(c), c \in upset, cl[c], toServer[c], toClient[c], chans[c], ch[id], NumOf(ch[id]), Work(c))
             => PhaseOf(selfID(c), c \in upset, cl[c], toServer[c], r, chans[c], y, NumOf(ch[id]), Work(c))
    PROVE  Phase(c)'
  <1>0. DOMAIN ch[id] = ThreadFields /\ DOMAIN ch[id].value = {"seg", "live"}
    BY DEF Shapes, ThreadShapes
  <1>1. /\ UNCHANGED <<sc, handles, cl, toServer, upset, chans>> /\ Work(c)' = Work(c) /\ selfID(c)' = selfID(c)
    BY DEF Becomes, Work, conn, arrays, handles, selfID
  <1>2. chans[c] \in Seq(Nat) /\ id \in ToSet(chans[c])
    BY DEF IInv, Types, Listed
  <1>3. chans[c] # << >>
    BY <1>2 DEF ToSet
  <1>4. PhaseOf(selfID(c), c \in upset, cl[c], toServer[c], toClient[c], chans[c], Mine(c), Num(c), Work(c))
    BY DEF Phase
  <1>5. CASE Len(chans[c]) = 1
    <2>1. id = chans[c][1]
      BY <1>2, <1>5 DEF ToSet
    <2>2. Mine(c) = ch[id] /\ Num(c) = NumOf(ch[id])
      BY <1>3, <2>1 DEF Mine, Num
    <2>3. NumOf(y) = NumOf(ch[id])
      BY SMTT(30), <1>0, StepsKeep DEF Becomes
    <2>4. Mine(c)' = y
      BY <1>1, <1>3, <2>1 DEF Mine, Becomes
    <2>5. Num(c)' = NumOf(y)
      BY <1>1, <1>3, <2>1, <2>4 DEF Num, NumOf, Mine, Becomes
    <2>6. PhaseOf(selfID(c), c \in upset, cl[c], toServer[c], r, chans[c], y, NumOf(ch[id]), Work(c))
      BY <1>4, <2>2
    <2> QED BY <1>1, <2>3, <2>4, <2>5, <2>6 DEF Phase
  <1>6. CASE Len(chans[c]) # 1
    <2>1. PhaseOf(selfID(c), c \in upset, cl[c], toServer[c], r, chans[c], Mine(c)', Num(c)', Work(c))
      BY <1>3, <1>4, <1>6, PhaseChans
    <2> QED BY <1>1, <2>1 DEF Phase
  <1> QED BY <1>5, <1>6

\* A client that has left while channels of its are open lost step or was disturbed.
LEMMA GonePhase ==
    ASSUME IInv, NEW c \in Clients, NEW id \in DOMAIN ch, ch[id].conn = c, Listed(id), server = "up",
           PInv, gone[c] # "no"
    PROVE  /\ cl[c].pc = "crashed" \/ c \in upset
           /\ cl[c].inStep => cl[c].pc = "crashed" \/ (cl[c].pc = "done" /\ c \in upset)
  <1>1. sc.receiver # "stub"
    BY DEF PInv, StubInv
  <1>2. ~cl[c].inStep => c \in upset
    BY DEF PInv
  <1>3. chans[c] # << >>
    BY DEF Listed, ToSet
  <1>4. ASSUME cl[c].inStep PROVE cl[c].pc = "crashed" \/ (cl[c].pc = "done" /\ c \in upset)
    <2>1. cl[c].pc \in {"done", "crashed"} /\ Phase(c)
      BY <1>1, <1>4 DEF PInv, Talks
    <2>2. CASE cl[c].pc = "done"
      <3>1. ClosePhase(c \in upset, toServer[c], toClient[c], chans[c], Work(c))
        BY <2>1, <2>2 DEF Phase, PhaseOf
      <3> QED BY <1>3, <2>2, <3>1 DEF ClosePhase
    <2> QED BY <2>1, <2>2
  <1> QED BY <1>2, <1>4

\* A thread takes a step, and the exchange of its client is in its phase.
LEMMA BecomesPInv ==
    ASSUME IInv, Shapes, PInv, server = "up", NEW id \in DOMAIN ch, NEW y, Becomes(id, y), Listed(id),
           NEW c, c = ch[id].conn, Talks(c)'
    PROVE  PInv'
  <1>1. UNCHANGED <<sc, server, cl, upset, main>>
    BY DEF Becomes
  <1>2. ASSUME NEW d \in Clients, d # c PROVE Talks(d)'
    BY <1>2, OtherClients, SameTalks DEF PInv
  <1>3. \A d \in Clients : Handed(d)'
    BY ThreadHanded DEF PInv
  <1>4. StubInv'
    <2>1. sc.receiver # "stub"
      BY DEF PInv, StubInv
    <2> QED BY <1>1, <2>1 DEF StubInv
  <1>5. Deaths'
    BY <1>1 DEF Deaths
  <1> QED BY <1>1, <1>2, <1>3, <1>4, <1>5 DEF PInv

\* Nothing that the exchanges depend on changes.
LEMMA StutterPInv == ASSUME PInv, UNCHANGED <<net, arrays, main, ch, cl>> PROVE PInv'
  <1>1. \A d \in Clients : Same(d)
    BY DEF Same, Mine, Work, conn, arrays, net
  <1>2. \A d \in Clients : AsksIn(toServer[d])' = AsksIn(toServer[d]) /\ Work(d)' = Work(d)
    BY DEF AsksIn, net, Work, conn, arrays
  <1>3. UNCHANGED <<chans, conn>>
    BY DEF conn, arrays
  <1>4. \A d \in Clients : Talks(d)' /\ Handed(d)'
    BY <1>1, <1>2, <1>3, SameTalks DEF PInv, Handed
  <1> QED BY <1>4 DEF PInv, StubInv, Deaths, net

\* A step of a thread keeps the invariant of the exchange.
LEMMA ThreadPInv ==
    ASSUME IInv, Shapes, PInv, NEW id, ThreadStep(id), UNCHANGED cl
    PROVE  PInv'
  <1> SUFFICES ASSUME NEW c, c = ch[id].conn, NEW x, x = ch[id] PROVE PInv'
    OBVIOUS
  <1>0. /\ id \in DOMAIN ch /\ server = "up" /\ c \in Clients
        /\ DOMAIN x = ThreadFields /\ DOMAIN x.value = {"seg", "live"}
    BY ThreadStepEffect DEF Shapes, ThreadShapes, IInv, Types
  <1>1. x.pc # "exited" /\ Listed(id)
    <2>1. x.pc # "exited"
      BY DEF ThreadStep, Top, Relay, FreeValue, Clear, SendNext, SendAgain, Exit, InThread
    <2> QED BY <1>0, <2>1 DEF IInv, Threads
  <1>2. /\ sc.receiver # "stub" /\ Talks(c) /\ Handed(c) /\ chans[c] # << >>
        /\ Mails(toServer[c]) /\ Mails(toClient[c]) /\ c \in DOMAIN toClient /\ c \in DOMAIN gone
    BY <1>0, <1>1 DEF PInv, StubInv, Listed, ToSet, Shapes, NetShapes
  <1>3. ASSUME NEW y, Steps(x, y), Thread(id, y) PROVE PInv'
    <2>1. Becomes(id, y) /\ UNCHANGED <<toClient, gone, net>>
      BY <1>3 DEF Thread, Becomes, net
    <2>2. ASSUME cl[c].inStep PROVE Phase(c)'
      <3>1. Relayed(x) /\ Phase(c)
        BY <1>0, <1>2, <2>2 DEF Handed, Talks
      <3>2. ASSUME PhaseOf(selfID(c), c \in upset, cl[c], toServer[c], toClient[c], chans[c], x, NumOf(x), Work(c))
            PROVE  PhaseOf(selfID(c), c \in upset, cl[c], toServer[c], toClient[c], chans[c], y, NumOf(x), Work(c))
        BY ONLY <1>0, <1>2, <1>3, <3>1, <3>2, StepsPhase
      <3>3. toClient[c] = toClient'[c]
        BY <2>1
      <3> QED BY <1>0, <1>1, <2>1, <3>1, <3>2, <3>3, ThreadPhase
    <2>3. Sound(c \in upset, toServer[c], toClient[c]) => Sound(c \in upset, toServer[c], toClient[c])'
      BY <2>1 DEF Sound, net
    <2>4. Talks(c)'
      BY <1>2, <2>1, <2>2, <2>3 DEF Talks, net
    <2> QED BY <1>0, <1>1, <2>1, <2>4, BecomesPInv
  <1>4. ASSUME Dies("abort"),
               \/ x.pc = "free" /\ ~x.value.live
               \/ x.pc = "exit" /\ x.data /\ ~x.value.live
               \/ x.pc = "exit" /\ x.used /\ x.again = {}
        PROVE  PInv'
    <2>1. server' = "abort" /\ UNCHANGED ch
      BY <1>4 DEF Dies, serverVars
    <2>2. cl[c].inStep => Relayed(x)
      BY <1>0, <1>2 DEF Handed
    <2>3. ~cl[c].inStep \/ (x.pc = "exit" /\ x.used /\ x.again = {})
      BY <1>4, <2>2 DEF Relayed
    <2>4. Deaths'
      BY <1>0, <2>1, <2>3 DEF Deaths
    <2> QED BY <1>0, <1>4, <2>4, DiesPInv
  <1>5. ASSUME NEW k, NEW y, Sends(x, k, y), send_msg(id, c, Segment(id, k), main, [ch EXCEPT ![id] = y])
        PROVE  PInv'
    <2> DEFINE m == Segment(id, k)
    <2>0. m.chan # "OPEN" /\ IsData(m, x.other, k)
      BY DEF Segment, form_msg, IsData
    <2>1. CASE Write(id, c, m, main, [ch EXCEPT ![id] = y])
      <3>1. /\ Becomes(id, y) /\ toClient'[c] = Sent(toClient[c], gone[c], m) /\ gone'[c] = EndAfter(gone[c])
            /\ UNCHANGED <<toServer, shut, server, sc, upset>>
        BY <1>0, <1>2, <1>5, <2>1 DEF Write, Becomes
      <3> HIDE DEF m
      <3>2. CASE gone[c] = "no"
        <4>0. cl[c].inStep => Sound(c \in upset, toServer[c], toClient[c])
          BY <1>2 DEF Talks
        <4>1. gone'[c] = gone[c] /\ (cl[c].inStep => toClient'[c] = Append(toClient[c], m))
          BY <1>2, <3>1, <3>2, <4>0, SoundFramed DEF Sent, EndAfter
        <4>2. ASSUME cl[c].inStep PROVE Phase(c)'
          <5>1. Phase(c)
            BY <1>0, <1>2, <4>2 DEF Talks
          <5>2. ASSUME PhaseOf(selfID(c), c \in upset, cl[c], toServer[c], toClient[c], chans[c], x, NumOf(x), Work(c))
                PROVE  PhaseOf(selfID(c), c \in upset, cl[c], toServer[c], Append(toClient[c], m), chans[c], y, NumOf(x), Work(c))
            BY ONLY <1>0, <1>2, <1>5, <2>0, <5>2, SendsPhase
          <5> QED BY <1>0, <1>1, <3>1, <4>1, <4>2, <5>1, <5>2, ThreadPhase
        <4>3. ASSUME cl[c].inStep PROVE Sound(c \in upset, toServer[c], toClient[c])'
          <5>1. Sound(c \in upset, toServer[c], Append(toClient[c], m))
            BY <1>2, <2>0, <4>0, <4>3, SoundReply
          <5> QED BY <3>1, <4>1, <4>3, <5>1 DEF Sound
        <4>4. Talks(c)'
          BY <1>0, <1>2, <3>1, <4>1, <4>2, <4>3 DEF Talks, Becomes
        <4> QED BY <1>0, <1>1, <3>1, <4>4, BecomesPInv
      <3>3. CASE gone[c] # "no"
        <4>1. toClient'[c] = toClient[c]
          BY <3>1, <3>3 DEF Sent
        <4>2. cl[c].inStep => cl[c].pc = "crashed" \/ (cl[c].pc = "done" /\ c \in upset)
          BY <1>0, <1>1, <3>3, GonePhase
        <4>3. ASSUME cl[c].inStep PROVE Phase(c)'
          BY <3>1, <4>2, <4>3 DEF Phase, PhaseOf, ClosePhase, Becomes
        <4>4. Sound(c \in upset, toServer[c], toClient[c]) => Sound(c \in upset, toServer[c], toClient[c])'
          BY <3>1, <4>1 DEF Sound
        <4>5. Talks(c)'
          BY <1>2, <3>1, <4>1, <4>2, <4>3, <4>4 DEF Talks, Becomes
        <4> QED BY <1>0, <1>1, <3>1, <4>5, BecomesPInv
      <3> QED BY <3>2, <3>3
    <2>2. CASE WriteWaits(id, c)
      <3>1. UNCHANGED <<net, arrays, main, ch, recvMutex, cl>>
        BY <2>2 DEF WriteWaits
      <3> QED BY <3>1, StutterPInv
    <2>3. CASE WriteFails(id, c, main, [ch EXCEPT ![id] = y])
      <3>1. Becomes(id, y) /\ gone[c] # "no" /\ UNCHANGED net
        BY <1>5, <2>3 DEF WriteFails, Becomes, net
      <3>2. cl[c].inStep => cl[c].pc = "crashed" \/ (cl[c].pc = "done" /\ c \in upset)
        BY <1>0, <1>1, <3>1, GonePhase
      <3>3. ASSUME cl[c].inStep PROVE Phase(c)'
        BY <3>1, <3>2, <3>3 DEF Phase, PhaseOf, ClosePhase, Becomes
      <3>4. Sound(c \in upset, toServer[c], toClient[c]) => Sound(c \in upset, toServer[c], toClient[c])'
        BY <3>1 DEF Sound, net
      <3>5. Talks(c)'
        BY <1>2, <3>1, <3>2, <3>3, <3>4 DEF Talks, Becomes, net
      <3> QED BY <1>0, <1>1, <3>1, <3>5, BecomesPInv
    <2>4. CASE WriteKills(id, c)
      <3>1. Dies("sigpipe") /\ gone[c] # "no"
        BY <2>4 DEF WriteKills
      <3>2. cl[c].pc = "crashed" \/ c \in upset
        BY <1>0, <1>1, <3>1, GonePhase
      <3>3. Deaths'
        BY <1>0, <3>1, <3>2 DEF Deaths, Dies
      <3> QED BY <1>0, <3>1, <3>3, DiesPInv
    <2> QED BY <1>5, <2>1, <2>2, <2>3, <2>4 DEF send_msg
  <1> QED BY <1>3, <1>4, <1>5, ThreadStepEffect DEF Shapes

(* The select loop.                                                        *)

\* A client of which a phase says nothing.
Loose(u, s) ==
    /\ s.pc \notin {"connect", "syn", "bye", "ack", "again", "ready", "gather", "rts", "answer", "fin", "finack"}
    /\ s.pc \in {"close", "done"} => u

\* A client of which the exchange asks nothing.
LEMMA LoosePhase ==
    ASSUME NEW u, NEW s, Loose(u, s), NEW me, NEW q, NEW r, NEW cs, NEW x, NEW n, NEW b
    PROVE  PhaseOf(me, u, s, q, r, cs, x, n, b)
  BY DEF Loose, PhaseOf, ClosePhase

\* A damaged request is answered by an apology, or was dropped.
LEMMA DamagedHead ==
    ASSUME NEW me, NEW u, NEW s, NEW q, NEW r, NEW cs, NEW x, NEW n, NEW b, NEW b2,
           PhaseOf(me, u, s, q, r, cs, x, n, b), Mails(q), q # << >>, u, b.pc = "none",
           b2.pc = "none" \/ (b2.pc = "send" /\ b2.answer.type = "RTS")
    PROVE  PhaseOf(me, u, s, Tail(q), r, cs, x, n, b2)
  <1>1. /\ Len(Tail(q)) = Len(q) - 1 /\ Len(q) \in Nat /\ Len(q) # 0 /\ Mails(Tail(q))
        /\ Len(Tail(q)) = 0 => Tail(q) = << >>
        /\ Len(q) = 2 => Tail(q)[1] = q[2]
    BY TailSeq, TailMails DEF Mails, IsSeq
  <1> DEFINE p == Tail(q)
  <1>0. /\ Len(p) = Len(q) - 1 /\ Len(q) \in Nat /\ (Len(p) = 0 => p = << >>)
        /\ Len(q) = 2 => p[1] = q[2]
    BY <1>1
  <1> HIDE DEF p
  <1>2. Len(q) = 1 => p = << >>
    BY <1>0
  <1>3. Len(q) = 2 => Len(p) = 1 /\ p[1] = q[2]
    BY <1>0
  <1>4. s.pc \notin {"connect", "syn", "bye", "again", "ready", "rts"}
    BY DEF PhaseOf, SynPhase, AgainPhase, ReadyPhase, RtsPhase, Idle
  <1>5. ASSUME s.pc = "ack" PROVE AckPhase(me, u, p, r, cs, x, n, b2)
    <2>1. Fresh(me, cs, x, n) /\ Len(q) = 1 /\ r = << >>
      BY <1>5 DEF PhaseOf, AckPhase, Idle, DeadEnd
    <2> QED BY <1>2, <2>1 DEF AckPhase, DeadEnd
  <1>6. ASSUME s.pc = "gather" PROVE GatherPhase(me, u, s, p, r, cs, x, n, b2)
    <2>1. /\ Joined(me, s, cs, x, n) /\ Calm(x, n) /\ n # 0 /\ s.got \in 0 .. n /\ s.missing \subseteq 1 .. s.got
          /\ Len(q) = 1 /\ r = << >> /\ ~x.ready
      BY <1>6 DEF PhaseOf, GatherPhase, Idle, DeadEnd
    <2> QED BY <1>2, <2>1 DEF GatherPhase, DeadEnd
  <1>7. ASSUME s.pc = "answer" PROVE AnswerPhase(me, u, s, p, r, cs, x, n, b2)
    <2>1. /\ Joined(me, s, cs, x, n) /\ s.missing # {} /\ s.missing \subseteq 1 .. n + 1
          /\ Len(q) = 1 /\ r = << >> /\ Quiet(x, n)
      BY <1>7 DEF PhaseOf, AnswerPhase, Idle, DeadEnd
    <2> QED BY <1>2, <2>1 DEF AnswerPhase, DeadEnd
  <1>8. ASSUME s.pc = "fin" PROVE FinPhase(me, u, s, p, r, cs, x, n, b2)
    <2>1. Joined(me, s, cs, x, n) /\ Calm(x, n) /\ NoFin(r) /\ Len(q) = 1
      BY <1>8 DEF PhaseOf, FinPhase
    <2> QED BY <1>2, <2>1 DEF FinPhase, Apologises
  <1>9. ASSUME s.pc = "finack" PROVE FinackPhase(me, u, s, p, r, cs, x, n, b2)
    <2>1. /\ Joined(me, s, cs, x, n) /\ Calm(x, n) /\ NoFin(r)
          /\ Len(q) \in {1, 2} /\ Asked(q[Len(q)], me, cs[1], {"FIN"})
      BY <1>9 DEF PhaseOf, FinackPhase, Idle
    <2>2. CASE Len(q) = 1
      BY <1>2, <2>1, <2>2 DEF FinackPhase, Apologises, Joined
    <2>3. CASE Len(q) = 2
      <3>1. Len(p) = 1 /\ p[Len(p)] = q[2]
        BY <1>3, <2>3
      <3>2. Asked(p[Len(p)], me, cs[1], {"FIN"})
        BY <2>1, <2>3, <3>1
      <3> QED BY <2>1, <3>1, <3>2 DEF FinackPhase, Apologises
    <2> QED BY <2>1, <2>2, <2>3
  <1>10. ClosePhase(u, p, r, cs, b2)
    BY DEF ClosePhase
  <1>11. PhaseOf(me, u, s, p, r, cs, x, n, b2)
    BY <1>4, <1>5, <1>6, <1>7, <1>8, <1>9, <1>10, Zenon DEF PhaseOf
  <1> QED BY <1>11 DEF p

\* The request that the server reads, if it is intact.
Control1(m, me, id, type) == m.send = me /\ m.recv = id /\ m.chan = "CONTROL" /\ m.type = type

\* The intact message that the select loop takes, by the state of the client.
LEMMA HeadKinds ==
    ASSUME NEW me, NEW u, NEW s, NEW q, NEW r, NEW cs, NEW x, NEW n, NEW b,
           PhaseOf(me, u, s, q, r, cs, x, n, b), Mails(q), q # << >>, q[1].intact, b.pc = "none"
    PROVE  \/ /\ s.pc = "ack" /\ (Control1(q[1], me, 0, "SYN") \/ Control1(q[1], me, 0, "RTS"))
              /\ q[1].seg = MAX_SIZE /\ Fresh(me, cs, x, n) /\ Tail(q) = << >> /\ r = << >>
           \/ /\ s.pc \in {"gather", "fin", "finack"} /\ Control1(q[1], me, cs[1], "SYN")
              /\ Joined(me, s, cs, x, n)
           \/ /\ s.pc = "answer" /\ Control1(q[1], me, cs[1], "RTS") /\ q[1].seg = Min(s.missing)
              /\ Joined(me, s, cs, x, n)
           \/ s.pc = "finack" /\ Len(q) = 1 /\ Control1(q[1], me, cs[1], "FIN") /\ Joined(me, s, cs, x, n)
           \/ s.pc \in {"close", "done"} /\ ~u /\ Control1(q[1], 0, 0, "FIN") /\ Len(q) = 1
           \/ Loose(u, s)
  <1>1. /\ Len(Tail(q)) = Len(q) - 1 /\ Len(q) \in Nat /\ Len(q) # 0 /\ Mails(Tail(q))
        /\ Len(Tail(q)) = 0 => Tail(q) = << >>
    BY TailSeq, TailMails DEF Mails, IsSeq
  <1>4. s.pc \notin {"connect", "syn", "bye", "again", "ready", "rts"}
    BY DEF PhaseOf, SynPhase, AgainPhase, ReadyPhase, RtsPhase, Idle
  <1>5. CASE s.pc = "ack"
    <2>1. Fresh(me, cs, x, n) /\ Len(q) = 1 /\ r = << >> /\ Asked(q[1], me, 0, {"SYN", "RTS"}) /\ q[1].seg = MAX_SIZE
      BY <1>5 DEF PhaseOf, AckPhase, Idle, DeadEnd
    <2>2. Tail(q) = << >>
      BY <1>1, <2>1
    <2> QED BY <1>5, <2>1, <2>2 DEF Asked, Control1
  <1>6. CASE s.pc = "gather"
    BY <1>6 DEF PhaseOf, GatherPhase, Idle, DeadEnd, Asked, Control1
  <1>7. CASE s.pc = "answer"
    BY <1>7 DEF PhaseOf, AnswerPhase, Idle, DeadEnd, Asked, Control1
  <1>8. CASE s.pc = "fin"
    BY <1>8 DEF PhaseOf, FinPhase, Idle, Asked, Control1
  <1>9. CASE s.pc = "finack"
    BY <1>9 DEF PhaseOf, FinackPhase, Idle, Asked, Control1
  <1>10. CASE s.pc \in {"close", "done"} /\ ~u
    <2>1. ClosePhase(u, q, r, cs, b)
      BY <1>10 DEF PhaseOf
    <2>2. Len(q) = 1 /\ Asked(q[1], 0, 0, {"FIN"})
      BY <1>10, <2>1 DEF ClosePhase
    <2> QED BY <1>10, <2>2 DEF Asked, Control1
  <1> QED BY <1>4, <1>5, <1>6, <1>7, <1>8, <1>9, <1>10 DEF Loose

\* Positions in the rest of a queue of one or two requests.
LEMMA ShortTail ==
    ASSUME NEW q, Mails(q), q # << >>
    PROVE  /\ Len(q) = 1 => Tail(q) = << >>
           /\ Len(q) = 2 => Len(Tail(q)) = 1 /\ Tail(q)[1] = q[2]
           /\ Len(q) \in Nat /\ Len(q) # 0
  <1>1. /\ Len(Tail(q)) = Len(q) - 1 /\ Len(q) \in Nat /\ Len(q) # 0 /\ Mails(Tail(q))
        /\ Len(Tail(q)) = 0 => Tail(q) = << >>
        /\ Len(q) = 2 => Tail(q)[1] = q[2]
    BY TailSeq, TailMails DEF Mails, IsSeq
  <1> DEFINE p == Tail(q)
  <1>0. /\ Len(p) = Len(q) - 1 /\ Len(q) \in Nat /\ (Len(p) = 0 => p = << >>) /\ Len(q) # 0
        /\ Len(q) = 2 => p[1] = q[2]
    BY <1>1
  <1> HIDE DEF p
  <1>2. Len(q) = 1 => p = << >>
    BY <1>0
  <1>3. Len(q) = 2 => Len(p) = 1 /\ p[1] = q[2]
    BY <1>0
  <1> QED BY <1>0, <1>2, <1>3 DEF p

\* A thread is told to start.
LEMMA ReadyCalm ==
    ASSUME NEW x, NEW y, NEW n, DOMAIN x = ThreadFields, y = [x EXCEPT !.ready = TRUE], Calm(x, n)
    PROVE  Calm(y, n) /\ y.ready /\ y.next = x.next /\ (~x.ready => y.next = 1) /\ y.other = x.other
  BY DEF Calm, ThreadFields

\* The client's READY is taken (server.c:222-227).
LEMMA ReadiesPhase ==
    ASSUME NEW me, NEW u, NEW s, NEW q, NEW r, NEW cs, NEW x, NEW n, NEW b, NEW b2, NEW y,
           PhaseOf(me, u, s, q, r, cs, x, n, b), Mails(q), q # << >>, q[1].intact, b.pc = "none", b2.pc = "none",
           s.pc \in {"gather", "fin", "finack"}, Control1(q[1], me, cs[1], "SYN"),
           DOMAIN x = ThreadFields, y = [x EXCEPT !.ready = TRUE]
    PROVE  PhaseOf(me, u, s, Tail(q), r, cs, y, n, b2)
  <1> DEFINE p == Tail(q)
  <1>1. (Len(q) = 1 => p = << >>) /\ (Len(q) = 2 => Len(p) = 1 /\ p[1] = q[2]) /\ Len(q) \in Nat /\ Len(q) # 0
    BY ShortTail
  <1> HIDE DEF p
  <1>2. q[1].type = "SYN" /\ "SYN" # "FIN"
    BY DEF Control1
  <1>3. CASE s.pc = "gather"
    <2>1. /\ Joined(me, s, cs, x, n) /\ Calm(x, n) /\ n # 0 /\ s.got \in 0 .. n /\ s.missing \subseteq 1 .. s.got
          /\ Len(q) = 1 /\ r = << >> /\ ~x.ready /\ s.got = 0
      BY <1>3 DEF PhaseOf, GatherPhase, Idle, DeadEnd
    <2>2. Calm(y, n) /\ y.ready /\ y.next = 1 /\ Joined(me, s, cs, y, n)
      BY <2>1, ReadyCalm DEF Joined, Own
    <2>3. DOMAIN r = {} /\ Len(r) = 0 /\ 0 = y.next - 1 - s.got
      BY <2>1, <2>2
    <2>4. GatherPhase(me, u, s, p, r, cs, y, n, b2)
      BY <1>1, <2>1, <2>2, <2>3 DEF GatherPhase, Idle
    <2> QED BY <1>3, <2>4 DEF PhaseOf, p
  <1>4. CASE s.pc = "fin"
    <2>1. Joined(me, s, cs, x, n) /\ Calm(x, n) /\ NoFin(r) /\ Len(q) = 1 /\ u
      BY <1>4 DEF PhaseOf, FinPhase, Idle
    <2>2. Calm(y, n) /\ Joined(me, s, cs, y, n)
      BY <2>1, ReadyCalm DEF Joined, Own
    <2>3. FinPhase(me, u, s, p, r, cs, y, n, b2)
      BY <1>1, <2>1, <2>2 DEF FinPhase, Apologises
    <2> QED BY <1>4, <2>3 DEF PhaseOf, p
  <1>5. CASE s.pc = "finack"
    <2>1. /\ Joined(me, s, cs, x, n) /\ Calm(x, n) /\ NoFin(r) /\ Len(q) \in {1, 2} /\ Asked(q[Len(q)], me, cs[1], {"FIN"})
          /\ (~u => Len(q) = 1)
      BY <1>5 DEF PhaseOf, FinackPhase, Idle
    <2>2. Len(q) = 2 /\ u
      BY <1>2, <2>1 DEF Asked
    <2>3. Calm(y, n) /\ Joined(me, s, cs, y, n)
      BY <2>1, ReadyCalm DEF Joined, Own
    <2>4. Len(p) = 1 /\ Asked(p[1], me, cs[1], {"FIN"})
      BY <1>1, <2>1, <2>2
    <2>5. FinackPhase(me, u, s, p, r, cs, y, n, b2)
      BY <2>1, <2>2, <2>3, <2>4 DEF FinackPhase, Apologises
    <2> QED BY <1>5, <2>5 DEF PhaseOf, p
  <1> QED BY <1>3, <1>4, <1>5

\* A request for a segment is put where the thread finds it.
LEMMA AsksPhase ==
    ASSUME NEW me, NEW u, NEW s, NEW q, NEW r, NEW cs, NEW x, NEW n, NEW b, NEW b2, NEW y, NEW v,
           PhaseOf(me, u, s, q, r, cs, x, n, b), Mails(q), q # << >>, q[1].intact, b.pc = "none",
           b2.pc = "flag", b2.at = cs[1],
           s.pc = "answer", DOMAIN x = ThreadFields,
           y = [x EXCEPT !.value = v, !.clobbered = @ \/ x.data], v.seg = q[1].seg
    PROVE  PhaseOf(me, u, s, Tail(q), r, cs, y, n, b2)
  <1>1. Len(q) = 1 => Tail(q) = << >>
    BY ShortTail
  <1>2. /\ Joined(me, s, cs, x, n) /\ s.missing # {} /\ s.missing \subseteq 1 .. n + 1
        /\ Len(q) = 1 /\ r = << >> /\ Quiet(x, n) /\ q[1].seg = Min(s.missing)
    BY DEF PhaseOf, AnswerPhase, Idle, DeadEnd
  <1>3. /\ y.kill = x.kill /\ y.data = x.data /\ y.again = x.again /\ y.pc = x.pc /\ y.next = x.next
        /\ y.finished = x.finished /\ y.ready = x.ready /\ y.other = x.other /\ y.value = v
    BY DEF ThreadFields
  <1>4. Quiet(y, n) /\ Joined(me, s, cs, y, n) /\ y.value.seg = Min(s.missing)
    BY <1>2, <1>3 DEF Quiet, Calm, Joined, Own
  <1>5. AnswerPhase(me, u, s, Tail(q), r, cs, y, n, b2)
    BY <1>1, <1>2, <1>4 DEF AnswerPhase
  <1> QED BY <1>5 DEF PhaseOf

\* The flag is set.
LEMMA FlagPhase ==
    ASSUME NEW me, NEW u, NEW s, NEW q, NEW r, NEW cs, NEW x, NEW n, NEW b, NEW b2, NEW y,
           PhaseOf(me, u, s, q, r, cs, x, n, b), b.pc = "flag", b2.pc = "none",
           DOMAIN x = ThreadFields, y = [x EXCEPT !.data = TRUE]
    PROVE  Loose(u, s) \/ (b.at = cs[1] /\ Len(cs) = 1 /\ PhaseOf(me, u, s, q, r, cs, y, n, b2))
  <1>1. s.pc \notin {"connect", "syn", "bye", "ack", "again", "ready", "gather", "rts", "fin", "finack"}
    BY DEF PhaseOf, SynPhase, AckPhase, AgainPhase, ReadyPhase, GatherPhase, RtsPhase, FinPhase, FinackPhase,
           Idle, DeadEnd, Apologises
  <1>2. s.pc \in {"close", "done"} => u
    BY DEF PhaseOf, ClosePhase
  <1>3. CASE s.pc = "answer"
    <2>1. /\ Joined(me, s, cs, x, n) /\ s.missing # {} /\ s.missing \subseteq 1 .. n + 1
          /\ q = << >> /\ b.at = cs[1] /\ r = << >> /\ Quiet(x, n) /\ x.value.seg = Min(s.missing)
      BY <1>3 DEF PhaseOf, AnswerPhase, Idle, DeadEnd
    <2>2. /\ y.kill = x.kill /\ y.data = TRUE /\ y.again = x.again /\ y.pc = x.pc /\ y.next = x.next
          /\ y.finished = x.finished /\ y.ready = x.ready /\ y.other = x.other /\ y.value = x.value
      BY DEF ThreadFields
    <2>3. Serving(y, n, Min(s.missing))
      <3>1. n \in Nat /\ n + 2 # 1
        BY <2>1 DEF Joined, Own
      <3> QED BY <2>1, <2>2, <3>1 DEF Serving, Quiet, Calm
    <2>4. AnswerPhase(me, u, s, q, r, cs, y, n, b2) /\ Len(cs) = 1
      BY <2>1, <2>2, <2>3 DEF AnswerPhase, Idle, Joined, Own
    <2> QED BY <1>3, <2>1, <2>4 DEF PhaseOf
  <1> QED BY <1>1, <1>2, <1>3 DEF Loose

\* end_channel begins.
LEMMA FinishPhase ==
    ASSUME NEW me, NEW u, NEW s, NEW q, NEW r, NEW cs, NEW x, NEW n, NEW b, NEW b2, NEW y,
           PhaseOf(me, u, s, q, r, cs, x, n, b), Mails(q), q # << >>, q[1].intact, b.pc = "none",
           s.pc = "finack", Len(q) = 1, DOMAIN x = ThreadFields, y = [x EXCEPT !.kill = TRUE],
           b2.pc = "join", b2.at = cs[1], b2.answer # Null, IsFin(b2.answer, me)
    PROVE  PhaseOf(me, u, s, Tail(q), r, cs, y, n, b2)
  <1>1. Tail(q) = << >>
    BY ShortTail
  <1>2. /\ Joined(me, s, cs, x, n) /\ Calm(x, n) /\ NoFin(r)
        /\ (~u => r = << >> /\ Quiet(x, n))
    BY DEF PhaseOf, FinackPhase, Idle
  <1>3. /\ y.data = x.data /\ y.again = x.again /\ y.pc = x.pc /\ y.next = x.next /\ y.finished = x.finished
    BY DEF ThreadFields
  <1>4. Ending(y, n) /\ (~u => y.next = n + 2)
    BY <1>2, <1>3 DEF Ending, Calm, Quiet
  <1>5. Len(cs) = 1 /\ n \in Nat
    BY <1>2 DEF Joined, Own
  <1>6. FinackPhase(me, u, s, Tail(q), r, cs, y, n, b2)
    BY <1>1, <1>2, <1>4, <1>5 DEF FinackPhase
  <1> QED BY <1>6 DEF PhaseOf

\* The connection is to be ended.
LEMMA DisconnectPhase ==
    ASSUME NEW me, NEW u, NEW s, NEW q, NEW r, NEW cs, NEW x, NEW n, NEW b, NEW b2,
           PhaseOf(me, u, s, q, r, cs, x, n, b), Mails(q), q # << >>, b.pc = "none", b2.pc = "endconn",
           s.pc \in {"close", "done"}, Len(q) = 1
    PROVE  PhaseOf(me, u, s, Tail(q), r, cs, x, n, b2)
  <1>1. Tail(q) = << >>
    BY ShortTail
  <1>2. ClosePhase(u, q, r, cs, b)
    BY DEF PhaseOf
  <1>3. ClosePhase(u, Tail(q), r, cs, b2)
    BY <1>1, <1>2 DEF ClosePhase
  <1> QED BY <1>3 DEF PhaseOf

\* The answer to a first request.
LEMMA OpenPhase ==
    ASSUME NEW me, NEW u, NEW s, NEW cs, NEW x, NEW n, NEW b, s.pc = "ack", Fresh(me, cs, x, n),
           b.pc = "send", Opened(b.answer, me, cs, n)
    PROVE  PhaseOf(me, u, s, << >>, << >>, cs, x, n, b)
  BY DEF PhaseOf, AckPhase

\* The stream of a client that has gone ends.
LEMMA EofPhase ==
    ASSUME NEW me, NEW u, NEW s, NEW q, NEW r, NEW cs, NEW x, NEW n, NEW b, NEW b2,
           PhaseOf(me, u, s, q, r, cs, x, n, b), s.pc \in {"done", "crashed"}, b2.pc \in {"none", "endconn"}
    PROVE  PhaseOf(me, u, s, q, r, cs, x, n, b2)
  BY DEF PhaseOf, ClosePhase

\* An answer is sent.
LEMMA ReplyPhase ==
    ASSUME NEW me, NEW u, NEW s, NEW q, NEW r, NEW cs, NEW x, NEW n, NEW b, NEW b2,
           PhaseOf(me, u, s, q, r, cs, x, n, b), Mails(r), b.pc = "send", b2.pc = "none"
    PROVE  PhaseOf(me, u, s, q, Append(r, b.answer), cs, x, n, b2)
  <1> DEFINE p == Append(r, b.answer)
  <1>1. /\ Len(r) \in Nat /\ Len(p) = Len(r) + 1 /\ p[Len(r) + 1] = b.answer /\ DOMAIN p = DOMAIN r \cup {Len(r) + 1}
        /\ DOMAIN r = 1 .. Len(r) /\ \A i \in DOMAIN r : p[i] = r[i]
        /\ r = << >> => Len(r) = 0
    BY AppendSeq DEF Mails
  <1> HIDE DEF p
  <1>2. r = << >> => Len(p) = 1 /\ p[1] = b.answer
    BY <1>1
  <1>3. NoFin(r) /\ b.answer.type = "RTS" => NoFin(p)
    BY <1>1 DEF NoFin
  <1>4. Idle(q, b2) <=> q = << >>
    BY DEF Idle
  <1>5. DeadEnd(u, q, r, b) => DeadEnd(u, q, p, b2)
    BY <1>2 DEF DeadEnd
  <1>6. s.pc \notin {"connect", "syn", "bye", "again", "ready", "rts"}
    BY DEF PhaseOf, SynPhase, AgainPhase, ReadyPhase, RtsPhase, Idle
  <1>7. ASSUME s.pc = "ack" PROVE AckPhase(me, u, q, p, cs, x, n, b2)
    BY <1>2, <1>4, <1>5, <1>7 DEF PhaseOf, AckPhase, Idle
  <1>8. ASSUME s.pc = "gather" PROVE GatherPhase(me, u, s, q, p, cs, x, n, b2)
    BY <1>5, <1>8 DEF PhaseOf, GatherPhase, Idle
  <1>9. ASSUME s.pc = "answer" PROVE AnswerPhase(me, u, s, q, p, cs, x, n, b2)
    BY <1>5, <1>9 DEF PhaseOf, AnswerPhase, Idle
  <1>10. ASSUME s.pc = "fin" PROVE FinPhase(me, u, s, q, p, cs, x, n, b2)
    BY <1>3, <1>10 DEF PhaseOf, FinPhase, Idle, Apologises
  <1>11. ASSUME s.pc = "finack" PROVE FinackPhase(me, u, s, q, p, cs, x, n, b2)
    <2>0. FinackPhase(me, u, s, q, r, cs, x, n, b)
      BY <1>11 DEF PhaseOf
    <2>1. CASE b.answer.type = "RTS"
      <3>1. ~IsFin(b.answer, me)
        BY <2>1 DEF IsFin
      <3>2. NoFin(r) /\ u
        BY <2>0, <3>1 DEF FinackPhase, Idle
      <3> QED BY <1>3, <2>0, <2>1, <3>1, <3>2 DEF FinackPhase, Apologises, Idle
    <2>2. CASE b.answer.type # "RTS"
      <3>1. q = << >> /\ IsFin(b.answer, me) /\ cs = << >> /\ NoFin(r) /\ (~u => r = << >>)
        BY <2>0, <2>2 DEF FinackPhase, Apologises, Idle
      <3>2. p # << >> /\ p[Len(p)] = b.answer /\ \A k \in 1 .. Len(p) - 1 : p[k].type # "FIN"
        <4>1. \A k \in 1 .. Len(p) - 1 : k \in DOMAIN r
          BY <1>1
        <4>2. DOMAIN p # {}
          BY <1>1
        <4>3. p # << >>
          BY <4>2
        <4> QED BY <1>1, <3>1, <4>1, <4>3 DEF NoFin
      <3> QED BY <1>2, <1>4, <3>1, <3>2 DEF FinackPhase
    <2> QED BY <2>1, <2>2
  <1>12. ASSUME s.pc \in {"close", "done"} PROVE ClosePhase(u, q, p, cs, b2)
    BY <1>12 DEF PhaseOf, ClosePhase
  <1>13. PhaseOf(me, u, s, q, p, cs, x, n, b2)
    BY <1>6, <1>7, <1>8, <1>9, <1>10, <1>11, <1>12, Zenon DEF PhaseOf
  <1> QED BY <1>13 DEF p

\* An answer to a client that has gone.
LEMMA GoneReply ==
    ASSUME NEW me, NEW u, NEW s, NEW q, NEW r, NEW cs, NEW x, NEW n, NEW b,
           PhaseOf(me, u, s, q, r, cs, x, n, b), b.pc = "send", s.pc \in {"done", "crashed"}
    PROVE  Loose(u, s)
  BY DEF PhaseOf, ClosePhase, Loose

\* A channel has been ended.
LEMMA JoinPhase ==
    ASSUME NEW me, NEW u, NEW s, NEW q, NEW r, NEW cs, NEW x, NEW n, NEW b,
           PhaseOf(me, u, s, q, r, cs, x, n, b), b.pc = "join"
    PROVE  \/ Loose(u, s)
           \/ /\ Len(cs) = 1 /\ b.at = cs[1] /\ b.answer # Null
              /\ \A x2, n2, b2 : b2.pc = "send" /\ b2.answer = b.answer => PhaseOf(me, u, s, q, r, << >>, x2, n2, b2)
  <1>1. s.pc \notin {"connect", "syn", "bye", "ack", "again", "ready", "gather", "rts", "answer", "fin"}
    BY DEF PhaseOf, SynPhase, AckPhase, AgainPhase, ReadyPhase, GatherPhase, RtsPhase, AnswerPhase, FinPhase,
           Idle, DeadEnd, Apologises
  <1>2. s.pc \in {"close", "done"} => u
    BY DEF PhaseOf, ClosePhase
  <1>3. CASE s.pc = "finack"
    <2>1. /\ q = << >> /\ Len(cs) = 1 /\ b.at = cs[1] /\ b.answer # Null
          /\ IsFin(b.answer, me) /\ NoFin(r) /\ (~u => r = << >>)
      BY <1>3 DEF PhaseOf, FinackPhase, Idle, Apologises
    <2>2. ASSUME NEW x2, NEW n2, NEW b2, b2.pc = "send", b2.answer = b.answer
          PROVE  PhaseOf(me, u, s, q, r, << >>, x2, n2, b2)
      BY <1>3, <2>1, <2>2 DEF PhaseOf, FinackPhase
    <2> QED BY <2>1, <2>2
  <1> QED BY <1>1, <1>2, <1>3 DEF Loose

\* A connection is ended.
LEMMA EndPhase ==
    ASSUME NEW me, NEW u, NEW s, NEW q, NEW r, NEW cs, NEW x, NEW n, NEW b,
           PhaseOf(me, u, s, q, r, cs, x, n, b), b.pc = "endconn"
    PROVE  \/ Loose(u, s)
           \/ /\ s.pc \in {"close", "done"} /\ cs = << >>
              /\ \A x2, n2, b2 : b2.pc = "none" => PhaseOf(me, u, s, q, r, cs, x2, n2, b2)
  <1>1. s.pc \notin {"connect", "syn", "bye", "ack", "again", "ready", "gather", "rts", "answer", "fin", "finack"}
    BY DEF PhaseOf, SynPhase, AckPhase, AgainPhase, ReadyPhase, GatherPhase, RtsPhase, AnswerPhase, FinPhase, FinackPhase,
           Idle, DeadEnd, Apologises
  <1>2. CASE s.pc \in {"close", "done"} /\ ~u
    <2>1. ClosePhase(u, q, r, cs, b)
      BY <1>2 DEF PhaseOf
    <2>2. cs = << >>
      BY <1>2, <2>1 DEF ClosePhase
    <2>3. ASSUME NEW x2, NEW n2, NEW b2, b2.pc = "none" PROVE PhaseOf(me, u, s, q, r, cs, x2, n2, b2)
      BY <1>2, <2>1, <2>3 DEF PhaseOf, ClosePhase
    <2> QED BY <1>2, <2>2, <2>3
  <1> QED BY <1>1, <1>2 DEF Loose

\* A step of the loop at the connection of client c leaves the others alone.
MainOnly(c) ==
    /\ UNCHANGED <<sc, server, upset, cl>>
    /\ \A d \in Clients \ {c} :
          /\ toServer'[d] = toServer[d] /\ toClient'[d] = toClient[d]
          /\ gone'[d] = gone[d] /\ shut'[d] = shut[d] /\ chans'[d] = chans[d]
    /\ \A id \in DOMAIN ch : id \in DOMAIN ch' /\ ch'[id].conn = ch[id].conn /\ (ch[id].conn # c => ch'[id] = ch[id])
    /\ \A id \in DOMAIN ch' : id \notin DOMAIN ch => ch'[id].conn = c
    /\ main'.pc \in {"select", "recv"} \/ conn' = c

\* The select loop works for one client: the others are not concerned.
LEMMA OthersSame ==
    ASSUME IInv, NEW c \in Clients, main.pc \in {"select", "recv"} \/ conn = c, MainOnly(c),
           NEW d \in Clients, d # c, Talks(d), Handed(d)
    PROVE  Talks(d)' /\ Handed(d)'
  <1>1. Work(d) = NoWork /\ Work(d)' = NoWork
    BY DEF Work, MainOnly
  <1>2. chans[d] \in Seq(Nat) /\ \A id \in ToSet(chans[d]) : id \in DOMAIN ch /\ ch[id].conn = d
    BY DEF IInv, Types, Arrays
  <1>3. Mine(d)' = Mine(d)
    <2>1. CASE chans[d] = << >>
      BY <2>1 DEF Mine, MainOnly
    <2>2. CASE chans[d] # << >>
      <3>1. chans[d][1] \in ToSet(chans[d])
        BY <1>2, <2>2 DEF ToSet
      <3> QED BY <1>2, <2>2, <3>1 DEF Mine, MainOnly
    <2> QED BY <2>1, <2>2
  <1>4. Same(d)
    BY <1>1, <1>3 DEF Same, MainOnly
  <1>5. Handed(d)'
    <2>1. AsksIn(toServer[d])' = AsksIn(toServer[d]) /\ ToSet(chans[d])' = ToSet(chans[d]) /\ cl'[d] = cl[d]
      BY DEF AsksIn, MainOnly, ToSet
    <2>2. \A id \in DOMAIN ch' : ch'[id].conn = d => id \in DOMAIN ch /\ ch[id].conn = d /\ ch'[id] = ch[id]
      BY DEF MainOnly
    <2>3. \A id \in DOMAIN ch' : ch'[id].conn = d /\ Relayed(ch[id]) => Relayed(ch[id])'
      BY <2>2 DEF Relayed
    <2>4. \A id \in ToSet(chans[d]) : ch'[id] = ch[id]
      BY <1>2 DEF MainOnly
    <2>5. ~(main'.pc = "flag" /\ conn' = d) /\ Work(d)'.pc # "flag"
      BY <1>1 DEF MainOnly, NoWork
    <2> QED BY <2>1, <2>2, <2>3, <2>4, <2>5 DEF Handed
  <1> QED BY <1>4, <1>5, SameTalks

\* It is enough to look at that client.
LEMMA MainPInv ==
    ASSUME IInv, PInv, server = "up", NEW c \in Clients, main.pc \in {"select", "recv"} \/ conn = c, MainOnly(c),
           Talks(c)', Handed(c)', StubInv'
    PROVE  PInv'
  <1>1. \A d \in Clients : Talks(d)' /\ Handed(d)'
    BY OthersSame DEF PInv
  <1>2. \A d \in Clients : d \notin upset' => cl'[d].inStep
    BY DEF PInv, MainOnly
  <1>3. Deaths'
    BY DEF Deaths, MainOnly
  <1> QED BY <1>1, <1>2, <1>3 DEF PInv

\* What the loop is doing for client c.
LEMMA WorkHere ==
    ASSUME NEW c, conn' = c, main'.pc \in {"send", "flag", "join", "endconn"}
    PROVE  Work(c)' = [pc |-> main'.pc, answer |-> main'.answer, at |-> main'.at]
  BY DEF Work

\* The select loop has no work in hand.
LEMMA WorkNone ==
    ASSUME NEW c, main'.pc \in {"select", "recv"}
    PROVE  Work(c)' = NoWork /\ Work(c)'.pc = "none"
  BY DEF Work, NoWork

\* It stays with the connection.
LEMMA ConnKept == ASSUME UNCHANGED conns, main'.i = main.i PROVE conn' = conn
  BY DEF conn

\* How the phase of client c reads after a step of the loop.
LEMMA MainPhase ==
    ASSUME NEW c \in Clients, UNCHANGED <<sc, cl, upset>>, chans'[c] = chans[c],
           chans[c] # << >> => ch'[chans[c][1]].handle = ch[chans[c][1]].handle /\ ch'[chans[c][1]].maxSize = ch[chans[c][1]].maxSize,
           PhaseOf(selfID(c), c \in upset, cl[c], toServer'[c], toClient'[c], chans[c], Mine(c)', Num(c), Work(c)')
    PROVE  Phase(c)'
  <1>1. UNCHANGED handles /\ selfID(c)' = selfID(c)
    BY DEF handles, selfID
  <1>2. Num(c)' = Num(c)
    BY <1>1 DEF Num, NumOf
  <1> QED BY <1>1, <1>2 DEF Phase

\* The exchange goes on when only its phase has changed.
LEMMA PhaseTalks ==
    ASSUME NEW c \in Clients, Talks(c), Steady(c), UNCHANGED <<sc, cl, upset, gone, shut>>, Phase(c)',
           Sound(c \in upset, toServer[c], toClient[c]) => Sound(c \in upset, toServer[c], toClient[c])'
    PROVE  Talks(c)'
  BY DEF Talks, Steady

\* Requests are handed over as before.
Gentle(c) ==
    /\ UNCHANGED cl /\ main'.pc # "flag"
    /\ \A id \in DOMAIN ch' : ch'[id].conn = c =>
          \/ /\ id \in DOMAIN ch /\ ch[id].conn = c
             /\ ch'[id].clobbered = ch[id].clobbered /\ ch'[id].data = ch[id].data
             /\ ch'[id].value = ch[id].value /\ ch'[id].pc = ch[id].pc
          \/ id \notin DOMAIN ch /\ Relayed(ch[id])' /\ ~ch'[id].data
    /\ \A id \in ToSet(chans'[c]) : id \in ToSet(chans[c]) \/ id \notin DOMAIN ch
    /\ \/ toServer'[c] = toServer[c] \/ toServer'[c] = << >>
       \/ toServer[c] # << >> /\ toServer'[c] = Tail(toServer[c])

\* The requests to send again that are left when a message is taken.
LEMMA AsksTail ==
    ASSUME NEW q, Mails(q), q # << >>
    PROVE  /\ AsksIn(Tail(q)) # {} => AsksIn(q) # {}
           /\ (\A i, j \in AsksIn(q) : i = j) => \A i, j \in AsksIn(Tail(q)) : i = j
           /\ 1 \in AsksIn(q) /\ (\A i, j \in AsksIn(q) : i = j) => AsksIn(Tail(q)) = {}
  <1>1. \A k \in DOMAIN Tail(q) : k \in Nat \ {0} /\ k + 1 \in DOMAIN q /\ Tail(q)[k] = q[k + 1]
    BY TailSeq DEF Mails
  <1>2. \A k \in AsksIn(Tail(q)) : k \in Nat \ {0} /\ k + 1 \in AsksIn(q)
    BY <1>1 DEF AsksIn
  <1>3. ASSUME \A i, j \in AsksIn(q) : i = j, NEW i \in AsksIn(Tail(q)), NEW j \in AsksIn(Tail(q)) PROVE i = j
    <2>1. i + 1 = j + 1 /\ i \in Nat /\ j \in Nat
      BY <1>2, <1>3
    <2> QED BY ONLY <2>1
  <1>4. ASSUME 1 \in AsksIn(q), \A i, j \in AsksIn(q) : i = j, NEW k \in AsksIn(Tail(q)) PROVE FALSE
    <2>1. k + 1 = 1 /\ k \in Nat \ {0}
      BY <1>2, <1>4
    <2> QED BY ONLY <2>1
  <1> QED BY <1>2, <1>3, <1>4

\* A step that sets no flag of a channel keeps what is handed over.
LEMMA GentleHanded ==
    ASSUME IInv', Shapes, NEW c \in Clients, Handed(c), Gentle(c)
    PROVE  Handed(c)'
  <1> SUFFICES ASSUME cl[c].inStep PROVE Handed(c)'
    BY DEF Handed, Gentle
  <1>1. \A id \in DOMAIN ch' : ch'[id].conn = c => Relayed(ch[id])'
    <2> SUFFICES ASSUME NEW id \in DOMAIN ch', ch'[id].conn = c PROVE Relayed(ch[id])'
      OBVIOUS
    <2>1. CASE id \in DOMAIN ch
      <3>1. Relayed(ch[id])
        BY <2>1 DEF Gentle, Handed
      <3> QED BY <2>1, <3>1 DEF Gentle, Relayed
    <2>2. CASE id \notin DOMAIN ch
      BY <2>2 DEF Gentle
    <2> QED BY <2>1, <2>2
  <1>2. ~(main'.pc = "flag") /\ Work(c)'.pc # "flag"
    BY DEF Gentle, Work, NoWork
  <1>3. AsksIn(toServer[c])' = AsksIn(toServer'[c])
    BY DEF AsksIn
  <1>4. ASSUME AsksIn(toServer'[c]) # {}
        PROVE  AsksIn(toServer[c]) # {} /\ \A i, j \in AsksIn(toServer'[c]) : i = j
    <2>1. CASE toServer'[c] = toServer[c]
      BY <1>4, <2>1 DEF Handed
    <2>2. CASE toServer[c] # << >> /\ toServer'[c] = Tail(toServer[c])
      <3>1. Mails(toServer[c])
        BY DEF Shapes, NetShapes
      <3> QED BY <1>4, <2>2, <3>1, AsksTail DEF Handed
    <2>3. CASE toServer'[c] = << >>
      BY <1>4, <2>3 DEF AsksIn
    <2> QED BY <2>1, <2>2, <2>3 DEF Gentle
  <1>5. ASSUME AsksIn(toServer[c]) # {} PROVE \A id \in ToSet(chans'[c]) : ~ch'[id].data
    <2> SUFFICES ASSUME NEW id \in ToSet(chans'[c]) PROVE ~ch'[id].data
      OBVIOUS
    <2>1. id \in DOMAIN ch' /\ ch'[id].conn = c
      BY DEF IInv, Arrays, ToSet
    <2>2. CASE id \in DOMAIN ch
      <3>1. id \in ToSet(chans[c])
        BY <2>2 DEF Gentle
      <3>2. ~ch[id].data
        BY <1>5, <3>1 DEF Handed
      <3> QED BY <2>1, <2>2, <3>2 DEF Gentle
    <2>3. CASE id \notin DOMAIN ch
      BY <2>1, <2>3 DEF Gentle
    <2> QED BY <2>2, <2>3
  <1>6. ToSet(chans[c])' = ToSet(chans'[c])
    BY DEF ToSet
  <1> QED BY <1>1, <1>2, <1>3, <1>4, <1>5, <1>6 DEF Handed

\* select, and new_connection (server.c:106-144).
LEMMA SelectPInv ==
    ASSUME IInv, IInv', Shapes, PInv, Select, UNCHANGED cl
    PROVE  PInv'
  <1>1. /\ UNCHANGED <<sc, server, toServer, toClient, gone, shut, upset, ch, chans>> /\ server = "up" /\ main.pc = "select"
        /\ main'.pc \in {"select", "recv"}
    BY LoopFields DEF Select, At, new_connection, arrays
  <1>2. \A d \in Clients : Same(d)
    BY <1>1 DEF Same, Mine, Work
  <1>3. \A d \in Clients : Gentle(d)
    BY <1>1 DEF Gentle
  <1>4. \A d \in Clients : Talks(d)' /\ Handed(d)'
    BY <1>2, <1>3, SameTalks, GentleHanded DEF PInv
  <1>5. StubInv' /\ Deaths'
    BY <1>1 DEF PInv, StubInv, Deaths
  <1> QED BY <1>1, <1>4, <1>5 DEF PInv

\* The first channel of a connection.
LEMMA FirstChannel ==
    ASSUME IInv, Shapes, NEW c \in Clients, chans[c] # << >>
    PROVE  /\ chans[c][1] \in ToSet(chans[c]) /\ chans[c][1] \in DOMAIN ch /\ Mine(c) = ch[chans[c][1]]
           /\ DOMAIN Mine(c) = ThreadFields /\ DOMAIN Mine(c).value = {"seg", "live"} /\ Mine(c).conn = c
           /\ Num(c) = NumOf(Mine(c)) /\ chans[c][1] \in Nat \ {0} /\ chans[c] \in Seq(Nat)
  <1>1. chans[c] \in Seq(Nat)
    BY DEF IInv, Types
  <1>2. chans[c][1] \in ToSet(chans[c])
    BY <1>1 DEF ToSet
  <1>3. chans[c][1] \in DOMAIN ch /\ ch[chans[c][1]].conn = c
    BY <1>2 DEF IInv, Arrays
  <1>4. \A k \in DOMAIN ch : k \in Nat \ {0}
    BY DEF IInv, Types, IsSeq
  <1> QED BY <1>1, <1>2, <1>3, <1>4 DEF Mine, Num, Shapes, ThreadShapes

\* chan->data is set (server.c:239).
LEMMA FlagPInv ==
    ASSUME IInv, IInv', Shapes, PInv, Flag, UNCHANGED cl
    PROVE  PInv'
  <1> SUFFICES ASSUME NEW c, c = conn, NEW id, id = main.at PROVE PInv'
    OBVIOUS
  <1> DEFINE y == [ch[id] EXCEPT !.data = TRUE]
  <1>1. /\ main.pc = "flag" /\ server = "up" /\ UNCHANGED <<net, arrays>> /\ main' = NextEntry
        /\ c \in Clients /\ id \in ToSet(chans[c])
    BY AtConn DEF Flag, At, IInv, AtConnection
  <1>2. id \in DOMAIN ch /\ DOMAIN ch[id] = ThreadFields /\ DOMAIN ch[id].value = {"seg", "live"} /\ ch[id].conn = c
    BY <1>1 DEF Shapes, ThreadShapes, IInv, Arrays
  <1>3. ch' = [ch EXCEPT ![id] = y]
    BY <1>2 DEF Flag
  <1>4. /\ y.conn = c /\ y.handle = ch[id].handle /\ y.maxSize = ch[id].maxSize /\ y.data = TRUE
        /\ y.value = ch[id].value /\ y.pc = ch[id].pc /\ y.clobbered = ch[id].clobbered
    BY <1>2 DEF ThreadFields
  <1>5. main'.pc \in {"select", "recv"} /\ Work(c)'.pc = "none" /\ Work(c).pc = "flag" /\ Work(c).at = id
    <2>1. main'.pc \in {"select", "recv"}
      BY <1>1, LoopFields DEF NextEntry
    <2> QED BY <1>1, <2>1, WorkNone DEF Work
  <1>6. ch'[id] = y /\ DOMAIN ch' = DOMAIN ch /\ \A k \in DOMAIN ch : k # id => ch'[k] = ch[k]
    BY <1>2, <1>3
  <1> HIDE DEF y
  <1>7. MainOnly(c)
    BY <1>1, <1>2, <1>4, <1>5, <1>6 DEF MainOnly, net, arrays
  <1>8. sc.receiver # "stub"
    BY <1>1 DEF PInv, StubInv
  <1>9. StubInv'
    BY <1>1, <1>8 DEF StubInv, net
  <1>10. Handed(c)'
    <2> SUFFICES ASSUME cl[c].inStep PROVE Handed(c)'
      BY DEF Handed
    <2>1. /\ ~ch[id].data /\ ch[id].value.live /\ AsksIn(toServer[c]) = {}
          /\ \A k \in DOMAIN ch : ch[k].conn = c => Relayed(ch[k])
      BY <1>1, <1>5 DEF PInv, Handed
    <2>2. Relayed(y)
      BY <1>2, <1>4, <2>1 DEF Relayed
    <2>3. \A k \in DOMAIN ch' : ch'[k].conn = c => Relayed(ch[k])'
      <3> SUFFICES ASSUME NEW k \in DOMAIN ch, ch'[k].conn = c PROVE Relayed(ch'[k])
        BY <1>6 DEF Relayed
      <3> QED BY <1>6, <2>1, <2>2
    <2>4. AsksIn(toServer[c])' = {}
      BY <1>1, <2>1 DEF AsksIn, net
    <2> QED BY <1>5, <2>3, <2>4 DEF Handed
  <1>11. Talks(c)'
    <2> SUFFICES ASSUME Steady(c) PROVE Talks(c)'
      BY <1>1 DEF Talks, Steady, net
    <2>0. Talks(c) /\ Phase(c)
      BY <1>1 DEF PInv, Talks, Steady
    <2>1. chans[c] # << >> /\ chans'[c] = chans[c]
      BY <1>1 DEF ToSet, arrays
    <2>2. DOMAIN Mine(c) = ThreadFields /\ Mine(c) = ch[chans[c][1]] /\ chans[c][1] \in DOMAIN ch
      BY <1>1, <2>1, FirstChannel
    <2>3. ch'[chans[c][1]].handle = ch[chans[c][1]].handle /\ ch'[chans[c][1]].maxSize = ch[chans[c][1]].maxSize
      BY <1>4, <1>6, <2>2
    <2>4. PhaseOf(selfID(c), c \in upset, cl[c], toServer[c], toClient[c], chans[c], Mine(c), Num(c), Work(c))
      BY <2>0 DEF Phase
    <2> DEFINE z == [Mine(c) EXCEPT !.data = TRUE]
               b2 == Work(c)'
    <2>5. \/ Loose(c \in upset, cl[c])
          \/ /\ id = chans[c][1]
             /\ PhaseOf(selfID(c), c \in upset, cl[c], toServer[c], toClient[c], chans[c], z, Num(c), b2)
      <3> DEFINE v == c \in upset
      <3>1. PhaseOf(selfID(c), v, cl[c], toServer[c], toClient[c], chans[c], Mine(c), Num(c), Work(c))
        BY <2>4
      <3>2. b2.pc = "none"
        BY <1>5
      <3> HIDE DEF v, b2
      <3>3. Loose(v, cl[c]) \/ (Work(c).at = chans[c][1] /\ Len(chans[c]) = 1
               /\ PhaseOf(selfID(c), v, cl[c], toServer[c], toClient[c], chans[c], z, Num(c), b2))
        BY ONLY <1>5, <2>2, <3>1, <3>2, FlagPhase
      <3> QED BY <1>5, <3>3 DEF v
    <2>6. PhaseOf(selfID(c), c \in upset, cl[c], toServer[c], toClient[c], chans[c], Mine(c)', Num(c), b2)
      <3>1. CASE Loose(c \in upset, cl[c])
        <4> HIDE DEF b2
        <4> QED BY <3>1, LoosePhase
      <3>2. CASE id = chans[c][1] /\ PhaseOf(selfID(c), c \in upset, cl[c], toServer[c], toClient[c], chans[c], z, Num(c), b2)
        <4>1. Mine(c)' = y
          BY <1>6, <2>1, <3>2 DEF Mine
        <4>2. y = z
          BY <2>2, <3>2 DEF y
        <4> QED BY <3>2, <4>1, <4>2
      <3> QED BY <2>5, <3>1, <3>2
    <2>7. Phase(c)'
      BY <1>1, <2>1, <2>3, <2>6, MainPhase DEF net
    <2>8. Sound(c \in upset, toServer[c], toClient[c]) => Sound(c \in upset, toServer[c], toClient[c])'
      BY <1>1 DEF Sound, net
    <2> QED BY <1>1, <2>0, <2>7, <2>8, PhaseTalks DEF net
  <1> QED BY <1>1, <1>7, <1>9, <1>10, <1>11, MainPInv

\* The loop sends an answer.
LEMMA ReplyPInv ==
    ASSUME IInv, IInv', Shapes, PInv, Reply, UNCHANGED cl
    PROVE  PInv'
  <1> SUFFICES ASSUME NEW c, c = conn PROVE PInv'
    OBVIOUS
  <1>1. /\ main.pc = "send" /\ server = "up" /\ c \in Clients /\ main.answer.chan # "OPEN"
        /\ send_msg(Main, c, main.answer, NextEntry, ch)
    BY AtConn DEF Reply, At, Shapes, AnswerShapes, Formed
  <1>2. sc.receiver # "stub" /\ Talks(c) /\ Handed(c) /\ (c \notin upset => cl[c].inStep)
    BY <1>1 DEF PInv, StubInv
  <1>3. Work(c).pc = "send" /\ Work(c).answer = main.answer
    BY <1>1 DEF Work
  <1>4. NextEntry.pc \in {"select", "recv"}
    BY LoopFields DEF NextEntry
  <1>5. Mails(toServer[c]) /\ Mails(toClient[c]) /\ c \in DOMAIN toClient /\ c \in DOMAIN gone
    BY <1>1 DEF Shapes, NetShapes
  <1>6. ASSUME cl[c].inStep, gone[c] # "no" PROVE cl[c].pc \in {"done", "crashed"} /\ Loose(c \in upset, cl[c])
    <2>1. cl[c].pc \in {"done", "crashed"} /\ Phase(c)
      BY <1>1, <1>2, <1>6 DEF Talks
    <2> DEFINE v == c \in upset
    <2>2. PhaseOf(selfID(c), v, cl[c], toServer[c], toClient[c], chans[c], Mine(c), Num(c), Work(c))
      BY <2>1 DEF Phase
    <2> HIDE DEF v
    <2>3. Loose(v, cl[c])
      BY ONLY <1>3, <2>1, <2>2, GoneReply
    <2> QED BY <2>1, <2>3 DEF v
  <1>7. ASSUME main' = NextEntry, UNCHANGED <<sc, server, toServer, shut, upset, arrays, ch>>,
               \A d \in Clients \ {c} : toClient'[d] = toClient[d] /\ gone'[d] = gone[d],
               Steady(c) => Talks(c)'
        PROVE  PInv'
    <2>1. main'.pc \in {"select", "recv"}
      BY <1>4, <1>7
    <2>2. MainOnly(c)
      BY <1>7, <2>1 DEF MainOnly, arrays
    <2>3. Gentle(c)
      BY <1>7, <2>1 DEF Gentle, arrays
    <2>4. Handed(c)'
      BY <1>1, <1>2, <2>3, GentleHanded
    <2>5. StubInv'
      BY <1>2, <1>7 DEF StubInv
    <2>6. Talks(c)'
      <3>1. CASE ~cl[c].inStep
        BY <3>1 DEF Talks
      <3> QED BY <1>2, <1>7, <3>1 DEF Steady
    <2> QED BY <1>1, <2>2, <2>4, <2>5, <2>6, MainPInv
  <1>8. ASSUME main' = NextEntry, UNCHANGED <<sc, server, toServer, shut, upset, arrays, ch>>
        PROVE  /\ Work(c)'.pc = "none" /\ Mine(c)' = Mine(c) /\ chans'[c] = chans[c]
               /\ chans[c] # << >> => ch'[chans[c][1]].handle = ch[chans[c][1]].handle
                                      /\ ch'[chans[c][1]].maxSize = ch[chans[c][1]].maxSize
    BY <1>4, <1>8, WorkNone DEF Mine, arrays
  <1>9. CASE Write(Main, c, main.answer, NextEntry, ch)
    <2>1. /\ toClient'[c] = Sent(toClient[c], gone[c], main.answer) /\ gone'[c] = EndAfter(gone[c])
          /\ \A d \in Clients \ {c} : toClient'[d] = toClient[d] /\ gone'[d] = gone[d]
          /\ main' = NextEntry /\ UNCHANGED <<sc, server, toServer, shut, upset, arrays, ch>>
      BY <1>5, <1>9 DEF Write, Shapes, NetShapes
    <2>2. CASE gone[c] = "no"
      <3>0. Steady(c) => Sound(c \in upset, toServer[c], toClient[c])
        BY <1>2 DEF Talks, Steady
      <3>1. gone'[c] = gone[c] /\ (Steady(c) => toClient'[c] = Append(toClient[c], main.answer))
        BY <1>5, <2>1, <2>2, <3>0, SoundFramed DEF Sent, EndAfter
      <3>2. ASSUME Steady(c) PROVE Talks(c)'
        <4>1. Phase(c)
          BY <1>1, <1>2, <3>2 DEF Talks, Steady
        <4>2. PhaseOf(selfID(c), c \in upset, cl[c], toServer[c], Append(toClient[c], main.answer), chans[c], Mine(c), Num(c), Work(c)')
          <5> DEFINE v == c \in upset
                     b2 == Work(c)'
          <5>1. PhaseOf(selfID(c), v, cl[c], toServer[c], toClient[c], chans[c], Mine(c), Num(c), Work(c))
            BY <4>1 DEF Phase
          <5>2. b2.pc = "none"
            BY <1>8, <2>1
          <5> HIDE DEF v, b2
          <5>3. PhaseOf(selfID(c), v, cl[c], toServer[c], Append(toClient[c], Work(c).answer), chans[c], Mine(c), Num(c), b2)
            BY ONLY <1>3, <1>5, <5>1, <5>2, ReplyPhase
          <5> QED BY <1>3, <5>3 DEF v, b2
        <4>3. PhaseOf(selfID(c), c \in upset, cl[c], toServer'[c], toClient'[c], chans[c], Mine(c)', Num(c), Work(c)')
          BY <1>8, <2>1, <3>1, <3>2, <4>2
        <4>4. Phase(c)'
          BY <1>1, <1>8, <2>1, <4>3, MainPhase
        <4>5. ASSUME Sound(c \in upset, toServer[c], toClient[c]) PROVE Sound(c \in upset, toServer[c], toClient[c])'
          <5>1. Sound(c \in upset, toServer[c], Append(toClient[c], main.answer))
            BY <1>1, <1>5, <4>5, SoundReply
          <5> QED BY <2>1, <3>1, <3>2, <5>1 DEF Sound
        <4> QED BY <1>2, <2>1, <3>1, <3>2, <4>4, <4>5 DEF Talks, Steady
      <3> QED BY <1>7, <2>1, <3>2
    <2>3. CASE gone[c] # "no"
      <3>1. toClient'[c] = toClient[c]
        BY <2>1, <2>3 DEF Sent
      <3>2. ASSUME Steady(c) PROVE Talks(c)'
        <4>1. cl[c].pc \in {"done", "crashed"} /\ Loose(c \in upset, cl[c])
          BY <1>6, <2>3, <3>2 DEF Steady
        <4>2. Loose(c \in upset, cl[c])'
          BY <2>1, <4>1 DEF Loose
        <4>3. Phase(c)'
          BY <4>2 DEF Phase, PhaseOf, Loose, ClosePhase
        <4>4. Sound(c \in upset, toServer[c], toClient[c]) => Sound(c \in upset, toServer[c], toClient[c])'
          BY <2>1, <3>1 DEF Sound
        <4> QED BY <1>2, <2>1, <3>2, <4>1, <4>3, <4>4 DEF Talks, Steady, Loose
      <3> QED BY <1>7, <2>1, <3>2
    <2> QED BY <2>2, <2>3
  <1>10. CASE WriteWaits(Main, c)
    <2>1. UNCHANGED <<net, arrays, main, ch, recvMutex, cl>>
      BY <1>10 DEF WriteWaits
    <2> QED BY <2>1, StutterPInv
  <1>11. CASE WriteFails(Main, c, NextEntry, ch)
    <2>1. /\ main' = NextEntry /\ UNCHANGED <<sc, server, toServer, shut, upset, arrays, ch, toClient, gone>> /\ gone[c] # "no"
      BY <1>11 DEF WriteFails, net
    <2>2. ASSUME Steady(c) PROVE Talks(c)'
      <3>1. Loose(c \in upset, cl[c])'
        BY <1>6, <2>1, <2>2 DEF Steady, Loose
      <3>2. Phase(c)'
        BY <3>1 DEF Phase, PhaseOf, Loose, ClosePhase
      <3>3. Sound(c \in upset, toServer[c], toClient[c]) => Sound(c \in upset, toServer[c], toClient[c])'
        BY <2>1 DEF Sound
      <3> QED BY <1>1, <1>2, <2>1, <2>2, <3>2, <3>3, PhaseTalks
    <2> QED BY <1>7, <2>1, <2>2
  <1>12. CASE WriteKills(Main, c)
    <2>1. Dies("sigpipe") /\ gone[c] = "reset"
      BY <1>12 DEF WriteKills
    <2>2. cl[c].pc = "crashed" \/ c \in upset
      BY <1>2, <1>6, <2>1 DEF Loose
    <2>3. Deaths'
      BY <1>1, <2>1, <2>2 DEF Deaths, Dies
    <2> QED BY <1>1, <2>1, <2>3, DiesPInv
  <1> QED BY <1>1, <1>9, <1>10, <1>11, <1>12 DEF send_msg

\* The thread of a channel was joined.
LEMMA JoinPInv ==
    ASSUME IInv, IInv', Shapes, PInv, Join, UNCHANGED cl
    PROVE  PInv'
  <1> SUFFICES ASSUME NEW c, c = conn, NEW id, id = main.at PROVE PInv'
    OBVIOUS
  <1>1. /\ main.pc = "join" /\ server = "up" /\ c \in Clients /\ id \in ToSet(chans[c]) /\ UNCHANGED <<net, ch, conns>>
        /\ chans' = [chans EXCEPT ![c] = RemoveFirst(@, id)]
        /\ main' = [main EXCEPT !.pc = IF main.answer = Null THEN "endconn" ELSE "send", !.at = 0]
    BY AtConn DEF Join, At, IInv, AtConnection, RemoveChannel
  <1>2. /\ DOMAIN main = MainFields /\ DOMAIN chans = Clients /\ chans[c] \in Seq(Nat) /\ Distinct(chans[c])
    BY <1>1 DEF IInv, Types, Arrays
  <1>3. /\ main'.pc = (IF main.answer = Null THEN "endconn" ELSE "send") /\ main'.i = main.i /\ main'.answer = main.answer
    BY <1>1, <1>2 DEF MainFields
  <1>4. conn' = c
    BY <1>1, <1>3, ConnKept
  <1>5. /\ chans'[c] \in Seq(Nat) /\ Len(chans'[c]) = Len(chans[c]) - 1 /\ ToSet(chans'[c]) = ToSet(chans[c]) \ {id}
        /\ \A d \in Clients \ {c} : chans'[d] = chans[d]
    BY <1>1, <1>2, RemoveFirstSeq
  <1>6. MainOnly(c)
    BY <1>1, <1>4, <1>5 DEF MainOnly, net
  <1>7. Gentle(c)
    BY <1>1, <1>3, <1>5 DEF Gentle, net
  <1>8. Handed(c)'
    BY <1>1, <1>7, GentleHanded DEF PInv
  <1>9. sc.receiver # "stub" /\ Talks(c)
    BY <1>1 DEF PInv, StubInv
  <1>10. StubInv'
    BY <1>1, <1>9 DEF StubInv, net
  <1>11. Talks(c)'
    <2> SUFFICES ASSUME Steady(c) PROVE Talks(c)'
      BY <1>1 DEF Talks, Steady, net
    <2>1. Phase(c) /\ Work(c).pc = "join" /\ Work(c).at = id /\ Work(c).answer = main.answer
      BY <1>1, <1>9 DEF Talks, Steady, Work
    <2>2. UNCHANGED <<sc, cl, upset, gone, shut, toServer, toClient>>
      BY <1>1 DEF net
    <2> DEFINE v == c \in upset
               b2 == Work(c)'
    <2>3. PhaseOf(selfID(c), v, cl[c], toServer[c], toClient[c], chans[c], Mine(c), Num(c), Work(c))
      BY <2>1 DEF Phase
    <2>4. main.answer # Null => b2.pc = "send" /\ b2.answer = main.answer
      BY <1>3, <1>4, WorkHere
    <2> HIDE DEF v, b2
    <2>5. \/ Loose(v, cl[c])
          \/ /\ Len(chans[c]) = 1 /\ main.answer # Null
             /\ \A x2, n2 : PhaseOf(selfID(c), v, cl[c], toServer[c], toClient[c], << >>, x2, n2, b2)
      BY ONLY <2>1, <2>3, <2>4, JoinPhase
    <2>6. ASSUME Len(chans[c]) = 1 PROVE chans'[c] = << >>
      <3>1. Len(chans'[c]) = 0
        BY <1>5, <2>6
      <3> QED BY <1>5, <3>1
    <2>7. selfID(c)' = selfID(c)
      BY DEF selfID
    <2>8. Phase(c)'
      <3>1. CASE Loose(v, cl[c])
        BY <2>2, <3>1 DEF Phase, PhaseOf, Loose, ClosePhase, v
      <3>2. CASE /\ Len(chans[c]) = 1
                 /\ \A x2, n2 : PhaseOf(selfID(c), v, cl[c], toServer[c], toClient[c], << >>, x2, n2, b2)
        <4>1. PhaseOf(selfID(c), v, cl[c], toServer[c], toClient[c], << >>, Mine(c)', Num(c)', b2)
          BY <3>2
        <4>2. chans'[c] = << >>
          BY <2>6, <3>2
        <4> QED BY <2>2, <2>7, <4>1, <4>2 DEF Phase, v, b2
      <3> QED BY <2>5, <3>1, <3>2
    <2>9. Sound(c \in upset, toServer[c], toClient[c]) => Sound(c \in upset, toServer[c], toClient[c])'
      BY <2>2 DEF Sound
    <2> QED BY <1>1, <1>9, <2>2, <2>8, <2>9, PhaseTalks
  <1> QED BY <1>1, <1>6, <1>8, <1>10, <1>11, MainPInv

\* end_connection goes on.
LEMMA EndConnectionPInv ==
    ASSUME IInv, IInv', Shapes, PInv, EndConnection, UNCHANGED cl
    PROVE  PInv'
  <1> SUFFICES ASSUME NEW c, c = conn PROVE PInv'
    OBVIOUS
  <1>1. /\ main.pc = "endconn" /\ server = "up" /\ c \in Clients /\ chans[c] \in Seq(Nat)
        /\ UNCHANGED <<sc, server, toServer, toClient, gone, upset>>
    BY AtConn DEF EndConnection, At
  <1>2. Talks(c) /\ Handed(c) /\ Work(c).pc = "endconn" /\ DOMAIN main = MainFields /\ cl[c].pc \in ClientStates
    BY <1>1 DEF PInv, Work, IInv, Types
  <1> DEFINE v == c \in upset
  <1>3. Steady(c) =>
          \/ Loose(v, cl[c])
          \/ /\ cl[c].pc \in {"close", "done"} /\ chans[c] = << >>
             /\ \A x2, n2, b2 : b2.pc = "none" =>
                  PhaseOf(selfID(c), v, cl[c], toServer[c], toClient[c], chans[c], x2, n2, b2)
    <2> SUFFICES ASSUME Steady(c)
                 PROVE  \/ Loose(v, cl[c])
                        \/ /\ cl[c].pc \in {"close", "done"} /\ chans[c] = << >>
                           /\ \A x2, n2, b2 : b2.pc = "none" =>
                                PhaseOf(selfID(c), v, cl[c], toServer[c], toClient[c], chans[c], x2, n2, b2)
      OBVIOUS
    <2>1. PhaseOf(selfID(c), v, cl[c], toServer[c], toClient[c], chans[c], Mine(c), Num(c), Work(c))
      BY <1>1, <1>2 DEF Talks, Steady, Phase
    <2> HIDE DEF v
    <2> QED BY ONLY <1>2, <2>1, EndPhase
  <1>4. Sound(c \in upset, toServer[c], toClient[c]) => Sound(c \in upset, toServer[c], toClient[c])'
    BY <1>1 DEF Sound
  <1>5. Loose(v, cl[c]) => Phase(c)'
    BY <1>1 DEF Phase, PhaseOf, Loose, ClosePhase
  <1>6. selfID(c)' = selfID(c)
    BY DEF selfID
  <1>7. CASE chans[c] # << >>
    <2> SUFFICES ASSUME NEW id, id = Head(chans[c]) PROVE PInv'
      OBVIOUS
    <2> DEFINE y == [ch[id] EXCEPT !.kill = TRUE]
    <2>1. id = chans[c][1]
      BY <1>1, <1>7
    <2>2. id \in DOMAIN ch /\ DOMAIN ch[id] = ThreadFields /\ ch[id].conn = c
      BY <1>1, <1>7, <2>1, FirstChannel
    <2>3. /\ ch' = [ch EXCEPT ![id] = y] /\ main' = [main EXCEPT !.pc = "join", !.at = id, !.answer = Null]
          /\ UNCHANGED <<conns, chans, shut>>
      BY <1>7, <2>2 DEF EndConnection, EndChannel, UncountChannel
    <2>4. main'.pc = "join" /\ main'.i = main.i
      BY <1>2, <2>3 DEF MainFields
    <2>5. /\ y.conn = c /\ y.data = ch[id].data /\ y.value = ch[id].value /\ y.pc = ch[id].pc
          /\ y.clobbered = ch[id].clobbered
      BY <2>2 DEF ThreadFields
    <2>6. ch'[id] = y /\ DOMAIN ch' = DOMAIN ch /\ \A k \in DOMAIN ch : k # id => ch'[k] = ch[k]
      BY <2>2, <2>3
    <2> HIDE DEF y
    <2>7. conn' = c
      BY <2>3, <2>4, ConnKept
    <2>8. MainOnly(c)
      BY <1>1, <2>2, <2>3, <2>5, <2>6, <2>7 DEF MainOnly
    <2>9. Gentle(c)
      BY <1>1, <2>2, <2>3, <2>4, <2>5, <2>6 DEF Gentle
    <2>10. Handed(c)'
      BY <1>1, <1>2, <2>9, GentleHanded
    <2>11. StubInv'
      <3>1. sc.receiver # "stub"
        BY <2>2 DEF PInv, StubInv
      <3> QED BY <1>1, <3>1 DEF StubInv
    <2>12. Talks(c)'
      <3> SUFFICES ASSUME Steady(c) PROVE Talks(c)'
        BY <1>1 DEF Talks, Steady
      <3>1. Phase(c)'
        BY <1>3, <1>5, <1>7
      <3> QED BY <1>1, <1>2, <1>4, <2>3, <3>1, PhaseTalks
    <2> QED BY <1>1, <2>8, <2>10, <2>11, <2>12, MainPInv
  <1>8. CASE chans[c] = << >>
    <2>1. /\ UNCHANGED <<ch, chans>> /\ shut' = [shut EXCEPT ![c] = Closed(toServer[c])]
          /\ main'.pc \in {"select", "recv"}
      BY <1>8, LoopFields DEF EndConnection, RemoveConnection
    <2>2. \A d \in Clients \ {c} : shut'[d] = shut[d]
      BY <2>1 DEF Shapes, NetShapes
    <2>3. MainOnly(c)
      BY <1>1, <2>1, <2>2 DEF MainOnly
    <2>4. Gentle(c)
      BY <1>1, <2>1 DEF Gentle
    <2>5. Handed(c)'
      BY <1>1, <1>2, <2>4, GentleHanded
    <2>6. StubInv'
      BY <1>1, <2>1 DEF StubInv, PInv
    <2>7. Talks(c)'
      <3> SUFFICES ASSUME Steady(c) PROVE Talks(c)'
        BY <1>1 DEF Talks, Steady
      <3>1. Work(c)'.pc = "none"
        BY <2>1, WorkNone
      <3>2. cl[c].pc \in {"close", "done", "crashed"}
        BY <1>2, <1>3 DEF Loose, ClientStates
      <3>3. Phase(c)'
        <4>1. CASE Loose(v, cl[c])
          BY <1>5, <4>1
        <4>2. CASE \A x2, n2, b2 : b2.pc = "none" =>
                     PhaseOf(selfID(c), v, cl[c], toServer[c], toClient[c], chans[c], x2, n2, b2)
          <5>1. PhaseOf(selfID(c), v, cl[c], toServer[c], toClient[c], chans[c], Mine(c)', Num(c)', Work(c)')
            BY <3>1, <4>2
          <5> QED BY <1>1, <1>6, <2>1, <5>1 DEF Phase
        <4> QED BY <1>3, <4>1, <4>2
      <3> QED BY <1>1, <1>2, <1>4, <3>2, <3>3 DEF Talks, Steady
    <2> QED BY <1>1, <2>3, <2>5, <2>6, <2>7, MainPInv
  <1> QED BY <1>7, <1>8

\* Looking up a channel of a connection that has one, or none.
LEMMA FoundOwn ==
    ASSUME Types, NEW c \in Clients, NEW sendID, NEW recvID, NEW other
    PROVE  /\ chans[c] = << >> => find_existing_channel(c, sendID, recvID, other) = 0
           /\ recvID \in ToSet(chans[c]) => find_existing_channel(c, sendID, recvID, other) = recvID
           /\ Len(chans[c]) = 1 /\ other[chans[c][1]] = sendID
              => find_existing_channel(c, sendID, recvID, other) = chans[c][1]
  <1> DEFINE s == chans[c]
             I == {i \in 1 .. Len(s) : other[s[i]] = sendID}
             k == IF I # {} THEN Min(I) ELSE 0
  <1>1. s \in Seq(Nat) /\ DOMAIN s = 1 .. Len(s) /\ I \in SUBSET Nat
    BY DEF Types
  <1>2. SelectInSeq(chans[c], LAMBDA v : other[v] = sendID) = k
    BY DEF SelectInSeq
  <1>3. find_existing_channel(c, sendID, recvID, other)
          = IF recvID \in ToSet(s) THEN recvID ELSE IF k # 0 THEN s[k] ELSE 0
    BY <1>2 DEF find_existing_channel
  <1>4. ASSUME s = << >> PROVE find_existing_channel(c, sendID, recvID, other) = 0
    <2>1. ToSet(s) = {} /\ I = {}
      BY <1>1, <1>4 DEF ToSet
    <2> QED BY <1>3, <2>1
  <1>5. ASSUME Len(s) = 1, other[s[1]] = sendID
        PROVE  find_existing_channel(c, sendID, recvID, other) = s[1]
    <2>1. ToSet(s) = {s[1]} /\ I = {1}
      BY <1>1, <1>5 DEF ToSet
    <2>2. Min(I) \in I
      BY <1>1, <2>1, MinIn
    <2>3. k = 1
      BY <2>1, <2>2
    <2> HIDE DEF k, s
    <2> QED BY <1>3, <2>1, <2>3
  <1>6. recvID \in ToSet(s) => find_existing_channel(c, sendID, recvID, other) = recvID
    BY <1>3
  <1> QED BY <1>4, <1>5, <1>6

\* What a request asks for tells where the client is.
LEMMA RequestKinds ==
    ASSUME IInv, Shapes, PInv, server = "up", main.pc = "recv", NEW c \in Clients, c = conn, Steady(c),
           toServer[c] # << >>, NEW m, m = toServer[c][1], m.intact
    PROVE  \/ Loose(c \in upset, cl[c])
           \/ /\ Disconnects(m) => cl[c].pc \in {"close", "done"} /\ Len(toServer[c]) = 1
              /\ Opens(m) => /\ cl[c].pc = "ack" /\ m.send = selfID(c) /\ m.seg = MAX_SIZE
                             /\ Fresh(selfID(c), chans[c], Mine(c), Num(c))
                             /\ Tail(toServer[c]) = << >> /\ toClient[c] = << >>
              /\ Finishes(m) => /\ cl[c].pc = "finack" /\ Len(toServer[c]) = 1 /\ m.send = selfID(c) /\ chans[c] # << >>
                                /\ Found(m, m.recv) = chans[c][1]
              /\ Readies(m) => /\ cl[c].pc \in {"gather", "fin", "finack"} /\ chans[c] # << >>
                               /\ Control1(m, selfID(c), chans[c][1], "SYN") /\ Found(m, m.recv) = chans[c][1]
              /\ Asks(m) => cl[c].pc = "answer" /\ chans[c] # << >> /\ Found(m, m.recv) = chans[c][1]
              /\ Disconnects(m) \/ Opens(m) \/ Finishes(m) \/ Readies(m) \/ Asks(m)
  <1> DEFINE v == c \in upset
             me == selfID(c)
             cs == chans[c]
  <1>1. Mails(toServer[c]) /\ Work(c).pc = "none" /\ Phase(c)
    BY DEF Shapes, NetShapes, Work, NoWork, PInv, Talks, Steady
  <1>2. PhaseOf(selfID(c), v, cl[c], toServer[c], toClient[c], chans[c], Mine(c), Num(c), Work(c))
    BY <1>1 DEF Phase
  <1> HIDE DEF v
  <1>3. \/ /\ cl[c].pc = "ack" /\ (Control1(m, selfID(c), 0, "SYN") \/ Control1(m, selfID(c), 0, "RTS"))
           /\ m.seg = MAX_SIZE /\ Fresh(selfID(c), chans[c], Mine(c), Num(c)) /\ Tail(toServer[c]) = << >> /\ toClient[c] = << >>
        \/ /\ cl[c].pc \in {"gather", "fin", "finack"} /\ Control1(m, selfID(c), chans[c][1], "SYN")
           /\ Joined(selfID(c), cl[c], chans[c], Mine(c), Num(c))
        \/ /\ cl[c].pc = "answer" /\ Control1(m, selfID(c), chans[c][1], "RTS") /\ m.seg = Min(cl[c].missing)
           /\ Joined(selfID(c), cl[c], chans[c], Mine(c), Num(c))
        \/ cl[c].pc = "finack" /\ Len(toServer[c]) = 1 /\ Control1(m, selfID(c), chans[c][1], "FIN")
           /\ Joined(selfID(c), cl[c], chans[c], Mine(c), Num(c))
        \/ cl[c].pc \in {"close", "done"} /\ ~v /\ Control1(m, 0, 0, "FIN") /\ Len(toServer[c]) = 1
        \/ Loose(v, cl[c])
    BY <1>1, <1>2, HeadKinds
  <1>4. me \in Nat /\ me > 0
    <2>1. c \in Nat \ {0} /\ cl[c].cycle \in Nat
      BY NetAssumption DEF Shapes, ClientShapes
    <2> QED BY <2>1 DEF selfID
  <1>5. ASSUME Joined(selfID(c), cl[c], chans[c], Mine(c), Num(c))
        PROVE  /\ chans[c] # << >> /\ chans[c][1] \in Nat /\ chans[c][1] > 0
               /\ m.recv = chans[c][1] => Found(m, m.recv) = chans[c][1]
    <2>1. chans[c] # << >>
      BY <1>5 DEF Joined, Own
    <2>2. chans[c][1] \in ToSet(chans[c]) /\ chans[c][1] \in Nat \ {0}
      BY <2>1, FirstChannel
    <2>3. m.recv = chans[c][1] => Found(m, m.recv) = chans[c][1]
      BY <2>2, FoundOwn DEF Found, IInv
    <2> QED BY <2>1, <2>2, <2>3
  <1>6. "SYN" # "FIN" /\ "RTS" # "FIN" /\ "SYN" # "RTS"
    OBVIOUS
  <1> HIDE DEF me, cs
  <1>7. selfID(c) = me
    BY DEF me
  <1>8. CASE /\ cl[c].pc = "ack" /\ (Control1(m, selfID(c), 0, "SYN") \/ Control1(m, selfID(c), 0, "RTS"))
             /\ m.seg = MAX_SIZE /\ Fresh(selfID(c), chans[c], Mine(c), Num(c)) /\ Tail(toServer[c]) = << >> /\ toClient[c] = << >>
    <2>1. m.recv = 0 /\ m.send = me /\ m.chan = "CONTROL" /\ m.type \in {"SYN", "RTS"} /\ m.type # "FIN"
      BY <1>6, <1>7, <1>8 DEF Control1
    <2>2. Opens(m)
      BY <1>4, <2>1 DEF Opens, Controls
    <2>3. ~Disconnects(m) /\ ~Finishes(m) /\ ~Readies(m) /\ ~Asks(m)
      BY <2>1 DEF Disconnects, Finishes, Readies, Asks, Controls
    <2> QED BY <1>7, <1>8, <2>1, <2>2, <2>3
  <1>9. CASE /\ cl[c].pc \in {"gather", "fin", "finack"} /\ Control1(m, selfID(c), chans[c][1], "SYN")
             /\ Joined(selfID(c), cl[c], chans[c], Mine(c), Num(c))
    <2>1. m.recv = chans[c][1] /\ m.send = me /\ m.chan = "CONTROL" /\ m.type = "SYN"
      BY <1>7, <1>9 DEF Control1
    <2>2. m.recv > 0 /\ m.recv # 0 /\ chans[c] # << >> /\ Found(m, m.recv) = chans[c][1]
      BY <1>5, <1>9, <2>1
    <2>3. Readies(m)
      BY <2>1, <2>2 DEF Readies, Controls
    <2>4. ~Disconnects(m) /\ ~Finishes(m) /\ ~Opens(m) /\ ~Asks(m)
      BY <1>6, <2>1, <2>2 DEF Disconnects, Finishes, Opens, Asks, Controls
    <2> QED BY <1>9, <2>2, <2>3, <2>4
  <1>10. CASE /\ cl[c].pc = "answer" /\ Control1(m, selfID(c), chans[c][1], "RTS") /\ m.seg = Min(cl[c].missing)
              /\ Joined(selfID(c), cl[c], chans[c], Mine(c), Num(c))
    <2>1. m.recv = chans[c][1] /\ m.send = me /\ m.chan = "CONTROL" /\ m.type = "RTS"
      BY <1>7, <1>10 DEF Control1
    <2>2. m.recv > 0 /\ m.recv # 0 /\ chans[c] # << >> /\ Found(m, m.recv) = chans[c][1]
      BY <1>5, <1>10, <2>1
    <2>3. Asks(m)
      BY <2>1, <2>2 DEF Asks, Controls
    <2>4. ~Disconnects(m) /\ ~Finishes(m) /\ ~Opens(m) /\ ~Readies(m)
      BY <1>6, <2>1, <2>2 DEF Disconnects, Finishes, Opens, Readies, Controls
    <2> QED BY <1>10, <2>2, <2>3, <2>4
  <1>11. CASE /\ cl[c].pc = "finack" /\ Len(toServer[c]) = 1 /\ Control1(m, selfID(c), chans[c][1], "FIN")
              /\ Joined(selfID(c), cl[c], chans[c], Mine(c), Num(c))
    <2>1. m.recv = chans[c][1] /\ m.send = me /\ m.chan = "CONTROL" /\ m.type = "FIN" /\ me # 0
      BY <1>4, <1>7, <1>11 DEF Control1
    <2>2. chans[c] # << >> /\ Found(m, m.recv) = chans[c][1]
      BY <1>5, <1>11, <2>1
    <2>3. Finishes(m) /\ ~Disconnects(m)
      BY <2>1 DEF Finishes, Disconnects, Controls
    <2>4. ~Opens(m) /\ ~Readies(m) /\ ~Asks(m)
      BY <1>6, <2>1 DEF Opens, Readies, Asks, Controls
    <2> QED BY <1>7, <1>11, <2>1, <2>2, <2>3, <2>4
  <1>12. CASE cl[c].pc \in {"close", "done"} /\ ~v /\ Control1(m, 0, 0, "FIN") /\ Len(toServer[c]) = 1
    <2>1. m.recv = 0 /\ m.send = 0 /\ m.chan = "CONTROL" /\ m.type = "FIN"
      BY <1>12 DEF Control1
    <2>2. Disconnects(m) /\ ~Finishes(m)
      BY <2>1 DEF Finishes, Disconnects, Controls
    <2>3. ~Opens(m) /\ ~Readies(m) /\ ~Asks(m)
      BY <1>6, <2>1 DEF Opens, Readies, Asks, Controls
    <2> QED BY <1>12, <2>2, <2>3
  <1>13. CASE Loose(v, cl[c])
    BY <1>13 DEF v
  <1> QED BY <1>3, <1>8, <1>9, <1>10, <1>11, <1>12, <1>13

\* A step of recv_msg and what it leads to.
LEMMA TookPInv ==
    ASSUME IInv, Shapes, PInv, server = "up", main.pc = "recv", NEW c \in Clients, MainOnly(c), sc.receiver # "stub",
           UNCHANGED <<gone, shut, toClient>>,
           toServer'[c] \in {toServer[c], << >>} \/ (toServer[c] # << >> /\ toServer'[c] = Tail(toServer[c])),
           Handed(c)', Steady(c) => Phase(c)'
    PROVE  PInv'
  <1>1. UNCHANGED <<sc, cl, upset>> /\ Talks(c)
    BY DEF MainOnly, PInv
  <1>2. Talks(c)'
    <2> SUFFICES ASSUME Steady(c) PROVE Talks(c)'
      BY <1>1 DEF Talks, Steady
    <2>1. Mails(toServer[c]) /\ Mails(toClient[c])
      BY DEF Shapes, NetShapes
    <2>2. Sound(c \in upset, toServer[c], toClient[c]) => Sound(c \in upset, toServer[c], toClient[c])'
      <3>0. toServer'[c] = << >> /\ Sound(c \in upset, toServer[c], toClient[c]) => Sound(c \in upset, toServer[c], toClient[c])'
        <4>1. DOMAIN << >> = {}
          OBVIOUS
        <4> QED BY <1>1, <4>1 DEF Sound
      <3>1. toServer[c] # << >> /\ Sound(c \in upset, toServer[c], toClient[c]) => Sound(c \in upset, Tail(toServer[c]), toClient[c])
        <4> DEFINE v == c \in upset
        <4>1. toServer[c] # << >> /\ Sound(v, toServer[c], toClient[c]) => Sound(v, Tail(toServer[c]), toClient[c])
          <5> HIDE DEF v
          <5> QED BY <2>1, SoundTails
        <4> QED BY <4>1
      <3> QED BY <1>1, <3>0, <3>1
    <2> QED BY <1>1, <2>2, PhaseTalks
  <1>3. StubInv'
    BY <1>1 DEF StubInv
  <1> QED BY <1>2, <1>3, MainPInv

\* A message was taken and no channel changed.
LEMMA QuietTook ==
    ASSUME IInv, IInv', Shapes, PInv, server = "up", main.pc = "recv", NEW c \in Clients, c = conn, sc.receiver # "stub",
           UNCHANGED <<sc, server, upset, cl, gone, shut, toClient, ch, conns, chans>>,
           NEW p, toServer' = [toServer EXCEPT ![c] = p],
           p \in {toServer[c], << >>} \/ (toServer[c] # << >> /\ p = Tail(toServer[c])),
           main'.pc # "flag", main'.pc \in {"select", "recv"} \/ main'.i = main.i,
           \/ ~Steady(c) \/ Loose(c \in upset, cl[c])
           \/ PhaseOf(selfID(c), c \in upset, cl[c], p, toClient[c], chans[c], Mine(c), Num(c), Work(c)')
    PROVE  PInv'
  <1>1. toServer'[c] = p /\ \A d \in Clients \ {c} : toServer'[d] = toServer[d]
    BY DEF Shapes, NetShapes
  <1>2. main'.pc \in {"select", "recv"} \/ conn' = c
    BY ConnKept
  <1>3. MainOnly(c)
    BY <1>1, <1>2 DEF MainOnly
  <1>4. Gentle(c)
    BY <1>1 DEF Gentle
  <1>5. Handed(c)'
    BY <1>4, GentleHanded DEF PInv
  <1>6. ASSUME Steady(c) PROVE Phase(c)'
    <2> DEFINE b2 == Work(c)'
               v == c \in upset
    <2>1. PhaseOf(selfID(c), v, cl[c], p, toClient[c], chans[c], Mine(c), Num(c), b2)
      <3>1. Loose(v, cl[c]) \/ PhaseOf(selfID(c), v, cl[c], p, toClient[c], chans[c], Mine(c), Num(c), b2)
        BY <1>6
      <3> HIDE DEF b2, v
      <3> QED BY <3>1, LoosePhase
    <2>2. Mine(c)' = Mine(c) /\ toServer'[c] = p /\ toClient'[c] = toClient[c]
      BY <1>1 DEF Mine
    <2>3. PhaseOf(selfID(c), c \in upset, cl[c], toServer'[c], toClient'[c], chans[c], Mine(c)', Num(c), Work(c)')
      BY <2>1, <2>2
    <2> QED BY <2>3, MainPhase
  <1> QED BY <1>1, <1>3, <1>5, <1>6, TookPInv

\* A message was taken and a channel of the connection changed.
LEMMA ChangeTook ==
    ASSUME IInv, Shapes, PInv, server = "up", main.pc = "recv", NEW c \in Clients, c = conn, sc.receiver # "stub",
           UNCHANGED <<sc, server, upset, cl, gone, shut, toClient, conns, chans>>,
           NEW p, toServer' = [toServer EXCEPT ![c] = p], toServer[c] # << >>, p = Tail(toServer[c]),
           NEW id \in ToSet(chans[c]), NEW y, ch' = [ch EXCEPT ![id] = y],
           y.conn = c, y.handle = ch[id].handle, y.maxSize = ch[id].maxSize,
           main'.pc \in {"select", "recv"} \/ main'.i = main.i,
           Handed(c)',
           \/ ~Steady(c) \/ Loose(c \in upset, cl[c])
           \/ id = chans[c][1]
              /\ PhaseOf(selfID(c), c \in upset, cl[c], p, toClient[c], chans[c], y, Num(c), Work(c)')
    PROVE  PInv'
  <1>1. toServer'[c] = p /\ \A d \in Clients \ {c} : toServer'[d] = toServer[d]
    BY DEF Shapes, NetShapes
  <1>2. main'.pc \in {"select", "recv"} \/ conn' = c
    BY ConnKept
  <1>3. id \in DOMAIN ch /\ ch[id].conn = c /\ chans[c] # << >>
    BY DEF IInv, Arrays, ToSet
  <1>4. ch'[id] = y /\ DOMAIN ch' = DOMAIN ch /\ \A k \in DOMAIN ch : k # id => ch'[k] = ch[k]
    BY <1>3
  <1>5. MainOnly(c)
    BY <1>1, <1>2, <1>3, <1>4 DEF MainOnly
  <1>6. chans[c][1] \in DOMAIN ch
    BY <1>3, FirstChannel
  <1>7. ch'[chans[c][1]].handle = ch[chans[c][1]].handle /\ ch'[chans[c][1]].maxSize = ch[chans[c][1]].maxSize
    BY <1>4, <1>6
  <1>8. ASSUME Steady(c) PROVE Phase(c)'
    <2> DEFINE b2 == Work(c)'
               v == c \in upset
    <2>1. PhaseOf(selfID(c), v, cl[c], p, toClient[c], chans[c], Mine(c)', Num(c), b2)
      <3>1. \/ Loose(v, cl[c])
            \/ id = chans[c][1] /\ PhaseOf(selfID(c), v, cl[c], p, toClient[c], chans[c], y, Num(c), b2)
        BY <1>8
      <3>2. id = chans[c][1] => Mine(c)' = y
        BY <1>3, <1>4 DEF Mine
      <3> DEFINE x2 == Mine(c)'
      <3>3. id = chans[c][1] => x2 = y
        BY <3>2
      <3>4. PhaseOf(selfID(c), v, cl[c], p, toClient[c], chans[c], x2, Num(c), b2)
        <4> HIDE DEF b2, v, x2
        <4> QED BY <3>1, <3>3, LoosePhase
      <3> QED BY <3>4
    <2>2. toServer'[c] = p /\ toClient'[c] = toClient[c]
      BY <1>1
    <2>3. PhaseOf(selfID(c), c \in upset, cl[c], toServer'[c], toClient'[c], chans[c], Mine(c)', Num(c), Work(c)')
      BY <2>1, <2>2
    <2> QED BY <1>7, <2>3, MainPhase
  <1> QED BY <1>1, <1>5, <1>8, TookPInv

\* The select loop has taken a message of client c.
Taking(c, m) ==
    /\ IInv /\ IInv' /\ Shapes /\ PInv /\ server = "up" /\ main.pc = "recv" /\ c = conn /\ c \in Clients
    /\ sc.receiver # "stub"
    /\ UNCHANGED <<sc, server, upset, cl, gone, shut, toClient>>
    /\ toServer[c] # << >> /\ m = toServer[c][1] /\ toServer' = [toServer EXCEPT ![c] = Tail(toServer[c])]

\* What is known when a message is taken.
LEMMA TakingFacts ==
    ASSUME NEW c, NEW m, Taking(c, m)
    PROVE  /\ Mails(toServer[c]) /\ Work(c).pc = "none" /\ DOMAIN main = MainFields
           /\ Steady(c) => PhaseOf(selfID(c), c \in upset, cl[c], toServer[c], toClient[c], chans[c], Mine(c), Num(c), Work(c))
           /\ Steady(c) /\ ~m.intact => c \in upset
  <1>1. Mails(toServer[c]) /\ Work(c).pc = "none" /\ DOMAIN main = MainFields /\ 1 \in DOMAIN toServer[c]
    BY TailSeq DEF Taking, Shapes, NetShapes, Mails, Work, NoWork, IInv, Types
  <1>2. Steady(c) => Phase(c) /\ Sound(c \in upset, toServer[c], toClient[c])
    BY DEF Taking, PInv, Talks, Steady
  <1> QED BY <1>1, <1>2 DEF Phase, Sound, Taking

\* It is answered at once.
LEMMA AnswerTook ==
    ASSUME NEW c, NEW m, Taking(c, m), UNCHANGED <<arrays, ch>>, NEW a, Answer(a),
           Steady(c) =>
             \/ Loose(c \in upset, cl[c])
             \/ \A b2 : b2.pc = "send" /\ b2.answer = a =>
                  PhaseOf(selfID(c), c \in upset, cl[c], Tail(toServer[c]), toClient[c], chans[c], Mine(c), Num(c), b2)
    PROVE  PInv'
  <1>1. main'.pc = "send" /\ main'.answer = a /\ main'.i = main.i
    BY TakingFacts DEF Answer, MainFields
  <1>2. conn' = c
    BY <1>1, ConnKept DEF Taking, arrays
  <1>3. Work(c)'.pc = "send" /\ Work(c)'.answer = a
    BY <1>1, <1>2, WorkHere
  <1> DEFINE b2 == Work(c)'
             p == Tail(toServer[c])
  <1>4. \/ ~Steady(c) \/ Loose(c \in upset, cl[c])
        \/ PhaseOf(selfID(c), c \in upset, cl[c], p, toClient[c], chans[c], Mine(c), Num(c), b2)
    BY <1>3
  <1>5. main'.pc # "flag"
    BY <1>1
  <1> QED BY <1>1, <1>4, <1>5, QuietTook DEF Taking, arrays

\* A damaged message.
LEMMA DamagedTook ==
    ASSUME NEW c, NEW m, Taking(c, m), UNCHANGED <<arrays, ch>>, ~m.intact, Answer(Control(m, "RTS"))
    PROVE  PInv'
  <1> DEFINE v == c \in upset
             p == Tail(toServer[c])
  <1>1. ASSUME Steady(c), NEW b2, b2.pc = "send", b2.answer.type = "RTS"
        PROVE  PhaseOf(selfID(c), v, cl[c], p, toClient[c], chans[c], Mine(c), Num(c), b2)
    <2>1. PhaseOf(selfID(c), v, cl[c], toServer[c], toClient[c], chans[c], Mine(c), Num(c), Work(c))
      BY <1>1, TakingFacts
    <2>2. v /\ Mails(toServer[c]) /\ toServer[c] # << >> /\ Work(c).pc = "none"
      BY <1>1, TakingFacts DEF Taking
    <2> HIDE DEF v
    <2> QED BY <1>1, <2>1, <2>2, DamagedHead
  <1>2. Control(m, "RTS").type = "RTS"
    BY DEF Control, form_msg
  <1> QED BY <1>1, <1>2, AnswerTook

\* A request that names no channel and asks for none.
LEMMA NackTook ==
    ASSUME NEW c, NEW m, Taking(c, m), UNCHANGED <<arrays, ch>>, m.intact,
           ~(Disconnects(m) \/ Opens(m) \/ Finishes(m) \/ Readies(m) \/ Asks(m)), NEW a, Answer(a)
    PROVE  PInv'
  <1>1. Steady(c) => Loose(c \in upset, cl[c])
    BY RequestKinds DEF Taking
  <1> QED BY <1>1, AnswerTook

\* The client takes its leave.
LEMMA DisconnectTook ==
    ASSUME NEW c, NEW m, Taking(c, m), UNCHANGED <<arrays, ch>>, m.intact, Disconnects(m),
           main' = [main EXCEPT !.pc = "endconn"]
    PROVE  PInv'
  <1>1. main'.pc = "endconn" /\ main'.i = main.i
    BY TakingFacts DEF MainFields
  <1>2. conn' = c
    BY <1>1, ConnKept DEF Taking, arrays
  <1> DEFINE b2 == Work(c)'
             p == Tail(toServer[c])
             v == c \in upset
  <1>3. b2.pc = "endconn"
    BY <1>1, <1>2, WorkHere
  <1>4. Steady(c) => Loose(v, cl[c]) \/ (cl[c].pc \in {"close", "done"} /\ Len(toServer[c]) = 1)
    BY RequestKinds DEF Taking
  <1>5. Steady(c) => PhaseOf(selfID(c), v, cl[c], toServer[c], toClient[c], chans[c], Mine(c), Num(c), Work(c))
    BY TakingFacts
  <1>6. Mails(toServer[c]) /\ toServer[c] # << >> /\ Work(c).pc = "none"
    BY TakingFacts DEF Taking
  <1>7. Steady(c) => Loose(v, cl[c]) \/ PhaseOf(selfID(c), v, cl[c], p, toClient[c], chans[c], Mine(c), Num(c), b2)
    <2> HIDE DEF b2, v
    <2> QED BY <1>3, <1>4, <1>5, <1>6, DisconnectPhase
  <1>8. main'.pc # "flag"
    BY <1>1
  <1> QED BY <1>1, <1>7, <1>8, QuietTook DEF Taking, arrays

\* The channel that a request names.
LEMMA NamedChannel ==
    ASSUME NEW c, NEW m, Taking(c, m), NEW id, id = Found(m, m.recv), id # 0
    PROVE  id \in ToSet(chans[c]) /\ id \in DOMAIN ch /\ ch[id].conn = c
           /\ DOMAIN ch[id] = ThreadFields /\ DOMAIN ch[id].value = {"seg", "live"}
  <1>1. id \in {0} \cup ToSet(chans[c])
    BY FoundIn DEF Found, Taking, IInv
  <1> QED BY <1>1 DEF Taking, IInv, Arrays, Shapes, ThreadShapes

\* The message changed channel id of the connection into y.
LEMMA TakenTook ==
    ASSUME NEW c, NEW m, Taking(c, m), UNCHANGED <<conns, chans>>,
           NEW id, NEW y, id \in ToSet(chans[c]), ch' = [ch EXCEPT ![id] = y],
           y.conn = c, y.handle = ch[id].handle, y.maxSize = ch[id].maxSize,
           main'.pc \in {"select", "recv"} \/ main'.i = main.i, Handed(c)',
           Steady(c) => \/ Loose(c \in upset, cl[c])
                        \/ /\ id = chans[c][1]
                           /\ PhaseOf(selfID(c), c \in upset, cl[c], Tail(toServer[c]), toClient[c], chans[c], y,
                                      Num(c), Work(c)')
    PROVE  PInv'
  <1> DEFINE p == Tail(toServer[c])
  <1>1. /\ IInv /\ Shapes /\ PInv /\ server = "up" /\ main.pc = "recv" /\ c \in Clients /\ c = conn /\ sc.receiver # "stub"
        /\ UNCHANGED <<sc, server, upset, cl, gone, shut, toClient, conns, chans>>
        /\ toServer' = [toServer EXCEPT ![c] = p] /\ toServer[c] # << >>
    BY DEF Taking
  <1>2. \/ ~Steady(c) \/ Loose(c \in upset, cl[c])
        \/ id = chans[c][1]
           /\ PhaseOf(selfID(c), c \in upset, cl[c], p, toClient[c], chans[c], y, Num(c), Work(c)')
    OBVIOUS
  <1>3. p = Tail(toServer[c])
    OBVIOUS
  <1> HIDE DEF p
  <1> QED BY <1>1, <1>2, <1>3, ChangeTook

\* A FIN that ends a channel (server.c:247-254).
LEMMA FinishTook ==
    ASSUME NEW c, NEW m, Taking(c, m), m.intact, Finishes(m),
           IF Found(m, m.recv) # 0 THEN EndChannel(Found(m, m.recv), Fin(m, << >>))
           ELSE Answer(Fin(m, << >>)) /\ UNCHANGED <<arrays, ch>>
    PROVE  PInv'
  <1> SUFFICES ASSUME NEW id, id = Found(m, m.recv) PROVE PInv'
    OBVIOUS
  <1> DEFINE v == c \in upset
             a == Fin(m, << >>)
             p == Tail(toServer[c])
  <1>1. Steady(c) => \/ Loose(v, cl[c])
                     \/ /\ cl[c].pc = "finack" /\ Len(toServer[c]) = 1 /\ m.send = selfID(c)
                        /\ chans[c] # << >> /\ id = chans[c][1]
    BY RequestKinds DEF Taking
  <1>2. CASE id = 0
    <2>1. chans[c] # << >> => chans[c][1] # 0
      BY FirstChannel DEF Taking
    <2> QED BY <1>1, <1>2, <2>1, AnswerTook
  <1>3. CASE id # 0
    <2> DEFINE y == [ch[id] EXCEPT !.kill = TRUE]
               b2 == Work(c)'
    <2>1. /\ id \in ToSet(chans[c]) /\ id \in DOMAIN ch /\ ch[id].conn = c /\ DOMAIN ch[id] = ThreadFields
      BY <1>3, NamedChannel
    <2>2. /\ UNCHANGED <<conns, chans>> /\ ch' = [ch EXCEPT ![id] = y]
          /\ main' = [main EXCEPT !.pc = "join", !.at = id, !.answer = a]
      BY <1>3, <2>1 DEF EndChannel, UncountChannel
    <2>3. main'.pc = "join" /\ main'.at = id /\ main'.answer = a /\ main'.i = main.i
      <3> HIDE DEF a
      <3> QED BY <2>2, TakingFacts DEF MainFields
    <2>4. conn' = c
      BY <2>2, <2>3, ConnKept DEF Taking
    <2>5. b2.pc = "join" /\ b2.at = id /\ b2.answer = a
      <3> HIDE DEF a
      <3> QED BY <2>3, <2>4, WorkHere
    <2>6. y.conn = c /\ y.handle = ch[id].handle /\ y.maxSize = ch[id].maxSize /\ y.data = ch[id].data
          /\ y.value = ch[id].value /\ y.pc = ch[id].pc /\ y.clobbered = ch[id].clobbered
      BY <2>1 DEF ThreadFields
    <2>7. a # Null /\ (m.send = selfID(c) => IsFin(a, selfID(c)))
      <3>1. DOMAIN a = MsgFields /\ a.recv = m.send /\ a.type = "FIN" /\ a.seg = 0
        BY DEF Fin, form_msg, MsgFields
      <3>2. DOMAIN Null = {"msg"} /\ "msg" \notin MsgFields
        BY DEF Null, MsgFields
      <3> HIDE DEF a
      <3> QED BY <3>1, <3>2 DEF IsFin
    <2>8. PhaseOf(selfID(c), v, cl[c], toServer[c], toClient[c], chans[c], Mine(c), Num(c), Work(c)) \/ ~Steady(c)
      BY TakingFacts
    <2>9. Mails(toServer[c]) /\ toServer[c] # << >> /\ toServer[c][1].intact /\ Work(c).pc = "none"
      BY TakingFacts DEF Taking
    <2>10. Steady(c) => \/ Loose(v, cl[c])
                        \/ id = chans[c][1]
                           /\ PhaseOf(selfID(c), v, cl[c], p, toClient[c], chans[c], y, Num(c), b2)
      <3> SUFFICES ASSUME Steady(c), ~Loose(v, cl[c])
                   PROVE  /\ id = chans[c][1]
                          /\ PhaseOf(selfID(c), v, cl[c], p, toClient[c], chans[c], y, Num(c), b2)
        OBVIOUS
      <3>1. /\ cl[c].pc = "finack" /\ Len(toServer[c]) = 1 /\ m.send = selfID(c) /\ chans[c] # << >> /\ id = chans[c][1]
        BY <1>1
      <3>2. Mine(c) = ch[id] /\ DOMAIN Mine(c) = ThreadFields
        BY <2>1, <3>1 DEF Mine
      <3> HIDE DEF v, b2, a
      <3>3. y = [Mine(c) EXCEPT !.kill = TRUE]
        BY <3>2
      <3> HIDE DEF y
      <3>4. PhaseOf(selfID(c), v, cl[c], p, toClient[c], chans[c], y, Num(c), b2)
        BY <2>5, <2>7, <2>8, <2>9, <3>1, <3>2, <3>3, FinishPhase
      <3> QED BY <3>1, <3>4
    <2>11. Handed(c)'
      <3>1. ch'[id] = y /\ DOMAIN ch' = DOMAIN ch /\ \A k \in DOMAIN ch : k # id => ch'[k] = ch[k]
        BY <2>1, <2>2
      <3>2. toServer'[c] = p
        BY DEF Taking, Shapes, NetShapes
      <3> HIDE DEF y
      <3>3. Gentle(c)
        BY <2>1, <2>2, <2>3, <2>6, <3>1, <3>2 DEF Gentle, Taking
      <3> QED BY <3>3, GentleHanded DEF Taking, PInv
    <2> HIDE DEF y
    <2> QED BY <2>1, <2>2, <2>3, <2>6, <2>10, <2>11, TakenTook
  <1> QED BY <1>2, <1>3

\* The thread of a channel is told to start.
LEMMA ReadyTook ==
    ASSUME NEW c, NEW m, Taking(c, m), m.intact, Readies(m), UNCHANGED arrays, main' = NextEntry,
           ch' = [ch EXCEPT ![Found(m, m.recv)].ready = TRUE]
    PROVE  PInv'
  <1> SUFFICES ASSUME NEW id, id = Found(m, m.recv) PROVE PInv'
    OBVIOUS
  <1> DEFINE v == c \in upset
             p == Tail(toServer[c])
             y == [ch[id] EXCEPT !.ready = TRUE]
             b2 == Work(c)'
  <1>1. Steady(c) => \/ Loose(v, cl[c])
                     \/ /\ cl[c].pc \in {"gather", "fin", "finack"} /\ chans[c] # << >>
                        /\ Control1(m, selfID(c), chans[c][1], "SYN") /\ id = chans[c][1]
    BY RequestKinds DEF Taking
  <1>2. /\ id \in ToSet(chans[c]) /\ id \in DOMAIN ch /\ ch[id].conn = c /\ DOMAIN ch[id] = ThreadFields
    BY NamedChannel DEF Readies
  <1>3. ch' = [ch EXCEPT ![id] = y]
    BY <1>2
  <1>4. main'.pc \in {"select", "recv"} /\ b2.pc = "none"
    <2>1. main'.pc \in {"select", "recv"}
      BY LoopFields DEF NextEntry
    <2> QED BY <2>1, WorkNone
  <1>5. y.conn = c /\ y.handle = ch[id].handle /\ y.maxSize = ch[id].maxSize /\ y.data = ch[id].data
        /\ y.value = ch[id].value /\ y.pc = ch[id].pc /\ y.clobbered = ch[id].clobbered
    BY <1>2 DEF ThreadFields
  <1>6. PhaseOf(selfID(c), v, cl[c], toServer[c], toClient[c], chans[c], Mine(c), Num(c), Work(c)) \/ ~Steady(c)
    BY TakingFacts
  <1>7. Mails(toServer[c]) /\ toServer[c] # << >> /\ toServer[c][1] = m /\ Work(c).pc = "none"
    BY TakingFacts DEF Taking
  <1>8. Steady(c) => \/ Loose(v, cl[c])
                     \/ id = chans[c][1]
                        /\ PhaseOf(selfID(c), v, cl[c], p, toClient[c], chans[c], y, Num(c), b2)
    <2> SUFFICES ASSUME Steady(c), ~Loose(v, cl[c])
                 PROVE  /\ id = chans[c][1]
                        /\ PhaseOf(selfID(c), v, cl[c], p, toClient[c], chans[c], y, Num(c), b2)
      OBVIOUS
    <2>1. /\ cl[c].pc \in {"gather", "fin", "finack"} /\ chans[c] # << >>
          /\ Control1(toServer[c][1], selfID(c), chans[c][1], "SYN") /\ id = chans[c][1]
      BY <1>1, <1>7
    <2>2. Mine(c) = ch[id] /\ DOMAIN Mine(c) = ThreadFields
      BY <1>2, <2>1 DEF Mine
    <2> HIDE DEF v, b2
    <2>3. y = [Mine(c) EXCEPT !.ready = TRUE]
      BY <2>2
    <2> HIDE DEF y
    <2>4. PhaseOf(selfID(c), v, cl[c], p, toClient[c], chans[c], y, Num(c), b2)
      BY <1>4, <1>6, <1>7, <2>1, <2>2, <2>3, ReadiesPhase
    <2> QED BY <2>1, <2>4
  <1>9. Handed(c)'
    <2>1. ch'[id] = y /\ DOMAIN ch' = DOMAIN ch /\ \A k \in DOMAIN ch : k # id => ch'[k] = ch[k]
      BY <1>2, <1>3
    <2>2. toServer'[c] = p
      BY DEF Taking, Shapes, NetShapes
    <2> HIDE DEF y
    <2>3. UNCHANGED <<cl, chans>> /\ main'.pc # "flag" /\ toServer[c] # << >>
      BY <1>4 DEF Taking, arrays
    <2> HIDE DEF p
    <2>4. Gentle(c)
      BY <1>2, <1>5, <2>1, <2>2, <2>3 DEF Gentle, p
    <2> QED BY <2>4, GentleHanded DEF Taking, PInv
  <1> HIDE DEF y
  <1>10. UNCHANGED <<conns, chans>>
    BY DEF arrays
  <1>11. main'.pc \in {"select", "recv"} \/ main'.i = main.i
    BY <1>4
  <1>12. y.conn = c /\ y.handle = ch[id].handle /\ y.maxSize = ch[id].maxSize
    BY <1>5
  <1>13. Taking(c, m)
    OBVIOUS
  <1>14. /\ id \in ToSet(chans[c])
         /\ Steady(c) => \/ Loose(c \in upset, cl[c])
                         \/ /\ id = chans[c][1]
                            /\ PhaseOf(selfID(c), c \in upset, cl[c], Tail(toServer[c]), toClient[c], chans[c], y,
                                       Num(c), Work(c)')
    BY <1>2, <1>8
  <1> QED BY ONLY <1>3, <1>9, <1>10, <1>11, <1>12, <1>13, <1>14, TakenTook

\* The number of a segment is put where the thread finds it.
LEMMA AskTook ==
    ASSUME NEW c, NEW m, Taking(c, m), m.intact, Asks(m), UNCHANGED arrays,
           ch' = [ch EXCEPT ![Found(m, m.recv)].value = [seg |-> m.seg, live |-> TRUE],
                            ![Found(m, m.recv)].clobbered = @ \/ ch[Found(m, m.recv)].data],
           main' = [main EXCEPT !.pc = "flag", !.at = Found(m, m.recv)]
    PROVE  PInv'
  <1> SUFFICES ASSUME NEW id, id = Found(m, m.recv) PROVE PInv'
    OBVIOUS
  <1> DEFINE v == c \in upset
             p == Tail(toServer[c])
             w == [seg |-> m.seg, live |-> TRUE]
             y == [ch[id] EXCEPT !.value = w, !.clobbered = @ \/ ch[id].data]
             b2 == Work(c)'
  <1>1. Steady(c) => \/ Loose(v, cl[c])
                     \/ cl[c].pc = "answer" /\ chans[c] # << >> /\ id = chans[c][1]
    BY RequestKinds DEF Taking
  <1>2. /\ id \in ToSet(chans[c]) /\ id \in DOMAIN ch /\ ch[id].conn = c /\ DOMAIN ch[id] = ThreadFields
    BY NamedChannel DEF Asks
  <1>3. ch' = [ch EXCEPT ![id] = y]
    <2> HIDE DEF w
    <2>1. ch' = [ch EXCEPT ![id].value = w, ![id].clobbered = @ \/ ch[id].data]
      BY DEF w
    <2> QED BY <1>2, <2>1 DEF ThreadFields
  <1>4. main'.pc = "flag" /\ main'.at = id /\ main'.i = main.i
    BY TakingFacts DEF MainFields
  <1>5. conn' = c
    BY <1>4, ConnKept DEF Taking, arrays
  <1>6. b2.pc = "flag" /\ b2.at = id
    BY <1>4, <1>5, WorkHere
  <1>7. y.conn = c /\ y.handle = ch[id].handle /\ y.maxSize = ch[id].maxSize /\ y.data = ch[id].data
        /\ y.value = w /\ y.pc = ch[id].pc /\ (y.clobbered <=> ch[id].clobbered \/ ch[id].data)
    <2> HIDE DEF w
    <2> QED BY <1>2 DEF ThreadFields
  <1>w. w.seg = m.seg /\ w.live = TRUE
    OBVIOUS
  <1>8. PhaseOf(selfID(c), v, cl[c], toServer[c], toClient[c], chans[c], Mine(c), Num(c), Work(c)) \/ ~Steady(c)
    BY TakingFacts
  <1>9. Mails(toServer[c]) /\ toServer[c] # << >> /\ toServer[c][1] = m /\ Work(c).pc = "none" /\ 1 \in DOMAIN toServer[c]
    BY TakingFacts, TailSeq DEF Taking, Mails
  <1> HIDE DEF w
  <1>10. Steady(c) => \/ Loose(v, cl[c])
                      \/ id = chans[c][1]
                         /\ PhaseOf(selfID(c), v, cl[c], p, toClient[c], chans[c], y, Num(c), b2)
    <2> SUFFICES ASSUME Steady(c), ~Loose(v, cl[c])
                 PROVE  /\ id = chans[c][1]
                        /\ PhaseOf(selfID(c), v, cl[c], p, toClient[c], chans[c], y, Num(c), b2)
      OBVIOUS
    <2>1. cl[c].pc = "answer" /\ chans[c] # << >> /\ id = chans[c][1]
      BY <1>1
    <2>2. Mine(c) = ch[id] /\ DOMAIN Mine(c) = ThreadFields
      BY <1>2, <2>1 DEF Mine
    <2> HIDE DEF v, b2
    <2>3. y = [Mine(c) EXCEPT !.value = w, !.clobbered = @ \/ Mine(c).data]
      BY <2>2
    <2> HIDE DEF y
    <2>4. w.seg = toServer[c][1].seg /\ toServer[c][1].intact
      BY <1>9, <1>w
    <2>5. PhaseOf(selfID(c), v, cl[c], p, toClient[c], chans[c], y, Num(c), b2)
      BY <1>6, <1>8, <1>9, <2>1, <2>2, <2>3, <2>4, AsksPhase
    <2> QED BY <2>1, <2>5
  <1>11. Handed(c)'
    <2> SUFFICES ASSUME cl[c].inStep PROVE Handed(c)'
      BY DEF Handed, Taking
    <2>1. Handed(c) /\ UNCHANGED <<cl, chans>> /\ toServer'[c] = p
      BY DEF Taking, PInv, Shapes, NetShapes, arrays
    <2>2. ch'[id] = y /\ DOMAIN ch' = DOMAIN ch /\ \A k \in DOMAIN ch : k # id => ch'[k] = ch[k]
      BY <1>2, <1>3
    <2> HIDE DEF y, p
    <2>3. 1 \in AsksIn(toServer[c])
      BY <1>9 DEF AsksIn, Asks, Controls
    <2>4. ~ch[id].data /\ (\A i, j \in AsksIn(toServer[c]) : i = j)
      BY <1>2, <2>1, <2>3 DEF Handed
    <2>5. AsksIn(p) = {}
      BY <1>9, <2>3, <2>4, AsksTail DEF p
    <2>6. \A k \in DOMAIN ch : ch[k].conn = c => Relayed(ch[k])
      BY <2>1 DEF Handed
    <2>7. Relayed(y)
      BY <1>2, <1>7, <2>4, <2>6 DEF Relayed
    <2>8. \A k \in DOMAIN ch' : ch'[k].conn = c => Relayed(ch[k])'
      <3> SUFFICES ASSUME NEW k \in DOMAIN ch, ch'[k].conn = c PROVE Relayed(ch'[k])
        BY <2>2 DEF Relayed
      <3> QED BY <2>2, <2>6, <2>7
    <2>9. AsksIn(toServer[c])' = {}
      BY <2>1, <2>5 DEF AsksIn
    <2>10. ~ch'[main'.at].data /\ ch'[main'.at].value.live
      BY <1>4, <1>7, <1>w, <2>2, <2>4
    <2> QED BY <2>8, <2>9, <2>10 DEF Handed
  <1> HIDE DEF y
  <1>12. UNCHANGED <<conns, chans>>
    BY DEF arrays
  <1> QED BY <1>2, <1>3, <1>4, <1>7, <1>10, <1>11, <1>12, TakenTook

\* A file that is offered is a sequence of bytes.
LEMMA FileBytes ==
    ASSUME sc \in Scenarios, NEW file, NEW h, h = file_handle_for_file(handles, file), h # 0
    PROVE  handles[h].bytes \in Seq(Nat)
  <1> DEFINE s == handles
             I == {i \in 1 .. Len(s) : s[i].name = file}
             Entries == [name : Seq(STRING), d_type : Nat, bytes : Seq(Nat)]
  <1>1. s \in Seq(Entries)
    BY TransferAssumption DEF handles
  <1>2. DOMAIN s = 1 .. Len(s) /\ I \in SUBSET Nat
    <2> HIDE DEF Entries
    <2> QED BY <1>1
  <1>3. h = IF I # {} THEN Min(I) ELSE 0
    BY DEF file_handle_for_file, SelectInSeq
  <1>4. h \in DOMAIN s
    BY <1>2, <1>3, MinIn
  <1>5. s[h] \in Entries
    <2> HIDE DEF s, Entries
    <2> QED BY <1>1, <1>4
  <1> QED BY <1>5

\* Its number of segments.
LEMMA SegmentsNat ==
    ASSUME sc \in Scenarios, NEW file, NEW h, h = file_handle_for_file(handles, file), h # 0
    PROVE  num_segments_in_file_handle(handles[h].bytes, MAX_SIZE) \in Nat
  <1> DEFINE bytes == handles[h].bytes
  <1>1. Len(bytes) \in Nat /\ MAX_SIZE \in Nat \ {0}
    BY FileBytes, ClientAssumption
  <1>2. ASSUME NEW k \in Nat, NEW d \in Nat \ {0} PROVE k \div d \in Nat
    OBVIOUS
  <1>3. Len(bytes) \div MAX_SIZE \in Nat
    BY <1>1, <1>2
  <1> HIDE DEF bytes
  <1>4. num_segments_in_file_handle(bytes, MAX_SIZE) \in Nat
    BY <1>3 DEF num_segments_in_file_handle
  <1> QED BY <1>4 DEF bytes

\* A first request is refused, or answered for the channel that there is.
LEMMA OpenAnswers ==
    ASSUME NEW c, NEW m, Taking(c, m), m.intact, Opens(m), UNCHANGED <<arrays, ch>>, NEW a, Answer(a),
           \/ \E content : a = Fin(m, content)
           \/ Found(m, 0) # 0 /\ a = Acknowledged(m, Found(m, 0), ch[Found(m, 0)].handle, ch[Found(m, 0)].maxSize)
    PROVE  PInv'
  <1> DEFINE v == c \in upset
             n == Num(c)
             x == Mine(c)
  <1>1. Steady(c) => \/ Loose(v, cl[c])
                     \/ /\ cl[c].pc = "ack" /\ m.send = selfID(c) /\ Fresh(selfID(c), chans[c], x, n)
                        /\ Tail(toServer[c]) = << >> /\ toClient[c] = << >>
    BY RequestKinds DEF Taking
  <1>2. ASSUME m.send = selfID(c), Fresh(selfID(c), chans[c], x, n) PROVE Opened(a, selfID(c), chans[c], n)
    <2>1. CASE \E content : a = Fin(m, content)
      <3>1. a.recv = m.send /\ a.type = "FIN" /\ a.send = 0
        BY <2>1 DEF Fin, form_msg
      <3> QED BY <1>2, <3>1 DEF Opened
    <2>2. CASE Found(m, 0) # 0 /\ a = Acknowledged(m, Found(m, 0), ch[Found(m, 0)].handle, ch[Found(m, 0)].maxSize)
      <3> SUFFICES ASSUME NEW id, id = Found(m, 0) PROVE Opened(a, selfID(c), chans[c], n)
        OBVIOUS
      <3>1. id \in ToSet(chans[c])
        BY <2>2, FoundIn DEF Found, Taking, IInv
      <3>2. chans[c] \in Seq(Nat) /\ chans[c] # << >>
        BY <3>1 DEF Taking, IInv, Types, ToSet
      <3>3. Len(chans[c]) = 1
        BY <1>2, <3>2 DEF Fresh, Own
      <3>4. id = chans[c][1] /\ chans[c] = <<id>>
        BY <3>1, <3>2, <3>3 DEF ToSet
      <3>5. a.recv = m.send /\ a.type = "ACK" /\ a.send = id
            /\ a.seg = num_segments_in_file_handle(handles[ch[id].handle].bytes, ch[id].maxSize)
        BY <2>2 DEF Acknowledged, form_msg
      <3>6. n = num_segments_in_file_handle(handles[ch[id].handle].bytes, ch[id].maxSize)
        BY <3>2, <3>4 DEF Num, NumOf
      <3> HIDE DEF n
      <3> QED BY <1>2, <3>4, <3>5, <3>6 DEF Opened
    <2> QED BY <2>1, <2>2
  <1>3. ASSUME NEW b2, b2.pc = "send", b2.answer = a, cl[c].pc = "ack", m.send = selfID(c), Fresh(selfID(c), chans[c], x, n)
        PROVE  PhaseOf(selfID(c), v, cl[c], << >>, << >>, chans[c], x, n, b2)
    <2>1. Opened(b2.answer, selfID(c), chans[c], n)
      BY <1>2, <1>3
    <2> HIDE DEF v, x, n
    <2> QED BY <1>3, <2>1, OpenPhase
  <1>4. Steady(c) =>
          \/ Loose(v, cl[c])
          \/ \A b2 : b2.pc = "send" /\ b2.answer = a =>
               PhaseOf(selfID(c), v, cl[c], Tail(toServer[c]), toClient[c], chans[c], x, n, b2)
    <2> HIDE DEF v, x, n
    <2> QED BY <1>1, <1>3
  <1> QED BY <1>4, AnswerTook

\* A channel is opened.
LEMMA OpenNew ==
    ASSUME NEW c, NEW m, Taking(c, m), m.intact, Opens(m), Found(m, 0) = 0,
           NEW handle, handle = file_handle_for_file(handles, m.content), handle # 0,
           new_channel(conn, Len(ch) + 1), ch' = Append(ch, NewChannel(m, handle)),
           Answer(Acknowledged(m, Len(ch) + 1, handle, m.seg))
    PROVE  PInv'
  <1> SUFFICES ASSUME NEW a, a = Acknowledged(m, Len(ch) + 1, handle, m.seg),
                      NEW y, y = NewChannel(m, handle), NEW id, id = Len(ch) + 1
               PROVE  PInv'
    OBVIOUS
  <1>0. Taking(c, m) /\ sc \in Scenarios /\ IInv
    BY DEF Taking, IInv, Types
  <1>1. main'.pc = "send" /\ main'.answer = a /\ main'.i = main.i
    BY TakingFacts DEF Answer, MainFields
  <1>2. /\ conns' = conns /\ chans' = [chans EXCEPT ![c] = Append(@, id)] /\ c \in Clients /\ chans[c] \in Seq(Nat)
        /\ DOMAIN chans = Clients /\ IsSeq(ch)
    BY DEF new_channel, Taking, IInv, Types
  <1>3. conn' = c
    BY <1>1, <1>2, ConnKept DEF Taking
  <1>4. id \in Nat /\ id \notin DOMAIN ch /\ DOMAIN ch' = DOMAIN ch \cup {id} /\ ch'[id] = y
        /\ \A k \in DOMAIN ch : ch'[k] = ch[k]
    BY <1>2, AppendSeq
  <1>5. /\ y.conn = c /\ y.other = m.send /\ y.maxSize = m.seg /\ y.handle = handle /\ ~y.ready /\ ~y.kill /\ ~y.data
        /\ y.pc = "wait" /\ y.next = 1 /\ ~y.finished /\ y.again = {} /\ ~y.clobbered
    BY <1>0 DEF NewChannel, Taking
  <1>6. chans'[c] = Append(chans[c], id) /\ \A d \in Clients \ {c} : chans'[d] = chans[d]
    BY <1>2
  <1>7. \A k \in ToSet(chans'[c]) : k \in ToSet(chans[c]) \/ k = id
    BY <1>2, <1>6 DEF ToSet
  <1> DEFINE p == Tail(toServer[c])
             v == c \in upset
  <1>8. toServer'[c] = p /\ toClient'[c] = toClient[c] /\ \A d \in Clients \ {c} : toServer'[d] = toServer[d]
    BY DEF Taking, Shapes, NetShapes
  <1>9. UNCHANGED <<sc, server, upset, cl, gone, shut, toClient>>
    BY DEF Taking
  <1>10. MainOnly(c)
    BY <1>3, <1>4, <1>5, <1>6, <1>8, <1>9 DEF MainOnly
  <1>11. Gentle(c)
    <2>1. Relayed(ch[id])'
      BY <1>4, <1>5 DEF Relayed
    <2>2. toServer[c] # << >> /\ main'.pc # "flag"
      BY <1>1 DEF Taking
    <2>3. \A k \in DOMAIN ch' : k \in DOMAIN ch \/ k = id
      BY <1>4
    <2> QED BY <1>4, <1>5, <1>7, <1>8, <1>9, <2>1, <2>2, <2>3 DEF Gentle
  <1>12. Handed(c)'
    BY <1>11, GentleHanded DEF Taking, PInv
  <1>13. Steady(c) => \/ Loose(v, cl[c])
                      \/ /\ cl[c].pc = "ack" /\ m.send = selfID(c) /\ m.seg = MAX_SIZE
                         /\ Fresh(selfID(c), chans[c], Mine(c), Num(c)) /\ p = << >> /\ toClient[c] = << >>
    BY RequestKinds DEF Taking
  <1>14. ASSUME Steady(c) PROVE Phase(c)'
    <2>1. CASE Loose(v, cl[c])
      BY <1>9, <2>1 DEF Phase, PhaseOf, Loose, ClosePhase
    <2>2. CASE ~Loose(v, cl[c])
      <3>1. /\ cl[c].pc = "ack" /\ m.send = selfID(c) /\ m.seg = MAX_SIZE
            /\ Fresh(selfID(c), chans[c], Mine(c), Num(c)) /\ p = << >> /\ toClient[c] = << >>
        BY <1>13, <1>14, <2>2
      <3>2. chans[c] = << >>
        <4> SUFFICES ASSUME chans[c] # << >> PROVE FALSE
          OBVIOUS
        <4>1. Len(chans[c]) = 1 /\ Mine(c).other = m.send
          BY <3>1 DEF Fresh, Own
        <4>2. chans[c][1] \in DOMAIN ch /\ Mine(c) = ch[chans[c][1]] /\ chans[c][1] # 0
          BY FirstChannel DEF Taking
        <4>3. otherID[chans[c][1]] = m.send
          BY <4>1, <4>2 DEF otherID
        <4>4. Found(m, 0) = chans[c][1]
          BY <4>1, <4>3, FoundOwn DEF Found, Taking, IInv
        <4> QED BY <4>2, <4>4
      <3>3. chans'[c] = <<id>>
        BY <1>6, <3>2
      <3>4. handles' = handles /\ selfID(c)' = selfID(c)
        BY <1>9 DEF handles, selfID
      <3>5. Mine(c)' = y
        BY <1>4, <3>3 DEF Mine
      <3> DEFINE n2 == num_segments_in_file_handle(handles[handle].bytes, m.seg)
                 b2 == Work(c)'
      <3>6. Num(c)' = n2
        BY <1>4, <1>5, <3>3, <3>4 DEF Num, NumOf
      <3>7. n2 \in Nat
        BY <1>0, <3>1, SegmentsNat
      <3>8. a.send = id /\ a.recv = m.send /\ a.type = "ACK" /\ a.seg = n2
        BY DEF Acknowledged, form_msg
      <3>9. b2.pc = "send" /\ b2.answer = a
        BY <1>1, <1>3, WorkHere
      <3> HIDE DEF n2, b2, v
      <3>10. Opened(b2.answer, selfID(c), <<id>>, n2)
        BY <3>1, <3>8, <3>9 DEF Opened
      <3>11. Fresh(selfID(c), <<id>>, y, n2)
        <4>1. 1 \in 1 .. n2 + 2 /\ Len(<<id>>) = 1
          BY <3>7
        <4> QED BY <1>5, <3>1, <3>7, <4>1 DEF Fresh, Own, Calm
      <3>12. PhaseOf(selfID(c), v, cl[c], << >>, << >>, <<id>>, y, n2, b2)
        BY <3>1, <3>9, <3>10, <3>11, OpenPhase
      <3> QED BY <1>8, <1>9, <3>1, <3>3, <3>4, <3>5, <3>6, <3>12 DEF Phase, v, b2
    <2> QED BY <2>1, <2>2
  <1>15. /\ IInv /\ Shapes /\ PInv /\ server = "up" /\ main.pc = "recv" /\ c \in Clients /\ sc.receiver # "stub"
         /\ UNCHANGED <<gone, shut, toClient>>
         /\ toServer'[c] = toServer[c] \/ (toServer[c] # << >> /\ toServer'[c] = Tail(toServer[c]))
    BY <1>8 DEF Taking
  <1> QED BY <1>10, <1>12, <1>14, <1>15, TookPInv

\* A request to open a channel.
LEMMA OpenTook ==
    ASSUME NEW c, NEW m, Taking(c, m), m.intact, Opens(m), Open(m)
    PROVE  PInv'
  <1> DEFINE handle == file_handle_for_file(handles, m.content)
             id == Found(m, 0)
  <1>1. totalChannels >= sc.slots \/ totalChannels < sc.slots
    BY DEF Taking, IInv, Types
  <1>2. CASE /\ UNCHANGED <<arrays, ch>>
             /\ \E a : /\ Answer(a)
                       /\ \/ \E content : a = Fin(m, content)
                          \/ id # 0 /\ a = Acknowledged(m, id, ch[id].handle, ch[id].maxSize)
    BY <1>2, OpenAnswers
  <1>3. CASE /\ handle # 0 /\ id = 0 /\ new_channel(conn, Len(ch) + 1)
             /\ ch' = Append(ch, NewChannel(m, handle))
             /\ Answer(Acknowledged(m, Len(ch) + 1, handle, m.seg))
    BY <1>3, OpenNew
  <1>4. \/ Answer(Fin(m, << >>)) /\ UNCHANGED <<arrays, ch>>
        \/ Answer(Fin(m, m.content)) /\ UNCHANGED <<arrays, ch>>
        \/ id # 0 /\ Answer(Acknowledged(m, id, ch[id].handle, ch[id].maxSize)) /\ UNCHANGED <<arrays, ch>>
        \/ /\ handle # 0 /\ id = 0 /\ new_channel(conn, Len(ch) + 1)
           /\ ch' = Append(ch, NewChannel(m, handle))
           /\ Answer(Acknowledged(m, Len(ch) + 1, handle, m.seg))
    <2>1. Open(m)
      OBVIOUS
    <2> HIDE DEF handle, id
    <2>2. CASE handle = 0
      BY <2>1, <2>2, Zenon DEF Open, handle, id
    <2>3. CASE handle # 0 /\ totalChannels >= sc.slots
      BY <1>1, <2>1, <2>3 DEF Open, handle, id
    <2>4. CASE handle # 0 /\ totalChannels < sc.slots
      BY <1>1, <2>1, <2>4, Zenon DEF Open, handle, id
    <2> QED BY <1>1, <2>2, <2>3, <2>4
  <1> QED BY <1>2, <1>3, <1>4, Zenon

\* Any message.
LEMMA MessageTook ==
    ASSUME NEW c, NEW m, Taking(c, m), m # Null, Handle(m)
    PROVE  PInv'
  <1>1. CASE m.intact /\ Disconnects(m) /\ main' = [main EXCEPT !.pc = "endconn"] /\ UNCHANGED <<arrays, ch>>
    BY <1>1, DisconnectTook
  <1>2. CASE ~m.intact /\ Answer(Control(m, "RTS")) /\ UNCHANGED <<arrays, ch>>
    BY <1>2, DamagedTook
  <1>3. CASE m.intact /\ Opens(m) /\ Open(m)
    BY <1>3, OpenTook
  <1>4. CASE /\ m.intact /\ Finishes(m)
             /\ IF Found(m, m.recv) # 0 THEN EndChannel(Found(m, m.recv), Fin(m, << >>))
                ELSE Answer(Fin(m, << >>)) /\ UNCHANGED <<arrays, ch>>
    BY <1>4, FinishTook
  <1>5. CASE /\ m.intact /\ Readies(m) /\ ch' = [ch EXCEPT ![Found(m, m.recv)].ready = TRUE]
             /\ main' = NextEntry /\ UNCHANGED arrays
    BY <1>5, ReadyTook
  <1>6. CASE /\ m.intact /\ Asks(m)
             /\ ch' = [ch EXCEPT ![Found(m, m.recv)].value = [seg |-> m.seg, live |-> TRUE],
                                 ![Found(m, m.recv)].clobbered = @ \/ ch[Found(m, m.recv)].data]
             /\ main' = [main EXCEPT !.pc = "flag", !.at = Found(m, m.recv)] /\ UNCHANGED arrays
    BY <1>6, AskTook
  <1>7. CASE /\ m.intact /\ ~(Disconnects(m) \/ Opens(m) \/ Finishes(m) \/ Readies(m) \/ Asks(m))
             /\ Answer(Control(m, "NACK")) /\ UNCHANGED <<arrays, ch>>
    BY <1>7, NackTook
  <1> QED BY <1>1, <1>2, <1>3, <1>4, <1>5, <1>6, <1>7 DEF Handle

\* recv_msg and the dispatch of what it gives.
LEMMA ReceivePInv ==
    ASSUME IInv, IInv', Shapes, PInv, Receive, UNCHANGED cl
    PROVE  PInv'
  <1> SUFFICES ASSUME NEW c, c = conn, NEW m, m = Incoming.msg PROVE PInv'
    OBVIOUS
  <1>1. /\ main.pc = "recv" /\ server = "up" /\ c \in Clients /\ Handle(m) /\ CanRecv(toServer[c], gone[c], recvMutex)
        /\ toServer' = [toServer EXCEPT ![c] = Incoming.rest]
        /\ UNCHANGED <<sc, server, toClient, gone, shut, backlog, altered, upset>>
    BY AtConn DEF Receive, At, Incoming
  <1>3. DOMAIN main = MainFields
    BY DEF IInv, Types
  <1>4. Incoming.rest = toServer[c] => \A d \in Clients : toServer'[d] = toServer[d]
    BY <1>1 DEF Shapes, NetShapes
  <1>5. /\ m # Null => /\ toServer[c] # << >> /\ m = toServer[c][1]
                       /\ Incoming.rest = Tail(toServer[c]) /\ sc.receiver # "stub"
        /\ m = Null => IF sc.receiver = "stub" THEN Incoming.rest = toServer[c]
                       ELSE Incoming.rest = << >> /\ (toServer[c] = << >> \/ Torn(toServer[c]))
    BY <1>1, IncomingMails DEF Shapes
  <1>7. CASE m = Null
    <2>1. main' = [main EXCEPT !.pc = "endconn"] /\ UNCHANGED <<arrays, ch>>
      BY <1>1, <1>7 DEF Handle
    <2>2. main'.pc = "endconn" /\ main'.i = main.i /\ conns' = conns /\ chans' = chans
      BY <1>3, <2>1 DEF MainFields, arrays
    <2>3. conn' = c
      BY <2>2, ConnKept
    <2>4. CASE sc.receiver = "stub"
      <3>0. \A d \in Clients : toServer'[d] = toServer[d]
        BY <1>4, <1>5, <1>7, <2>4
      <3>1. MainOnly(c)
        BY <1>1, <3>0, <2>1, <2>2, <2>3 DEF MainOnly
      <3>2. Gentle(c)
        BY <1>1, <3>0, <2>1, <2>2 DEF Gentle
      <3>3. Handed(c)'
        BY <1>1, <3>2, GentleHanded DEF PInv
      <3>4. StubInv' /\ Talks(c)'
        BY <1>1, <2>1, <2>2, <2>4 DEF StubInv, PInv, Talks
      <3> QED BY <1>1, <3>1, <3>3, <3>4, MainPInv
    <2>5. CASE sc.receiver # "stub"
      <3>1. gone[c] # "no" /\ (Steady(c) => toServer[c] = << >>)
        <4>1. Steady(c) => ~Torn(toServer[c])
          BY <1>1, SoundFramed DEF PInv, Talks, Steady, Shapes, NetShapes
        <4> QED BY <1>1, <1>5, <1>7, <2>5, <4>1 DEF CanRecv, Framed
      <3> DEFINE b2 == Work(c)'
                 v == c \in upset
                 p == << >>
      <3>2. b2.pc = "endconn"
        BY <2>2, <2>3, WorkHere
      <3>3. Steady(c) => PhaseOf(selfID(c), v, cl[c], p, toClient[c], chans[c], Mine(c), Num(c), b2)
        <4> SUFFICES ASSUME Steady(c)
                     PROVE  PhaseOf(selfID(c), v, cl[c], p, toClient[c], chans[c], Mine(c), Num(c), b2)
          OBVIOUS
        <4>1. cl[c].pc \in {"done", "crashed"} /\ Phase(c)
          BY <1>1, <3>1 DEF PInv, Talks, Steady
        <4>2. PhaseOf(selfID(c), v, cl[c], p, toClient[c], chans[c], Mine(c), Num(c), Work(c))
          BY <3>1, <4>1 DEF Phase
        <4> HIDE DEF v, b2
        <4> QED BY <3>2, <4>1, <4>2, EofPhase
      <3>4. toServer' = [toServer EXCEPT ![c] = p]
        BY <1>1, <1>5, <1>7, <2>5
      <3>5. /\ UNCHANGED <<sc, server, upset, cl, gone, shut, toClient, ch, conns, chans>> /\ main'.pc # "flag"
        BY <1>1, <2>1, <2>2
      <3> QED BY <1>1, <2>2, <2>5, <3>3, <3>4, <3>5, QuietTook
    <2> QED BY <2>4, <2>5
  <1>8. CASE m # Null
    <2>1. Taking(c, m)
      BY <1>1, <1>5, <1>8 DEF Taking
    <2> QED BY <1>1, <1>8, <2>1, MessageTook
  <1> QED BY <1>7, <1>8

\* The select loop keeps the invariant.
LEMMA MainStepPInv ==
    ASSUME IInv, Shapes, PInv, MainStep, UNCHANGED cl
    PROVE  PInv'
  <1>1. IInv'
    BY MainStepIInv
  <1> QED BY <1>1, SelectPInv, ReceivePInv, FlagPInv, ReplyPInv, JoinPInv, EndConnectionPInv DEF MainStep

\* The initial states.
LEMMA InitPInv == Init => PInv
  <1> SUFFICES ASSUME Init PROVE PInv
    OBVIOUS
  <1>1. /\ server = "up" /\ upset = {} /\ main.pc = "select" /\ ch = << >>
        /\ \A c \in Clients : /\ toServer[c] = << >> /\ toClient[c] = << >> /\ gone[c] = "no" /\ shut[c] = "no"
                              /\ chans[c] = << >> /\ cl[c].pc \in {"connect", "done"} /\ cl[c].inStep
    BY DEF Init, NetInit, ServerInit, ArraysInit, ClientInit
  <1>2. DOMAIN ch = {}
    BY <1>1
  <1>3. ASSUME NEW c \in Clients PROVE Talks(c) /\ Handed(c)
    <2>1. Work(c).pc = "none"
      BY <1>1 DEF Work, NoWork
    <2>2. Sound(c \in upset, toServer[c], toClient[c])
      BY <1>1 DEF Sound
    <2>3. Phase(c)
      <3>1. SynPhase(toServer[c], toClient[c], chans[c], Work(c))
        BY <1>1, <2>1 DEF SynPhase, Idle
      <3>2. ASSUME NEW u PROVE ClosePhase(u, toServer[c], toClient[c], chans[c], Work(c))
        BY <1>1, <2>1 DEF ClosePhase
      <3>3. cl[c].pc \in {"connect", "done"}
        BY <1>1
      <3> QED BY <3>1, <3>2, <3>3 DEF Phase, PhaseOf
    <2>4. AsksIn(toServer[c]) = {}
      BY <1>1 DEF AsksIn
    <2> QED BY <1>1, <1>2, <2>2, <2>3, <2>4 DEF Talks, Handed
  <1>4. StubInv /\ Deaths
    BY <1>1 DEF StubInv, Deaths
  <1> QED BY <1>1, <1>3, <1>4 DEF PInv

\* The invariant of the arrays and of the exchange.
Full == IInv /\ Shapes /\ PInv

\* Wherever a client is in its download (client.c:18-111), as long as it is in step: what was sent and
\* not yet read, in both directions, where its thread is and what it was handed fit together.  Damage
\* within a message keeps this; damage that joins or splits messages (socket_msg_help.c:34-51) puts the
\* client out of step, and then the rest of the invariant is what stands.
THEOREM ExchangeInvariance == Spec => []Full
  <1>1. Init => Full
    BY InitIInv, InitShapes, InitPInv DEF Full
  <1>2. ASSUME Full, Next PROVE Full'
    <2>1. CASE ServerMain
      BY <1>2, <2>1, MainStepIInv, MainStepShapes, MainStepPInv DEF ServerMain, Full
    <2>2. CASE \E id \in 1 .. MaxChannels : ServerThread(id)
      BY <1>2, <2>2, ThreadStepIInv, ThreadStepShapes, ThreadPInv DEF ServerThread, Full
    <2>3. ASSUME NEW c \in Clients, Client(c) PROVE Full'
      <3>1. ClientStep(c) /\ UNCHANGED <<arrays, serverVars>>
        BY <2>3 DEF Client
      <3>2. NetShapes' /\ ClientShapes'
        BY <1>2, <3>1, ClientStepShapes DEF Full, Shapes
      <3>3. Shapes'
        BY <1>2, <3>1, <3>2 DEF Full, Shapes, ThreadShapes, AnswerShapes, serverVars
      <3> QED BY <1>2, <2>3, <3>1, <3>3, ClientIInv, ClientPInv DEF Full
    <2>4. CASE Disturb
      BY <1>2, <2>4, DisturbIInv, DisturbShapes, DisturbPInv DEF Full
    <2> QED BY <1>2, <2>1, <2>2, <2>3, <2>4 DEF Next
  <1>3. ASSUME Full, UNCHANGED vars PROVE Full'
    <2>1. UNCHANGED <<net, arrays, main, ch, cl>> /\ Still
      BY <1>3 DEF vars, serverVars, Still, net
    <2>2. IInv'
      BY <1>3, <2>1, StillPreserves DEF Full
    <2>3. Shapes'
      BY <1>3, <2>1 DEF Full, Shapes, NetShapes, ClientShapes, ThreadShapes, AnswerShapes, net
    <2>4. PInv'
      BY <1>3, <2>1, StutterPInv DEF Full
    <2> QED BY <2>2, <2>3, <2>4 DEF Full
  <1> QED BY <1>1, <1>2, <1>3, PTL DEF Spec

\* The client takes only the message it waits for (client.c:18-111): it loses step only when it
\* was upset.
THEOREM InOrder == Spec => []AnswersInOrder
  <1>1. Full => AnswersInOrder
    BY DEF Full, PInv, AnswersInOrder
  <1> QED BY <1>1, ExchangeInvariance, PTL

\* The hand-over without a lock (server.c:234-239, server_help.c:53-56): no request is
\* replaced before the thread is done with it, and none is used after it was freed.
THEOREM RelayIsSafe == Spec => []RelaySafe
  <1>1. Full => RelaySafe
    <2> SUFFICES ASSUME Full, NEW id \in DOMAIN ch, cl[ch[id].conn].inStep
                 PROVE  ~ch[id].clobbered /\ (ch[id].pc \in {"relay", "free"} => ch[id].value.live)
      BY DEF RelaySafe
    <2>1. ch[id].conn \in Clients
      BY DEF Full, IInv, Types
    <2>2. Relayed(ch[id])
      BY <2>1 DEF Full, PInv, Handed
    <2> QED BY <2>2 DEF Relayed
  <1> QED BY <1>1, ExchangeInvariance, PTL

\* What the server process dies of: exit after accept, a second free, or SIGPIPE
\* (server.c:131-134, server_help.c:84, socket_help.c:27-35).
THEOREM OnlyTheseDeaths == Spec => []ServerSurvives
  <1>1. Full => ServerSurvives
    BY DEF Full, PInv, Deaths, ServerSurvives
  <1> QED BY <1>1, ExchangeInvariance, PTL

---------------------------------------------------------------------------
(* The content of the messages, and of what the client writes.  A client   *)
(* in step took segments 1, 2, ... in order; that they are segments of the *)
(* served file follows from what the messages under way carry, so that     *)
(* what it has written is a prefix of that file all along.                 *)

\* The end of the first k segments of a file, and those segments.
EndOf(F, k) == IF k * MAX_SIZE > Len(F) THEN Len(F) ELSE k * MAX_SIZE
Upto(F, k) == SubSeq(F, 1, EndOf(F, k))
Total(F) == num_segments_in_file_handle(F, MAX_SIZE)

\* A number of segments does not reach behind one of more.
LEMMA Times ==
    ASSUME NEW a \in Nat, NEW b \in Nat, a <= b, NEW n \in Nat
    PROVE  a * n \in Nat /\ b * n \in Nat /\ a * n <= b * n
  <1>1. PICK d \in Nat : b = a + d
    <2>1. b - a \in Nat /\ b = a + (b - a)
      OBVIOUS
    <2> QED BY <2>1
  <1>2. b * n = a * n + d * n
    BY <1>1
  <1>3. a * n \in Nat /\ d * n \in Nat
    BY <1>1
  <1> QED BY <1>2, <1>3

\* The multiple behind q * n.
LEMMA NextMultiple ==
    ASSUME NEW q \in Nat, NEW n \in Nat
    PROVE  (q + 1) * n = q * n + n /\ q * n \in Nat
  OBVIOUS

\* Every segment but the empty one starts inside the file, and the last one ends it.
LEMMA TotalCovers ==
    ASSUME NEW F \in Seq(Nat)
    PROVE  /\ Total(F) \in Nat /\ Total(F) * MAX_SIZE >= Len(F)
           /\ \A k \in 1 .. Total(F) : (k - 1) * MAX_SIZE \in Nat /\ (k - 1) * MAX_SIZE < Len(F)
                                       /\ k * MAX_SIZE = (k - 1) * MAX_SIZE + MAX_SIZE
  <1> SUFFICES ASSUME NEW n, n = MAX_SIZE, NEW l, l = Len(F), NEW q, q = l \div n, NEW r, r = l % n
               PROVE  /\ Total(F) \in Nat /\ Total(F) * n >= l
                      /\ \A k \in 1 .. Total(F) : (k - 1) * n \in Nat /\ (k - 1) * n < l /\ k * n = (k - 1) * n + n
    OBVIOUS
  <1>1. n \in Nat \ {0} /\ l \in Nat
    BY ClientAssumption
  <1>2. q \in Nat /\ r \in 0 .. n - 1 /\ l = q * n + r
    <2>1. q \in Nat /\ r \in 0 .. n - 1 /\ l = n * q + r
      BY ONLY <1>1, q = l \div n, r = l % n
    <2> QED BY ONLY <1>1, <2>1
  <1>3. Total(F) = q + (IF r = 0 THEN 0 ELSE 1)
    BY DEF Total, num_segments_in_file_handle
  <1>4. (q + 1) * n = q * n + n /\ q * n \in Nat
    BY ONLY <1>1, <1>2, NextMultiple
  <1>5. Total(F) \in Nat
    BY ONLY <1>2, <1>3
  <1>6. Total(F) * n >= l
    <2>1. CASE r = 0
      <3>1. Total(F) = q /\ l = q * n
        BY ONLY <1>2, <1>3, <1>4, <2>1
      <3> QED BY ONLY <1>1, <3>1
    <2>2. CASE r # 0
      <3>1. Total(F) = q + 1
        BY ONLY <1>2, <1>3, <2>2
      <3>2. l <= q * n + n
        BY ONLY <1>1, <1>2, <1>4
      <3> QED BY ONLY <1>1, <1>4, <3>1, <3>2
    <2> QED BY <2>1, <2>2
  <1>7. ASSUME NEW k \in 1 .. Total(F)
        PROVE  (k - 1) * n \in Nat /\ (k - 1) * n < l /\ k * n = (k - 1) * n + n
    <2>0. k \in Nat /\ k - 1 \in Nat
      BY ONLY <1>5, k \in 1 .. Total(F)
    <2>1. k * n = (k - 1) * n + n /\ (k - 1) * n \in Nat
      <3> DEFINE j == k - 1
      <3>1. j \in Nat /\ k = j + 1
        BY ONLY <2>0
      <3> HIDE DEF j
      <3>2. (j + 1) * n = j * n + n /\ j * n \in Nat
        BY ONLY <1>1, <3>1, NextMultiple
      <3>3. k * n = j * n + n /\ j * n \in Nat
        BY ONLY <3>1, <3>2
      <3> QED BY ONLY <3>3 DEF j
    <2>2. CASE r = 0
      <3>1. k <= q
        BY ONLY <1>2, <1>3, <2>2, k \in 1 .. Total(F)
      <3>2. k * n \in Nat /\ k * n <= q * n
        BY ONLY <1>1, <1>2, <2>0, <3>1, Times
      <3>3. l = q * n
        BY ONLY <1>2, <1>4, <2>2
      <3>4. (k - 1) * n < l
        BY ONLY <1>1, <1>4, <2>1, <3>2, <3>3
      <3> QED BY ONLY <2>1, <3>4
    <2>3. CASE r # 0
      <3>1. k - 1 <= q
        BY ONLY <1>2, <1>3, <2>3, k \in 1 .. Total(F)
      <3>2. (k - 1) * n <= q * n
        BY ONLY <1>1, <1>2, <2>0, <3>1, Times
      <3>3. q * n < l
        BY ONLY <1>2, <1>4, <2>3
      <3>4. (k - 1) * n < l
        BY ONLY <1>1, <1>2, <1>4, <2>1, <3>2, <3>3
      <3> QED BY ONLY <2>1, <3>4
    <2> QED BY <2>2, <2>3
  <1> QED BY <1>5, <1>6, <1>7

\* The segments of a file, of which no offset exceeds 32 bits (file_handle.c:152-164).
LEMMA SegmentOf ==
    ASSUME NEW F \in Seq(Nat), NEW k \in 1 .. Total(F), Len(F) <= Wrap
    PROVE  /\ segment_in_file_handle(F, k, MAX_SIZE) = SubSeq(F, EndOf(F, k - 1) + 1, EndOf(F, k))
           /\ EndOf(F, k - 1) \in Nat /\ EndOf(F, k) \in Nat
           /\ EndOf(F, k - 1) < EndOf(F, k) /\ EndOf(F, k) <= Len(F)
  <1> SUFFICES ASSUME NEW n, n = MAX_SIZE, NEW l, l = Len(F), NEW a, a = (k - 1) * n, NEW b, b = k * n
               PROVE  /\ segment_in_file_handle(F, k, n) = SubSeq(F, EndOf(F, k - 1) + 1, EndOf(F, k))
                      /\ EndOf(F, k - 1) \in Nat /\ EndOf(F, k) \in Nat
                      /\ EndOf(F, k - 1) < EndOf(F, k) /\ EndOf(F, k) <= l
    OBVIOUS
  <1>1. n \in Nat \ {0} /\ l \in Nat /\ Wrap \in Nat /\ l <= Wrap /\ Total(F) \in Nat
    BY ClientAssumption, WrapAssumption, TotalCovers
  <1>2. a \in Nat /\ a < l /\ b = a + n
    BY TotalCovers
  <1>3. EndOf(F, k - 1) = a /\ EndOf(F, k) = IF b > l THEN l ELSE b
    BY <1>1, <1>2 DEF EndOf
  <1>4. a % Wrap = a
    BY ONLY <1>1, <1>2
  <1>5. k # 0 /\ ~(k > Total(F))
    BY <1>1
  <1>6. segment_in_file_handle(F, k, n)
          = SubSeq(F, (a % Wrap) + 1, (a % Wrap) + (IF a + n > l THEN l - a ELSE n))
    BY ONLY <1>5, l = Len(F), a = (k - 1) * n, n = MAX_SIZE, Zenon DEF segment_in_file_handle, Total
  <1>7. a + (IF a + n > l THEN l - a ELSE n) = EndOf(F, k)
    BY ONLY <1>1, <1>2, <1>3
  <1>8. segment_in_file_handle(F, k, n) = SubSeq(F, a + 1, EndOf(F, k))
    BY ONLY <1>4, <1>6, <1>7
  <1>9. EndOf(F, k) \in Nat /\ a < EndOf(F, k) /\ EndOf(F, k) <= l
    BY ONLY <1>1, <1>2, <1>3
  <1> QED BY ONLY <1>2, <1>3, <1>8, <1>9

\* The segments written so far, and the next one, make up the file so far.
LEMMA Grows ==
    ASSUME NEW F \in Seq(Nat), NEW p \in Nat, NEW e \in Nat, p < e, e <= Len(F)
    PROVE  fwrite(SubSeq(F, 1, p), p, SubSeq(F, p + 1, e)) = SubSeq(F, 1, e)
  <1> DEFINE out == SubSeq(F, 1, p)
             bytes == SubSeq(F, p + 1, e)
  <1>1. Len(out) = p /\ Len(bytes) = e - p /\ bytes # << >> /\ Len(F) \in Nat
    OBVIOUS
  <1>2. \A k \in 1 .. p : out[k] = F[k]
    OBVIOUS
  <1>3. \A k \in 1 .. e - p : bytes[k] = F[p + k]
    OBVIOUS
  <1>4. Max({Len(out), p + Len(bytes)}) = e
    <2>1. Len(out) = p /\ p + Len(bytes) = e
      BY <1>1
    <2> HIDE DEF out, bytes
    <2>2. Max({p, e}) = e
      BY DEF Max
    <2> QED BY <2>1, <2>2
  <1>5. /\ SubSeq(F, 1, e) = [k \in 1 .. e |-> F[k]]
    OBVIOUS
  <1> HIDE DEF out, bytes
  <1>6. fwrite(out, p, bytes) = [k \in 1 .. e |-> IF k \in p + 1 .. p + Len(bytes) THEN bytes[k - p]
                                                  ELSE IF k <= Len(out) THEN out[k] ELSE 0]
    BY <1>1, <1>4 DEF fwrite
  <1>7. ASSUME NEW k \in 1 .. e
        PROVE  (IF k \in p + 1 .. p + Len(bytes) THEN bytes[k - p] ELSE IF k <= Len(out) THEN out[k] ELSE 0) = F[k]
    <2>1. CASE k <= p
      BY <1>1, <1>2, <2>1
    <2>2. CASE k > p
      <3>1. k - p \in 1 .. e - p /\ p + (k - p) = k
        BY <2>2
      <3>2. bytes[k - p] = F[k]
        BY <1>3, <3>1
      <3> QED BY <1>1, <2>2, <3>2
    <2> QED BY <2>1, <2>2
  <1> QED BY <1>5, <1>6, <1>7 DEF out, bytes

\* A segment is written behind those before it.
LEMMA UptoGrows ==
    ASSUME NEW F \in Seq(Nat), NEW k \in 1 .. Total(F), Len(F) <= Wrap,
           NEW content, content = segment_in_file_handle(F, k, MAX_SIZE), NEW p, p = Len(Upto(F, k - 1))
    PROVE  fwrite(Upto(F, k - 1), p, content) = Upto(F, k) /\ p + Len(content) = Len(Upto(F, k))
  <1> SUFFICES ASSUME NEW a, a = EndOf(F, k - 1), NEW b, b = EndOf(F, k)
               PROVE  fwrite(SubSeq(F, 1, a), p, content) = SubSeq(F, 1, b) /\ p + Len(content) = Len(SubSeq(F, 1, b))
    BY DEF Upto
  <1>1. a \in Nat /\ b \in Nat /\ a < b /\ b <= Len(F) /\ content = SubSeq(F, a + 1, b)
    BY SegmentOf
  <1>2. p = Len(SubSeq(F, 1, a))
    BY DEF Upto
  <1>3. Len(SubSeq(F, 1, a)) = a /\ Len(SubSeq(F, a + 1, b)) = b - a /\ Len(SubSeq(F, 1, b)) = b
    BY ONLY <1>1, F \in Seq(Nat)
  <1>4. fwrite(SubSeq(F, 1, a), a, SubSeq(F, a + 1, b)) = SubSeq(F, 1, b)
    BY ONLY <1>1, F \in Seq(Nat), Grows
  <1> QED BY ONLY <1>1, <1>2, <1>3, <1>4

\* Before the first segment, behind the last one, and the empty one.
LEMMA UptoEnds ==
    ASSUME NEW F \in Seq(Nat)
    PROVE  /\ Upto(F, 0) = << >> /\ Upto(F, Total(F)) = F
           /\ segment_in_file_handle(F, Total(F) + 1, MAX_SIZE) = << >>
  <1>1. Total(F) \in Nat /\ Total(F) * MAX_SIZE >= Len(F) /\ Len(F) \in Nat /\ MAX_SIZE \in Nat
    BY TotalCovers, ClientAssumption
  <1>2. EndOf(F, 0) = 0
    BY <1>1 DEF EndOf
  <1>3. EndOf(F, Total(F)) = Len(F)
    <2>1. Total(F) * MAX_SIZE \in Nat
      BY ONLY <1>1
    <2> QED BY <1>1, <2>1 DEF EndOf
  <1>4. SubSeq(F, 1, 0) = << >> /\ SubSeq(F, 1, Len(F)) = F
    OBVIOUS
  <1>5. segment_in_file_handle(F, Total(F) + 1, MAX_SIZE) = << >>
    BY <1>1 DEF segment_in_file_handle, Total
  <1> QED BY <1>2, <1>3, <1>4, <1>5 DEF Upto

\* The states of a client that knows of a channel.
InChannel == {"ready", "gather", "rts", "answer"}

\* No segment but the empty one was damaged, and the offsets fit.
Whole(s, F) == s.missed \subseteq {Total(F) + 1} /\ Len(F) <= Wrap

\* What a client has written of file F, offered as number h: out is a prefix of it while the
\* client gathers, and all of it afterwards (client.c:50-101).
Account(s, h, F) ==
    /\ s.pc \in InChannel /\ s.count # 0 => s.other # 0
    /\ s.pc \in {"gather", "rts", "answer"} => s.count # 0 /\ s.missing \subseteq s.missed
    /\ s.pc \in {"rts", "answer"} => s.missing # {}
    /\ s.pc = "gather" => s.result # "written"
    /\ s.inStep /\ (s.pc \in InChannel \/ s.result = "written") => h # 0 /\ s.count = Total(F)
    /\ s.inStep /\ s.pc = "gather" =>
          /\ s.got \in 0 .. Total(F)
          /\ Whole(s, F) => s.out = Upto(F, s.got) /\ s.pos = Len(s.out)
    /\ s.inStep /\ (s.pc \in {"rts", "answer"} \/ s.result = "written") /\ Whole(s, F) => s.out = F

\* A step from s to t that leaves what the client writes and has to ask for.
Untouched(t, s) ==
    /\ t.count = s.count /\ t.got = s.got /\ t.missing = s.missing /\ t.missed = s.missed
    /\ t.out = s.out /\ t.pos = s.pos

\* Such a step, unless it enters another state of the channel.
LEMMA AccountKeeps ==
    ASSUME NEW s, NEW t, NEW h, NEW F, Account(s, h, F),
           Untouched(t, s), t.result = s.result \/ t.result # "written", t.inStep => s.inStep,
           \/ t.other = s.other /\ (t.pc = s.pc \/ (t.pc = "answer" /\ s.pc = "rts"))
           \/ t.pc \notin InChannel
    PROVE  Account(t, h, F)
  <1>1. Whole(t, F) = Whole(s, F)
    BY DEF Whole, Untouched
  <1>2. CASE t.other = s.other /\ (t.pc = s.pc \/ (t.pc = "answer" /\ s.pc = "rts"))
    BY <1>1, <1>2 DEF Account, InChannel, Untouched
  <1>3. CASE t.pc \notin InChannel
    BY <1>1, <1>3 DEF Account, InChannel, Untouched
  <1> QED BY <1>2, <1>3

\* The client takes the answer to its SYN (client.c:31-41).
LEMMA AckAccount ==
    ASSUME NEW s, NEW h, NEW F, Account(s, h, F), DOMAIN s = ClientFields, NEW o, NEW n, NEW e,
           NEW t, t = [s EXCEPT !.pc = "ready", !.other = o, !.count = n, !.inStep = e],
           n # 0 => o # 0, e => s.inStep /\ h # 0 /\ n = Total(F)
    PROVE  Account(t, h, F)
  <1>1. /\ t.pc = "ready" /\ t.other = o /\ t.count = n /\ t.inStep = e
        /\ t.missed = s.missed /\ t.result = s.result /\ t.out = s.out
    BY DEF ClientFields
  <1>2. Whole(t, F) = Whole(s, F)
    BY <1>1 DEF Whole
  <1> QED BY <1>1, <1>2 DEF Account, InChannel

\* It starts to gather (client.c:57-60).
LEMMA ReadyAccount ==
    ASSUME NEW s, NEW h, NEW F, Account(s, h, F), DOMAIN s = ClientFields, s.pc = "ready", s.count # 0,
           h # 0 => F \in Seq(Nat),
           NEW t, t = [s EXCEPT !.pc = "gather", !.got = 0, !.missing = {}, !.missed = {},
                                !.out = << >>, !.pos = 0, !.result = "none"]
    PROVE  Account(t, h, F)
  <1>1. /\ t.pc = "gather" /\ t.other = s.other /\ t.count = s.count /\ t.inStep = s.inStep
        /\ t.missed = {} /\ t.missing = {} /\ t.result = "none" /\ t.out = << >> /\ t.got = 0 /\ t.pos = 0
    BY DEF ClientFields
  <1>2. h # 0 => Upto(F, 0) = << >> /\ Total(F) \in Nat
    BY UptoEnds, TotalCovers
  <1>3. s.inStep => h # 0 /\ s.count = Total(F)
    BY DEF Account, InChannel
  <1>4. Len(<< >>) = 0
    OBVIOUS
  <1> QED BY <1>1, <1>2, <1>3, <1>4 DEF Account, InChannel

\* It takes a segment (client.c:62-76).
LEMMA GatherAccount ==
    ASSUME NEW s, NEW h, NEW F, Account(s, h, F), s.pc = "gather",
           h # 0 => F \in Seq(Nat), NEW n, n = s.got + 1, NEW content, NEW t, DOMAIN t = ClientFields,
           t.pc = "gather", t.other = s.other, t.count = s.count, t.result = s.result, t.got = n,
           t.inStep => s.inStep /\ content = segment_in_file_handle(F, n, MAX_SIZE),
           \/ /\ t.missed = s.missed /\ t.missing = s.missing
              /\ t.out = fwrite(s.out, s.pos, content) /\ t.pos = s.pos + Len(content)
           \/ t.missed = s.missed \cup {n} /\ t.missing = s.missing \cup {n} /\ t.out = s.out /\ t.pos = s.pos
    PROVE  Account(Gathered(t), h, F)
  <1> DEFINE v == Gathered(t)
             T == Total(F)
             e == t.inStep
  <1>1. /\ DOMAIN t = ClientFields /\ t.pc = "gather" /\ t.other = s.other /\ t.count = s.count /\ t.inStep = e
        /\ t.result = s.result /\ t.got = n
        /\ \/ /\ t.missed = s.missed /\ t.missing = s.missing
              /\ t.out = fwrite(s.out, s.pos, content) /\ t.pos = s.pos + Len(content)
           \/ t.missed = s.missed \cup {n} /\ t.missing = s.missing \cup {n} /\ t.out = s.out /\ t.pos = s.pos
    OBVIOUS
  <1>2. /\ v.other = t.other /\ v.count = t.count /\ v.inStep = t.inStep /\ v.missed = t.missed /\ v.missing = t.missing
        /\ v.out = t.out /\ v.got = t.got /\ v.pos = t.pos
        /\ \/ t.got <= t.count /\ v.pc = "gather" /\ v.result = t.result
           \/ ~(t.got <= t.count) /\ t.missing = {} /\ v.pc = "fin" /\ v.result = "written"
           \/ ~(t.got <= t.count) /\ t.missing # {} /\ v.pc = "rts" /\ v.result = t.result
    BY <1>1 DEF Gathered, Onward, ClientFields
  <1>3. /\ s.other # 0 /\ s.count # 0 /\ s.missing \subseteq s.missed /\ t.missing \subseteq t.missed /\ s.result # "written"
        /\ e => h # 0 /\ s.count = T /\ F \in Seq(Nat) /\ T \in Nat /\ s.got \in 0 .. T
    BY <1>1, TotalCovers DEF Account, InChannel
  <1>4. ASSUME e, Whole(t, F)
        PROVE  /\ n <= T => t.out = Upto(F, n) /\ t.pos = Len(t.out)
               /\ ~(n <= T) => t.out = F
    <2>1. s.missed \subseteq {T + 1} /\ t.missed \subseteq {T + 1} /\ Len(F) <= Wrap
      BY <1>1, <1>4 DEF Whole
    <2>2. s.out = Upto(F, s.got) /\ s.pos = Len(s.out)
      BY <1>4, <2>1 DEF Account, Whole
    <2>3. CASE n <= T
      <3>1. n \notin t.missed
        <4> DEFINE w == T + 1
        <4>1. n # w
          BY <1>3, <1>4, <2>3
        <4>2. t.missed \subseteq {w}
          BY <2>1
        <4> HIDE DEF w
        <4> QED BY ONLY <4>1, <4>2, Zenon
      <3>2. n \in 1 .. T /\ n - 1 = s.got
        <4> DEFINE got == s.got
        <4>1. T \in Nat /\ got \in 0 .. T /\ n = got + 1 /\ n <= T
          BY <1>3, <1>4, <2>3
        <4> HIDE DEF got, T
        <4>2. n \in 1 .. T /\ n - 1 = got
          BY ONLY <4>1
        <4> QED BY <4>2 DEF got
      <3>3. fwrite(Upto(F, n - 1), s.pos, content) = Upto(F, n) /\ s.pos + Len(content) = Len(Upto(F, n))
        <4> DEFINE p == s.pos
        <4>1. content = segment_in_file_handle(F, n, MAX_SIZE) /\ p = Len(Upto(F, n - 1)) /\ n \in 1 .. Total(F)
              /\ F \in Seq(Nat) /\ Len(F) <= Wrap
          BY <1>3, <1>4, <2>1, <2>2, <3>2
        <4> HIDE DEF p
        <4>2. fwrite(Upto(F, n - 1), p, content) = Upto(F, n) /\ p + Len(content) = Len(Upto(F, n))
          BY ONLY <4>1, UptoGrows
        <4> QED BY <4>2 DEF p
      <3>4. t.out = fwrite(s.out, s.pos, content) /\ t.pos = s.pos + Len(content)
        BY <1>1, <3>1
      <3>5. s.out = Upto(F, n - 1)
        BY <2>2, <3>2
      <3>6. t.out = Upto(F, n) /\ t.pos = Len(t.out)
        <4> HIDE DEF T
        <4> QED BY ONLY <3>3, <3>4, <3>5
      <3> QED BY <2>3, <3>6
    <2>4. CASE ~(n <= T)
      <3>1. s.got = T /\ n = T + 1
        BY <1>3, <1>4, <2>4
      <3>2. s.out = F /\ content = << >>
        BY <1>3, <1>4, <2>2, <3>1, UptoEnds
      <3>3. t.out = F
        BY <1>1, <3>2 DEF fwrite
      <3> QED BY <2>4, <3>3
    <2> QED BY <2>3, <2>4
  <1>5. Whole(v, F) = Whole(t, F)
    BY <1>2 DEF Whole
  <1>6. e => n \in Nat /\ (n <= T => n \in 0 .. T)
    BY <1>3
  <1> HIDE DEF v, T
  <1>7. Account(v, h, F)
    <2>1. CASE t.got <= t.count /\ v.pc = "gather" /\ v.result = t.result
      <3>1. v.inStep => n \in 0 .. Total(F)
        BY <1>1, <1>2, <1>3, <1>6, <2>1 DEF T
      <3>2. v.inStep /\ Whole(v, F) => v.out = Upto(F, v.got) /\ v.pos = Len(v.out)
        BY <1>1, <1>2, <1>3, <1>4, <1>5, <2>1 DEF T
      <3>3. v.inStep => h # 0 /\ v.count = Total(F)
        BY <1>1, <1>2, <1>3, <2>1 DEF T
      <3> QED BY <1>1, <1>2, <1>3, <2>1, <3>1, <3>2, <3>3 DEF Account, InChannel, T
    <2>2. CASE ~(t.got <= t.count) /\ t.missing = {} /\ v.pc = "fin" /\ v.result = "written"
      <3>1. v.inStep /\ Whole(v, F) => v.out = F
        BY <1>1, <1>2, <1>3, <1>4, <1>5, <2>2 DEF T
      <3>2. v.inStep => h # 0 /\ v.count = Total(F)
        BY <1>1, <1>2, <1>3 DEF T
      <3> QED BY <2>2, <3>1, <3>2 DEF Account, InChannel
    <2>3. CASE ~(t.got <= t.count) /\ t.missing # {} /\ v.pc = "rts" /\ v.result = t.result
      <3>1. v.inStep /\ Whole(v, F) => v.out = F
        BY <1>1, <1>2, <1>3, <1>4, <1>5, <2>3 DEF T
      <3>2. v.inStep => h # 0 /\ v.count = Total(F)
        BY <1>1, <1>2, <1>3 DEF T
      <3> QED BY <1>1, <1>2, <1>3, <2>3, <3>1, <3>2 DEF Account, InChannel
    <2> QED BY <1>2, <2>1, <2>2, <2>3
  <1> QED BY <1>7 DEF v

\* It takes the answer to a request to send again (client.c:83-97): the empty segment is not written.
LEMMA AnswerAccount ==
    ASSUME NEW s, NEW h, NEW F, Account(s, h, F), DOMAIN s = ClientFields, s.pc = "answer",
           h # 0 => F \in Seq(Nat), NEW m, NEW e, e => s.inStep,
           NEW low, low = Min(s.missing), NEW u, u = [s EXCEPT !.inStep = e],
           NEW t, t = IF m.intact THEN Repaired(u, low, m) ELSE u
    PROVE  Account(Onward(t), h, F)
  <1> DEFINE v == Onward(t)
             T == Total(F)
  <1>1. /\ DOMAIN u = ClientFields /\ u.pc = "answer" /\ u.other = s.other /\ u.count = s.count /\ u.inStep = e
        /\ u.missed = s.missed /\ u.missing = s.missing /\ u.result = s.result /\ u.out = s.out /\ u.got = s.got
    BY DEF ClientFields
  <1>2. /\ DOMAIN t = ClientFields /\ t.pc = "answer" /\ t.other = s.other /\ t.count = s.count /\ t.inStep = e
        /\ t.result = s.result /\ t.missed = s.missed
        /\ t.missing = s.missing \/ t.missing = s.missing \ {low}
        /\ ~(low < s.count) => t.out = s.out
    BY <1>1 DEF Repaired, ClientFields
  <1>3. /\ v.other = t.other /\ v.count = t.count /\ v.inStep = t.inStep /\ v.missed = t.missed /\ v.missing = t.missing
        /\ v.out = t.out
        /\ \/ t.missing = {} /\ v.pc = "fin" /\ v.result = "written"
           \/ t.missing # {} /\ v.pc = "rts" /\ v.result = t.result
    BY <1>2 DEF Onward, ClientFields
  <1>4. /\ s.other # 0 /\ s.count # 0 /\ s.missing \subseteq s.missed /\ t.missing \subseteq t.missed /\ s.missing # {}
        /\ e => h # 0 /\ s.count = T /\ F \in Seq(Nat) /\ T \in Nat
    BY <1>2, TotalCovers DEF Account, InChannel
  <1>5. ASSUME e, Whole(t, F) PROVE t.out = F
    <2>1. Whole(s, F) /\ s.missed \subseteq {T + 1}
      BY <1>2, <1>5 DEF Whole
    <2>2. s.out = F
      BY <1>5, <2>1 DEF Account
    <2>3. s.missing = {T + 1}
      BY <1>4, <2>1
    <2>4. low = T + 1
      BY <2>3 DEF Min
    <2> QED BY <1>2, <1>4, <1>5, <2>2, <2>4
  <1>6. Whole(v, F) = Whole(t, F)
    BY <1>3 DEF Whole
  <1> HIDE DEF v, T
  <1>7. /\ v.inStep /\ Whole(v, F) => v.out = F
        /\ v.inStep => h # 0 /\ v.count = Total(F)
    BY <1>2, <1>3, <1>4, <1>5, <1>6 DEF T
  <1>8. Account(v, h, F)
    <2>1. CASE t.missing = {} /\ v.pc = "fin" /\ v.result = "written"
      BY <1>7, <2>1 DEF Account, InChannel
    <2>2. CASE t.missing # {} /\ v.pc = "rts" /\ v.result = t.result
      BY <1>2, <1>3, <1>4, <1>7, <2>2 DEF Account, InChannel
    <2> QED BY <1>3, <2>1, <2>2
  <1> QED BY <1>8 DEF v

\* The handle of the file the clients ask for, 0 for none.
Offered == file_handle_for_file(handles, sc.file)

\* A request to open a channel names the file and the size of a segment (client.c:20, 26, 44).
AsksFile(m, file) ==
    m.intact /\ m.chan = "CONTROL" /\ m.type \in {"SYN", "RTS"} /\ m.recv = 0
    => m.content = file /\ m.seg = MAX_SIZE

\* A data message carries its segment, and an answer the number of them (server_help.c:63-73, server.c:201).
FromFile(m, h, F) ==
    /\ m.type = "SYN" => h # 0 /\ m.content = segment_in_file_handle(F, m.seg, MAX_SIZE)
    /\ m.type = "ACK" => h # 0 /\ m.seg = Total(F)

Requested(q, file) == \A k \in DOMAIN q : AsksFile(q[k], file)
Answered(q, h, F) == \A k \in DOMAIN q : FromFile(q[k], h, F)

\* The messages under way, the channels, the answer the select loop is about to send, and the clients.
Carried == \A c \in Clients : Requested(toServer[c], sc.file) /\ Answered(toClient[c], Offered, Served)
OneFile == \A id \in DOMAIN ch : ch[id].handle = Offered /\ Offered # 0 /\ ch[id].maxSize = MAX_SIZE
Replies == main.pc \in {"send", "join"} /\ main.answer # Null =>
    main.answer.type # "SYN" /\ FromFile(main.answer, Offered, Served)
Accounts == \A c \in Clients : Account(cl[c], Offered, Served)

Content == Carried /\ OneFile /\ Replies /\ Accounts

\* The directory does not change.
LEMMA FileKept == ASSUME sc' = sc PROVE Offered' = Offered /\ Served' = Served /\ handles' = handles
  BY DEF Offered, Served, handles

\* The file of the clients, when it is offered.
LEMMA OfferedFile ==
    ASSUME sc \in Scenarios, Offered # 0
    PROVE  Served \in Seq(Nat)
  BY FileBytes DEF Served, Offered

\* Messages are damaged: none becomes a request, and an answer keeps its content.
LEMMA DamagedMails ==
    ASSUME NEW q, NEW t, \A k \in DOMAIN t : \E j \in DOMAIN q : Comes(t[k], q[j]), NEW file, NEW h, NEW F
    PROVE  (Requested(q, file) => Requested(t, file)) /\ (Answered(q, h, F) => Answered(t, h, F))
  BY DEF Requested, AsksFile, Answered, FromFile, Comes

\* The frames of a stream are altered.
LEMMA UnframedContent ==
    ASSUME NEW q, Mails(q), q # << >>, NEW r, NEW t \in Unframed(q, r), NEW file, NEW h, NEW F
    PROVE  (Requested(q, file) => Requested(t, file)) /\ (Answered(q, h, F) => Answered(t, h, F))
  <1>1. \A k \in DOMAIN t : \E j \in DOMAIN q : Comes(t[k], q[j])
    BY UnframedMails
  <1> QED BY <1>1, DamagedMails

\* The first message is damaged.
LEMMA DamagedFirst ==
    ASSUME NEW q, Mails(q), q # << >>, NEW m, Comes(m, q[1]), NEW file, NEW h, NEW F
    PROVE  /\ Requested(q, file) => Requested([q EXCEPT ![1] = m], file)
           /\ Answered(q, h, F) => Answered([q EXCEPT ![1] = m], h, F)
  <1> DEFINE t == [q EXCEPT ![1] = m]
  <1>1. \A k \in DOMAIN t : k \in DOMAIN q /\ (t[k] = q[k] \/ (k = 1 /\ t[k] = m))
    OBVIOUS
  <1> HIDE DEF t
  <1>2. \A k \in DOMAIN t : \E j \in DOMAIN q : Comes(t[k], q[j])
    BY <1>1 DEF Comes
  <1>3. (Requested(q, file) => Requested(t, file)) /\ (Answered(q, h, F) => Answered(t, h, F))
    BY <1>2, DamagedMails
  <1> QED BY <1>3 DEF t

\* The first message is taken off.
LEMMA TakenFirst ==
    ASSUME NEW q, Mails(q), q # << >>, NEW file, NEW h, NEW F
    PROVE  /\ Requested(q, file) => Requested(Tail(q), file) /\ AsksFile(q[1], file)
           /\ Answered(q, h, F) => Answered(Tail(q), h, F) /\ FromFile(q[1], h, F)
  BY TailSeq DEF Mails, Requested, Answered

\* A message is written, behind the others or into the first one.
LEMMA SentLast ==
    ASSUME NEW q, Mails(q), NEW end, NEW m, NEW file, NEW h, NEW F
    PROVE  /\ Requested(q, file) /\ AsksFile(m, file) => Requested(Sent(q, end, m), file)
           /\ Answered(q, h, F) /\ FromFile(m, h, F) => Answered(Sent(q, end, m), h, F)
  <1>1. CASE end = "no" /\ Torn(q)
    <2> DEFINE r == [q[1] EXCEPT !.chan = "PART"]
    <2>1. q # << >> /\ 1 \in DOMAIN q /\ Comes(r, q[1])
      BY <1>1, TailSeq DEF Torn, Mails, MsgFields, Comes
    <2>2. Sent(q, end, m) = [q EXCEPT ![1] = r]
      BY <1>1, <2>1 DEF Sent
    <2> HIDE DEF r
    <2>3. /\ Requested(q, file) => Requested([q EXCEPT ![1] = r], file)
          /\ Answered(q, h, F) => Answered([q EXCEPT ![1] = r], h, F)
      BY <2>1, DamagedFirst
    <2> QED BY <2>2, <2>3
  <1>2. CASE end = "no" /\ ~Torn(q)
    BY <1>2, AppendSeq DEF Sent, Mails, Requested, Answered
  <1>3. CASE end # "no"
    BY <1>3 DEF Sent
  <1> QED BY <1>1, <1>2, <1>3

\* No message at all.
LEMMA NoneUnderWay == \A file, h, F : Requested(<< >>, file) /\ Answered(<< >>, h, F)
  BY DEF Requested, Answered

---------------------------------------------------------------------------
\* Client c sends m and goes on as t, or fails, or dies.
LEMMA SendContent ==
    ASSUME Shapes, Content, NEW c \in Clients, NEW m, AsksFile(m, sc.file), NEW t, DOMAIN t = ClientFields,
           client_send(c, m, t), Account(t, Offered, Served), UNCHANGED <<arrays, serverVars>>
    PROVE  Content'
  <1>0. /\ DOMAIN cl = Clients /\ DOMAIN cl[c] = ClientFields /\ DOMAIN toServer = Clients /\ DOMAIN toClient = Clients
        /\ Mails(toServer[c]) /\ Mails(toClient[c])
    BY DEF Shapes, NetShapes, ClientShapes
  <1>1. sc' = sc /\ UNCHANGED <<main, ch>>
    BY DEF client_send, SendOk, SendFails, SendKills, Exits, net, serverVars
  <1>2. Offered' = Offered /\ Served' = Served
    BY <1>1, FileKept
  <1>3. OneFile' /\ Replies'
    BY <1>1, <1>2 DEF Content, OneFile, Replies
  <1>4. /\ \A d \in Clients : toServer'[d] = toServer[d] \/ (d = c /\ \E end : toServer'[d] = Sent(toServer[d], end, m))
        /\ \A d \in Clients : toClient'[d] = toClient[d] \/ toClient'[d] = << >>
    BY <1>0 DEF client_send, SendOk, SendFails, SendKills, Exits, net
  <1>5. Carried'
    <2> SUFFICES ASSUME NEW d \in Clients
                 PROVE  Requested(toServer'[d], sc.file) /\ Answered(toClient'[d], Offered, Served)
      BY <1>1, <1>2 DEF Carried
    <2>1. Requested(toServer[d], sc.file) /\ Answered(toClient[d], Offered, Served)
      BY DEF Content, Carried
    <2>2. Requested(toServer'[d], sc.file)
      <3>1. CASE toServer'[d] = toServer[d]
        BY <2>1, <3>1
      <3>2. ASSUME d = c, NEW end, toServer'[d] = Sent(toServer[d], end, m)
            PROVE  Requested(toServer'[d], sc.file)
        BY <1>0, <2>1, <3>2, SentLast
      <3> QED BY <1>4, <3>1, <3>2
    <2>3. Answered(toClient'[d], Offered, Served)
      BY <1>4, <2>1, NoneUnderWay
    <2> QED BY <2>2, <2>3
  <1>6. \/ cl' = [cl EXCEPT ![c] = t]
        \/ cl' = [cl EXCEPT ![c] = [t EXCEPT !.sendLocked = TRUE]]
        \/ cl' = [cl EXCEPT ![c] = [cl[c] EXCEPT !.pc = "crashed"]]
    BY DEF client_send, SendOk, SendFails, SendKills, Exits, Become
  <1>7. Account(cl'[c], Offered, Served)
    <2>0. Account(cl[c], Offered, Served)
      BY DEF Content, Accounts
    <2>1. CASE cl' = [cl EXCEPT ![c] = t]
      BY <1>0, <2>1
    <2>2. CASE cl' = [cl EXCEPT ![c] = [t EXCEPT !.sendLocked = TRUE]]
      <3> DEFINE v == [t EXCEPT !.sendLocked = TRUE]
      <3>1. Untouched(v, t) /\ v.result = t.result /\ v.inStep = t.inStep /\ v.other = t.other /\ v.pc = t.pc
        BY DEF ClientFields, Untouched
      <3>2. cl'[c] = v
        BY <1>0, <2>2
      <3> HIDE DEF v
      <3> QED BY <3>1, <3>2, AccountKeeps
    <2>3. CASE cl' = [cl EXCEPT ![c] = [cl[c] EXCEPT !.pc = "crashed"]]
      <3> DEFINE s == cl[c]
                 v == [s EXCEPT !.pc = "crashed"]
      <3>1. Untouched(v, s) /\ v.result = s.result /\ v.inStep = s.inStep /\ v.pc \notin InChannel
        BY <1>0 DEF ClientFields, InChannel, Untouched
      <3>2. cl'[c] = v
        BY <1>0, <2>3
      <3> HIDE DEF v
      <3> QED BY <2>0, <3>1, <3>2, AccountKeeps
    <2> QED BY <1>6, <2>1, <2>2, <2>3
  <1>8. Accounts'
    <2>1. \A d \in Clients \ {c} : cl'[d] = cl[d]
      BY <1>0, <1>6
    <2> QED BY <1>2, <1>7, <2>1 DEF Content, Accounts
  <1> QED BY <1>3, <1>5, <1>8 DEF Content

\* Client c reads and goes on as t.
LEMMA TakeContent ==
    ASSUME Shapes, Content, NEW c \in Clients, NEW t, DOMAIN t = ClientFields, Takes(c, t),
           Account(t, Offered, Served), UNCHANGED <<arrays, serverVars>>
    PROVE  Content'
  <1>0. /\ DOMAIN cl = Clients /\ DOMAIN toClient = Clients /\ Mails(toClient[c])
    BY DEF Shapes, NetShapes, ClientShapes
  <1>1. sc' = sc /\ UNCHANGED <<main, ch, toServer>>
    BY DEF Takes, serverVars
  <1>2. Offered' = Offered /\ Served' = Served
    BY <1>1, FileKept
  <1>3. OneFile' /\ Replies'
    BY <1>1, <1>2 DEF Content, OneFile, Replies
  <1>4. /\ \A d \in Clients \ {c} : toClient'[d] = toClient[d]
        /\ toClient'[c] \in {toClient[c], << >>} \/ (toClient[c] # << >> /\ toClient'[c] = Tail(toClient[c]))
    BY <1>0 DEF Takes, Read, recv_msg, Framed
  <1>5. Carried'
    <2> SUFFICES ASSUME NEW d \in Clients PROVE Answered(toClient'[d], Offered, Served)
      BY <1>1, <1>2 DEF Carried, Content
    <2>1. Answered(toClient[d], Offered, Served)
      BY DEF Content, Carried
    <2> QED BY <1>0, <1>4, <2>1, TakenFirst, NoneUnderWay
  <1>6. \E l : cl' = [cl EXCEPT ![c] = [t EXCEPT !.recvLocked = l]]
    BY DEF Takes, Become
  <1>7. Account(cl'[c], Offered, Served)
    <2>1. PICK l : cl' = [cl EXCEPT ![c] = [t EXCEPT !.recvLocked = l]]
      BY <1>6
    <2> DEFINE v == [t EXCEPT !.recvLocked = l]
    <2>2. Untouched(v, t) /\ v.result = t.result /\ v.inStep = t.inStep /\ v.other = t.other /\ v.pc = t.pc
      BY DEF ClientFields, Untouched
    <2>3. cl'[c] = v
      BY <1>0, <2>1
    <2> HIDE DEF v
    <2> QED BY <2>2, <2>3, AccountKeeps
  <1>8. Accounts'
    <2>1. \A d \in Clients \ {c} : cl'[d] = cl[d]
      BY <1>0, <1>6
    <2> QED BY <1>2, <1>7, <2>1 DEF Content, Accounts
  <1> QED BY <1>3, <1>5, <1>8 DEF Content

\* Client c ends.
LEMMA ExitContent ==
    ASSUME Shapes, Content, NEW c \in Clients, NEW pc, pc \notin InChannel, Exits(c, pc),
           UNCHANGED <<sc, toServer, main, ch>>
    PROVE  Content'
  <1>0. DOMAIN cl = Clients /\ DOMAIN cl[c] = ClientFields /\ DOMAIN toClient = Clients
    BY DEF Shapes, NetShapes, ClientShapes
  <1>2. Offered' = Offered /\ Served' = Served
    BY FileKept
  <1>3. OneFile' /\ Replies'
    BY <1>2 DEF Content, OneFile, Replies
  <1>4. \A d \in Clients : toClient'[d] = toClient[d] \/ toClient'[d] = << >>
    BY <1>0 DEF Exits
  <1>5. Carried'
    <2> SUFFICES ASSUME NEW d \in Clients PROVE Answered(toClient'[d], Offered, Served)
      BY <1>2 DEF Carried, Content
    <2>1. Answered(toClient[d], Offered, Served)
      BY DEF Content, Carried
    <2> QED BY <1>4, <2>1, NoneUnderWay
  <1> DEFINE s == cl[c]
             v == [s EXCEPT !.pc = pc]
  <1>6. cl'[c] = v /\ \A d \in Clients \ {c} : cl'[d] = cl[d]
    BY <1>0 DEF Exits
  <1>7. Untouched(v, s) /\ v.result = s.result /\ v.inStep = s.inStep /\ v.pc \notin InChannel
    BY <1>0 DEF ClientFields, Untouched
  <1>8. Account(s, Offered, Served)
    BY DEF Content, Accounts
  <1>9. Account(v, Offered, Served)
    <2> HIDE DEF v, s
    <2> QED BY <1>7, <1>8, AccountKeeps
  <1>10. Accounts'
    BY <1>2, <1>6, <1>9 DEF Content, Accounts
  <1> QED BY <1>3, <1>5, <1>10 DEF Content

\* Client c sends m and only moves on.
LEMMA MovesContent ==
    ASSUME Shapes, Content, NEW c \in Clients, NEW m, AsksFile(m, sc.file), NEW pc,
           pc \notin InChannel \/ (pc = "answer" /\ cl[c].pc = "rts"),
           client_send(c, m, [cl[c] EXCEPT !.pc = pc]), UNCHANGED <<arrays, serverVars>>
    PROVE  Content'
  <1> DEFINE s == cl[c]
             t == [s EXCEPT !.pc = pc]
  <1>1. DOMAIN s = ClientFields /\ Account(s, Offered, Served)
    BY DEF Shapes, ClientShapes, Content, Accounts
  <1>2. /\ DOMAIN t = ClientFields /\ t.pc = pc
        /\ Untouched(t, s) /\ t.result = s.result /\ t.inStep = s.inStep /\ t.other = s.other
    BY <1>1 DEF ClientFields, Untouched
  <1>3. client_send(c, m, t)
    OBVIOUS
  <1> HIDE DEF t
  <1>4. Account(t, Offered, Served)
    BY <1>1, <1>2, AccountKeeps
  <1> QED BY <1>2, <1>3, <1>4, SendContent

\* Client c reads a message and leaves the channel.
LEMMA LeavesContent ==
    ASSUME Shapes, Content, NEW c \in Clients, NEW t, DOMAIN t = ClientFields, Takes(c, t), t.pc \notin InChannel,
           Untouched(t, cl[c]),
           t.result = cl[c].result \/ t.result # "written", t.inStep => cl[c].inStep, UNCHANGED <<arrays, serverVars>>
    PROVE  Content'
  <1> DEFINE s == cl[c]
  <1>1. Account(s, Offered, Served)
    BY DEF Content, Accounts
  <1>2. Account(t, Offered, Served)
    BY <1>1, AccountKeeps
  <1> QED BY <1>2, TakeContent

\* What a client took was under way to it.
LEMMA TakenContent ==
    ASSUME Shapes, Content, NEW c \in Clients, Taken(c)
    PROVE  FromFile(Read(c).msg, Offered, Served)
  <1>1. toClient[c] # << >> /\ Read(c).msg = toClient[c][1] /\ Mails(toClient[c])
    BY ReadMails DEF Shapes, NetShapes
  <1>2. Answered(toClient[c], Offered, Served)
    BY DEF Content, Carried
  <1> QED BY <1>1, <1>2, TakenFirst

\* A client asks for the file, and keeps account of what it writes.
LEMMA ClientContent ==
    ASSUME sc \in Scenarios, Shapes, Content, NEW c \in Clients, ClientStep(c), UNCHANGED <<arrays, serverVars>>
    PROVE  Content'
  <1> DEFINE s == cl[c]
             h == Offered
             F == Served
  <1>0. DOMAIN s = ClientFields /\ Account(s, h, F)
    BY DEF Shapes, ClientShapes, Content, Accounts
  <1>00. h # 0 => F \in Seq(Nat)
    BY OfferedFile
  <1>a. CASE Crashes(c)
    <2>1. "crashed" \notin InChannel
      BY DEF InChannel
    <2>2. Exits(c, "crashed") /\ UNCHANGED <<sc, toServer, main, ch>>
      BY <1>a DEF Crashes, serverVars
    <2> QED BY <2>1, <2>2, ExitContent
  <1>b. CASE GivesUp(c)
    <2> DEFINE t == [s EXCEPT !.pc = "fin", !.result = "gave up"]
    <2>1. Takes(c, t)
      BY <1>b DEF GivesUp
    <2>2. /\ DOMAIN t = ClientFields /\ t.pc \notin InChannel
          /\ Untouched(t, s) /\ t.result # "written" /\ t.inStep = s.inStep
      BY <1>0 DEF ClientFields, InChannel, Untouched
    <2> HIDE DEF t
    <2> QED BY <2>1, <2>2, LeavesContent
  <1>1. CASE Syn(c) \/ SynAgain(c)
    <2>1. PICK type \in {"SYN", "RTS"} :
            client_send(c, form_msg(selfID(c), 0, "CONTROL", type, MAX_SIZE, sc.file), [cl[c] EXCEPT !.pc = "ack"])
      BY <1>1 DEF Syn, SynAgain
    <2>2. AsksFile(form_msg(selfID(c), 0, "CONTROL", type, MAX_SIZE, sc.file), sc.file)
      BY DEF form_msg, AsksFile
    <2>3. "ack" \notin InChannel
      BY DEF InChannel
    <2> QED BY <2>1, <2>2, <2>3, MovesContent
  <1>2. CASE Rts(c)
    <2> DEFINE m == form_msg(selfID(c), s.other, "CONTROL", "RTS", Min(s.missing), << >>)
    <2>1. s.pc = "rts" /\ client_send(c, m, [s EXCEPT !.pc = "answer"])
      BY <1>2 DEF Rts, Is
    <2>2. m.recv = s.other
      BY DEF form_msg
    <2>3. s.other # 0
      BY <1>0, <2>1 DEF Account, InChannel
    <2> HIDE DEF m
    <2>4. AsksFile(m, sc.file)
      BY <2>2, <2>3 DEF AsksFile
    <2> QED BY <2>1, <2>4, MovesContent
  <1>3. CASE Cease(c) \/ Bye(c)
    <2>1. PICK sID, rID, pc : /\ client_send(c, form_msg(sID, rID, "CONTROL", "FIN", 0, << >>), [cl[c] EXCEPT !.pc = pc])
                              /\ pc \in {"finack", "close"}
      BY <1>3 DEF Cease, Bye
    <2>2. AsksFile(form_msg(sID, rID, "CONTROL", "FIN", 0, << >>), sc.file)
      BY DEF form_msg, AsksFile
    <2>3. pc \notin InChannel
      BY <2>1 DEF InChannel
    <2> QED BY <2>1, <2>2, <2>3, MovesContent
  <1>4. CASE Ack(c)
    <2>1. CASE Takes(c, [s EXCEPT !.pc = "again"])
      <3> DEFINE t == [s EXCEPT !.pc = "again"]
      <3>1. Takes(c, t)
        BY <2>1
      <3>2. /\ DOMAIN t = ClientFields /\ t.pc \notin InChannel
            /\ Untouched(t, s) /\ t.result = s.result /\ t.inStep = s.inStep
        BY <1>0 DEF ClientFields, InChannel, Untouched
      <3> HIDE DEF t
      <3> QED BY <3>1, <3>2, LeavesContent
    <2>2. ASSUME Taken(c), NEW n \in TotalSegments(Read(c).msg),
                 Takes(c, [s EXCEPT !.pc = "ready", !.other = Read(c).msg.send, !.count = n,
                                    !.inStep = Expected(c, Read(c).msg, "ACK", n)])
          PROVE  Content'
      <3> DEFINE o == Read(c).msg.send
                 e == Expected(c, Read(c).msg, "ACK", n)
                 t == [s EXCEPT !.pc = "ready", !.other = o, !.count = n, !.inStep = e]
      <3>1. n # 0 => o # 0
        BY <2>2 DEF TotalSegments
      <3>2. e => s.inStep /\ h # 0 /\ n = Total(F)
        BY <2>2, TakenContent DEF Expected, FromFile
      <3>3. Takes(c, t)
        BY <2>2
      <3> HIDE DEF o, e
      <3>4. DOMAIN t = ClientFields
        BY <1>0 DEF ClientFields
      <3> HIDE DEF h, F
      <3>5. Account(t, h, F)
        BY <1>0, <3>1, <3>2, AckAccount
      <3> HIDE DEF t
      <3> QED BY <3>3, <3>4, <3>5, TakeContent DEF h, F
    <2> QED BY <1>4, <1>a, <2>1, <2>2 DEF Ack
  <1>5. CASE Ready(c)
    <2> DEFINE m == form_msg(selfID(c), s.other, "CONTROL", "SYN", MAX_SIZE, sc.file)
    <2>1. AsksFile(m, sc.file)
      BY DEF form_msg, AsksFile
    <2> HIDE DEF m
    <2>2. CASE s.count = 0 /\ client_send(c, m, [s EXCEPT !.pc = "fin", !.result = "not found"])
      <3> DEFINE t == [s EXCEPT !.pc = "fin", !.result = "not found"]
      <3>1. client_send(c, m, t)
        BY <2>2
      <3>2. /\ DOMAIN t = ClientFields /\ t.pc \notin InChannel
            /\ Untouched(t, s) /\ t.result # "written" /\ t.inStep = s.inStep
        BY <1>0 DEF ClientFields, InChannel, Untouched
      <3> HIDE DEF t
      <3>3. Account(t, h, F)
        BY <1>0, <3>2, AccountKeeps
      <3> QED BY <2>1, <3>1, <3>2, <3>3, SendContent
    <2>3. CASE s.count # 0 /\ client_send(c, m, [s EXCEPT !.pc = "gather", !.got = 0, !.missing = {}, !.missed = {},
                                                        !.out = << >>, !.pos = 0, !.result = "none"])
      <3> DEFINE t == [s EXCEPT !.pc = "gather", !.got = 0, !.missing = {}, !.missed = {},
                                !.out = << >>, !.pos = 0, !.result = "none"]
      <3>1. client_send(c, m, t)
        BY <2>3
      <3>2. DOMAIN t = ClientFields
        BY <1>0 DEF ClientFields
      <3>3. Account(t, h, F)
        <4>1. s.pc = "ready" /\ s.count # 0
          BY <1>5, <2>3 DEF Ready, Is
        <4> HIDE DEF h, F
        <4> QED BY <1>0, <1>00, <4>1, ReadyAccount
      <3> HIDE DEF t
      <3> QED BY <2>1, <3>1, <3>2, <3>3, SendContent
    <2> QED BY <1>5, <2>2, <2>3 DEF Ready, m
  <1>6. CASE Gather(c)
    <2> DEFINE m == Read(c).msg
               n == s.got + 1
               e == Expected(c, m, "SYN", n)
               u == [s EXCEPT !.got = n, !.inStep = e]
               t == IF m.intact
                    THEN [u EXCEPT !.out = fwrite(@, u.pos, m.content), !.pos = @ + Len(m.content)]
                    ELSE [u EXCEPT !.missing = @ \cup {n}, !.missed = @ \cup {n}]
    <2>1. CASE Taken(c) /\ Takes(c, Gathered(t))
      <3>1. e => s.inStep /\ m.content = segment_in_file_handle(F, n, MAX_SIZE)
        BY <2>1, TakenContent DEF Expected, FromFile
      <3>2. s.pc = "gather"
        BY <1>6 DEF Gather, Is
      <3>3. DOMAIN t = ClientFields
        BY <1>0 DEF ClientFields
      <3>4. DOMAIN Gathered(t) = ClientFields
        <4> HIDE DEF t
        <4> QED BY <3>3 DEF Gathered, Onward, ClientFields
      <3>5. Account(Gathered(t), h, F)
        <4>1. /\ DOMAIN u = ClientFields /\ u.pc = "gather" /\ u.other = s.other /\ u.count = s.count /\ u.inStep = e
              /\ u.missed = s.missed /\ u.missing = s.missing /\ u.result = s.result /\ u.out = s.out
              /\ u.got = n /\ u.pos = s.pos
          BY <1>0, <3>2 DEF ClientFields
        <4> HIDE DEF u
        <4>2. /\ t.pc = "gather" /\ t.other = s.other /\ t.count = s.count /\ t.inStep = e /\ t.result = s.result /\ t.got = n
              /\ IF m.intact THEN /\ t.missed = s.missed /\ t.missing = s.missing
                                /\ t.out = fwrite(s.out, s.pos, m.content) /\ t.pos = s.pos + Len(m.content)
                 ELSE t.missed = s.missed \cup {n} /\ t.missing = s.missing \cup {n} /\ t.out = s.out /\ t.pos = s.pos
          <5>1. CASE m.intact
            BY <4>1, <5>1 DEF ClientFields
          <5>2. CASE ~m.intact
            BY <4>1, <5>2 DEF ClientFields
          <5> QED BY <5>1, <5>2
        <4> DEFINE content == m.content
        <4>3. n = s.got + 1 /\ (t.inStep => s.inStep /\ content = segment_in_file_handle(F, n, MAX_SIZE))
          BY <3>1, <4>2
        <4>4. \/ /\ t.missed = s.missed /\ t.missing = s.missing
                 /\ t.out = fwrite(s.out, s.pos, content) /\ t.pos = s.pos + Len(content)
              \/ t.missed = s.missed \cup {n} /\ t.missing = s.missing \cup {n} /\ t.out = s.out /\ t.pos = s.pos
          BY <4>2
        <4> HIDE DEF h, F, m, e, n, t, s, content
        <4> QED BY ONLY <1>0, <1>00, <3>2, <3>3, <4>2, <4>3, <4>4, GatherAccount
      <3> HIDE DEF t
      <3> DEFINE v == Gathered(t)
      <3>6. Takes(c, v) /\ DOMAIN v = ClientFields /\ Account(v, Offered, Served)
        BY <2>1, <3>4, <3>5
      <3> HIDE DEF v
      <3> QED BY <3>6, TakeContent
    <2> QED BY <1>6, <1>b, <2>1 DEF Gather
  <1>7. CASE AnswerRead(c)
    <2> DEFINE m == Read(c).msg
               low == Min(s.missing)
               e == Expected(c, m, "SYN", low)
               u == [s EXCEPT !.inStep = e]
               t == IF m.intact THEN Repaired(u, low, m) ELSE u
    <2>1. CASE Takes(c, Onward(t))
      <3>1. e => s.inStep
        BY DEF Expected
      <3>2. s.pc = "answer"
        BY <1>7 DEF AnswerRead, Is
      <3>3. DOMAIN t = ClientFields
        <4>1. DOMAIN u = ClientFields
          BY <1>0 DEF ClientFields
        <4> HIDE DEF u, low, m
        <4> QED BY <4>1 DEF Repaired, ClientFields
      <3>4. DOMAIN Onward(t) = ClientFields
        <4> HIDE DEF t
        <4> QED BY <3>3 DEF Onward, ClientFields
      <3>5. Account(Onward(t), h, F)
        <4> HIDE DEF h, F, m, e
        <4> QED BY <1>0, <1>00, <3>1, <3>2, AnswerAccount
      <3> HIDE DEF t
      <3> DEFINE v == Onward(t)
      <3>6. Takes(c, v) /\ DOMAIN v = ClientFields /\ Account(v, Offered, Served)
        BY <2>1, <3>4, <3>5
      <3> HIDE DEF v
      <3> QED BY <3>6, TakeContent
    <2> QED BY <1>7, <1>b, <2>1 DEF AnswerRead
  <1>8. CASE FinAck(c)
    <2> DEFINE e == Expected(c, Read(c).msg, "FIN", 0)
               u == [s EXCEPT !.inStep = e, !.other = 0]
               t == IF u.cycle < sc.downloads THEN [u EXCEPT !.pc = "syn", !.cycle = @ + 1] ELSE [u EXCEPT !.pc = "bye"]
    <2>1. CASE Takes(c, t)
      <3>1. e => s.inStep
        BY DEF Expected
      <3> HIDE DEF e
      <3>2. /\ DOMAIN u = ClientFields
            /\ Untouched(u, s) /\ u.result = s.result /\ u.inStep = e
        BY <1>0 DEF ClientFields, Untouched
      <3> HIDE DEF u
      <3>3. /\ DOMAIN t = ClientFields /\ t.pc \in {"syn", "bye"}
            /\ Untouched(t, s) /\ t.result = s.result /\ t.inStep = e
        BY <3>2 DEF ClientFields, Untouched
      <3>4. t.pc \notin InChannel
        BY <3>3 DEF InChannel
      <3> HIDE DEF t
      <3> QED BY <2>1, <3>1, <3>3, <3>4, LeavesContent
    <2> QED BY <1>8, <1>a, <2>1 DEF FinAck
  <1>9. CASE Close(c)
    <2>1. "done" \notin InChannel
      BY DEF InChannel
    <2>2. Exits(c, "done") /\ UNCHANGED <<sc, toServer, main, ch>>
      BY <1>9 DEF Close, serverVars
    <2> QED BY <2>1, <2>2, ExitContent
  <1>10. CASE Connect(c)
    <2> DEFINE t == [s EXCEPT !.pc = "syn"]
    <2>1. /\ t.pc \notin InChannel
          /\ Untouched(t, s) /\ t.result = s.result /\ t.inStep = s.inStep
      BY <1>0 DEF ClientFields, InChannel, Untouched
    <2>2. cl' = [cl EXCEPT ![c] = t] /\ UNCHANGED <<sc, toServer, toClient, main, ch>>
      BY <1>10 DEF Connect, Become, serverVars
    <2>3. Offered' = Offered /\ Served' = Served
      BY <2>2, FileKept
    <2>4. DOMAIN cl = Clients
      BY DEF Shapes, ClientShapes
    <2> HIDE DEF t
    <2>5. Account(t, Offered, Served)
      BY <1>0, <2>1, AccountKeeps
    <2>6. Accounts'
      BY <2>2, <2>3, <2>4, <2>5 DEF Content, Accounts
    <2> QED BY <2>2, <2>3, <2>6 DEF Content, Carried, OneFile, Replies
  <1> QED BY <1>1, <1>2, <1>3, <1>4, <1>5, <1>6, <1>7, <1>8, <1>9, <1>10 DEF ClientStep

\* send_msg of the server, of a message with the file's content.
LEMMA WriteContent ==
    ASSUME Shapes, Content, NEW c \in Clients, NEW m, FromFile(m, Offered, Served), NEW w, NEW main2, NEW ch2,
           send_msg(w, c, m, main2, ch2)
    PROVE  /\ sc' = sc /\ Offered' = Offered /\ Served' = Served /\ Carried'
           /\ \/ main' = main2 /\ ch' = ch2
              \/ UNCHANGED <<main, ch>>
  <1>0. DOMAIN toClient = Clients /\ Mails(toClient[c])
    BY DEF Shapes, NetShapes
  <1>1. sc' = sc /\ toServer' = toServer
    BY DEF send_msg, Write, WriteWaits, WriteFails, WriteKills, Dies, net
  <1>2. Offered' = Offered /\ Served' = Served
    BY <1>1, FileKept
  <1>3. /\ \A d \in Clients \ {c} : toClient'[d] = toClient[d]
        /\ toClient'[c] = toClient[c] \/ \E end : toClient'[c] = Sent(toClient[c], end, m)
    BY <1>0 DEF send_msg, Write, WriteWaits, WriteFails, WriteKills, Dies, net
  <1>4. ASSUME NEW d \in Clients PROVE Answered(toClient'[d], Offered, Served)
    <2>1. Answered(toClient[d], Offered, Served)
      BY DEF Content, Carried
    <2>2. ASSUME d = c, NEW end, toClient'[c] = Sent(toClient[c], end, m)
          PROVE  Answered(toClient'[d], Offered, Served)
      BY <1>0, <2>1, <2>2, SentLast
    <2> QED BY <1>3, <2>1, <2>2
  <1>5. Carried'
    BY <1>1, <1>2, <1>4 DEF Content, Carried
  <1>6. \/ main' = main2 /\ ch' = ch2
        \/ UNCHANGED <<main, ch>>
    BY DEF send_msg, Write, WriteWaits, WriteFails, WriteKills, Dies, serverVars
  <1> QED BY <1>1, <1>2, <1>5, <1>6

\* What the clients have written depends on them and on the file alone.
LEMMA SameAccounts == ASSUME Content, sc' = sc, UNCHANGED cl PROVE Accounts'
  BY FileKept DEF Content, Accounts

\* A step of a channel leaves the file and the segment size it was opened with.
LEMMA SameOneFile ==
    ASSUME Content, sc' = sc, NEW id \in DOMAIN ch, NEW y, y.handle = ch[id].handle, y.maxSize = ch[id].maxSize,
           ch' = ch \/ ch' = [ch EXCEPT ![id] = y]
    PROVE  OneFile'
  <1>1. Offered' = Offered
    BY FileKept
  <1>2. CASE ch' = ch
    BY <1>1, <1>2 DEF Content, OneFile
  <1>3. CASE ch' = [ch EXCEPT ![id] = y]
    BY <1>1, <1>3 DEF Content, OneFile
  <1> QED BY <1>2, <1>3

\* The threads send segments of the file.
LEMMA ThreadContent ==
    ASSUME IInv, Shapes, Content, NEW id, ThreadStep(id), UNCHANGED cl
    PROVE  Content'
  <1>1. /\ id \in DOMAIN ch /\ ch[id].conn \in Clients /\ DOMAIN ch[id] = ThreadFields
        /\ DOMAIN ch[id].value = {"seg", "live"}
    BY ThreadStepEffect DEF Shapes, ThreadShapes, IInv, Types
  <1>2. ASSUME NEW y, Steps(ch[id], y), Thread(id, y) PROVE Content'
    <2>1. sc' = sc /\ UNCHANGED <<toServer, toClient, main>> /\ ch' = [ch EXCEPT ![id] = y]
      BY <1>2 DEF Thread, net
    <2>2. y.handle = ch[id].handle /\ y.maxSize = ch[id].maxSize
      BY <1>1, <1>2, StepsKeep
    <2>3. OneFile' /\ Accounts' /\ Offered' = Offered /\ Served' = Served
      BY <1>1, <2>1, <2>2, SameOneFile, SameAccounts, FileKept
    <2> QED BY <2>1, <2>3 DEF Content, Carried, Replies
  <1>3. CASE Dies("abort")
    <2>1. UNCHANGED <<sc, toServer, toClient, main, ch>>
      BY <1>3 DEF Dies, serverVars
    <2>2. Accounts' /\ Offered' = Offered /\ Served' = Served
      BY <2>1, SameAccounts, FileKept
    <2> QED BY <2>1, <2>2 DEF Content, Carried, OneFile, Replies
  <1>4. ASSUME NEW n, NEW y, Sends(ch[id], n, y),
               send_msg(id, ch[id].conn, Segment(id, n), main, [ch EXCEPT ![id] = y])
        PROVE  Content'
    <2> DEFINE m == Segment(id, n)
    <2>1. FromFile(m, Offered, Served)
      <3>1. m.type = "SYN" /\ m.seg = n /\ m.content = segment_in_file_handle(Bytes(id), n, ch[id].maxSize)
        BY DEF Segment, form_msg
      <3>2. Bytes(id) = Served /\ ch[id].maxSize = MAX_SIZE /\ Offered # 0
        BY <1>1 DEF Bytes, Served, Offered, Content, OneFile
      <3> QED BY <3>1, <3>2 DEF FromFile
    <2> HIDE DEF m
    <2>2. send_msg(id, ch[id].conn, m, main, [ch EXCEPT ![id] = y])
      BY <1>4 DEF m
    <2>3. /\ sc' = sc /\ Offered' = Offered /\ Served' = Served /\ Carried'
          /\ UNCHANGED main /\ (ch' = ch \/ ch' = [ch EXCEPT ![id] = y])
      BY <1>1, <2>1, <2>2, WriteContent
    <2>4. y.handle = ch[id].handle /\ y.maxSize = ch[id].maxSize
      BY <1>1, <1>4, StepsKeep
    <2>5. OneFile' /\ Accounts'
      BY <1>1, <2>3, <2>4, SameOneFile, SameAccounts
    <2> QED BY <2>3, <2>5 DEF Content, Replies
  <1> QED BY <1>2, <1>3, <1>4, ThreadStepEffect DEF Shapes

\* The select loop goes on without an answer to send, or as it was.
LEMMA SilentReplies ==
    ASSUME Content, sc' = sc, UNCHANGED main \/ main'.pc \notin {"send", "join"} \/ main'.answer = Null
    PROVE  Replies'
  BY FileKept DEF Content, Replies

\* It has answer a to send, now or after a join.
LEMMA AnswerReplies ==
    ASSUME sc' = sc, main'.answer.type # "SYN", FromFile(main'.answer, Offered, Served)
    PROVE  Replies'
  BY FileKept DEF Replies

\* The select loop takes a request of the file.
LEMMA HandleContent ==
    ASSUME IInv, Shapes, Content, main.pc = "recv", conn \in Clients, NEW m, Handle(m), UNCHANGED sc,
           m # Null => AsksFile(m, sc.file)
    PROVE  OneFile' /\ Replies'
  <1>1. DOMAIN main = MainFields /\ IsSeq(ch)
    BY DEF IInv, Types
  <1>2. \A k : Found(m, k) # 0 => Found(m, k) \in DOMAIN ch
    BY FoundIn DEF IInv, Arrays, Found
  <1>3. Offered' = Offered /\ Served' = Served
    BY FileKept
  <1>4. ASSUME UNCHANGED ch PROVE OneFile'
    BY <1>3, <1>4 DEF Content, OneFile
  <1>5. ASSUME NEW a, Answer(a), a.type # "SYN", FromFile(a, Offered, Served) PROVE Replies'
    <2>1. main'.answer = a
      BY <1>1, <1>5 DEF Answer, MainFields
    <2> QED BY <1>5, <2>1, AnswerReplies
  <1>6. ASSUME NEW a, a.type \in {"FIN", "RTS", "NACK"} PROVE a.type # "SYN" /\ FromFile(a, Offered, Served)
    BY <1>6 DEF FromFile
  <1>7. /\ Control(m, "RTS").type = "RTS" /\ Control(m, "NACK").type = "NACK"
        /\ \A content : Fin(m, content).type = "FIN"
    BY DEF Control, Fin, form_msg
  <1>8. ASSUME Offered # 0, NEW id
        PROVE  /\ Acknowledged(m, id, Offered, MAX_SIZE).type # "SYN"
               /\ FromFile(Acknowledged(m, id, Offered, MAX_SIZE), Offered, Served)
    <2>1. /\ Acknowledged(m, id, Offered, MAX_SIZE).type = "ACK"
          /\ Acknowledged(m, id, Offered, MAX_SIZE).seg = num_segments_in_file_handle(handles[Offered].bytes, MAX_SIZE)
      BY DEF Acknowledged, form_msg
    <2>2. Total(Served) = num_segments_in_file_handle(handles[Offered].bytes, MAX_SIZE)
      BY DEF Total, Served, Offered
    <2> QED BY <1>8, <2>1, <2>2 DEF FromFile
  <1>9. \A a : Answer(a) /\ UNCHANGED ch /\ a.type \in {"FIN", "RTS", "NACK"} => OneFile' /\ Replies'
    BY <1>4, <1>5, <1>6
  <1>11. CASE main' = [main EXCEPT !.pc = "endconn"] /\ UNCHANGED ch
    <2>1. main'.pc = "endconn"
      BY <1>1, <1>11 DEF MainFields
    <2> QED BY <1>4, <1>11, <2>1, SilentReplies
  <1>12. CASE m # Null /\ m.intact /\ Opens(m) /\ Open(m)
    <2> DEFINE handle == file_handle_for_file(handles, m.content)
               id == Found(m, 0)
    <2>1. handle = Offered /\ m.seg = MAX_SIZE
      BY <1>12 DEF Opens, Controls, AsksFile, Offered
    <2>2. totalChannels >= sc.slots \/ totalChannels < sc.slots
      BY DEF IInv, Types
    <2>3. \/ UNCHANGED ch /\ \E content : Answer(Fin(m, content))
          \/ handle # 0 /\ id # 0 /\ UNCHANGED ch /\ Answer(Acknowledged(m, id, ch[id].handle, ch[id].maxSize))
          \/ handle # 0 /\ ch' = Append(ch, NewChannel(m, handle)) /\ Answer(Acknowledged(m, Len(ch) + 1, handle, m.seg))
      BY <1>12, <2>2, Zenon DEF Open
    <2> HIDE DEF handle, id
    <2>4. CASE UNCHANGED ch /\ \E content : Answer(Fin(m, content))
      BY <1>7, <1>9, <2>4
    <2>5. CASE handle # 0 /\ id # 0 /\ UNCHANGED ch /\ Answer(Acknowledged(m, id, ch[id].handle, ch[id].maxSize))
      <3>1. ch[id].handle = Offered /\ ch[id].maxSize = MAX_SIZE /\ Offered # 0
        BY <1>2, <2>5 DEF Content, OneFile, id
      <3> QED BY <1>4, <1>5, <1>8, <2>5, <3>1
    <2>6. CASE handle # 0 /\ ch' = Append(ch, NewChannel(m, handle)) /\ Answer(Acknowledged(m, Len(ch) + 1, handle, m.seg))
      <3>1. Replies'
        BY <1>5, <1>8, <2>1, <2>6
      <3> DEFINE r == NewChannel(m, handle)
      <3>2. r.handle = Offered /\ r.maxSize = MAX_SIZE /\ Offered # 0
        BY <2>1, <2>6 DEF NewChannel
      <3> HIDE DEF r
      <3>3. \A k \in DOMAIN ch' : ch'[k] = r \/ (k \in DOMAIN ch /\ ch'[k] = ch[k])
        BY <1>1, <2>6, AppendSeq DEF r
      <3>4. OneFile'
        BY <1>3, <3>2, <3>3 DEF Content, OneFile
      <3> QED BY <3>1, <3>4
    <2> QED BY <2>3, <2>4, <2>5, <2>6
  <1>13. CASE Found(m, m.recv) # 0 /\ EndChannel(Found(m, m.recv), Fin(m, << >>))
    <2> SUFFICES ASSUME NEW id, id = Found(m, m.recv) PROVE OneFile' /\ Replies'
      OBVIOUS
    <2> DEFINE y == [ch[id] EXCEPT !.kill = TRUE]
    <2>1. id \in DOMAIN ch /\ DOMAIN ch[id] = ThreadFields
      BY <1>2, <1>13 DEF Shapes, ThreadShapes
    <2>2. ch' = [ch EXCEPT ![id] = y] /\ main'.answer = Fin(m, << >>)
      BY <1>1, <1>13, <2>1 DEF EndChannel, MainFields
    <2>3. y.handle = ch[id].handle /\ y.maxSize = ch[id].maxSize
      BY <2>1 DEF ThreadFields
    <2> HIDE DEF y
    <2>4. Replies'
      BY <1>6, <1>7, <2>2, AnswerReplies
    <2> QED BY <2>1, <2>2, <2>3, <2>4, SameOneFile
  <1>14. CASE Readies(m) /\ ch' = [ch EXCEPT ![Found(m, m.recv)].ready = TRUE] /\ main' = NextEntry
    <2> SUFFICES ASSUME NEW id, id = Found(m, m.recv) PROVE OneFile' /\ Replies'
      OBVIOUS
    <2> DEFINE y == [ch[id] EXCEPT !.ready = TRUE]
    <2>1. id \in DOMAIN ch /\ DOMAIN ch[id] = ThreadFields
      BY <1>2, <1>14 DEF Shapes, ThreadShapes, Readies
    <2>2. ch' = [ch EXCEPT ![id] = y] /\ main'.pc \in {"select", "recv"}
      BY <1>14, <2>1, LoopFields DEF NextEntry
    <2>3. y.handle = ch[id].handle /\ y.maxSize = ch[id].maxSize
      BY <2>1 DEF ThreadFields
    <2> HIDE DEF y
    <2>4. Replies'
      BY <2>2, SilentReplies
    <2> QED BY <2>1, <2>2, <2>3, <2>4, SameOneFile
  <1>15. CASE /\ Asks(m)
              /\ ch' = [ch EXCEPT ![Found(m, m.recv)].value = [seg |-> m.seg, live |-> TRUE],
                                  ![Found(m, m.recv)].clobbered = @ \/ ch[Found(m, m.recv)].data]
              /\ main' = [main EXCEPT !.pc = "flag", !.at = Found(m, m.recv)]
    <2> SUFFICES ASSUME NEW id, id = Found(m, m.recv) PROVE OneFile' /\ Replies'
      OBVIOUS
    <2> DEFINE v == [seg |-> m.seg, live |-> TRUE]
               y == [ch[id] EXCEPT !.value = v, !.clobbered = @ \/ ch[id].data]
    <2>1. id \in DOMAIN ch /\ DOMAIN ch[id] = ThreadFields
      BY <1>2, <1>15 DEF Shapes, ThreadShapes, Asks
    <2>2. ch' = [ch EXCEPT ![id] = y] /\ y.handle = ch[id].handle /\ y.maxSize = ch[id].maxSize
      <3> HIDE DEF v
      <3>1. ch' = [ch EXCEPT ![id].value = v, ![id].clobbered = @ \/ ch[id].data]
        BY <1>15 DEF v
      <3> QED BY <2>1, <3>1 DEF ThreadFields
    <2>3. main'.pc = "flag"
      BY <1>1, <1>15 DEF MainFields
    <2> HIDE DEF y, v
    <2>4. Replies'
      BY <2>3, SilentReplies
    <2> QED BY <2>1, <2>2, <2>4, SameOneFile
  <1> QED BY <1>7, <1>9, <1>11, <1>12, <1>13, <1>14, <1>15 DEF Handle

\* The select loop opens channels to the one file and answers with its size.
LEMMA MainContent ==
    ASSUME IInv, Shapes, Content, MainStep, UNCHANGED cl
    PROVE  Content'
  <1>1. DOMAIN main = MainFields /\ DOMAIN toServer = Clients
    BY DEF IInv, Types, Shapes, NetShapes
  <1>2. sc' = sc
    BY DEF MainStep, Select, Receive, Flag, Reply, Join, EndConnection, net, send_msg, Write, WriteWaits, WriteFails,
           WriteKills, Dies
  <1>3. Offered' = Offered /\ Served' = Served /\ Accounts'
    BY <1>2, FileKept, SameAccounts
  <1>4. ASSUME UNCHANGED <<toServer, toClient>> PROVE Carried'
    BY <1>2, <1>3, <1>4 DEF Content, Carried
  <1>5. ASSUME UNCHANGED ch PROVE OneFile'
    BY <1>3, <1>5 DEF Content, OneFile
  <1>6. CASE Select
    <2>1. UNCHANGED <<toServer, toClient, ch>> /\ main'.pc \in {"select", "recv"}
      BY <1>6, LoopFields DEF Select
    <2> QED BY <1>2, <1>3, <1>4, <1>5, <2>1, SilentReplies DEF Content
  <1>7. CASE Receive
    <2>1. main.pc = "recv" /\ conn \in Clients
      BY <1>7, AtConn DEF Receive, At
    <2>2. /\ toServer' = [toServer EXCEPT ![conn] = Incoming.rest] /\ UNCHANGED toClient
          /\ Handle(Incoming.msg)
      BY <1>7 DEF Receive, Incoming
    <2>3. Mails(toServer[conn]) /\ Requested(toServer[conn], sc.file)
      BY <2>1 DEF Shapes, NetShapes, Content, Carried
    <2>4. Incoming.msg # Null => AsksFile(Incoming.msg, sc.file)
      BY <2>1, <2>3, IncomingMails, TakenFirst DEF Shapes
    <2>5. Incoming.rest \in {toServer[conn], << >>} \/ (toServer[conn] # << >> /\ Incoming.rest = Tail(toServer[conn]))
      BY <2>1, IncomingMails DEF Shapes
    <2>6. Requested(Incoming.rest, sc.file)
      BY <2>3, <2>5, TakenFirst, NoneUnderWay
    <2>7. Carried'
      BY <1>1, <1>2, <1>3, <2>1, <2>2, <2>6 DEF Content, Carried
    <2>8. OneFile' /\ Replies'
      BY <1>2, <2>1, <2>2, <2>4, HandleContent
    <2> QED BY <1>3, <2>7, <2>8 DEF Content
  <1>8. CASE Flag
    <2> SUFFICES ASSUME NEW id, id = main.at PROVE Content'
      OBVIOUS
    <2> DEFINE y == [ch[id] EXCEPT !.data = TRUE]
    <2>1. main.pc = "flag" /\ UNCHANGED <<toServer, toClient>>
      BY <1>8 DEF Flag, At, net
    <2>2. id \in DOMAIN ch /\ DOMAIN ch[id] = ThreadFields
      BY <2>1, AtConn DEF Shapes, ThreadShapes, IInv, Arrays, AtConnection
    <2>3. ch' = [ch EXCEPT ![id] = y] /\ y.handle = ch[id].handle /\ y.maxSize = ch[id].maxSize
      BY <1>8, <2>2 DEF Flag, ThreadFields
    <2>4. main'.pc \in {"select", "recv"}
      BY <1>8, LoopFields DEF Flag, NextEntry
    <2> HIDE DEF y
    <2>5. OneFile' /\ Replies'
      BY <1>2, <2>2, <2>3, <2>4, SameOneFile, SilentReplies
    <2> QED BY <1>3, <1>4, <2>1, <2>5 DEF Content
  <1>9. CASE Reply
    <2>1. main.pc = "send" /\ send_msg(Main, conn, main.answer, NextEntry, ch) /\ conn \in Clients
      BY <1>9, AtConn DEF Reply, At
    <2>2. main.answer # Null
      <3>1. DOMAIN main.answer = MsgFields
        BY <2>1 DEF Shapes, AnswerShapes, Formed
      <3> QED BY <3>1 DEF Null, MsgFields
    <2>3. FromFile(main.answer, Offered, Served)
      BY <2>1, <2>2 DEF Content, Replies
    <2>4. Carried' /\ UNCHANGED ch /\ (UNCHANGED main \/ main' = NextEntry)
      BY <2>1, <2>3, WriteContent
    <2>5. Replies'
      BY <1>2, <2>4, LoopFields, SilentReplies DEF NextEntry
    <2> QED BY <1>3, <1>5, <2>4, <2>5 DEF Content
  <1>10. CASE Join
    <2>1. UNCHANGED <<toServer, toClient, ch>> /\ main.pc = "join" /\ main'.answer = main.answer
      BY <1>1, <1>10 DEF Join, At, net, MainFields
    <2>2. Replies'
      BY <1>3, <2>1 DEF Content, Replies
    <2> QED BY <1>3, <1>4, <1>5, <2>1, <2>2 DEF Content
  <1>11. CASE EndConnection
    <2>1. main.pc = "endconn" /\ conn \in Clients /\ UNCHANGED <<toServer, toClient>>
      BY <1>11, AtConn DEF EndConnection, At
    <2>2. CASE chans[conn] # << >>
      <3> SUFFICES ASSUME NEW id, id = Head(chans[conn]) PROVE Content'
        OBVIOUS
      <3> DEFINE y == [ch[id] EXCEPT !.kill = TRUE]
      <3>1. id \in DOMAIN ch
        <4>1. chans[conn] \in Seq(Nat)
          BY <2>1, AtConn
        <4>2. 1 \in DOMAIN chans[conn] /\ id = chans[conn][1]
          BY <2>2, <4>1
        <4>3. id \in ToSet(chans[conn])
          BY <4>2 DEF ToSet
        <4> QED BY <2>1, <4>3 DEF IInv, Arrays
      <3>2. DOMAIN ch[id] = ThreadFields
        BY <3>1 DEF Shapes, ThreadShapes
      <3>3. ch' = [ch EXCEPT ![id] = y] /\ main'.answer = Null
        BY <1>1, <1>11, <2>2, <3>1, <3>2 DEF EndConnection, EndChannel, MainFields
      <3>4. y.handle = ch[id].handle /\ y.maxSize = ch[id].maxSize
        BY <3>2 DEF ThreadFields
      <3> HIDE DEF y
      <3>5. OneFile' /\ Replies'
        BY <1>2, <3>1, <3>3, <3>4, SameOneFile, SilentReplies
      <3> QED BY <1>3, <1>4, <2>1, <3>5 DEF Content
    <2>3. CASE chans[conn] = << >>
      <3>1. UNCHANGED ch /\ main'.pc \in {"select", "recv"}
        BY <1>11, <2>3, LoopFields DEF EndConnection
      <3> QED BY <1>2, <1>3, <1>4, <1>5, <2>1, <3>1, SilentReplies DEF Content
    <2> QED BY <2>2, <2>3
  <1> QED BY <1>6, <1>7, <1>8, <1>9, <1>10, <1>11 DEF MainStep

\* Damage changes no content, and a client that was killed writes nothing more.
LEMMA DisturbContent == ASSUME IInv, Shapes, Content, Disturb PROVE Content'
  <1>1. CASE AcceptFails /\ UNCHANGED cl
    <2>1. UNCHANGED <<sc, toServer, toClient, main, ch, cl>>
      BY <1>1 DEF AcceptFails, Dies, serverVars
    <2>2. Accounts' /\ Offered' = Offered /\ Served' = Served
      BY <2>1, SameAccounts, FileKept
    <2> QED BY <2>1, <2>2 DEF Content, Carried, OneFile, Replies
  <1>2. ASSUME NEW c \in Clients, Alter(c), UNCHANGED <<arrays, serverVars, cl>>
        PROVE  Content'
    <2>1. /\ Mails(toServer[c]) /\ Mails(toClient[c]) /\ DOMAIN toServer = Clients /\ DOMAIN toClient = Clients
          /\ Requested(toServer[c], sc.file) /\ Answered(toClient[c], Offered, Served)
      BY DEF Shapes, NetShapes, Content, Carried
    <2>2. UNCHANGED <<sc, main, ch>>
      BY <1>2 DEF Alter, serverVars
    <2>3. Accounts' /\ Offered' = Offered /\ Served' = Served
      BY <1>2, <2>2, SameAccounts, FileKept
    <2>4. Carried'
      <3>1. CASE /\ toServer[c] # << >> /\ UNCHANGED toClient
                 /\ \E r : toServer' = [toServer EXCEPT ![c][1].intact = FALSE, ![c][1].recv = r]
        <4>1. PICK r : toServer' = [toServer EXCEPT ![c][1].intact = FALSE, ![c][1].recv = r]
          BY <3>1
        <4> DEFINE q == toServer[c]
                   m == [q[1] EXCEPT !.intact = FALSE, !.recv = r]
        <4>2. 1 \in DOMAIN q /\ DOMAIN q[1] = MsgFields
          BY <2>1, <3>1, TailSeq DEF Mails
        <4>3. toServer' = [toServer EXCEPT ![c] = [q EXCEPT ![1] = m]] /\ Comes(m, q[1])
          BY <2>1, <4>1, <4>2 DEF MsgFields, Comes
        <4> HIDE DEF m
        <4>4. Requested([q EXCEPT ![1] = m], sc.file)
          BY <2>1, <3>1, <4>3, DamagedFirst
        <4> QED BY <2>1, <2>2, <2>3, <3>1, <4>3, <4>4 DEF Content, Carried
      <3>2. CASE /\ toClient[c] # << >> /\ UNCHANGED toServer
                 /\ toClient' = [toClient EXCEPT ![c][1].intact = FALSE]
        <4> DEFINE q == toClient[c]
                   m == [q[1] EXCEPT !.intact = FALSE]
        <4>2. 1 \in DOMAIN q /\ DOMAIN q[1] = MsgFields
          BY <2>1, <3>2, TailSeq DEF Mails
        <4>3. toClient' = [toClient EXCEPT ![c] = [q EXCEPT ![1] = m]] /\ Comes(m, q[1])
          BY <2>1, <3>2, <4>2 DEF MsgFields, Comes
        <4> HIDE DEF m
        <4>4. Answered([q EXCEPT ![1] = m], Offered, Served)
          BY <2>1, <3>2, <4>3, DamagedFirst
        <4> QED BY <2>1, <2>2, <2>3, <3>2, <4>3, <4>4 DEF Content, Carried
      <3> QED BY <1>2, <3>1, <3>2 DEF Alter
    <2> QED BY <2>2, <2>3, <2>4 DEF Content, OneFile, Replies
  <1>3. ASSUME NEW c \in Clients, ClientKilled(c), UNCHANGED <<arrays, serverVars>>
        PROVE  Content'
    <2>1. "crashed" \notin InChannel
      BY DEF InChannel
    <2>2. Exits(c, "crashed") /\ UNCHANGED <<sc, toServer, main, ch>>
      BY <1>3 DEF ClientKilled, serverVars
    <2> QED BY <2>1, <2>2, ExitContent
  <1>4. ASSUME NEW c \in Clients, Unframe(c), cl' = [cl EXCEPT ![c].inStep = FALSE], UNCHANGED <<arrays, serverVars>>
        PROVE  Content'
    <2>1. /\ Mails(toServer[c]) /\ Mails(toClient[c]) /\ DOMAIN toServer = Clients /\ DOMAIN toClient = Clients
          /\ DOMAIN cl = Clients /\ DOMAIN cl[c] = ClientFields
      BY DEF Shapes, NetShapes, ClientShapes
    <2>2. UNCHANGED <<sc, main, ch>> /\ Offered' = Offered /\ Served' = Served
      BY <1>4, FileKept DEF Unframe, serverVars
    <2>3. /\ toServer' = toServer \/ \E r : \E q \in Unframed(toServer[c], r) :
                toServer[c] # << >> /\ toServer' = [toServer EXCEPT ![c] = q]
          /\ toClient' = toClient \/ \E r : \E q \in Unframed(toClient[c], r) :
                toClient[c] # << >> /\ toClient' = [toClient EXCEPT ![c] = q]
      BY <1>4 DEF Unframe
    <2>4. Carried'
      <3> SUFFICES ASSUME NEW d \in Clients
                   PROVE  Requested(toServer'[d], sc.file) /\ Answered(toClient'[d], Offered, Served)
        BY <2>2 DEF Carried
      <3>1. Requested(toServer[d], sc.file) /\ Answered(toClient[d], Offered, Served)
        BY DEF Content, Carried
      <3>2. Requested(toServer'[d], sc.file)
        BY <2>1, <2>3, <3>1, UnframedContent
      <3>3. Answered(toClient'[d], Offered, Served)
        BY <2>1, <2>3, <3>1, UnframedContent
      <3> QED BY <3>2, <3>3
    <2>5. Account(cl'[c], Offered, Served)
      <3> DEFINE s == cl[c]
                 t == [s EXCEPT !.inStep = FALSE]
      <3>1. cl'[c] = t /\ Account(s, Offered, Served)
        BY <1>4, <2>1 DEF Content, Accounts
      <3>2. Untouched(t, s) /\ t.result = s.result /\ ~t.inStep /\ t.other = s.other /\ t.pc = s.pc
        BY <2>1 DEF ClientFields, Untouched
      <3> HIDE DEF s, t
      <3> QED BY <3>1, <3>2, AccountKeeps
    <2> QED BY <1>4, <2>1, <2>2, <2>4, <2>5 DEF Content, OneFile, Replies, Accounts
  <1> QED BY <1>1, <1>2, <1>3, <1>4 DEF Disturb

\* At first nothing is under way and nothing was written.
LEMMA InitContent == Init => Content
  <1> SUFFICES ASSUME Init PROVE Content
    OBVIOUS
  <1>1. Carried
    BY NoneUnderWay DEF Init, NetInit, Carried
  <1>2. OneFile /\ Replies
    BY DEF Init, ServerInit, OneFile, Replies
  <1>3. \A c \in Clients : /\ cl[c].pc \in {"connect", "done"} /\ cl[c].result = "none"
                           /\ cl[c].pc \notin InChannel
    BY DEF Init, ClientInit, InChannel
  <1>4. Accounts
    BY <1>3 DEF Accounts, Account, InChannel
  <1> QED BY <1>1, <1>2, <1>4 DEF Content

\* Every data message carries the segment of its number, every answer the number of segments,
\* and what a client in step has written is a prefix of the file (client.c:50-76).
THEOREM ContentInvariance == Spec => []Content
  <1>1. Init => Content
    BY InitContent
  <1>2. ASSUME Full, Content, Next PROVE Content'
    <2>0. IInv /\ Shapes /\ sc \in Scenarios
      BY <1>2 DEF Full, IInv, Types
    <2>1. CASE ServerMain
      BY <1>2, <2>0, <2>1, MainContent DEF ServerMain
    <2>2. CASE \E id \in 1 .. MaxChannels : ServerThread(id)
      BY <1>2, <2>0, <2>2, ThreadContent DEF ServerThread
    <2>3. CASE \E c \in Clients : Client(c)
      BY <1>2, <2>0, <2>3, ClientContent DEF Client
    <2>4. CASE Disturb
      BY <1>2, <2>0, <2>4, DisturbContent
    <2> QED BY <1>2, <2>1, <2>2, <2>3, <2>4 DEF Next
  <1>3. ASSUME Content, UNCHANGED vars PROVE Content'
    <2>1. UNCHANGED <<sc, toServer, toClient, main, ch, cl>>
      BY <1>3 DEF vars, net, serverVars
    <2> QED BY <1>3, <2>1, FileKept DEF Content, Carried, OneFile, Replies, Accounts
  <1> QED BY <1>1, <1>2, <1>3, ExchangeInvariance, PTL DEF Spec

\* A download that is reported as written, to a client in step of whose segments at most the
\* empty one was damaged, is the served file, byte for byte (client.c:50-101,
\* server_help.c:70-81).
THEOREM Delivery == Spec => []WrittenIsServed
  <1>1. Content => WrittenIsServed
    <2> SUFFICES ASSUME Content, NEW c \in Clients, cl[c].result = "written", cl[c].inStep,
                        cl[c].missed \subseteq {cl[c].count + 1}, Len(Served) <= Wrap
                 PROVE  cl[c].out = Served
      BY DEF WrittenIsServed
    <2>1. Account(cl[c], Offered, Served)
      BY DEF Content, Accounts
    <2>2. cl[c].count = Total(Served)
      BY <2>1 DEF Account
    <2>3. Whole(cl[c], Served)
      BY <2>2 DEF Whole
    <2> QED BY <2>1, <2>3 DEF Account
  <1> QED BY <1>1, ContentInvariance, PTL
=============================================================================
