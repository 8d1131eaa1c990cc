--------------------------- MODULE FileTransfer ---------------------------
(***************************************************************************)
(* One child of the server: run_file_transfer and shipfile                 *)
(* (server/file_transfer.c), with send_msg and writen underneath           *)
(* (socket_msg_help.c, socket_help.c) and the log line at the end (log.c). *)
(*                                                                         *)
(* A directory is a sequence of entries in readdir order.  An entry has    *)
(* its d_type, whether its name starts with a dot, whether fopen succeeds, *)
(* and the full blocks it holds; what follows the last full block is never *)
(* read ("for now, read only full blocks", file_transfer.c:56).  A block   *)
(* is an opaque value; BlockSize is its length in bytes.                   *)
(*                                                                         *)
(* The peer reads or not: drained counts the blocks that have left the     *)
(* socket, which holds Room of them; a write to a full one waits.  The     *)
(* peer may also reset the connection.  A write then returns -1, or the    *)
(* process dies of SIGPIPE, whose action the server leaves at the default. *)
(***************************************************************************)
EXTENDS Integers, Sequences, FiniteSets

CONSTANTS Dirs,          \* the directories the server may be started on
          Blocks,        \* the contents a full block may have
          BlockSize,     \* HIPFT_BLOCK_SIZE
          Uninit,        \* values an uninitialised long long may show
          Room,          \* blocks the socket holds until the peer reads
          MayReset       \* whether the peer may reset the connection

ASSUME BlockSizeAssumption == BlockSize \in Nat \ {0}
ASSUME UninitAssumption == Uninit # {} /\ Uninit \subseteq Nat
ASSUME RoomAssumption == Room \in Nat \ {0}
ASSUME MayResetAssumption == MayReset \in BOOLEAN

\* What readdir and the file behind a name show of an entry.
DirEntry == [d_type : Nat, dot : BOOLEAN, opens : BOOLEAN, blocks : Seq(Blocks)]

ASSUME DirsAssumption == Dirs \subseteq Seq(DirEntry)

VARIABLES
    dir0,        \* the directory, as opendir found it
    dir,         \* the entries readdir has still to return
    pc,          \* where the child is
    left,        \* blocks of the open file not yet read
    blockcount, bytecount,     \* the locals shipfile writes through pointers
    blocktotal, bytetotal, errors,
    sendMutex,   \* send_mutex is locked
    peerGone,    \* the connection has been reset
    wire,        \* blocks written to the socket, in order
    drained,     \* how many of them have left it, because the peer reads
    dropped,     \* auxiliary: sends that failed after being counted
    readErr,     \* auxiliary: readdir ended with errno set
    log          \* the line hipftlog wrote, << >> before

svars == <<dir0, dir, pc, left, blockcount, bytecount, blocktotal, bytetotal,
           errors, sendMutex, peerGone, wire, drained, dropped, readErr, log>>

DT_REG == 8
DT_LNK == 10
DT_SOCK == 12
DT_DIR == 4

Init ==
    /\ dir0 \in Dirs /\ dir = dir0
    /\ pc = "opendir"
    /\ left = << >>
    /\ blockcount \in Uninit /\ bytecount \in Uninit
    /\ blocktotal = 0 /\ bytetotal = 0 /\ errors = 0
    /\ sendMutex = FALSE
    /\ peerGone = FALSE
    /\ wire = << >> /\ drained = 0
    /\ dropped = 0
    /\ readErr = FALSE
    /\ log = << >>

\* opendir("."): on failure the child returns at once and logs nothing.
Opendir ==
    /\ pc = "opendir"
    /\ pc' \in {"readdir", "exited"}
    /\ UNCHANGED <<dir0, dir, left, blockcount, bytecount, blocktotal, bytetotal,
                   errors, sendMutex, peerGone, wire, drained, dropped, readErr, log>>

\* dep->d_type & DT_REG: bit 3 of the type, which symbolic links and sockets
\* have too.
TypeSelected(e) == (e.d_type \div DT_REG) % 2 = 1

\* An entry whose type is not selected.
SkipEntry ==
    /\ pc = "readdir" /\ dir # << >> /\ ~TypeSelected(Head(dir))
    /\ dir' = Tail(dir)
    /\ UNCHANGED <<dir0, pc, left, blockcount, bytecount, blocktotal, bytetotal,
                   errors, sendMutex, peerGone, wire, drained, dropped, readErr, log>>

\* shipfile returns without opening anything: a dot file (0) or a failing
\* fopen (1).  The counts keep the values they had, and are added.
NotShipped ==
    /\ pc = "readdir" /\ dir # << >> /\ TypeSelected(Head(dir))
    /\ Head(dir).dot \/ ~Head(dir).opens
    /\ dir' = Tail(dir)
    /\ errors' = errors + IF Head(dir).dot THEN 0 ELSE 1
    /\ blocktotal' = blocktotal + blockcount
    /\ bytetotal' = bytetotal + bytecount
    /\ UNCHANGED <<dir0, pc, left, blockcount, bytecount, sendMutex, peerGone,
                   wire, drained, dropped, readErr, log>>

\* shipfile opens the file and resets the counts.
OpenFile ==
    /\ pc = "readdir" /\ dir # << >> /\ TypeSelected(Head(dir))
    /\ ~Head(dir).dot /\ Head(dir).opens
    /\ left' = Head(dir).blocks
    /\ blockcount' = 0 /\ bytecount' = 0
    /\ pc' = "fread"
    /\ UNCHANGED <<dir0, dir, blocktotal, bytetotal, errors, sendMutex, peerGone,
                   wire, drained, dropped, readErr, log>>

\* The socket takes a block: a write to a full socket waits until the peer has
\* read, for ever when it does not.
CanSend ==
    /\ pc = "fread" /\ left # << >> /\ ~sendMutex
    /\ Len(wire) - drained < Room

\* The counts go up whatever became of the message.
CountBlock ==
    /\ left' = Tail(left)
    /\ blockcount' = blockcount + 1
    /\ bytecount' = bytecount + BlockSize
    /\ UNCHANGED <<dir0, dir, blocktotal, bytetotal, errors, drained, readErr, log>>

\* Faulty variant: a block that was sent is not counted.
SendBlockUncounted ==
    /\ CanSend
    /\ wire' = Append(wire, Head(left))
    /\ left' = Tail(left)
    /\ UNCHANGED <<dir0, dir, blockcount, bytecount, blocktotal, bytetotal, errors,
                   drained, readErr, log, pc, sendMutex, peerGone, dropped>>

\* Faulty variant: the next block of the file is read before this one is sent.
SendBlockReordered ==
    /\ CanSend
    /\ wire' = <<Head(left)>> \o wire
    /\ CountBlock
    /\ UNCHANGED <<pc, sendMutex, peerGone, dropped>>

\* Faulty variant: the mutex is not released when writen has written all.
SendBlockKeepsMutex ==
    /\ CanSend
    /\ wire' = Append(wire, Head(left))
    /\ sendMutex' = TRUE
    /\ CountBlock
    /\ UNCHANGED <<pc, peerGone, dropped>>

\* A full block is read, formed into a message, encoded and written whole;
\* writen locks and unlocks send_mutex around it.  After a reset a write may
\* still be taken by the socket buffer.
SendBlock ==
    /\ CanSend
    /\ wire' = Append(wire, Head(left))
    /\ CountBlock
    /\ UNCHANGED <<pc, sendMutex, peerGone, dropped>>

\* malloc fails in msg_to_cobs: send_msg reports it and returns.
SendNoMemory ==
    /\ pc = "fread" /\ left # << >>
    /\ dropped' = dropped + 1
    /\ CountBlock
    /\ UNCHANGED <<pc, sendMutex, peerGone, wire>>

\* write returns -1: writen returns without unlocking send_mutex, and send_msg
\* ignores the result.  The next writen of this process blocks for ever.
SendFails ==
    /\ pc = "fread" /\ left # << >> /\ ~sendMutex /\ peerGone
    /\ sendMutex' = TRUE
    /\ dropped' = dropped + 1
    /\ CountBlock
    /\ UNCHANGED <<pc, peerGone, wire>>

\* The write raises SIGPIPE.
SendKilled ==
    /\ pc = "fread" /\ left # << >> /\ ~sendMutex /\ peerGone
    /\ pc' = "killed"
    /\ UNCHANGED <<dir0, dir, left, blockcount, bytecount, blocktotal, bytetotal,
                   errors, sendMutex, peerGone, wire, drained, dropped, readErr, log>>

\* Faulty variant: the file is closed one block before its end.
CloseFileEarly ==
    /\ pc = "fread" /\ Len(left) <= 1
    /\ dir' = Tail(dir)
    /\ left' = << >>
    /\ blocktotal' = blocktotal + blockcount
    /\ bytetotal' = bytetotal + bytecount
    /\ pc' = "readdir"
    /\ UNCHANGED <<dir0, blockcount, bytecount, errors, sendMutex, peerGone,
                   wire, drained, dropped, readErr, log>>

\* fread returns less than a block: shipfile returns 0 and its counts are
\* added to the totals.
CloseFile ==
    /\ pc = "fread" /\ left = << >>
    /\ dir' = Tail(dir)
    /\ blocktotal' = blocktotal + blockcount
    /\ bytetotal' = bytetotal + bytecount
    /\ pc' = "readdir"
    /\ UNCHANGED <<dir0, left, blockcount, bytecount, errors, sendMutex, peerGone,
                   wire, drained, dropped, readErr, log>>

\* The log line, without its time and addresses.
hipftlog(nblocks, nbytes, nerrors) ==
    [blocks |-> nblocks, bytes |-> nbytes, errors |-> nerrors]

\* readdir returns NULL, at the end of the directory or on an error; the
\* child logs what it did and exits.
LogAndExit ==
    /\ pc = "readdir"
    /\ \E err \in BOOLEAN :
         /\ err \/ dir = << >>
         /\ readErr' = err
         /\ errors' = errors + IF err THEN 1 ELSE 0
         /\ log' = hipftlog(blocktotal, bytetotal, errors')
    /\ pc' = "exited"
    /\ UNCHANGED <<dir0, dir, left, blockcount, bytecount, blocktotal, bytetotal,
                   sendMutex, peerGone, wire, drained, dropped>>

Child == \/ Opendir \/ SkipEntry \/ NotShipped \/ OpenFile \/ SendBlock
         \/ SendFails \/ SendKilled \/ CloseFile \/ LogAndExit

\* The peer closes with data unread, or its process dies.
PeerReset ==
    /\ MayReset /\ ~peerGone
    /\ peerGone' = TRUE
    /\ UNCHANGED <<dir0, dir, pc, left, blockcount, bytecount, blocktotal,
                   bytetotal, errors, sendMutex, wire, drained, dropped, readErr, log>>

\* The peer reads a block, and the socket has room for another.
Drain ==
    /\ drained < Len(wire)
    /\ drained' = drained + 1
    /\ UNCHANGED <<dir0, dir, pc, left, blockcount, bytecount, blocktotal, bytetotal,
                   errors, sendMutex, peerGone, wire, dropped, readErr, log>>

Next == Child \/ SendNoMemory \/ PeerReset \/ Drain

\* The child is an ordinary process: it is scheduled as long as it can run.
\* Nothing makes malloc fail, and nothing makes a peer read or go away.
Spec == Init /\ [][Next]_svars /\ WF_svars(Child)

---------------------------------------------------------------------------
Shipped(e) == TypeSelected(e) /\ ~e.dot /\ e.opens
NotOpened(e) == TypeSelected(e) /\ ~e.dot /\ ~e.opens

\* The number of entries readdir has returned and the loop is done with.
Done == Len(dir0) - Len(dir)

\* BlocksOf(d)[n]: the blocks of the first n entries of d, in order.
BlocksOf(d) ==
    LET blocks[n \in 0 .. Len(d)] ==
            IF n = 0 THEN << >>
            ELSE blocks[n - 1] \o (IF Shipped(d[n]) THEN d[n].blocks ELSE << >>)
    IN  blocks

\* The entries among the first n of d that fopen refuses.
Refused(d, n) == {k \in 1 .. n : NotOpened(d[k])}

\* No entry read so far is a symbolic link.
NoLinks == \A k \in 1 .. Done : dir0[k].d_type # DT_LNK

\* Every selected entry so far could be shipped.
NoSkips == \A k \in 1 .. Done : TypeSelected(dir0[k]) => Shipped(dir0[k])

\* Type correctness of the child's state; what readdir has still to return is
\* the end of the directory.
TypeOK ==
    /\ dir0 \in Dirs /\ dir \in Seq(DirEntry) /\ Len(dir) <= Len(dir0)
    /\ \A k \in 1 .. Len(dir) : dir[k] = dir0[Done + k]
    /\ left \in Seq(Blocks) /\ wire \in Seq(Blocks)
    /\ drained \in Nat /\ drained <= Len(wire)
    /\ pc \in {"opendir", "readdir", "fread", "exited", "killed"}
    /\ blockcount \in Nat /\ bytecount \in Nat
    /\ blocktotal \in Nat /\ bytetotal \in Nat /\ errors \in Nat
    /\ sendMutex \in BOOLEAN /\ peerGone \in BOOLEAN /\ readErr \in BOOLEAN
    /\ dropped \in Nat

\* The stream carries the full blocks of the selected files, complete, once,
\* in readdir order: whenever the child is between files, no send was dropped
\* and no symbolic link was read, what shipfile has written is exactly the
\* blocks of the entries read so far, over all the interleavings with a peer
\* that reads, waits or resets.  Links are no part of the claim: the comment
\* at file_transfer.c:101 says they are avoided, the mask of line 108 selects
\* them.
StreamIsFiles ==
    pc = "readdir" /\ dropped = 0 /\ NoLinks => wire = BlocksOf(dir0)[Done]

\* The log line of hipftlog tells the truth when every selected entry could
\* be opened: its block count is the number of messages sent, or dropped
\* under an error; its byte count is that many whole blocks; and its error
\* count is the number of failed opens and of a failed readdir.
LogTruthful ==
    log # << >> =>
        /\ NoSkips => /\ log.blocks = Len(wire) + dropped
                      /\ log.bytes = BlockSize * log.blocks
        /\ log.errors = Cardinality(Refused(dir0, Done)) + IF readErr THEN 1 ELSE 0

\* The peer keeps reading until the socket is empty, or resets: while it does
\* neither, writen may wait in write for ever.
PeerServes == []<>(drained = Len(wire) \/ peerGone)

\* With a peer that reads or resets, the child ends, or a write that failed on
\* the reset connection has left send_mutex locked: neither a full socket nor
\* any order of resets, failed opens and errors keeps it from its end.
ChildFinishes ==
    PeerServes => <>(pc \in {"exited", "killed"} \/ (sendMutex /\ peerGone))

---------------------------------------------------------------------------
(* What a comment in the repository says and the code does not do.         *)

\* socket_help.h:18, "text-book, thread-safe": writen leaves send_mutex usable
\* whatever the socket does, so every child whose peer reads or resets comes
\* to its end.
EveryChildEnds == PeerServes => <>(pc \in {"exited", "killed"})
===========================================================================
