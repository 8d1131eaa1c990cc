# A TLA+ model of the block transfer programs

The repository measures how often errors slip past TCP during large transfers. A
server sends files as messages that carry their own parity, framed with COBS
(consistent overhead byte stuffing); a client reads the stream, resynchronises at
every delimiter and reports what arrived damaged. This directory models those
programs, checks the models with TLC and proves part of what is checked with TLAPS.

## 1. The system

Two programs share one library.

**The block transfer** (`server/`, `client/`) is what is built and run. The parent
process of the server accepts connections and forks one child for each. The child
walks a directory and ships every full block of every selected file as one message.
The client counts the blocks it can parse and logs an error line for those it cannot.

**The segment transfer** (`justin-snapshot/drv/`) is an older design: one select loop,
a thread per channel, and segments that the client may ask for again. Its receive
function `recv_msg` is a stub that returns NULL (`socket_msg_help.c:64`), so today it
ends every connection at the first message. Both drivers are written for one that hands over
damaged messages too. The revision sketched in `recv_msg.c` does not serve them: it does not compile, and it would refuse
every frame.

| component | state it keeps | operations | correct when |
|---|---|---|---|
| `cobs` | locals of one call | encode, decode, partial decode, two verifiers, five length calculators | one zero per frame, at its end; decoding restores the source; callers' buffers suffice |
| `parity` | none | compute and check, vertical and horizontal | intact data passes; the errors found are the ones promised |
| `message` | one message | form, serialise, parse, verify | parsing stays inside its bytes; what is accepted is what was sent |
| `socket_help`, `socket_msg_help` | `send_mutex`, `recv_mutex` | `writen`, `readn`, `send_msg`, `recv_msg` | a frame is written whole; the mutexes are released |
| file transfer child (`file_transfer.c`, `log.c`) | directory position, open file, counts and totals | open, skip, send, log | the stream is the files; the log line is true; the child ends |
| server parent (`server.c`) | loop position, children, pending SIGCHLD | accept, fork, reap | the handler never blocks the loop; children are collected |
| block client (`read_blocks.c`, `handle_errors.c`) | buffer, two counters, error log | byte, chunk, end of file, out of memory | each chunk is counted or reported, once; damage stays local |
| `section` | array of ranges | add, delete, query, free | it is a set of numbers |
| `file_handle` | files of a directory | look up, count and read segments | the segments make up the file |
| `conn_chan` | arrays of connections and channels, a total | add, end | the total and the arrays agree with the threads that run |
| segment server (`drv/server.c`, `server_help.c`) | loop position, flags and the request shared with each channel thread | accept, dispatch, answer, join; send, send again, exit | requests are handed over once; slots come back; no client stops another |
| segment client (`drv/client.c`) | step of the exchange, missing segments, output file | open, gather, ask again, close | each message taken is the one it waits for; the file is the one served |

How they interact: the parent forks the child, which inherits the socket; the child
calls `form_msg`, `send_msg`, `msg_to_cobs`, `cobs_encode` and `writen`; the client is
connected to it by one TCP stream only. The parent and its children share nothing but
the process table and SIGCHLD. In the segment transfer the select loop starts and joins
the channel threads, hands them requests through plain memory, and shares with them one mutex for
all writes; a client talks to the loop and to its thread over the same connection and tells their
messages apart by nothing but the order. What is hard here: signals that merge, a mutex left
locked on an error path, a stream cut in the wrong places by one altered byte, a server
that dies in mid-frame, flags without a lock, a join that waits for a thread that waits for a client,
requests and answers that must pair up without numbers, lengths taken from damaged headers, counts that survive from one
call to the next, and boundary cases of COBS, of parity and of the array of ranges.
`PROJECT.json` lists these hazards line by line with the properties that would catch them.

## 2. Modules

| module | models | composes / extends |
|---|---|---|
| `Cobs` | `cobs.c`, every function as an operator | |
| `CobsEncoder` | one call of `cobs_encode`, a step per byte | `Cobs` |
| `FileTransfer` | one server child | |
| `BlockClient` | `read_blocks` and its error handlers | `Cobs` |
| `QdTransfer` | a child and a client over one connection | instances of `FileTransfer` and `BlockClient` |
| `ForkServer` | `start_server`, `run_server`, `reaper` | |
| `NumberSet` | what a section promises: a set of numbers | |
| `Section` | `section.c` | refines `NumberSet` |
| `Parity` | `parity.c` as operators | |
| `ParityErrors` | a string and its parities with bits inverted | `Parity` |
| `Message` | a message from `form_msg` to both receivers | `Parity` |
| `FileHandle` | `file_handle.c` as operators | |
| `SegmentNet` | messages, connections, and the ways to read and write them | |
| `ConnChan` | `conn_chan.c`, `find_existing_channel` | `SegmentNet` |
| `SegmentServer` | the select loop and the channel threads | `ConnChan`, `FileHandle` |
| `SegmentClient` | `drv/client.c` | `SegmentNet` |
| `SegmentTransfer` | the server, its threads and its clients | `SegmentServer`, `SegmentClient` |
| `CobsProofs` | lemmas about the operators of `Cobs` | `Cobs` |
| `CobsEncoderProofs`, `BlockClientProofs` | theorems | the module of the same name, `CobsProofs` |
| `FileTransferProofs` | theorems | `FileTransfer` |
| `QdTransferProofs` | theorems | `QdTransfer`, instances of `FileTransferProofs` and `BlockClientProofs` |
| `ForkServerProofs`, `SectionProofs`, `SegmentTransferProofs` | theorems | the module of the same name |
| `MCBlockClient`, `MCFileTransfer`, `MCQdTransfer`, `MCMessage`, `MCSegment` | finite inputs for TLC | the module of the same name; `MCSegment` that of `SegmentTransfer` |

Definitions keep the names of the C functions where they translate one. An operator
introduced by "Faulty variant" is not part of the model: it is a version of the
definition below it with a plausible bug, used to confirm that a property can fail.

**Cobs, CobsEncoder.** A byte array is a sequence. `MaxMarker` stands for 0xFF, so that full
blocks fit into short strings; only the constants 0xFF and 0xFE of the code depend on it.
The locals of `cobs_encode` are a record: `dst` so far, the offset `curr` of the marker
slot, and `marker`. A reserved byte holds `Unwritten` until its marker is placed. In
`CobsEncoder`, `src` is also every string that might be received, for the verifiers.

**FileTransfer.** A directory is a sequence of entries in readdir order, with type, dot name,
whether it opens, and its full blocks (the rest of a file is never read, as in the code).
`blockcount` and `bytecount` are the locals that `shipfile` writes through pointers; they
start at any value of `Uninit`, because they are not initialised. `SendBlock`,
`SendBlock`, `SendNoMemory`, `SendFails` and `SendKilled` are the ways one iteration of the read loop can
go: `SendFails` leaves `send_mutex` locked, and no send is enabled after that. The socket holds `Room` blocks
that its peer has not read (`drained` counts those that left it, `Drain` is the peer reading): on a full socket
`write` waits and `SendBlock` is not enabled. Nothing makes the peer read. `Blocks` is the set of
contents a block may have. The allocation of the read buffer, which the code does not check, is taken to succeed.

**BlockClient.** Each step reads one byte. A delimiter handles the chunk collected so far, in
one step: the code from there to the next byte depends on the chunk only. A chunk that is
not a whole message may have any outcome the code allows; `Message` has the detail. The length
scan of `cobs_decoded_length_from_encoded` needs a zero behind the chunk, which only the first
`BLOCK_INITIAL_SIZE` bytes of the buffer guarantee. For a longer chunk the scan runs over memory
that nobody wrote; the outcome "abort" stands for its failing assertion.

**QdTransfer.** The connection delivers frames in order, to a socket that takes `Room` of them ahead of the client; it may alter one byte of a frame, `MaxErrs`
times in all (the errors the project looks for). `ServerDies` kills the server, perhaps with
part of a frame written; a client that stops early resets the connection.

**ForkServer.** Children are alike and are counted. SIGCHLD is one pending bit, blocked while its
handler runs; the handler may run between any two steps of the loop. `fork` fails when the process
limit is reached, zombies included, and the server then returns from its loop, as in the code.

**Section, NumberSet.** The pieces are a sequence of bounds; `high + 1` wraps at `MaxNum`. Next to
the pieces the pointer `sec->pieces` is followed: null, live or dangling.

**Parity, ParityErrors, Message.** A byte has `Bits` bits, a vertical word `VBytes` bytes, a horizontal
one `HBytes`. The masks `(uint64)(1 << n)` shift an int: the count is taken modulo its width, and the
sign bit spreads over the upper half. In `Message` every field wider than a byte has two bytes, most
significant first; `PointerLen` is the length of the first four fields, 8 bytes in the program, which is
what `sizeof(m->head)` compares. `Validate` gives both verdicts on a parsed message: that of
`validate_message`, which decides what the block client counts, and that of `verify_msg`, which the
segment client uses.

**SegmentNet.** A connection is two bounded queues of messages and the way each end was closed:
with nothing unread ("eof") or otherwise ("reset"). `intact` is what `verify_msg` finds out about a message; how
is the matter of `Message` and `Parity`. `sc.receiver` says which `recv_msg` is linked: the "stub", or the "plain" one,
which hands over every message for its caller to verify. The last has no body
in the repository outside a comment; it is modelled from how the drivers use it. The sketch in `recv_msg.c` is left out:
it hands the delimiter it has counted (41-54) to `cobs_verify`, which admits none (`cobs.c:147`). `readn` returns with
`recv_mutex` locked at the end of a stream and on an error, so that `CanRecv` is never true again in
that process; the same goes for `writen`, `send_mutex` and errors (`Orphaned`, `sendLocked`). A write to a
connection that was reset either fails or, through SIGPIPE, ends the process.

Damage is of two kinds. `Alter` changes a message within its frame, so that it no longer verifies; in a header this may
show as another receiver. `Unframe` changes the frames themselves, because `send_msg` ends each one with a zero byte and nothing
else tells them apart: a byte altered to a zero splits a message in two, and a zero altered to another byte joins it with the next.
The parts verify no more (`chan` is "PART"). When nothing follows, the message is "OPEN": its reader waits for a delimiter
(`Torn`), and whatever is sent next becomes part of it (`Sent`). In `QdTransfer` the same happens byte by byte.

**ConnChan.** An array is its elements and the entries it was allocated with, which are one short whenever an
element is added to a non-empty array. Writing that entry is undefined; the model takes it to succeed and
follows the shortfall.

**SegmentServer.** The loop has one step for each point where it can wait or where a thread can see what it
did: select with accept, receive with the dispatch of the message, the second store of a relayed
request, an answer, a join, the end of a connection. Entries that were not readable are passed over within
these steps, since that touches nothing. A thread has one step for each access to what it shares. The flags
are read in one step (`Top`): `kill` only ever becomes true and `data` is only cleared by the thread, so reading
them one after the other gives nothing new. What is left to send again is a set, because a `Section`
implements `NumberSet`; that its emptied array is freed a second time by `free_section` is kept (`Exit`). A second
free may abort the process or pass. `used`, `clobbered`, and in the client `missed` and `inStep`, are history: they
change no step. IDs are drawn at random in the program and are distinct here. `malloc`, `fopen` and `pthread_create`,
whose results the code does not check, are taken to succeed.

**SegmentClient.** One step per message. The number of segments is read from a request that was freed
(`client.c:33`); it is right when the answer happened to be allocated in its place, and with `sc.reuse` it may also be what
the request held. `upset` is history too: the clients that were refused, served an empty file, given a wrong count
that way, had a message damaged that the code has no recovery for, or whose stream was joined or split somewhere. Such a stream no longer
carries the messages that were sent, so `Unframe` ends `inStep` as well.

**SegmentTransfer, MCSegment.** A behaviour starts from one of thirteen scenarios. `frail` names the client whose messages may be
damaged or that may be killed, `frames` whether damage may also join and split messages, so that the other one shows what its neighbours suffer.

## 3. Runs

Passing runs:

| run | bounds | distinct states | shows |
|---|---|---|---|
| `cobs` | strings of up to 6 bytes, markers up to 4 | 151,367 | frames hold one zero, at the end; round trip; both verifiers agree on all strings; decoding fits the buffer of `read_blocks` and encoding the one of `msg_to_cobs`; what the partial decoder returns |
| `file_transfer` | up to 3 entries of 8 kinds, 2 blocks in the socket | 124,187 | the stream is the files in order, as long as no symbolic link was read; the log line is true when every selected entry could be shipped; with a peer that reads or resets, the child ends unless a failed write left the mutex locked |
| `block_client` | every stream of up to 7 bytes, markers up to 3 | 354,679 | each chunk is counted or accounted for by one error line, once; nothing of a damaged chunk gets into a later one; a whole frame is always counted; the client returns |
| `qd_transfer` | up to 3 blocks, 1 in the socket, 2 altered bytes, a crash | 472,262 | undisturbed transfers are exact; damage is local; an altered byte costs at most two blocks and invents at most one; the child ends with its client |
| `fork_server` | 4 processes, 7 connections | 1,369 | the handler never waits in vain; leaked zombies stay; connections keep being served |
| `section` | 9 numbers | 1,026 | the ranges implement `NumberSet`; the queries answer for the set |
| `parity` | strings of up to 5 bytes, 2 inverted bits | 127,009 | exactly which errors horizontal parity finds; which ones vertical parity must find, and on which it must stay silent |
| `message` | contents of up to 3 bytes, one inverted bit, any tail cut off | 752,016 | parsing stays inside its bytes; round trip; cut messages are never counted; `verify_msg` refuses every meaningful inverted bit; what is not counted is logged |
| `segment_transfer` | 2 clients, 2 downloads, up to 5 segments of 2 bytes, 2 damaged messages, or joined and split in two scenarios, 2 messages per socket buffer, 32-bit offsets scaled to 8 values | 171,222 | a download that lost no segment is the served file, offsets at the limit of the casts included; clients stay in step through retransmissions; requests are handed over safely without a lock; what the server can die of; totals, arrays and threads agree; undisturbed downloads end and slots come back unless a failed write, a locked `recv_mutex` or an unfinished frame stops the server |

Why the bounds are enough. The largest marker of 3 or 4 makes strings with two full blocks, a full
block before a zero and a full block at the end all appear within six bytes. Three directory entries
give every pair of kinds in both orders around a shipped file, which is what the left-over counts
depend on. Seven bytes are two frames with a damaged chunk between them. Two altered bytes can remove a
delimiter and create one. Seven connections on four processes reach the limit with and without
zombies. Nine numbers give five pieces, so that merges happen at both ends and in the middle. Five
bytes are two complete words and an incomplete one. The contents of `message` have none, one and two
words of horizontal parity, complete and not.
In `segment_transfer` two messages fill a socket buffer, so that threads and the loop wait for a client that
does not read, with and without `send_mutex`; two damaged messages are a request with its repetition, or two segments
missing at once; one slot for two downloads or two clients makes the limit bite; files of one, two and several
segments, exact multiples among them, of 8 and of 9 bytes, lie below, at and above the scaled 32 bits. Messages are joined and split in a download
of several segments and in two downloads that share one slot, so that the parts meet a client at every step of the exchange.
A file holds more blocks than the socket of `file_transfer` has room for, so that the child waits for a peer that does not read.

Deadlock is not checked in these runs: every program here ends, and the models stop where it does.

Runs that show a disagreement between a comment and the code:

| run | comment | what the code does |
|---|---|---|
| `child_ends` | `socket_help.h:18` "text-book, thread-safe" | `writen` returns on an error with `send_mutex` locked; the child's next send waits for ever |
| `zombies` | `server.c:59` "arrange to cleanup children" | one wait per signal, and signals merge: zombies stay |
| `head_trail` | `handle_errors.c:275` "compare header and trailer" | only the first eight bytes are compared |

Further disagreements met while modelling are built into the models. The properties that pass say nothing about the cases in which
a comment and the code differ:

- `cobs_encoded_length_from_decoded` counts the closing marker also when there is none; `cobs.h:42` says it
  is the length of the encoding. No property is about the exact length; `LengthsSuffice`, which is proved, says that the
  buffers that callers size by it are not too small.
- `read_blocks.c:127` says "update bindex to new length", but the new length is one more than what was decoded
  whenever the last block is not full: the last byte parsed, in the crc, was never written. No property is about that
  byte; `DecodeFitsBuffer` and `LengthsSuffice` are about the room for it.
- `cobs_partial_decode` compares a marker with `0x255` (597), so it inserts a zero after a full block.
  `PartialDecodePrefixNoFull` states what holds without one.
- `file_transfer.c:101` says symbolic links are avoided, but the test `d_type & DT_REG` selects them.
  `StreamIsFiles` is about directories without links only.
- A dot file or an unreadable file adds left-over or uninitialised counts to the totals
  (`file_transfer.c:107`). `LogTruthful` therefore speaks of block counts only when nothing was skipped.
- The length scan of a chunk longer than `BLOCK_INITIAL_SIZE` has no terminator, although `cobs.c:181` demands one.
- Error lines carry the number of the chunk, not of the "last valid block received" (`handle_errors.c:38`).
  `ChunksAccountedFor` is about how many chunks are counted or reported, not about the number on a line.
- Adding 0 to a section whose first piece ends at the largest uint64 loses that piece. The run and the
  theorems about `Section` assume that callers stay below it.
- `parity.c:21-22` speaks of the n-th bit of 256-bit words, but `compute_vparity` looks at one bit per byte, 32
  of the 256 columns. `VerticalExact` claims detection when one of those 32 columns is odd, silence when none of the 256 is, and nothing
  in between.
- `section.h:60` says `free_section` "frees a section pointer (including its variables)", but after the last number was
  deleted the array is freed a second time (`section.c:133, 167`). The channel thread does that at its end
  whenever every retransmission it was asked for has been sent: `ServerSurvives` lists it among what the server can die of.
- `client.c:99` logs "Desired File was found and written." also when it was not: a damaged segment is skipped without a
  gap, so all that follow are moved (`client.c:71` asks for the missing seek), and the last segment is not rewritten because of the `<` in
  `client.c:90`. `WrittenIsServed` therefore speaks of downloads that lost no segment but the empty one.
- An empty file has no segments, which the client reports as "could not be found server-side" (`client.c:53`). It then leaves
  without reading the empty segment, and takes that for the answer to its FIN.
- A damaged first request is answered by an RTS whose sender is 0, which the client takes for a refusal; it goes on to ready and cease a
  channel that does not exist and is one answer behind from then on. `AnswersInOrder` excludes such clients through `upset`.
- `server.c:154` says "recover for that channel", but the NULL that leads there means that `readn` kept `recv_mutex`: with a
  `recv_msg` built on `readn` the first client that goes away without a FIN freezes the server for all others. `Unhindered` says so in `DownloadsEnd` and
  `SlotsReturned`.
- The `recv_msg` sketched in `recv_msg.c` returns only messages that its caller need not verify, but would return none at all: the length it
  verifies includes the delimiter (41-54), which `cobs_verify` refuses (`cobs.c:147`).
- The select loop calls `recv_msg` when a connection is readable (`server.c:147`), which is not to say that a whole frame is there.
  When the delimiter of a client's last message was altered, the loop waits in it, and all other clients with it; `Unhindered` says so. The client,
  which has no timeout, waits as well: `DownloadsEnd` excludes it through `upset`.

## 4. Fairness

`FileTransfer`: weak fairness of the child's own steps, since it is an ordinary process that is
scheduled while it can run. A step that waits for the locked mutex or for room in the socket is not enabled. Failing allocations,
resets and the reading of the peer are not fair: nothing makes them happen. That the peer keeps reading or resets is therefore
a hypothesis, `PeerServes`, of `ChildFinishes` and of `EveryChildEnds`; without it the child may wait in `write` for ever. `BlockClient`: weak fairness of reading.
`QdTransfer`: weak fairness of the two processes and of the delivery by the network while both live.
`ForkServer`: weak fairness of accept, of fork, of the handler and of signal delivery; none for children,
which may run for ever, and none for clients. `SegmentTransfer`: weak fairness of the select loop, of each channel thread
and of each client, all of them processes or threads that are scheduled while they can run; a wait for a mutex, for room in
a buffer, for a message or for a join is a step that is not enabled. Damage, killed clients and a failing accept are
not fair. Weak fairness of a thread that waits for `send_mutex` is enough here, because its holder gives it up only
to finish a message, and each thread sends finitely many. Strong fairness is nowhere assumed.

## 5. Proofs

TLAPS checks eight modules, for every value of the constants. All safety properties that the runs check of the
block transfer are theorems, from COBS up to the composition of server, connection and client, and so are those of
the segment transfer.

**Induction.** The library's induction theorems take an operator, which the provers cannot instantiate. The
modules that scan arrays restate what they need of sets instead, from the library's theorem that `<` on `Nat` is
well-founded: `NatSetInduction`, `BackwardInduction` (from the end of an array to its start) and, in `CobsProofs`,
`ForwardRecursion`, by which a recursive function that scans an array exists and satisfies its equation.

**CobsProofs**, from `MaxMarker >= 3`. Every loop of `cobs.c` is a recursive function over positions; one
`...Unfold` lemma per function gives its equation. `Frame(m, F)` is what an encoding is: blocks that follow one
another from marker to marker, each with its piece of the source, and a terminator. `EncodeFrames`: `cobs_encode`
produces a frame of its source. The decoder, the verifiers and the length scans are then walked over a
frame from its end. Separately, `VerifiersEqual` and `VerifiedDecodes` speak of any string, since the client runs these
functions on whatever it receives. `cobs_partial_decode` also counts down the bytes wanted, so its recursion is over pairs
(`PartialUnfold`); `FramePartial` then says what it makes of a frame without a full block: the bytes wanted, or failure when they
reach the last one.

**CobsEncoderProofs**. The invariant is `IInv`, the conjunction of the type
invariant, `LoopInv` and what holds on return. `LoopInv` is what makes it inductive: `curr` is the one
unwritten byte, `marker` its distance to the end, every other byte is not zero, and each extra marker has
been paid for by a full block of data, `FullBlock * (Len(dst) - i - 1) + (marker - 1) <= i`. The last
inequality gives the bound on the encoded length by division. Results: `TypeCorrect`, `Framing`, `BufferBound`, and with
`CobsProofs`, `RoundTripHolds`, `LengthsHold`, `VerifiersHold`, `DecodeFits`, `PartialDecodeHolds`.

**BlockClientProofs**, from the assumptions on `MaxMarker`, `Messages` (bytes that end in a zero and whose frame fits the
initial buffer, as `form_msg` and `BLOCK_INITIAL_SIZE` make sure), the sizes, and `StreamsAssumption`: streams are bytes. The
three properties of the run are not inductive alone: `Buffered` adds that the buffer is what was read
since the last delimiter, and `InOrder` that blocks are counted at rising positions. A chunk with the exact
bytes of a frame has one outcome, "valid" (`MessageOutcome`, from the round trip, the verifier and the length lemma), which
gives resynchronisation. Results: `TypeCorrect`, `AccountedFor`, `CountedWhole`, `Resynchronises`.

**FileTransferProofs**, from `DirsAssumption` (directories are sequences of entries), a positive block size, room in the socket, and
uninitialised counts that are natural numbers. `WireSoFar` ties the wire to the directory inside a file as well as between
two files: what was sent followed by what is left of the open file is the stream up to the end of that file. `Counts` does
the same for the two levels of counters, and `ErrorCount` for the refused files. Results: `TypeCorrect`, `Faithful`, `Truthful`.

**QdTransferProofs**, from `PartsAssumption` (those of the two parts) and `MsgBytesAssumption` (blocks travel in messages). The
invariant is those of both ends, and four conjuncts about the connection: `Carried` places every frame at its own bytes of
what has arrived, each with at most one byte altered; `Ending` says that what arrives is the frames and, once the
connection is closed, what a dying server had written of one more, without a delimiter; `Errors`, that `errs`
counts the altered frames, and that without them the client has logged nothing, which needs the
whole argument that each chunk then is a frame. From it:
`Local` (an intact frame behind a delimiter starts where its chunk starts, so the client's own resynchronisation applies),
`Complete` (without damage the ends of the counted blocks and of the frames are the same rising numbers), and `Bounded`: every frame is
counted unless it or the one before it was altered, and every zero is the end of a frame or the single altered byte of one, so that
two injections bound the count on both sides. `MaxErrs` and the number of blocks are arbitrary.

**ForkServerProofs**, from a positive process limit. `WaitNeverBlocks` with the type invariant is
inductive: every exit adds a zombie for the signal it sets, and every delivery and wait takes one of
each, so that zombies never fall below signals in progress. The same count, as `Leaked`, cannot
decrease. Results: `TypeCorrect`, `HandlerSafe`, `LeakPermanent`.

**SectionProofs**, under the hypothesis that callers never pass the largest number (`MaxNum \notin Nums`). The
invariant is `TypeOK`, `Ordered`, `PiecesLive` and a bound that keeps the high ends below `MaxNum`, without
which `high + 1` would wrap. One lemma for each way the array changes (replaced, joined, inserted,
removed, split) says that it stays well formed; `BelowIsPrefix` shows by counting that the index computed by
the loop is the place where order is kept. One lemma per action then gives the invariant and the effect
on `Numbers`. The merge with the preceding piece in `AddLow` (`section.c:41-56`) is shown to be unreachable:
that piece would have been extended first. Results: `TypeCorrect`, `AlwaysOrdered`, `AlwaysLive`, `Refinement`
(the section implements `NumberSet`) and `QueriesCorrect`.

**SegmentTransferProofs**, from `TransferAssumption` (a limit on channels, and directories that are sequences of entries). There are three
invariants. `IInv` is about the arrays: `Arrays` and `Connections` (an entry occurs once, and a channel stands in the array of its own connection),
`Threads` (a thread that runs is listed, and only the one that `end_channel` joins was told to stop), `AtConnection` (the select
loop's index is an open connection, and the channel it is at belongs to it), `Counted` (`totalChannels` is the number of listed
channels, less the one being joined) and `Rooms` (the short allocations). `SlotsAccounted` follows.

`PInv` is about the exchange between a client and its channel, over two sockets, the select loop and a thread, of which the client
reads only content. `PhaseOf` says for each state of the client where the exchange stands: for instance while the client gathers, that
the segments on their way are consecutive, end with the last one sent and, unless the client was upset, begin with the one it
waits for; while it waits for a segment sent again, that the request is on its way, or with the select loop, or in `chan->value`, or in
the thread's section, or the answer is on its way, and that nothing else is. `Handed` says that at most one request is in
all of these places, from which `RelaySafe` follows although `chan->data` has no lock; `Deaths` says what the process dies of. A message damaged within its frame
is noticed at one end or the other, and from then on the client is upset, and what `PhaseOf` asks of it is less (`u`). Joined and split
messages change how many there are, after which nothing holds of the exchange: `Unframe` puts the client out of step, and `PhaseOf` speaks of clients
in step only. That no message of their streams lacks its delimiter, "OPEN", is part of the invariant (`Sound`, `SoundFramed`), and
is what lets each reader take the head of its queue. `Shapes` is
what makes fields of messages, clients and channels known to the prover. Each action is shown to touch the exchange of one client
(`Alone`, `Becomes`, `MainOnly`), so that the phases of the others are carried over by `SameTalks`.

`Content` is about the bytes. `Carried` and `Replies` say that a data message on its way carries the segment of its number, and an
ACK the number of segments, of the one file that `sc.file` names; `OneFile`, that every channel was opened to it with `MAX_SIZE`. A
damaged message keeps its content here, a part of a split or joined one too: `intact` alone tells that it must not be used. `Account` then says what a client in step has
written, provided that no segment but the empty one was damaged and that offsets fit 32 bits: while it gathers, exactly the segments
it has read; from then on the whole file, which a repeated empty segment does not change. The condition that it is in step is what ties
the segment that arrived to the number it was taken for. The arithmetic is in `TotalCovers` (every segment but the empty one starts
inside the file, and the last one ends it), `SegmentOf` and `UptoGrows`, for any file and segment size. Results: `Invariance`,
`SlotsAccounted`, `ExchangeInvariance`, `InOrder`, `RelayIsSafe`, `OnlyTheseDeaths`, `ContentInvariance`, `Delivery`.

Every inductive invariant was checked with TLC on the instance of its run before it was proved.

## 6. Checked but not proved

The liveness properties, which are out of the prover's reach; parity
(`HorizontalExact`, `VerticalExact`), sums over bits of machine words; and `Message`, whose parser is checked on short contents
only.

## 7. Not modelled

`server/main.c` before the loop (working directory, log file), the start of both segment drivers up to listen and connect,
and the concurrent writing of the log by several children; the text of log lines, and the Hamming distance in one of them;
printing and copying helpers; `end_all_connections` and `close_dir_handle`, which stand behind an endless loop; the body of
`recv_msg` that is commented out; `logging.c`, which is not compiled; the Python scripts; the tests. A client with `numDownloads = 0`
runs for ever and is not explored. Handles and memory that are not released (for instance parsed messages in `read_blocks`, or the
section of `gather_file`) are not followed.

## 8. Plan

1. Done: COBS, the transfer child, the client, their composition, the parent, the section, parity and the message; the segment
   transfer with its server, threads and clients; proofs about the whole block transfer, the parent, the section, and
   the arrays, the exchange and the content of the segment transfer.
2. A proof still worth having: that parsing in `Message` stays inside its bytes for every input.
