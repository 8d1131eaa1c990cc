----------------------------- MODULE FileHandle -----------------------------
(***************************************************************************)
(* The files a segment server offers (justin-snapshot/src/file_handle.c):  *)
(* which directory entries become handles, how a file is found by name and *)
(* cut into numbered segments.  A file is the sequence of its bytes.       *)
(***************************************************************************)
EXTENDS Integers, Sequences, SequencesExt

CONSTANT Wrap      \* 2^32, scaled down: offsets are cast to 32 bits

ASSUME WrapAssumption == Wrap \in Nat \ {0, 1}

DT_DIR == 4

\* Every entry that is not a directory gets a handle, in directory order.
NotDirectory(e) == e.d_type # DT_DIR
open_dir_handle(dir) == SelectSeq(dir, NotDirectory)

\* The first handle of that name; 0 for none.
file_handle_for_file(handles, file) ==
    SelectInSeq(handles, LAMBDA h : h.name = file)

\* Faulty variant: a partial last segment is not counted.
NumSegmentsWhole(file, segmentSize) == Len(file) \div segmentSize

num_segments_in_file_handle(file, segmentSize) ==
    (Len(file) \div segmentSize) + (IF Len(file) % segmentSize = 0 THEN 0 ELSE 1)

\* Segments are numbered from 1; a number without a segment gives no bytes.
\* The file is read from (uint32)start, under the handle's own mutex.
segment_in_file_handle(file, segmentNum, segmentSize) ==
    LET start == (segmentNum - 1) * segmentSize
        numBytes == IF start + segmentSize > Len(file) THEN Len(file) - start ELSE segmentSize
    IN  IF segmentNum = 0 \/ segmentNum > num_segments_in_file_handle(file, segmentSize)
        THEN << >>
        ELSE SubSeq(file, (start % Wrap) + 1, (start % Wrap) + numBytes)
=============================================================================
