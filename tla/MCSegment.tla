----------------------------- MODULE MCSegment -----------------------------
(* Scenarios for the segment transfer, with segments of two bytes.  A      *)
(* client in frail may have messages damaged, or be killed.                *)
EXTENDS SegmentTransfer

Entry(name, type, bytes) == [name |-> <<name>>, d_type |-> type, bytes |-> bytes]
Dir(bytes) == <<Entry(".", 4, << >>), Entry("g", 8, <<9>>), Entry("f", 8, bytes)>>

Base == [clients |-> {1}, frail |-> {1}, downloads |-> 1, file |-> <<"f">>, dir |-> Dir(<<1, 2, 3>>),
         slots |-> 3, receiver |-> "plain", damage |-> 0, frames |-> FALSE, failures |-> FALSE, reuse |-> FALSE]
Both == [Base EXCEPT !.clients = {1, 2}, !.dir = Dir(<<1>>)]

MCScenarios ==
    { \* damaged messages and repeated requests; a file that is a multiple of a
      \* segment, with joined and split messages as well
      [Base EXCEPT !.damage = 2, !.dir = Dir(<<1, 2, 3, 4, 5>>)],
      [Base EXCEPT !.damage = 2, !.frames = TRUE, !.dir = Dir(<<1, 2, 3, 4>>)],
      \* several downloads, a single slot that a lost FIN keeps busy
      [Base EXCEPT !.damage = 2, !.downloads = 2],
      [Base EXCEPT !.damage = 1, !.frames = TRUE, !.slots = 1, !.downloads = 2],
      \* a count read from freed memory, too small and too large
      [Base EXCEPT !.damage = 2, !.reuse = TRUE, !.dir = Dir(<<1, 2, 3, 4, 5, 6, 7>>)],
      [Base EXCEPT !.reuse = TRUE, !.downloads = 2, !.dir = Dir(<<1>>)],
      \* offsets at and beyond the width of the casts
      [Base EXCEPT !.damage = 1, !.dir = Dir(<<1, 2, 3, 4, 5, 6, 7, 8>>)],
      [Base EXCEPT !.damage = 1, !.dir = Dir(<<1, 2, 3, 4, 5, 6, 7, 8, 9>>)],
      \* no such file, an empty file
      [Base EXCEPT !.file = <<"h">>, !.downloads = 2],
      [Base EXCEPT !.dir = Dir(<< >>), !.downloads = 2],
      \* two clients: one slot for both; one that is killed, with accept failing
      [Both EXCEPT !.slots = 1],
      [Both EXCEPT !.failures = TRUE],
      \* the recv_msg that is linked
      [Both EXCEPT !.receiver = "stub", !.failures = TRUE] }
=============================================================================
