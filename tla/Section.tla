------------------------------ MODULE Section ------------------------------
(***************************************************************************)
(* A set of segment numbers kept as an array of ranges, justin-snapshot/   *)
(* src/section.c.  A channel of the file server keeps two: the segments    *)
(* sent and the segments to be sent again (server_help.c:44-46).           *)
(*                                                                         *)
(* Bounds are uint64: MaxNum is the largest and high + 1 wraps.  sec->     *)
(* pieces is also followed as a pointer: NULL, a live array, or dangling   *)
(* after it was freed and not reset.                                       *)
(***************************************************************************)
EXTENDS Integers, Sequences, FiniteSets

CONSTANTS MaxNum,      \* UINT64_MAX, scaled down
          Nums         \* the numbers callers pass

ASSUME MaxNumAssumption == MaxNum \in Nat /\ Nums \subseteq 0 .. MaxNum

VARIABLES pieces,      \* the ranges, sec->pieces[0 .. numPieces-1]
          mem,         \* what sec->pieces points to: "null", "live", "dangling"
          freed,       \* free_section has run
          doubleFree   \* a pointer was freed twice

vars == <<pieces, mem, freed, doubleFree>>

Piece == [low : 0 .. MaxNum, high : 0 .. MaxNum]
Span(l, h) == [low |-> l, high |-> h]
Succ(n) == (n + 1) % (MaxNum + 1)      \* uint64 addition

\* create_section
Init ==
    /\ pieces = << >>
    /\ mem = "null"
    /\ freed = FALSE
    /\ doubleFree = FALSE

---------------------------------------------------------------------------
(* add_to_section: the conditions of the loop body for piece i.            *)

Holds(i, n) == pieces[i].low <= n /\ n <= pieces[i].high
EndsBefore(i, n) == Succ(pieces[i].high) = n
StartsAfter(i, n) == pieces[i].low # 0 /\ pieces[i].low - 1 = n

Touches(i, n) == Holds(i, n) \/ EndsBefore(i, n) \/ StartsAfter(i, n)

\* Piece i is the first at which the loop does not go on.
StopsAt(i, n) == Touches(i, n) /\ \A j \in 1 .. i - 1 : ~Touches(j, n)

\* The array with piece i replaced by p.
Replaced(i, p) == [k \in 1 .. Len(pieces) |-> IF k = i THEN p ELSE pieces[k]]

\* The array with pieces i and i+1 joined into p.
Joined(i, p) == [k \in 1 .. Len(pieces) - 1 |->
                   IF k < i THEN pieces[k] ELSE IF k = i THEN p ELSE pieces[k + 1]]

\* The array with p inserted before piece i.
Inserted(i, p) == [k \in 1 .. Len(pieces) + 1 |->
                     IF k < i THEN pieces[k] ELSE IF k = i THEN p ELSE pieces[k - 1]]

\* The array without piece i.
Removed(i) == [k \in 1 .. Len(pieces) - 1 |-> IF k < i THEN pieces[k] ELSE pieces[k + 1]]

\* num is already in the piece at which the loop stops.
AddPresent(n) ==
    /\ ~freed
    /\ \E i \in 1 .. Len(pieces) : StopsAt(i, n) /\ Holds(i, n)
    /\ UNCHANGED vars

\* Faulty variant: merging takes the wrong bound of the next piece.
AddHighLosesNext(n) ==
    /\ ~freed
    /\ \E i \in 1 .. Len(pieces) :
         /\ StopsAt(i, n) /\ ~Holds(i, n) /\ EndsBefore(i, n)
         /\ pieces' = IF i < Len(pieces) /\ pieces[i + 1].low = Succ(n)
                      THEN Joined(i, Span(pieces[i].low, pieces[i + 1].low))
                      ELSE Replaced(i, Span(pieces[i].low, n))
    /\ UNCHANGED <<mem, freed, doubleFree>>

\* num is one above piece i: extend it, and merge it with the next piece when
\* they now meet.
AddHigh(n) ==
    /\ ~freed
    /\ \E i \in 1 .. Len(pieces) :
         /\ StopsAt(i, n) /\ ~Holds(i, n) /\ EndsBefore(i, n)
         /\ pieces' = IF i < Len(pieces) /\ pieces[i + 1].low = Succ(n)
                      THEN Joined(i, Span(pieces[i].low, pieces[i + 1].high))
                      ELSE Replaced(i, Span(pieces[i].low, n))
    /\ UNCHANGED <<mem, freed, doubleFree>>

\* num is one below piece i: extend it, and merge it with the piece before
\* when they now meet.  lowBound - 1 is computed after lowBound = num.
AddLow(n) ==
    /\ ~freed
    /\ \E i \in 1 .. Len(pieces) :
         /\ StopsAt(i, n) /\ ~Holds(i, n) /\ ~EndsBefore(i, n) /\ StartsAfter(i, n)
         /\ pieces' = IF i > 1 /\ Succ(pieces[i - 1].high) = n
                      THEN Joined(i - 1, Span(pieces[i - 1].low, pieces[i].high))
                      ELSE Replaced(i, Span(n, pieces[i].high))
    /\ UNCHANGED <<mem, freed, doubleFree>>

\* Faulty variant: the new piece goes to the end of the array.
AddNewAtEnd(n) ==
    /\ ~freed
    /\ \A i \in 1 .. Len(pieces) : ~Touches(i, n)
    /\ pieces' = Append(pieces, Span(n, n))
    /\ mem' = "live"
    /\ UNCHANGED <<freed, doubleFree>>

\* The pieces that end below num, which the loop counts in index.
Below(n) == {j \in 1 .. Len(pieces) : pieces[j].high < n}

\* Faulty variant: the array allocated for a first piece is not stored.
AddNewNotStored(n) ==
    /\ ~freed
    /\ \A i \in 1 .. Len(pieces) : ~Touches(i, n)
    /\ pieces' = Inserted(Cardinality(Below(n)) + 1, Span(n, n))
    /\ UNCHANGED <<mem, freed, doubleFree>>

\* No piece touches num: a new one is inserted at index.
AddNew(n) ==
    /\ ~freed
    /\ \A i \in 1 .. Len(pieces) : ~Touches(i, n)
    /\ pieces' = Inserted(Cardinality(Below(n)) + 1, Span(n, n))
    /\ mem' = "live"
    /\ UNCHANGED <<freed, doubleFree>>

add_to_section(n) == AddPresent(n) \/ AddHigh(n) \/ AddLow(n) \/ AddNew(n)

---------------------------------------------------------------------------
(* delete_from_section: i is the first piece that holds num.               *)

FirstHolding(i, n) == Holds(i, n) /\ \A j \in 1 .. i - 1 : ~Holds(j, n)

DeleteAbsent(n) ==
    /\ ~freed
    /\ \A i \in 1 .. Len(pieces) : ~Holds(i, n)
    /\ UNCHANGED vars

\* num is inside the piece: split it in two.
DeleteSplit(n) ==
    /\ ~freed
    /\ \E i \in 1 .. Len(pieces) :
         /\ FirstHolding(i, n) /\ pieces[i].low < n /\ n < pieces[i].high
         /\ pieces' = [Inserted(i + 1, Span(n + 1, pieces[i].high))
                         EXCEPT ![i] = Span(pieces[i].low, n - 1)]
    /\ UNCHANGED <<mem, freed, doubleFree>>

\* Faulty variant: the low bound is decreased, not increased.
DeleteEndDecreases(n) ==
    /\ ~freed
    /\ \E i \in 1 .. Len(pieces) :
         /\ FirstHolding(i, n) /\ pieces[i].low = n /\ n < pieces[i].high
         /\ pieces' = Replaced(i, Span(n - 1, pieces[i].high))
    /\ UNCHANGED <<mem, freed, doubleFree>>

\* num is the low end, or the high end, of a longer piece.
DeleteEnd(n) ==
    /\ ~freed
    /\ \E i \in 1 .. Len(pieces) :
         /\ FirstHolding(i, n)
         /\ \/ /\ pieces[i].low = n /\ n < pieces[i].high
               /\ pieces' = Replaced(i, Span(n + 1, pieces[i].high))
            \/ /\ pieces[i].low < n /\ n = pieces[i].high
               /\ pieces' = Replaced(i, Span(pieces[i].low, n - 1))
    /\ UNCHANGED <<mem, freed, doubleFree>>

\* num is the whole piece: remove it.  When it was the last one the array is
\* freed and sec->pieces keeps pointing to it.
DeletePiece(n) ==
    /\ ~freed
    /\ \E i \in 1 .. Len(pieces) :
         /\ FirstHolding(i, n) /\ pieces[i].low = n /\ n = pieces[i].high
         /\ pieces' = Removed(i)
    /\ mem' = IF Len(pieces) > 1 THEN "live" ELSE "dangling"
    /\ UNCHANGED <<freed, doubleFree>>

delete_from_section(n) ==
    DeleteAbsent(n) \/ DeleteSplit(n) \/ DeleteEnd(n) \/ DeletePiece(n)

---------------------------------------------------------------------------
\* free(sec->pieces) after freeing the pieces: fine for NULL and for a live
\* array, a second free for a dangling one.
free_section ==
    /\ ~freed
    /\ freed' = TRUE
    /\ doubleFree' = (mem = "dangling")
    /\ UNCHANGED <<pieces, mem>>

Next == \/ \E n \in Nums : add_to_section(n) \/ delete_from_section(n)
        \/ free_section

Spec == Init /\ [][Next]_vars

---------------------------------------------------------------------------
\* The queries.
last_continual_high_in_section == IF pieces = << >> THEN 0 ELSE pieces[1].high

\* Faulty variant: the low end of the last piece.
FirstLowOfLast == IF pieces = << >> THEN 0 ELSE pieces[Len(pieces)].low

first_low_in_section == IF pieces = << >> THEN 0 ELSE pieces[1].low

\* The numbers the section stands for.
Numbers == {n \in 0 .. MaxNum : \E i \in 1 .. Len(pieces) : Holds(i, n)}

\* Type correctness of the section.
TypeOK ==
    /\ pieces \in Seq(Piece)
    /\ mem \in {"null", "live", "dangling"}
    /\ freed \in BOOLEAN /\ doubleFree \in BOOLEAN

\* "pieces are ordered" (section.h:12), none is empty, and between any two
\* there is a number missing: whatever was added and deleted in whatever
\* order, the ranges are the unique shortest ones, so the first piece tells
\* how far the data is complete.
Ordered ==
    /\ \A i \in 1 .. Len(pieces) : pieces[i].low <= pieces[i].high
    /\ \A i, j \in 1 .. Len(pieces) : i < j => pieces[i].high + 1 < pieces[j].low

\* The queries answer for the set: the smallest member, and the last member
\* before the first gap (0 for the empty set); fork_server_channel sends the
\* next segment and picks the next retransmission by them.
QueriesAnswerForSet ==
    /\ Numbers # {} => /\ first_low_in_section \in Numbers
                       /\ \A n \in Numbers : first_low_in_section <= n
                       /\ first_low_in_section .. last_continual_high_in_section
                             \subseteq Numbers
                       /\ last_continual_high_in_section + 1 \notin Numbers
    /\ Numbers = {} => first_low_in_section = 0 /\ last_continual_high_in_section = 0

\* The section implements a set of numbers: each call adds or deletes exactly
\* its number, through every extension, merge, split and removal of ranges.
NumberSetOf == INSTANCE NumberSet WITH set <- Numbers
RefinesSet == NumberSetOf!Spec

\* While the section has pieces its array is live: no piece is ever read
\* through a null or freed pointer.
PiecesLive == pieces # << >> => mem = "live"

===========================================================================
