----------------------------- MODULE NumberSet -----------------------------
(***************************************************************************)
(* What a section promises its users (justin-snapshot/hdr/section.h): a    *)
(* set of numbers that can be added to and deleted from, one at a time,    *)
(* until it is freed.                                                      *)
(***************************************************************************)
CONSTANT Nums            \* the numbers users pass

VARIABLES set, freed

Init == set = {} /\ freed = FALSE

Add(n) == ~freed /\ set' = set \cup {n} /\ UNCHANGED freed

Delete(n) == ~freed /\ set' = set \ {n} /\ UNCHANGED freed

Free == ~freed /\ freed' = TRUE /\ UNCHANGED set

Next == Free \/ \E n \in Nums : Add(n) \/ Delete(n)

Spec == Init /\ [][Next]_<<set, freed>>
===========================================================================
