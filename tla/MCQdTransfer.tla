--------------------------- MODULE MCQdTransfer ---------------------------
(* Two files, three blocks at most, two altered bytes.                     *)
EXTENDS QdTransfer

Entry(type, opens, blocks) ==
    [d_type |-> type, dot |-> FALSE, opens |-> opens, blocks |-> blocks]

\* Two blocks in one file; two files; a directory with an unreadable file.
MCDirs ==
    { <<Entry(8, TRUE, <<"a", "b">>), Entry(8, TRUE, <<"a">>)>>,
      <<Entry(4, TRUE, << >>), Entry(8, TRUE, <<"b">>)>>,
      <<Entry(8, FALSE, << >>), Entry(8, TRUE, <<"c", "c">>)>> }

MCMsgBytes == [b \in {"a", "b", "c"} |->
                 CASE b = "a" -> <<1, 0>> [] b = "b" -> <<0, 2, 0>> [] b = "c" -> <<1, 2, 0>>]

MCMessages == {MCMsgBytes[b] : b \in {"a", "b", "c"}}
===========================================================================
