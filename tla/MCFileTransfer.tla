-------------------------- MODULE MCFileTransfer --------------------------
(* Directories of at most MaxEntries entries, for TLC.                     *)
EXTENDS FileTransfer

CONSTANT MaxEntries      \* bound: entries of a directory

Entry(type, dot, opens, blocks) ==
    [d_type |-> type, dot |-> dot, opens |-> opens, blocks |-> blocks]

\* A file of two blocks, one without a full block, a dot file, an unreadable
\* file, a symbolic link that resolves and one that dangles, a socket and a
\* directory.
MCEntries ==
    { Entry(DT_REG, FALSE, TRUE, <<"a", "b">>),
      Entry(DT_REG, FALSE, TRUE, << >>),
      Entry(DT_REG, TRUE, TRUE, <<"c">>),
      Entry(DT_REG, FALSE, FALSE, <<"d">>),
      Entry(DT_LNK, FALSE, TRUE, <<"e">>),
      Entry(DT_LNK, FALSE, FALSE, << >>),
      Entry(DT_SOCK, FALSE, FALSE, << >>),
      Entry(DT_DIR, FALSE, TRUE, << >>) }

MCDirs == UNION {[1 .. n -> MCEntries] : n \in 0 .. MaxEntries}
===========================================================================
