---------------------------- MODULE MCFileSystem ----------------------------
(* Three files or directories under the root, and two blocks of data. *)
EXTENDS FileSystem

CONSTANTS p1, p2, n1, n2

MCProcs == {p1, p2}
MCNames == {n1, n2}
MCBlocks == 101 .. 106
(* Sectors end within inodes, behind one to four of their fields, and between *)
(* two of them.                                                               *)
MCCuts == {<<1, 1>>, <<2, 2>>, <<2, 4>>, <<2, 5>>, <<3, 3>>}

=============================================================================
