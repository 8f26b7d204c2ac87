----------------------------- MODULE MCFileData -----------------------------
(* A file of the image and a new one, within one block of four bytes. *)
EXTENDS FileData, TLC

CONSTANTS p1, p2, f1, f2, a, b

MCProcs == {p1, p2}
MCFiles == {f1, f2}
MCBytes == {a, b}
MCImage == [f \in MCFiles |-> IF f = f1 THEN <<a, b, b>> ELSE <<>>]
MCData == {<<a>>, <<b, a>>, <<b, b, a>>}
MCCounts == {1, 3}
MCSymmetry == Permutations(MCProcs)

=============================================================================
