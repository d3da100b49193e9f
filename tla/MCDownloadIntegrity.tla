------------------------ MODULE MCDownloadIntegrity -------------------------
(* Instances of DownloadIntegrity for TLC. *)
EXTENDS DownloadIntegrity, TLC

CONSTANTS b1, b2, p1

Blocks2 == {b1, b2}
OnePart == [b \in Blocks2 |-> p1]

Symmetry == Permutations(Workers)
=============================================================================
