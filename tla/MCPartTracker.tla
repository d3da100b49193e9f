--------------------------- MODULE MCPartTracker ----------------------------
(* PartTracker with a file of six bytes. *)
EXTENDS PartTracker

(* One byte, a whole part, and a range across parts. *)
Blocks6 == {<<0, 1>>, <<2, 4>>, <<1, 6>>}

Symmetry == Permutations(Workers)
=============================================================================
