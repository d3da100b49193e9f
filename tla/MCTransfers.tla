---------------------------- MODULE MCTransfers -----------------------------
(* One download under two handlers, its controls and tasks. *)
EXTENDS TransferControl, TLC

Symmetry == Permutations(Handlers)
=============================================================================
