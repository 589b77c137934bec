------------------------- MODULE MCTransferWorker -------------------------
(* Small instances of TransferWorker for TLC. *)
EXTENDS TransferWorker, TLC

Symmetry == Permutations(Key) \cup Permutations(JobId)

=============================================================================
