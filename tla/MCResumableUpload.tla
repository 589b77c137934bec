-------------------------- MODULE MCResumableUpload --------------------------
(* ResumableUpload for TLC. *)
EXTENDS ResumableUpload, TLC

(* Sound for safety only: runners are interchangeable. *)
Symmetry == Permutations(Runner)

=============================================================================
