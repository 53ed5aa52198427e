----------------------------- MODULE SubmissionMC -----------------------------
(* Small instances of Submission for TLC. *)
EXTENDS Submission, TLC
Symmetry == Permutations(Submissions) \cup Permutations(Runtimes)
===============================================================================
