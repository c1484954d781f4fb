----------------------------- MODULE MCSubmission -----------------------------
(* Submission for TLC; nothing tells one submission or key from another.    *)
EXTENDS Submission, TLC

Symmetry == Permutations(Submissions) \cup Permutations(Keys)
===============================================================================
