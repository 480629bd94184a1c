-------------------------- MODULE MCFailureLimiter --------------------------
(* Small instances of FailureLimiter for TLC.                               *)
EXTENDS FailureLimiter, TLC

\* Keys and workers are interchangeable.
Symmetry == Permutations(Keys) \cup Permutations(Workers)
=============================================================================
