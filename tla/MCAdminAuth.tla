---------------------------- MODULE MCAdminAuth ----------------------------
(* Small instances of AdminAuth for TLC.                                    *)
EXTENDS AdminAuth, TLC

\* Accounts, sessions and workers are interchangeable.
Symmetry == Permutations(Admins) \cup Permutations(Sessions) \cup Permutations(Workers)
=============================================================================
