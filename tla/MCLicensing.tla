---------------------------- MODULE MCLicensing ----------------------------
(* Small instances of Licensing for TLC.                                    *)
EXTENDS Licensing, TLC

\* Tenants, tokens and devices are interchangeable.
Symmetry == Permutations(Tenants) \cup Permutations(Tokens) \cup Permutations(HW)
=============================================================================
