--------------------------- MODULE MCLicensingTx ---------------------------
(* Small instances of LicensingTx for TLC.                                  *)
EXTENDS LicensingTx, TLC

\* Workers, tenants, tokens and devices are interchangeable.
Symmetry ==
    Permutations(Workers) \cup Permutations(Tenants)
    \cup Permutations(Tokens) \cup Permutations(HW)
=============================================================================
