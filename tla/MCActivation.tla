---------------------------- MODULE MCActivation ----------------------------
(* Small instances of Activation for TLC.  No symmetry: liveness is checked. *)
EXTENDS Activation

\* Every terminal presents the one hardware_uuid and types in the one token.
OneMachine == [i \in Terminals |-> CHOOSE h \in HW : TRUE]
FourKeysEach == [i \in Terminals |-> {<<i, n>> : n \in 1 .. 4}]
OneToken == [i \in Terminals |-> CHOOSE k \in Tokens : TRUE]

\* Every setting of the key outside development; and development without one.
DeployedOrDev == [dev : {FALSE}, key : SigningKeys] \cup {[dev |-> TRUE, key |-> ""]}
=============================================================================
