----------------------------- MODULE MCRequests -----------------------------
(* Small instances of Requests for TLC.  No symmetry: liveness is checked.  *)
EXTENDS Requests
=============================================================================
