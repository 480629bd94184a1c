------------------------------ MODULE MCPortal ------------------------------
(* Small instances of Portal for TLC.  No symmetry: liveness is checked.     *)
EXTENDS Portal

\* One tenant for each product.
TenantEach == [t \in Tenants |-> IF Products = {First} \/ t = CHOOSE x \in Tenants : TRUE THEN First
                                 ELSE CHOOSE p \in Products : p # First]

\* What an operator may type in for one host.
Addresses == { <<" ", "https:", "/", "/", "host", "/", "/", "api/v1", "/">> }
=============================================================================
