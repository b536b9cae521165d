--------------------------- MODULE MCBackendPools ---------------------------
(* Small instances of BackendPools.  In Reuse3 the first and the last     *)
(* object have the same address: it can be collected anew while a task still  *)
(* refers to the object it had before.                                        *)
EXTENDS BackendPools, TLC

CONSTANTS i1, i2, i3, i4, b1, b2, b3, b4, c1, c2, r1

Reuse3 == (b1 :> i1) @@ (b2 :> i2) @@ (b3 :> i1)
Distinct3 == (b1 :> i1) @@ (b2 :> i2) @@ (b3 :> i3)
Distinct4 == (b1 :> i1) @@ (b2 :> i2) @@ (b3 :> i3) @@ (b4 :> i4)

\* The bound of PoolsMixed: a state in which an address has gone loose is checked
\* and not continued.  What follows it for the other addresses is left to the
\* theorems, which have no such bound.
Continued == loose = {}
=============================================================================
