----------------------------- MODULE MCForward -----------------------------
(* Small instances of Forward: connections and backends are interchangeable. *)
EXTENDS Forward, TLC

Symmetry == Permutations(Conns) \cup Permutations(Backends)
=============================================================================
