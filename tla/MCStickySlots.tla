--------------------------- MODULE MCStickySlots ---------------------------
(* Small instances of StickySlots: backends of their own address each. *)
EXTENDS StickySlots, TLC

OwnAddress == [b \in Backends |-> b]
Symmetry == Permutations(Backends) \cup Permutations(Handlers)
=============================================================================
