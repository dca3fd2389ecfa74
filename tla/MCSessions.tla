----------------------------- MODULE MCSessions -----------------------------
(* One browser with two pages, one user and two requests in flight. *)
EXTENDS Sessions, TLC

Symmetry == Permutations(Slot) \cup Permutations(Tab)
=============================================================================
