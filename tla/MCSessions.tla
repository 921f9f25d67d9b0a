------------------------------ MODULE MCSessions ------------------------------
(* Sessions for TLC: clients are interchangeable.                          *)
EXTENDS Sessions, TLC

Symmetry == Permutations(Clients)
=============================================================================
