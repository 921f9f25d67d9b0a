------------------------------ MODULE MCRoomView ------------------------------
(* RoomView for TLC: the players who are not observed are interchangeable. *)
EXTENDS RoomView, TLC

CONSTANTS u1, u2, u3

Symmetry == Permutations(Users \ {Observer})
=============================================================================
