------------------------------ MODULE MCTimedRoom ------------------------------
(* TimedRoom for TLC.  Liveness is checked without symmetry.               *)
EXTENDS TimedRoom

CONSTANTS u1, u2
=============================================================================
