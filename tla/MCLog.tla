------------------------------- MODULE MCLog -------------------------------
(* Small instances of Log for TLC. *)
EXTENDS Log

CONSTANTS p1, p2, b1, b2, v1, v2
=============================================================================
