----------------------------- MODULE MCHdDriver -----------------------------
(* A disk of two sectors. *)
EXTENDS HdDriver

CONSTANTS a, b

TwoSectors == 0 .. 1
SomeData == {a, b}
SomeReads == {1, 2, 3, 4}
SomeWrites == {2, 4}
=============================================================================
