----------------------------- MODULE MCVMalloc ------------------------------
(* The byte heap with eight bytes. *)
EXTENDS VMalloc

SmallRequests == {1, 2, 3, 5}
SomeBoot == {{}, {0, 1}, {7}, {2, 5}}
=============================================================================
