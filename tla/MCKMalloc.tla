----------------------------- MODULE MCKMalloc ------------------------------
(* The bucket allocator on a small memory. *)
EXTENDS KMalloc, TLC

CONSTANTS f1, f2, f3, f4, f5

SmallFrames == {f1, f2, f3, f4, f5}
SmallSizes == {2, 4}

(* Nothing in KMalloc tells frames apart. *)
Symmetry == Permutations(SmallFrames)
=============================================================================
