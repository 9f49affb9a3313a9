------------------------------- MODULE MCVfs --------------------------------
(* A disk with a directory in its root and a file in that. *)
EXTENDS Vfs, TLC

CONSTANTS p, q, A, F, R

TwoProcs == {p, q}
SmallNames == {"a", "f"}
SmallDisk == R :> ("a" :> A) @@ A :> ("f" :> F)
Path(abs, names) == [abs |-> abs, names |-> names]
SmallPaths == {Path(TRUE, <<>>), Path(TRUE, <<"a">>), Path(TRUE, <<"a", "f">>),
               Path(FALSE, <<>>), Path(FALSE, <<"a">>), Path(FALSE, <<"..">>)}
OneDev == {Path(TRUE, <<>>)}
Symmetry == Permutations(TwoProcs)
=============================================================================
