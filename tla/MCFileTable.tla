---------------------------- MODULE MCFileTable ----------------------------
(* Tables of open files on a small machine. *)
EXTENDS FileTable, TLC

CONSTANTS init, p1, p2, i1, i2

SmallSlots == {init, p1, p2}
SmallInodes == {i1, i2}

(* Nothing in FileTable tells slots other than init apart, nor inodes.      *)
Symmetry == Permutations({p1, p2}) \cup Permutations({i1, i2})
=============================================================================
