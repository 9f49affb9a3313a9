------------------------- MODULE MCInterruptEntry ---------------------------
(* Three processes, the keyboard and the disk.                             *)
EXTENDS InterruptEntry, TLC

CONSTANTS init, p1, p2

SmallProcs == {init, p1, p2}
TwoDevices == {"keyboard", "disk"}
Symmetry == Permutations({p1, p2})
=============================================================================
