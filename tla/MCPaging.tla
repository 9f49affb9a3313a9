------------------------------ MODULE MCPaging ------------------------------
(* Paging on a small memory.  The segment of the program leaves an entry    *)
(* of its table as it found it, and a kernel stack leaves what reads as a   *)
(* table with a writable page.                                              *)
EXTENDS Paging, TLC

CONSTANTS init, p1, p2

SmallSlots == {init, p1, p2}
SmallPrograms == {{0}}
SmallResidue == {[i \in Idx |-> [frame |-> 4, rw |-> i = 0]]}
Symmetry == Permutations({p1, p2})
=============================================================================
