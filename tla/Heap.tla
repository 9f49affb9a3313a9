-------------------------------- MODULE Heap --------------------------------
(***************************************************************************)
(* What the two allocators of the kernel promise (kmalloc and kfree of     *)
(* mm/malloc.c, vmalloc and vfree of mm/mm.c): a block handed out shares   *)
(* no byte with one still held, and a block leaves only by being freed.    *)
(* A block is the set of its bytes.                                        *)
(***************************************************************************)
VARIABLE held   \* the blocks handed out and not freed

Init == held = {}

Alloc == \E b \in held' \ held :
            /\ b # {}
            /\ b \cap UNION held = {}
            /\ held' = held \cup {b}

Free == \E b \in held : held' = held \ {b}

Next == Alloc \/ Free
Spec == Init /\ [][Next]_held
=============================================================================
