------------------------------- MODULE VMalloc ------------------------------
(***************************************************************************)
(* The byte heap of the kernel (mm/mm.c): mmap has one bit for each byte   *)
(* of the heap, vmalloc takes the first run of clear bits that is long     *)
(* enough, vfree clears the bits of a block.  At boot mmap is a copy of    *)
(* what lies at address 0 (mm.c:41), whatever that is.                     *)
(*                                                                         *)
(* A byte is the number of its bit.  The bits past the end of the heap are *)
(* those of whatever the linker put behind mmap; no scan reads them.       *)
(* Calls run to their end, as in KMalloc.  Callers ask for a byte at least *)
(* and free the blocks they were given, with the size they asked for.      *)
(* No name of KMalloc is used, so that HeapProofs can extend both.         *)
(***************************************************************************)
EXTENDS Integers

CONSTANTS
    HEAP,       \* bytes of the heap
    MAX_SIZE,   \* that vmalloc grants
    Requests,   \* that callers ask for
    Boot        \* the sets of bits that memory may have set at boot

ASSUME VMallocAssumption ==
    /\ HEAP \in Nat /\ MAX_SIZE \in Nat
    /\ Requests \subseteq Nat \ {0}
    /\ Boot \subseteq SUBSET (0 .. HEAP - 1)

Heap == 0 .. HEAP - 1

VARIABLES
    boot,   \* the bits set at boot
    mmap,   \* the bits set now, those past the end included
    blocks  \* the blocks handed out

vmvars == <<boot, mmap, blocks>>

init_mm == /\ boot \in Boot
           /\ mmap = boot
           /\ blocks = {}

-----------------------------------------------------------------------------
Run(s, size) == s .. s + size - 1
Fits_ShortOfLast(s, size) ==                \* mutant: the last byte is not looked at
    s + size <= HEAP /\ Run(s, size - 1) \cap mmap = {}
Fits(s, size) == s + size <= HEAP /\ Run(s, size) \cap mmap = {}

(* start_p when the search ends: the first run that fits, or else what      *)
(* follows the last set bit.                                                *)
Start(s, size) ==
    \/ /\ Fits(s, size)
       /\ \A t \in Heap : Fits(t, size) => s <= t
    \/ /\ \A t \in Heap : ~Fits(t, size)
       /\ (s .. HEAP - 1) \cap mmap = {}
       /\ s > 0 => s - 1 \in mmap

(* vmalloc of a block, and of NULL ("vmalloc full"): the bits are set       *)
(* before the test.                                                         *)
vmalloc(size) ==
    /\ size <= MAX_SIZE
    /\ \E s \in 0 .. HEAP :
          /\ Start(s, size)
          /\ mmap' = mmap \cup Run(s, size)
          /\ blocks' = IF s < HEAP THEN blocks \cup {Run(s, size)} ELSE blocks
    /\ UNCHANGED boot

Cleared_OneMore(b) == b \cup {x + 1 : x \in b}      \* mutant: <= for <
Cleared(b) == b

vfree(b) ==
    /\ mmap' = mmap \ Cleared(b)
    /\ blocks' = blocks \ {b}
    /\ UNCHANGED boot

VMNext == \/ \E size \in Requests : vmalloc(size)
          \/ \E b \in blocks : vfree(b)

VMSpec == init_mm /\ [][VMNext]_vmvars
-----------------------------------------------------------------------------
(* No byte of the heap is lost: the bits set are those of the blocks handed *)
(* out and those that were set at boot, which stay set; none is both        *)
(* (vmalloc 199-206, vfree 217-230).                                        *)
BitsAccounted ==
    /\ mmap \cap Heap = (boot \cup UNION blocks) \cap Heap
    /\ boot \cap UNION blocks = {}

(* vmalloc and vfree keep the promise of a heap, even for the block that    *)
(* runs over the end.                                                       *)
AsByteHeap == INSTANCE Heap WITH held <- blocks
ByteHeapSpec == AsByteHeap!Spec
=============================================================================
