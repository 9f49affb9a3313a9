------------------------------ MODULE KMalloc -------------------------------
(***************************************************************************)
(* The bucket allocator of the kernel (mm/malloc.c).  A bucket is a page   *)
(* cut into blocks of one size; its descriptor lists the free blocks and   *)
(* counts the others.  Descriptors in use hang on the chain of their size, *)
(* the others on free_bucket_desc; they live in pages of their own, never  *)
(* given back.  Pages come from the frames shared with paging.             *)
(*                                                                         *)
(* kmalloc and kfree run to their end: the kernel is not preempted and no  *)
(* interrupt handler allocates.  The lists are last in, first out in the   *)
(* code, and get_free_page takes the lowest frame; here any member may     *)
(* come next.  Callers free what they hold, once, and give as its size 0   *)
(* or at most what they asked for (fat.c:246 and fat.c:283).  A kmalloc    *)
(* that finds no frame is left out: its test for that is never true.       *)
(***************************************************************************)
EXTENDS Integers, FiniteSets

CONSTANTS
    Frames,     \* of physical memory beyond the kernel
    PAGE_SIZE,
    Sizes,      \* of bucket_dir
    PerPage,    \* descriptors that fit in a page
    NULL        \* no frame: the page of a descriptor not used yet

ASSUME KMallocAssumption ==
    /\ IsFiniteSet(Frames) /\ NULL \notin Frames
    /\ PAGE_SIZE \in Nat \ {0} /\ PerPage \in Nat \ {0}
    /\ IsFiniteSet(Sizes) /\ Sizes \subseteq 1 .. PAGE_SIZE /\ PAGE_SIZE \in Sizes
    /\ \A s \in Sizes : PAGE_SIZE % s = 0

Descs == Frames \X (1 .. PerPage)
Lens  == 1 .. PAGE_SIZE

VARIABLES
    others,             \* frames that paging holds
    used,               \* frames with MP_USE
    chain,              \* size -> the descriptors of its buckets
    free_bucket_desc,   \* descriptors that are not in use
    page,               \* descriptor -> frame of its bucket
    freeptr,            \* descriptor -> offsets of its free blocks
    refcnt,             \* descriptor -> its count of blocks handed out
    held                \* the blocks callers have, with the length they asked for

vars == <<others, used, chain, free_bucket_desc, page, freeptr, refcnt, held>>

Init ==
    /\ others = {} /\ used = {}
    /\ chain = [s \in Sizes |-> {}]
    /\ free_bucket_desc = {}
    /\ page = [d \in Descs |-> NULL]
    /\ freeptr = [d \in Descs |-> {}]
    /\ refcnt = [d \in Descs |-> 0]
    /\ held = {}

-----------------------------------------------------------------------------
(* The bucket a length goes to: the smallest that holds it.                *)
Bucket(s, len) ==
    /\ s \in Sizes /\ s >= len
    /\ \A t \in Sizes : t >= len => s <= t

(* The offsets at which a page is cut into blocks of size s.               *)
Cut_Rounded(s) == {i * s : i \in 0 .. PAGE_SIZE \div s}             \* mutant: one too many
Cut(s) == {i * s : i \in 0 .. PAGE_SIZE \div s - 1}

Block(f, at, len) == [page |-> f, at |-> at, len |-> len]

(* kmalloc, from a bucket with a free block. *)
kmalloc_old_Uncounted(s, len) ==            \* mutant: the count is not raised
    \E d \in chain[s] : \E b \in freeptr[d] :
        /\ freeptr' = [freeptr EXCEPT ![d] = @ \ {b}]
        /\ held' = held \cup {Block(page[d], b, len)}
        /\ UNCHANGED <<others, used, chain, free_bucket_desc, page, refcnt>>
kmalloc_old(s, len) ==
    \E d \in chain[s] : \E b \in freeptr[d] :
        /\ freeptr' = [freeptr EXCEPT ![d] = @ \ {b}]
        /\ refcnt' = [refcnt EXCEPT ![d] = @ + 1]
        /\ held' = held \cup {Block(page[d], b, len)}
        /\ UNCHANGED <<others, used, chain, free_bucket_desc, page>>

(* kmalloc, with every bucket of the size full: a descriptor, of a new page *)
(* of descriptors when there is none (init_bucket_desc), and the page f.    *)
FromDescs(used1, descs, f, s, len) ==
    /\ used' = used1 \cup {f}
    /\ \E d \in descs, b \in Cut(s) :
          /\ free_bucket_desc' = descs \ {d}
          /\ chain' = [chain EXCEPT ![s] = @ \cup {d}]
          /\ page' = [page EXCEPT ![d] = f]
          /\ freeptr' = [freeptr EXCEPT ![d] = Cut(s) \ {b}]
          /\ refcnt' = [refcnt EXCEPT ![d] = 1]
          /\ held' = held \cup {Block(f, b, len)}
    /\ UNCHANGED others

NewDescs(g) == {g} \X (1 .. PerPage)

kmalloc_new(s, len) ==
    /\ \A d \in chain[s] : freeptr[d] = {}
    /\ \/ /\ free_bucket_desc # {}
          /\ \E f \in Frames \ used : FromDescs(used, free_bucket_desc, f, s, len)
       \/ /\ free_bucket_desc = {}
          /\ \E g \in Frames \ used : \E f \in Frames \ (used \cup {g}) :
                FromDescs(used \cup {g}, NewDescs(g), f, s, len)

kmalloc(len) == \E s \in Sizes : Bucket(s, len) /\ (kmalloc_old(s, len) \/ kmalloc_new(s, len))

(* kfree finds the bucket by its page, from the size that the caller gives. *)
(* With its last block back, the page is freed, the descriptor kept.        *)
Searched_ByLength(s, size) == s = size      \* mutant: the size is not rounded up
Searched(s, size) == s >= size

Put_KeepsFrame(s, d) ==                     \* mutant: the frame is not freed
    IF refcnt[d] = 1
    THEN /\ chain' = [chain EXCEPT ![s] = @ \ {d}]
         /\ free_bucket_desc' = free_bucket_desc \cup {d}
         /\ UNCHANGED used
    ELSE UNCHANGED <<used, chain, free_bucket_desc>>
Put(s, d) ==
    IF refcnt[d] = 1
    THEN /\ chain' = [chain EXCEPT ![s] = @ \ {d}]
         /\ used' = used \ {page[d]}
         /\ free_bucket_desc' = free_bucket_desc \cup {d}
    ELSE UNCHANGED <<used, chain, free_bucket_desc>>

kfree(b, size) ==
    /\ b \in held
    /\ \E s \in Sizes : \E d \in chain[s] :
          /\ Searched(s, size) /\ page[d] = b.page
          /\ freeptr' = [freeptr EXCEPT ![d] = @ \cup {b.at}]
          /\ refcnt' = [refcnt EXCEPT ![d] = @ - 1]
          /\ Put(s, d)
    /\ held' = held \ {b}
    /\ UNCHANGED <<others, page>>

(* Paging takes frames and gives them back (mm/page.c). *)
get_free_page == \E f \in Frames \ used :
    /\ used' = used \cup {f} /\ others' = others \cup {f}
    /\ UNCHANGED <<chain, free_bucket_desc, page, freeptr, refcnt, held>>
free_page == \E f \in others :
    /\ used' = used \ {f} /\ others' = others \ {f}
    /\ UNCHANGED <<chain, free_bucket_desc, page, freeptr, refcnt, held>>

Next ==
    \/ \E len \in Lens : kmalloc(len)
    \/ \E b \in held : \E size \in 0 .. b.len : kfree(b, size)
    \/ get_free_page
    \/ free_page

Spec == Init /\ [][Next]_vars
-----------------------------------------------------------------------------
Chained == UNION {chain[s] : s \in Sizes}
DescPages == {d[1] : d \in Chained \cup free_bucket_desc}
HeldIn(f) == {b \in held : b.page = f}

(* Type invariant.  Offsets stay in the page, counts never go below zero.   *)
TypeOK ==
    /\ others \subseteq Frames /\ used \subseteq Frames
    /\ chain \in [Sizes -> SUBSET Descs]
    /\ free_bucket_desc \subseteq Descs
    /\ page \in [Descs -> Frames \cup {NULL}]
    /\ freeptr \in [Descs -> SUBSET (0 .. PAGE_SIZE - 1)]
    /\ refcnt \in [Descs -> Nat]
    /\ held \subseteq [page : Frames, at : 0 .. PAGE_SIZE - 1, len : Lens]

(* The heap never loses a page nor a descriptor: the frames in use are     *)
(* exactly those of paging, of the descriptors and of buckets with a block *)
(* handed out, none of them twice, and every descriptor of a page is on    *)
(* exactly one list (the give-back of kfree, 225-251, and what kmalloc     *)
(* takes, 141-174).                                                        *)
FramesAccounted ==
    /\ used = others \cup DescPages \cup {page[d] : d \in Chained}
    /\ others \cap (DescPages \cup {page[d] : d \in Chained}) = {}
    /\ DescPages \cap {page[d] : d \in Chained} = {}
    /\ Chained \cap free_bucket_desc = {}
    /\ DescPages \X (1 .. PerPage) = Chained \cup free_bucket_desc
    /\ \A d, e \in Chained : page[d] = page[e] => d = e
    /\ \A s, t \in Sizes : s # t => chain[s] \cap chain[t] = {}

(* In every bucket, each place is either free or held, never both nor      *)
(* neither, and inside the page; the count that decides when the page is   *)
(* given back is the number of those held (160-180, 222-225).              *)
BlocksAccounted ==
    \A s \in Sizes : \A d \in chain[s] :
        LET out == HeldIn(page[d])
        IN /\ refcnt[d] = Cardinality(out) /\ out # {}
           /\ freeptr[d] = Cut(s) \ {b.at : b \in out}
           /\ \A b \in out : b.at \in Cut(s) /\ b.len <= s /\ b.at + s <= PAGE_SIZE
           /\ \A b, c \in out : b.at = c.at => b = c

(* kfree never stops the kernel with "Bad address": whatever size up to    *)
(* what was asked for the caller gives (none, or half as fat.c:283 does),  *)
(* the search from its bucket upwards meets the page of the block          *)
(* (203-217).                                                              *)
KfreeFinds ==
    \A b \in held : \A size \in 0 .. b.len :
        \E s \in Sizes : Searched(s, size) /\ \E d \in chain[s] : page[d] = b.page

(* kmalloc and kfree keep the promise of a heap: what one caller writes in *)
(* its block no other caller sees.                                         *)
Bytes(b) == {b.page} \X (b.at .. b.at + b.len - 1)
AsHeap == INSTANCE Heap WITH held <- {Bytes(b) : b \in held}
HeapSpec == AsHeap!Spec
=============================================================================
