------------------------------- MODULE Paging -------------------------------
(***************************************************************************)
(* Frames and address spaces (mm/page.c), and what fork, execve, exit and  *)
(* a write fault do to them (kernel/process.c, page_fault in kernel.asm).  *)
(*                                                                         *)
(* The user half of a page directory has two entries in use: one for the   *)
(* program, one segment within 4 MB, and one for the stack, of which only  *)
(* the last page is mapped.  Page tables live in frames, and a frame that      *)
(* becomes a page table is not cleared: table holds what each frame reads  *)
(* as.  Programs touch the pages they were given (owns) and no others.     *)
(*                                                                         *)
(* Births and deaths are ProcessLife's.                                    *)
(***************************************************************************)
EXTENDS Integers, FiniteSets

CONSTANTS
    Slots, Root,    \* as in ProcessLife
    Frames,         \* of physical memory beyond the kernel, by number
    Idx,            \* entries of a page table
    StackIdx,       \* the entry of the stack page in its table
    Programs,       \* the entries the segment of a program fills
    Residue,        \* what a kernel stack may leave that reads as a page table
    CountBound,     \* bound on a frame's count
    Turns           \* bound on the forks and execs of a run

NULL == -1
Dirs == {"text", "stack"}
NoEntry == [frame |-> NULL, rw |-> FALSE]
Entries == [frame : Frames \cup {NULL}, rw : BOOLEAN]

ASSUME PagingAssumption ==
    /\ IsFiniteSet(Slots) /\ Root \in Slots /\ NULL \notin Slots
    /\ IsFiniteSet(Frames) /\ Frames \subseteq Nat
    /\ IsFiniteSet(Idx) /\ Idx \subseteq Nat /\ StackIdx \in Idx
    /\ Programs \subseteq SUBSET Idx
    /\ Residue \subseteq [Idx -> Entries]
    /\ CountBound \in Nat /\ Turns \in Nat

VARIABLES
    life, parent,   \* the process table, as in ProcessLife
    used,           \* frames with MP_USE
    count,          \* mem_map[frame].count
    table,          \* frame -> what it reads as when it is a page table
    page_dir,       \* the frame of a slot's page directory, kept for its next process
    entry,          \* slot -> page directory entry -> frame of the table
    esp_addr,       \* the frame of a slot's kernel stack
    owns,           \* the pages <<directory entry, index>> a process was given
    turns           \* forks and execs so far

memory == <<used, count, table, page_dir, entry, esp_addr, owns, turns>>
vars == <<life, parent, used, count, table, page_dir, entry, esp_addr,
          owns, turns>>

Life == INSTANCE ProcessLife WITH NoParent <- NULL

StackPage == <<"stack", StackIdx>>
Pte(p, pg) == table[entry[p][pg[1]]][pg[2]]

(* The tables of a slot, and the entry of its page directory at which each *)
(* of the loops over a directory comes by: the program's is the lower one. *)
Present(p) == {d \in Dirs : entry[p][d] # NULL}
Tables(p)  == {entry[p][d] : d \in Present(p)}

(* get_free_page hands out the lowest frame that is not in use: the n-th   *)
(* of a series of calls that finds the frames in use at u.                 *)
Unused(u) == Frames \ u
Page(u, n) == CHOOSE f \in Unused(u) :
                 Cardinality({g \in Unused(u) : g < f}) = n - 1
Pages(u, n) == {Page(u, i) : i \in 1 .. n}

(* init_fork: the directory, the kernel stack, a table and a page for the  *)
(* stack.  Memory is clear at boot, and the count of every frame is 1      *)
(* until get_free_page hands it out (mm.c:167).                            *)
Init ==
    /\ Life!Init
    /\ Cardinality(Frames) >= 4
    /\ used = Pages({}, 4)
    /\ count = [f \in Frames |-> IF f \in Pages({}, 3) THEN 0 ELSE 1]
    /\ table = [f \in Frames |-> [i \in Idx |->
                   IF f = Page({}, 3) /\ i = StackIdx
                   THEN [frame |-> Page({}, 4), rw |-> TRUE] ELSE NoEntry]]
    /\ page_dir = [p \in Slots |-> IF p = Root THEN Page({}, 1) ELSE NULL]
    /\ entry = [p \in Slots |-> [d \in Dirs |->
                   IF p = Root /\ d = "stack" THEN Page({}, 3) ELSE NULL]]
    /\ esp_addr = [p \in Slots |-> IF p = Root THEN Page({}, 2) ELSE NULL]
    /\ owns = [p \in Slots |-> IF p = Root THEN {StackPage} ELSE {}]
    /\ turns = 0

-----------------------------------------------------------------------------
(* copy_page: a new table for every table of p, every entry shared and     *)
(* read-only on both sides, and counted once more.                         *)
ReadOnly(pt) == [i \in Idx |-> [frame |-> pt[i].frame, rw |-> FALSE]]

Copied_ChildOnly(p, new) ==             \* mutant: the parent may still write
    [f \in Frames |-> IF \E d \in Present(p) : f = new[d]
                      THEN LET d == CHOOSE d \in Present(p) : f = new[d]
                           IN ReadOnly(table[entry[p][d]])
                      ELSE table[f]]
Copied(p, new) ==
    [f \in Frames |-> IF \E d \in Present(p) : f = new[d]
                      THEN LET d == CHOOSE d \in Present(p) : f = new[d]
                           IN ReadOnly(table[entry[p][d]])
                      ELSE IF f \in Tables(p) THEN ReadOnly(table[f]) ELSE table[f]]

Counted_NotAgain(p, ds, f) == 0         \* mutant: shared frames are not counted
Counted(p, ds, f) ==
    Cardinality({pg \in ds \X Idx : Pte(p, pg).frame = f})

(* sys_fork: a directory unless the slot has one, the tables, then the     *)
(* kernel stack.  A frame loses its count when it is handed out: what the  *)
(* program's table has of the later ones is counted before that.           *)
sys_fork(p, c) ==
    LET n0     == IF page_dir[c] = NULL THEN 1 ELSE 0
        n      == n0 + Cardinality(Present(p)) + 1
        new    == [d \in Present(p) |-> Page(used, IF d = "text" THEN n0 + 1 ELSE n - 1)]
        kstack == Page(used, n)
        fresh  == Pages(used, n)
    IN /\ Life!Fork(p, c)
       /\ turns < Turns /\ turns' = turns + 1
       /\ Cardinality(Unused(used)) >= n
       /\ \A f \in Frames : count[f] + Counted(p, Present(p), f) <= CountBound
       /\ used' = used \cup fresh
       /\ count' = [f \in Frames |->
             CASE f = kstack       -> 0
               [] f = new["stack"] -> Counted(p, {"stack"}, f)
               [] f \in fresh \ {kstack, new["stack"]} -> Counted(p, Present(p), f)
               [] f \notin fresh   -> count[f] + Counted(p, Present(p), f)]
       /\ table' = Copied(p, new)
       /\ page_dir' = [page_dir EXCEPT ![c] = IF @ = NULL THEN Page(used, 1) ELSE @]
       /\ entry' = [entry EXCEPT ![c] =
                       [d \in Dirs |-> IF d \in Present(p) THEN new[d] ELSE NULL]]
       /\ esp_addr' = [esp_addr EXCEPT ![c] = kstack]
       /\ owns' = [owns EXCEPT ![c] = owns[p]]

(* A program writes to a page it was given, whose entry is read-only: the   *)
(* fault makes the last sharer a writer, or copies the page.               *)
LastSharer(f) == count[f] = 1

do_wp_page(p, pg) ==
    LET old == Pte(p, pg).frame
        new == Page(used, 1)
        map(f) == table' = [table EXCEPT ![entry[p][pg[1]]][pg[2]] =
                               [frame |-> f, rw |-> TRUE]]
    IN /\ life[p] = "live" /\ pg \in owns[p]
       /\ ~Pte(p, pg).rw
       /\ \/ /\ LastSharer(old)
             /\ map(old)
             /\ UNCHANGED <<used, count>>
          \/ /\ ~LastSharer(old)
             /\ Unused(used) # {}
             /\ map(new)
             /\ used' = used \cup {new}
             /\ count' = [count EXCEPT ![new] = 1, ![old] = @ - 1]
       /\ UNCHANGED <<life, parent, page_dir, entry, esp_addr, owns, turns>>

-----------------------------------------------------------------------------
(* clear_page_tables gives back the frames of the tables, not what they    *)
(* map, and leaves the directory and the tables as they are.               *)
Cleared_WithPages(p) ==                 \* mutant: the pages as well
    used \ (Tables(p) \cup {table[t][i].frame : t \in Tables(p), i \in Idx})
Cleared(p) == used \ Tables(p)

(* sys_execve: a table and pages for the segment, a table and a page for   *)
(* the stack.  Only the stack page is counted.                             *)
StackCount_None == 0                    \* mutant
StackCount == 1

sys_execve(p, prog) ==
    LET u == Cleared(p)
        k == Cardinality(prog)
        seg(i) == Page(u, 2 + Cardinality({j \in prog : j < i}))
        stack  == Page(u, k + 3)
    IN /\ p # Root /\ life[p] = "live"
       /\ turns < Turns /\ turns' = turns + 1
       /\ Cardinality(Unused(u)) >= k + 3
       /\ used' = u \cup Pages(u, k + 3)
       /\ count' = [f \in Frames |-> IF f \notin Pages(u, k + 3) THEN count[f]
                                     ELSE IF f = stack THEN StackCount ELSE 0]
       /\ table' = [table EXCEPT
             ![Page(u, 1)] = [i \in Idx |-> IF i \in prog THEN [frame |-> seg(i), rw |-> TRUE]
                                                         ELSE @[i]],
             ![Page(u, k + 2)][StackIdx] = [frame |-> stack, rw |-> TRUE]]
       /\ entry' = [entry EXCEPT ![p] = [d \in Dirs |->
                                            IF d = "text" THEN Page(u, 1) ELSE Page(u, k + 2)]]
       /\ owns' = [owns EXCEPT ![p] = {<<"text", i>> : i \in prog} \cup {StackPage}]
       /\ UNCHANGED <<life, parent, page_dir, esp_addr>>

(* sys_exit: the tables and the kernel stack.  What the stack leaves in    *)
(* its frame is read when the frame becomes a table.                       *)
sys_exit(p) ==
    /\ Life!Exit(p)
    /\ used' = Cleared(p) \ {esp_addr[p]}
    /\ \E left \in Residue : table' = [table EXCEPT ![esp_addr[p]] = left]
    /\ owns' = [owns EXCEPT ![p] = {}]
    /\ UNCHANGED <<count, page_dir, entry, esp_addr, turns>>

sys_waitpid(p, c) == Life!Reap(p, c) /\ UNCHANGED memory

Next ==
    \/ \E p, c \in Slots : sys_fork(p, c) \/ sys_waitpid(p, c)
    \/ \E p \in Slots, pg \in Dirs \X Idx : do_wp_page(p, pg)
    \/ \E p \in Slots, prog \in Programs : sys_execve(p, prog)
    \/ \E p \in Slots : sys_exit(p)

Spec == Init /\ [][Next]_vars

-----------------------------------------------------------------------------
(* Type invariant.  The counts are unsigned: none is taken below zero.      *)
TypeOK ==
    /\ life \in [Slots -> {"free", "live", "zombie"}]
    /\ used \subseteq Frames
    /\ count \in [Frames -> Nat]
    /\ table \in [Frames -> [Idx -> Entries]]
    /\ page_dir \in [Slots -> Frames \cup {NULL}]
    /\ entry \in [Slots -> [Dirs -> Frames \cup {NULL}]]
    /\ esp_addr \in [Slots -> Frames \cup {NULL}]
    /\ owns \in [Slots -> SUBSET (Dirs \X Idx)]
    /\ turns \in 0 .. Turns

Alive(p) == life[p] = "live"
FrameOf(p, pg) == Pte(p, pg).frame

(* A frame has one role.  The directory of a slot, the tables and the      *)
(* kernel stack of a live process are frames in use, all different, and no *)
(* process has one of them among its pages.  exit and execve give back     *)
(* frames that stale entries still name, and fork and execve take them     *)
(* again for other roles.                                                  *)
RoleFrames(p) ==
    (IF page_dir[p] = NULL THEN {} ELSE {<<p, "dir", page_dir[p]>>})
    \cup (IF Alive(p) THEN {<<p, "kstack", esp_addr[p]>>}
                           \cup {<<p, d, entry[p][d]>> : d \in Present(p)}
                      ELSE {})
Roles == UNION {RoleFrames(p) : p \in Slots}

OneRole ==
    /\ \A r \in Roles : r[3] \in used
    /\ \A r, s \in Roles : r[3] = s[3] => r = s
    /\ \A p \in Slots : Alive(p) =>
          \A pg \in owns[p] : /\ entry[p][pg[1]] # NULL
                              /\ FrameOf(p, pg) \in used
                              /\ \A r \in Roles : r[3] # FrameOf(p, pg)

(* The count of a stack page is never below the number of live processes   *)
(* that map it: do_wp_page may trust a count of 1.                         *)
StackCounted ==
    \A p \in Slots : Alive(p) =>
        Cardinality({q \in Slots : Alive(q) /\ FrameOf(q, StackPage) = FrameOf(p, StackPage)})
            <= count[FrameOf(p, StackPage)]

(* No process sees another one write to its stack: a stack page that two   *)
(* processes share is read-only in both.                                   *)
StackPrivate ==
    \A p, q \in Slots :
        Alive(p) /\ Alive(q) /\ p # q /\ FrameOf(p, StackPage) = FrameOf(q, StackPage)
            => ~Pte(p, StackPage).rw

(* sys_fork says "child is a copy of the parent" (process.c:148): from     *)
(* then on what one writes is not seen by the other, on any page.          *)
ChildIsCopy ==
    \A p, q \in Slots : Alive(p) /\ Alive(q) /\ p # q =>
        \A pg \in owns[p] \cap owns[q] :
            FrameOf(p, pg) = FrameOf(q, pg) => ~Pte(p, pg).rw
=============================================================================
