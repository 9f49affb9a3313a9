--------------------------- MODULE InterruptEntry ---------------------------
(***************************************************************************)
(* The way into the kernel and out of it (kernel/kernel.asm): save,        *)
(* restart and ret_to_proc, and the entries that use them.  Every gate     *)
(* turns interrupts off; each handler turns them on for its body.          *)
(*                                                                         *)
(* The frame of an interrupted program is pushed into the process's entry  *)
(* of process_table; save then moves to its kernel stack.  A frame of      *)
(* interrupted kernel code stays where the stack pointer is.  save tells   *)
(* the two apart by is_in_ring0, which is -1 in user mode.                 *)
(*                                                                         *)
(* A handler runs to its end or gives the processor away in schedule,      *)
(* which does nothing unless is_in_ring0 is 0; which process it picks is   *)
(* left open (module Process).  Handlers cause no fault of their own.      *)
(***************************************************************************)
EXTENDS Integers, Sequences

CONSTANTS
    Procs,      \* entries of process_table
    Init0,      \* the process that kernel_main starts
    Devices,    \* with a hwint_master or hwint_slave entry
    MaxNest     \* bound on nested frames

ASSUME InterruptAssumption ==
    /\ Init0 \in Procs
    /\ Devices \cap {"sys_call", "page_fault", "clock", "new"} = {}
    /\ MaxNest \in Nat \ {0}

VARIABLES
    current,        \* current_process
    is_in_ring0,
    ints,           \* IF: interrupts are on
    masked,         \* devices whose interrupt is masked
    pc,             \* process -> where it is
    flags,          \* process -> IF when it gave the processor away (pushfl)
    path,           \* process -> the frames saved, outermost first, each with
                    \* its handler, its way back, and where and with which
                    \* is_in_ring0 the code was that it is of
    hit             \* an interrupt came while esp was in the entry

vars == <<current, is_in_ring0, ints, masked, pc, flags, path, hit>>

(* free: not in use; user: in its program; saved: in a handler, before sti; *)
(* body; leaving: the handler is done, up to the instruction of restart     *)
(* that loads esp; restart: esp is the start of the entry; popping:         *)
(* is_in_ring0 is counted down, up to iretd.                                *)
Places == {"free", "user", "saved", "body", "leaving", "restart", "popping"}

Top(p) == path[p][Len(path[p])]
Moved(place) == pc' = [pc EXCEPT ![current] = place]

(* What a process that never ran has: a frame in its entry, and restart to  *)
(* begin with (kernel_main, sys_fork).                                      *)
Fresh == <<[kind |-> "new", where |-> "entry", ret |-> "restart", at |-> "user", ring0 |-> -1]>>

Init ==
    /\ current = Init0
    /\ is_in_ring0 = 0 /\ ints = TRUE
    /\ masked = {}
    /\ pc = [p \in Procs |-> IF p = Init0 THEN "leaving" ELSE "free"]
    /\ flags = [p \in Procs |-> FALSE]
    /\ path = [p \in Procs |-> IF p = Init0 THEN Fresh ELSE <<>>]
    /\ hit = FALSE

-----------------------------------------------------------------------------
(* Where the processor pushes the frame.  It loads esp when it comes from   *)
(* user mode only; in restart esp is in the entry, and what is pushed       *)
(* overwrites the end of the entry before it, or the frame itself.          *)
InEntry == pc[current] \in {"restart", "popping"} /\ Top(current).ret = "restart"
Where == IF pc[current] = "user" THEN "entry"
         ELSE IF InEntry THEN IF pc[current] = "restart" THEN "before" ELSE "over"
         ELSE IF Top(current).where = "before" THEN "before" ELSE "kstack"

ReturnBy_Restart == "restart"           \* mutant: no test
ReturnBy == IF is_in_ring0 + 1 = 0 THEN "restart" ELSE "ret_to_proc"

save(kind) ==
    /\ ints /\ Len(path[current]) < MaxNest
    /\ path' = [path EXCEPT ![current] = Append(@,
                   [kind |-> kind, where |-> Where, ret |-> ReturnBy,
                    at |-> pc[current], ring0 |-> is_in_ring0])]
    /\ is_in_ring0' = is_in_ring0 + 1
    /\ Moved("saved") /\ ints' = FALSE
    /\ hit' = (hit \/ InEntry)
    /\ UNCHANGED <<current, flags>>

(* A program calls the kernel or writes to a read-only page. *)
sys_call   == pc[current] = "user" /\ save("sys_call") /\ UNCHANGED masked
page_fault == pc[current] = "user" /\ save("page_fault") /\ UNCHANGED masked

(* The clock (hwint00) does not mask itself, the other devices do. *)
hwint00  == save("clock") /\ UNCHANGED masked
hwint(d) == d \notin masked /\ save(d) /\ masked' = masked \cup {d}

sti ==
    /\ pc[current] = "saved"
    /\ Moved("body") /\ ints' = TRUE
    /\ UNCHANGED <<current, is_in_ring0, masked, flags, path, hit>>

(* The end of a handler.  The cli of the clock and of the page fault is     *)
(* commented out (kernel.asm:240, 306).                                     *)
LeavesOpen_Calls == {"clock", "page_fault", "sys_call"}     \* mutant
LeavesOpen == {"clock", "page_fault"}

leave ==
    /\ pc[current] = "body"
    /\ Moved("leaving")
    /\ ints' = (ints /\ Top(current).kind \in LeavesOpen)
    /\ masked' = masked \ {Top(current).kind}
    /\ UNCHANGED <<current, is_in_ring0, flags, path, hit>>

-----------------------------------------------------------------------------
(* schedule gives the processor to q, which goes on in schedule, or in      *)
(* restart if it never ran.                                                 *)
InHandler(kinds) == pc[current] = "body" /\ Top(current).kind \in kinds
To(q, on) ==
    /\ q # current /\ pc[q] # "free"
    /\ current' = q
    /\ ints' = IF pc[q] = "body" THEN flags[q] ELSE on

Switches_Nested == TRUE                 \* mutant: no test
Switches == is_in_ring0 = 0

schedule(q) ==
    /\ InHandler({"clock", "sys_call"})
    /\ Switches
    /\ flags' = [flags EXCEPT ![current] = ints]
    /\ To(q, ints)
    /\ UNCHANGED <<is_in_ring0, masked, pc, path, hit>>

sys_fork(q) ==
    /\ InHandler({"sys_call"}) /\ pc[q] = "free"
    /\ pc' = [pc EXCEPT ![q] = "leaving"]
    /\ path' = [path EXCEPT ![q] = Fresh]
    /\ UNCHANGED <<current, is_in_ring0, ints, masked, flags, hit>>

(* sys_exit, then cli and ret_from_sys_call. *)
sys_exit(q) ==
    /\ InHandler({"sys_call"}) /\ current # Init0
    /\ Switches
    /\ To(q, FALSE)
    /\ Moved("free")
    /\ path' = [path EXCEPT ![current] = <<>>]
    /\ UNCHANGED <<is_in_ring0, masked, flags, hit>>

(* restart loads esp: whatever lay on the stack is left there.              *)
restart ==
    /\ pc[current] = "leaving" /\ Top(current).ret = "restart"
    /\ Moved("restart")
    /\ path' = [path EXCEPT ![current] = <<Top(current)>>]
    /\ UNCHANGED <<current, is_in_ring0, ints, masked, flags, hit>>

ret_to_proc_Uncounted ==                \* mutant: is_in_ring0 stays
    /\ \/ pc[current] = "restart"
       \/ pc[current] = "leaving" /\ Top(current).ret = "ret_to_proc"
    /\ Moved("popping")
    /\ UNCHANGED <<current, is_in_ring0, ints, masked, flags, path, hit>>
ret_to_proc ==
    /\ \/ pc[current] = "restart"
       \/ pc[current] = "leaving" /\ Top(current).ret = "ret_to_proc"
    /\ is_in_ring0' = is_in_ring0 - 1
    /\ Moved("popping")
    /\ UNCHANGED <<current, ints, masked, flags, path, hit>>

iretd ==
    /\ pc[current] = "popping"
    /\ Moved(IF Top(current).ret = "restart" THEN "user" ELSE Top(current).at)
    /\ path' = [path EXCEPT ![current] = SubSeq(@, 1, Len(@) - 1)]
    /\ ints' = TRUE
    /\ UNCHANGED <<current, is_in_ring0, masked, flags, hit>>

Next ==
    \/ sys_call \/ page_fault \/ hwint00 \/ \E d \in Devices : hwint(d)
    \/ sti \/ leave \/ restart \/ ret_to_proc \/ iretd
    \/ \E q \in Procs : schedule(q) \/ sys_fork(q) \/ sys_exit(q)

Spec == Init /\ [][Next]_vars
-----------------------------------------------------------------------------
Frames == [kind : Devices \cup {"sys_call", "page_fault", "clock", "new"},
           where : {"entry", "kstack", "before", "over"},
           ret : {"restart", "ret_to_proc"}, at : Places, ring0 : -1 .. MaxNest - 1]

(* Type invariant. *)
TypeOK ==
    /\ current \in Procs /\ is_in_ring0 \in -1 .. MaxNest - 1
    /\ ints \in BOOLEAN /\ hit \in BOOLEAN
    /\ masked \subseteq Devices
    /\ pc \in [Procs -> Places]
    /\ flags \in [Procs -> BOOLEAN]
    /\ path \in [Procs -> Seq(Frames)]

(* As long as no interrupt comes while esp is in the entry, code goes on     *)
(* with the is_in_ring0 it was interrupted with, and in a handler it is 0   *)
(* just when no other handler is interrupted: what save and schedule take   *)
(* it for (485-526, schedule.c:22).                                         *)
NestCounted ==
    ~hit =>
        /\ pc[current] = "user" => is_in_ring0 = -1
        /\ pc[current] = "popping" => is_in_ring0 = Top(current).ring0
        /\ pc[current] \notin {"user", "popping"} =>
              is_in_ring0 >= 0 /\ (is_in_ring0 = 0 <=> Len(path[current]) = 1)

(* Then, too, restart finds in the entry the frame of the program, and      *)
(* every other frame is on the kernel stack and returned to by ret_to_proc. *)
FramesInPlace ==
    ~hit => \A p \in Procs : \A i \in DOMAIN path[p] :
        IF i = 1 THEN path[p][i].where = "entry" /\ path[p][i].ret = "restart"
                 ELSE path[p][i].where = "kstack" /\ path[p][i].ret = "ret_to_proc"

(* A process gives the processor away with no handler nested in another one *)
(* (schedule, schedule.c:22), and no device stays masked meanwhile, even    *)
(* after such an interrupt.                                                 *)
ParkedAlone ==
    /\ ~hit => \A p \in Procs \ {current} :
           pc[p] \in {"body", "leaving"} => Len(path[p]) = 1
    /\ \A d \in masked : \E i \in DOMAIN path[current] : path[current][i].kind = d

(* esp is in the entry with interrupts on only on the way out of the clock  *)
(* and the page fault, whose cli is commented out, and into a process that  *)
(* never ran: system calls and devices leave no such window (287, 400, 469).*)
WindowsKnown ==
    InEntry /\ ints => Top(current).kind \in {"clock", "page_fault", "new"}
=============================================================================
