------------------------------ MODULE Process ------------------------------
(***************************************************************************)
(* The process table of the kernel and everything that writes it: the      *)
(* scheduler (kernel/schedule.c), fork, exit and waitpid                   *)
(* (kernel/process.c), pause and alarm, and the clock interrupt            *)
(* (kernel/start.c), together with the exit path of a system call          *)
(* (kernel/kernel.asm: ret_from_sys_call).                                 *)
(*                                                                         *)
(* The kernel is not preemptible: schedule() returns at once when the      *)
(* interrupt arrived in kernel mode (is_in_ring0 # 0), so a system call    *)
(* runs without another process in between until it calls schedule()       *)
(* itself.  Each handler is therefore one action up to the point where it  *)
(* gives the processor away, and one action from there to its end.  The    *)
(* only thing an interrupt can change in between is ticks.                 *)
(***************************************************************************)
EXTENDS Integers

CONSTANTS
    PROC_NUMBER,    \* slots of process_table (kernel.h:24)
    HZ,             \* clock interrupts per second (time.h:4)
    TICK_WORD,      \* 2^32: ticks and alarm are unsigned int
    Seconds         \* the arguments programs give to alarm

ASSUME ProcessAssumption ==
    /\ PROC_NUMBER \in Nat \ {0}
    /\ HZ \in Nat \ {0}
    /\ TICK_WORD \in Nat \ {0, 1}
    /\ Seconds \subseteq Nat

Slots == 0 .. PROC_NUMBER - 1
MAX_TICKS == TICK_WORD - 1
NoPid == -1            \* parent_pid of a slot never forked; "any child" for waitpid

TASK_RUNNING       == "TASK_RUNNING"
TASK_INTERRUPTIBLE == "TASK_INTERRUPTIBLE"
TASK_ZOMBIE        == "TASK_ZOMBIE"
Statuses == {TASK_RUNNING, TASK_INTERRUPTIBLE, TASK_ZOMBIE}

SIGALRM == "SIGALRM"
SIGCHLD == "SIGCHLD"

VARIABLES
    is_free,      \* 1 when the slot is USED, 0 when it is free (as in the source)
    status,       \* scheduling state of the slot
    signal,       \* pending signals, the set bits of the mask
    alarm,        \* tick after which SIGALRM is due, 0 for none
    parent_pid,   \* slot of the parent
    kstack,       \* where the saved kernel stack returns into
    wait_pid,     \* the pid argument of a waitpid that sleeps
    current,      \* current_process
    ticks,        \* clock interrupts since boot
    init_pc,      \* progress of the init program of slot 0
    hung          \* schedule() spins because nothing is runnable

vars == <<is_free, status, signal, alarm, parent_pid, kstack, wait_pid,
          current, ticks, init_pc, hung>>

Used(p)  == is_free[p] = 1
Live(p)  == Used(p) /\ status[p] # TASK_ZOMBIE
Zombie(p) == Used(p) /\ status[p] = TASK_ZOMBIE

(* The processor runs user code of the current process. *)
InUser == ~hung /\ kstack[current] = "restart"

-----------------------------------------------------------------------------
(* kernel_main: slot 0 is given to init, every other slot is free. *)
Init ==
    /\ is_free = [p \in Slots |-> IF p = 0 THEN 1 ELSE 0]
    /\ status = [p \in Slots |-> TASK_RUNNING]
    /\ signal = [p \in Slots |-> {}]
    /\ alarm = [p \in Slots |-> 0]
    /\ parent_pid = [p \in Slots |-> NoPid]
    /\ kstack = [p \in Slots |-> "restart"]
    /\ wait_pid = [p \in Slots |-> NoPid]
    /\ current = 0
    /\ ticks = 0
    /\ init_pc = "fork"
    /\ hung = FALSE

-----------------------------------------------------------------------------
(* schedule(): the alarms of the used slots, then the signals, then the     *)
(* round robin.  st and sg are status and signal as the caller left them,   *)
(* now is the value of ticks it reads.                                      *)
AlarmDue(p, now) == Used(p) /\ alarm[p] # 0 /\ alarm[p] < now

WithAlarms(sg, now) ==
    [p \in Slots |-> IF AlarmDue(p, now) THEN sg[p] \cup {SIGALRM} ELSE sg[p]]

Woken(st, sg) ==
    [p \in Slots |-> IF Used(p) /\ sg[p] # {} /\ st[p] = TASK_INTERRUPTIBLE
                     THEN TASK_RUNNING ELSE st[p]]

(* The k-th slot the round robin looks at: current_process++, wrapping. *)
SlotAfterFromZero(k) == k - 1                 \* mutant: the search starts at slot 0
SlotAfter(k) == IF current + k < PROC_NUMBER THEN current + k
                                             ELSE current + k - PROC_NUMBER

Runnable(st, p) == Used(p) /\ st[p] = TASK_RUNNING

(* The do-while of schedule(): the first used, running slot after the      *)
(* current one; with none the loop never ends.                             *)
PickNext(st) ==
    \/ \E k \in 1 .. PROC_NUMBER :
          /\ Runnable(st, SlotAfter(k))
          /\ \A j \in 1 .. k - 1 : ~Runnable(st, SlotAfter(j))
          /\ current' = SlotAfter(k)
          /\ UNCHANGED hung
    \/ /\ \A p \in Slots : ~Runnable(st, p)
       /\ hung' = TRUE
       /\ UNCHANGED current

schedule_SignalsFirst(st, sg, now) ==        \* mutant: wakes before it raises alarms
    /\ alarm' = [p \in Slots |-> IF AlarmDue(p, now) THEN 0 ELSE alarm[p]]
    /\ signal' = WithAlarms(sg, now)
    /\ status' = Woken(st, sg)
    /\ PickNext(status')

schedule(st, sg, now) ==
    /\ alarm' = [p \in Slots |-> IF AlarmDue(p, now) THEN 0 ELSE alarm[p]]
    /\ signal' = WithAlarms(sg, now)
    /\ status' = Woken(st, signal')
    /\ PickNext(status')

-----------------------------------------------------------------------------
(* clock_handler: an interrupt from user mode reschedules, one that        *)
(* interrupts the kernel only counts.  The kernel may be in a system call  *)
(* that is about to have its effect or about to return, however long it    *)
(* takes, or in the spinning schedule.                                     *)
NextTick_OffByOne == IF ticks + 1 > MAX_TICKS THEN 0 ELSE ticks + 1      \* mutant
NextTick == IF ticks + 1 >= MAX_TICKS THEN 0 ELSE ticks + 1

clock_handler_user ==
    /\ InUser
    /\ ticks' = NextTick
    /\ schedule(status, signal, NextTick)
    /\ UNCHANGED <<is_free, parent_pid, kstack, wait_pid, init_pc>>

clock_handler_kernel ==
    /\ ticks' = NextTick
    /\ UNCHANGED <<is_free, status, signal, alarm, parent_pid, kstack, wait_pid,
                   current, init_pc, hung>>

-----------------------------------------------------------------------------
(* The init program (start.c) forks once and then only waits; every other  *)
(* program may fork.                                                       *)
MayFork == current # 0 \/ init_pc = "fork"

FreeSlot_OrZombie(c) == ~Live(c)               \* mutant: a zombie's slot is reused
FreeSlot(c) == ~Used(c)

(* sys_fork: the child is a copy of the parent, pending signals and alarm  *)
(* included, in the lowest free slot; a full table fails with no effect.   *)
sys_fork ==
    /\ InUser /\ MayFork
    /\ init_pc' = IF current = 0 THEN "wait" ELSE init_pc
    /\ \/ \E c \in Slots :
             /\ FreeSlot(c)
             /\ \A d \in Slots : d < c => ~FreeSlot(d)
             /\ is_free' = [is_free EXCEPT ![c] = 1]
             /\ status' = [status EXCEPT ![c] = TASK_RUNNING]
             /\ signal' = [signal EXCEPT ![c] = signal[current]]
             /\ alarm' = [alarm EXCEPT ![c] = alarm[current]]
             /\ parent_pid' = [parent_pid EXCEPT ![c] = current]
             /\ kstack' = [kstack EXCEPT ![c] = "restart"]
       \/ /\ \A c \in Slots : ~FreeSlot(c)
          /\ UNCHANGED <<is_free, status, signal, alarm, parent_pid, kstack>>
    /\ UNCHANGED <<wait_pid, current, ticks, hung>>

(* Every slot that names the exiting process as its parent, used or not,   *)
(* is handed to init.                                                      *)
Adopted_None == parent_pid                     \* mutant: children keep the dead parent
Adopted_ByGrandparent ==                       \* mutant
    [p \in Slots |-> IF parent_pid[p] = current THEN parent_pid[current] ELSE parent_pid[p]]
Adopted ==
    [p \in Slots |-> IF parent_pid[p] = current THEN 0 ELSE parent_pid[p]]

Notified_Init == 0                             \* mutant: init is told, not the parent
Notified == parent_pid[current]

(* sys_exit: the children are handed over, then the parent is made runnable whatever it was doing.   *)
(* The caller is a zombie when ret_from_sys_call looks at it, which        *)
(* schedules.  init never exits.                                           *)
sys_exit ==
    /\ InUser /\ current # 0
    /\ parent_pid' = Adopted
    /\ schedule([status EXCEPT ![current] = TASK_ZOMBIE, ![Notified] = TASK_RUNNING],
                [signal EXCEPT ![Notified] = @ \cup {SIGCHLD}],
                ticks)
    /\ UNCHANGED <<is_free, kstack, wait_pid, ticks, init_pc>>

(* sys_pause called by a program. *)
sys_pause ==
    /\ InUser /\ current # 0
    /\ kstack' = [kstack EXCEPT ![current] = "sys_pause"]
    /\ schedule([status EXCEPT ![current] = TASK_INTERRUPTIBLE], signal, ticks)
    /\ UNCHANGED <<is_free, parent_pid, wait_pid, ticks, init_pc>>

sys_pause_return ==
    /\ ~hung /\ kstack[current] = "sys_pause"
    /\ kstack' = [kstack EXCEPT ![current] = "restart"]
    /\ UNCHANGED <<is_free, status, signal, alarm, parent_pid, wait_pid,
                   current, ticks, init_pc, hung>>

(* sys_alarm: the sum is computed in 32 bits. *)
sys_alarm(seconds) ==
    /\ InUser /\ current # 0
    /\ alarm' = [alarm EXCEPT ![current] =
                    IF seconds > 0 THEN (ticks + HZ * seconds) % TICK_WORD ELSE 0]
    /\ UNCHANGED <<is_free, status, signal, parent_pid, kstack, wait_pid,
                   current, ticks, init_pc, hung>>

-----------------------------------------------------------------------------
(* The slots sys_waitpid looks at for the parent p and the argument pid. *)
IsChild(p, pid, c) ==
    /\ c # p /\ pid \in {NoPid, c}
    /\ parent_pid[c] = p /\ Used(c)

(* One pass of the scan: reap the lowest zombie, or sleep, or return with   *)
(* WNOHANG (0) or no child (-ECHILD).  flag is the local variable as the    *)
(* pass finds it, never reset on the way back to the top; sg is signal.     *)
scan(pid, wnohang, flag, sg) ==
    LET children == {c \in Slots : IsChild(current, pid, c)}
        zombies  == {c \in children : status[c] = TASK_ZOMBIE}
        sleeps   == (flag \/ children # {}) /\ ~wnohang
    IN \/ /\ \E c \in zombies :
                /\ \A d \in zombies : c <= d
                /\ is_free' = [is_free EXCEPT ![c] = 0]
          /\ signal' = sg
          /\ kstack' = [kstack EXCEPT ![current] = "restart"]
          /\ wait_pid' = [wait_pid EXCEPT ![current] = NoPid]
          /\ UNCHANGED <<status, alarm, current, hung>>
       \/ /\ zombies = {} /\ sleeps
          /\ kstack' = [kstack EXCEPT ![current] = "sys_waitpid"]
          /\ wait_pid' = [wait_pid EXCEPT ![current] = pid]
          /\ schedule([status EXCEPT ![current] = TASK_INTERRUPTIBLE], sg, ticks)
          /\ UNCHANGED is_free
       \/ /\ zombies = {} /\ ~sleeps
          /\ signal' = sg
          /\ kstack' = [kstack EXCEPT ![current] = "restart"]
          /\ wait_pid' = [wait_pid EXCEPT ![current] = NoPid]
          /\ UNCHANGED <<is_free, status, alarm, current, hung>>

sys_waitpid(pid, wnohang) ==
    /\ InUser
    /\ current = 0 => init_pc = "wait" /\ pid = NoPid /\ ~wnohang
    /\ scan(pid, wnohang, FALSE, signal)
    /\ UNCHANGED <<parent_pid, ticks, init_pc>>

(* Back from the sys_pause inside sys_waitpid: SIGCHLD is taken off, and    *)
(* the scan starts again unless another signal is pending (-EINTR).         *)
sys_waitpid_resume ==
    /\ ~hung /\ kstack[current] = "sys_waitpid"
    /\ LET rest == signal[current] \ {SIGCHLD}
           sg   == [signal EXCEPT ![current] = rest]
       IN \/ /\ rest = {}
             /\ scan(wait_pid[current], FALSE, TRUE, sg)
          \/ /\ rest # {}
             /\ signal' = sg
             /\ kstack' = [kstack EXCEPT ![current] = "restart"]
             /\ wait_pid' = [wait_pid EXCEPT ![current] = NoPid]
             /\ UNCHANGED <<is_free, status, alarm, current, hung>>
    /\ UNCHANGED <<parent_pid, ticks, init_pc>>

-----------------------------------------------------------------------------
Next ==
    \/ clock_handler_user
    \/ clock_handler_kernel
    \/ sys_fork
    \/ sys_exit
    \/ sys_pause
    \/ sys_pause_return
    \/ \E seconds \in Seconds : sys_alarm(seconds)
    \/ \E pid \in Slots \cup {NoPid}, wnohang \in BOOLEAN : sys_waitpid(pid, wnohang)
    \/ sys_waitpid_resume

Spec == Init /\ [][Next]_vars

(* The clock keeps interrupting user code, and kernel code that got the    *)
(* processor runs on.  Nothing is assumed of what programs do.             *)
Fairness ==
    /\ WF_vars(clock_handler_user)
    /\ WF_vars(sys_pause_return)
    /\ WF_vars(sys_waitpid_resume)

FairSpec == Spec /\ Fairness

-----------------------------------------------------------------------------
(* Type invariant. *)
TypeOK ==
    /\ is_free \in [Slots -> {0, 1}]
    /\ status \in [Slots -> Statuses]
    /\ signal \in [Slots -> SUBSET {SIGALRM, SIGCHLD}]
    /\ alarm \in [Slots -> 0 .. TICK_WORD - 1]
    /\ parent_pid \in [Slots -> Slots \cup {NoPid}]
    /\ kstack \in [Slots -> {"restart", "sys_pause", "sys_waitpid"}]
    /\ wait_pid \in [Slots -> Slots \cup {NoPid}]
    /\ current \in Slots
    /\ ticks \in 0 .. MAX_TICKS - 1
    /\ init_pc \in {"fork", "wait"}
    /\ hung \in BOOLEAN

(* The processor only runs a used, runnable slot; init is never gone. *)
CurrentRuns ==
    /\ Live(0)
    /\ Used(current)
    /\ ~hung => status[current] = TASK_RUNNING

(* The parent of a process is a live process other than itself.  sys_exit  *)
(* writes TASK_RUNNING into process_table[parent_pid] without a check: it  *)
(* is this that keeps the write from waking a zombie, a free slot or the   *)
(* exiting process.                                                        *)
ParentAlive ==
    \A p \in Slots \ {0} :
        Used(p) => /\ parent_pid[p] \in Slots \ {p}
                   /\ Live(parent_pid[p])

(* Nobody sleeps on a pending signal: whatever raises one (an exit, an     *)
(* alarm found by any call of schedule) also wakes the sleeper before the  *)
(* processor goes to somebody else.                                        *)
NoSleepOnSignal ==
    \A p \in Slots : Used(p) /\ status[p] = TASK_INTERRUPTIBLE => signal[p] = {}

(* Who is inside waitpid never loses its last child there.  The flag that  *)
(* sys_waitpid found one survives the sleep, so a parent that woke without *)
(* a child would sleep again, with nobody left to wake it.                 *)
WaiterHasChild ==
    \A p \in Slots : Used(p) /\ kstack[p] = "sys_waitpid" =>
        \E c \in Slots : IsChild(p, wait_pid[p], c)

SleepsInWait(p) ==
    Used(p) /\ status[p] = TASK_INTERRUPTIBLE /\ kstack[p] = "sys_waitpid"

(* No wake-up is lost between the scan of sys_waitpid and its sleep: who   *)
(* sleeps there still has a live child that it waits for, and, except for  *)
(* init (to which orphans are handed over without a wake-up), no zombie.   *)
NoLostWakeup ==
    \A p \in Slots : SleepsInWait(p) =>
        /\ \E c \in Slots : IsChild(p, wait_pid[p], c) /\ Live(c)
        /\ p # 0 => ~\E c \in Slots : IsChild(p, wait_pid[p], c) /\ Zombie(c)

(* There is no idle task: when nothing is runnable schedule() spins for    *)
(* ever.  Waiting for children alone never leads there, some process must  *)
(* have called pause itself.                                               *)
HangNeedsPause ==
    hung => \E p \in Slots : Live(p) /\ kstack[p] = "sys_pause"

(* Parents never form a cycle: from any family one gets out, and so up to  *)
(* init, whatever the order of forks, exits and adoptions.                 *)
NoParentCycle ==
    \A S \in SUBSET {p \in Slots \ {0} : Used(p)} :
        S # {} => \E p \in S : parent_pid[p] \notin S

(* A zombie never runs again and is never lost: it stays one until its     *)
(* slot is given back, and only its parent, running, gives it back.  What  *)
(* could break it: sys_exit making a parent runnable unchecked, signals    *)
(* arriving for exited slots, and the reuse of the slot by fork.           *)
ZombieStep ==
    \A p \in Slots : Zombie(p) =>
        \/ Zombie(p)'
        \/ is_free'[p] = 0 /\ parent_pid[p] = current /\ status[current] = TASK_RUNNING

ZombieUntilReaped == [][ZombieStep]_vars

(* Round robin starves nobody: a runnable process gets the processor.      *)
NoStarvation ==
    \A p \in Slots :
        (Used(p) /\ status[p] = TASK_RUNNING) ~> (current = p)

(* A parent that waits collects: a zombie whose parent is inside           *)
(* sys_waitpid for it, and awake, is reaped unless an alarm interrupts.    *)
(* (A sleeping init is the exception: see NoLostWakeup.)                   *)
WaitedZombieReaped ==
    \A p \in Slots :
        (/\ kstack[p] = "sys_waitpid"
         /\ \E c \in Slots : IsChild(p, wait_pid[p], c) /\ Zombie(c)
         /\ p = 0 => status[p] = TASK_RUNNING)
           ~> (kstack[p] = "restart")

(* The table does what ProcessLife promises. *)
Life == INSTANCE ProcessLife WITH
    Root <- 0, NoParent <- NoPid,
    life <- [p \in Slots |-> IF ~Used(p) THEN "free"
                             ELSE IF status[p] = TASK_ZOMBIE THEN "zombie" ELSE "live"],
    parent <- [p \in Slots |-> IF Used(p) THEN parent_pid[p] ELSE NoPid]

ImplementsLife == Life!Spec
=============================================================================
