--------------------------- MODULE ProcessProofs ---------------------------
(***************************************************************************)
(* Theorems about the process table, for every number of slots, clock rate *)
(* and width of the tick counter.                                          *)
(***************************************************************************)
EXTENDS Process, FiniteSetTheorems, TLAPS

Signals == {SIGALRM, SIGCHLD}

(* What a slot that sleeps has on its stack, and what a spinning schedule  *)
(* has seen: the strengthening that makes the invariants inductive.        *)
SleepersInCall ==
    \A p \in Slots : Used(p) /\ status[p] = TASK_INTERRUPTIBLE => kstack[p] # "restart"

HungIdle == hung => \A p \in Slots : ~Runnable(status, p)

InitHasNoParent == parent_pid[0] = NoPid

(* The inductive invariant. *)
IInv ==
    /\ TypeOK
    /\ CurrentRuns
    /\ InitHasNoParent
    /\ ParentAlive
    /\ NoSleepOnSignal
    /\ SleepersInCall
    /\ WaiterHasChild
    /\ NoLostWakeup
    /\ HungIdle

-----------------------------------------------------------------------------
(* The initial state satisfies it: only init is used, and it runs. *)
LEMMA InitIInv == Init => IInv
  <1> SUFFICES ASSUME Init PROVE IInv
    OBVIOUS
  <1>1. 0 \in Slots
    BY ProcessAssumption DEF Slots
  <1>2. TypeOK
    <2>1. 0 \in 0 .. TICK_WORD - 1 /\ 0 \in 0 .. MAX_TICKS - 1
      BY ProcessAssumption DEF MAX_TICKS
    <2>2. TASK_RUNNING \in Statuses
      BY DEF Statuses
    <2> QED
      BY <1>1, <2>1, <2>2 DEF Init, TypeOK
  <1> USE ProcessAssumption DEF Init, Slots, Used, Live, NoPid, TASK_RUNNING,
          TASK_INTERRUPTIBLE, TASK_ZOMBIE
  <1>3. CurrentRuns /\ InitHasNoParent /\ ParentAlive
    BY <1>1 DEF CurrentRuns, InitHasNoParent, ParentAlive
  <1>4. NoSleepOnSignal /\ SleepersInCall /\ WaiterHasChild /\ NoLostWakeup
    BY DEF NoSleepOnSignal, SleepersInCall, WaiterHasChild, NoLostWakeup, SleepsInWait
  <1>5. HungIdle
    BY DEF HungIdle
  <1> QED
    BY <1>2, <1>3, <1>4, <1>5 DEF IInv

-----------------------------------------------------------------------------
(* What schedule() guarantees whoever calls it with the statuses st: it     *)
(* only wakes sleepers, leaves nobody asleep on a signal, and gives the     *)
(* processor to a runnable slot, or spins when there is none.               *)
ScheduledFrom(st) ==
    /\ alarm' \in [Slots -> 0 .. TICK_WORD - 1]
    /\ signal' \in [Slots -> SUBSET Signals]
    /\ status' \in [Slots -> Statuses]
    /\ current' \in Slots
    /\ hung' \in BOOLEAN
    /\ \A p \in Slots : \/ status'[p] = st[p]
                        \/ st[p] = TASK_INTERRUPTIBLE /\ status'[p] = TASK_RUNNING
    /\ \A p \in Slots : Used(p) /\ status'[p] = TASK_INTERRUPTIBLE => signal'[p] = {}
    /\ ~hung' => Runnable(status', current')
    /\ hung' => current' = current
    /\ hung' => \A p \in Slots : ~Runnable(status', p)

(* schedule() has that effect. *)
LEMMA ScheduleEffect ==
  ASSUME TypeOK,
         NEW st \in [Slots -> Statuses],
         NEW sg \in [Slots -> SUBSET Signals],
         NEW now \in Nat,
         ~hung,
         schedule(st, sg, now)
  PROVE  ScheduledFrom(st)
  <1> USE ProcessAssumption DEF schedule
  <1>1. alarm' \in [Slots -> 0 .. TICK_WORD - 1]
    BY DEF TypeOK
  <1>2. signal' \in [Slots -> SUBSET Signals]
    BY DEF WithAlarms, Signals
  <1>3. status' = [p \in Slots |-> IF Used(p) /\ signal'[p] # {} /\ st[p] = TASK_INTERRUPTIBLE
                                   THEN TASK_RUNNING ELSE st[p]]
    BY DEF Woken
  <1>4. status' \in [Slots -> Statuses]
    BY <1>3 DEF Statuses
  <1>5. \A p \in Slots : \/ status'[p] = st[p]
                         \/ st[p] = TASK_INTERRUPTIBLE /\ status'[p] = TASK_RUNNING
    BY <1>3
  <1>6. \A p \in Slots : Used(p) /\ status'[p] = TASK_INTERRUPTIBLE => signal'[p] = {}
    BY <1>3 DEF TASK_RUNNING, TASK_INTERRUPTIBLE
  <1>7. PickNext(status')
    OBVIOUS
  <1>8. ASSUME NEW k \in 1 .. PROC_NUMBER PROVE SlotAfter(k) \in Slots
    BY DEF SlotAfter, Slots, TypeOK
  <1>9. /\ current' \in Slots /\ hung' \in BOOLEAN
        /\ ~hung' => Runnable(status', current')
        /\ hung' => current' = current
        /\ hung' => \A p \in Slots : ~Runnable(status', p)
    <2>1. CASE \E k \in 1 .. PROC_NUMBER :
                  /\ Runnable(status', SlotAfter(k))
                  /\ current' = SlotAfter(k)
                  /\ UNCHANGED hung
      <3>1. hung' = hung
        BY <2>1
      <3>2. ~hung' /\ hung' \in BOOLEAN
        BY <3>1 DEF TypeOK
      <3>3. current' \in Slots /\ Runnable(status', current')
        BY <2>1, <1>8
      <3> QED
        BY <3>2, <3>3
    <2>2. CASE /\ \A p \in Slots : ~Runnable(status', p)
               /\ hung' = TRUE
               /\ UNCHANGED current
      <3>1. current' = current /\ current \in Slots
        BY <2>2 DEF TypeOK
      <3> QED
        BY <2>2, <3>1
    <2> QED
      BY <1>7, <2>1, <2>2 DEF PickNext
  <1> QED
    BY <1>1, <1>2, <1>4, <1>5, <1>6, <1>9 DEF ScheduledFrom

-----------------------------------------------------------------------------
(* A tick only moves ticks inside its range. *)
LEMMA TickRange == TypeOK => NextTick \in 0 .. MAX_TICKS - 1
  BY ProcessAssumption DEF TypeOK, NextTick, MAX_TICKS

(* The clock interrupt in user mode: a call of schedule with the arrays     *)
(* as they are.                                                            *)
LEMMA ClockUserStep == IInv /\ clock_handler_user => IInv'
  <1> SUFFICES ASSUME IInv, clock_handler_user PROVE IInv'
    OBVIOUS
  <1> USE DEF IInv
  <1>1. ~hung /\ kstack[current] = "restart" /\ NextTick \in 0 .. MAX_TICKS - 1
    BY TickRange DEF clock_handler_user, InUser
  <1>2. schedule(status, signal, NextTick) /\ NextTick \in Nat
    BY <1>1, ProcessAssumption DEF clock_handler_user, MAX_TICKS
  <1>3. status \in [Slots -> Statuses] /\ signal \in [Slots -> SUBSET Signals]
    BY DEF TypeOK, Signals
  <1>4. ScheduledFrom(status)
    BY <1>1, <1>2, <1>3, ScheduleEffect
  <1>5. UNCHANGED <<is_free, parent_pid, kstack, wait_pid, init_pc>> /\ ticks' = NextTick
    BY DEF clock_handler_user
  <1>6. TypeOK'
    BY <1>1, <1>4, <1>5 DEF ScheduledFrom, TypeOK, Signals
  <1>7. CurrentRuns' /\ InitHasNoParent'
    BY <1>4, <1>5, ProcessAssumption
       DEF ScheduledFrom, CurrentRuns, InitHasNoParent, Live, Used, Runnable, Slots, TASK_RUNNING,
           TASK_ZOMBIE, TASK_INTERRUPTIBLE
  <1>8. ParentAlive'
    BY <1>4, <1>5 DEF ScheduledFrom, ParentAlive, Live, Used, TASK_RUNNING, TASK_ZOMBIE, TASK_INTERRUPTIBLE
  <1>9. NoSleepOnSignal' /\ SleepersInCall' /\ HungIdle'
    BY <1>4, <1>5 DEF ScheduledFrom, NoSleepOnSignal, SleepersInCall, HungIdle, Used, Runnable,
                      TASK_RUNNING, TASK_INTERRUPTIBLE
  <1>10. NoLostWakeup'
    BY <1>4, <1>5 DEF ScheduledFrom, NoLostWakeup, SleepsInWait, IsChild, Live, Zombie, Used,
                      TASK_RUNNING, TASK_ZOMBIE, TASK_INTERRUPTIBLE
  <1>11. WaiterHasChild'
    BY <1>5 DEF WaiterHasChild, IsChild, Used
  <1> QED
    BY <1>6, <1>7, <1>8, <1>9, <1>10, <1>11

(* The clock interrupt in kernel mode, and in a spinning schedule, only     *)
(* counts.                                                                 *)
LEMMA ClockKernelStep == IInv /\ clock_handler_kernel => IInv'
  <1> SUFFICES ASSUME IInv, clock_handler_kernel PROVE IInv'
    OBVIOUS
  <1> USE DEF IInv, clock_handler_kernel
  <1>1. TypeOK'
    BY TickRange DEF TypeOK
  <1>2. CurrentRuns' /\ InitHasNoParent' /\ ParentAlive'
    BY DEF CurrentRuns, InitHasNoParent, ParentAlive, Live, Used
  <1>3. NoSleepOnSignal' /\ SleepersInCall' /\ HungIdle'
    BY DEF NoSleepOnSignal, SleepersInCall, HungIdle, Used, Runnable
  <1>4. WaiterHasChild' /\ NoLostWakeup'
    BY DEF WaiterHasChild, NoLostWakeup, SleepsInWait, IsChild, Live, Zombie, Used
  <1> QED
    BY <1>1, <1>2, <1>3, <1>4

-----------------------------------------------------------------------------
(* fork: the new slot was free, so nobody names it as parent, waits for it  *)
(* or sleeps in it.                                                        *)
LEMMA ForkStep == IInv /\ sys_fork => IInv'
  <1> SUFFICES ASSUME IInv, sys_fork PROVE IInv'
    OBVIOUS
  <1> USE DEF IInv
  <1>1. ~hung /\ UNCHANGED <<wait_pid, current, ticks, hung>> /\ init_pc' \in {"fork", "wait"}
    BY DEF sys_fork, InUser, TypeOK
  <1>2. CASE UNCHANGED <<is_free, status, signal, alarm, parent_pid, kstack>>
    <2>1. TypeOK'
      BY <1>1, <1>2 DEF TypeOK
    <2>2. CurrentRuns' /\ InitHasNoParent' /\ ParentAlive'
      BY <1>1, <1>2 DEF CurrentRuns, InitHasNoParent, ParentAlive, Live, Used
    <2>3. NoSleepOnSignal' /\ SleepersInCall' /\ HungIdle'
      BY <1>1, <1>2 DEF NoSleepOnSignal, SleepersInCall, HungIdle, Used, Runnable
    <2>4. WaiterHasChild' /\ NoLostWakeup'
      BY <1>1, <1>2 DEF WaiterHasChild, NoLostWakeup, SleepsInWait, IsChild, Live, Zombie, Used
    <2> QED
      BY <2>1, <2>2, <2>3, <2>4
  <1>3. ASSUME NEW c \in Slots, ~Used(c),
               is_free' = [is_free EXCEPT ![c] = 1],
               status' = [status EXCEPT ![c] = TASK_RUNNING],
               signal' = [signal EXCEPT ![c] = signal[current]],
               alarm' = [alarm EXCEPT ![c] = alarm[current]],
               parent_pid' = [parent_pid EXCEPT ![c] = current],
               kstack' = [kstack EXCEPT ![c] = "restart"]
        PROVE  IInv'
    <2> USE <1>1, <1>3
    <2>0. Used(0) /\ Used(current) /\ 0 \in Slots /\ current \in Slots
          /\ c # 0 /\ c # current /\ status[current] = TASK_RUNNING
      BY ProcessAssumption DEF CurrentRuns, Live, TypeOK, Slots
    <2>1. TypeOK'
      BY <2>0 DEF TypeOK, Statuses
    <2>2. CurrentRuns' /\ InitHasNoParent'
      BY <2>0 DEF CurrentRuns, InitHasNoParent, Live, Used, TypeOK
    <2>3. ParentAlive'
      BY <2>0 DEF ParentAlive, Live, Used, TypeOK, TASK_RUNNING, TASK_ZOMBIE
    <2>4. NoSleepOnSignal' /\ SleepersInCall' /\ HungIdle'
      BY <2>0 DEF NoSleepOnSignal, SleepersInCall, HungIdle, Used, TypeOK,
                  TASK_RUNNING, TASK_INTERRUPTIBLE
    <2>5. NoLostWakeup'
      <3> SUFFICES ASSUME NEW p \in Slots, SleepsInWait(p)'
                   PROVE  /\ \E d \in Slots : (IsChild(p, wait_pid[p], d) /\ Live(d))'
                          /\ p # 0 => ~\E d \in Slots : (IsChild(p, wait_pid[p], d) /\ Zombie(d))'
        BY DEF NoLostWakeup
      <3>1. p # c /\ SleepsInWait(p)
        BY DEF SleepsInWait, Used, TypeOK, TASK_RUNNING, TASK_INTERRUPTIBLE
      <3>2. PICK d \in Slots : IsChild(p, wait_pid[p], d) /\ Live(d)
        BY <3>1 DEF NoLostWakeup
      <3>3. (IsChild(p, wait_pid[p], d) /\ Live(d))'
        BY <3>2 DEF IsChild, Live, Used, TypeOK
      <3>4. ASSUME p # 0, NEW e \in Slots, (IsChild(p, wait_pid[p], e) /\ Zombie(e))'
            PROVE  IsChild(p, wait_pid[p], e) /\ Zombie(e)
        BY <3>4 DEF IsChild, Zombie, Used, TypeOK, TASK_RUNNING, TASK_ZOMBIE
      <3> QED
        BY <3>1, <3>3, <3>4 DEF NoLostWakeup
    <2>6. WaiterHasChild'
      <3> SUFFICES ASSUME NEW p \in Slots, (Used(p) /\ kstack[p] = "sys_waitpid")'
                   PROVE  \E d \in Slots : IsChild(p, wait_pid[p], d)'
        BY DEF WaiterHasChild
      <3>1. p # c /\ Used(p) /\ kstack[p] = "sys_waitpid"
        BY DEF Used, TypeOK
      <3>2. PICK d \in Slots : IsChild(p, wait_pid[p], d)
        BY <3>1 DEF WaiterHasChild
      <3>3. IsChild(p, wait_pid[p], d)'
        BY <3>2 DEF IsChild, Used, TypeOK
      <3> QED
        BY <3>3
    <2> QED
      BY <2>1, <2>2, <2>3, <2>4, <2>5, <2>6
  <1> QED
    BY <1>2, <1>3 DEF sys_fork, FreeSlot

-----------------------------------------------------------------------------
(* exit: the parent is live and is not the exiting process, so the write    *)
(* of TASK_RUNNING wakes a process that may run, and the children that      *)
(* change hands go to init, whom NoLostWakeup lets have zombies.            *)
LEMMA ExitStep == IInv /\ sys_exit => IInv'
  <1> SUFFICES ASSUME IInv, sys_exit PROVE IInv'
    OBVIOUS
  <1> USE DEF IInv
  <1> DEFINE me == current
             par == parent_pid[current]
             st == [status EXCEPT ![me] = TASK_ZOMBIE, ![par] = TASK_RUNNING]
             sg == [signal EXCEPT ![par] = @ \cup {SIGCHLD}]
  <1>1. /\ ~hung /\ kstack[me] = "restart" /\ me # 0
        /\ schedule(st, sg, ticks)
        /\ parent_pid' = [p \in Slots |-> IF parent_pid[p] = me THEN 0 ELSE parent_pid[p]]
        /\ UNCHANGED <<is_free, kstack, wait_pid, ticks, init_pc>>
    BY DEF sys_exit, InUser, Adopted, Notified
  <1>2. /\ 0 \in Slots /\ me \in Slots /\ Used(me) /\ status[me] = TASK_RUNNING
        /\ par \in Slots /\ par # me /\ Live(par)
    BY <1>1, ProcessAssumption DEF CurrentRuns, ParentAlive, TypeOK, Slots
  <1>3. /\ st \in [Slots -> Statuses]
        /\ st[me] = TASK_ZOMBIE /\ st[par] = TASK_RUNNING
        /\ \A p \in Slots \ {me, par} : st[p] = status[p]
    BY <1>2 DEF TypeOK, Statuses
  <1>4. sg \in [Slots -> SUBSET Signals]
    BY <1>2 DEF TypeOK, Signals
  <1>5. ticks \in Nat
    BY ProcessAssumption DEF TypeOK, MAX_TICKS
  <1>6. ScheduledFrom(st)
    BY <1>1, <1>3, <1>4, <1>5, ScheduleEffect
  <1> HIDE DEF me, par, st, sg
  (* who is alive afterwards, and whose status changed *)
  <1>7. /\ status'[me] = TASK_ZOMBIE /\ status'[par] = TASK_RUNNING
        /\ \A p \in Slots \ {me, par} :
              \/ status'[p] = status[p]
              \/ status[p] = TASK_INTERRUPTIBLE /\ status'[p] = TASK_RUNNING
    BY <1>2, <1>3, <1>6
       DEF ScheduledFrom, TASK_RUNNING, TASK_INTERRUPTIBLE, TASK_ZOMBIE
  <1>8. \A p \in Slots \ {me} : Live(p) => Live(p)'
    BY <1>1, <1>7 DEF Live, Used, TASK_RUNNING, TASK_INTERRUPTIBLE, TASK_ZOMBIE
  <1>9. TypeOK'
    BY <1>1, <1>2, <1>6 DEF ScheduledFrom, TypeOK, Signals
  <1>10. CurrentRuns'
    BY <1>1, <1>2, <1>6, <1>8 DEF ScheduledFrom, CurrentRuns, Runnable, Used, Live
  <1>11. InitHasNoParent'
    <2>1. parent_pid[0] # me
      BY <1>2 DEF InitHasNoParent, Slots, NoPid
    <2> QED
      BY <1>1, <1>2, <2>1 DEF InitHasNoParent
  <1>12. ParentAlive'
    <2> SUFFICES ASSUME NEW p \in Slots \ {0}, Used(p)'
                 PROVE  (parent_pid[p] \in Slots \ {p} /\ Live(parent_pid[p]))'
      BY DEF ParentAlive
    <2>1. parent_pid[p] \in Slots \ {p} /\ Live(parent_pid[p])
      BY <1>1 DEF ParentAlive, Used
    <2>2. CASE parent_pid[p] = me
      BY <1>1, <1>2, <1>8, <2>2 DEF CurrentRuns, Live, Used
    <2>3. CASE parent_pid[p] # me
      BY <1>1, <1>8, <2>1, <2>3 DEF Live, Used
    <2> QED
      BY <2>2, <2>3
  <1>13. NoSleepOnSignal' /\ HungIdle'
    BY <1>1, <1>6 DEF ScheduledFrom, NoSleepOnSignal, HungIdle, Used, Runnable
  <1>14. SleepersInCall'
    BY <1>1, <1>2, <1>7 DEF SleepersInCall, Used, TASK_RUNNING, TASK_INTERRUPTIBLE, TASK_ZOMBIE
  <1>15. NoLostWakeup'
    <2> SUFFICES ASSUME NEW p \in Slots, SleepsInWait(p)'
                 PROVE  /\ \E d \in Slots : (IsChild(p, wait_pid[p], d) /\ Live(d))'
                        /\ p # 0 => ~\E d \in Slots : (IsChild(p, wait_pid[p], d) /\ Zombie(d))'
      BY DEF NoLostWakeup
    <2>1. p # me /\ p # par /\ SleepsInWait(p)
      BY <1>1, <1>7 DEF SleepsInWait, Used, TASK_RUNNING, TASK_INTERRUPTIBLE, TASK_ZOMBIE
    <2>2. PICK d \in Slots : IsChild(p, wait_pid[p], d) /\ Live(d)
      BY <2>1 DEF NoLostWakeup
    <2>3. d # me /\ parent_pid[d] = p
      BY <2>1, <2>2 DEF IsChild, me, par
    <2>4. (IsChild(p, wait_pid[p], d) /\ Live(d))'
      BY <1>1, <1>8, <2>1, <2>2, <2>3 DEF IsChild, Used
    <2>5. ASSUME p # 0, NEW e \in Slots, (IsChild(p, wait_pid[p], e) /\ Zombie(e))'
          PROVE  IsChild(p, wait_pid[p], e) /\ Zombie(e)
      <3>1. parent_pid[e] = p /\ Used(e)
        BY <1>1, <2>5 DEF IsChild, Used
      <3>2. e # me /\ e # par
        BY <1>7, <2>1, <2>5, <3>1
           DEF Zombie, me, par, TASK_RUNNING, TASK_ZOMBIE
      <3> QED
        BY <1>1, <1>7, <2>5, <3>1, <3>2
           DEF IsChild, Zombie, Used, TASK_RUNNING, TASK_INTERRUPTIBLE, TASK_ZOMBIE
    <2> QED
      BY <2>1, <2>4, <2>5 DEF NoLostWakeup
  <1>16. WaiterHasChild'
    BY <1>1 DEF WaiterHasChild, IsChild, Used
  <1> QED
    BY <1>9, <1>10, <1>11, <1>12, <1>13, <1>14, <1>15, <1>16

-----------------------------------------------------------------------------
(* The current process goes to sleep in sys_pause or sys_waitpid; in the    *)
(* latter it has a live child it waits for and no zombie.                   *)
LEMMA SleepStep ==
  ASSUME IInv, ~hung,
         NEW sg \in [Slots -> SUBSET Signals],
         NEW call \in {"sys_pause", "sys_waitpid"},
         NEW arg \in Slots \cup {NoPid},
         schedule([status EXCEPT ![current] = TASK_INTERRUPTIBLE], sg, ticks),
         kstack' = [kstack EXCEPT ![current] = call],
         wait_pid' = [wait_pid EXCEPT ![current] = arg],
         UNCHANGED <<is_free, parent_pid, ticks, init_pc>>,
         call = "sys_waitpid" =>
            /\ \E c \in Slots : IsChild(current, arg, c) /\ Live(c)
            /\ ~\E c \in Slots : IsChild(current, arg, c) /\ Zombie(c)
  PROVE  IInv'
  <1> USE DEF IInv
  <1> DEFINE me == current
             st == [status EXCEPT ![me] = TASK_INTERRUPTIBLE]
  <1>1. /\ me \in Slots /\ Used(me) /\ status[me] = TASK_RUNNING
        /\ st \in [Slots -> Statuses] /\ ticks \in Nat
        /\ st[me] = TASK_INTERRUPTIBLE /\ \A p \in Slots \ {me} : st[p] = status[p]
    BY ProcessAssumption DEF CurrentRuns, TypeOK, Statuses, MAX_TICKS
  <1>2. ScheduledFrom(st)
    BY <1>1, ScheduleEffect
  <1> HIDE DEF me, st
  <1>3. \A p \in Slots : (Live(p) <=> Live(p)') /\ (Zombie(p) <=> Zombie(p)')
    BY <1>1, <1>2
       DEF ScheduledFrom, Live, Zombie, Used, TASK_RUNNING, TASK_INTERRUPTIBLE, TASK_ZOMBIE
  <1>4. TypeOK'
    BY <1>1, <1>2 DEF ScheduledFrom, TypeOK, Signals, me
  <1>5. CurrentRuns' /\ InitHasNoParent' /\ ParentAlive'
    BY <1>1, <1>2, <1>3, ProcessAssumption
       DEF ScheduledFrom, CurrentRuns, InitHasNoParent, ParentAlive, Runnable, Used, Slots, me
  <1>6. NoSleepOnSignal' /\ HungIdle'
    BY <1>2 DEF ScheduledFrom, NoSleepOnSignal, HungIdle, Used, Runnable
  <1>7. SleepersInCall'
    BY <1>1, <1>2 DEF ScheduledFrom, SleepersInCall, Used, TypeOK, me,
                      TASK_RUNNING, TASK_INTERRUPTIBLE
  <1>8. NoLostWakeup'
    <2> SUFFICES ASSUME NEW p \in Slots, SleepsInWait(p)'
                 PROVE  /\ \E d \in Slots : (IsChild(p, wait_pid[p], d) /\ Live(d))'
                        /\ p # 0 => ~\E d \in Slots : (IsChild(p, wait_pid[p], d) /\ Zombie(d))'
      BY DEF NoLostWakeup
    <2>1. \A d \in Slots : IsChild(p, wait_pid'[p], d) <=> IsChild(p, wait_pid[p], d)'
      BY DEF IsChild, Used
    <2>2. CASE p = me
      <3>1. call = "sys_waitpid" /\ wait_pid'[p] = arg
        BY <1>1, <2>2 DEF SleepsInWait, TypeOK, me
      <3> QED
        BY <1>3, <2>1, <2>2, <3>1 DEF me
    <2>3. CASE p # me
      <3>1. wait_pid'[p] = wait_pid[p] /\ SleepsInWait(p)
        BY <1>1, <1>2, <2>3 DEF ScheduledFrom, SleepsInWait, Used, TypeOK, me,
                                TASK_RUNNING, TASK_INTERRUPTIBLE
      <3> QED
        BY <1>3, <2>1, <3>1 DEF NoLostWakeup
    <2> QED
      BY <2>2, <2>3
  <1>9. WaiterHasChild'
    BY <1>1 DEF WaiterHasChild, IsChild, Used, TypeOK, me
  <1> QED
    BY <1>4, <1>5, <1>6, <1>7, <1>8, <1>9

-----------------------------------------------------------------------------
(* The current process goes on in user mode: only its own signals, its      *)
(* alarm, its stack and its pid argument change.                           *)
LEMMA RunOnStep ==
  ASSUME IInv, ~hung,
         alarm' \in [Slots -> 0 .. TICK_WORD - 1],
         NEW set \in SUBSET Signals,
         signal' = [signal EXCEPT ![current] = set],
         kstack' = [kstack EXCEPT ![current] = "restart"],
         NEW arg \in Slots \cup {NoPid},
         wait_pid' = [wait_pid EXCEPT ![current] = arg],
         UNCHANGED <<is_free, status, parent_pid, current, ticks, init_pc, hung>>
  PROVE  IInv'
  <1> USE DEF IInv
  <1>1. current \in Slots /\ status[current] = TASK_RUNNING
    BY DEF CurrentRuns, TypeOK
  <1>2. TypeOK'
    BY <1>1 DEF TypeOK, Signals
  <1>3. CurrentRuns' /\ InitHasNoParent' /\ ParentAlive' /\ HungIdle'
    BY DEF CurrentRuns, InitHasNoParent, ParentAlive, HungIdle, Runnable, Live, Used
  <1>4. NoSleepOnSignal' /\ SleepersInCall'
    BY <1>1 DEF NoSleepOnSignal, SleepersInCall, Used, TypeOK, TASK_RUNNING, TASK_INTERRUPTIBLE
  <1>5. NoLostWakeup'
    BY <1>1 DEF NoLostWakeup, SleepsInWait, IsChild, Live, Zombie, Used, TypeOK,
                TASK_RUNNING, TASK_INTERRUPTIBLE
  <1>6. WaiterHasChild'
    BY <1>1 DEF WaiterHasChild, IsChild, Used, TypeOK
  <1> QED
    BY <1>2, <1>3, <1>4, <1>5, <1>6

-----------------------------------------------------------------------------
(* The current process gives back the slot of a zombie child.  A zombie has *)
(* no children, and it is not what any sleeper counts on.                   *)
LEMMA ReapStep ==
  ASSUME IInv, ~hung,
         NEW c \in Slots, Zombie(c), parent_pid[c] = current,
         is_free' = [is_free EXCEPT ![c] = 0],
         NEW set \in SUBSET Signals,
         signal' = [signal EXCEPT ![current] = set],
         kstack' = [kstack EXCEPT ![current] = "restart"],
         wait_pid' = [wait_pid EXCEPT ![current] = NoPid],
         UNCHANGED <<status, alarm, parent_pid, current, ticks, init_pc, hung>>
  PROVE  IInv'
  <1> USE DEF IInv
  <1>1. /\ 0 \in Slots /\ current \in Slots /\ status[current] = TASK_RUNNING
        /\ c # 0 /\ c # current
    BY ProcessAssumption
       DEF CurrentRuns, TypeOK, Zombie, Live, Slots, TASK_RUNNING, TASK_ZOMBIE
  <1>2. \A p \in Slots : p # c => (Used(p)' <=> Used(p)) /\ (Live(p)' <=> Live(p))
    BY DEF Used, Live, TypeOK
  <1>3. ~Used(c)'
    BY DEF Used, TypeOK
  <1>4. TypeOK'
    BY <1>1 DEF TypeOK, Signals
  <1>5. CurrentRuns' /\ InitHasNoParent'
    BY <1>1, <1>2 DEF CurrentRuns, InitHasNoParent
  <1>6. ParentAlive'
    BY <1>2, <1>3 DEF ParentAlive, Live, Zombie
  <1>7. HungIdle'
    BY DEF HungIdle
  <1>8. NoSleepOnSignal' /\ SleepersInCall'
    BY <1>1, <1>2, <1>3 DEF NoSleepOnSignal, SleepersInCall, TypeOK, TASK_RUNNING, TASK_INTERRUPTIBLE
  <1>9. NoLostWakeup'
    <2> SUFFICES ASSUME NEW p \in Slots, SleepsInWait(p)'
                 PROVE  /\ \E d \in Slots : (IsChild(p, wait_pid[p], d) /\ Live(d))'
                        /\ p # 0 => ~\E d \in Slots : (IsChild(p, wait_pid[p], d) /\ Zombie(d))'
      BY DEF NoLostWakeup
    <2>1. p # current /\ p # c /\ SleepsInWait(p) /\ wait_pid'[p] = wait_pid[p]
      BY <1>1, <1>2, <1>3 DEF SleepsInWait, TypeOK, TASK_RUNNING, TASK_INTERRUPTIBLE
    <2>2. \A d \in Slots : d # c =>
             /\ IsChild(p, wait_pid[p], d)' <=> IsChild(p, wait_pid[p], d)
             /\ Zombie(d)' <=> Zombie(d)
      BY <1>2, <2>1 DEF IsChild, Zombie
    <2>3. ~IsChild(p, wait_pid[p], c)'
      BY <2>1 DEF IsChild
    <2>4. PICK d \in Slots : IsChild(p, wait_pid[p], d) /\ Live(d)
      BY <2>1 DEF NoLostWakeup
    <2>5. d # c
      BY <2>4 DEF Live, Zombie
    <2> QED
      BY <1>2, <2>1, <2>2, <2>3, <2>4, <2>5 DEF NoLostWakeup
  <1>10. WaiterHasChild'
    BY <1>1, <1>2, <1>3 DEF WaiterHasChild, IsChild, TypeOK
  <1> QED
    BY <1>4, <1>5, <1>6, <1>7, <1>8, <1>9, <1>10

-----------------------------------------------------------------------------
(* One pass of the scan of sys_waitpid, whatever signals it starts with, if *)
(* the flag it starts with is still true of the table.                     *)
LEMMA ScanStep ==
  ASSUME IInv, ~hung,
         NEW pid \in Slots \cup {NoPid}, NEW wnohang, NEW flag \in BOOLEAN,
         NEW set \in SUBSET Signals,
         flag => \E c \in Slots : IsChild(current, pid, c),
         scan(pid, wnohang, flag, [signal EXCEPT ![current] = set]),
         UNCHANGED <<parent_pid, ticks, init_pc>>
  PROVE  IInv'
  <1> DEFINE sg == [signal EXCEPT ![current] = set]
             children == {c \in Slots : IsChild(current, pid, c)}
             zombies  == {c \in children : status[c] = TASK_ZOMBIE}
  <1>1. sg \in [Slots -> SUBSET Signals]
    BY DEF IInv, TypeOK, Signals
  <1>2. ASSUME NEW c \in zombies,
               is_free' = [is_free EXCEPT ![c] = 0],
               signal' = sg,
               kstack' = [kstack EXCEPT ![current] = "restart"],
               wait_pid' = [wait_pid EXCEPT ![current] = NoPid],
               UNCHANGED <<status, alarm, current, hung>>
        PROVE  IInv'
    <2>1. Zombie(c) /\ parent_pid[c] = current
      BY DEF Zombie, IsChild
    <2> QED
      BY <1>2, <2>1, ReapStep
  <1>3. CASE /\ zombies = {} /\ (flag \/ children # {})
             /\ kstack' = [kstack EXCEPT ![current] = "sys_waitpid"]
             /\ wait_pid' = [wait_pid EXCEPT ![current] = pid]
             /\ schedule([status EXCEPT ![current] = TASK_INTERRUPTIBLE], sg, ticks)
             /\ UNCHANGED is_free
    <2>1. /\ \E c \in Slots : IsChild(current, pid, c) /\ Live(c)
          /\ ~\E c \in Slots : IsChild(current, pid, c) /\ Zombie(c)
      BY <1>3 DEF IsChild, Live, Zombie
    <2> QED
      BY <1>1, <1>3, <2>1, SleepStep
  <1>4. CASE /\ signal' = sg
             /\ kstack' = [kstack EXCEPT ![current] = "restart"]
             /\ wait_pid' = [wait_pid EXCEPT ![current] = NoPid]
             /\ UNCHANGED <<is_free, status, alarm, current, hung>>
    <2>1. alarm' \in [Slots -> 0 .. TICK_WORD - 1]
      BY <1>4 DEF IInv, TypeOK
    <2> QED
      BY <1>4, <2>1, RunOnStep
  <1> QED
    BY <1>2, <1>3, <1>4 DEF scan

-----------------------------------------------------------------------------
(* Every step keeps the invariant. *)
LEMMA NextIInv == IInv /\ [Next]_vars => IInv'
  <1> SUFFICES ASSUME IInv, [Next]_vars PROVE IInv'
    OBVIOUS
  <1>0. /\ current \in Slots /\ signal \in [Slots -> SUBSET Signals]
        /\ alarm \in [Slots -> 0 .. TICK_WORD - 1]
        /\ kstack \in [Slots -> {"restart", "sys_pause", "sys_waitpid"}]
        /\ wait_pid \in [Slots -> Slots \cup {NoPid}]
    BY DEF IInv, TypeOK, Signals
  <1>1. CASE clock_handler_user \/ clock_handler_kernel \/ sys_fork \/ sys_exit
    BY <1>1, ClockUserStep, ClockKernelStep, ForkStep, ExitStep
  <1>2. CASE sys_pause
    <2>1. wait_pid' = [wait_pid EXCEPT ![current] = wait_pid[current]]
      BY <1>0, <1>2 DEF sys_pause
    <2> QED
      BY <1>0, <1>2, <2>1, SleepStep DEF sys_pause, InUser
  <1>3. CASE sys_pause_return
    <2>1. /\ wait_pid' = [wait_pid EXCEPT ![current] = wait_pid[current]]
          /\ signal' = [signal EXCEPT ![current] = signal[current]]
      BY <1>0, <1>3 DEF sys_pause_return
    <2>2. /\ kstack' = [kstack EXCEPT ![current] = "restart"] /\ ~hung
          /\ alarm' \in [Slots -> 0 .. TICK_WORD - 1]
          /\ UNCHANGED <<is_free, status, parent_pid, current, ticks, init_pc, hung>>
      BY <1>0, <1>3 DEF sys_pause_return
    <2>3. signal[current] \in SUBSET Signals /\ wait_pid[current] \in Slots \cup {NoPid}
      BY <1>0
    <2> QED
      BY <2>1, <2>2, <2>3, RunOnStep
  <1>4. ASSUME NEW seconds \in Seconds, sys_alarm(seconds) PROVE IInv'
    <2>1. /\ wait_pid' = [wait_pid EXCEPT ![current] = wait_pid[current]]
          /\ signal' = [signal EXCEPT ![current] = signal[current]]
          /\ kstack' = [kstack EXCEPT ![current] = "restart"]
      BY <1>0, <1>4 DEF sys_alarm, InUser
    <2>2. /\ HZ * seconds \in Nat
          /\ ticks \in Nat /\ TICK_WORD \in Nat \ {0}
      BY ProcessAssumption DEF IInv, TypeOK, MAX_TICKS
    <2>3. (ticks + HZ * seconds) % TICK_WORD \in 0 .. TICK_WORD - 1
      BY <2>2
    <2>4. alarm' \in [Slots -> 0 .. TICK_WORD - 1]
      BY <1>0, <1>4, <2>2, <2>3 DEF sys_alarm
    <2>5. /\ ~hung /\ UNCHANGED <<is_free, status, parent_pid, current, ticks, init_pc, hung>>
          /\ signal[current] \in SUBSET Signals /\ wait_pid[current] \in Slots \cup {NoPid}
      BY <1>0, <1>4 DEF sys_alarm, InUser
    <2> QED
      BY <2>1, <2>4, <2>5, RunOnStep
  <1>5. ASSUME NEW pid \in Slots \cup {NoPid}, NEW wnohang \in BOOLEAN,
               sys_waitpid(pid, wnohang)
        PROVE  IInv'
    <2>1. signal = [signal EXCEPT ![current] = signal[current]]
      BY <1>0
    <2>2. scan(pid, wnohang, FALSE, [signal EXCEPT ![current] = signal[current]])
      BY <1>5, <2>1 DEF sys_waitpid
    <2>3. ~hung /\ UNCHANGED <<parent_pid, ticks, init_pc>> /\ signal[current] \in SUBSET Signals
      BY <1>0, <1>5 DEF sys_waitpid, InUser
    <2> QED
      BY <2>2, <2>3, ScanStep
  <1>6. CASE sys_waitpid_resume
    <2> DEFINE rest == signal[current] \ {SIGCHLD}
               sg   == [signal EXCEPT ![current] = rest]
    <2>1. rest \in SUBSET Signals /\ ~hung /\ wait_pid[current] \in Slots \cup {NoPid}
      BY <1>0, <1>6 DEF sys_waitpid_resume
    <2>2. CASE scan(wait_pid[current], FALSE, TRUE, sg)
      <3>1. \E c \in Slots : IsChild(current, wait_pid[current], c)
        BY <1>0, <1>6 DEF sys_waitpid_resume, IInv, CurrentRuns, WaiterHasChild
      <3> QED
        BY <1>6, <2>1, <2>2, <3>1, ScanStep DEF sys_waitpid_resume
    <2>3. CASE /\ signal' = sg
               /\ kstack' = [kstack EXCEPT ![current] = "restart"]
               /\ wait_pid' = [wait_pid EXCEPT ![current] = NoPid]
               /\ UNCHANGED <<is_free, status, alarm, current, hung>>
      BY <1>0, <1>6, <2>1, <2>3, RunOnStep DEF sys_waitpid_resume
    <2> QED
      BY <1>6, <2>2, <2>3 DEF sys_waitpid_resume
  <1>7. CASE UNCHANGED vars
    BY <1>7 DEF vars, IInv, TypeOK, CurrentRuns, InitHasNoParent, ParentAlive,
                NoSleepOnSignal, SleepersInCall, NoLostWakeup, HungIdle, SleepsInWait,
                WaiterHasChild, IsChild, Live, Zombie, Used, Runnable
  <1> QED
    BY <1>1, <1>2, <1>3, <1>4, <1>5, <1>6, <1>7 DEF Next

(* The inductive invariant holds in every reachable state. *)
THEOREM Invariance == Spec => []IInv
  BY InitIInv, NextIInv, PTL DEF Spec

(* Every variable stays in its range: table, pointers and counters.         *)
THEOREM TypeCorrect == Spec => []TypeOK
  BY Invariance, PTL DEF IInv

(* The processor only runs a used and runnable slot, and init stays.        *)
THEOREM RunsOnlyRunnable == Spec => []CurrentRuns
  BY Invariance, PTL DEF IInv

(* The parent of a process is alive, so exit never wakes a dead slot.       *)
THEOREM ParentsLive == Spec => []ParentAlive
  BY Invariance, PTL DEF IInv

(* No sleeper has a pending signal.                                         *)
THEOREM SignalsWake == Spec => []NoSleepOnSignal
  BY Invariance, PTL DEF IInv

(* Who is inside waitpid has a child there to collect or to wait for.       *)
THEOREM WaitersHaveChildren == Spec => []WaiterHasChild
  BY Invariance, PTL DEF IInv

(* Who sleeps in waitpid has a live child to be woken by.                   *)
THEOREM WaitersAreWoken == Spec => []NoLostWakeup
  BY Invariance, PTL DEF IInv

-----------------------------------------------------------------------------
(* A machine on which schedule() spins has a process in pause.  If all the  *)
(* live processes slept in waitpid, each would have a live child, none of   *)
(* which is init: the map from the live processes without init to their     *)
(* parents would be onto all the live ones, one more than there are.        *)
LEMMA HangCounting == IInv => HangNeedsPause
  <1> SUFFICES ASSUME IInv, hung, \A p \in Slots : Live(p) => kstack[p] # "sys_pause"
               PROVE  FALSE
    BY DEF HangNeedsPause
  <1> USE DEF IInv
  <1> DEFINE L == {p \in Slots : Live(p)}
             D == L \ {0}
             f == [c \in D |-> parent_pid[c]]
  <1>1. 0 \in L
    BY ProcessAssumption DEF CurrentRuns, Slots
  <1>2. ASSUME NEW p \in L PROVE SleepsInWait(p)
    BY DEF HungIdle, Runnable, SleepersInCall, SleepsInWait, Live, TypeOK, Statuses
  <1>3. ASSUME NEW p \in L PROVE \E c \in D : parent_pid[c] = p
    <2>1. PICK c \in Slots : IsChild(p, wait_pid[p], c) /\ Live(c)
      BY <1>2 DEF NoLostWakeup
    <2>2. parent_pid[c] = p /\ c # 0
      BY <2>1 DEF IsChild, InitHasNoParent, Slots, NoPid
    <2> QED
      BY <2>1, <2>2
  <1>4. f \in Surjection(D, L)
    <2>1. f \in [D -> L]
      BY DEF ParentAlive, Live
    <2> QED
      BY <1>3, <2>1 DEF Surjection
  <1>5. IsFiniteSet(L)
    <2>1. IsFiniteSet(Slots)
      BY FS_Interval, ProcessAssumption DEF Slots
    <2> QED
      BY <2>1, FS_Subset
  <1>6. IsFiniteSet(D) /\ Cardinality(D) = Cardinality(L) - 1
    BY <1>1, <1>5, FS_RemoveElement
  <1>7. Cardinality(L) <= Cardinality(D)
    BY <1>4, <1>6, FS_Surjection
  <1>8. Cardinality(L) \in Nat
    BY <1>5, FS_CardinalityType
  <1> QED
    BY <1>6, <1>7, <1>8

(* Waiting for children alone never hangs the machine.                      *)
THEOREM HangsOnlyInPause == Spec => []HangNeedsPause
  BY Invariance, HangCounting, PTL

-----------------------------------------------------------------------------
(* What a step can do to the table, seen by slots: nothing, a birth, a      *)
(* death of the running process, or the collection of one of its zombies.   *)
Quiet ==
    /\ UNCHANGED <<is_free, parent_pid>>
    /\ \A p \in Slots : Zombie(p)' <=> Zombie(p)

Born(c) ==
    /\ ~hung /\ ~Used(c) /\ c # current
    /\ is_free' = [is_free EXCEPT ![c] = 1]
    /\ parent_pid' = [parent_pid EXCEPT ![c] = current]
    /\ ~Zombie(c)' /\ \A p \in Slots \ {c} : Zombie(p)' <=> Zombie(p)

Died ==
    /\ ~hung /\ current # 0
    /\ UNCHANGED is_free
    /\ parent_pid' = Adopted
    /\ Used(current) /\ status'[current] = TASK_ZOMBIE
    /\ \A p \in Slots \ {current} : Zombie(p)' <=> Zombie(p)

Collected(c) ==
    /\ ~hung /\ Zombie(c) /\ parent_pid[c] = current
    /\ is_free' = [is_free EXCEPT ![c] = 0]
    /\ UNCHANGED <<status, parent_pid>>

(* A call of schedule() makes no zombie and wakes none.                     *)
LEMMA ScheduleQuiet ==
  ASSUME TypeOK, ~hung,
         NEW st \in [Slots -> Statuses],
         NEW sg \in [Slots -> SUBSET Signals],
         NEW now \in Nat,
         schedule(st, sg, now)
  PROVE  \A p \in Slots : status'[p] = TASK_ZOMBIE <=> st[p] = TASK_ZOMBIE
  <1>1. ScheduledFrom(st)
    BY ScheduleEffect
  <1> QED
    BY <1>1 DEF ScheduledFrom, TASK_RUNNING, TASK_INTERRUPTIBLE, TASK_ZOMBIE

(* Going to sleep changes no slot's life.                                   *)
LEMMA SleepQuiet ==
  ASSUME IInv, ~hung,
         NEW sg \in [Slots -> SUBSET Signals],
         schedule([status EXCEPT ![current] = TASK_INTERRUPTIBLE], sg, ticks),
         UNCHANGED <<is_free, parent_pid>>
  PROVE  Quiet
  <1> DEFINE st == [status EXCEPT ![current] = TASK_INTERRUPTIBLE]
  <1>1. TypeOK /\ st \in [Slots -> Statuses] /\ ticks \in Nat
    BY ProcessAssumption DEF IInv, TypeOK, Statuses, MAX_TICKS
  <1>2. \A p \in Slots : st[p] = TASK_ZOMBIE <=> status[p] = TASK_ZOMBIE
    BY DEF IInv, TypeOK, CurrentRuns, TASK_RUNNING, TASK_INTERRUPTIBLE, TASK_ZOMBIE
  <1>3. \A p \in Slots : status'[p] = TASK_ZOMBIE <=> st[p] = TASK_ZOMBIE
    BY <1>1, ScheduleQuiet
  <1> QED
    BY <1>2, <1>3 DEF Quiet, Zombie, Used

(* A pass of the scan collects a zombie or changes no slot's life.          *)
LEMMA ScanKinds ==
  ASSUME IInv, ~hung,
         NEW pid, NEW wnohang, NEW flag \in BOOLEAN, NEW set \in SUBSET Signals,
         scan(pid, wnohang, flag, [signal EXCEPT ![current] = set]),
         UNCHANGED parent_pid
  PROVE  Quiet \/ \E c \in Slots : Collected(c)
  <1> DEFINE sg == [signal EXCEPT ![current] = set]
             children == {c \in Slots : IsChild(current, pid, c)}
             zombies  == {c \in children : status[c] = TASK_ZOMBIE}
  <1>1. sg \in [Slots -> SUBSET Signals]
    BY DEF IInv, TypeOK, Signals
  <1>2. ASSUME NEW c \in zombies, is_free' = [is_free EXCEPT ![c] = 0], UNCHANGED status
        PROVE  Collected(c)
    BY <1>2 DEF Collected, Zombie, IsChild
  <1>3. CASE /\ schedule([status EXCEPT ![current] = TASK_INTERRUPTIBLE], sg, ticks)
             /\ UNCHANGED is_free
    BY <1>1, <1>3, SleepQuiet
  <1>4. CASE UNCHANGED <<is_free, status>>
    BY <1>4 DEF Quiet, Zombie, Used
  <1> QED
    BY <1>2, <1>3, <1>4 DEF scan

(* Every step is one of the four kinds.                                     *)
LEMMA StepKinds ==
  ASSUME IInv, [Next]_vars
  PROVE  Quiet \/ Died \/ (\E c \in Slots : Born(c)) \/ (\E c \in Slots : Collected(c))
  <1>0. /\ current \in Slots /\ signal \in [Slots -> SUBSET Signals]
        /\ status \in [Slots -> Statuses] /\ ticks \in Nat /\ TypeOK
        /\ is_free \in [Slots -> {0, 1}]
    BY ProcessAssumption DEF IInv, TypeOK, Signals, MAX_TICKS
  <1>1. CASE clock_handler_user
    <2>1. NextTick \in Nat
      BY <1>0, TickRange, ProcessAssumption DEF MAX_TICKS
    <2>2. \A p \in Slots : status'[p] = TASK_ZOMBIE <=> status[p] = TASK_ZOMBIE
      BY <1>0, <1>1, <2>1, ScheduleQuiet DEF clock_handler_user, InUser
    <2> QED
      BY <1>1, <2>2 DEF Quiet, Zombie, Used, clock_handler_user
  <1>2. CASE \/ UNCHANGED vars \/ clock_handler_kernel \/ sys_pause_return
             \/ \E seconds \in Seconds : sys_alarm(seconds)
    BY <1>2 DEF Quiet, Zombie, Used, vars, clock_handler_kernel, sys_pause_return, sys_alarm
  <1>3. CASE sys_fork
    <2>1. ASSUME UNCHANGED <<is_free, status, parent_pid>> PROVE Quiet
      BY <2>1 DEF Quiet, Zombie, Used
    <2>2. ASSUME NEW c \in Slots, ~Used(c),
                 is_free' = [is_free EXCEPT ![c] = 1],
                 status' = [status EXCEPT ![c] = TASK_RUNNING],
                 parent_pid' = [parent_pid EXCEPT ![c] = current]
          PROVE  \E d \in Slots : Born(d)
      <3>1. c # current /\ ~hung
        BY <1>3, <2>2 DEF IInv, CurrentRuns, sys_fork, InUser
      <3>2. Born(c)
        BY <1>0, <2>2, <3>1 DEF Born, Zombie, Used, TASK_RUNNING, TASK_ZOMBIE
      <3> QED
        BY <3>2
    <2>3. \/ UNCHANGED <<is_free, status, parent_pid>>
          \/ \E c \in Slots : /\ ~Used(c)
                              /\ is_free' = [is_free EXCEPT ![c] = 1]
                              /\ status' = [status EXCEPT ![c] = TASK_RUNNING]
                              /\ parent_pid' = [parent_pid EXCEPT ![c] = current]
      BY <1>3 DEF sys_fork, FreeSlot
    <2>4. Quiet \/ \E d \in Slots : Born(d)
      BY <2>1, <2>2, <2>3
    <2> QED
      BY <2>4
  <1>4. CASE sys_exit
    <2> DEFINE par == parent_pid[current]
               st == [status EXCEPT ![current] = TASK_ZOMBIE, ![par] = TASK_RUNNING]
               sg == [signal EXCEPT ![par] = @ \cup {SIGCHLD}]
    <2>1. ~hung /\ current # 0 /\ parent_pid' = Adopted /\ schedule(st, sg, ticks)
          /\ UNCHANGED is_free
      BY <1>4 DEF sys_exit, InUser, Notified
    <2>2. /\ par \in Slots /\ par # current /\ Live(par) /\ Used(current)
      BY <1>0, <2>1 DEF IInv, CurrentRuns, ParentAlive
    <2>3. st \in [Slots -> Statuses] /\ sg \in [Slots -> SUBSET Signals]
      BY <1>0, <2>2 DEF Statuses, Signals
    <2>4. \A p \in Slots : status'[p] = TASK_ZOMBIE <=> st[p] = TASK_ZOMBIE
      BY <1>0, <2>1, <2>3, ScheduleQuiet
    <2>5. /\ st[current] = TASK_ZOMBIE
          /\ \A p \in Slots \ {current} :
                Used(p) => (st[p] = TASK_ZOMBIE <=> status[p] = TASK_ZOMBIE)
      BY <1>0, <2>2 DEF Live, TASK_RUNNING, TASK_ZOMBIE
    <2> QED
      BY <1>0, <2>1, <2>2, <2>4, <2>5 DEF Died, Zombie, Used
  <1>5. CASE sys_pause
    BY <1>0, <1>5, SleepQuiet DEF sys_pause, InUser
  <1>6. ASSUME NEW pid \in Slots \cup {NoPid}, NEW wnohang \in BOOLEAN,
               sys_waitpid(pid, wnohang)
        PROVE  Quiet \/ \E c \in Slots : Collected(c)
    <2>1. signal = [signal EXCEPT ![current] = signal[current]]
      BY <1>0
    <2>2. scan(pid, wnohang, FALSE, [signal EXCEPT ![current] = signal[current]])
      BY <1>6, <2>1 DEF sys_waitpid
    <2>3. ~hung /\ UNCHANGED parent_pid /\ signal[current] \in SUBSET Signals
      BY <1>0, <1>6 DEF sys_waitpid, InUser
    <2> QED
      BY <2>2, <2>3, ScanKinds
  <1>7. CASE sys_waitpid_resume
    <2> DEFINE rest == signal[current] \ {SIGCHLD}
    <2>1. rest \in SUBSET Signals /\ ~hung
      BY <1>0, <1>7 DEF sys_waitpid_resume
    <2>2. CASE scan(wait_pid[current], FALSE, TRUE, [signal EXCEPT ![current] = rest])
      BY <1>7, <2>1, <2>2, ScanKinds DEF sys_waitpid_resume
    <2>3. CASE UNCHANGED <<is_free, status>>
      BY <1>7, <2>3 DEF sys_waitpid_resume, Quiet, Zombie, Used
    <2> QED
      BY <1>7, <2>2, <2>3 DEF sys_waitpid_resume
  <1> QED
    BY <1>1, <1>2, <1>3, <1>4, <1>5, <1>6, <1>7 DEF Next

-----------------------------------------------------------------------------
(* A zombie stays one until its running parent gives its slot back.         *)
THEOREM ZombiesStay == Spec => ZombieUntilReaped
  <1>1. ASSUME IInv, [Next]_vars PROVE ZombieStep
    <2> SUFFICES ASSUME NEW p \in Slots, Zombie(p)
                 PROVE  \/ Zombie(p)'
                        \/ /\ is_free'[p] = 0 /\ parent_pid[p] = current
                           /\ status[current] = TASK_RUNNING
      BY DEF ZombieStep
    <2>0. is_free \in [Slots -> {0, 1}] /\ current \in Slots
      BY <1>1 DEF IInv, TypeOK
    <2>1. CASE Quiet
      BY <2>1 DEF Quiet
    <2>2. CASE Died
      BY <2>2, <2>0 DEF Died, Zombie, Used
    <2>3. ASSUME NEW c \in Slots, Born(c) PROVE Zombie(p)'
      BY <2>3 DEF Born, Zombie
    <2>4. ASSUME NEW c \in Slots, Collected(c)
          PROVE  \/ Zombie(p)'
                 \/ /\ is_free'[p] = 0 /\ parent_pid[p] = current
                    /\ status[current] = TASK_RUNNING
      <3>1. CASE p = c
        <4>1. is_free'[p] = 0 /\ parent_pid[p] = current
          BY <2>0, <2>4, <3>1 DEF Collected
        <4>2. ~hung
          BY <2>4 DEF Collected
        <4> QED
          BY <1>1, <4>1, <4>2 DEF IInv, CurrentRuns
      <3>2. CASE p # c
        BY <2>0, <2>4, <3>2 DEF Collected, Zombie, Used
      <3> QED
        BY <3>1, <3>2
    <2> QED
      BY <1>1, <2>1, <2>2, <2>3, <2>4, StepKinds
  <1>2. IInv /\ [Next]_vars => [ZombieStep]_vars
    BY <1>1
  <1> QED
    BY <1>2, Invariance, PTL DEF Spec, ZombieUntilReaped

-----------------------------------------------------------------------------
(* No family of processes is closed under parents: a birth names a parent   *)
(* that existed, a death hands the children to init, which is in no family. *)
THEOREM NoCycle == Spec => []NoParentCycle
  <1>1. Init => NoParentCycle
    BY DEF Init, NoParentCycle, Used
  <1>2. ASSUME IInv, NoParentCycle, [Next]_vars PROVE NoParentCycle'
    <2> SUFFICES ASSUME NEW S \in SUBSET {p \in Slots \ {0} : Used(p)'}, S # {}
                 PROVE  \E p \in S : parent_pid'[p] \notin S
      BY DEF NoParentCycle
    <2>0. is_free \in [Slots -> {0, 1}] /\ parent_pid \in [Slots -> Slots \cup {NoPid}]
      BY <1>2 DEF IInv, TypeOK
    <2>1. CASE Quiet
      BY <1>2, <2>1 DEF Quiet, NoParentCycle, Used
    <2>2. CASE Died
      <3>1. PICK p \in S : parent_pid[p] \notin S
        BY <1>2, <2>2 DEF Died, NoParentCycle, Used
      <3>2. parent_pid'[p] \in {0, parent_pid[p]} /\ 0 \notin S
        BY <2>2 DEF Died, Adopted
      <3> QED
        BY <3>1, <3>2
    <2>3. ASSUME NEW c \in Slots, Born(c)
          PROVE  \E p \in S : parent_pid'[p] \notin S
      <3>1. CASE S \subseteq {c}
        <4>1. c \in S /\ parent_pid'[c] = current /\ current # c
          BY <2>0, <2>3, <3>1 DEF Born
        <4> QED
          BY <3>1, <4>1
      <3>2. CASE ~(S \subseteq {c})
        <4> DEFINE R == S \ {c}
        <4>1. R \in SUBSET {p \in Slots \ {0} : Used(p)} /\ R # {}
          BY <2>0, <2>3, <3>2 DEF Born, Used
        <4>2. PICK p \in R : parent_pid[p] \notin R
          BY <1>2, <4>1 DEF NoParentCycle
        <4>3. parent_pid[p] # c
          BY <1>2, <2>3, <4>1, <4>2 DEF IInv, ParentAlive, Live, Born
        <4>4. parent_pid'[p] = parent_pid[p]
          BY <2>0, <2>3, <4>2 DEF Born
        <4> QED
          BY <4>2, <4>3, <4>4
      <3> QED
        BY <3>1, <3>2
    <2>4. ASSUME NEW c \in Slots, Collected(c)
          PROVE  \E p \in S : parent_pid'[p] \notin S
      <3>1. S \in SUBSET {p \in Slots \ {0} : Used(p)}
        BY <2>0, <2>4 DEF Collected, Used
      <3> QED
        BY <1>2, <2>4, <3>1 DEF Collected, NoParentCycle
    <2> QED
      BY <1>2, <2>1, <2>2, <2>3, <2>4, StepKinds
  <1>3. NoParentCycle /\ IInv /\ [Next]_vars => NoParentCycle'
    BY <1>2
  <1> QED
    BY <1>1, <1>3, Invariance, PTL DEF Spec

-----------------------------------------------------------------------------
(* The process table implements the life cycle that ProcessLife promises:   *)
(* a birth is a Fork, a death an Exit, a collection a Reap.                 *)
THEOREM TableImplementsLife == Spec => ImplementsLife
  <1> DEFINE life == [p \in Slots |-> IF ~Used(p) THEN "free"
                                     ELSE IF status[p] = TASK_ZOMBIE THEN "zombie" ELSE "live"]
             parent == [p \in Slots |-> IF Used(p) THEN parent_pid[p] ELSE NoPid]
  <1>1. Init => Life!Init
    BY DEF Init, Life!Init, Used, TASK_RUNNING, TASK_ZOMBIE
  <1>2. ASSUME IInv, [Next]_vars PROVE [Life!Next]_<<life, parent>>
    <2>0. /\ is_free \in [Slots -> {0, 1}] /\ current \in Slots
          /\ parent_pid \in [Slots -> Slots \cup {NoPid}]
      BY <1>2 DEF IInv, TypeOK
    <2>1. ~hung => life[current] = "live"
      BY <1>2, <2>0 DEF IInv, CurrentRuns, TASK_RUNNING, TASK_ZOMBIE
    <2>2. \A p \in Slots :
             /\ life[p] = "free" <=> ~Used(p)
             /\ life[p] = "zombie" <=> Zombie(p)
             /\ life'[p] = "free" <=> ~Used(p)'
             /\ life'[p] = "zombie" <=> Zombie(p)'
             /\ life[p] \in {"free", "live", "zombie"} /\ life'[p] \in {"free", "live", "zombie"}
      BY DEF Zombie
    <2>3. \A p \in Slots : /\ parent[p] = IF Used(p) THEN parent_pid[p] ELSE NoPid
                           /\ parent'[p] = IF Used(p)' THEN parent_pid'[p] ELSE NoPid
      OBVIOUS
    <2>4. /\ life = [p \in Slots |-> life[p]] /\ life' = [p \in Slots |-> life'[p]]
          /\ parent = [p \in Slots |-> parent[p]] /\ parent' = [p \in Slots |-> parent'[p]]
      OBVIOUS
    <2> HIDE DEF life, parent
    <2>5. CASE Quiet
      <3>1. \A p \in Slots : life'[p] = life[p] /\ parent'[p] = parent[p]
        BY <2>2, <2>3, <2>5 DEF Quiet, Used
      <3>2. life' = life /\ parent' = parent
        BY <2>4, <3>1
      <3> QED
        BY <3>2 DEF life, parent
    <2>6. ASSUME NEW c \in Slots, Born(c) PROVE Life!Fork(current, c)
      <3>1. life[c] = "free" /\ life[current] = "live"
        BY <2>1, <2>2, <2>6 DEF Born
      <3>2. life' = [life EXCEPT ![c] = "live"]
        <4>1. \A p \in Slots \ {c} : life'[p] = life[p]
          BY <2>0, <2>2, <2>6 DEF Born, Used
        <4>2. life'[c] = "live"
          BY <2>0, <2>2, <2>6 DEF Born, Used
        <4> QED
          BY <2>4, <4>1, <4>2
      <3>3. parent' = [parent EXCEPT ![c] = current]
        <4>1. \A p \in Slots \ {c} : parent'[p] = parent[p]
          BY <2>0, <2>3, <2>6 DEF Born, Used
        <4>2. parent'[c] = current
          BY <2>0, <2>3, <2>6 DEF Born, Used
        <4> QED
          BY <2>4, <4>1, <4>2
      <3> QED
        BY <3>1, <3>2, <3>3 DEF Life!Fork, life, parent
    <2>7. CASE Died
      <3>1. current # 0 /\ life[current] = "live"
        BY <2>1, <2>7 DEF Died
      <3>2. life' = [life EXCEPT ![current] = "zombie"]
        <4>1. \A p \in Slots \ {current} : life'[p] = life[p]
          BY <2>2, <2>7 DEF Died, Used
        <4>2. life'[current] = "zombie"
          BY <2>0, <2>7 DEF Died, Used, life
        <4> QED
          BY <2>4, <4>1, <4>2
      <3>3. parent' = [p \in Slots |-> IF parent[p] = current THEN 0 ELSE parent[p]]
        <4>1. NoPid # current
          BY <2>0 DEF NoPid, Slots
        <4>2. \A p \in Slots : parent'[p] = IF parent[p] = current THEN 0 ELSE parent[p]
          BY <2>3, <2>7, <4>1 DEF Died, Used, Adopted
        <4> QED
          BY <2>4, <4>2
      <3>4. PICK me \in Slots : me = current
        BY <2>0
      <3>5. Life!Exit(me)
        BY <3>1, <3>2, <3>3, <3>4 DEF Life!Exit, life, parent
      <3>6. Life!Next
        BY <3>4, <3>5, Zenon DEF Life!Next
      <3> QED
        BY <3>6
    <2>8. ASSUME NEW c \in Slots, Collected(c) PROVE Life!Reap(current, c)
      <3>1. life[c] = "zombie" /\ life[current] = "live" /\ parent[c] = current
        BY <2>1, <2>2, <2>3, <2>8 DEF Collected, Zombie
      <3>2. life' = [life EXCEPT ![c] = "free"]
        <4>1. \A p \in Slots \ {c} : life'[p] = life[p]
          BY <2>0, <2>2, <2>8 DEF Collected, Used, Zombie
        <4>2. life'[c] = "free"
          BY <2>0, <2>2, <2>8 DEF Collected, Used
        <4> QED
          BY <2>4, <4>1, <4>2
      <3>3. parent' = [parent EXCEPT ![c] = NoPid]
        <4>1. \A p \in Slots \ {c} : parent'[p] = parent[p]
          BY <2>0, <2>3, <2>8 DEF Collected, Used
        <4>2. parent'[c] = NoPid
          BY <2>0, <2>3, <2>8 DEF Collected, Used
        <4> QED
          BY <2>4, <4>1, <4>2
      <3> QED
        BY <3>1, <3>2, <3>3 DEF Life!Reap, life, parent
    <2>9. ASSUME NEW c \in Slots, Born(c) \/ Collected(c) PROVE Life!Next
      <3>1. Life!Fork(current, c) \/ Life!Reap(current, c)
        BY <2>6, <2>8, <2>9
      <3> QED
        BY <2>0, <3>1, Zenon DEF Life!Next
    <2> QED
      BY <1>2, <2>5, <2>7, <2>9, StepKinds
  <1>3. IInv /\ [Next]_vars => [Life!Next]_<<life, parent>>
    BY <1>2
  <1> QED
    BY <1>1, <1>3, Invariance, PTL DEF Spec, ImplementsLife, Life!Spec
=============================================================================
