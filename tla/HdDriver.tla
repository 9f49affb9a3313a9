------------------------------ MODULE HdDriver ------------------------------
(***************************************************************************)
(* The disk driver (kernel/hd.c) and the drive it talks to.  A process     *)
(* puts its request, which lies on its own stack, in current_request,      *)
(* gives the drive a command and spins until an interrupt marks it         *)
(* running.  do_read moves all sectors on the first interrupt, do_write    *)
(* one for each.  The kernel is not preempted: one request at a time.      *)
(*                                                                         *)
(* The drive, the interrupt line and the 8259 are not the repository's.    *)
(* The drive raises its line when a sector is ready, and when it has taken *)
(* one; reading the status or a new command lowers the line; the 8259      *)
(* remembers a rise.  The handler runs with interrupts on and its own      *)
(* masked (hwint_slave in kernel.asm).  The drive takes its time: waitfor  *)
(* may give up on it, and the next sector of a read may not be there when  *)
(* do_read takes it, which looks at nothing.  From then on (late) garbage  *)
(* was read, and interrupts come that the driver no longer expects.        *)
(***************************************************************************)
EXTENDS Integers, Sequences

CONSTANTS
    Sectors,        \* of the disk, by number
    SECTOR_SIZE,
    Data,           \* what a caller may write
    Old, Garbage,   \* what the disk holds at first; what the port gives unasked
    ReadSizes, WriteSizes   \* bytes that callers ask for

ASSUME HdDriverAssumption ==
    /\ Sectors \subseteq Nat /\ \A s, t \in Sectors : s .. t \subseteq Sectors
    /\ SECTOR_SIZE \in Nat \ {0}
    /\ ReadSizes \subseteq Nat \ {0} /\ WriteSizes \subseteq Nat \ {0}

VARIABLES
    pc,         \* of the caller: run; queued, asked (in do_hd_request); bsy or drq (in
                \* waitfor); write, done (in do_write); spin (interrupt_wait); wild
    handler,    \* of the interrupt: none, read (between sectors), drq (in waitfor)
    req,        \* the request on the caller's stack
    current,    \* current_request points to it
    status,     \* of the caller
    timeout,    \* a waitfor has given up
    late,       \* do_read has taken a sector that was not there
    drive, disk,\* the drive: what it does, what it holds
    intrq, irr  \* the interrupt line, and what the 8259 remembers

driver == <<pc, handler, req, current, status, timeout, late>>
vars == <<pc, handler, req, current, status, timeout, late, drive, disk, intrq, irr>>

SectorsOf(bytes) == (bytes + SECTOR_SIZE - 1) \div SECTOR_SIZE
Least(a, b) == IF a < b THEN a ELSE b

Init ==
    /\ pc = "run" /\ handler = "none"
    /\ req = [cmd |-> "read", sector |-> 0, count |-> 0, left |-> 0, sent |-> 0,
              asked |-> 0, bytes |-> 0, data |-> Old, buffer |-> <<>>]
    /\ current = FALSE /\ status = "running" /\ timeout = FALSE /\ late = FALSE
    /\ drive = [phase |-> "idle", cmd |-> "none", at |-> 0, left |-> 0]
    /\ disk = [s \in Sectors |-> <<Old, s>>]
    /\ intrq = FALSE /\ irr = FALSE

-----------------------------------------------------------------------------
(* The line: a rise is remembered, reading the status lowers it.           *)
Raise == intrq' = TRUE /\ irr' = (irr \/ ~intrq)
ReadStatus == intrq' = FALSE /\ UNCHANGED irr
Quiet == UNCHANGED <<intrq, irr>>

(* The drive ends being busy: a sector is there to be read; the first      *)
(* sector of a write may be sent; another one may; the last was taken.     *)
DriveReady ==
    /\ drive.phase = "busy"
    /\ drive' = [drive EXCEPT !.phase = IF drive.left > 0 THEN "drq" ELSE "idle"]
    /\ IF drive.cmd \in {"write", "none"} THEN Quiet ELSE Raise
    /\ UNCHANGED <<driver, disk>>

(* The drive is busy by itself, and may be found so by the next call.      *)
DriveRests ==
    /\ pc = "run" /\ drive.phase = "idle"
    /\ drive' = [drive EXCEPT !.phase = "busy", !.cmd = "none"]
    /\ UNCHANGED <<driver, disk, intrq, irr>>

(* What the drive makes of a sector read from its data register, and       *)
(* written to it.  The next sector to be read is there at once, or later.  *)
Gives == drive.phase = "drq" /\ drive.cmd = "read"
PortData == IF Gives THEN disk[drive.at] ELSE Garbage
port_read ==
    IF Gives
    THEN \E phase \in IF drive.left = 1 THEN {"idle"} ELSE {"drq", "busy"} :
            /\ drive' = [drive EXCEPT !.at = @ + 1, !.left = @ - 1, !.phase = phase]
            /\ IF phase = "drq" THEN Raise ELSE Quiet
    ELSE UNCHANGED drive /\ Quiet
port_write(data) ==
    IF drive.cmd # "read"
    THEN /\ drive' = [drive EXCEPT !.at = @ + 1, !.left = @ - 1,
                                   !.cmd = "written", !.phase = "busy"]
         /\ disk' = [disk EXCEPT ![drive.at] = data]
    ELSE UNCHANGED <<drive, disk>>

-----------------------------------------------------------------------------
(* hd_rw: the request is queued before the drive is asked whether it is    *)
(* free.  Its hd_callback is not set yet.                                  *)
hd_rw(cmd, sector, bytes, data) ==
    /\ pc = "run" /\ pc' = "queued" /\ handler = "none"
    /\ sector + SectorsOf(bytes) - 1 \in Sectors
    /\ req' = [cmd |-> cmd, sector |-> sector, count |-> SectorsOf(bytes),
               left |-> SectorsOf(bytes), sent |-> 0, asked |-> bytes, bytes |-> bytes,
               data |-> data, buffer |-> <<>>]
    /\ current' = TRUE
    /\ UNCHANGED <<handler, status, timeout, late, drive, disk, intrq, irr>>

(* The caller goes on only while no handler runs. *)
Caller(p) == pc = p /\ handler = "none"

(* do_hd_request: the command is made and the callback set, if no late     *)
(* interrupt has ended the request (a null pointer); then the caller is    *)
(* marked as waiting, whatever became of its request meanwhile.            *)
do_hd_request ==
    /\ Caller("queued") /\ pc' = IF current THEN "asked" ELSE "wild"
    /\ UNCHANGED <<handler, req, current, status, timeout, late, drive, disk, intrq, irr>>
do_hd_request_marks_Nobody ==           \* mutant: status is not set before the command
    /\ Caller("asked") /\ pc' = "bsy"
    /\ UNCHANGED <<handler, req, current, status, timeout, late, drive, disk, intrq, irr>>
do_hd_request_marks ==
    /\ Caller("asked") /\ pc' = "bsy"
    /\ status' = "interruptible"
    /\ UNCHANGED <<handler, req, current, timeout, late, drive, disk, intrq, irr>>

(* After hd_cmd_out, whether the command was given or not. *)
Commanded == pc' = IF req.cmd = "read" THEN "spin" ELSE "write"

(* hd_cmd_out: once the drive is not busy, the command.                    *)
hd_cmd_out ==
    /\ Caller("bsy") /\ drive.phase # "busy"
    /\ drive' = [phase |-> "busy", cmd |-> req.cmd, at |-> req.sector, left |-> req.count]
    /\ ReadStatus
    /\ Commanded
    /\ UNCHANGED <<handler, req, current, status, timeout, late, disk>>

(* A look at the status that does not end waitfor lowers the line, too.    *)
waitfor_look ==
    /\ \/ Caller("bsy") /\ drive.phase = "busy"
       \/ Caller("drq") /\ drive.phase # "drq"
       \/ handler = "drq" /\ drive.phase # "drq"
    /\ ReadStatus
    /\ UNCHANGED <<driver, drive, disk>>

(* The request is done: the waiter runs, the next request is current.      *)
Done_KeepsRequest ==                    \* mutant: current_request is not moved on
    status' = "running" /\ UNCHANGED current
Done_KeepsWaiting ==                    \* mutant: nobody is woken
    current' = FALSE /\ UNCHANGED status
Done == status' = "running" /\ current' = FALSE

(* waitfor gives up.  The command is not given, and a write still tries to *)
(* send its first sector; or, in do_write, the sector is not sent though   *)
(* it is counted.  Nobody is told.                                         *)
GivesUp ==
    \/ Caller("bsy") /\ drive.phase = "busy" /\ Commanded /\ UNCHANGED handler
    \/ Caller("drq") /\ drive.phase # "drq" /\ pc' = "spin" /\ UNCHANGED handler
    \/ handler = "drq" /\ drive.phase # "drq" /\ handler' = "none" /\ UNCHANGED pc
waitfor_gives_up_Ends ==                \* mutant: the request ends with the wait for DRQ
    /\ GivesUp /\ timeout' = TRUE /\ ReadStatus
    /\ IF pc = "bsy" THEN UNCHANGED <<current, status>> ELSE Done
    /\ UNCHANGED <<req, late, drive, disk>>
waitfor_gives_up ==
    /\ GivesUp /\ timeout' = TRUE /\ ReadStatus
    /\ UNCHANGED <<req, current, status, late, drive, disk>>

(* do_write counts the sector before it waits.                             *)
Counted == [req EXCEPT !.left = @ - 1]

(* do_write, called after the command: it counts the first sector.  When   *)
(* late interrupts have ended the request there is none (a null pointer),  *)
(* and when they have counted all sectors the caller ends it.              *)
do_write ==
    /\ Caller("write")
    /\ \/ /\ ~current /\ pc' = "wild"
          /\ UNCHANGED req
       \/ /\ current /\ pc' = IF req.left # 0 THEN "drq" ELSE "done"
          /\ req' = Counted
    /\ UNCHANGED <<handler, current, status, timeout, late, drive, disk, intrq, irr>>
do_write_ends ==
    /\ Caller("done") /\ pc' = "spin" /\ Done
    /\ UNCHANGED <<handler, req, timeout, late, drive, disk, intrq, irr>>

(* do_write, once the drive takes data: the next sector of the buffer.     *)
NextOut == <<req.data, req.sent + 1>>
Sent == [req EXCEPT !.sent = @ + 1, !.bytes = @ - Least(SECTOR_SIZE, @)]

do_write_send ==
    /\ drive.phase = "drq"
    /\ \/ /\ Caller("drq") /\ pc' = "spin" /\ UNCHANGED handler
       \/ /\ handler = "drq" /\ handler' = "none" /\ UNCHANGED pc
    /\ port_write(NextOut)
    /\ req' = Sent
    /\ ReadStatus
    /\ UNCHANGED <<current, status, timeout, late>>

(* The interrupt: "no hd request", or do_read, or do_write.  Before the    *)
(* callback is set it is what lay on the stack: often that of an earlier   *)
(* request.                                                                *)
Callbacks == IF pc = "queued" THEN {"read", "write", "wild"} ELSE {req.cmd}

hd_handler ==
    /\ irr /\ irr' = FALSE /\ handler = "none" /\ pc # "wild"
    /\ \/ /\ ~current
          /\ UNCHANGED <<pc, handler, req, current, status>>
       \/ /\ current /\ "wild" \in Callbacks /\ pc' = "wild"
          /\ UNCHANGED <<handler, req, current, status>>
       \/ /\ current /\ "read" \in Callbacks
          /\ handler' = "read"
          /\ UNCHANGED <<pc, req, current, status>>
       \/ /\ current /\ "write" \in Callbacks /\ req.left # 0
          /\ handler' = "drq" /\ req' = Counted
          /\ UNCHANGED <<pc, current, status>>
       \/ /\ current /\ "write" \in Callbacks /\ req.left = 0
          /\ Done /\ req' = Counted
          /\ UNCHANGED <<pc, handler>>
    /\ UNCHANGED <<timeout, late, drive, disk, intrq>>

(* do_read moves sector after sector, looking at nothing.  The length of   *)
(* each is computed once.                                                  *)
Piece == [data |-> PortData, len |-> Least(SECTOR_SIZE, req.asked)]
Moved_Backwards == [Counted EXCEPT      \* mutant: the pointer is not moved on
    !.buffer = <<Piece>> \o @, !.bytes = @ - Piece.len]
Moved == [Counted EXCEPT !.buffer = Append(@, Piece), !.bytes = @ - Piece.len]

do_read ==
    /\ handler = "read"
    /\ \/ /\ req.left # 0
          /\ req' = Moved
          /\ port_read
          /\ late' = (late \/ ~Gives)
          /\ UNCHANGED <<handler, current, status>>
       \/ /\ req.left = 0
          /\ handler' = "none" /\ Done /\ req' = Counted
          /\ UNCHANGED <<late, drive, intrq, irr>>
    /\ UNCHANGED <<pc, timeout, disk>>

(* interrupt_wait: the caller spins, or returns from hd_rw.                *)
interrupt_wait ==
    /\ Caller("spin")
    /\ pc' = IF status = "running" THEN "run" ELSE "spin"
    /\ UNCHANGED <<handler, req, current, status, timeout, late, drive, disk, intrq, irr>>

(* A null pointer was followed, or a pointer that was never set: what the  *)
(* machine does then is left open.                                         *)
wild == pc = "wild" /\ UNCHANGED vars

(* The steps of the kernel: of the caller, and of interrupts.              *)
Waiter ==
    \/ do_hd_request \/ do_hd_request_marks \/ hd_cmd_out
    \/ do_write \/ do_write_ends \/ do_write_send \/ interrupt_wait
Interrupt == hd_handler \/ do_read

Next ==
    \/ \E s \in Sectors : \/ \E b \in ReadSizes : hd_rw("read", s, b, Old)
                          \/ \E b \in WriteSizes, d \in Data : hd_rw("write", s, b, d)
    \/ Waiter \/ Interrupt
    \/ waitfor_look \/ waitfor_gives_up
    \/ DriveReady \/ DriveRests
    \/ wild

(* The processor goes on, and the drive answers some day; perhaps too late. *)
Fairness == WF_vars(Waiter) /\ WF_vars(Interrupt) /\ WF_vars(DriveReady)

Spec == Init /\ [][Next]_vars /\ Fairness
-----------------------------------------------------------------------------
Returning == pc = "spin" /\ handler = "none" /\ status = "running"
Range(r) == r.sector .. r.sector + r.count - 1

(* A read that returns has filled the buffer with its sectors, in order,   *)
(* and with no byte more than was asked for (do_read, 186-217), as long as *)
(* each sector was there when do_read took it.  It says so for whole       *)
(* sectors and for less than one: the length of a longer read is not cut   *)
(* in its last sector, although hd.c:185 says that it is.                  *)
Cut(bytes) == bytes < SECTOR_SIZE \/ bytes % SECTOR_SIZE = 0

ReadsRight ==
    Returning /\ ~late /\ req.cmd = "read" /\ Cut(req.asked) =>
        /\ req.bytes = 0
        /\ req.buffer = [i \in 1 .. req.count |->
              [data |-> disk[req.sector + i - 1],
               len  |-> Least(SECTOR_SIZE, req.asked - (i - 1) * SECTOR_SIZE)]]

(* A write that returns has left its data on the disk, sector for sector,  *)
(* though it is sent from the caller first and then from interrupts        *)
(* (do_write, 220-244), and reads may come before it, until do_read takes  *)
(* a sector that is not there.                                             *)
WritesRight ==
    Returning /\ ~late /\ req.cmd = "write" =>
        \A i \in 1 .. req.count : disk[req.sector + i - 1] = <<req.data, i>>

(* current_request never points to the stack of a call that has returned:  *)
(* an interrupt, however late, finds the request of a waiting caller or    *)
(* none (140-151).  What a wild jump does is left open.                    *)
RequestAlive == current => pc # "run"

(* No sector outside of the request that is being written ever changes,    *)
(* though a write whose wait for the drive ended without the command still *)
(* tries to send (100-104, 180-181), and the drive may take data long      *)
(* after a waitfor has given up; until do_read takes a sector that is not  *)
(* there.                                                                  *)
WritesInside ==
    [][\A s \in Sectors : disk'[s] # disk[s] /\ ~late =>
           req.cmd = "write" /\ s \in Range(req) /\ current]_vars

(* hd_rw returns, unless a waitfor has given up: then the caller spins for *)
(* ever, and with it the machine, as nothing preempts it (119-138).        *)
RequestReturns == (pc # "run") ~> (pc = "run" \/ timeout \/ late)
=============================================================================
