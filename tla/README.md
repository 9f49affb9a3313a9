# A verification of JayOS in TLA+

JayOS is a small i386 kernel: processes with fork, exec, exit and waitpid, paging
with copy on write, two allocators, terminals, an ATA disk driver and a virtual
file system with FAT below it. This directory models its core logic, checks the
models with TLC on small instances, and proves the most important results with
TLAPS for every size. Definitions keep the names of the source; `PROJECT.json`
maps each to its lines.

## 1. Inventory

| part | source | state | operations | modelled |
|---|---|---|---|---|
| process table, scheduler, signals, clock | `kernel/process.c`, `schedule.c`, `start.c` | `process_table`, `current_process`, `ticks` | fork, exit, waitpid, pause, alarm, `schedule`, `clock_handler` | `Process`, `ProcessLife` |
| tables of open files | `fs/fs.c`, `process.c` | `file_table` per process, `f_desc_table`, the `used_count`s | open, close, dup, fork, exit | `FileTable` |
| paging | `mm/page.c`, `mm.c`, `process.c` (fork, execve) | `mem_map`, page directories and tables | `get_free_page`, `free_page`, `copy_page`, `do_wp_page`, `clear_page_tables`, execve | `Paging` |
| kernel heap | `mm/malloc.c` | `bucket_dir` chains, `free_bucket_desc` | `kmalloc`, `kfree` | `KMalloc`, `Heap` |
| byte heap | `mm/mm.c` | bitmap `mmap` | `vmalloc`, `vfree` | `VMalloc`, `Heap` |
| disk driver | `kernel/hd.c` | `current_request` list, `tail`, the drive | `add_request`, `do_hd_request`, `hd_handler`, `do_read`, `do_write`, `interrupt_wait` | `HdDriver` |
| terminals, console | `kernel/tty.c` | input ring, cursor, start address | `tty_input`, `do_read`, `tty_write`, `console_out_char`, scrolling | `Terminal`, `Console` |
| keyboard | `kernel/keyboard.c` | scan-code ring, modifiers, LEDs | `keyboard_handler`, `keyboard_read` | no: see section 13 |
| interrupt and system call entry | `kernel/kernel.asm` | `is_in_ring0`, stacks, interrupt flag | `save`, `restart`, `hwint*`, `sys_call`, `page_fault` | `InterruptEntry` |
| virtual file system | `fs/fs.c`, `dev.c`, `rootfs`, `devfs` | tree of `dir_entry`, mounts, `root` and `pwd` | `_namei`, `lookup`, mount, mkdir, chroot, chdir | `Vfs`, `NameSpace` |
| FAT | `fs/fat/fat.c` | the disk image | FAT12 chains, directory scan, read | its lookup, in `Vfs` |
| user library | `lib/` | none | system call stubs, formatting, strings | used to see which arguments reach the kernel |
| set-up code, boot loaders | `kernel/interrupt.c`, `global.c`, `boot/` | tables written once | | no: straight-line code before any concurrency |
| stubs and unbuilt files | `ext2.c`, `fd.c`, `keyboard1.c`, `signal.c`, `namei.c`, `k1.asm` | | | no: not reached or not built |
| user programs | `program/` | | | they are the environment: any call in any order |

**How the parts interact.** A program enters the kernel by `int 0x80` (`sys_call`)
or is interrupted by the clock, the keyboard or the disk. `is_in_ring0` counts
nested entries from -1. `schedule()` returns at once unless it is 0, so an
interrupt that arrives in the kernel never switches processes: system calls are
atomic between their own calls of `schedule`. The only calls that give the
processor away are pause, waitpid (through `sys_pause`) and exit (through
`ret_from_sys_call`, which schedules when the caller is no longer
`TASK_RUNNING`). Terminal and disk waits spin inside the kernel.
fork and exit tie everything together: they copy and drop the page tables, the
open files and the place in the family tree.

**What is hard.** Wake-ups between the scan of waitpid and its sleep; an exit that
writes into the parent's slot without a check; orphans and the reuse of slots;
alarms against a wrapping tick counter; no idle task; reference counts through
dup, fork, close and exit; copy-on-write counts through fork, exec and exit; rings
shared with interrupt handlers; a disk that never answers. The list, line by line,
is under `hazards` in `PROJECT.json`.

**What makes each part correct.**

- *processes*: parents are alive and acyclic, zombies stay until collected, no
  lost wake-up, nobody sleeps on a signal, nobody starves, no hang by waiting only;
- *open files*: both reference counts are exact, only the living hold files, an fd
  keeps its file;
- *paging*: a frame's count is the number of its mappings, a process never sees
  another's writes, freed frames are mapped nowhere;
- *heaps*: blocks handed out are disjoint and inside the heap, a page is given
  back only when nothing in it is in use, and nothing is lost;
- *disk*: data reaches the sectors asked for, no interrupt meets the request of a
  call that has returned, and a call returns unless a busy wait gave up;
- *terminals*: no character is doubled or out of order and none is lost but by the
  race on the count; the cursor stays in its memory and on the screen;
- *interrupt entry*: the saved frame is where the return expects it, the counter
  matches the nesting, and the windows where that fails are known;
- *file system*: the cache of entries is invisible: what a path names depends on
  what was made and mounted, not on earlier lookups.

## 2. Modules and plan

| # | module | what | status |
|---|---|---|---|
| 1 | `Process`, `ProcessLife`, `MCProcess`, `ProcessProofs` | process table; its abstract specification; model checking; proofs | done |
| 2 | `FileTable`, `MCFileTable`, `FileTableProofs` | open files over `ProcessLife` | done |
| 3 | `Paging` (over `ProcessLife`), `MCPaging`, `PagingProofs` | frames, `copy_page`, `do_wp_page`, execve, exit; isolation of pages | done |
| 4 | `KMalloc`, `Heap`, `MCKMalloc`, `HeapProofs` | buckets and descriptors over frames shared with paging; implements a heap of disjoint blocks | done |
| 5 | `VMalloc`, `MCVMalloc`, `HeapProofs` | first fit over a bitmap; implements the same `Heap`; proved in one module with the other heap | done |
| 6 | `HdDriver`, `MCHdDriver`, `HdProofs` | queue, busy waits, interrupts, and a drive that answers late or never | done |
| 7 | `Console`, `Terminal`, `MCTerminal`, `TerminalProofs` | the ring at load and store granularity; cursor and scrolling | done |
| 8 | `InterruptEntry`, `MCInterruptEntry`, `InterruptProofs` | `is_in_ring0`, interrupt flag, nested frames | done |
| 9 | `Vfs`, `NameSpace`, `MCVfs`, `VfsProofs` | tree, mounts, lookup, chroot; implements a name space without a cache | done |
| 10 | `Fat`, `Keyboard` | FAT12 chains against a reference; decoder of scan codes | after these |

`FileTable` takes births and deaths from `ProcessLife` (`INSTANCE`), not from
`Process`: since `Process` is shown to implement `ProcessLife`, the file tables
need no scheduler, which keeps their state space small and their proof separate.
`Paging` does the same. `Terminal` extends `Console`; both heaps are shown to
implement one `Heap`. What `InterruptEntry` shows is what the other modules take for
granted: that a handler is atomic between two calls of `schedule`. No module
that is proved about uses a `RECURSIVE` operator.

## 3. Process

The state is `process_table` field by field (`is_free`, which is 1 for a *used*
slot, `status`, `signal`, `alarm`, `parent_pid`), `current`, `ticks`, and three
variables for what the machine keeps on stacks: `kstack`, where a slot that gave
the processor away continues (`restart`: in its program; `sys_pause`; or inside
`sys_waitpid`), `wait_pid`, the argument of that waitpid, and `hung`, the endless
loop of `schedule` with nothing runnable. `init_pc` follows the program of slot 0
(`start.c`), which forks once and then waits for ever; every other program may call
anything at any time. `flag` of `sys_waitpid`, which is never reset on the way back
to `repeat`, is an argument of `scan`.

| action | code |
|---|---|
| `clock_handler_user` | the clock interrupts a program: tick, then all of `schedule` |
| `clock_handler_kernel` | the clock interrupts the kernel, in a system call that is under way or in the spinning `schedule`: tick only |
| `sys_fork` | lowest free slot, the child a copy, pending signals and alarm included; a full table changes nothing |
| `sys_exit` | children handed to init, zombie, parent made runnable and given SIGCHLD, then `schedule` from `ret_from_sys_call` |
| `sys_pause`, `sys_pause_return` | the two sides of the sleep |
| `sys_alarm` | sum modulo 2^32 (`TICK_WORD`) |
| `sys_waitpid`, `sys_waitpid_resume` | the scan up to its result or its sleep; after the sleep, SIGCHLD taken off and the scan again, or EINTR |

Programs reach `alarm` with 0 seconds only through the library (its stub passes no
argument), but a program may issue the interrupt itself; `Seconds` is a parameter.

Left out of `Process`: memory and files of fork and exit, exit codes, and the
instructions of kernel entry and exit, which are atomic here (`InterruptEntry`). One call of
`schedule` reads `ticks` once; in the kernel a nested interrupt may count between
two slots of its loop, which moves an alarm by one tick.
`interruptible_sleep_on` and `wake_up` have no callers.

**Properties.** `TypeOK`; `CurrentRuns`; `ParentAlive` (what makes the unchecked
write of `sys_exit` safe); `WaiterHasChild` (with a stale `flag` a parent without
children would sleep for ever); `NoLostWakeup`; `NoSleepOnSignal`;
`HangNeedsPause`; `NoParentCycle`; `ZombieUntilReaped` (an action property);
`NoStarvation` and `WaitedZombieReaped` (liveness); `ImplementsLife` (refinement:
`ProcessLife` knows free, live and zombie slots and who may collect whom).

Two behaviours of the code shaped the statements. Orphans that are zombies already
are handed to init without a wake-up, so a *sleeping* init is excepted in
`NoLostWakeup` and `WaitedZombieReaped`. And no signal but SIGCHLD is ever cleared,
so after one alarm waitpid keeps failing with EINTR and pause no longer blocks;
an alarm whose tick is `MAX_TICKS - 1` or later never fires. The model does all of
this; the repository promises nothing else, so no property is about it.

**Fairness.** Weak fairness of `clock_handler_user` (the clock keeps interrupting,
and some interrupt finds the machine in a program) and of the two return actions
(kernel code that has the processor runs on: `schedule` cannot take it away).
Nothing is assumed of programs: they may loop for ever, and need not exit, wait or
collect. The first assumption does say that system calls end: a terminal read spins
inside the kernel until Enter is typed, and `schedule` runs nobody else meanwhile.

## 4. FileTable

`file_table` maps places (a process and an fd) to entries of `f_desc_table`;
`inode`, `used_count` and `i_used_count` are the fields the counts live in. One
action per call: `sys_open` (lowest fd, first descriptor *without an inode*),
`sys_close`, `sys_dup`, `sys_fork` (copies a row and counts every place of it),
`sys_exit` (closes every open fd), `sys_waitpid` (frees the slot; leaves the files).
A path is the inode it resolves to; failing calls change nothing. Programs close
and dup only fds that are open: the code tests nothing and follows a null pointer
for others.

**Properties.** `TypeOK` (no count below zero); `HoldersAlive` (a process that
exited, and a slot that will be handed out again, hold nothing; a descriptor held
has an inode); `DescCounts` and `InodeCounts` (each count is the number of places
that lead to its target); `FdKeepsFile` (an fd that is kept names the same file,
whatever others do).

**A finding.** `sys_close` never resets the inode of a descriptor and `sys_open`
looks for one without, so an entry is never used twice: after 2048 opens since boot
every open fails with "f_Desc_table is full" (`fs.c:70`) with no file open. Run
`file_full` shows a table that is full while an entry's count is 0.

## 5. Paging

The user half of a page directory has two entries in use, the program's and the
stack's. `used` and `count` are `mem_map`; `entry` is the directory of each slot and
`page_dir` its frame, which stays with the slot for its next process; `table` is
what each frame reads as when it serves as a page table. That is a variable of its
own because nothing clears a frame: execve and fork build tables over what an
earlier table, or a kernel stack (`Residue`), left there, and fork shares and counts
leftovers like any entry. `owns` is what a program was given, and programs touch
nothing else.

| action | code |
|---|---|
| `sys_fork` | a directory unless the slot has one, `copy_page` (tables, sharing read-only, counts), the kernel stack |
| `do_wp_page` | the fault of a write to a read-only entry: the last sharer becomes writer, or the page is copied |
| `sys_execve` | tables given back, then a table and pages of the program and of the stack; only the stack page is counted |
| `sys_exit` | tables and kernel stack given back; the directory, its entries and the pages stay |
| `sys_waitpid` | the slot is free |

Frames are numbers because `get_free_page` takes the lowest, and the order in which
one call takes several is the code's.

**Properties.** `TypeOK` (no unsigned count is taken below zero); `OneRole` (a frame
is one directory, table, kernel stack or set of shared pages, and is in use);
`StackCounted` (a stack page is never counted less than it is shared);
`StackPrivate` (a shared stack page is read-only for all). That they hold with
leftovers in every table, and with exits that take nothing off a count, is what the
run is for: leftovers only push counts up, and pages are never given back.

**A finding.** Program pages start with count 0 in execve, so after one fork their
count is 1 with two owners, and the first writer writes in place (`page.c:186`):
the other process sees it, although "child is a copy of the parent"
(`process.c:148`). Run `paging_copy` shows it in four steps.

Left out: memory running out (`get_free_page` returns -1 and the callers go on; the
actions need their frames), the frames `kmalloc` takes from the same map, leftovers
that name no frame of memory, programs of several segments or larger than 4 MB,
execve failing before it changes anything. Frames beyond the kernel are clear at
boot.

## 6. KMalloc and VMalloc

`Heap` says what both allocators promise: a block handed out shares no byte with one
still held, and leaves only by being freed.

`KMalloc` has the chains of `bucket_dir` as sets of descriptors, `free_bucket_desc`,
and of each descriptor its `page`, `freeptr` (the offsets on its free list) and
`refcnt`; `used` is `mem_map`, and `others` the frames that paging has of it.

| action | code |
|---|---|
| `kmalloc` | the bucket size; `kmalloc_old` from a bucket with room, `kmalloc_new` with a new page, and before it a page of descriptors if none is left (`init_bucket_desc`) |
| `kfree` | the search upwards from the size given, the block back on its list, and with the last one the page back to paging and the descriptor to `free_bucket_desc` (`Put`) |
| `get_free_page`, `free_page` | paging's use of the same frames |

The lists are last in, first out in the code and `get_free_page` takes the lowest
frame; here any member may come next, which includes what the code does. Callers give
`kfree` any size up to the length they asked for: those of the repository give that
length, but for `fat.c:283` and `fat.c:324`, which free two sectors with the size of
one. A size below the length only makes the search start earlier; one above it may
panic, and no caller gives one. A `kmalloc` that finds no frame is left out: its test for that never succeeds (`__va(-1)` is not
0), and it goes on with an address that is no frame.

*Properties.* `FramesAccounted` (frames in use are exactly paging's, the descriptors'
and the buckets'; every descriptor is on one list), `BlocksAccounted` (each place of
a bucket is free or held, and the count is that of those held), `KfreeFinds` (no
panic, for each of those sizes), `HeapSpec` (refinement).

`VMalloc` is the bitmap, a block a set of bytes. `Start` is the value of `start_p`
when the search ends, with or without a fit; then `vmalloc` sets the bits before it
looks whether the block lies in the heap. If no run fits, `start_p` is what follows
the last bit set; the test is on that start alone, so a block that begins in the heap is
handed out although it runs over the end. `boot` is what memory held at address 0 when
`mmap` was filled. *Properties.* `BitsAccounted`, `ByteHeapSpec`.

## 7. HdDriver

One caller at a time, since nothing preempts the kernel. `pc` is where the caller is:
in `do_hd_request` with the callback not set yet (`queued`) or set (`asked`), in
`waitfor` (`bsy`, `drq`), in its own call of `do_write` (`write`, `done`), or spinning.
`handler` is where the interrupt is, `req` the request on the caller's stack, `current`
whether `current_request` points to it. An interrupt may come between any two steps of
the caller.

The drive, its line and the 8259 are not the repository's: the drive gets ready some
day, raises its line for a sector read or taken, and reading the status lowers it; a
rise stays with the 8259. The drive is free in three ways. It may be busy by itself when
a call comes (`DriveRests`), so that the wait for BSY can time out. A timeout may come at
any turn of a busy wait, and the drive may be ready afterwards all the same. And the next
sector of a read may be there at once or later, at its choice (`port_read`).

| action | code |
|---|---|
| `hd_rw` | the request, `add_request` |
| `do_hd_request`, `do_hd_request_marks` | the command and the callback (155-177); the caller marked as waiting (178) |
| `hd_cmd_out`, `waitfor_look`, `waitfor_gives_up` | the busy waits, each look at the status a step |
| `do_write`, `do_write_ends` | `do_write` as the caller calls it (180-182): it counts the sector, finds none left and ends the request, or finds no request at all |
| `do_write_send` | a sector sent, by the caller first, then by interrupts |
| `hd_handler`, `do_read` | the interrupt; a read moves all sectors at once, one step each |
| `interrupt_wait` | the caller's spin and return |
| `wild` | a callback not set yet was called (150), or `do_hd_request` or `do_write` went through a null pointer (155-158, 222-225): what follows is left open |

`late` is set when `do_read` takes a sector that is not there yet. It takes all of them
on the first interrupt without looking at the status (191-198), so a drive slower than
the copy gives it garbage; the sectors it did not take and their interrupts then meet
later requests. A late interrupt may end a read before its command, count a write's
sectors or end it before the caller has sent the first (the branches of `do_write` above),
or call a callback that is not set, which is then whatever lay on the stack, often
`do_read` or `do_write` of an earlier request (`Callbacks`): the model has these steps, but
past that point only `RequestAlive` is claimed. TLC finds `WritesRight` and
`WritesInside` violated without their `~late`.

*Properties.* `ReadsRight` and `WritesRight` (when the call returns), `WritesInside`
(an action property: no other sector ever changes, whatever wait has timed out, for BSY
or for DRQ); these three until a read is late. `RequestAlive`, also past that, but for
what a wild jump may do. `RequestReturns` (liveness, unless a busy wait gave up:
then nobody wakes the caller, and the machine stands still; or a read was late). Reads of
more than one sector that are not of whole sectors are excepted in `ReadsRight`: the
length to copy is computed once, before the loop, so the last sector is not cut as
`hd.c:185` says and the copy runs past the buffer. The run includes such reads for the
other properties.

*Coarse steps.* `do_write` loads `current_request` and counts the sector in one step, and
looks at DRQ and sends the sector in one step. Interrupts inside these two, which only a
late one can be, are left out, and with them the use of `hdbuf` by both.

*Fairness.* Weak fairness of the caller's steps and of the handler's (they run on;
nothing preempts them), and of the drive, which answers some day. None of timeouts, nor
of the drive being busy by itself.

## 8. Terminal and Console

`tty_input` runs in the keyboard's interrupt, `do_read` in a system call with
interrupts on, without a lock. The kernel is compiled without optimisation, so
`inbuf_count--` is a load and a store and the interrupt may come between: its
increment is then overwritten. Characters are numbered as they are accepted, so that
the ring's content says which one it is. `do_read` ignores how many bytes it is asked
for and ends at a line feed. `Console` has the cursor and the start address: a
character without room is dropped, and the loop of `console_out_char` scrolls until
the cursor is on the screen. One turn of the loop is enough, which `ConsoleOK` checks.

*Properties.* `NeverAhead` (the count never says more than there is), `InOrder`
(characters come in order, each once, until the count has lost an increment),
`LineIsRead` (liveness, with the same exception: after a lost increment the last
character waits for one more key), `ConsoleOK` (the cursor stays in the terminal's
own memory and on the screen, and at most one row of a neighbour is shown).

*Fairness.* Weak fairness of `do_read`, which spins in the kernel where nothing
preempts it. Nothing is assumed of who types.

Left out: what is drawn, the CRT registers, lines longer than the caller's buffer,
and messages printed from an interrupt while a character is being written.

## 9. InterruptEntry

`path` keeps for each process the frames saved in it, outermost first, each with its
handler, its way back (`restart` or `ret_to_proc`), where the processor pushed it,
and, to state the properties, what the code interrupted was doing and with which
`is_in_ring0`. `pc` is where the process is: in its program, before `sti`, in a
handler's body, leaving, in `restart` with the stack pointer in its entry, or popping.
`ints` is the interrupt flag; `flags` the one `switch_to` keeps. Which process
`schedule` picks is left open. The state begins at the end of `kernel_main`, with
interrupts on (`clear_screen` has turned them on).

The `cli` at the end of the clock's path and of the page fault is commented out, and
a process that runs for the first time enters `restart` with interrupts as they are.
So an interrupt can come while the stack pointer is in the process's entry. Before
`is_in_ring0` is counted down, the frame is pushed over the end of the entry before it;
after, the kernel is taken for user mode, and the frame goes over the one that is being
popped. `hit` records that; the model goes on counting but does not follow the damage.

*Properties.* `NestCounted` (`is_in_ring0` is 0 in a handler just when no other one is
interrupted, which is what `save` and `schedule` take it for) and `FramesInPlace`
(`restart` finds the program's frame in the entry, all others are on the kernel
stack), both as long as nothing was hit; `ParkedAlone` (whoever gives the processor
away has no nested handler and leaves no device masked); `WindowsKnown` (the windows
are only those of the clock, the page fault and a new process: system calls and
devices leave none).

## 10. Vfs

The tree of `dir_entry`, in the order they were made: entries come from lookups on the
disk, from mkdir (in memory only) and from mounts, and never go. The state begins
where `init` has mounted the disk, made it the root and gone there, so rootfs is out of
reach. A lookup asks the children, newest first, follows `mounted_dir`, and only then
the file system (`fat_lookup`). `mount` does not look whether what it is given is the
directory or what covers it, so a second mount of a name goes on top of the first,
although a comment says it can be mounted once (`fs.c:537`); mkdir starts at the root
whatever the path, and hides an entry of the same name.

`NameSpace` has no cache: directories give names to things, mkdir gives a name, a
mount puts a new root in place of a thing, and a lookup changes nothing. The
refinement `NameSpaceSpec` takes each entry to its thing on the disk, to itself if
mkdir made it, and what is not looked up yet to what the disk says.

*Properties.* `TypeOK` (each entry is below an older one of its own file system, and
processes are at directories), `CachedOnce` (a thing of the disk has one entry),
`NameSpaceSpec`.

Left out: device files and `getdents`; a lookup of an unknown name in a directory of
mkdir or devfs, which follows a null pointer; and a path through a file.

## 11. Runs

| run | instance | what it shows |
|---|---|---|
| `process_families` | 4 slots, no alarms, a tick word of 3 values; 94 130 states | safety and refinement over every interleaving of fork, exit, waitpid, pause and clock |
| `process_progress` | 3 slots, `HZ` 1, a tick word of 4 values, alarms of one second; 154 995 states | liveness under the clock's fairness; signals against sleeps |
| `file_counts` | 3 processes, 2 fds, 3 descriptors, 2 inodes; symmetric in processes other than init and in inodes; 25 854 states | counts and identity of files |
| `file_full` | same, without symmetry | the finding in `FileTable` |
| `paging_frames` | 3 processes, 14 frames, tables of 2 entries, 4 forks and execs; symmetric in processes other than init; 431 512 states | roles and counts of frames |
| `paging_copy` | same, without symmetry | the finding in `Paging` |
| `kmalloc_blocks` | 5 frames of 4 bytes, sizes 2 and 4, 2 descriptors per page; symmetric in frames; 58 726 states | the accounting of frames, descriptors and blocks; a heap |
| `vmalloc_bits` | 8 bytes, requests of 1, 2, 3 and 5, 4 granted at most, four bitmaps at boot; 21 158 states | the bits of blocks, the search off the end; a heap |
| `hd_transfers` | 2 sectors of 2 bytes, reads of 1 to 4 bytes, writes of 2 and 4; 765 458 states | transfers against a drive that is slow, busy or silent; timeouts; return |
| `terminal_input` | a ring of 2, 4 characters, a screen of 2 rows of 2 in a memory of 9; 103 370 states | the race on the count; the cursor |
| `interrupt_frames` | 3 processes, 2 devices, 4 frames nested; symmetric in processes other than init; 658 804 states | nesting and frames up to the first hit; where the windows are |
| `vfs_names` | 2 processes, a directory and a file on the disk, 4 entries, 6 paths; symmetric in processes; 15 434 states | the cache is invisible |

*Bounds.* Four slots are the least with init, a parent, its child and a bystander
(or a grandchild): adoption, slot reuse under a waiting parent and a full table all
happen (the kernel has five). The progress run needs alarms and a wrap of the
counter: with `TICK_WORD` 4 and `HZ` 1 an alarm can be set before the wrap, after
it and exactly on the values that never fire. For files, two fds allow a descriptor
to be held twice by one process and, with fork, by several; three descriptors let
one be held, one be left behind and one be new. Deadlock is checked in these runs: a
hung machine still takes clock interrupts, and init can always open or fork and
close.

For paging, fourteen frames are what init, a process that has exec'ed and its child
take; `Turns` = 4 allows fork, execve, fork and another of either, with exits, reuse
of slots and frames, and all write faults in between; counts stay below
`CountBound` = 3. The program fills one of the two entries of its table, so the
other one keeps what was there. Pages leak (see `hazards`), so memory runs out and
the deadlock check is off in these two runs.

For the bucket heap, five frames allow descriptors, buckets of both sizes and a page of
paging at once, and descriptors of a second page; a page holds two small blocks, so
that it becomes full and half empty. For the byte heap the bitmaps at boot
leave runs of every length, none at the start and none at the end, and a request of 5
is over the limit. Two-sector transfers are the least with an interrupt between
sectors; of two sectors, a transfer of one leaves one that nobody may touch. A ring of two
and four characters wrap twice, and an uneven memory puts an incomplete row at the
end. Four frames are a program's, a system call's, and two interrupts nested in it, or
one in each window. Four entries are a directory, a file in it and what one mount or
mkdir adds, or two mounts on top of each other; longer paths are covered by going
there first.

*Symmetry.* `MCKMalloc` permutes frames, `MCInterruptEntry` processes other than init
and `MCVfs` processes. `MCFileTable` permutes processes other than init and the inodes, `MCPaging`
processes other than init; they are model values there, and no definition but
`Root` tells them apart. Slots of
`Process` are numbers that the scheduler orders, so there is none.

Every property comes with a mutant of a mapped definition (`*_…` operators next to
the originals, listed in `PROJECT.json`) that violates it.

## 12. Proofs

Theorems hold for every value of the constants, under the `ASSUME` of each module
only. `ProcessProofs` and `FileTableProofs` hold for every table size, tick width, set of
alarm arguments, number of fds, descriptors and inodes, under
`ProcessAssumption` and `FileTableAssumption` only (sizes are naturals, at least one
slot, a word of at least two values, the null value is no slot or inode).

**Process.** `NoLostWakeup` is not inductive: after an exit it needs that the
parent was told, which needs that it is alive; that a sleeping waiter has a live
child needs what a pass of `scan` saw, also across the exit of another process whose
children are handed to init. The invariant `IInv` joins `TypeOK`, `CurrentRuns`,
`ParentAlive`, `NoSleepOnSignal`, `WaiterHasChild` and `NoLostWakeup` with three
facts that are only needed to make it inductive: init's `parent_pid` is none
(`InitHasNoParent`: it is never woken by an exit of its own), whoever sleeps does so
inside pause or waitpid (`SleepersInCall`), and nothing is runnable once
`schedule` spins (`HungIdle`). Each action has its step; what `schedule` does to a
table is stated once and cited by the actions that call it. From `IInv` follow the
safety properties of `process_families`, `CurrentRuns` and `NoSleepOnSignal`, the
action property `ZombieUntilReaped`, and the step simulation for `ImplementsLife`. `NoParentCycle`
is inductive on top of `IInv`: a set of processes that no parent leads out of after
a step gives one before it. `HangNeedsPause` is a pigeonhole argument: if everybody
slept in waitpid, each of the live processes would be the parent of another one,
and init of none of them the child.

**FileTable.** Both counts are sizes of sets of places: those that hold a
descriptor, and those that lead to an inode (`Node`, a second table derived from the
first). The code changes a table in four ways: a place filled, a place cleared, a
row copied over an empty row, a row cleared. Four lemmas say what each does to the
number of places that hold a value (by the library's facts on the cardinality of
unions, differences and products); every action is one of the four on both tables
at once. `HoldersAlive` is needed in the invariant: fork overwrites the row of a
free slot, and the copy only counts right because that row is empty; and open may
start a count at 1 only because nobody holds a descriptor without an inode.

**Paging.** Roles of frames are places here: a slot and what it has a frame for
(`HasRole`, `RoleFrame`). A step keeps them apart when every role that stays was in use
at a set `u` of frames and every new one lies in frames taken beside `u` (`Moves`,
`ApartStep`): for execve `u` is what is left when the old tables are given back, for the
others it is `used`. Stale entries do no harm because only live processes, and only
the pages they were given, count. `StackCounted` and `StackPrivate` are not
inductive. They need that every live process has a stack (`StackGiven`), that no
page of a program is a stack page (`StackApart`, so that a copy of the one takes nothing
off the count of the other), and that a read-only page has a count (`ReadOnlyCounted`, so
that `do_wp_page` lowers no count below zero). TLC checks `Apart` and `Stacks`, the parts
of `IInv`, on the instance of `paging_frames`. That `get_free_page` gives as many
different frames as are free is by a least counterexample (`Nth`): the n-th number of
a finite set exists, because the first one does and the next one follows.

**HdDriver.** The invariant lists the stages of a request (`Stages`): each fixes where the
caller and the handler are, what the drive does, whether the line is raised and the
8259 remembers it, and how many sectors were moved. A drive that is busy by itself and
waits that give up are stages, too (`Free`, `WriteAhead`, `ReadHangs`, `WriteHangs`):
after a timeout for BSY a write goes on to `do_write` with a drive that was told nothing,
and nothing but another timeout can come of it. What is inductive is `late \/ IInv`: every
step keeps the stages except a `do_read` that takes a sector which is not there, and `late`
stays. Hence `ReadsAreRight`, `WritesAreRight` and `WritesStayInside` are theorems of `Spec`
without a hypothesis on the drive. `RequestIsAlive` holds past `late` as well, from an
invariant of its own (`Owned`); nothing is claimed of what follows a wild jump. That sectors have no gap between their numbers is part of
`HdDriverAssumption`. The stages show, too, that until a read is late no interrupt finds
`current_request` empty, `do_write` always finds a sector to count, no handler's wait for
DRQ ever waits, and a write that has sent its first sector no longer times out.

**KMalloc.** The accounting is inductive once it is known where each block lies
(`Housed`: the page of a block held belongs to a descriptor on a chain) and that the
set of blocks is finite, for the counts. The new page of a bucket is no frame in use,
and that is why its descriptor is the only one `kfree` can find for it; the page given
back is nobody else's. `KfreeFinds` follows from `BlocksAccounted`: the bucket's size
is at least what was asked. For `HeapSpec`, two places of one bucket are apart by its
size, and two buckets by their pages.

**VMalloc.** `BitsAccounted` is inductive: a start inside the heap means that the bits
from there to the end of the heap or of the block are clear, fit or not. No scan reads
the bits past the end; that blocks that run over it are apart all the same is because
they are runs: two that met there would meet in the last byte of the heap, too.

**Terminal.** The invariant numbers the ring: place `tail + k` holds the character
after the `k`-th one taken, as long as no increment was lost; and through the race the
loaded count is at most the count, which only grows before the store: storing one less
takes off the character taken, and whatever increments came in between (`NeverAhead`). For the
console it is arithmetic on rows: a line feed moves down one row at most, and scrolling
is possible whenever it is needed.

**InterruptEntry.** Along the path of a process the `is_in_ring0` remembered in the
frames rises by one from a frame to the next, except for a frame that hit the popping
window; so `restart` is the return of exactly the frames saved at -1, and a handler
with 0 is alone unless something was hit. That needs who may be interrupted where
(`Running`), where a parked process is (`Parked`) and that a masked device is in its
own handler (`Masked`).

**Vfs.** `CachedOnce` needs to know where entries come from: one for a thing of the disk
that is no root is named, below its parent, as the disk names it (`FromDisk`), so a
second one would have the same parent and name, and be found among the children. The
rest of the invariant is the place of each entry and that mounts lead to newer entries
(`Placed`, `Mounts`), which is why `Resolved` ends. It is stated of any tree (`Tree`), as a
lookup of a path makes several, one for each of its names (`WalkIs`). What a recursive
function over a path or along mounts computes is found by a least counterexample, as in
`Paging`.

`CacheIsInvisible` is the refinement of `NameSpace`. Its centre is `Learns(t, u)`: the
tree `u` has the entries of `t` unchanged, and the same things, names and places above
them. A lookup learns (`LookupIs`): what it adds is what the disk said all along
(`OnDisk`), and what it finds among the children is what the name means (`KnownIs`,
`AboveIs`); so does the walk of a path, which ends at the thing the name space ends at
(`WalkThings`, `AbstractWalk`). mkdir then gives one name (`MkdirNames`), and of a mount
`ResolvedGrows` says that what led to the covered directory, by however many mounts,
leads to the new root and nothing else has moved (`CoversNames`). The invariant needs one
more part for it, that the root of a disk is there with everything of the disk
(`Rooted`).

`CurrentRuns` and `ZombieUntilReaped` of `Process`, and the type invariants of
`FileTable`, `KMalloc`, `Terminal` and `InterruptEntry`, are proved and not listed in
a run.

**Only model-checked:** the liveness properties `NoStarvation`, `WaitedZombieReaped`,
`RequestReturns` and `LineIsRead` (fairness is out of the prover's reach), and the
findings.

## 13. Not modelled

The keyboard's decoder: it is sequential, and a table of scan codes tests it better
than a model (it is known to fall out of step after E0 and E1, to drop Enter on the
keypad, and to take Pause for Num Lock). Reading the FAT and the data of files:
arithmetic over a disk image, without interleaving. The boot loaders and set-up code;
formatting and strings; user programs, except as the environment; files that are not
built. Within the components that are modelled: exit codes, `pos` of a descriptor,
failures of memory allocation inside fork (`get_free_page` returns -1 and the code goes
on; see `hazards`), and what is named under each module above.
