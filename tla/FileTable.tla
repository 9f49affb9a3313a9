----------------------------- MODULE FileTable -----------------------------
(***************************************************************************)
(* The tables of open files (fs/fs.c): the file_table of each process      *)
(* points into f_desc_table, whose entries point to inodes; both kinds of  *)
(* target carry a used_count.  open, dup and close change the counts, and  *)
(* so do fork, which copies a whole file_table, and exit, which closes     *)
(* everything (kernel/process.c).                                          *)
(*                                                                         *)
(* Who is alive is ProcessLife's: the table of processes implements it     *)
(* (module Process), and system calls are atomic as they never sleep here. *)
(* Programs close and dup only descriptors they have open: the code has no *)
(* test, and follows a null pointer for others.                            *)
(***************************************************************************)
EXTENDS Integers, FiniteSets

CONSTANTS
    Slots,                      \* process_table
    Root,                       \* the slot of init
    PROC_FILES_MAX_COUNT,       \* entries of a file_table (fs.h:8)
    FILE_DESC_TABLE_MAX_COUNT,  \* entries of f_desc_table (fs.h:9)
    Inodes                      \* what a path can be resolved to

ASSUME FileTableAssumption ==
    /\ IsFiniteSet(Slots) /\ Root \in Slots
    /\ PROC_FILES_MAX_COUNT \in Nat
    /\ FILE_DESC_TABLE_MAX_COUNT \in Nat
    /\ -1 \notin Slots /\ -1 \notin Inodes

Fds == 0 .. PROC_FILES_MAX_COUNT - 1
Descs == 0 .. FILE_DESC_TABLE_MAX_COUNT - 1
NULL == -1

VARIABLES
    life, parent,   \* the process table, as in ProcessLife
    file_table,     \* the descriptor behind the fd of a process, or NULL
    inode,          \* the inode of a descriptor, NULL until its first use
    used_count,     \* of a descriptor
    i_used_count    \* of an inode

files == <<file_table, inode, used_count, i_used_count>>
vars == <<life, parent, file_table, inode, used_count, i_used_count>>

Life == INSTANCE ProcessLife WITH NoParent <- NULL

(* The fds of p that lead to descriptor d, and to inode i. *)
FdsOn(p, d)      == {fd \in Fds : file_table[<<p, fd>>] = d}
FdsOnInode(p, i) == {fd \in Fds : /\ file_table[<<p, fd>>] # NULL
                                  /\ inode[file_table[<<p, fd>>]] = i}

Init ==
    /\ Life!Init
    /\ file_table = [r \in Slots \X Fds |-> NULL]
    /\ inode = [d \in Descs |-> NULL]
    /\ used_count = [d \in Descs |-> 0]
    /\ i_used_count = [i \in Inodes |-> 0]

-----------------------------------------------------------------------------
(* The first fd of p that is not in use. *)
FreeFd(p, fd) ==
    /\ file_table[<<p, fd>>] = NULL
    /\ \A e \in Fds : e < fd => file_table[<<p, e>>] # NULL

(* The first entry of f_desc_table without an inode. *)
FreeDesc_First(d) == d = 0                              \* mutant: always the first
FreeDesc(d) ==
    /\ inode[d] = NULL
    /\ \A e \in Descs : e < d => inode[e] # NULL

(* sys_open of a path that resolves to i.  With no fd, no descriptor or no  *)
(* such file it returns -1 and changes nothing.                             *)
sys_open(p, i) ==
    /\ life[p] = "live"
    /\ \E fd \in Fds, d \in Descs :
          /\ FreeFd(p, fd) /\ FreeDesc(d)
          /\ file_table' = [file_table EXCEPT ![<<p, fd>>] = d]
          /\ inode' = [inode EXCEPT ![d] = i]
          /\ used_count' = [used_count EXCEPT ![d] = 1]
    /\ i_used_count' = [i_used_count EXCEPT ![i] = @ + 1]
    /\ UNCHANGED <<life, parent>>

sys_close_KeepsInodeCount(p, fd) ==                     \* mutant
    /\ life[p] = "live" /\ file_table[<<p, fd>>] # NULL
    /\ LET d == file_table[<<p, fd>>]
       IN used_count' = [used_count EXCEPT ![d] = @ - 1]
    /\ file_table' = [file_table EXCEPT ![<<p, fd>>] = NULL]
    /\ UNCHANGED <<life, parent, inode, i_used_count>>

sys_close(p, fd) ==
    /\ life[p] = "live" /\ file_table[<<p, fd>>] # NULL
    /\ LET d == file_table[<<p, fd>>]
       IN /\ used_count' = [used_count EXCEPT ![d] = @ - 1]
          /\ i_used_count' = [i_used_count EXCEPT ![inode[d]] = @ - 1]
    /\ file_table' = [file_table EXCEPT ![<<p, fd>>] = NULL]
    /\ UNCHANGED <<life, parent, inode>>

sys_dup(p, oldfd) ==
    /\ life[p] = "live" /\ file_table[<<p, oldfd>>] # NULL
    /\ \E fd \in Fds :
          /\ FreeFd(p, fd)
          /\ file_table' = [file_table EXCEPT ![<<p, fd>>] = file_table[<<p, oldfd>>]]
    /\ LET d == file_table[<<p, oldfd>>]
       IN /\ used_count' = [used_count EXCEPT ![d] = @ + 1]
          /\ i_used_count' = [i_used_count EXCEPT ![inode[d]] = @ + 1]
    /\ UNCHANGED <<life, parent, inode>>

(* sys_fork: the child gets a copy of the table, and every entry counts. *)
sys_fork_OncePerDesc(p, c) ==       \* mutant: a descriptor dup'ed n times counts once
    /\ Life!Fork(p, c)
    /\ file_table' = [r \in Slots \X Fds |->
                         IF r[1] = c THEN file_table[<<p, r[2]>>] ELSE file_table[r]]
    /\ used_count' = [d \in Descs |->
                         IF FdsOn(p, d) = {} THEN used_count[d] ELSE used_count[d] + 1]
    /\ i_used_count' = [i \in Inodes |-> i_used_count[i] + Cardinality(FdsOnInode(p, i))]
    /\ UNCHANGED inode

sys_fork(p, c) ==
    /\ Life!Fork(p, c)
    /\ file_table' = [r \in Slots \X Fds |->
                         IF r[1] = c THEN file_table[<<p, r[2]>>] ELSE file_table[r]]
    /\ used_count' = [d \in Descs |-> used_count[d] + Cardinality(FdsOn(p, d))]
    /\ i_used_count' = [i \in Inodes |-> i_used_count[i] + Cardinality(FdsOnInode(p, i))]
    /\ UNCHANGED inode

(* sys_exit: closes every fd that is open. *)
Closed_ButNull(p) ==                \* mutant: the counts drop, the entries stay
    file_table
Closed(p) ==
    [r \in Slots \X Fds |-> IF r[1] = p THEN NULL ELSE file_table[r]]

sys_exit(p) ==
    /\ Life!Exit(p)
    /\ file_table' = Closed(p)
    /\ used_count' = [d \in Descs |-> used_count[d] - Cardinality(FdsOn(p, d))]
    /\ i_used_count' = [i \in Inodes |-> i_used_count[i] - Cardinality(FdsOnInode(p, i))]
    /\ UNCHANGED inode

sys_waitpid(p, c) == Life!Reap(p, c) /\ UNCHANGED files

Next ==
    \/ \E p \in Slots, i \in Inodes : sys_open(p, i)
    \/ \E p \in Slots, fd \in Fds : sys_close(p, fd) \/ sys_dup(p, fd)
    \/ \E p, c \in Slots : sys_fork(p, c) \/ sys_waitpid(p, c)
    \/ \E p \in Slots : sys_exit(p)

Spec == Init /\ [][Next]_vars

-----------------------------------------------------------------------------
(* Type invariant. *)
TypeOK ==
    /\ life \in [Slots -> {"free", "live", "zombie"}]
    /\ file_table \in [Slots \X Fds -> Descs \cup {NULL}]
    /\ inode \in [Descs -> Inodes \cup {NULL}]
    /\ used_count \in [Descs -> Nat]
    /\ i_used_count \in [Inodes -> Nat]

(* Who holds a descriptor is alive, and the descriptor has an inode: the   *)
(* code follows both pointers without a test.  A process that exited, and  *)
(* a slot that fork will hand out again, hold nothing.                     *)
HoldersAlive ==
    \A p \in Slots, fd \in Fds :
        file_table[<<p, fd>>] # NULL =>
            life[p] = "live" /\ inode[file_table[<<p, fd>>]] # NULL

(* The used_count of a descriptor is the number of fds, of all processes,  *)
(* that lead to it, over every order of dup, fork, close and exit.         *)
Refs(d) == {r \in Slots \X Fds : file_table[r] = d}

DescCounts == \A d \in Descs : used_count[d] = Cardinality(Refs(d))

(* The used_count of an inode is the number of fds that lead to it through *)
(* any descriptor.                                                         *)
InodeRefs(i) == {r \in Slots \X Fds : /\ file_table[r] # NULL
                                      /\ inode[file_table[r]] = i}

InodeCounts == \A i \in Inodes : i_used_count[i] = Cardinality(InodeRefs(i))

(* As long as a process keeps an fd, it names the same file, whatever the  *)
(* others open and close: open never hands out a descriptor in use.        *)
FdKeepsFile ==
    [][\A r \in Slots \X Fds :
          file_table[r] # NULL /\ file_table'[r] = file_table[r] =>
              inode'[file_table[r]] = inode[file_table[r]]]_vars

(* sys_open prints "f_Desc_table is full" when no entry is without inode.  *)
(* Said of the table, it means that all the entries are in use.            *)
FullMeansInUse ==
    (\A d \in Descs : inode[d] # NULL) => \A d \in Descs : used_count[d] > 0
=============================================================================
