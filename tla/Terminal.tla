------------------------------ MODULE Terminal ------------------------------
(***************************************************************************)
(* A terminal (kernel/tty.c) between the keyboard's interrupt, which puts  *)
(* characters into a ring (tty_input), and a process that reads a line     *)
(* from it and echoes it (do_read).  The reader runs with interrupts on    *)
(* and no lock, and the kernel is compiled without optimisation, so that   *)
(* inbuf_count-- is a load and a store; the interrupt may come between.    *)
(* An increment that is overwritten is lost, and with it the last          *)
(* character of the ring stays unread until another one comes.             *)
(*                                                                         *)
(* The kernel is not preempted: there is one reader, and it spins.  The    *)
(* characters accepted are numbered; in_buff holds their numbers, 0 for    *)
(* none yet.                                                               *)
(***************************************************************************)
EXTENDS Console, Sequences, FiniteSets

CONSTANTS
    TTY_IN_BYTES,   \* places of the ring
    MaxKeys         \* bound on the characters accepted

ASSUME TerminalAssumption == TTY_IN_BYTES \in Nat \ {0} /\ MaxKeys \in Nat

Chars == {"char", "nl", "bs"}
Places == 0 .. TTY_IN_BYTES - 1

VARIABLES
    in_buff, head, tail, inbuf_count,
    typed,      \* the characters accepted so far
    taken,      \* the numbers that readers took out, in that order
    pc,         \* of the reader: idle, test, take, load, store
    loaded,     \* the count between its load and its store
    buf         \* the line so far, as numbers

ring == <<in_buff, head, inbuf_count, typed>>
reader == <<tail, taken, pc, loaded, buf>>
vars == <<in_buff, head, tail, inbuf_count, typed, taken, pc, loaded, buf,
          cursor, current_start_addr>>

Init ==
    /\ ConsoleInit
    /\ in_buff = [i \in Places |-> 0]
    /\ head = 0 /\ tail = 0 /\ inbuf_count = 0
    /\ typed = <<>> /\ taken = <<>>
    /\ pc = "idle" /\ loaded = 0 /\ buf = <<>>

-----------------------------------------------------------------------------
(* tty_input, in the interrupt.  Keys other than these are ignored, and so *)
(* is a key when the ring is full.                                         *)
HasRoom_OneMore == inbuf_count <= TTY_IN_BYTES      \* mutant: <= for <
HasRoom == inbuf_count < TTY_IN_BYTES

tty_input(ch) ==
    /\ HasRoom
    /\ Len(typed) < MaxKeys
    /\ typed' = Append(typed, ch)
    /\ in_buff' = [in_buff EXCEPT ![head] = Len(typed) + 1]
    /\ head' = (head + 1) % TTY_IN_BYTES
    /\ inbuf_count' = inbuf_count + 1
    /\ UNCHANGED <<reader, console>>

(* do_read: it ignores how many bytes it was asked for. *)
do_read_start ==
    /\ pc = "idle" /\ pc' = "test" /\ buf' = <<>>
    /\ UNCHANGED <<ring, tail, taken, loaded, console>>

do_read_test ==
    /\ pc = "test"
    /\ pc' = IF inbuf_count # 0 THEN "take" ELSE "test"
    /\ UNCHANGED <<ring, tail, taken, loaded, buf, console>>

do_read_take_Keeps ==                   \* mutant: the tail does not move
    /\ pc = "take" /\ pc' = "load"
    /\ taken' = Append(taken, in_buff[tail])
    /\ UNCHANGED <<ring, tail, loaded, buf, console>>
do_read_take ==
    /\ pc = "take" /\ pc' = "load"
    /\ taken' = Append(taken, in_buff[tail])
    /\ tail' = (tail + 1) % TTY_IN_BYTES
    /\ UNCHANGED <<ring, loaded, buf, console>>

do_read_load ==
    /\ pc = "load" /\ pc' = "store"
    /\ loaded' = inbuf_count
    /\ UNCHANGED <<ring, tail, taken, buf, console>>

(* The store, and what is done with the character: a line ends the read, a *)
(* backspace takes back what this read has put in the line.                *)
Last(s) == s[Len(s)]
Key == typed[Last(taken)]

Edited == CASE Key = "char" -> Append(buf, Last(taken))
            [] Key = "nl"   -> buf
            [] Key = "bs"   -> IF buf = <<>> THEN buf ELSE SubSeq(buf, 1, Len(buf) - 1)

do_read_store_Keeps ==                  \* mutant: the count does not go down
    /\ pc = "store" /\ inbuf_count' = loaded
    /\ buf' = Edited
    /\ pc' = IF Key = "nl" THEN "idle" ELSE "test"
    /\ IF Key = "bs" /\ buf = <<>> THEN UNCHANGED console ELSE out_char(Key)
    /\ UNCHANGED <<in_buff, head, typed, tail, taken, loaded>>
do_read_store ==
    /\ pc = "store" /\ inbuf_count' = loaded - 1
    /\ buf' = Edited
    /\ pc' = IF Key = "nl" THEN "idle" ELSE "test"
    /\ IF Key = "bs" /\ buf = <<>> THEN UNCHANGED console ELSE out_char(Key)
    /\ UNCHANGED <<in_buff, head, typed, tail, taken, loaded>>

(* tty_write of a character, by a process that is not reading. *)
tty_write(ch) ==
    /\ pc = "idle" /\ out_char(ch)
    /\ UNCHANGED <<ring, reader>>

do_read == do_read_test \/ do_read_take \/ do_read_load \/ do_read_store

Next ==
    \/ \E ch \in Chars : tty_input(ch) \/ tty_write(ch)
    \/ do_read_start
    \/ do_read

(* The reader spins in the kernel, where nothing preempts it. *)
Spec == Init /\ [][Next]_vars /\ WF_vars(do_read)
-----------------------------------------------------------------------------
Window == pc \in {"load", "store"}      \* taken, and not counted yet
Unread == Len(typed) - Len(taken)
Counted == inbuf_count - (IF Window THEN 1 ELSE 0)
Lost == Unread - Counted                \* increments that were overwritten

(* Type invariant.  The ring and its count never hold more than its places. *)
TypeOK ==
    /\ in_buff \in [Places -> 0 .. MaxKeys]
    /\ head \in Places /\ tail \in Places
    /\ inbuf_count \in 0 .. TTY_IN_BYTES
    /\ typed \in Seq(Chars) /\ Len(typed) <= MaxKeys
    /\ pc \in {"idle", "test", "take", "load", "store"}
    /\ loaded \in 0 .. TTY_IN_BYTES

(* The count never says more than there is, whatever the interrupt         *)
(* overwrites or is overwritten by: the reader never takes a place that    *)
(* was not filled since it was there last (146-151, 89-91).                *)
NeverAhead == Lost >= 0

(* The reader takes the characters in the order typed, each once and none  *)
(* left out, until the count has lost an increment: from then on the ring  *)
(* may be overrun (85-91, 147-150).                                        *)
InOrder == [][taken' # taken /\ Lost = 0 => Last(taken') = Len(taken')]_vars

(* A line whose end was typed is read, unless an increment of the count    *)
(* was lost: then the machine waits for a key more (139-175).              *)
EndTyped == \E i \in Len(taken) + 1 .. Len(typed) : typed[i] = "nl"
LineIsRead == (pc # "idle" /\ EndTyped) ~> (pc = "idle" \/ Lost > 0)
=============================================================================
