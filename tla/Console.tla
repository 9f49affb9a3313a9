------------------------------- MODULE Console ------------------------------
(***************************************************************************)
(* The console of a terminal (kernel/tty.c): a cursor and the first cell   *)
(* that is shown, in the terminal's part of the video memory, which begins *)
(* at original_addr and has v_mem_limit cells.                             *)
(***************************************************************************)
EXTENDS Integers

CONSTANTS original_addr, v_mem_limit, SCREEN_WIDTH, SCREEN_SIZE

ASSUME ConsoleAssumption ==
    /\ original_addr \in Nat /\ SCREEN_WIDTH \in Nat \ {0}
    /\ SCREEN_SIZE \in Nat /\ SCREEN_SIZE >= SCREEN_WIDTH
    /\ v_mem_limit \in Nat /\ v_mem_limit > SCREEN_SIZE

VARIABLES cursor, current_start_addr
console == <<cursor, current_start_addr>>

End == original_addr + v_mem_limit      \* one past the last cell
Cells == original_addr .. End - 1

(* tty_create, and clear_screen. *)
ConsoleInit == cursor = original_addr /\ current_start_addr = original_addr

-----------------------------------------------------------------------------
(* The cursor after a character: a character that has no room is dropped.  *)
NextLine(c) == original_addr + SCREEN_WIDTH * ((c - original_addr) \div SCREEN_WIDTH + 1)

Moved_LastRow(ch, c) ==                 \* mutant: no test for the last row
    CASE ch = "nl"   -> NextLine(c)
      [] ch = "bs"   -> IF c > original_addr THEN c - 1 ELSE c
      [] ch = "char" -> IF c < End - 1 THEN c + 1 ELSE c
Moved(ch, c) ==
    CASE ch = "nl"   -> IF c < End - SCREEN_WIDTH THEN NextLine(c) ELSE c
      [] ch = "bs"   -> IF c > original_addr THEN c - 1 ELSE c
      [] ch = "char" -> IF c < End - 1 THEN c + 1 ELSE c

(* scroll_screen down, and the loop that calls it while the cursor is      *)
(* below the screen: one turn of it.  CursorOK says that none is left.     *)
CanScroll(s) == s + SCREEN_SIZE < End
Below(c, s)  == c >= s + SCREEN_SIZE

Scrolled(c, s) == IF Below(c, s) /\ CanScroll(s) THEN s + SCREEN_WIDTH ELSE s

(* console_out_char. *)
out_char(ch) ==
    /\ cursor' = Moved(ch, cursor)
    /\ current_start_addr' = Scrolled(cursor', current_start_addr)
-----------------------------------------------------------------------------
CursorOK ==
    /\ cursor \in Cells
    /\ current_start_addr \in Cells
    /\ cursor < current_start_addr + SCREEN_SIZE

ViewOK ==
    /\ (current_start_addr - original_addr) % SCREEN_WIDTH = 0
    /\ current_start_addr + SCREEN_SIZE < End + SCREEN_WIDTH

(* The cells a character is written to are the terminal's own, and the     *)
(* screen never ends above the cursor: the loop of console_out_char ends.  *)
(* The screen stays on whole rows and shows at most one row that is not    *)
(* the terminal's (the test of scroll_screen, 268).                        *)
ConsoleOK == CursorOK /\ ViewOK
=============================================================================
