-------------------------- MODULE TerminalProofs ----------------------------
(***************************************************************************)
(* The terminal keeps its counts, its console and, as long as no increment *)
(* was overwritten, the order of what is typed, for a ring and a screen of *)
(* any size.                                                               *)
(*                                                                         *)
(* The invariant says where the ring is: the interrupt fills place         *)
(* Len(typed) and the reader empties place Len(taken), both modulo the     *)
(* ring.  With the count never ahead, the reader is at a filled place; and *)
(* with no increment lost, the characters not yet read fill different      *)
(* places, in order.                                                       *)
(***************************************************************************)
EXTENDS Terminal, TLAPS

LEMMA Constants == TTY_IN_BYTES \in Nat \ {0} /\ MaxKeys \in Nat
  BY TerminalAssumption

(* Division with remainder, and that it is the only one. *)
LEMMA Divides ==
  ASSUME NEW x \in Nat, NEW n \in Nat \ {0}
  PROVE  x % n \in 0 .. n - 1 /\ \E q \in Nat : x = n * q + (x % n)
  <1>1. x \div n \in Nat /\ x = n * (x \div n) + (x % n)
    OBVIOUS
  <1>2. x % n \in 0 .. n - 1
    OBVIOUS
  <1>3. \E q \in Nat : x = n * q + (x % n)
    <2> WITNESS x \div n \in Nat
    <2> QED  BY <1>1
  <1> QED  BY <1>2, <1>3

LEMMA RowsApart ==
  ASSUME NEW n \in Nat, NEW q \in Nat, NEW k \in Nat, q < k
  PROVE  n * q \in Nat /\ n * k \in Nat /\ n * q + n <= n * k
  <1>1. PICK j \in Nat : k = q + 1 + j
    <2>1. k - q - 1 \in Nat /\ k = q + 1 + (k - q - 1)
      OBVIOUS
    <2> QED  BY <2>1
  <1>2. n * k = n * q + n + n * j
    BY <1>1
  <1>3. n * q \in Nat /\ n * j \in Nat
    OBVIOUS
  <1> QED  BY <1>2, <1>3

LEMMA Remainder ==
  ASSUME NEW n \in Nat \ {0}, NEW q \in Nat, NEW r \in 0 .. n - 1
  PROVE  (n * q + r) % n = r
  <1>1. n * q \in Nat
    OBVIOUS
  <1> DEFINE y == n * q + r
  <1>2. y \in Nat
    BY <1>1
  <1> HIDE DEF y
  <1>3. PICK k \in Nat : y = n * k + (y % n)
    BY <1>2, Divides
  <1>4. y % n \in 0 .. n - 1
    BY <1>2, Divides
  <1>5. CASE q < k
    <2>1. n * q + n <= n * k /\ n * k \in Nat
      BY <1>5, RowsApart
    <2> QED  BY <1>1, <1>3, <1>4, <2>1 DEF y
  <1>6. CASE k < q
    <2>1. n * k + n <= n * q /\ n * k \in Nat
      BY <1>6, RowsApart
    <2> QED  BY <1>1, <1>3, <1>4, <2>1 DEF y
  <1>7. CASE k = q
    <2>1. y = n * q + (y % n)
      BY <1>3, <1>7
    <2>2. y % n = r
      BY <1>1, <1>4, <2>1 DEF y
    <2> QED  BY <2>2 DEF y
  <1> QED  BY <1>5, <1>6, <1>7

LEMMA ModNext ==
  ASSUME NEW x \in Nat, NEW n \in Nat \ {0}
  PROVE  x % n \in 0 .. n - 1 /\ ((x % n) + 1) % n = (x + 1) % n
  <1> DEFINE r == x % n
  <1>1. r \in 0 .. n - 1
    BY Divides
  <1>2. PICK q \in Nat : x = n * q + r
    BY Divides
  <1> HIDE DEF r
  <1>3. n * q \in Nat
    BY <1>2
  <1>4. CASE r + 1 < n
    <2>1. r + 1 \in 0 .. n - 1 /\ x + 1 = n * q + (r + 1)
      BY <1>1, <1>2, <1>3, <1>4
    <2>2. (x + 1) % n = r + 1
      BY <2>1, Remainder
    <2>3. n * 0 + (r + 1) = r + 1 /\ (n * 0 + (r + 1)) % n = r + 1
      BY <1>1, <2>1, Remainder
    <2> QED  BY <1>1, <2>2, <2>3 DEF r
  <1>5. CASE r + 1 = n
    <2>1. PICK k \in Nat, z \in 0 .. n - 1, one \in Nat : k = q + 1 /\ z = 0 /\ one = 1
      BY <1>1, <1>2
    <2>2. n * k = n * q + n
      BY <1>2, <2>1
    <2>3. x + 1 = n * k + z
      BY <1>1, <1>2, <1>3, <1>5, <2>1, <2>2
    <2>4. (n * k + z) % n = z
      BY <2>1, Remainder
    <2>5. (n * one + z) % n = z
      BY <2>1, Remainder
    <2>6. n * one + z = r + 1
      BY <1>1, <1>5, <2>1
    <2> QED  BY <1>1, <2>1, <2>3, <2>4, <2>5, <2>6 DEF r
  <1> QED  BY <1>1, <1>4, <1>5 DEF r

(* Numbers that are less than n apart are different modulo n. *)
LEMMA ModApart ==
  ASSUME NEW n \in Nat \ {0}, NEW x \in Nat, NEW y \in Nat, x < y, y < x + n
  PROVE  x % n # y % n
  <1> SUFFICES ASSUME x % n = y % n PROVE FALSE
    OBVIOUS
  <1>1. PICK q \in Nat : x = n * q + (x % n)
    BY Divides
  <1>2. PICK k \in Nat : y = n * k + (y % n)
    BY Divides
  <1>3. x % n \in 0 .. n - 1 /\ n * q \in Nat /\ n * k \in Nat
    BY Divides
  <1>4. CASE q < k
    <2>1. n * q + n <= n * k
      BY <1>4, RowsApart
    <2> QED  BY <1>1, <1>2, <1>3, <2>1
  <1>5. CASE k < q
    <2>1. n * k + n <= n * q
      BY <1>5, RowsApart
    <2> QED  BY <1>1, <1>2, <1>3, <2>1
  <1>6. CASE q = k
    BY <1>1, <1>2, <1>6
  <1> QED  BY <1>4, <1>5, <1>6

LEMMA ModSmall ==
  ASSUME NEW n \in Nat \ {0}, NEW x \in Nat, x < n
  PROVE  x % n = x
  OBVIOUS

-----------------------------------------------------------------------------
LEMMA ConsoleStart == ConsoleInit => CursorOK /\ ViewOK
  <1> SUFFICES ASSUME ConsoleInit PROVE CursorOK /\ ViewOK
    OBVIOUS
  <1>1. cursor = original_addr /\ current_start_addr = original_addr
    BY DEF ConsoleInit
  <1>2. (current_start_addr - original_addr) % SCREEN_WIDTH = 0
    BY <1>1, ConsoleAssumption, ModSmall
  <1> QED  BY <1>1, <1>2, ConsoleAssumption DEF CursorOK, ViewOK, Cells, End

(* A new line moves the cursor by one row at most. *)
LEMMA LineWidth ==
  ASSUME NEW c \in Nat, c >= original_addr
  PROVE  NextLine(c) \in Nat /\ c < NextLine(c) /\ NextLine(c) <= c + SCREEN_WIDTH
  <1> DEFINE x == c - original_addr
             w == SCREEN_WIDTH
  <1>1. x \in Nat /\ w \in Nat \ {0} /\ original_addr \in Nat
    BY ConsoleAssumption
  <1>2. x \div w \in Nat /\ x = w * (x \div w) + (x % w) /\ x % w \in 0 .. w - 1
    <2> HIDE DEF x, w
    <2> QED  BY <1>1
  <1>3. w * (x \div w + 1) = w * (x \div w) + w
    <2> HIDE DEF x, w
    <2> QED  BY <1>1, <1>2
  <1>4. NextLine(c) = original_addr + (w * (x \div w) + w)
    BY <1>3 DEF NextLine
  <1>5. c = original_addr + x
    BY <1>1
  <1> DEFINE k == w * (x \div w)
  <1>6. k \in Nat
    BY <1>1, <1>2
  <1> HIDE DEF k
  <1>7. NextLine(c) = original_addr + (k + w) /\ x = k + (x % w)
    BY <1>2, <1>4 DEF k
  <1> HIDE DEF x, w
  <1>8. original_addr + (k + w) \in Nat /\ c < original_addr + (k + w) /\ original_addr + (k + w) <= c + w
    BY <1>1, <1>2, <1>5, <1>6, <1>7
  <1> QED  BY <1>7, <1>8 DEF w

LEMMA ConsoleStep ==
  ASSUME CursorOK, ViewOK, NEW ch \in Chars, out_char(ch)
  PROVE  CursorOK' /\ ViewOK'
  <1>1. /\ original_addr \in Nat /\ v_mem_limit \in Nat /\ SCREEN_SIZE \in Nat
        /\ SCREEN_WIDTH \in Nat \ {0} /\ SCREEN_SIZE >= SCREEN_WIDTH
    BY ConsoleAssumption
  <1>2. End \in Nat
    BY <1>1 DEF End
  <1>3. /\ cursor \in Nat /\ cursor >= original_addr /\ cursor < End
        /\ current_start_addr \in Nat /\ current_start_addr >= original_addr
        /\ current_start_addr < End /\ cursor < current_start_addr + SCREEN_SIZE
    BY <1>1, <1>2 DEF CursorOK, Cells
  <1>4. NextLine(cursor) \in Nat /\ cursor < NextLine(cursor) /\ NextLine(cursor) <= cursor + SCREEN_WIDTH
    BY <1>3, LineWidth
  <1>5. /\ cursor' \in Nat /\ cursor' >= original_addr /\ cursor' < End
        /\ cursor' <= cursor + SCREEN_WIDTH
    <2>1. cursor' = Moved(ch, cursor)
      BY DEF out_char
    <2>2. CASE ch = "nl"
      BY <1>1, <1>2, <1>3, <1>4, <2>1, <2>2 DEF Moved
    <2>3. CASE ch = "bs"
      BY <1>1, <1>2, <1>3, <2>1, <2>3 DEF Moved
    <2>4. CASE ch = "char"
      BY <1>1, <1>2, <1>3, <2>1, <2>4 DEF Moved
    <2> QED  BY <2>2, <2>3, <2>4 DEF Chars
  <1>6. current_start_addr' = Scrolled(cursor', current_start_addr)
    BY DEF out_char
  <1>7. CASE Below(cursor', current_start_addr)
    <2>1. CanScroll(current_start_addr)
      BY <1>1, <1>2, <1>3, <1>5, <1>7 DEF Below, CanScroll
    <2>2. current_start_addr' = current_start_addr + SCREEN_WIDTH
      BY <1>6, <1>7, <2>1 DEF Scrolled
    <2>3. CursorOK'
      BY <1>1, <1>2, <1>3, <1>5, <1>7, <2>2 DEF CursorOK, Cells, Below, End
    <2>4. (current_start_addr' - original_addr) % SCREEN_WIDTH = 0
      <3> DEFINE x == current_start_addr - original_addr
      <3>1. x \in Nat /\ x % SCREEN_WIDTH = 0
        BY <1>1, <1>3 DEF ViewOK
      <3>2. current_start_addr' - original_addr = x + SCREEN_WIDTH
        BY <1>1, <1>3, <2>2
      <3> HIDE DEF x
      <3>3. (x + SCREEN_WIDTH) % SCREEN_WIDTH = x % SCREEN_WIDTH
        <4>1. PICK q \in Nat : x = SCREEN_WIDTH * q + 0
          BY <1>1, <3>1, Divides
        <4>2. SCREEN_WIDTH * (q + 1) = SCREEN_WIDTH * q + SCREEN_WIDTH /\ SCREEN_WIDTH * q \in Nat
          BY <1>1
        <4>3. x + SCREEN_WIDTH = SCREEN_WIDTH * (q + 1) + 0 /\ 0 \in 0 .. SCREEN_WIDTH - 1
          BY <1>1, <4>1, <4>2
        <4>4. (SCREEN_WIDTH * (q + 1) + 0) % SCREEN_WIDTH = 0
          BY <1>1, <4>3, Remainder
        <4> QED  BY <3>1, <4>3, <4>4
      <3> QED  BY <3>1, <3>2, <3>3
    <2>5. current_start_addr' + SCREEN_SIZE < End + SCREEN_WIDTH
      BY <1>1, <1>2, <1>3, <2>1, <2>2 DEF CanScroll
    <2> QED  BY <2>3, <2>4, <2>5 DEF ViewOK, End
  <1>8. CASE ~Below(cursor', current_start_addr)
    <2>1. current_start_addr' = current_start_addr
      BY <1>6, <1>8 DEF Scrolled
    <2>2. CursorOK'
      BY <1>1, <1>2, <1>3, <1>5, <1>8, <2>1 DEF CursorOK, Cells, Below, End
    <2>3. ViewOK'
      BY <2>1 DEF ViewOK, End
    <2> QED  BY <2>2, <2>3
  <1> QED  BY <1>7, <1>8

-----------------------------------------------------------------------------
(* Where the ring is, and what is in it. *)
Ring ==
    /\ head = Len(typed) % TTY_IN_BYTES
    /\ tail = Len(taken) % TTY_IN_BYTES
    /\ \A i \in Places : i < Len(typed) => in_buff[i] \in 1 .. Len(typed)

(* What the reader may rely on. *)
Reads ==
    /\ taken \in Seq(Nat)
    /\ \A i \in 1 .. Len(taken) : taken[i] \in 1 .. Len(typed)
    /\ pc \in {"take", "load"} => inbuf_count >= 1
    /\ pc = "store" => loaded >= 1 /\ loaded <= inbuf_count
    /\ Window => Len(taken) >= 1

Ordered ==
    Lost = 0 => \A n \in Len(taken) + 1 .. Len(typed) : in_buff[(n - 1) % TTY_IN_BYTES] = n

Keeps == TypeOK /\ NeverAhead /\ Ring /\ Reads /\ Ordered
IInv == Keeps /\ CursorOK /\ ViewOK

LEMMA Lengths ==
  ASSUME Keeps
  PROVE  /\ Len(typed) \in Nat /\ Len(taken) \in Nat /\ inbuf_count \in 0 .. TTY_IN_BYTES
         /\ inbuf_count \in Nat /\ loaded \in Nat /\ Len(typed) <= MaxKeys
         /\ Lost = Len(typed) - Len(taken) - (inbuf_count - (IF Window THEN 1 ELSE 0)) /\ Lost >= 0
  BY Constants DEF Keeps, TypeOK, Reads, NeverAhead, Lost, Unread, Counted

LEMMA StartKeeps == Init => IInv
  <1> SUFFICES ASSUME Init PROVE IInv
    OBVIOUS
  <1>1. Len(typed) = 0 /\ Len(taken) = 0 /\ inbuf_count = 0 /\ ~Window
    BY DEF Init, Window
  <1>2. TypeOK
    BY Constants DEF Init, TypeOK, Places
  <1>3. NeverAhead
    BY <1>1 DEF NeverAhead, Lost, Unread, Counted
  <1>4. Ring
    <2>1. 0 % TTY_IN_BYTES = 0
      BY Constants, ModSmall
    <2> QED  BY <1>1, <2>1, Constants DEF Ring, Init, Places
  <1>5. Reads /\ Ordered
    BY <1>1 DEF Init, Reads, Ordered, Window
  <1>6. CursorOK /\ ViewOK
    BY ConsoleStart DEF Init
  <1> QED  BY <1>2, <1>3, <1>4, <1>5, <1>6 DEF IInv, Keeps

(* The interrupt: it fills the place after the last one filled, which is   *)
(* none of those not read yet.                                             *)
LEMMA InputKeeps ==
  ASSUME Keeps, NEW ch \in Chars, tty_input(ch)
  PROVE  Keeps'
  <1> DEFINE m == Len(typed)
             r == Len(taken)
  <1>1. /\ m \in Nat /\ r \in Nat /\ inbuf_count \in 0 .. TTY_IN_BYTES /\ inbuf_count \in Nat
        /\ Lost = m - r - (inbuf_count - (IF Window THEN 1 ELSE 0)) /\ Lost >= 0 /\ loaded \in Nat
    BY Lengths
  <1>2. /\ inbuf_count < TTY_IN_BYTES /\ m < MaxKeys
        /\ typed' = Append(typed, ch) /\ in_buff' = [in_buff EXCEPT ![head] = m + 1]
        /\ head' = (head + 1) % TTY_IN_BYTES /\ inbuf_count' = inbuf_count + 1
        /\ UNCHANGED <<tail, taken, pc, loaded, buf>>
    BY DEF tty_input, HasRoom, reader
  <1>3. Len(typed') = m + 1 /\ typed' \in Seq(Chars) /\ Window' = Window
    BY <1>2 DEF Keeps, TypeOK, Window
  <1>4. head = m % TTY_IN_BYTES /\ head \in Places /\ head' = (m + 1) % TTY_IN_BYTES /\ head' \in Places
    <2>1. m % TTY_IN_BYTES \in Places /\ ((m % TTY_IN_BYTES) + 1) % TTY_IN_BYTES = (m + 1) % TTY_IN_BYTES
      <3> HIDE DEF m
      <3> QED  BY <1>1, <1>2, Constants, ModNext DEF Places
    <2>2. (m + 1) % TTY_IN_BYTES \in Places
      <3>1. m + 1 \in Nat
        BY <1>1, <1>2
      <3> HIDE DEF m
      <3> QED  BY <3>1, Constants, Divides DEF Places
    <2>3. head = m % TTY_IN_BYTES /\ head' = (head + 1) % TTY_IN_BYTES
      BY <1>1, <1>2 DEF Keeps, Ring
    <2> QED  BY <2>1, <2>2, <2>3
  <1>5. /\ in_buff'[head] = m + 1
        /\ \A i \in Places : i # head => in_buff'[i] = in_buff[i]
    BY <1>2, <1>4 DEF Keeps, TypeOK
  <1>6. Lost' = Lost
    BY <1>1, <1>2, <1>3 DEF Lost, Unread, Counted
  <1>7. TypeOK'
    <2>1. in_buff' \in [Places -> 0 .. MaxKeys]
      <3>1. m + 1 \in 0 .. MaxKeys
        BY <1>1, <1>2, Constants
      <3>2. in_buff \in [Places -> 0 .. MaxKeys]
        BY DEF Keeps, TypeOK
      <3> QED  BY <1>2, <3>1, <3>2
    <2>2. inbuf_count' \in 0 .. TTY_IN_BYTES /\ Len(typed') <= MaxKeys
      BY <1>1, <1>2, <1>3, Constants
    <2> QED  BY <1>2, <1>3, <1>4, <2>1, <2>2 DEF Keeps, TypeOK
  <1>8. Ring'
    <2>1. ASSUME NEW i \in Places, i < m + 1 PROVE in_buff'[i] \in 1 .. m + 1
      <3>1. CASE i = head
        BY <1>1, <1>5, <3>1
      <3>2. CASE i # head
        <4>1. i # m
          <5>1. i < TTY_IN_BYTES /\ i \in Nat
            BY Constants DEF Places
          <5> QED  BY <1>1, <1>4, <3>2, <5>1, Constants, ModSmall
        <4>2. i < m
          BY <1>1, <2>1, <4>1 DEF Places
        <4>3. in_buff[i] \in 1 .. m
          BY <4>2 DEF Keeps, Ring
        <4> QED  BY <1>1, <1>5, <3>2, <4>3
      <3> QED  BY <3>1, <3>2
    <2> QED  BY <1>2, <1>3, <1>4, <2>1 DEF Keeps, Ring
  <1>9. Reads'
    <2>1. \A i \in 1 .. Len(taken') : taken'[i] \in 1 .. Len(typed')
      BY <1>1, <1>2, <1>3 DEF Keeps, Reads
    <2>2. pc' \in {"take", "load"} => inbuf_count' >= 1
      BY <1>1, <1>2
    <2>3. pc' = "store" => loaded' >= 1 /\ loaded' <= inbuf_count'
      BY <1>1, <1>2 DEF Keeps, Reads
    <2> QED  BY <1>2, <1>3, <2>1, <2>2, <2>3 DEF Keeps, Reads
  <1>10. Ordered'
    <2> SUFFICES ASSUME Lost = 0, NEW n \in r + 1 .. m + 1
                 PROVE  in_buff'[(n - 1) % TTY_IN_BYTES] = n
      BY <1>2, <1>3, <1>6 DEF Ordered
    <2>1. n \in Nat /\ n - 1 \in Nat /\ (n - 1) % TTY_IN_BYTES \in Places
      <3>1. n \in Nat /\ n - 1 \in Nat
        BY <1>1
      <3>2. ASSUME NEW x \in Nat PROVE x % TTY_IN_BYTES \in Places
        BY Constants, Divides DEF Places
      <3> QED  BY <3>1, <3>2
    <2>2. CASE n = m + 1
      BY <1>1, <1>4, <1>5, <2>2
    <2>3. CASE n # m + 1
      <3>1. n - 1 < m /\ m < (n - 1) + TTY_IN_BYTES /\ n \in r + 1 .. m
        BY <1>1, <1>2, <2>3, Constants
      <3>2. (n - 1) % TTY_IN_BYTES # head
        BY <1>1, <1>4, <2>1, <3>1, Constants, ModApart
      <3>3. in_buff[(n - 1) % TTY_IN_BYTES] = n
        BY <3>1 DEF Keeps, Ordered
      <3> QED  BY <1>5, <2>1, <3>2, <3>3
    <2> QED  BY <2>2, <2>3
  <1> QED  BY <1>6, <1>7, <1>8, <1>9, <1>10 DEF Keeps, NeverAhead

(* What the reader takes: a character typed, and the next one in order     *)
(* unless an increment was lost.                                           *)
LEMMA Taken ==
  ASSUME Keeps, pc = "take"
  PROVE  /\ tail \in Places /\ in_buff[tail] \in 1 .. Len(typed)
         /\ Lost = 0 => in_buff[tail] = Len(taken) + 1
  <1> DEFINE m == Len(typed)
             r == Len(taken)
  <1>1. m \in Nat /\ r \in Nat /\ inbuf_count \in Nat /\ ~Window /\ inbuf_count >= 1
    BY Lengths DEF Window, Keeps, Reads
  <1>2. r < m
    BY <1>1, Lengths
  <1>3. tail = r % TTY_IN_BYTES /\ tail \in Places
    BY DEF Keeps, Ring, TypeOK
  <1>4. tail \in Nat /\ tail < TTY_IN_BYTES
    BY <1>3, Constants DEF Places
  <1>5. tail < m
    <2>1. CASE r < TTY_IN_BYTES
      BY <1>1, <1>2, <1>3, <2>1, Constants, ModSmall
    <2>2. CASE ~(r < TTY_IN_BYTES)
      BY <1>1, <1>2, <1>4, <2>2, Constants
    <2> QED  BY <2>1, <2>2
  <1>6. in_buff[tail] \in 1 .. m
    BY <1>3, <1>5 DEF Keeps, Ring
  <1>7. ASSUME Lost = 0 PROVE in_buff[tail] = r + 1
    <2>1. r + 1 \in r + 1 .. m /\ (r + 1) - 1 = r
      BY <1>1, <1>2
    <2> QED  BY <1>3, <1>7, <2>1 DEF Keeps, Ordered
  <1> QED  BY <1>3, <1>6, <1>7

LEMMA TakeKeeps == Keeps /\ do_read_take => Keeps'
  <1> SUFFICES ASSUME Keeps, do_read_take PROVE Keeps'
    OBVIOUS
  <1> DEFINE m == Len(typed)
             r == Len(taken)
  <1>1. /\ pc = "take" /\ pc' = "load" /\ taken' = Append(taken, in_buff[tail])
        /\ tail' = (tail + 1) % TTY_IN_BYTES
        /\ UNCHANGED <<in_buff, head, inbuf_count, typed, loaded, buf>>
    BY DEF do_read_take, ring
  <1>2. /\ m \in Nat /\ r \in Nat /\ inbuf_count \in Nat /\ inbuf_count >= 1 /\ ~Window /\ Window'
        /\ Lost = m - r - inbuf_count /\ Lost >= 0
    BY <1>1, Lengths DEF Window, Keeps, Reads
  <1>3. in_buff[tail] \in 1 .. m
    BY <1>1, Taken
  <1>4. /\ Len(taken') = r + 1 /\ taken' \in Seq(Nat)
        /\ \A i \in 1 .. r + 1 : taken'[i] = IF i = r + 1 THEN in_buff[tail] ELSE taken[i]
    BY <1>1, <1>2, <1>3 DEF Keeps, Reads
  <1>5. Lost' = Lost
    BY <1>1, <1>2, <1>4 DEF Lost, Unread, Counted
  <1>6. tail' = (r + 1) % TTY_IN_BYTES /\ tail' \in Places
    <2>1. r % TTY_IN_BYTES \in Places /\ ((r % TTY_IN_BYTES) + 1) % TTY_IN_BYTES = (r + 1) % TTY_IN_BYTES
      <3> HIDE DEF r
      <3> QED  BY <1>1, <1>2, Constants, ModNext DEF Places
    <2>2. (r + 1) % TTY_IN_BYTES \in Places
      <3>1. r + 1 \in Nat
        BY <1>1, <1>2
      <3> HIDE DEF r
      <3> QED  BY <3>1, Constants, Divides DEF Places
    <2>3. tail = r % TTY_IN_BYTES /\ tail' = (tail + 1) % TTY_IN_BYTES
      BY <1>1, <1>2 DEF Keeps, Ring
    <2> QED  BY <2>1, <2>2, <2>3
  <1>7. TypeOK'
    BY <1>1, <1>6 DEF Keeps, TypeOK
  <1>8. Ring'
    BY <1>1, <1>4, <1>6 DEF Keeps, Ring
  <1>9. Reads'
    <2>1. \A i \in 1 .. r + 1 : taken'[i] \in 1 .. m
      <3>1. \A i \in 1 .. r : taken[i] \in 1 .. m
        BY DEF Keeps, Reads
      <3>2. \A i \in 1 .. r + 1 : i = r + 1 \/ i \in 1 .. r
        BY <1>2
      <3> QED  BY <1>3, <1>4, <3>1, <3>2
    <2> QED  BY <1>1, <1>2, <1>4, <2>1 DEF Reads
  <1>10. Ordered'
    <2>1. Len(taken') + 1 .. Len(typed') \subseteq r + 1 .. m
      BY <1>1, <1>2, <1>4
    <2> QED  BY <1>1, <1>5, <2>1 DEF Keeps, Ordered
  <1> QED  BY <1>5, <1>7, <1>8, <1>9, <1>10 DEF Keeps, NeverAhead

(* The steps of the reader that only move it. *)
LEMMA MoveKeeps ==
  ASSUME Keeps, do_read_start \/ do_read_test \/ do_read_load
  PROVE  Keeps'
  <1>1. UNCHANGED <<in_buff, head, inbuf_count, typed, tail, taken>>
    BY DEF do_read_start, do_read_test, do_read_load, ring
  <1>2. /\ pc' \in {"idle", "test", "take", "load", "store"} /\ loaded' \in 0 .. TTY_IN_BYTES
        /\ Window' = Window
        /\ pc' \in {"take", "load"} => inbuf_count >= 1
        /\ pc' = "store" => loaded' >= 1 /\ loaded' <= inbuf_count
    <2>1. inbuf_count \in Nat /\ inbuf_count \in 0 .. TTY_IN_BYTES
      BY Lengths
    <2>2. CASE do_read_start
      BY <2>2 DEF do_read_start, Window, Keeps, TypeOK
    <2>3. CASE do_read_test
      BY <2>1, <2>3 DEF do_read_test, Window, Keeps, TypeOK
    <2>4. CASE do_read_load
      BY <2>1, <2>4 DEF do_read_load, Window, Keeps, Reads
    <2> QED  BY <2>2, <2>3, <2>4
  <1>3. Lost' = Lost
    BY <1>1, <1>2 DEF Lost, Unread, Counted
  <1>4. TypeOK' /\ Ring' /\ Reads'
    BY <1>1, <1>2 DEF Keeps, TypeOK, Ring, Reads
  <1>5. Ordered'
    BY <1>1, <1>3 DEF Keeps, Ordered
  <1> QED  BY <1>3, <1>4, <1>5 DEF Keeps, NeverAhead

(* The store may overwrite increments of the interrupt, never the opposite. *)
LEMMA StoreKeeps ==
  ASSUME Keeps, do_read_store
  PROVE  Keeps' /\ Key \in Chars
  <1>1. /\ pc = "store" /\ inbuf_count' = loaded - 1 /\ pc' \in {"idle", "test"}
        /\ UNCHANGED <<in_buff, head, typed, tail, taken, loaded>>
    BY DEF do_read_store
  <1>2. /\ Len(typed) \in Nat /\ Len(taken) \in Nat /\ inbuf_count \in Nat /\ loaded \in Nat
        /\ inbuf_count \in 0 .. TTY_IN_BYTES /\ loaded >= 1 /\ loaded <= inbuf_count
        /\ Window /\ ~Window' /\ Len(taken) >= 1
        /\ Lost = Len(typed) - Len(taken) - (inbuf_count - 1) /\ Lost >= 0
    BY <1>1, Lengths DEF Window, Keeps, Reads
  <1>3. Lost' = Len(typed) - Len(taken) - (loaded - 1) /\ Lost' >= Lost
    BY <1>1, <1>2 DEF Lost, Unread, Counted
  <1>4. Lost \in Nat /\ Lost' \in Nat
    BY <1>2, <1>3
  <1>5. TypeOK'
    BY <1>1, <1>2, Constants DEF Keeps, TypeOK
  <1>6. Ring' /\ Reads'
    BY <1>1, <1>2 DEF Keeps, Ring, Reads, Window
  <1>7. Ordered'
    BY <1>1, <1>3, <1>4 DEF Keeps, Ordered
  <1>8. Key \in Chars
    <2>1. taken[Len(taken)] \in 1 .. Len(typed)
      BY <1>2 DEF Keeps, Reads
    <2> QED  BY <2>1 DEF Key, Last, Keeps, TypeOK
  <1> QED  BY <1>3, <1>4, <1>5, <1>6, <1>7, <1>8 DEF Keeps, NeverAhead

LEMMA StillKeeps ==
  ASSUME Keeps, UNCHANGED <<in_buff, head, inbuf_count, typed, tail, taken, pc, loaded>>
  PROVE  Keeps'
  <1>1. Lost' = Lost /\ Window' = Window
    BY DEF Lost, Unread, Counted, Window
  <1>2. TypeOK' /\ Ring' /\ Reads'
    BY <1>1 DEF Keeps, TypeOK, Ring, Reads
  <1>3. Ordered'
    BY <1>1 DEF Keeps, Ordered
  <1> QED  BY <1>1, <1>2, <1>3 DEF Keeps, NeverAhead

LEMMA NextInv == IInv /\ [Next]_vars => IInv'
  <1> SUFFICES ASSUME IInv, [Next]_vars PROVE IInv'
    OBVIOUS
  <1>1. ASSUME UNCHANGED console PROVE CursorOK' /\ ViewOK'
    BY <1>1 DEF IInv, CursorOK, ViewOK, console, Cells, End
  <1>2. Keeps
    BY DEF IInv
  <1>3. ASSUME NEW ch \in Chars, tty_input(ch) PROVE IInv'
    <2>1. UNCHANGED console
      BY <1>3 DEF tty_input
    <2> QED  BY <1>1, <1>2, <1>3, <2>1, InputKeeps DEF IInv
  <1>4. ASSUME NEW ch \in Chars, tty_write(ch) PROVE IInv'
    <2>1. UNCHANGED <<in_buff, head, inbuf_count, typed, tail, taken, pc, loaded>> /\ out_char(ch)
      BY <1>4 DEF tty_write, ring, reader
    <2> QED  BY <1>2, <2>1, StillKeeps, ConsoleStep DEF IInv
  <1>5. ASSUME do_read_start \/ do_read_test \/ do_read_load PROVE IInv'
    <2>1. UNCHANGED console
      BY <1>5 DEF do_read_start, do_read_test, do_read_load
    <2> QED  BY <1>1, <1>2, <1>5, <2>1, MoveKeeps DEF IInv
  <1>6. CASE do_read_take
    <2>1. UNCHANGED console
      BY <1>6 DEF do_read_take
    <2> QED  BY <1>1, <1>2, <1>6, <2>1, TakeKeeps DEF IInv
  <1>7. CASE do_read_store
    <2>1. Keeps' /\ Key \in Chars
      BY <1>2, <1>7, StoreKeeps
    <2>2. UNCHANGED console \/ out_char(Key)
      BY <1>7 DEF do_read_store
    <2> QED  BY <1>1, <2>1, <2>2, ConsoleStep DEF IInv
  <1>8. CASE UNCHANGED vars
    <2>1. UNCHANGED <<in_buff, head, inbuf_count, typed, tail, taken, pc, loaded>> /\ UNCHANGED console
      BY <1>8 DEF vars, console
    <2> QED  BY <1>1, <1>2, <2>1, StillKeeps DEF IInv
  <1> QED  BY <1>3, <1>4, <1>5, <1>6, <1>7, <1>8 DEF Next, do_read

(* The invariant holds in every state of the terminal. *)
THEOREM Invariance == Spec => []IInv
  BY StartKeeps, NextInv, PTL DEF Spec

(* The ring's indices and count stay in the ring: the interrupt and the     *)
(* reader never use a place beyond it.                                      *)
THEOREM TypeCorrect == Spec => []TypeOK
  <1>1. IInv => TypeOK
    BY DEF IInv, Keeps
  <1> QED  BY <1>1, Invariance, PTL

(* The count never says more than there is: do_read takes what was typed.   *)
THEOREM CountIsNeverAhead == Spec => []NeverAhead
  <1>1. IInv => NeverAhead
    BY DEF IInv, Keeps
  <1> QED  BY <1>1, Invariance, PTL

(* The cursor stays in the terminal's own memory and on its screen, and the *)
(* screen on whole rows, at most one of which is a neighbour's.             *)
THEOREM ConsoleStays == Spec => []ConsoleOK
  <1>1. IInv => ConsoleOK
    BY DEF IInv, ConsoleOK
  <1> QED  BY <1>1, Invariance, PTL

(* Until an increment is lost, the reader takes each character once, in the *)
(* order typed.                                                             *)
THEOREM ReadInOrder == Spec => InOrder
  <1>1. IInv /\ [Next]_vars => [taken' # taken /\ Lost = 0 => Last(taken') = Len(taken')]_vars
    <2> SUFFICES ASSUME IInv, Next, taken' # taken, Lost = 0
                 PROVE  Last(taken') = Len(taken')
      OBVIOUS
    <2>1. do_read_take
      BY DEF Next, do_read, tty_input, tty_write, do_read_start, do_read_test, do_read_load,
             do_read_store, reader
    <2>2. pc = "take" /\ taken' = Append(taken, in_buff[tail])
      BY <2>1 DEF do_read_take
    <2>3. in_buff[tail] = Len(taken) + 1 /\ taken \in Seq(Nat)
      BY <2>2, Taken DEF IInv, Keeps, Reads
    <2> QED  BY <2>2, <2>3 DEF Last
  <1> QED  BY <1>1, Invariance, PTL DEF Spec, InOrder
=============================================================================
