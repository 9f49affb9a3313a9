------------------------------ MODULE HdProofs ------------------------------
(***************************************************************************)
(* A request is served right, whatever the sizes of disk, sectors and      *)
(* requests, and though the drive, the interrupt and the caller go on by   *)
(* themselves.                                                             *)
(*                                                                         *)
(* The invariant says where a request may be: each stage fixes the caller, *)
(* the handler, the drive, the line and how much was moved.                *)
(***************************************************************************)
EXTENDS HdDriver, TLAPS

Held == ({Old} \cup Data) \X Nat
Pieces == [data : Held \cup {Garbage}, len : Nat]

Requests == [cmd : {"read", "write"}, sector : Nat, count : Nat, left : Int, sent : Nat,
             asked : Nat, bytes : Int, data : {Old} \cup Data, buffer : Seq(Pieces)]
Drives == [phase : {"idle", "busy", "drq"}, cmd : {"none", "read", "write", "written"},
           at : Nat, left : Nat]

Typed ==
    /\ pc \in {"run", "queued", "asked", "bsy", "write", "drq", "spin"}
    /\ handler \in {"none", "read", "drq"}
    /\ req \in Requests /\ drive \in Drives
    /\ current \in BOOLEAN /\ status \in {"running", "interruptible"} /\ timeout \in BOOLEAN
    /\ disk \in [Sectors -> Held]
    /\ intrq \in BOOLEAN /\ irr \in BOOLEAN

(* The request of a call that has not returned lies on the disk. *)
Fits ==
    pc # "run" => /\ req.count \in Nat \ {0} /\ req.asked \in Nat \ {0}
                  /\ req.count = SectorsOf(req.asked)
                  /\ Range(req) \subseteq Sectors

(* What was moved: n sectors to the buffer, n sectors to the disk. *)
PieceLen == Least(SECTOR_SIZE, req.asked)
Filled(n) ==
    /\ n \in 0 .. req.count
    /\ req.buffer = [i \in 1 .. n |-> [data |-> disk[req.sector + i - 1], len |-> PieceLen]]
    /\ req.bytes + n * PieceLen = req.asked
Written(n) ==
    /\ n \in 0 .. req.count
    /\ \A i \in 1 .. n : disk[req.sector + i - 1] = <<req.data, i>>

Waits == current /\ status = "interruptible"
Woken == ~current /\ status = "running"
At(p, h) == pc = p /\ handler = h
DriveIs(phases, cmd, at, left) ==
    drive.phase \in phases /\ drive.cmd = cmd /\ drive.at = at /\ drive.left = left

(* The drive has nothing to do: it is idle, or busy by itself. *)
Free == drive.left = 0 /\ (drive.phase = "idle" \/ (drive.phase = "busy" /\ drive.cmd = "none"))
(* It has the whole write before it, or was never told of it. *)
WriteAhead ==
    \/ DriveIs({"busy", "drq"}, "write", req.sector, req.count)
    \/ Free /\ timeout

(* The stages of a request. *)
Fresh == req.left = req.count /\ req.sent = 0 /\ Filled(0)
Resting == At("run", "none") /\ Woken /\ Free /\ ~irr
Queued  == pc \in {"queued", "asked"} /\ handler = "none" /\ current /\ Free /\ ~irr /\ Fresh
Asking  == At("bsy", "none") /\ Waits /\ Free /\ ~irr /\ Fresh

ReadStarts ==
    /\ At("spin", "none") /\ Waits /\ req.cmd = "read"
    /\ DriveIs({"busy", "drq"}, "read", req.sector, req.count)
    /\ (intrq <=> drive.phase = "drq") /\ (irr <=> intrq)
    /\ req.left = req.count /\ Filled(0)
ReadHangs ==
    /\ At("spin", "none") /\ Waits /\ req.cmd = "read" /\ timeout
    /\ Free /\ ~irr
ReadMoves ==
    /\ At("spin", "read") /\ Waits /\ req.cmd = "read"
    /\ DriveIs(IF req.left = 0 THEN {"idle"} ELSE {"busy", "drq"}, "read",
               req.sector + (req.count - req.left), req.left)
    /\ intrq /\ ~irr
    /\ req.left \in 0 .. req.count /\ Filled(req.count - req.left)
ReadEnds ==
    /\ At("spin", "none") /\ Woken /\ req.cmd = "read"
    /\ Free /\ ~irr /\ Filled(req.count)

WriteCalled ==
    /\ At("write", "none") /\ Waits /\ req.cmd = "write"
    /\ WriteAhead /\ ~irr /\ req.left = req.count /\ req.sent = 0
WriteStarts ==
    /\ At("drq", "none") /\ Waits /\ req.cmd = "write"
    /\ WriteAhead /\ ~irr /\ req.left = req.count - 1 /\ req.sent = 0
WriteHangs ==
    /\ At("spin", "none") /\ Waits /\ req.cmd = "write" /\ timeout
    /\ WriteAhead /\ ~irr
WriteTaken ==
    /\ At("spin", "none") /\ Waits /\ req.cmd = "write"
    /\ DriveIs({"busy", IF req.left = 0 THEN "idle" ELSE "drq"}, "written",
               req.sector + req.sent, req.left)
    /\ (intrq <=> drive.phase # "busy") /\ (irr <=> intrq)
    /\ req.left \in 0 .. req.count /\ req.sent = req.count - req.left /\ Written(req.sent)
WriteMoves ==
    /\ At("spin", "drq") /\ Waits /\ req.cmd = "write"
    /\ DriveIs({"drq"}, "written", req.sector + req.sent, req.left + 1)
    /\ ~irr
    /\ req.left \in 0 .. req.count - 1 /\ req.sent = req.count - (req.left + 1)
    /\ Written(req.sent)
WriteEnds ==
    /\ At("spin", "none") /\ Woken /\ req.cmd = "write"
    /\ Free /\ ~irr /\ Written(req.count)

Reads  == ReadStarts \/ ReadHangs \/ ReadMoves \/ ReadEnds
Writes == WriteCalled \/ WriteStarts \/ WriteHangs \/ WriteTaken \/ WriteMoves \/ WriteEnds
Stages == Resting \/ Queued \/ Asking \/ Reads \/ Writes

IInv == Typed /\ Fits /\ Stages

-----------------------------------------------------------------------------
LEMMA Size == SECTOR_SIZE \in Nat \ {0}
  BY HdDriverAssumption

(* Division with remainder, and that it is the only one. *)
LEMMA Divides ==
  ASSUME NEW x \in Nat, NEW n \in Nat \ {0}
  PROVE  /\ x \div n \in Nat /\ x % n \in 0 .. n - 1
         /\ x = n * (x \div n) + (x % n)
  OBVIOUS

LEMMA RowsApart ==
  ASSUME NEW n \in Nat, NEW q \in Nat, NEW k \in Nat, q < k
  PROVE  n * q \in Nat /\ n * k \in Nat /\ n * q + n <= n * k
  <1>1. PICK j \in Nat : k = q + 1 + j
    <2>1. k - q - 1 \in Nat /\ k = q + 1 + (k - q - 1)
      OBVIOUS
    <2> QED  BY <2>1
  <1>2. n * k = n * q + n + n * j
    BY <1>1
  <1>3. n * q \in Nat /\ n * j \in Nat
    OBVIOUS
  <1> QED  BY <1>2, <1>3

LEMMA Quotient ==
  ASSUME NEW x \in Nat, NEW n \in Nat \ {0}, NEW q \in Nat, NEW r \in 0 .. n - 1,
         x = n * q + r
  PROVE  x \div n = q
  <1> DEFINE k == x \div n
             y == x % n
  <1>1. k \in Nat /\ y \in 0 .. n - 1 /\ x = n * k + y
    BY Divides
  <1> HIDE DEF k, y
  <1>2. ~ (k < q)
    <2> SUFFICES ASSUME k < q PROVE FALSE
      OBVIOUS
    <2>1. n * k + n <= n * q /\ n * k \in Nat /\ n * q \in Nat
      BY <1>1, RowsApart
    <2> QED  BY <1>1, <2>1
  <1>3. ~ (q < k)
    <2> SUFFICES ASSUME q < k PROVE FALSE
      OBVIOUS
    <2>1. n * q + n <= n * k /\ n * k \in Nat /\ n * q \in Nat
      BY <1>1, RowsApart
    <2> QED  BY <1>1, <2>1
  <1>4. k = q
    BY <1>1, <1>2, <1>3
  <1> QED  BY <1>4 DEF k

(* A request has a sector at least; and its pieces have the length that    *)
(* was asked for when the length is less than a sector or whole sectors.   *)
LEMMA SomeSectors ==
  ASSUME NEW b \in Nat \ {0}
  PROVE  SectorsOf(b) \in Nat \ {0}
  <1> DEFINE x == b + SECTOR_SIZE - 1
             k == x \div SECTOR_SIZE
  <1>1. x \in Nat /\ x >= SECTOR_SIZE
    BY Size
  <1> HIDE DEF x
  <1>2. k \in Nat /\ x % SECTOR_SIZE \in 0 .. SECTOR_SIZE - 1
        /\ x = SECTOR_SIZE * k + (x % SECTOR_SIZE)
    BY <1>1, Size, Divides
  <1>3. k # 0
    BY <1>1, <1>2, Size
  <1> QED  BY <1>2, <1>3 DEF SectorsOf, x

LEMMA Lengths ==
  ASSUME NEW b \in Nat \ {0}, Cut(b)
  PROVE  /\ \A i \in 1 .. SectorsOf(b) :
               Least(SECTOR_SIZE, b - (i - 1) * SECTOR_SIZE) = Least(SECTOR_SIZE, b)
         /\ SectorsOf(b) * Least(SECTOR_SIZE, b) = b
  <1>1. CASE b < SECTOR_SIZE
    <2>1. b + SECTOR_SIZE - 1 = SECTOR_SIZE * 1 + (b - 1)
          /\ b - 1 \in 0 .. SECTOR_SIZE - 1 /\ b + SECTOR_SIZE - 1 \in Nat
      BY <1>1, Size
    <2>2. SectorsOf(b) = 1
      BY <2>1, Size, Quotient DEF SectorsOf
    <2>3. Least(SECTOR_SIZE, b) = b
      BY <1>1, Size DEF Least
    <2>4. \A i \in 1 .. 1 : b - (i - 1) * SECTOR_SIZE = b
      BY Size
    <2> QED  BY <2>2, <2>3, <2>4
  <1>2. CASE ~ (b < SECTOR_SIZE)
    <2> DEFINE q == b \div SECTOR_SIZE
    <2>1. q \in Nat /\ b = SECTOR_SIZE * q
      BY <1>2, Size, Divides DEF Cut
    <2> HIDE DEF q
    <2>2. b + SECTOR_SIZE - 1 = SECTOR_SIZE * q + (SECTOR_SIZE - 1)
          /\ b + SECTOR_SIZE - 1 \in Nat /\ SECTOR_SIZE - 1 \in 0 .. SECTOR_SIZE - 1
      BY <2>1, Size
    <2>3. SectorsOf(b) = q
      BY <2>1, <2>2, Size, Quotient DEF SectorsOf
    <2>4. Least(SECTOR_SIZE, b) = SECTOR_SIZE
      BY <1>2, Size DEF Least
    <2>5. ASSUME NEW i \in 1 .. q
          PROVE  Least(SECTOR_SIZE, b - (i - 1) * SECTOR_SIZE) = SECTOR_SIZE
      <3>1. i - 1 \in Nat /\ i - 1 < q
        BY <2>1
      <3>2. SECTOR_SIZE * (i - 1) \in Nat /\ SECTOR_SIZE * (i - 1) + SECTOR_SIZE <= b
        BY <2>1, <3>1, Size, RowsApart
      <3>3. (i - 1) * SECTOR_SIZE = SECTOR_SIZE * (i - 1)
        BY <3>1, Size
      <3> QED  BY <3>2, <3>3, Size DEF Least
    <2>6. q * SECTOR_SIZE = b
      BY <2>1, Size
    <2> QED  BY <2>3, <2>4, <2>5, <2>6
  <1> QED  BY <1>1, <1>2

(* Appending what comes next to a sequence given by a function. *)
LEMMA AppendNext ==
  ASSUME NEW S, NEW n \in Nat, NEW f \in [1 .. n + 1 -> S], NEW s,
         s = [i \in 1 .. n |-> f[i]]
  PROVE  /\ s \in Seq(S)
         /\ Append(s, f[n + 1]) = [i \in 1 .. n + 1 |-> f[i]]
  <1>1. s \in Seq(S) /\ Len(s) = n
    OBVIOUS
  <1>2. Append(s, f[n + 1]) = [i \in 1 .. n + 1 |-> IF i = n + 1 THEN f[n + 1] ELSE s[i]]
    BY <1>1
  <1> QED  BY <1>1, <1>2

LEMMA PieceType ==
  ASSUME Typed
  PROVE  PieceLen \in Nat /\ req.asked \in Nat /\ req.count \in Nat /\ req.left \in Int
         /\ req.sector \in Nat /\ req.bytes \in Int
  BY Size DEF Typed, Requests, PieceLen, Least

(* The sectors of a request, counted from its first one. *)
LEMMA InRange ==
  ASSUME Typed, Fits, pc # "run", NEW k \in 0 .. req.count - 1
  PROVE  req.sector + k \in Sectors /\ req.sector + k \in Range(req)
  BY DEF Typed, Requests, Fits, Range

-----------------------------------------------------------------------------
(* No request is under way. *)
LEMMA Initially == Init => IInv
  <1> SUFFICES ASSUME Init PROVE IInv
    OBVIOUS
  <1>1. Typed
    <2>1. disk \in [Sectors -> Held]
      BY HdDriverAssumption DEF Init, Held
    <2>2. req \in Requests
      BY DEF Init, Requests
    <2>3. drive \in Drives
      BY DEF Init, Drives
    <2> QED  BY <2>1, <2>2, <2>3 DEF Init, Typed
  <1>2. Resting
    BY DEF Init, Resting, At, Woken, Free
  <1> QED  BY <1>1, <1>2 DEF IInv, Stages, Fits, Init

LEMMA StutterInv == IInv /\ UNCHANGED vars => IInv'
  BY DEF vars, IInv, Typed, Fits, Range, Stages, Reads, Writes, Resting, Queued, Asking, ReadStarts,
         ReadHangs, ReadMoves, ReadEnds, WriteCalled, WriteStarts, WriteHangs, WriteTaken, WriteMoves,
         WriteEnds, At, Waits, Woken, DriveIs, Free, WriteAhead, Fresh, Filled, Written, PieceLen

(* hd_rw *)
LEMMA AskInv ==
  ASSUME IInv, NEW cmd \in {"read", "write"}, NEW s \in Sectors, NEW b \in Nat \ {0},
         NEW d \in {Old} \cup Data, hd_rw(cmd, s, b, d)
  PROVE  IInv'
  <1>1. Resting /\ pc' = "queued" /\ pc = "run"
    BY DEF IInv, Stages, Reads, Writes, Queued, Asking, ReadStarts, ReadHangs, ReadMoves, ReadEnds,
           WriteCalled, WriteStarts, WriteHangs, WriteTaken, WriteMoves, WriteEnds, At, hd_rw
  <1>2. SectorsOf(b) \in Nat \ {0} /\ s \in Nat
    BY SomeSectors, HdDriverAssumption
  <1>3. Typed'
    <2>1. req' \in Requests
      BY <1>2 DEF hd_rw, Requests
    <2> QED  BY <2>1 DEF IInv, Typed, hd_rw
  <1>4. Fits'
    <2>1. s .. s + SectorsOf(b) - 1 \subseteq Sectors
      BY <1>2, HdDriverAssumption DEF hd_rw
    <2> QED  BY <1>2, <2>1 DEF Fits, Range, hd_rw
  <1>5. Queued'
    <2>1. req'.count = SectorsOf(b) /\ req'.left = req'.count /\ req'.buffer = <<>>
          /\ req'.bytes = b /\ req'.asked = b /\ req'.sent = 0
      BY DEF hd_rw
    <2>2. PieceLen' \in Nat
      BY <2>1, Size DEF PieceLen, Least
    <2>3. Filled(0)'
      <3>1. 0 * PieceLen' = 0 /\ 0 \in 0 .. req'.count
        <4>1. \A x \in Nat : 0 * x = 0
          OBVIOUS
        <4>2. 0 \in 0 .. req'.count
          BY <1>2, <2>1
        <4> QED  BY <2>2, <4>1, <4>2
      <3>2. req'.buffer = [i \in 1 .. 0 |-> [data |-> disk'[req'.sector + i - 1], len |-> PieceLen']]
        BY <2>1
      <3> QED  BY <2>1, <3>1, <3>2 DEF Filled
    <2> QED  BY <1>1, <2>1, <2>3 DEF Queued, Resting, Fresh, Free, At, hd_rw
  <1> QED  BY <1>3, <1>4, <1>5 DEF IInv, Stages

(* Every other step leaves the request what it is, but for what was moved. *)
SameRequest ==
    /\ pc # "run" /\ req'.cmd = req.cmd /\ req'.sector = req.sector /\ req'.count = req.count
    /\ req'.asked = req.asked /\ req'.data = req.data

LEMMA FitsStay == IInv /\ SameRequest => Fits'
  BY DEF IInv, Fits, SameRequest, Range

(* do_hd_request, up to the command *)
LEMMA QueueInv == IInv /\ do_hd_request => IInv'
  <1> SUFFICES ASSUME IInv, do_hd_request PROVE IInv'
    OBVIOUS
  <1>1. Queued
    BY DEF IInv, Stages, Reads, Writes, Resting, Asking, ReadStarts, ReadHangs, ReadMoves, ReadEnds,
           WriteCalled, WriteStarts, WriteHangs, WriteTaken, WriteMoves, WriteEnds, At, Caller,
           do_hd_request
  <1>2. Typed' /\ SameRequest
    BY <1>1 DEF IInv, Typed, SameRequest, Queued, do_hd_request, Caller
  <1>3. Queued'
    BY <1>1 DEF Queued, Fresh, Free, Filled, PieceLen, do_hd_request
  <1> QED  BY <1>2, <1>3, FitsStay DEF IInv, Stages

LEMMA MarkInv == IInv /\ do_hd_request_marks => IInv'
  <1> SUFFICES ASSUME IInv, do_hd_request_marks PROVE IInv'
    OBVIOUS
  <1>1. Queued
    BY DEF IInv, Stages, Reads, Writes, Resting, Asking, ReadStarts, ReadHangs, ReadMoves, ReadEnds,
           WriteCalled, WriteStarts, WriteHangs, WriteTaken, WriteMoves, WriteEnds, At, Caller,
           do_hd_request_marks
  <1>2. Typed' /\ SameRequest
    BY DEF IInv, Typed, SameRequest, do_hd_request_marks, Caller
  <1>3. Asking'
    BY <1>1 DEF Queued, Asking, At, Waits, Fresh, Free, Filled, PieceLen, do_hd_request_marks
  <1> QED  BY <1>2, <1>3, FitsStay DEF IInv, Stages

(* hd_cmd_out *)
LEMMA CommandInv == IInv /\ hd_cmd_out => IInv'
  <1> SUFFICES ASSUME IInv, hd_cmd_out PROVE IInv'
    OBVIOUS
  <1>1. Asking
    BY DEF IInv, Stages, Reads, Writes, Resting, Queued, ReadStarts, ReadHangs, ReadMoves, ReadEnds,
           WriteCalled, WriteStarts, WriteHangs, WriteTaken, WriteMoves, WriteEnds, At, Caller,
           hd_cmd_out
  <1>2. req.count \in Nat \ {0} /\ req.left = req.count /\ req.sent = 0 /\ Filled(0)
    BY <1>1 DEF IInv, Fits, Asking, At, Fresh
  <1>3. Typed' /\ SameRequest
    <2>1. drive' \in Drives
      BY <1>2 DEF IInv, Typed, Requests, Drives, hd_cmd_out
    <2> QED
      BY <2>1 DEF IInv, Typed, Requests, SameRequest, Caller, Commanded, hd_cmd_out, ReadStatus
  <1>4. /\ DriveIs({"busy", "drq"}, req.cmd, req.sector, req.count)'
        /\ drive'.phase = "busy" /\ ~intrq' /\ ~irr' /\ UNCHANGED <<req, disk>>
    BY <1>1 DEF Asking, DriveIs, hd_cmd_out, ReadStatus
  <1>5. CASE req.cmd = "read"
    <2>1. Filled(0)'
      BY <1>2, <1>4 DEF Filled, PieceLen
    <2>2. ReadStarts'
      BY <1>1, <1>2, <1>4, <1>5, <2>1
         DEF ReadStarts, Asking, At, Waits, DriveIs, hd_cmd_out, Caller, Commanded
    <2> QED  BY <1>3, <2>2, FitsStay DEF IInv, Stages, Reads
  <1>6. CASE req.cmd # "read"
    <2>1. req.cmd = "write"
      BY <1>6 DEF IInv, Typed, Requests
    <2>2. WriteCalled'
      BY <1>1, <1>2, <1>4, <2>1
         DEF WriteCalled, WriteAhead, Asking, At, Waits, DriveIs, hd_cmd_out, Caller, Commanded
    <2> QED  BY <1>3, <2>2, FitsStay DEF IInv, Stages, Writes
  <1> QED  BY <1>5, <1>6

(* A look at the status: the line is low, and nothing is remembered. *)
LEMMA LookInv == IInv /\ waitfor_look => IInv'
  <1> SUFFICES ASSUME IInv, waitfor_look PROVE IInv'
    OBVIOUS
  <1>1. Asking \/ WriteStarts
    BY DEF IInv, Stages, Reads, Writes, Resting, Queued, ReadStarts, ReadHangs, ReadMoves, ReadEnds,
           WriteCalled, WriteHangs, WriteTaken, WriteMoves, WriteEnds, At, DriveIs, Caller,
           waitfor_look
  <1>2. UNCHANGED <<pc, handler, req, current, status, timeout, drive, disk, irr>> /\ intrq' = FALSE
    BY DEF waitfor_look, ReadStatus, driver
  <1>3. Typed' /\ Fits'
    BY <1>2 DEF IInv, Typed, Fits, Range
  <1>4. Asking' \/ WriteStarts'
    BY <1>1, <1>2 DEF Asking, WriteStarts, At, Waits, DriveIs, WriteAhead, Free, Fresh, Filled, PieceLen
  <1> QED  BY <1>3, <1>4 DEF IInv, Stages, Writes

(* waitfor gives up: on a drive that is busy by itself, or in do_write. *)
LEMMA GiveUpInv == IInv /\ waitfor_gives_up => IInv'
  <1> SUFFICES ASSUME IInv, waitfor_gives_up PROVE IInv'
    OBVIOUS
  <1>1. (Asking /\ Commanded) \/ (WriteStarts /\ pc' = "spin")
    BY DEF IInv, Stages, Reads, Writes, Resting, Queued, Asking, ReadStarts, ReadHangs, ReadMoves,
           ReadEnds, WriteCalled, WriteStarts, WriteHangs, WriteTaken, WriteMoves, WriteEnds, At,
           DriveIs, Caller, waitfor_gives_up, GivesUp
  <1>2. UNCHANGED <<req, handler, current, status, drive, disk, irr>> /\ timeout' = TRUE
        /\ intrq' = FALSE
    BY <1>1 DEF waitfor_gives_up, GivesUp, ReadStatus, Asking, WriteStarts, At
  <1>3. Typed' /\ SameRequest
    BY <1>1, <1>2 DEF IInv, Typed, SameRequest, Commanded, Asking, WriteStarts, At
  <1>4. CASE WriteStarts /\ pc' = "spin"
    <2>1. WriteHangs'
      BY <1>2, <1>4 DEF WriteStarts, WriteHangs, WriteAhead, Free, At, Waits, DriveIs
    <2> QED  BY <1>3, <2>1, FitsStay DEF IInv, Stages, Writes
  <1>5. CASE Asking /\ Commanded /\ req.cmd = "read"
    <2>1. ReadHangs'
      BY <1>2, <1>5 DEF Asking, Commanded, ReadHangs, Free, At, Waits
    <2> QED  BY <1>3, <2>1, FitsStay DEF IInv, Stages, Reads
  <1>6. CASE Asking /\ Commanded /\ req.cmd # "read"
    <2>1. req.cmd = "write"
      BY <1>6 DEF IInv, Typed, Requests
    <2>2. WriteCalled'
      BY <1>2, <1>6, <2>1 DEF Asking, Commanded, WriteCalled, WriteAhead, Free, Fresh, At, Waits
    <2> QED  BY <1>3, <2>2, FitsStay DEF IInv, Stages, Writes
  <1> QED  BY <1>1, <1>4, <1>5, <1>6

(* do_write, called after the command: no interrupt has come in between. *)
LEMMA CalledInv == IInv /\ do_write => IInv'
  <1> SUFFICES ASSUME IInv, do_write PROVE IInv'
    OBVIOUS
  <1>1. WriteCalled
    BY DEF IInv, Stages, Reads, Writes, Resting, Queued, Asking, ReadStarts, ReadHangs, ReadMoves,
           ReadEnds, WriteStarts, WriteHangs, WriteTaken, WriteMoves, WriteEnds, At, Caller, do_write
  <1>2. req.count \in Nat \ {0} /\ req.left = req.count /\ current
    BY <1>1 DEF IInv, Fits, WriteCalled, At, Waits
  <1>3. /\ pc' = "drq" /\ req' = Counted
        /\ UNCHANGED <<handler, current, status, timeout, drive, disk, intrq, irr>>
    BY <1>2 DEF do_write
  <1>4. req' \in Requests /\ SameRequest /\ req'.left = req.left - 1 /\ req'.sent = req.sent
    BY <1>1, <1>3 DEF IInv, Typed, Requests, Counted, SameRequest, WriteCalled, At
  <1>5. Typed'
    BY <1>3, <1>4 DEF IInv, Typed
  <1>6. WriteStarts'
    BY <1>1, <1>3, <1>4 DEF WriteCalled, WriteStarts, WriteAhead, Free, At, Waits, DriveIs, SameRequest
  <1> QED  BY <1>4, <1>5, <1>6, FitsStay DEF IInv, Stages, Writes

(* The drive by itself: it raises nothing. *)
LEMMA RestsInv == IInv /\ DriveRests => IInv'
  <1> SUFFICES ASSUME IInv, DriveRests PROVE IInv'
    OBVIOUS
  <1>1. Resting
    BY DEF IInv, Stages, Reads, Writes, Queued, Asking, ReadStarts, ReadHangs, ReadMoves, ReadEnds,
           WriteCalled, WriteStarts, WriteHangs, WriteTaken, WriteMoves, WriteEnds, At, DriveRests
  <1>2. drive' \in Drives /\ drive'.phase = "busy" /\ drive'.cmd = "none" /\ drive'.left = drive.left
    BY DEF IInv, Typed, Drives, DriveRests
  <1>3. Typed' /\ Fits'
    BY <1>2 DEF IInv, Typed, Fits, Range, DriveRests, driver
  <1>4. Resting'
    BY <1>1, <1>2 DEF Resting, Free, At, Woken, DriveRests, driver
  <1> QED  BY <1>3, <1>4 DEF IInv, Stages

LEMMA FreeStays ==
  ASSUME Typed, Free, DriveReady
  PROVE  Free' /\ UNCHANGED irr
  BY DEF Typed, Drives, Free, DriveReady, Quiet

(* DriveReady: a rise where a command waits for an answer, none before the *)
(* first sector of a write, and none that is remembered while do_read has  *)
(* not let the line down.                                                  *)
LEMMA ReadyInv == IInv /\ DriveReady => IInv'
  <1> SUFFICES ASSUME IInv, DriveReady PROVE IInv'
    OBVIOUS
  <1>1. UNCHANGED <<pc, handler, req, current, status, timeout, disk>>
    BY DEF DriveReady, driver
  <1>2. /\ drive.phase = "busy" /\ drive'.phase = (IF drive.left > 0 THEN "drq" ELSE "idle")
        /\ drive'.cmd = drive.cmd /\ drive'.at = drive.at /\ drive'.left = drive.left
    BY DEF IInv, Typed, Drives, DriveReady
  <1>3. drive' \in Drives
    BY DEF IInv, Typed, Drives, DriveReady
  <1>4. Typed' /\ Fits'
    BY <1>1, <1>3 DEF IInv, Typed, Fits, Range, DriveReady, Quiet, Raise
  <1>5. CASE Resting \/ Queued \/ Asking \/ ReadHangs \/ ReadEnds \/ WriteEnds
    <2>1. Free' /\ UNCHANGED irr
      BY <1>5, FreeStays DEF IInv, Resting, Queued, Asking, ReadHangs, ReadEnds, WriteEnds
    <2>2. \A n : (Filled(n) => Filled(n)') /\ (Written(n) => Written(n)')
      BY <1>1 DEF Filled, Written, PieceLen
    <2>3. CASE Resting
      BY <1>1, <1>4, <2>1, <2>3 DEF Resting, At, Woken, IInv, Stages
    <2>4. CASE Queued \/ Asking
      <3>1. Filled(0)'
        BY <2>2, <2>4 DEF Queued, Asking, Fresh
      <3>2. Queued' \/ Asking'
        BY <1>1, <2>1, <2>4, <3>1 DEF Queued, Asking, Fresh, At, Waits
      <3> QED  BY <1>4, <3>2 DEF IInv, Stages
    <2>5. CASE ReadHangs
      BY <1>1, <1>4, <2>1, <2>5 DEF ReadHangs, At, Waits, IInv, Stages, Reads
    <2>6. CASE ReadEnds
      <3>1. Filled(req.count)'
        BY <1>1, <2>6 DEF ReadEnds, Filled, PieceLen
      <3> QED  BY <1>1, <1>4, <2>1, <2>6, <3>1 DEF ReadEnds, At, Woken, IInv, Stages, Reads
    <2>7. CASE WriteEnds
      <3>1. Written(req.count)'
        BY <1>1, <2>7 DEF WriteEnds, Written
      <3> QED  BY <1>1, <1>4, <2>1, <2>7, <3>1 DEF WriteEnds, At, Woken, IInv, Stages, Writes
    <2> QED  BY <1>5, <2>3, <2>4, <2>5, <2>6, <2>7
  <1>6. CASE ReadStarts
    <2>1. req.count \in Nat \ {0}
      BY <1>6 DEF IInv, Fits, ReadStarts, At
    <2>2. intrq' = TRUE /\ irr' = TRUE
      BY <1>2, <1>6 DEF ReadStarts, DriveIs, DriveReady, Raise
    <2>3. drive'.phase = "drq"
      BY <1>2, <1>6, <2>1 DEF ReadStarts, DriveIs
    <2>4. Filled(0)'
      BY <1>1, <1>6 DEF ReadStarts, Filled, PieceLen
    <2>5. ReadStarts'
      BY <1>1, <1>2, <1>6, <2>2, <2>3, <2>4 DEF ReadStarts, At, Waits, DriveIs
    <2> QED  BY <1>4, <2>5 DEF IInv, Stages, Reads
  <1>7. CASE ReadMoves
    <2>1. req.left \in Nat /\ req.left # 0 /\ drive.left = req.left /\ drive.cmd = "read"
      BY <1>2, <1>7 DEF IInv, Typed, Requests, ReadMoves, DriveIs
    <2>2. intrq' = TRUE /\ irr' = FALSE /\ drive'.phase = "drq"
      BY <1>2, <1>7, <2>1 DEF IInv, Typed, ReadMoves, DriveReady, Raise
    <2>3. Filled(req.count - req.left)'
      BY <1>1, <1>7 DEF ReadMoves, Filled, PieceLen
    <2>4. ReadMoves'
      BY <1>1, <1>2, <1>7, <2>1, <2>2, <2>3 DEF ReadMoves, At, Waits, DriveIs
    <2> QED  BY <1>4, <2>4 DEF IInv, Stages, Reads
  <1>8. CASE WriteCalled \/ WriteStarts \/ WriteHangs
    <2>1. WriteAhead /\ req.count \in Nat \ {0}
      BY <1>8 DEF IInv, Fits, WriteCalled, WriteStarts, WriteHangs, At
    <2>2. WriteAhead' /\ UNCHANGED irr
      <3>1. CASE Free /\ timeout
        BY <1>1, <3>1, FreeStays DEF IInv, WriteAhead
      <3>2. CASE DriveIs({"busy", "drq"}, "write", req.sector, req.count)
        BY <1>1, <1>2, <2>1, <3>2 DEF DriveIs, WriteAhead, DriveReady, Quiet
      <3> QED  BY <2>1, <3>1, <3>2 DEF WriteAhead
    <2>3. WriteCalled' \/ WriteStarts' \/ WriteHangs'
      BY <1>1, <1>8, <2>2 DEF WriteCalled, WriteStarts, WriteHangs, At, Waits
    <2> QED  BY <1>4, <2>3 DEF IInv, Stages, Writes
  <1>9. CASE WriteTaken
    <2>1. intrq' = TRUE /\ irr' = TRUE
      BY <1>2, <1>9 DEF WriteTaken, DriveIs, DriveReady, Raise
    <2>2. drive'.phase = (IF req.left = 0 THEN "idle" ELSE "drq")
      BY <1>2, <1>9 DEF IInv, Typed, Requests, WriteTaken, DriveIs
    <2>3. Written(req.sent)'
      BY <1>1, <1>9 DEF WriteTaken, Written
    <2>4. WriteTaken'
      BY <1>1, <1>2, <1>9, <2>1, <2>2, <2>3 DEF WriteTaken, At, Waits, DriveIs
    <2> QED  BY <1>4, <2>4 DEF IInv, Stages, Writes
  <1>10. ~ WriteMoves
    BY <1>2 DEF WriteMoves, DriveIs
  <1> QED  BY <1>5, <1>6, <1>7, <1>8, <1>9, <1>10 DEF IInv, Stages, Reads, Writes

(* do_write_send *)
LEMMA SendInv == IInv /\ do_write_send => IInv'
  <1> SUFFICES ASSUME IInv, do_write_send PROVE IInv'
    OBVIOUS
  <1>1. WriteStarts \/ WriteMoves
    BY DEF IInv, Stages, Reads, Writes, Resting, Queued, Asking, ReadStarts, ReadHangs, ReadMoves,
           ReadEnds, WriteCalled, WriteHangs, WriteTaken, WriteEnds, At, Caller, do_write_send
  <1> DEFINE k == req.sent
  <1>2. /\ req.count \in Nat \ {0} /\ req.left \in 0 .. req.count - 1
        /\ req.sector \in Nat /\ k \in 0 .. req.count - 1 /\ req.count - req.left = k + 1
        /\ req.cmd = "write" /\ pc # "run"
    <2>1. req.count \in Nat \ {0} /\ req.left \in Int /\ req.sector \in Nat
          /\ req.cmd = "write" /\ pc # "run"
      BY <1>1 DEF IInv, Typed, Requests, Fits, WriteStarts, WriteMoves, At
    <2>2. CASE WriteStarts
      BY <2>1, <2>2 DEF WriteStarts
    <2>3. CASE WriteMoves
      BY <2>1, <2>3 DEF WriteMoves
    <2> QED  BY <1>1, <2>1, <2>2, <2>3
  <1> HIDE DEF k
  <1>3. Written(k) /\ drive.at = req.sector + k /\ drive.left = req.left + 1 /\ drive.cmd # "read"
    <2>1. CASE WriteStarts
      <3>1. k = 0
        BY <2>1 DEF WriteStarts, k
      <3>2. Written(0)
        BY <1>2 DEF Written
      <3>3. Written(k)
        BY <3>1, <3>2 DEF Written
      <3>4. DriveIs({"busy", "drq"}, "write", req.sector, req.count)
        BY <2>1 DEF WriteStarts, WriteAhead, Free, do_write_send
      <3>5. drive.at = req.sector + k /\ drive.left = req.left + 1 /\ drive.cmd # "read"
        BY <1>2, <3>1, <3>4 DEF DriveIs
      <3> QED  BY <3>3, <3>5
    <2>2. CASE WriteMoves
      BY <2>2 DEF WriteMoves, DriveIs, k
    <2> QED  BY <1>1, <2>1, <2>2
  <1>4. req.sector + k \in Sectors
    BY <1>2, InRange DEF IInv
  <1>5. /\ drive'.phase = "busy" /\ drive'.cmd = "written" /\ drive'.at = req.sector + (k + 1)
        /\ drive'.left = req.left
    <2>1. /\ drive'.phase = "busy" /\ drive'.cmd = "written" /\ drive'.at = drive.at + 1
          /\ drive'.left = drive.left - 1
      BY <1>3 DEF IInv, Typed, Drives, do_write_send, port_write
    <2> QED  BY <1>2, <1>3, <2>1
  <1>6. drive' \in Drives
    <2>1. drive \in Drives /\ drive.at + 1 \in Nat /\ drive.left - 1 \in Nat
      BY <1>2, <1>3 DEF IInv, Typed, Drives
    <2> QED  BY <1>3, <2>1 DEF Drives, do_write_send, port_write
  <1>7. /\ UNCHANGED <<current, status, timeout, irr>> /\ intrq' = FALSE
        /\ pc' = "spin" /\ handler' = "none"
    BY <1>1 DEF do_write_send, ReadStatus, WriteStarts, WriteMoves, At, Caller
  <1>8. req' \in Requests /\ req'.left = req.left /\ req'.sent = k + 1 /\ SameRequest
    <2>1. req \in Requests /\ req.bytes - Least(SECTOR_SIZE, req.bytes) \in Int
          /\ req.sent + 1 \in Nat
      BY Size DEF IInv, Typed, Requests, Least
    <2> QED  BY <1>2, <2>1 DEF Requests, SameRequest, do_write_send, Sent, k
  <1>9. disk' = [disk EXCEPT ![req.sector + k] = <<req.data, k + 1>>]
    BY <1>3 DEF do_write_send, port_write, NextOut, k
  <1>10. <<req.data, k + 1>> \in Held
    BY <1>2 DEF IInv, Typed, Requests, Held
  <1>11. Typed'
    BY <1>4, <1>6, <1>7, <1>8, <1>9, <1>10 DEF IInv, Typed
  <1>12. Written(req.sent)'
    <2>1. k + 1 \in 0 .. req.count
      BY <1>2
    <2>2. ASSUME NEW i \in 1 .. k + 1 PROVE disk'[req.sector + i - 1] = <<req.data, i>>
      <3>1. CASE i = k + 1
        <4>1. req.sector + i - 1 = req.sector + k
          BY <1>2, <3>1
        <4> QED  BY <1>4, <1>9, <3>1, <4>1 DEF IInv, Typed
      <3>2. CASE i # k + 1
        <4>1. i \in 1 .. k /\ req.sector + i - 1 # req.sector + k
          BY <1>2, <3>2
        <4>2. disk[req.sector + i - 1] = <<req.data, i>>
          BY <1>3, <4>1 DEF Written
        <4>3. disk'[req.sector + i - 1] = disk[req.sector + i - 1]
          <5>1. i - 1 \in 0 .. req.count - 1 /\ req.sector + (i - 1) = req.sector + i - 1
            BY <1>2, <4>1
          <5>2. req.sector + i - 1 \in Sectors
            BY <1>2, <5>1, InRange DEF IInv
          <5> QED  BY <1>9, <4>1, <5>2 DEF IInv, Typed
        <4> QED  BY <4>2, <4>3
      <3> QED  BY <3>1, <3>2
    <2> QED  BY <1>8, <2>1, <2>2 DEF Written, SameRequest
  <1>13. WriteTaken'
    <2>1. req'.sent = req'.count - req'.left /\ req'.left \in 0 .. req'.count /\ req'.cmd = "write"
          /\ req'.sector = req.sector
      BY <1>2, <1>8 DEF SameRequest
    <2>2. Waits' /\ ~irr'
      BY <1>1, <1>7 DEF Waits, WriteStarts, WriteMoves
    <2> QED  BY <1>5, <1>7, <1>8, <1>12, <2>1, <2>2 DEF WriteTaken, At, DriveIs
  <1> QED  BY <1>8, <1>11, <1>13, FitsStay DEF IInv, Stages, Writes

(* hd_handler: an interrupt comes when the request waits for one. *)
LEMMA InterruptInv == IInv /\ hd_handler => IInv'
  <1> SUFFICES ASSUME IInv, hd_handler PROVE IInv'
    OBVIOUS
  <1>1. ReadStarts \/ WriteTaken
    BY DEF IInv, Stages, Reads, Writes, Resting, Queued, Asking, ReadHangs, ReadMoves, ReadEnds,
           WriteCalled, WriteStarts, WriteHangs, WriteMoves, WriteEnds, hd_handler
  <1>2. UNCHANGED <<pc, timeout, drive, disk, intrq>> /\ irr' = FALSE /\ intrq /\ pc = "spin"
        /\ current /\ handler = "none"
    BY <1>1 DEF hd_handler, Callbacks, ReadStarts, WriteTaken, At, Waits
  <1>3. req.count \in Nat \ {0} /\ req.left \in 0 .. req.count /\ req.sector \in Nat
    BY <1>1, <1>2 DEF IInv, Typed, Requests, Fits, ReadStarts, WriteTaken
  <1>4. CASE ReadStarts
    <2>1. UNCHANGED <<req, current, status>> /\ handler' = "read"
      BY <1>2, <1>4 DEF hd_handler, Callbacks, ReadStarts
    <2>2. Typed' /\ SameRequest
      BY <1>2, <2>1 DEF IInv, Typed, SameRequest
    <2>3. Filled(req.count - req.left)'
      BY <1>2, <1>3, <1>4, <2>1 DEF ReadStarts, Filled, PieceLen
    <2>4. drive.phase = "drq" /\ req.left # 0 /\ req.count - req.left = 0
      BY <1>2, <1>3, <1>4 DEF ReadStarts, DriveIs
    <2>5. ReadMoves'
      BY <1>2, <1>3, <1>4, <2>1, <2>3, <2>4 DEF ReadStarts, ReadMoves, At, Waits, DriveIs
    <2> QED  BY <2>2, <2>5, FitsStay DEF IInv, Stages, Reads
  <1>5. CASE WriteTaken /\ req.left # 0
    <2>1. UNCHANGED <<current, status>> /\ handler' = "drq" /\ req' = Counted
      BY <1>2, <1>5 DEF hd_handler, Callbacks, WriteTaken
    <2>2. req' \in Requests /\ SameRequest /\ req'.left = req.left - 1 /\ req'.sent = req.sent
      BY <1>2, <1>3, <2>1 DEF IInv, Typed, Requests, SameRequest, Counted
    <2>3. Typed'
      BY <1>2, <2>1, <2>2 DEF IInv, Typed
    <2>4. drive.phase = "drq" /\ req'.left + 1 = req.left /\ req'.left \in 0 .. req'.count - 1
      <3>1. drive.phase = "drq"
        BY <1>2, <1>5 DEF WriteTaken, DriveIs
      <3>2. req'.left = req.left - 1 /\ req'.count = req.count /\ req.left # 0
        BY <1>5, <2>2 DEF SameRequest
      <3> QED  BY <1>3, <3>1, <3>2
    <2>5. req'.sent = req'.count - (req'.left + 1)
      BY <1>5, <2>2, <2>4 DEF SameRequest, WriteTaken
    <2>6. Written(req.sent)'
      BY <1>2, <1>5, <2>2 DEF WriteTaken, Written, SameRequest
    <2>7. WriteMoves'
      BY <1>2, <1>5, <2>1, <2>2, <2>4, <2>5, <2>6
         DEF WriteTaken, WriteMoves, SameRequest, At, Waits, DriveIs
    <2> QED  BY <2>2, <2>3, <2>7, FitsStay DEF IInv, Stages, Writes
  <1>6. CASE WriteTaken /\ req.left = 0
    <2>1. req' = Counted /\ UNCHANGED handler /\ status' = "running" /\ current' = FALSE
      BY <1>2, <1>6 DEF hd_handler, Callbacks, WriteTaken, Done
    <2>2. req' \in Requests /\ SameRequest
      BY <1>2, <1>3, <2>1 DEF IInv, Typed, Requests, SameRequest, Counted
    <2>3. Typed'
      BY <1>2, <2>1, <2>2 DEF IInv, Typed
    <2>4. Free'
      BY <1>2, <1>6 DEF WriteTaken, DriveIs, Free
    <2>5. Written(req.count)'
      <3>1. req.sent = req.count
        BY <1>3, <1>6 DEF WriteTaken
      <3>2. Written(req.count)
        BY <1>6, <3>1 DEF WriteTaken
      <3> QED  BY <1>2, <2>2, <3>2 DEF Written, SameRequest
    <2>6. WriteEnds'
      BY <1>2, <1>6, <2>1, <2>2, <2>4, <2>5 DEF WriteTaken, WriteEnds, At, Woken, SameRequest
    <2> QED  BY <2>2, <2>3, <2>6, FitsStay DEF IInv, Stages, Writes
  <1> QED  BY <1>1, <1>4, <1>5, <1>6

(* do_read: one sector more, if it is there, or the end *)
LEMMA MoveInv == IInv /\ do_read => late' \/ IInv'
  <1> SUFFICES ASSUME IInv, do_read, ~late' PROVE IInv'
    OBVIOUS
  <1>1. ReadMoves
    BY DEF IInv, Stages, Reads, Writes, Resting, Queued, Asking, ReadStarts, ReadHangs, ReadEnds,
           WriteCalled, WriteStarts, WriteHangs, WriteTaken, WriteMoves, WriteEnds, At, do_read
  <1>2. UNCHANGED <<pc, timeout, disk>> /\ pc = "spin" /\ handler = "read" /\ req.cmd = "read"
    BY <1>1 DEF do_read, ReadMoves, At
  <1>3. req.count \in Nat \ {0} /\ req.left \in 0 .. req.count /\ req.sector \in Nat
        /\ PieceLen \in Nat
    BY <1>1, <1>2, PieceType DEF IInv, Typed, Requests, Fits, ReadMoves
  <1>4. CASE req.left # 0
    <2> DEFINE n == req.count - req.left
               held(i) == [data |-> disk[req.sector + i - 1], len |-> PieceLen]
               f == [i \in 1 .. n + 1 |-> held(i)]
    <2>1. n \in 0 .. req.count - 1 /\ n \in Nat /\ n + 1 \in 1 .. n + 1
      BY <1>3, <1>4
    <2>2. /\ UNCHANGED <<handler, current, status>> /\ req' = Moved /\ port_read /\ Gives
          /\ drive.at = req.sector + n /\ drive.left = req.left /\ drive.cmd = "read"
      <3>1. UNCHANGED <<handler, current, status>> /\ req' = Moved /\ port_read /\ Gives
        BY <1>4 DEF do_read
      <3>2. drive.at = req.sector + n /\ drive.left = req.left /\ drive.cmd = "read"
        BY <1>1 DEF ReadMoves, DriveIs
      <3> QED  BY <3>1, <3>2
    <2>3. req.buffer = [i \in 1 .. n |-> held(i)] /\ req.bytes + n * PieceLen = req.asked
      BY <1>1 DEF ReadMoves, Filled
    <2> HIDE DEF n
    <2>4. f \in [1 .. n + 1 -> Pieces]
      <3> SUFFICES ASSUME NEW i \in 1 .. n + 1 PROVE held(i) \in Pieces
        OBVIOUS
      <3>1. i - 1 \in 0 .. req.count - 1 /\ req.sector + (i - 1) = req.sector + i - 1
        BY <1>3, <2>1
      <3>2. req.sector + i - 1 \in Sectors
        BY <1>2, <3>1, InRange DEF IInv
      <3> QED  BY <1>3, <3>2 DEF IInv, Typed, Pieces
    <2>5. req.buffer = [i \in 1 .. n |-> f[i]]
      BY <2>1, <2>3
    <2>6. f[n + 1] = Piece
      <3>1. req.sector + (n + 1) - 1 = req.sector + n
        BY <1>3, <2>1
      <3> QED  BY <2>1, <2>2, <3>1 DEF Piece, PortData, PieceLen
    <2> HIDE DEF f
    <2>7. Append(req.buffer, f[n + 1]) = [i \in 1 .. n + 1 |-> f[i]]
      BY <2>1, <2>4, <2>5, AppendNext
    <2>8. Append(req.buffer, f[n + 1]) \in Seq(Pieces)
      BY <2>1, <2>4, <2>7
    <2>9. req' \in Requests /\ SameRequest /\ req'.left = req.left - 1
          /\ req'.buffer = Append(req.buffer, f[n + 1]) /\ req'.bytes = req.bytes - PieceLen
      <3>1. req.left - 1 \in Nat /\ req.bytes - PieceLen \in Int /\ req \in Requests
        BY <1>3, <1>4 DEF IInv, Typed, Requests
      <3>2. Piece.len = PieceLen
        BY DEF Piece, PieceLen
      <3>3. req' = [req EXCEPT !.left = @ - 1, !.buffer = Append(@, Piece), !.bytes = @ - Piece.len]
        BY <2>2, <3>1 DEF Moved, Counted, Requests
      <3>4. /\ req'.left = req.left - 1 /\ req'.buffer = Append(req.buffer, f[n + 1])
            /\ req'.bytes = req.bytes - PieceLen
        BY <2>6, <3>1, <3>2, <3>3 DEF Requests
      <3>5. req' \in Requests
        <4>1. req'.buffer \in Seq(Pieces) /\ req'.left \in Int /\ req'.bytes \in Int
          BY <1>3, <2>8, <3>1, <3>4
        <4>2. req' = [req EXCEPT !.left = req'.left, !.buffer = req'.buffer, !.bytes = req'.bytes]
          BY <3>1, <3>3, <3>4 DEF Requests
        <4> QED  BY <3>1, <4>1, <4>2 DEF Requests
      <3>6. SameRequest
        BY <1>2, <3>1, <3>3 DEF SameRequest, Requests
      <3> QED  BY <3>4, <3>5, <3>6
    <2>10. req'.count - req'.left = n + 1 /\ req'.count = req.count /\ req'.sector = req.sector
           /\ req'.asked = req.asked /\ req'.cmd = "read"
      BY <1>2, <1>3, <2>9 DEF SameRequest, n
    <2>11. Filled(req.count - req.left)'
      <3>1. PieceLen' = PieceLen
        BY <2>10 DEF PieceLen
      <3>2. req'.buffer = [i \in 1 .. n + 1 |->
                [data |-> disk'[req'.sector + i - 1], len |-> PieceLen']]
        BY <1>2, <2>7, <2>9, <2>10, <3>1 DEF f
      <3>3. (n + 1) * PieceLen = n * PieceLen + PieceLen /\ n * PieceLen \in Nat
        BY <1>3, <2>1
      <3>4. req'.bytes + (n + 1) * PieceLen = req.asked
        BY <1>3, <2>3, <2>9, <3>3 DEF IInv, Typed, Requests
      <3>5. n + 1 \in 0 .. req'.count
        BY <1>3, <2>1, <2>10
      <3> QED  BY <2>10, <3>1, <3>2, <3>4, <3>5 DEF Filled
    <2>12. /\ drive'.at = req.sector + (n + 1) /\ drive'.left = req'.left /\ drive'.cmd = "read"
           /\ drive'.phase \in (IF req'.left = 0 THEN {"idle"} ELSE {"busy", "drq"})
           /\ drive' \in Drives /\ intrq' = TRUE /\ irr' = FALSE
      <3>1. drive \in Drives /\ drive.at + 1 = req.sector + (n + 1) /\ drive.at + 1 \in Nat
            /\ drive.left - 1 = req'.left /\ drive.left - 1 \in Nat
            /\ (drive.left = 1 <=> req'.left = 0)
        <4>1. drive.at + 1 = req.sector + (n + 1) /\ drive.at + 1 \in Nat
          BY <1>3, <2>1, <2>2
        <4>2. drive.left - 1 = req'.left /\ drive.left - 1 \in Nat /\ (drive.left = 1 <=> req'.left = 0)
          BY <1>3, <1>4, <2>2, <2>9
        <4> QED  BY <4>1, <4>2 DEF IInv, Typed
      <3>2. PICK phase \in IF drive.left = 1 THEN {"idle"} ELSE {"drq", "busy"} :
                /\ drive' = [drive EXCEPT !.at = @ + 1, !.left = @ - 1, !.phase = phase]
                /\ IF phase = "drq" THEN Raise ELSE Quiet
        BY <2>2 DEF port_read
      <3>3. intrq' = TRUE /\ irr' = FALSE
        BY <1>1, <3>2 DEF Raise, Quiet, ReadMoves, IInv, Typed
      <3>4. phase \in IF req'.left = 0 THEN {"idle"} ELSE {"busy", "drq"}
        BY <3>1, <3>2
      <3> QED  BY <2>2, <3>1, <3>2, <3>3, <3>4 DEF Drives
    <2>14. Typed'
      BY <1>2, <2>2, <2>9, <2>12 DEF IInv, Typed
    <2>15. ReadMoves'
      <3>1. req'.left \in 0 .. req'.count
        BY <1>3, <1>4, <2>9, <2>10
      <3> QED
        BY <1>1, <1>2, <2>2, <2>10, <2>11, <2>12, <3>1 DEF ReadMoves, At, Waits, DriveIs
    <2> QED  BY <2>9, <2>14, <2>15, FitsStay DEF IInv, Stages, Reads
  <1>5. CASE req.left = 0
    <2>1. UNCHANGED <<drive, intrq, irr>> /\ handler' = "none" /\ req' = Counted
          /\ status' = "running" /\ current' = FALSE
      BY <1>5 DEF do_read, Done
    <2>2. req' \in Requests /\ SameRequest /\ req'.buffer = req.buffer /\ req'.bytes = req.bytes
      BY <1>2, <1>3, <2>1 DEF IInv, Typed, Requests, SameRequest, Counted
    <2>3. Typed'
      BY <1>2, <2>1, <2>2 DEF IInv, Typed
    <2>4. Filled(req.count)'
      <3>1. req.count - req.left = req.count
        BY <1>3, <1>5
      <3>2. Filled(req.count)
        BY <1>1, <3>1 DEF ReadMoves
      <3> QED  BY <1>2, <2>2, <3>2 DEF Filled, PieceLen, SameRequest
    <2>5. Free'
      BY <1>1, <1>5, <2>1 DEF ReadMoves, DriveIs, Free
    <2>6. ReadEnds'
      BY <1>1, <1>2, <2>1, <2>2, <2>4, <2>5 DEF ReadMoves, ReadEnds, At, Woken, SameRequest
    <2> QED  BY <2>2, <2>3, <2>6, FitsStay DEF IInv, Stages, Reads
  <1> QED  BY <1>4, <1>5

(* interrupt_wait *)
LEMMA WaitInv == IInv /\ interrupt_wait => IInv'
  <1> SUFFICES ASSUME IInv, interrupt_wait PROVE IInv'
    OBVIOUS
  <1>1. UNCHANGED <<handler, req, current, status, timeout, late, drive, disk, intrq, irr>>
        /\ pc = "spin" /\ handler = "none" /\ pc' = (IF status = "running" THEN "run" ELSE "spin")
    BY DEF interrupt_wait, Caller
  <1>2. CASE status = "running"
    <2>1. ReadEnds \/ WriteEnds
      BY <1>1, <1>2 DEF IInv, Stages, Reads, Writes, Resting, Queued, Asking, ReadStarts, ReadHangs,
             ReadMoves, WriteCalled, WriteStarts, WriteHangs, WriteTaken, WriteMoves, At, Waits
    <2>2. Resting'
      BY <1>1, <1>2, <2>1 DEF ReadEnds, WriteEnds, Resting, Free, At, Woken
    <2>3. Typed' /\ Fits'
      BY <1>1, <1>2 DEF IInv, Typed, Fits
    <2> QED  BY <2>2, <2>3 DEF IInv, Stages
  <1>3. CASE status # "running"
    <2>1. UNCHANGED vars
      BY <1>1, <1>3 DEF vars
    <2> QED  BY <2>1, StutterInv
  <1> QED  BY <1>2, <1>3

(* The steps that only late interrupts lead to are not taken. *)
LEMMA NotReached == IInv => ~ do_write_ends /\ ~ wild
  BY DEF IInv, Typed, do_write_ends, wild, Caller

LEMMA NextInv == IInv /\ [Next]_vars => late' \/ IInv'
  <1> SUFFICES ASSUME IInv, [Next]_vars PROVE late' \/ IInv'
    OBVIOUS
  <1>1. ASSUME NEW s \in Sectors, NEW b \in ReadSizes, hd_rw("read", s, b, Old) PROVE IInv'
    BY <1>1, AskInv, HdDriverAssumption
  <1>2. ASSUME NEW s \in Sectors, NEW b \in WriteSizes, NEW d \in Data, hd_rw("write", s, b, d)
        PROVE  IInv'
    BY <1>2, AskInv, HdDriverAssumption
  <1>3. CASE Waiter
    BY <1>3, QueueInv, MarkInv, CommandInv, CalledInv, NotReached, SendInv, WaitInv DEF Waiter
  <1>4. CASE Interrupt
    BY <1>4, InterruptInv, MoveInv DEF Interrupt
  <1>5. CASE waitfor_look \/ waitfor_gives_up \/ DriveReady \/ DriveRests
    BY <1>5, LookInv, GiveUpInv, ReadyInv, RestsInv
  <1>6. CASE wild \/ UNCHANGED vars
    BY <1>6, NotReached, StutterInv
  <1> QED  BY <1>1, <1>2, <1>3, <1>4, <1>5, <1>6 DEF Next

(* What was late stays so. *)
LEMMA LateStays == late /\ [Next]_vars => late'
  BY DEF Next, Waiter, Interrupt, hd_rw, do_hd_request, do_hd_request_marks, hd_cmd_out, do_write,
         do_write_ends, do_write_send, interrupt_wait, hd_handler, do_read, waitfor_look,
         waitfor_gives_up, DriveReady, DriveRests, wild, driver, vars

(* The stages are kept until do_read takes a sector that is not there.     *)
THEOREM Invariance == Spec => [](late \/ IInv)
  <1>1. Init => late \/ IInv
    BY Initially
  <1>2. (late \/ IInv) /\ [Next]_vars => (late \/ IInv)'
    BY NextInv, LateStays
  <1> QED  BY <1>1, <1>2, PTL DEF Spec

-----------------------------------------------------------------------------
(* A read that returns has its sectors, in order, in full (do_read,        *)
(* 186-217), if each was there when it was taken: the drive gives exactly  *)
(* what the stage says was left.                                           *)
THEOREM ReadsAreRight == Spec => []ReadsRight
  <1>1. late \/ IInv => ReadsRight
    <2> SUFFICES ASSUME IInv, Returning, req.cmd = "read", Cut(req.asked)
                 PROVE  /\ req.bytes = 0
                        /\ req.buffer = [i \in 1 .. req.count |->
                              [data |-> disk[req.sector + i - 1],
                               len  |-> Least(SECTOR_SIZE, req.asked - (i - 1) * SECTOR_SIZE)]]
      BY DEF ReadsRight
    <2>1. ReadEnds
      BY DEF IInv, Stages, Reads, Writes, Returning, Resting, Queued, Asking, ReadStarts, ReadHangs,
             ReadMoves, WriteCalled, WriteStarts, WriteHangs, WriteTaken, WriteMoves, WriteEnds, At, Waits
    <2>2. req.count \in Nat \ {0} /\ req.asked \in Nat \ {0} /\ req.count = SectorsOf(req.asked)
      BY DEF IInv, Fits, Returning
    <2>3. /\ \A i \in 1 .. req.count :
                Least(SECTOR_SIZE, req.asked - (i - 1) * SECTOR_SIZE) = PieceLen
          /\ req.count * PieceLen = req.asked
      BY <2>2, Lengths DEF PieceLen
    <2>4. req.bytes + req.count * PieceLen = req.asked
          /\ req.buffer = [i \in 1 .. req.count |-> [data |-> disk[req.sector + i - 1], len |-> PieceLen]]
      BY <2>1 DEF ReadEnds, Filled
    <2>5. req.bytes = 0
      BY <2>2, <2>3, <2>4 DEF IInv, Typed, Requests
    <2> QED  BY <2>3, <2>4, <2>5
  <1> QED  BY <1>1, Invariance, PTL

(* A write that returns is on the disk, sector for sector (do_write,       *)
(* 220-244).                                                               *)
THEOREM WritesAreRight == Spec => []WritesRight
  <1>1. late \/ IInv => WritesRight
    <2> SUFFICES ASSUME IInv, Returning, req.cmd = "write" PROVE Written(req.count)
      BY DEF WritesRight, Written
    <2> QED
      BY DEF IInv, Stages, Reads, Writes, Returning, Resting, Queued, Asking, ReadStarts, ReadHangs,
             ReadMoves, ReadEnds, WriteCalled, WriteStarts, WriteHangs, WriteTaken, WriteMoves,
             WriteEnds, At, Waits
  <1> QED  BY <1>1, Invariance, PTL

(* Only the sectors of the request that is current are ever written, also  *)
(* after waits for the drive that ended without an answer (94-131), until  *)
(* do_read takes a sector that is not there: a wait that gave up leaves    *)
(* the caller waiting for ever, with its request the current one.          *)
THEOREM WritesStayInside == Spec => WritesInside
  <1>1. (late \/ IInv) /\ [Next]_vars =>
           [\A s \in Sectors : disk'[s] # disk[s] /\ ~late =>
                req.cmd = "write" /\ s \in Range(req) /\ current]_vars
    <2> SUFFICES ASSUME IInv, Next, NEW s \in Sectors, disk'[s] # disk[s]
                 PROVE  req.cmd = "write" /\ s \in Range(req) /\ current
      OBVIOUS
    <2>1. do_write_send
      BY DEF Next, Waiter, Interrupt, hd_rw, do_hd_request, do_hd_request_marks, hd_cmd_out,
             waitfor_look, waitfor_gives_up, do_write, do_write_ends, hd_handler, do_read,
             interrupt_wait, DriveReady, DriveRests, wild, vars
    <2>2. WriteStarts \/ WriteMoves
      BY <2>1 DEF IInv, Stages, Reads, Writes, Resting, Queued, Asking, ReadStarts, ReadHangs,
             ReadMoves, ReadEnds, WriteCalled, WriteHangs, WriteTaken, WriteEnds, At, Caller,
             do_write_send
    <2>3. req.cmd = "write" /\ current /\ pc # "run"
      BY <2>2 DEF WriteStarts, WriteMoves, At, Waits
    <2>4. req.count \in Nat \ {0} /\ req.left \in Int /\ req.sector \in Nat
      BY <2>3 DEF IInv, Typed, Requests, Fits
    <2>5. \E k \in 0 .. req.count - 1 : drive.at = req.sector + k
      <3>1. CASE WriteStarts
        <4>1. drive.at = req.sector + 0 /\ 0 \in 0 .. req.count - 1
          BY <2>1, <2>4, <3>1 DEF WriteStarts, WriteAhead, Free, DriveIs, do_write_send
        <4> QED  BY <4>1
      <3>2. CASE WriteMoves
        <4>1. req.sent \in 0 .. req.count - 1 /\ drive.at = req.sector + req.sent
          BY <2>4, <3>2 DEF WriteMoves, DriveIs
        <4> QED  BY <4>1
      <3> QED  BY <2>2, <3>1, <3>2
    <2>6. drive.at \in Range(req) /\ drive.at \in Sectors
      BY <2>3, <2>5, InRange DEF IInv
    <2>7. s = drive.at
      BY <2>1, <2>6 DEF IInv, Typed, do_write_send, port_write
    <2> QED  BY <2>3, <2>6, <2>7
  <1> QED  BY <1>1, Invariance, PTL DEF Spec, WritesInside

-----------------------------------------------------------------------------
(* That no interrupt finds the request of a call that has returned does    *)
(* not depend on the drive: late interrupts may end a request early, but   *)
(* only its end lets the caller return.                                    *)
Owned ==
    /\ pc = "run" => handler = "none" /\ ~current
    /\ handler # "none" => current
    /\ current /\ pc = "spin" => status = "interruptible"
    /\ current /\ pc \in {"bsy", "write", "drq", "done"} => status = "interruptible"

THEOREM RequestIsAlive == Spec => []RequestAlive
  <1>1. Init => Owned
    BY DEF Init, Owned
  <1>2. Owned /\ [Next]_vars => Owned'
    <2> SUFFICES ASSUME Owned, [Next]_vars PROVE Owned'
      OBVIOUS
    <2>1. ASSUME NEW cmd, NEW s, NEW b, NEW d, hd_rw(cmd, s, b, d) PROVE Owned'
      BY <2>1 DEF Owned, hd_rw
    <2>2. CASE do_hd_request \/ do_hd_request_marks \/ hd_cmd_out
      BY <2>2 DEF Owned, do_hd_request, do_hd_request_marks, hd_cmd_out, Commanded, Caller
    <2>3. CASE waitfor_look \/ DriveReady \/ DriveRests \/ wild
      BY <2>3 DEF Owned, waitfor_look, DriveReady, DriveRests, wild, driver, vars
    <2>4. CASE do_write_send
      BY <2>4 DEF Owned, do_write_send, Caller
    <2>5. CASE waitfor_gives_up
      BY <2>5 DEF Owned, waitfor_gives_up, GivesUp, Commanded, Caller
    <2>6. CASE do_write \/ do_write_ends
      BY <2>6 DEF Owned, do_write, do_write_ends, Done, Caller
    <2>7. CASE Interrupt
      BY <2>7 DEF Owned, Interrupt, hd_handler, do_read, Done
    <2>8. CASE interrupt_wait
      BY <2>8 DEF Owned, interrupt_wait, Caller
    <2>9. CASE UNCHANGED vars
      BY <2>9 DEF Owned, vars
    <2> QED  BY <2>1, <2>2, <2>3, <2>4, <2>5, <2>6, <2>7, <2>8, <2>9 DEF Next, Waiter
  <1>3. Owned => RequestAlive
    BY DEF Owned, RequestAlive
  <1> QED  BY <1>1, <1>2, <1>3, PTL DEF Spec
=============================================================================
