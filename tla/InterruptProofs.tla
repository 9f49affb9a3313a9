-------------------------- MODULE InterruptProofs ---------------------------
(***************************************************************************)
(* The properties of InterruptEntry hold for any number of processes and   *)
(* devices and any depth of nesting.                                       *)
(*                                                                         *)
(* The inductive invariant is about the frames of a process as a sequence: *)
(* each remembers the is_in_ring0 it interrupted, and that number rises by *)
(* one from frame to frame, but for a frame pushed after ret_to_proc has   *)
(* counted down.  A frame that goes back by restart is one with -1.        *)
(***************************************************************************)
EXTENDS InterruptEntry, SequenceTheorems, TLAPS

Open == {"clock", "page_fault", "new"}
Rise(f) == IF f.at = "popping" THEN 0 ELSE 1

GoodPath(s) ==
    /\ \A i \in 1 .. Len(s) :
          /\ s[i].ring0 >= -1 /\ s[i].ring0 <= i - 2
          /\ s[i].ret = "restart" <=> s[i].ring0 = -1
    /\ \A i \in 2 .. Len(s) :
          /\ s[i].at \in {"body", "leaving", "restart", "popping"}
          /\ s[i].ring0 = s[i - 1].ring0 + Rise(s[i])
          /\ s[i].at # "body" => s[i - 1].kind \in Open
          /\ s[i].at = "restart" => i = 2
    /\ \A i, j \in 1 .. Len(s) : i < j => s[i].ring0 + Rise(s[i + 1]) <= s[j].ring0

InPlace(s) ==
    \A i \in 1 .. Len(s) :
        IF i = 1 THEN s[i].where = "entry" /\ s[i].ret = "restart"
                 ELSE s[i].where = "kstack" /\ s[i].ret = "ret_to_proc"

(* Handler i of the path s is at work, not on its way out. *)
Working(s, i, place) ==
    IF i = Len(s) THEN place \in {"saved", "body"} ELSE s[i + 1].at = "body"

Shape ==
    /\ current \in Procs /\ is_in_ring0 \in Int
    /\ ints \in BOOLEAN /\ hit \in BOOLEAN
    /\ masked \subseteq Devices
    /\ pc \in [Procs -> Places]
    /\ flags \in [Procs -> BOOLEAN]
    /\ path \in [Procs -> Seq(Frames)]
    /\ \A p \in Procs : Len(path[p]) <= MaxNest

Parked(p) ==
    /\ pc[p] \in {"free", "body", "leaving"}
    /\ pc[p] # "free" => Top(p).ring0 = -1
    /\ pc[p] = "leaving" => Top(p).kind = "new"

Running ==
    /\ pc[current] # "free"
    /\ pc[current] = "saved" => ~ints
    /\ pc[current] = "restart" => Len(path[current]) = 1
    /\ pc[current] = "popping" /\ Top(current).ret = "restart" => Len(path[current]) = 1
    /\ pc[current] \in {"leaving", "restart", "popping"} /\ ints => Top(current).kind \in Open
    /\ is_in_ring0 = IF pc[current] = "user" THEN -1
                     ELSE IF pc[current] = "popping" THEN Top(current).ring0
                     ELSE Top(current).ring0 + 1

Masked ==
    \A d \in masked : \E i \in 1 .. Len(path[current]) :
        path[current][i].kind = d /\ Working(path[current], i, pc[current])

IInv ==
    /\ Shape
    /\ \A p \in Procs : pc[p] \in {"free", "user"} <=> path[p] = <<>>
    /\ \A p \in Procs : GoodPath(path[p])
    /\ \A p \in Procs \ {current} : Parked(p)
    /\ Running
    /\ Masked
    /\ ~hit => \A p \in Procs : InPlace(path[p])
-----------------------------------------------------------------------------
(* A frame is pushed on others: what save does to a path. *)
LEMMA Pushed ==
  ASSUME NEW s \in Seq(Frames), NEW f \in Frames, s # <<>>, GoodPath(s),
         f.at \in {"body", "leaving", "restart", "popping"},
         f.ring0 = s[Len(s)].ring0 + Rise(f),
         f.ret = "restart" <=> f.ring0 = -1,
         f.at # "body" => s[Len(s)].kind \in Open,
         f.at = "restart" => Len(s) = 1
  PROVE  GoodPath(Append(s, f))
  <1> DEFINE t == Append(s, f)
  <1>1. /\ Len(t) = Len(s) + 1 /\ Len(s) \in Nat /\ Len(s) >= 1
        /\ t[Len(s) + 1] = f
        /\ \A i \in 1 .. Len(s) : t[i] = s[i] /\ s[i] \in Frames
    OBVIOUS
  <1> HIDE DEF t
  <1>2. \A g \in Frames : g.ring0 \in Int /\ Rise(g) \in 0 .. 1
    BY InterruptAssumption DEF Frames, Rise
  <1>3. \A i \in 1 .. Len(t) :
           /\ t[i].ring0 >= -1 /\ t[i].ring0 <= i - 2
           /\ t[i].ret = "restart" <=> t[i].ring0 = -1
    <2> SUFFICES ASSUME NEW i \in 1 .. Len(t)
                 PROVE  /\ t[i].ring0 >= -1 /\ t[i].ring0 <= i - 2
                        /\ t[i].ret = "restart" <=> t[i].ring0 = -1
      OBVIOUS
    <2>1. CASE i \in 1 .. Len(s)
      BY <1>1, <2>1 DEF GoodPath
    <2>2. CASE i = Len(s) + 1
      <3>1. Len(s) \in 1 .. Len(s)
        BY <1>1
      <3>2. s[Len(s)].ring0 >= -1 /\ s[Len(s)].ring0 <= Len(s) - 2
        BY <3>1 DEF GoodPath
      <3> QED  BY <1>1, <1>2, <2>2, <3>1, <3>2
    <2> QED  BY <1>1, <2>1, <2>2
  <1>4. \A i \in 2 .. Len(t) :
           /\ t[i].at \in {"body", "leaving", "restart", "popping"}
           /\ t[i].ring0 = t[i - 1].ring0 + Rise(t[i])
           /\ t[i].at # "body" => t[i - 1].kind \in Open
           /\ t[i].at = "restart" => i = 2
    <2> SUFFICES ASSUME NEW i \in 2 .. Len(t)
                 PROVE  /\ t[i].at \in {"body", "leaving", "restart", "popping"}
                        /\ t[i].ring0 = t[i - 1].ring0 + Rise(t[i])
                        /\ t[i].at # "body" => t[i - 1].kind \in Open
                        /\ t[i].at = "restart" => i = 2
      OBVIOUS
    <2>1. CASE i \in 2 .. Len(s)
      <3>1. t[i] = s[i] /\ t[i - 1] = s[i - 1]
        BY <1>1, <2>1
      <3> QED  BY <2>1, <3>1 DEF GoodPath
    <2>2. CASE i = Len(s) + 1
      <3>1. t[i] = f /\ t[i - 1] = s[Len(s)]
        BY <1>1, <2>2
      <3> QED  BY <1>1, <2>2, <3>1
    <2> QED  BY <1>1, <2>1, <2>2
  <1>5. \A i, j \in 1 .. Len(t) : i < j => t[i].ring0 + Rise(t[i + 1]) <= t[j].ring0
    <2> SUFFICES ASSUME NEW i \in 1 .. Len(t), NEW j \in 1 .. Len(t), i < j
                 PROVE  t[i].ring0 + Rise(t[i + 1]) <= t[j].ring0
      OBVIOUS
    <2>1. CASE j <= Len(s)
      <3>1. i \in 1 .. Len(s) /\ j \in 1 .. Len(s) /\ i + 1 \in 1 .. Len(s)
        BY <1>1, <2>1
      <3> QED  BY <1>1, <3>1 DEF GoodPath
    <2>2. CASE j = Len(s) + 1 /\ i = Len(s)
      BY <1>1, <1>2, <2>2
    <2>3. CASE j = Len(s) + 1 /\ i < Len(s)
      <3>1. i \in 1 .. Len(s) /\ i + 1 \in 1 .. Len(s) /\ Len(s) \in 1 .. Len(s)
        BY <1>1, <2>3
      <3>2. s[i].ring0 + Rise(s[i + 1]) <= s[Len(s)].ring0
        BY <2>3, <3>1 DEF GoodPath
      <3>3. t[j] = f /\ t[i] = s[i] /\ t[i + 1] = s[i + 1]
        BY <1>1, <2>3, <3>1
      <3>4. s[Len(s)].ring0 <= f.ring0
        BY <1>1, <1>2, <3>1
      <3> QED  BY <1>1, <1>2, <3>1, <3>2, <3>3, <3>4
    <2> QED  BY <1>1, <2>1, <2>2, <2>3
  <1> QED  BY <1>3, <1>4, <1>5 DEF GoodPath, t

(* The last frame is popped: iretd. *)
LEMMA Front ==
  ASSUME NEW s \in Seq(Frames), s # <<>>, NEW t, t = SubSeq(s, 1, Len(s) - 1)
  PROVE  /\ t \in Seq(Frames) /\ Len(s) \in Nat \ {0} /\ Len(t) = Len(s) - 1
         /\ \A i \in 1 .. Len(t) : t[i] = s[i]
  <1>1. Len(s) \in Nat \ {0} /\ \A i \in 1 .. Len(s) - 1 : s[i] \in Frames
    OBVIOUS
  <1>2. /\ t \in Seq(Frames)
        /\ Len(t) = IF 1 <= Len(s) - 1 THEN (Len(s) - 1) - 1 + 1 ELSE 0
        /\ \A i \in 1 .. (Len(s) - 1) - 1 + 1 : t[i] = s[1 + i - 1]
    BY <1>1, SubSeqProperties
  <1>3. (Len(s) - 1) - 1 + 1 = Len(s) - 1 /\ \A i \in Int : 1 + i - 1 = i
    BY <1>1
  <1>4. Len(t) = Len(s) - 1
    <2>1. \A n \in Nat \ {0} : (IF 1 <= n - 1 THEN (n - 1) - 1 + 1 ELSE 0) = n - 1
      OBVIOUS
    <2> QED  BY <1>1, <1>2, <2>1, Zenon
  <1>5. \A i \in 1 .. Len(t) : t[i] = s[i]
    <2> SUFFICES ASSUME NEW i \in 1 .. Len(t) PROVE t[i] = s[i]
      OBVIOUS
    <2>1. i \in 1 .. (Len(s) - 1) - 1 + 1 /\ 1 + i - 1 = i
      BY <1>3, <1>4
    <2> QED  BY <1>2, <2>1
  <1> QED  BY <1>1, <1>2, <1>4, <1>5

LEMMA Popped ==
  ASSUME NEW s \in Seq(Frames), s # <<>>, GoodPath(s)
  PROVE  GoodPath(SubSeq(s, 1, Len(s) - 1))
  <1> DEFINE t == SubSeq(s, 1, Len(s) - 1)
  <1>1. /\ Len(s) \in Nat /\ Len(t) = Len(s) - 1
        /\ \A i \in 1 .. Len(t) : t[i] = s[i]
    BY Front
  <1> HIDE DEF t
  <1>2. \A i \in 1 .. Len(t) : i \in 1 .. Len(s)
    BY <1>1
  <1>3. \A i \in 2 .. Len(t) : i \in 2 .. Len(s) /\ t[i] = s[i] /\ t[i - 1] = s[i - 1]
    BY <1>1
  <1>4. \A i, j \in 1 .. Len(t) : i < j => t[i].ring0 + Rise(t[i + 1]) <= t[j].ring0
    <2> SUFFICES ASSUME NEW i \in 1 .. Len(t), NEW j \in 1 .. Len(t), i < j
                 PROVE  t[i].ring0 + Rise(t[i + 1]) <= t[j].ring0
      OBVIOUS
    <2>1. t[i] = s[i] /\ t[j] = s[j] /\ t[i + 1] = s[i + 1]
      BY <1>1
    <2> QED  BY <1>2, <2>1 DEF GoodPath
  <1>5. \A i \in 1 .. Len(t) : /\ t[i].ring0 >= -1 /\ t[i].ring0 <= i - 2
                               /\ t[i].ret = "restart" <=> t[i].ring0 = -1
    BY <1>1, <1>2 DEF GoodPath
  <1>6. \A i \in 2 .. Len(t) :
          /\ t[i].at \in {"body", "leaving", "restart", "popping"}
          /\ t[i].ring0 = t[i - 1].ring0 + Rise(t[i])
          /\ t[i].at # "body" => t[i - 1].kind \in Open
          /\ t[i].at = "restart" => i = 2
    BY <1>3 DEF GoodPath
  <1>7. GoodPath(t)
    BY <1>4, <1>5, <1>6 DEF GoodPath
  <1> QED  BY <1>7 DEF t

(* A frame alone, as after restart and for a new process. *)
LEMMA Alone ==
  ASSUME NEW f \in Frames, f.ring0 = -1, f.ret = "restart"
  PROVE  /\ GoodPath(<<f>>) /\ Len(<<f>>) = 1 /\ <<f>>[1] = f
         /\ <<f>> \in Seq(Frames) /\ <<f>> # <<>>
  BY DEF GoodPath

LEMMA Empty == GoodPath(<<>>) /\ InPlace(<<>>) /\ Len(<<>>) = 0 /\ <<>> \in Seq(Frames)
  BY DEF GoodPath, InPlace

(* What a process in the kernel has on top of its path. *)
LEMMA TopOf ==
  ASSUME Shape, NEW p \in Procs, path[p] # <<>>
  PROVE  /\ path[p] \in Seq(Frames) /\ Len(path[p]) \in Nat \ {0}
         /\ Top(p) \in Frames /\ Top(p) = path[p][Len(path[p])]
         /\ Len(path[p]) \in 1 .. Len(path[p])
         /\ \A i \in 1 .. Len(path[p]) : path[p][i] \in Frames
  BY DEF Shape, Top
-----------------------------------------------------------------------------
LEMMA InitInv == Init => IInv
  <1> SUFFICES ASSUME Init PROVE IInv
    OBVIOUS
  <1> DEFINE f == [kind |-> "new", where |-> "entry", ret |-> "restart", at |-> "user", ring0 |-> -1]
  <1>1. f \in Frames /\ f.ring0 = -1 /\ f.ret = "restart" /\ f.kind = "new" /\ f.where = "entry"
    BY InterruptAssumption DEF Frames, Places
  <1>2. Fresh = <<f>>
    BY DEF Fresh
  <1> HIDE DEF f
  <1>3. /\ GoodPath(Fresh) /\ Len(Fresh) = 1 /\ Fresh[1] = f
        /\ Fresh \in Seq(Frames) /\ Fresh # <<>> /\ InPlace(Fresh)
    BY <1>1, <1>2, Alone DEF InPlace
  <1>4. \A p \in Procs : /\ path[p] = IF p = Init0 THEN Fresh ELSE <<>>
                         /\ pc[p] = IF p = Init0 THEN "leaving" ELSE "free"
    BY DEF Init
  <1>5. Shape
    <2>1. path \in [Procs -> Seq(Frames)] /\ \A p \in Procs : Len(path[p]) <= MaxNest
      BY <1>3, <1>4, Empty, InterruptAssumption DEF Init
    <2>2. /\ current \in Procs /\ is_in_ring0 \in Int /\ ints \in BOOLEAN /\ hit \in BOOLEAN
          /\ masked \subseteq Devices /\ pc \in [Procs -> Places] /\ flags \in [Procs -> BOOLEAN]
      <3>1. \A p \in Procs : pc[p] \in Places
        BY <1>4 DEF Places
      <3>2. pc \in [Procs -> Places]
        BY <3>1 DEF Init
      <3>3. flags \in [Procs -> BOOLEAN] /\ ints \in BOOLEAN /\ hit \in BOOLEAN
        BY DEF Init
      <3>4. current \in Procs /\ is_in_ring0 \in Int /\ masked \subseteq Devices
        BY InterruptAssumption DEF Init
      <3> QED  BY <3>2, <3>3, <3>4
    <2> QED  BY <2>1, <2>2 DEF Shape
  <1>6. Top(current) = f
    BY <1>3, <1>4, InterruptAssumption DEF Top, Init
  <1>7. Running /\ Masked
    BY <1>1, <1>4, <1>6, InterruptAssumption DEF Open, Running, Masked, Init
  <1>8. \A p \in Procs \ {current} : Parked(p)
    BY <1>4 DEF Parked, Init
  <1>9. \A p \in Procs : GoodPath(path[p]) /\ InPlace(path[p]) /\ (pc[p] \in {"free", "user"} <=> path[p] = <<>>)
    BY <1>3, <1>4, Empty
  <1> QED  BY <1>5, <1>7, <1>8, <1>9 DEF IInv

(* Where only the running process moves on, with its frames as they are. *)
LEMMA Onward ==
  ASSUME IInv, UNCHANGED <<current, path, flags, hit>>,
         NEW place \in Places \ {"free", "user"}, pc' = [pc EXCEPT ![current] = place],
         path[current] # <<>>,
         is_in_ring0' \in Int, ints' \in BOOLEAN, masked' \subseteq Devices,
         Running', Masked'
  PROVE  IInv'
  <1>1. Shape'
    BY DEF IInv, Shape
  <1>2. \A p \in Procs : pc'[p] = IF p = current THEN place ELSE pc[p]
    BY DEF IInv, Shape
  <1>3. \A p \in Procs : pc'[p] \in {"free", "user"} <=> path'[p] = <<>>
    BY <1>2 DEF IInv, Shape
  <1>4. \A p \in Procs \ {current} : Parked(p)'
    BY <1>2 DEF IInv, Parked, Top
  <1>5. \A p \in Procs : GoodPath(path'[p]) /\ (~hit' => InPlace(path'[p]))
    BY DEF IInv
  <1> QED  BY <1>1, <1>3, <1>4, <1>5 DEF IInv

LEMMA StiInv == IInv /\ sti => IInv'
  <1> SUFFICES ASSUME IInv, sti PROVE IInv'
    OBVIOUS
  <1>1. path[current] # <<>> /\ pc' = [pc EXCEPT ![current] = "body"] /\ current \in Procs /\ pc'[current] = "body"
    BY DEF IInv, Shape, sti, Moved
  <1>2. Running'
    BY <1>1 DEF IInv, Running, sti, Top
  <1>3. Masked'
    BY <1>1 DEF IInv, Masked, sti, Working
  <1> QED
    BY <1>1, <1>2, <1>3, Onward DEF IInv, Shape, sti, Places

LEMMA LeaveInv == IInv /\ leave => IInv'
  <1> SUFFICES ASSUME IInv, leave PROVE IInv'
    OBVIOUS
  <1>1. path[current] # <<>> /\ pc' = [pc EXCEPT ![current] = "leaving"] /\ current \in Procs /\ pc'[current] = "leaving"
    BY DEF IInv, Shape, leave, Moved
  <1>2. Running'
    BY <1>1 DEF IInv, Running, leave, Top, Open, LeavesOpen
  <1>3. Masked'
    <2> SUFFICES ASSUME NEW d \in masked'
                 PROVE  \E i \in 1 .. Len(path[current]) :
                           path[current][i].kind = d /\ Working(path[current], i, pc'[current])
      BY DEF Masked, leave
    <2>1. d \in masked /\ d # Top(current).kind
      BY DEF leave
    <2>2. PICK i \in 1 .. Len(path[current]) :
             path[current][i].kind = d /\ Working(path[current], i, pc[current])
      BY <2>1 DEF IInv, Masked
    <2>3. i # Len(path[current])
      BY <2>1, <2>2 DEF Top
    <2> QED  BY <2>2, <2>3 DEF Working
  <1> QED
    BY <1>1, <1>2, <1>3, Onward DEF IInv, Shape, leave, Places

LEMMA CountedDownInv == IInv /\ ret_to_proc => IInv'
  <1> SUFFICES ASSUME IInv, ret_to_proc PROVE IInv'
    OBVIOUS
  <1>1. /\ path[current] # <<>> /\ pc' = [pc EXCEPT ![current] = "popping"] /\ current \in Procs
        /\ pc'[current] = "popping" /\ pc[current] \in {"restart", "leaving"}
    BY DEF IInv, Shape, ret_to_proc, Moved
  <1>2. Top(current) \in Frames /\ Top(current).ring0 \in Int
    BY <1>1, TopOf, InterruptAssumption DEF IInv, Frames
  <1>3. Running'
    BY <1>1, <1>2 DEF IInv, Running, ret_to_proc, Top
  <1>4. Masked'
    BY <1>1 DEF IInv, Masked, ret_to_proc, Working
  <1>5. "popping" \in Places \ {"free", "user"}
    BY DEF Places
  <1>6. is_in_ring0' \in Int /\ ints' \in BOOLEAN /\ masked' \subseteq Devices
    BY DEF IInv, Shape, ret_to_proc
  <1>7. UNCHANGED <<current, path, flags, hit>>
    BY DEF ret_to_proc
  <1> QED
    BY <1>1, <1>3, <1>4, <1>5, <1>6, <1>7, Onward

LEMMA SaveInv == ASSUME IInv, NEW kind, kind \in Devices \cup {"sys_call", "page_fault", "clock"},
                        save(kind),
                        \/ masked' = masked
                        \/ kind \in Devices /\ masked' = masked \cup {kind}
                 PROVE  IInv'
  <1> DEFINE f == [kind |-> kind, where |-> Where, ret |-> ReturnBy,
                   at |-> pc[current], ring0 |-> is_in_ring0]
             s == path[current]
             t == Append(s, f)
  <1>1. /\ current \in Procs /\ s \in Seq(Frames) /\ Len(s) \in Nat /\ Len(s) < MaxNest
        /\ ints /\ pc[current] \in Places /\ is_in_ring0 \in Int /\ GoodPath(s)
    BY DEF IInv, Shape, save
  <1>2. pc[current] # "saved" /\ pc[current] # "free"
    BY <1>1 DEF IInv, Running
  <1>3. ASSUME pc[current] = "user"
        PROVE  f \in Frames /\ GoodPath(t) /\ (~hit' => InPlace(t))
    <2>1. s = <<>> /\ is_in_ring0 = -1
      BY <1>1, <1>3 DEF IInv, Running
    <2>2. f \in Frames /\ f.ring0 = -1 /\ f.ret = "restart" /\ f.where = "entry"
      BY <1>1, <1>3, <2>1, InterruptAssumption DEF Frames, Where, ReturnBy, Places
    <2> HIDE DEF f
    <2>3. t = <<f>>
      BY <2>1
    <2>4. GoodPath(t) /\ InPlace(t)
      BY <2>2, <2>3, Alone DEF InPlace
    <2> QED  BY <2>2, <2>4
  <1>4. ASSUME pc[current] # "user"
        PROVE  f \in Frames /\ GoodPath(t) /\ (~hit' => InPlace(t))
    <2>1. s # <<>>
      BY <1>1, <1>2, <1>4 DEF IInv
    <2> DEFINE g == s[Len(s)]
    <2>2. /\ g = Top(current) /\ g \in Frames /\ Len(s) \in 1 .. Len(s) /\ Len(s) >= 1
      BY <1>1, <2>1, TopOf DEF IInv
    <2>3. /\ g.ring0 \in Int /\ g.ring0 >= -1 /\ g.ring0 <= Len(s) - 2
          /\ g.ret = "restart" <=> g.ring0 = -1
      <3>1. g.ring0 \in Int
        BY <2>2, InterruptAssumption DEF Frames
      <3> HIDE DEF g
      <3>2. g = s[Len(s)]
        BY DEF g
      <3> QED  BY <1>1, <2>2, <3>1, <3>2 DEF GoodPath
    <2>4. /\ pc[current] = "restart" => Len(s) = 1
          /\ pc[current] \in {"leaving", "restart", "popping"} => g.kind \in Open
          /\ is_in_ring0 = g.ring0 + (IF pc[current] = "popping" THEN 0 ELSE 1)
      BY <1>1, <1>2, <1>4, <2>2, <2>3 DEF IInv, Running
    <2>5. is_in_ring0 \in -1 .. MaxNest - 1
      BY <1>1, <2>2, <2>3, <2>4, InterruptAssumption
    <2>6. /\ f \in Frames
          /\ f.ret = "restart" <=> f.ring0 = -1
          /\ f.at \in {"body", "leaving", "restart", "popping"}
          /\ f.ring0 = g.ring0 + Rise(f)
          /\ f.at # "body" => g.kind \in Open
          /\ f.at = "restart" => Len(s) = 1
      <3>1. Where \in {"entry", "kstack", "before", "over"}
        BY DEF Where
      <3>2. ReturnBy = IF is_in_ring0 + 1 = 0 THEN "restart" ELSE "ret_to_proc"
        BY DEF ReturnBy
      <3>3. f \in Frames
        BY <1>1, <2>5, <3>1, <3>2 DEF Frames
      <3>4. f.ret = "restart" <=> f.ring0 = -1
        BY <2>5, <3>2
      <3>5. f.at \in {"body", "leaving", "restart", "popping"}
        BY <1>1, <1>2, <1>4 DEF Places
      <3> QED  BY <2>4, <3>3, <3>4, <3>5 DEF Rise
    <2>7. GoodPath(t)
      <3> HIDE DEF f, s
      <3>1. s \in Seq(Frames) /\ s # <<>> /\ GoodPath(s)
        BY <1>1, <2>1
      <3>2. /\ f \in Frames
            /\ f.ret = "restart" <=> f.ring0 = -1
            /\ f.at \in {"body", "leaving", "restart", "popping"}
            /\ f.ring0 = s[Len(s)].ring0 + Rise(f)
            /\ f.at # "body" => s[Len(s)].kind \in Open
            /\ f.at = "restart" => Len(s) = 1
        BY <2>6
      <3> QED  BY <3>1, <3>2, Pushed
    <2>8. ~hit' => InPlace(t)
      <3> SUFFICES ASSUME ~hit' PROVE InPlace(t)
        OBVIOUS
      <3>1. ~hit /\ ~InEntry
        BY DEF save
      <3>2. InPlace(s)
        BY <1>1, <3>1 DEF IInv
      <3>3. g.where # "before"
        BY <2>2, <3>2 DEF InPlace
      <3>4. f.where = "kstack"
        BY <1>4, <2>2, <3>1, <3>3 DEF Where
      <3>5. f.ret = "ret_to_proc"
        <4>1. is_in_ring0 # -1
          BY <2>2, <2>3, <2>4, <3>1 DEF InEntry
        <4> QED  BY <1>1, <4>1 DEF ReturnBy
      <3>6. /\ Len(t) = Len(s) + 1 /\ t[Len(s) + 1] = f
            /\ \A i \in 1 .. Len(s) : t[i] = s[i]
        BY <1>1
      <3> HIDE DEF f, t
      <3> QED  BY <1>1, <2>2, <3>2, <3>4, <3>5, <3>6 DEF InPlace
    <2> HIDE DEF f
    <2> QED  BY <2>6, <2>7, <2>8
  <1>5. f \in Frames /\ GoodPath(t) /\ (~hit' => InPlace(t))
    BY <1>3, <1>4, Zenon
  <1>6. f.kind = kind /\ f.ring0 = is_in_ring0 /\ f.at = pc[current]
    OBVIOUS
  <1> HIDE DEF f
  <1>7. /\ t \in Seq(Frames) /\ t # <<>> /\ Len(t) = Len(s) + 1 /\ t[Len(t)] = f
        /\ \A i \in 1 .. Len(s) : t[i] = s[i]
    BY <1>1, <1>5
  <1>8. /\ path' = [path EXCEPT ![current] = t] /\ pc' = [pc EXCEPT ![current] = "saved"]
        /\ current' = current /\ flags' = flags /\ ints' = FALSE
        /\ is_in_ring0' = is_in_ring0 + 1 /\ hit' \in BOOLEAN /\ (~hit' => ~hit)
    BY DEF save, Moved, f, IInv, Shape
  <1> HIDE DEF t
  <1>9. /\ \A p \in Procs : path'[p] = IF p = current THEN t ELSE path[p]
        /\ \A p \in Procs : pc'[p] = IF p = current THEN "saved" ELSE pc[p]
        /\ path' \in [Procs -> Seq(Frames)] /\ pc' \in [Procs -> Places]
    BY <1>1, <1>7, <1>8 DEF IInv, Shape, Places
  <1>10. Shape'
    <2>1. \A p \in Procs : Len(path'[p]) <= MaxNest
      BY <1>1, <1>7, <1>9, InterruptAssumption DEF IInv, Shape
    <2>2. masked' \subseteq Devices
      BY DEF IInv, Shape
    <2>3. flags \in [Procs -> BOOLEAN] /\ is_in_ring0 + 1 \in Int
      BY DEF IInv, Shape
    <2> QED  BY <1>1, <1>8, <1>9, <2>1, <2>2, <2>3 DEF Shape
  <1>11. \A p \in Procs : pc'[p] \in {"free", "user"} <=> path'[p] = <<>>
    BY <1>7, <1>9 DEF IInv
  <1>12. \A p \in Procs : GoodPath(path'[p]) /\ (~hit' => InPlace(path'[p]))
    BY <1>5, <1>8, <1>9 DEF IInv
  <1>13. \A p \in Procs \ {current'} : Parked(p)'
    BY <1>8, <1>9 DEF IInv, Parked, Top
  <1>14. Running'
    BY <1>1, <1>6, <1>7, <1>8, <1>9 DEF Running, Top
  <1>15. Masked'
    <2> SUFFICES ASSUME NEW d \in masked'
                 PROVE  \E i \in 1 .. Len(t) : t[i].kind = d /\ Working(t, i, "saved")
      BY <1>1, <1>8, <1>9 DEF Masked
    <2>1. CASE d = kind
      BY <1>1, <1>6, <1>7, <2>1 DEF Working
    <2>2. CASE d \in masked
      <3>1. PICK i \in 1 .. Len(s) : s[i].kind = d /\ Working(s, i, pc[current])
        BY <2>2 DEF IInv, Masked
      <3>2. i \in 1 .. Len(t) /\ i # Len(t) /\ t[i] = s[i]
        BY <1>1, <1>7, <3>1
      <3>3. t[i + 1].at = "body"
        <4>1. CASE i = Len(s)
          BY <1>1, <1>2, <1>6, <1>7, <3>1, <4>1 DEF Working
        <4>2. CASE i # Len(s)
          BY <1>1, <1>7, <3>1, <4>2 DEF Working
        <4> QED  BY <4>1, <4>2
      <3> QED  BY <3>1, <3>2, <3>3 DEF Working
    <2> QED  BY <2>1, <2>2
  <1> QED
    BY <1>10, <1>11, <1>12, <1>13, <1>14, <1>15 DEF IInv

LEMMA RestartInv == IInv /\ restart => IInv'
  <1> SUFFICES ASSUME IInv, restart PROVE IInv'
    OBVIOUS
  <1> DEFINE s == path[current]
             f == Top(current)
  <1>1. /\ current \in Procs /\ pc[current] = "leaving" /\ s # <<>> /\ f.ret = "restart"
        /\ GoodPath(s)
    BY DEF IInv, Shape, restart
  <1>2. /\ s \in Seq(Frames) /\ Len(s) \in Nat \ {0} /\ f \in Frames /\ f = s[Len(s)]
        /\ Len(s) \in 1 .. Len(s)
    BY <1>1, TopOf DEF IInv
  <1>3. f.ring0 = -1
    BY <1>1, <1>2 DEF GoodPath
  <1>4. masked = {}
    <2> SUFFICES ASSUME NEW d \in masked PROVE FALSE
      OBVIOUS
    <2>1. PICK i \in 1 .. Len(s) : s[i].kind = d /\ Working(s, i, pc[current])
      BY DEF IInv, Masked
    <2>2. i < Len(s) /\ s[i + 1].at = "body"
      BY <1>1, <1>2, <2>1 DEF Working
    <2>3. s[i].ring0 >= -1 /\ s[i].ring0 + Rise(s[i + 1]) <= f.ring0
      BY <1>1, <1>2, <2>1, <2>2 DEF GoodPath
    <2>4. s[i].ring0 \in Int /\ Rise(s[i + 1]) = 1
      <3>1. s[i] \in Frames
        BY <1>2, <2>1
      <3> QED  BY <2>2, <3>1, InterruptAssumption DEF Rise, Frames
    <2> QED  BY <1>3, <2>3, <2>4
  <1>5. ~hit => InPlace(<<f>>)
    BY <1>1, <1>2 DEF IInv, InPlace
  <1>6. /\ GoodPath(<<f>>) /\ Len(<<f>>) = 1 /\ <<f>>[1] = f
        /\ <<f>> \in Seq(Frames) /\ <<f>> # <<>>
    BY <1>1, <1>2, <1>3, Alone
  <1>7. /\ path' = [path EXCEPT ![current] = <<f>>] /\ pc' = [pc EXCEPT ![current] = "restart"]
        /\ UNCHANGED <<current, is_in_ring0, ints, masked, flags, hit>>
    BY DEF restart, Moved
  <1> HIDE DEF f
  <1>8. /\ \A p \in Procs : path'[p] = IF p = current THEN <<f>> ELSE path[p]
        /\ \A p \in Procs : pc'[p] = IF p = current THEN "restart" ELSE pc[p]
        /\ path' \in [Procs -> Seq(Frames)] /\ pc' \in [Procs -> Places]
    BY <1>1, <1>6, <1>7 DEF IInv, Shape, Places
  <1>9. Shape'
    <2>1. \A p \in Procs : Len(path'[p]) <= MaxNest
      <3>1. MaxNest >= 1 /\ \A p \in Procs : Len(path[p]) <= MaxNest
        BY InterruptAssumption DEF IInv, Shape
      <3> HIDE DEF s
      <3> QED  BY <1>6, <1>8, <3>1
    <2> QED  BY <1>7, <1>8, <2>1 DEF IInv, Shape
  <1>10. \A p \in Procs : /\ pc'[p] \in {"free", "user"} <=> path'[p] = <<>>
                          /\ GoodPath(path'[p]) /\ (~hit' => InPlace(path'[p]))
    BY <1>5, <1>6, <1>7, <1>8 DEF IInv
  <1>11. \A p \in Procs \ {current'} : Parked(p)'
    BY <1>7, <1>8 DEF IInv, Parked, Top
  <1>12. Running'
    BY <1>1, <1>6, <1>7, <1>8 DEF IInv, Running, Top, f
  <1>13. Masked'
    BY <1>4, <1>7 DEF Masked
  <1> QED
    BY <1>9, <1>10, <1>11, <1>12, <1>13 DEF IInv

LEMMA IretdInv == IInv /\ iretd => IInv'
  <1> SUFFICES ASSUME IInv, iretd PROVE IInv'
    OBVIOUS
  <1> DEFINE s == path[current]
             f == Top(current)
             t == SubSeq(s, 1, Len(s) - 1)
             place == IF f.ret = "restart" THEN "user" ELSE f.at
  <1>1. /\ current \in Procs /\ pc[current] = "popping" /\ s # <<>>
        /\ GoodPath(s) /\ is_in_ring0 = f.ring0
    BY DEF IInv, Shape, iretd, Running
  <1>2. /\ s \in Seq(Frames) /\ Len(s) \in Nat \ {0} /\ f \in Frames /\ f = s[Len(s)]
        /\ Len(s) \in 1 .. Len(s) /\ \A i \in 1 .. Len(s) : s[i] \in Frames
    BY <1>1, TopOf DEF IInv
  <1>3. /\ t \in Seq(Frames) /\ Len(t) = Len(s) - 1 /\ GoodPath(t)
        /\ \A i \in 1 .. Len(t) : t[i] = s[i]
    BY <1>1, <1>2, Front, Popped
  <1>4. /\ path' = [path EXCEPT ![current] = t] /\ pc' = [pc EXCEPT ![current] = place]
        /\ ints' = TRUE /\ UNCHANGED <<current, is_in_ring0, masked, flags, hit>>
    BY DEF iretd, Moved
  <1> HIDE DEF t, f
  <1>5. ASSUME f.ret = "restart"
        PROVE  t = <<>> /\ place = "user" /\ is_in_ring0 = -1
    <2>1. Len(s) = 1
      BY <1>1, <1>5 DEF IInv, Running, f
    <2>2. f.ring0 = -1
      BY <1>1, <1>2, <1>5 DEF GoodPath
    <2> QED  BY <1>1, <1>3, <1>5, <2>1, <2>2
  <1> DEFINE g == t[Len(t)]
  <1>6. ASSUME f.ret # "restart"
        PROVE  /\ t # <<>> /\ g \in Frames /\ place \in {"body", "leaving", "restart", "popping"}
               /\ place = "restart" => Len(t) = 1
               /\ place = "popping" => g.ret # "restart"
               /\ place # "body" => g.kind \in Open
               /\ is_in_ring0 = g.ring0 + (IF place = "popping" THEN 0 ELSE 1)
               /\ g.ring0 \in Int
    <2>1. f.ring0 # -1 /\ f.ring0 >= -1 /\ f.ring0 <= Len(s) - 2
      BY <1>1, <1>2, <1>6 DEF GoodPath
    <2>2. f.ring0 \in Int
      BY <1>2, InterruptAssumption DEF Frames
    <2>3. Len(s) >= 2
      BY <1>2, <2>1, <2>2
    <2>4. /\ g = s[Len(s) - 1] /\ g \in Frames /\ t # <<>> /\ Len(s) - 1 \in 1 .. Len(s)
          /\ Len(s) \in 2 .. Len(s)
      BY <1>2, <1>3, <2>3
    <2>5. /\ f.at \in {"body", "leaving", "restart", "popping"}
          /\ f.ring0 = g.ring0 + Rise(f)
          /\ f.at # "body" => g.kind \in Open
          /\ f.at = "restart" => Len(s) = 2
      BY <1>1, <1>2, <2>4 DEF GoodPath
    <2>6. g.ret = "restart" <=> g.ring0 = -1
      BY <1>1, <1>2, <2>4 DEF GoodPath
    <2>7. g.ring0 \in Int
      BY <2>4, InterruptAssumption DEF Frames
    <2>8. f.at = "popping" => g.ret # "restart"
      BY <2>1, <2>5, <2>6, <2>7 DEF Rise
    <2> QED  BY <1>1, <1>3, <1>6, <2>4, <2>5, <2>7, <2>8 DEF Rise
  <1>7. f.at \in Places
    BY <1>2 DEF Frames
  <1> HIDE DEF g
  <1>8. place \in Places /\ (place \in {"free", "user"} <=> t = <<>>)
    BY <1>5, <1>6, <1>7 DEF Places
  <1>9. /\ \A p \in Procs : path'[p] = IF p = current THEN t ELSE path[p]
        /\ \A p \in Procs : pc'[p] = IF p = current THEN place ELSE pc[p]
        /\ path' \in [Procs -> Seq(Frames)] /\ pc' \in [Procs -> Places]
    <2> HIDE DEF place, s
    <2> QED  BY <1>1, <1>3, <1>4, <1>8 DEF IInv, Shape
  <1>10. Shape'
    <2>1. \A p \in Procs : Len(path'[p]) <= MaxNest
      <3>1. MaxNest \in Nat /\ \A p \in Procs : Len(path[p]) <= MaxNest
        BY InterruptAssumption DEF IInv, Shape
      <3>2. Len(t) <= MaxNest
        BY <1>1, <1>2, <1>3, <3>1
      <3> QED  BY <1>9, <3>1, <3>2
    <2> QED  BY <1>4, <1>9, <2>1 DEF IInv, Shape
  <1>11. \A p \in Procs : /\ pc'[p] \in {"free", "user"} <=> path'[p] = <<>>
                          /\ GoodPath(path'[p])
    <2> HIDE DEF place
    <2> QED  BY <1>3, <1>8, <1>9 DEF IInv
  <1>12. ~hit' => \A p \in Procs : InPlace(path'[p])
    <2>1. InPlace(s) => InPlace(t)
      <3> HIDE DEF s
      <3>1. \A i \in 1 .. Len(t) : i \in 1 .. Len(s)
        BY <1>2, <1>3
      <3> QED  BY <1>3, <3>1 DEF InPlace
    <2> QED  BY <1>1, <1>4, <1>9, <2>1 DEF IInv
  <1>13. \A p \in Procs \ {current'} : Parked(p)'
    BY <1>4, <1>9 DEF IInv, Parked, Top
  <1>14. Running'
    <2>1. Top(current)' = g /\ pc'[current'] = place /\ path'[current'] = t
      BY <1>1, <1>4, <1>9 DEF Top, g
    <2>2. place # "saved" /\ place # "free"
      BY <1>5, <1>6
    <2> HIDE DEF place
    <2> QED  BY <1>4, <1>5, <1>6, <2>1, <2>2 DEF Running
  <1>15. Masked'
    <2> SUFFICES ASSUME NEW d \in masked
                 PROVE  \E i \in 1 .. Len(t) : t[i].kind = d /\ Working(t, i, place)
      BY <1>1, <1>4, <1>9 DEF Masked
    <2>1. PICK i \in 1 .. Len(s) : s[i].kind = d /\ Working(s, i, pc[current])
      BY DEF IInv, Masked
    <2>2. i < Len(s) /\ s[i + 1].at = "body"
      BY <1>1, <1>2, <2>1 DEF Working
    <2>3. i \in 1 .. Len(t) /\ t[i] = s[i]
      BY <1>2, <1>3, <2>1, <2>2
    <2>4. CASE i = Len(t)
      <3>1. f.at = "body"
        BY <1>2, <1>3, <2>2, <2>4
      <3>2. place = "body"
        BY <1>5, <2>3, <3>1, <1>3
      <3> QED  BY <2>1, <2>3, <2>4, <3>2 DEF Working
    <2>5. CASE i # Len(t)
      <3>1. t[i + 1].at = "body"
        BY <1>2, <1>3, <2>2, <2>3, <2>5
      <3> QED  BY <2>1, <2>3, <2>5, <3>1 DEF Working
    <2> QED  BY <2>4, <2>5
  <1> QED
    BY <1>10, <1>11, <1>12, <1>13, <1>14, <1>15 DEF IInv

(* The running process q, if any, that gets the processor has no frame but  *)
(* that of its program, like the one that gives it away.                    *)
LEMMA GivenAway ==
  ASSUME IInv, Switches, pc[current] = "body", Top(current).kind \notin Devices
  PROVE  masked = {} /\ Top(current).ring0 = -1
  <1> DEFINE s == path[current]
             f == Top(current)
  <1>1. /\ current \in Procs /\ s # <<>> /\ GoodPath(s) /\ is_in_ring0 = f.ring0 + 1
        /\ is_in_ring0 = 0
    BY DEF IInv, Shape, Running, Switches
  <1>2. /\ s \in Seq(Frames) /\ Len(s) \in Nat \ {0} /\ f \in Frames /\ f = s[Len(s)]
        /\ Len(s) \in 1 .. Len(s) /\ \A i \in 1 .. Len(s) : s[i] \in Frames
    BY <1>1, TopOf DEF IInv
  <1>3. f.ring0 = -1
    BY <1>1, <1>2, InterruptAssumption DEF Frames
  <1>4. masked = {}
    <2> SUFFICES ASSUME NEW d \in masked PROVE FALSE
      OBVIOUS
    <2>1. PICK i \in 1 .. Len(s) : s[i].kind = d /\ Working(s, i, pc[current])
      BY DEF IInv, Masked
    <2>2. d \in Devices
      BY DEF IInv, Shape
    <2>3. i < Len(s) /\ s[i + 1].at = "body"
      BY <1>2, <2>1, <2>2 DEF Working
    <2>4. s[i].ring0 >= -1 /\ s[i].ring0 + Rise(s[i + 1]) <= f.ring0
      BY <1>1, <1>2, <2>1, <2>3 DEF GoodPath
    <2>5. s[i].ring0 \in Int /\ Rise(s[i + 1]) = 1
      <3>1. s[i] \in Frames
        BY <1>2, <2>1
      <3> QED  BY <2>3, <3>1, InterruptAssumption DEF Rise, Frames
    <2> QED  BY <1>3, <2>4, <2>5
  <1> QED  BY <1>3, <1>4

(* What To(q) makes of q. *)
LEMMA Taken ==
  ASSUME IInv, NEW q \in Procs, q # current, pc[q] # "free"
  PROVE  /\ pc[q] \in {"body", "leaving"} /\ path[q] # <<>>
         /\ Top(q).ring0 = -1 /\ (pc[q] = "leaving" => Top(q).kind \in Open)
  BY DEF IInv, Parked, Open

LEMMA ScheduleInv == ASSUME IInv, NEW q \in Procs, schedule(q) PROVE IInv'
  <1>1. /\ current \in Procs /\ pc[current] = "body" /\ Top(current).kind \notin Devices
        /\ q # current /\ pc[q] # "free" /\ Switches
    BY InterruptAssumption DEF IInv, Shape, schedule, InHandler, To
  <1>2. masked = {} /\ Top(current).ring0 = -1
    BY <1>1, GivenAway
  <1>3. /\ pc[q] \in {"body", "leaving"} /\ path[q] # <<>> /\ Top(q).ring0 = -1
        /\ pc[q] = "leaving" => Top(q).kind \in Open
    BY <1>1, Taken
  <1>4. /\ current' = q /\ UNCHANGED <<is_in_ring0, masked, pc, path, hit>>
        /\ ints' \in BOOLEAN /\ flags' \in [Procs -> BOOLEAN]
    BY DEF schedule, To, IInv, Shape
  <1>5. Shape'
    BY <1>4 DEF IInv, Shape
  <1>6. Running'
    BY <1>2, <1>3, <1>4 DEF Running, Top, Switches, schedule
  <1>7. Masked'
    BY <1>2, <1>4 DEF Masked
  <1>8. \A p \in Procs \ {current'} : Parked(p)'
    BY <1>1, <1>2, <1>4 DEF IInv, Parked, Top
  <1> QED
    BY <1>4, <1>5, <1>6, <1>7, <1>8 DEF IInv

(* The path of a new process. *)
LEMMA FreshPath ==
  /\ GoodPath(Fresh) /\ InPlace(Fresh) /\ Fresh \in Seq(Frames) /\ Fresh # <<>> /\ Len(Fresh) = 1
  /\ Fresh[Len(Fresh)].ring0 = -1 /\ Fresh[Len(Fresh)].kind = "new"
  <1> DEFINE f == [kind |-> "new", where |-> "entry", ret |-> "restart", at |-> "user", ring0 |-> -1]
  <1>1. f \in Frames /\ f.ring0 = -1 /\ f.ret = "restart" /\ f.kind = "new" /\ f.where = "entry"
    BY InterruptAssumption DEF Frames, Places
  <1>2. Fresh = <<f>>
    BY DEF Fresh
  <1> HIDE DEF f
  <1> QED  BY <1>1, <1>2, Alone DEF InPlace

LEMMA ForkInv == ASSUME IInv, NEW q \in Procs, sys_fork(q) PROVE IInv'
  <1>1. /\ current \in Procs /\ pc[current] = "body" /\ pc[q] = "free" /\ q # current
    BY DEF IInv, Shape, sys_fork, InHandler
  <1>2. /\ \A p \in Procs : pc'[p] = IF p = q THEN "leaving" ELSE pc[p]
        /\ \A p \in Procs : path'[p] = IF p = q THEN Fresh ELSE path[p]
        /\ UNCHANGED <<current, is_in_ring0, ints, masked, flags, hit>>
        /\ pc' \in [Procs -> Places] /\ path' \in [Procs -> Seq(Frames)]
    BY FreshPath DEF sys_fork, IInv, Shape, Places
  <1>3. Shape'
    <2>1. \A p \in Procs : Len(path'[p]) <= MaxNest
      <3>1. MaxNest >= 1 /\ Len(Fresh) = 1 /\ \A p \in Procs : Len(path[p]) <= MaxNest
        BY FreshPath, InterruptAssumption DEF IInv, Shape
      <3> QED  BY <1>2, <3>1
    <2> QED  BY <1>2, <2>1 DEF IInv, Shape
  <1>4. \A p \in Procs : /\ pc'[p] \in {"free", "user"} <=> path'[p] = <<>>
                         /\ GoodPath(path'[p]) /\ (~hit' => InPlace(path'[p]))
    BY <1>2, FreshPath DEF IInv
  <1>5. \A p \in Procs \ {current'} : Parked(p)'
    BY <1>1, <1>2, FreshPath DEF IInv, Parked, Top
  <1>6. Running' /\ Masked'
    BY <1>1, <1>2 DEF IInv, Running, Masked, Top
  <1> QED
    BY <1>3, <1>4, <1>5, <1>6 DEF IInv

LEMMA ExitInv == ASSUME IInv, NEW q \in Procs, sys_exit(q) PROVE IInv'
  <1>1. /\ current \in Procs /\ pc[current] = "body" /\ Top(current).kind \notin Devices
        /\ q # current /\ pc[q] # "free" /\ Switches
    BY InterruptAssumption DEF IInv, Shape, sys_exit, InHandler, To
  <1>2. masked = {}
    BY <1>1, GivenAway
  <1>3. /\ pc[q] \in {"body", "leaving"} /\ path[q] # <<>> /\ Top(q).ring0 = -1
        /\ pc[q] = "leaving" => Top(q).kind \in Open
    BY <1>1, Taken
  <1>4. /\ current' = q /\ UNCHANGED <<is_in_ring0, masked, flags, hit>> /\ ints' \in BOOLEAN
        /\ \A p \in Procs : pc'[p] = IF p = current THEN "free" ELSE pc[p]
        /\ \A p \in Procs : path'[p] = IF p = current THEN <<>> ELSE path[p]
        /\ pc' \in [Procs -> Places] /\ path' \in [Procs -> Seq(Frames)]
    BY Empty DEF sys_exit, To, Moved, IInv, Shape, Places
  <1>5. Shape'
    <2>1. \A p \in Procs : Len(path'[p]) <= MaxNest
      BY <1>4, Empty, InterruptAssumption DEF IInv, Shape
    <2> QED  BY <1>4, <2>1 DEF IInv, Shape
  <1>6. Running'
    BY <1>1, <1>3, <1>4 DEF Running, Top, Switches
  <1>7. Masked'
    BY <1>2, <1>4 DEF Masked
  <1>8. \A p \in Procs \ {current'} : Parked(p)'
    BY <1>1, <1>4 DEF IInv, Parked, Top
  <1>9. \A p \in Procs : /\ pc'[p] \in {"free", "user"} <=> path'[p] = <<>>
                         /\ GoodPath(path'[p]) /\ (~hit' => InPlace(path'[p]))
    BY <1>4, Empty DEF IInv
  <1> QED
    BY <1>5, <1>6, <1>7, <1>8, <1>9 DEF IInv
-----------------------------------------------------------------------------
(* The invariant holds in every state of the entries and exits.            *)
THEOREM Invariance == Spec => []IInv
  <1>1. IInv /\ [Next]_vars => IInv'
    <2> SUFFICES ASSUME IInv, [Next]_vars PROVE IInv'
      OBVIOUS
    <2>1. CASE sys_call
      BY <2>1, SaveInv DEF sys_call
    <2>2. CASE page_fault
      BY <2>2, SaveInv DEF page_fault
    <2>3. CASE hwint00
      BY <2>3, SaveInv DEF hwint00
    <2>4. ASSUME NEW d \in Devices, hwint(d) PROVE IInv'
      BY <2>4, SaveInv DEF hwint
    <2>5. CASE sti \/ leave \/ restart \/ ret_to_proc \/ iretd
      BY <2>5, StiInv, LeaveInv, RestartInv, CountedDownInv, IretdInv
    <2>6. ASSUME NEW q \in Procs, schedule(q) \/ sys_fork(q) \/ sys_exit(q) PROVE IInv'
      BY <2>6, ScheduleInv, ForkInv, ExitInv
    <2>7. CASE UNCHANGED vars
      BY <2>7 DEF vars, IInv, Shape, Parked, Running, Masked, Top
    <2> QED
      BY <2>1, <2>2, <2>3, <2>4, <2>5, <2>6, <2>7 DEF Next
  <1> QED
    BY InitInv, <1>1, PTL DEF Spec

(* The variables keep their types; no count is below -1 nor beyond what the *)
(* nested frames allow.                                                     *)
THEOREM TypeCorrect == Spec => []TypeOK
  <1>1. IInv => TypeOK
    <2> SUFFICES ASSUME IInv PROVE TypeOK
      OBVIOUS
    <2>1. is_in_ring0 \in -1 .. MaxNest - 1
      <3>1. CASE pc[current] = "user"
        BY <3>1, InterruptAssumption DEF IInv, Running
      <3>2. CASE pc[current] # "user"
        <4>1. current \in Procs /\ path[current] # <<>> /\ GoodPath(path[current])
              /\ Len(path[current]) <= MaxNest
          BY <3>2 DEF IInv, Shape, Running
        <4>2. /\ Top(current) = path[current][Len(path[current])] /\ Top(current) \in Frames
              /\ Len(path[current]) \in Nat /\ Len(path[current]) \in 1 .. Len(path[current])
          BY <4>1, TopOf DEF IInv
        <4>3. Top(current).ring0 >= -1 /\ Top(current).ring0 <= Len(path[current]) - 2
          BY <4>1, <4>2 DEF GoodPath
        <4>4. Top(current).ring0 \in Int
          BY <4>2, InterruptAssumption DEF Frames
        <4>5. is_in_ring0 = Top(current).ring0 + (IF pc[current] = "popping" THEN 0 ELSE 1)
          BY <3>2, <4>4 DEF IInv, Running
        <4> QED  BY <4>1, <4>2, <4>3, <4>4, <4>5, InterruptAssumption
      <3> QED  BY <3>1, <3>2
    <2> QED  BY <2>1 DEF IInv, Shape, TypeOK
  <1> QED  BY Invariance, <1>1, PTL

(* restart and iretd find the frames where save left them, unless an        *)
(* interrupt came while esp was in the entry.                               *)
THEOREM FramesStay == Spec => []FramesInPlace
  <1>1. IInv => FramesInPlace
    <2> SUFFICES ASSUME IInv, ~hit, NEW p \in Procs PROVE
          \A i \in DOMAIN path[p] :
             IF i = 1 THEN path[p][i].where = "entry" /\ path[p][i].ret = "restart"
                      ELSE path[p][i].where = "kstack" /\ path[p][i].ret = "ret_to_proc"
      BY DEF FramesInPlace
    <2>1. DOMAIN path[p] = 1 .. Len(path[p])
      BY DEF IInv, Shape
    <2> QED  BY <2>1 DEF IInv, InPlace
  <1> QED  BY Invariance, <1>1, PTL

(* A path with the frames in their places has one frame just when the top  *)
(* one remembers user mode.                                                 *)
LEMMA OneFrame ==
  ASSUME IInv, ~hit, NEW p \in Procs, path[p] # <<>>
  PROVE  /\ Top(p).ring0 \in Int /\ Top(p).ring0 >= -1
         /\ Top(p).ring0 = -1 <=> Len(path[p]) = 1
  <1>1. /\ Len(path[p]) \in Nat \ {0} /\ Top(p) = path[p][Len(path[p])] /\ Top(p) \in Frames
        /\ Len(path[p]) \in 1 .. Len(path[p]) /\ GoodPath(path[p]) /\ InPlace(path[p])
    BY TopOf DEF IInv
  <1>2. Top(p).ring0 >= -1 /\ (Top(p).ret = "restart" <=> Top(p).ring0 = -1)
    BY <1>1 DEF GoodPath
  <1>3. Top(p).ret = "restart" <=> Len(path[p]) = 1
    BY <1>1 DEF InPlace
  <1>4. Top(p).ring0 \in Int
    BY <1>1, InterruptAssumption DEF Frames
  <1> QED  BY <1>2, <1>3, <1>4

(* save and schedule read the nesting rightly from is_in_ring0, under the  *)
(* same condition.                                                          *)
THEOREM NestIsCounted == Spec => []NestCounted
  <1>1. IInv => NestCounted
    <2> SUFFICES ASSUME IInv, ~hit
                 PROVE  /\ pc[current] = "user" => is_in_ring0 = -1
                        /\ pc[current] = "popping" => is_in_ring0 = Top(current).ring0
                        /\ pc[current] \notin {"user", "popping"} =>
                              is_in_ring0 >= 0 /\ (is_in_ring0 = 0 <=> Len(path[current]) = 1)
      BY DEF NestCounted
    <2>1. CASE pc[current] \in {"user", "popping"}
      BY <2>1 DEF IInv, Running
    <2>2. CASE pc[current] \notin {"user", "popping"}
      <3>1. current \in Procs /\ path[current] # <<>> /\ is_in_ring0 = Top(current).ring0 + 1
        BY <2>2 DEF IInv, Shape, Running
      <3> QED  BY <2>2, <3>1, OneFrame
    <2> QED  BY <2>1, <2>2
  <1> QED  BY Invariance, <1>1, PTL

(* The processor is given away by handlers that interrupt user mode only,  *)
(* and every masked device has its handler on the running process.         *)
THEOREM ParkedAreAlone == Spec => []ParkedAlone
  <1>1. IInv => ParkedAlone
    <2> SUFFICES ASSUME IInv PROVE ParkedAlone
      OBVIOUS
    <2>1. ASSUME ~hit, NEW p \in Procs \ {current}, pc[p] \in {"body", "leaving"}
          PROVE  Len(path[p]) = 1
      <3>1. path[p] # <<>> /\ Top(p).ring0 = -1
        BY <2>1 DEF IInv, Parked
      <3> QED  BY <2>1, <3>1, OneFrame
    <2>2. ASSUME NEW d \in masked PROVE \E i \in DOMAIN path[current] : path[current][i].kind = d
      <3>1. DOMAIN path[current] = 1 .. Len(path[current])
        BY DEF IInv, Shape
      <3> QED  BY <2>2, <3>1 DEF IInv, Masked
    <2> QED  BY <2>1, <2>2 DEF ParkedAlone
  <1> QED  BY Invariance, <1>1, PTL

(* Only the clock, the page fault and a process that never ran leave the   *)
(* window in which an interrupt would find esp in the entry.               *)
THEOREM WindowsAreKnown == Spec => []WindowsKnown
  <1>1. IInv => WindowsKnown
    BY DEF IInv, Running, WindowsKnown, InEntry, Open
  <1> QED  BY Invariance, <1>1, PTL
=============================================================================
