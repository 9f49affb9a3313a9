---------------------------- MODULE PagingProofs ----------------------------
(***************************************************************************)
(* No frame has two roles, and no process sees another one write to its    *)
(* stack, for any memory, any number of processes and any programs.        *)
(***************************************************************************)
EXTENDS Paging, FiniteSetTheorems, WellFoundedInduction, TLAPS

(* The roles of OneRole, as places: who may have a frame, and for what.    *)
Kinds == {"dir", "kstack"} \cup Dirs
HasRole(p, k) ==
    \/ k = "dir" /\ page_dir[p] # NULL
    \/ k = "kstack" /\ Alive(p)
    \/ k \in Present(p) /\ Alive(p)
RoleFrame(p, k) ==
    IF k = "dir" THEN page_dir[p] ELSE IF k = "kstack" THEN esp_addr[p] ELSE entry[p][k]

RolesUsed == \A p \in Slots, k \in Kinds : HasRole(p, k) => RoleFrame(p, k) \in used
RolesApart ==
    \A p, q \in Slots, k, l \in Kinds :
        HasRole(p, k) /\ HasRole(q, l) /\ RoleFrame(p, k) = RoleFrame(q, l) => p = q /\ k = l

(* The pages that a process was given. *)
Given(p, pg) == Alive(p) /\ pg \in owns[p]
PagesApart ==
    \A p \in Slots, pg \in Dirs \X Idx : Given(p, pg) =>
        /\ entry[p][pg[1]] # NULL /\ FrameOf(p, pg) \in used
        /\ \A q \in Slots, k \in Kinds : HasRole(q, k) => RoleFrame(q, k) # FrameOf(p, pg)

(* What the properties do not say and every step needs: there is a stack;   *)
(* its page is no page of a program; and a page that is read-only counts.  *)
StackGiven == \A p \in Slots : Alive(p) => StackPage \in owns[p]
StackApart ==
    \A p, q \in Slots, pg \in Dirs \X Idx :
        Given(p, pg) /\ pg # StackPage /\ Alive(q) => FrameOf(p, pg) # FrameOf(q, StackPage)
ReadOnlyCounted ==
    \A p \in Slots, pg \in Dirs \X Idx :
        Given(p, pg) /\ ~Pte(p, pg).rw => count[FrameOf(p, pg)] > 0

Apart == RolesUsed /\ RolesApart /\ PagesApart
Stacks == StackGiven /\ StackApart /\ ReadOnlyCounted /\ StackCounted /\ StackPrivate
IInv == TypeOK /\ Apart /\ Stacks

-----------------------------------------------------------------------------
(* A set of numbers has a least one, and its n-th, when it has so many.    *)
LEMMA NatMin ==
  ASSUME NEW T, T \subseteq Nat, T # {}
  PROVE  \E x \in T : \A y \in T : x <= y
  <1> DEFINE R == {ss \in Nat \X Nat : ss[1] < ss[2]}
  <1>1. IsWellFoundedOn(R, Nat)
    BY NatLessThanWellFounded DEF OpToRel
  <1>2. \A x, y \in Nat : <<y, x>> \in R <=> y < x
    OBVIOUS
  <1> HIDE DEF R
  <1>3. PICK x \in T : \A y \in T : ~ (<<y, x>> \in R)
    BY <1>1, WFMin
  <1>4. \A y \in T : x \in Nat /\ y \in Nat /\ ~ (y < x)
    BY <1>2, <1>3
  <1> QED  BY <1>4

LEMMA Nth ==
  ASSUME NEW S, S \subseteq Nat, IsFiniteSet(S), NEW n \in Nat, n < Cardinality(S)
  PROVE  \E f \in S : Cardinality({g \in S : g < f}) = n
  <1> DEFINE Below(f) == {g \in S : g < f}
             Missing == {m \in 0 .. n : \A f \in S : Cardinality(Below(f)) # m}
  <1>1. Cardinality(S) \in Nat
    BY FS_CardinalityType
  <1>2. CASE Missing = {}
    <2>1. n \in 0 .. n /\ n \notin Missing
      BY <1>2
    <2> QED  BY <2>1
  <1>3. CASE Missing # {}
    <2>1. Missing \subseteq Nat
      OBVIOUS
    <2>2. PICK m \in Missing : \A k \in Missing : m <= k
      BY <1>3, <2>1, NatMin
    <2>3. CASE m = 0
      <3>1. S # {}
        BY <1>1, FS_EmptySet
      <3>2. PICK f \in S : \A g \in S : f <= g
        BY <3>1, NatMin
      <3>3. Below(f) = {}
        <4>1. \A g \in S : g \in Nat /\ f \in Nat /\ ~ (g < f)
          BY <3>2
        <4> QED  BY <4>1
      <3>4. Cardinality(Below(f)) = 0
        BY <3>3, FS_EmptySet
      <3> QED  BY <2>2, <2>3, <3>4
    <2>4. CASE m # 0
      <3>1. m - 1 \in 0 .. n /\ m - 1 \notin Missing /\ m \in 0 .. n
        <4>1. m \in 0 .. n
          OBVIOUS
        <4>2. m - 1 \in 0 .. n /\ ~ (m <= m - 1)
          BY <2>4, <4>1
        <4> QED  BY <2>2, <4>1, <4>2
      <3>2. PICK f \in S : Cardinality(Below(f)) = m - 1
        BY <3>1
      <3> DEFINE Rest == {g \in S : g > f}
      <3>3. IsFiniteSet(Below(f)) /\ f \notin Below(f)
        <4>1. Below(f) \in SUBSET S /\ f \in Nat /\ ~ (f < f)
          OBVIOUS
        <4> QED  BY <4>1, FS_Subset
      <3>4. IsFiniteSet(Below(f) \cup {f}) /\ Cardinality(Below(f) \cup {f}) = m
        <4>1. IsFiniteSet(Below(f) \cup {f}) /\ Cardinality(Below(f) \cup {f}) = Cardinality(Below(f)) + 1
          BY <3>3, FS_AddElement
        <4> QED  BY <3>1, <3>2, <4>1
      <3>5. Rest # {}
        <4> SUFFICES ASSUME Rest = {} PROVE FALSE
          OBVIOUS
        <4>1. \A g \in S : g \in Nat /\ f \in Nat /\ ~ (g > f)
          OBVIOUS
        <4>2. ASSUME NEW g \in S PROVE g \in Below(f) \cup {f}
          <5>1. g < f \/ g = f
            BY <4>1
          <5> QED  BY <5>1
        <4>3. S = Below(f) \cup {f}
          BY <4>2
        <4> QED  BY <1>1, <3>1, <3>4, <4>3
      <3>6. PICK h \in Rest : \A g \in Rest : h <= g
        <4>1. Rest \subseteq Nat
          OBVIOUS
        <4> QED  BY <3>5, <4>1, NatMin
      <3>7. Below(h) = Below(f) \cup {f}
        <4>1. \A g \in S : g \in Nat /\ f \in Nat /\ h \in Nat /\ h > f /\ (g > f => h <= g)
          BY <3>6
        <4>2. \A g \in S : g < h <=> g < f \/ g = f
          BY <4>1
        <4> QED  BY <4>2
      <3>8. h \in S /\ Cardinality(Below(h)) = m
        BY <3>4, <3>7
      <3> QED  BY <3>8
    <2> QED  BY <2>3, <2>4
  <1> QED  BY <1>2, <1>3

(* Constants *)
LEMMA Memory == IsFiniteSet(Frames) /\ Frames \subseteq Nat /\ NULL \notin Frames
  BY PagingAssumption DEF NULL

(* The frames that a series of calls gets are not in use and all different. *)
LEMMA PageIs ==
  ASSUME NEW u, NEW n \in Nat, n <= Cardinality(Unused(u)), NEW i \in 1 .. n
  PROVE  /\ Page(u, i) \in Frames /\ Page(u, i) \notin u /\ Page(u, i) \in Pages(u, n)
         /\ Page(u, i) # NULL
         /\ Cardinality({g \in Unused(u) : g < Page(u, i)}) = i - 1
  <1>1. IsFiniteSet(Unused(u)) /\ Unused(u) \subseteq Nat
    BY Memory, FS_Subset DEF Unused
  <1>2. i - 1 \in Nat /\ i - 1 < Cardinality(Unused(u))
    BY <1>1, FS_CardinalityType
  <1>3. \E f \in Unused(u) : Cardinality({g \in Unused(u) : g < f}) = i - 1
    BY <1>1, <1>2, Nth
  <1>4. Page(u, i) \in Unused(u) /\ Cardinality({g \in Unused(u) : g < Page(u, i)}) = i - 1
    BY <1>3 DEF Page
  <1> QED  BY <1>4, Memory DEF Unused, Pages

LEMMA PagesFresh ==
  ASSUME NEW u, NEW n \in Nat, n <= Cardinality(Unused(u))
  PROVE  /\ Pages(u, n) \subseteq Frames /\ Pages(u, n) \cap u = {}
         /\ \A i, j \in 1 .. n : Page(u, i) = Page(u, j) => i = j
  <1>1. Pages(u, n) \subseteq Frames /\ Pages(u, n) \cap u = {}
    <2>1. \A i \in 1 .. n : Page(u, i) \in Frames /\ Page(u, i) \notin u
      BY PageIs
    <2> QED  BY <2>1 DEF Pages
  <1>2. ASSUME NEW i \in 1 .. n, NEW j \in 1 .. n, Page(u, i) = Page(u, j) PROVE i = j
    <2>1. Cardinality({g \in Unused(u) : g < Page(u, i)}) = i - 1
      BY PageIs
    <2>2. Cardinality({g \in Unused(u) : g < Page(u, j)}) = j - 1
      BY PageIs
    <2>3. i - 1 = j - 1
      BY <1>2, <2>1, <2>2
    <2> QED  BY <2>3
  <1> QED  BY <1>1, <1>2

LEMMA PagesUpTo ==
  ASSUME NEW u, NEW n \in Nat, NEW m \in Nat, m <= n
  PROVE  Pages(u, m) \subseteq Pages(u, n)
  BY DEF Pages

-----------------------------------------------------------------------------
(* What a step does to roles and pages: those that stay were in use at u,  *)
(* where frames not in u were taken, and the new ones are apart.           *)
Moves(u, fresh) ==
    /\ u \cap fresh = {} /\ u \cup fresh \subseteq used'
    /\ \A p \in Slots, k \in Kinds : HasRole(p, k)' =>
          \/ HasRole(p, k) /\ RoleFrame(p, k)' = RoleFrame(p, k) /\ RoleFrame(p, k) \in u
          \/ RoleFrame(p, k)' \in fresh
    /\ \A p, q \in Slots, k, l \in Kinds :
          HasRole(p, k)' /\ HasRole(q, l)' /\ RoleFrame(p, k)' \in fresh
             /\ RoleFrame(p, k)' = RoleFrame(q, l)' => p = q /\ k = l
    /\ \A p \in Slots, pg \in Dirs \X Idx : Given(p, pg)' =>
          /\ entry'[p][pg[1]] # NULL
          /\ \/ /\ FrameOf(p, pg)' \in u
                /\ \E q \in Slots, o \in Dirs \X Idx : Given(q, o) /\ FrameOf(q, o) = FrameOf(p, pg)'
             \/ /\ FrameOf(p, pg)' \in fresh
                /\ \A q \in Slots, k \in Kinds : HasRole(q, k)' => RoleFrame(q, k)' # FrameOf(p, pg)'

LEMMA ApartStep ==
  ASSUME Apart, NEW u, NEW fresh, Moves(u, fresh)
  PROVE  Apart'
  <1> USE DEF Moves
  <1>1. RolesUsed'
    BY DEF RolesUsed
  <1>2. RolesApart'
    <2> SUFFICES ASSUME NEW p \in Slots, NEW q \in Slots, NEW k \in Kinds, NEW l \in Kinds,
                        HasRole(p, k)', HasRole(q, l)', RoleFrame(p, k)' = RoleFrame(q, l)'
                 PROVE  p = q /\ k = l
      BY DEF RolesApart
    <2>1. CASE RoleFrame(p, k)' \in fresh
      BY <2>1
    <2>2. CASE RoleFrame(p, k)' \notin fresh
      <3>1. HasRole(p, k) /\ HasRole(q, l) /\ RoleFrame(p, k) = RoleFrame(q, l)
        BY <2>2
      <3> QED  BY <3>1 DEF Apart, RolesApart
    <2> QED  BY <2>1, <2>2
  <1>3. PagesApart'
    <2> SUFFICES ASSUME NEW p \in Slots, NEW pg \in Dirs \X Idx, Given(p, pg)'
                 PROVE  /\ entry'[p][pg[1]] # NULL /\ FrameOf(p, pg)' \in used'
                        /\ \A q \in Slots, k \in Kinds :
                              HasRole(q, k)' => RoleFrame(q, k)' # FrameOf(p, pg)'
      BY DEF PagesApart
    <2>1. entry'[p][pg[1]] # NULL /\ FrameOf(p, pg)' \in used'
      OBVIOUS
    <2>2. ASSUME NEW q \in Slots, NEW k \in Kinds, HasRole(q, k)'
          PROVE  RoleFrame(q, k)' # FrameOf(p, pg)'
      <3>1. CASE FrameOf(p, pg)' \in fresh
        BY <2>2, <3>1
      <3>2. CASE FrameOf(p, pg)' \notin fresh
        <4>1. PICK r \in Slots, o \in Dirs \X Idx : Given(r, o) /\ FrameOf(r, o) = FrameOf(p, pg)'
          BY <3>2
        <4>2. FrameOf(p, pg)' \in u
          BY <3>2
        <4>3. HasRole(q, k) => RoleFrame(q, k) # FrameOf(p, pg)'
          BY <4>1 DEF Apart, PagesApart
        <4> QED  BY <2>2, <4>2, <4>3
      <3> QED  BY <3>1, <3>2
    <2> QED  BY <2>1, <2>2
  <1> QED  BY <1>1, <1>2, <1>3 DEF Apart

(* Who maps the frame as its stack page. *)
Sharers(f) == {q \in Slots : Alive(q) /\ FrameOf(q, StackPage) = f}

LEMMA SharersFinite ==
  ASSUME NEW f
  PROVE  IsFiniteSet(Sharers(f)) /\ Cardinality(Sharers(f)) \in Nat
  <1>1. IsFiniteSet(Sharers(f))
    BY PagingAssumption, FS_Subset DEF Sharers
  <1> QED  BY <1>1, FS_CardinalityType

(* The counts of pages given are numbers. *)
LEMMA GivenTypes ==
  ASSUME TypeOK, PagesApart, NEW p \in Slots, NEW pg \in Dirs \X Idx, Given(p, pg)
  PROVE  /\ entry[p][pg[1]] \in Frames /\ pg[1] \in Present(p) /\ Pte(p, pg) \in Entries
         /\ FrameOf(p, pg) \in Frames /\ FrameOf(p, pg) \in used
         /\ count[FrameOf(p, pg)] \in Nat
  <1>1. pg[1] \in Dirs /\ pg[2] \in Idx
    OBVIOUS
  <1>2. entry[p][pg[1]] \in Frames /\ FrameOf(p, pg) \in used
    BY <1>1 DEF TypeOK, PagesApart
  <1>3. Pte(p, pg) \in Entries
    BY <1>1, <1>2 DEF TypeOK, Pte
  <1> QED  BY <1>1, <1>2, <1>3, Memory DEF TypeOK, Present

(* What a step does to stacks that only p may get pages by, new ones.      *)
LEMMA StacksStep ==
  ASSUME TypeOK, PagesApart, Stacks, NEW p \in Slots,
         \A q \in Slots : q # p /\ Alive(q)' => Alive(q) /\ owns'[q] = owns[q],
         \A q \in Slots, o \in Dirs \X Idx : q # p /\ Given(q, o)' =>
             Pte(q, o)' = Pte(q, o) /\ count'[FrameOf(q, o)] = count[FrameOf(q, o)],
         Alive(p)' =>
             /\ StackPage \in owns'[p] /\ count'[FrameOf(p, StackPage)'] = 1
             /\ \A o \in Dirs \X Idx : Given(p, o)' => Pte(p, o)'.rw
             /\ \A o, r \in Dirs \X Idx, q \in Slots :
                   Given(p, o)' /\ q # p /\ Given(q, r) => FrameOf(p, o)' # FrameOf(q, r)
             /\ \A o \in Dirs \X Idx :
                   Given(p, o)' /\ o # StackPage => FrameOf(p, o)' # FrameOf(p, StackPage)'
  PROVE  Stacks'
  <1>1. StackPage \in Dirs \X Idx
    BY PagingAssumption DEF StackPage, Dirs
  <1>2. \A q \in Slots, o \in Dirs \X Idx : q # p /\ Given(q, o)' => Given(q, o)
    BY DEF Given
  <1>3. \A q \in Slots, o \in Dirs \X Idx : q # p /\ Given(q, o)' => FrameOf(q, o)' = FrameOf(q, o)
    BY DEF FrameOf
  <1>4. StackGiven'
    BY DEF Stacks, StackGiven
  <1>5. \A q \in Slots : Alive(q) => Given(q, StackPage)
    BY DEF Stacks, StackGiven, Given
  <1>6. \A q \in Slots : Alive(q)' => Given(q, StackPage)'
    BY <1>4 DEF StackGiven, Given
  <1>7. StackApart'
    <2> SUFFICES ASSUME NEW q \in Slots, NEW r \in Slots, NEW o \in Dirs \X Idx,
                        Given(q, o)', o # StackPage, Alive(r)'
                 PROVE  FrameOf(q, o)' # FrameOf(r, StackPage)'
      BY DEF StackApart, StackPage
    <2>1. Given(r, StackPage)'
      BY <1>6
    <2>2. CASE q # p /\ r # p
      <3>1. Given(q, o) /\ Alive(r)
        BY <1>2, <2>2
      <3> QED  BY <1>1, <1>3, <2>1, <2>2, <3>1 DEF Stacks, StackApart
    <2>3. CASE q = p /\ r # p
      <3>1. Given(r, StackPage) /\ FrameOf(r, StackPage)' = FrameOf(r, StackPage)
        BY <1>1, <1>2, <1>3, <2>1, <2>3
      <3>2. Alive(p)'
        BY <2>3 DEF Given
      <3> QED  BY <1>1, <2>3, <3>1, <3>2
    <2>4. CASE q # p /\ r = p
      <3>1. Given(q, o) /\ FrameOf(q, o)' = FrameOf(q, o)
        BY <1>2, <1>3, <2>4
      <3> QED  BY <1>1, <2>1, <2>4, <3>1
    <2>5. CASE q = p /\ r = p
      BY <2>5
    <2> QED  BY <2>2, <2>3, <2>4, <2>5
  <1>8. ReadOnlyCounted'
    <2> SUFFICES ASSUME NEW q \in Slots, NEW o \in Dirs \X Idx, Given(q, o)', ~Pte(q, o)'.rw
                 PROVE  count'[FrameOf(q, o)'] > 0
      BY DEF ReadOnlyCounted
    <2>1. q # p
      BY DEF Given
    <2>2. Given(q, o) /\ ~Pte(q, o).rw /\ FrameOf(q, o)' = FrameOf(q, o)
      BY <1>2, <1>3, <2>1
    <2> QED  BY <2>1, <2>2 DEF Stacks, ReadOnlyCounted
  <1>9. StackCounted'
    <2> SUFFICES ASSUME NEW q \in Slots, Alive(q)'
                 PROVE  Cardinality(Sharers(FrameOf(q, StackPage))') <= count'[FrameOf(q, StackPage)']
      BY DEF StackCounted, Sharers
    <2> DEFINE S == Sharers(FrameOf(q, StackPage))'
    <2>1. Given(q, StackPage)'
      BY <1>6
    <2>2. CASE q = p
      <3>1. ASSUME NEW r \in S PROVE r = p
        <4>1. r \in Slots /\ Alive(r)' /\ FrameOf(r, StackPage)' = FrameOf(q, StackPage)'
          BY DEF Sharers
        <4>2. r # p => Given(r, StackPage) /\ FrameOf(r, StackPage)' = FrameOf(r, StackPage)
          BY <1>1, <1>2, <1>3, <1>6, <4>1
        <4> QED  BY <1>1, <2>1, <2>2, <4>1, <4>2
      <3>2. S \subseteq {p}
        BY <3>1
      <3>3. Cardinality(S) <= 1
        <4>1. IsFiniteSet({p}) /\ Cardinality({p}) = 1 /\ S \in SUBSET {p}
          BY <3>2, FS_Singleton
        <4>2. Cardinality(S) <= Cardinality({p})
          BY <4>1, FS_Subset
        <4> QED  BY <4>1, <4>2
      <3> QED  BY <2>2, <3>3
    <2>3. CASE q # p
      <3>1. Given(q, StackPage) /\ Alive(q) /\ FrameOf(q, StackPage)' = FrameOf(q, StackPage)
        BY <1>1, <1>2, <1>3, <2>1, <2>3
      <3>2. ASSUME NEW r \in S PROVE r \in Sharers(FrameOf(q, StackPage))
        <4>1. r \in Slots /\ Alive(r)' /\ FrameOf(r, StackPage)' = FrameOf(q, StackPage)
          BY <3>1 DEF Sharers
        <4>2. r # p
          BY <1>1, <1>6, <2>3, <3>1, <4>1
        <4>3. FrameOf(r, StackPage)' = FrameOf(r, StackPage) /\ Alive(r)
          BY <1>1, <1>3, <1>6, <4>1, <4>2
        <4> QED  BY <4>1, <4>3 DEF Sharers
      <3>3. Cardinality(S) <= Cardinality(Sharers(FrameOf(q, StackPage)))
        BY <3>2, SharersFinite, FS_Subset
      <3>4. Cardinality(Sharers(FrameOf(q, StackPage))) <= count[FrameOf(q, StackPage)]
        BY <3>1 DEF Stacks, StackCounted, Sharers
      <3>5. count'[FrameOf(q, StackPage)'] = count[FrameOf(q, StackPage)]
        BY <1>1, <2>1, <2>3, <3>1
      <3>6. IsFiniteSet(S) /\ S \in SUBSET Sharers(FrameOf(q, StackPage))
        BY <3>2, SharersFinite, FS_Subset
      <3>7. Cardinality(S) \in Nat /\ Cardinality(Sharers(FrameOf(q, StackPage))) \in Nat
        BY <3>6, SharersFinite, FS_CardinalityType
      <3>9. count[FrameOf(q, StackPage)] \in Nat
        BY <1>1, <3>1, GivenTypes
      <3> HIDE DEF S
      <3>8. Cardinality(S) <= count[FrameOf(q, StackPage)]
        BY <3>3, <3>4, <3>7, <3>9
      <3> QED  BY <3>5, <3>8 DEF S
    <2> QED  BY <2>2, <2>3
  <1>10. StackPrivate'
    <2> SUFFICES ASSUME NEW q \in Slots, NEW r \in Slots, Alive(q)', Alive(r)', q # r,
                        FrameOf(q, StackPage)' = FrameOf(r, StackPage)'
                 PROVE  ~Pte(q, StackPage)'.rw
      BY DEF StackPrivate, StackPage
    <2>1. Given(q, StackPage)' /\ Given(r, StackPage)'
      BY <1>6
    <2>2. q # p /\ r # p
      <3>1. CASE q = p
        <4>1. Given(r, StackPage) /\ FrameOf(r, StackPage)' = FrameOf(r, StackPage)
          BY <1>1, <1>2, <1>3, <2>1, <3>1
        <4> QED  BY <1>1, <2>1, <3>1, <4>1
      <3>2. CASE r = p
        <4>1. Given(q, StackPage) /\ FrameOf(q, StackPage)' = FrameOf(q, StackPage)
          BY <1>1, <1>2, <1>3, <2>1, <3>2
        <4> QED  BY <1>1, <2>1, <3>2, <4>1
      <3> QED  BY <3>1, <3>2
    <2>3. /\ Alive(q) /\ Alive(r) /\ FrameOf(q, StackPage) = FrameOf(r, StackPage)
          /\ Pte(q, StackPage)' = Pte(q, StackPage)
      BY <1>1, <1>3, <2>1, <2>2
    <2> QED  BY <2>3 DEF Stacks, StackPrivate
  <1> QED  BY <1>4, <1>7, <1>8, <1>9, <1>10 DEF Stacks

-----------------------------------------------------------------------------
LEMMA Role ==
  ASSUME NEW p \in Slots
  PROVE  /\ Alive(p) => HasRole(p, "kstack") /\ RoleFrame(p, "kstack") = esp_addr[p]
         /\ \A d \in Present(p) : d \in Kinds /\ d \in Dirs
         /\ \A d \in Present(p) : Alive(p) => HasRole(p, d) /\ RoleFrame(p, d) = entry[p][d]
         /\ page_dir[p] # NULL => HasRole(p, "dir") /\ RoleFrame(p, "dir") = page_dir[p]
         /\ "kstack" \in Kinds /\ "dir" \in Kinds
  BY DEF HasRole, RoleFrame, Present, Kinds, Dirs

(* The frames of a live process. *)
LEMMA LiveFrames ==
  ASSUME IInv, NEW p \in Slots, Alive(p)
  PROVE  /\ esp_addr[p] \in used /\ "stack" \in Present(p) /\ Given(p, StackPage)
         /\ \A d \in Present(p) : entry[p][d] \in used /\ entry[p][d] \in Frames /\ entry[p][d] # esp_addr[p]
         /\ \A d, e \in Present(p) : entry[p][d] = entry[p][e] => d = e
         /\ Tables(p) \subseteq used
  <1>1. StackPage \in Dirs \X Idx /\ StackPage[1] = "stack"
    BY PagingAssumption DEF StackPage, Dirs
  <1>2. Given(p, StackPage)
    BY DEF IInv, Stacks, StackGiven, Given
  <1>3. "stack" \in Present(p)
    BY <1>1, <1>2, GivenTypes DEF IInv, Apart
  <1>4. esp_addr[p] \in used
    BY Role DEF IInv, Apart, RolesUsed
  <1>5. \A d \in Present(p) : entry[p][d] \in used /\ entry[p][d] # esp_addr[p]
    <2> SUFFICES ASSUME NEW d \in Present(p) PROVE entry[p][d] \in used /\ entry[p][d] # esp_addr[p]
      OBVIOUS
    <2>1. d # "kstack"
      BY DEF Present, Dirs
    <2> QED  BY <2>1, Role DEF IInv, Apart, RolesUsed, RolesApart
  <1>6. \A d, e \in Present(p) : entry[p][d] = entry[p][e] => d = e
    BY Role DEF IInv, Apart, RolesApart
  <1> QED  BY <1>2, <1>3, <1>4, <1>5, <1>6 DEF Tables, IInv, TypeOK

(* The tables of a process are no frames of another one. *)
LEMMA TablesApart ==
  ASSUME IInv, NEW p \in Slots, Alive(p)
  PROVE  /\ \A q \in Slots, k \in Kinds :
               HasRole(q, k) /\ (q # p \/ k \notin Present(p)) => RoleFrame(q, k) \notin Tables(p)
         /\ \A q \in Slots, o \in Dirs \X Idx : Given(q, o) =>
               /\ FrameOf(q, o) \notin Tables(p)
               /\ \A k \in Kinds, r \in Slots : HasRole(r, k) => RoleFrame(r, k) # FrameOf(q, o)
         /\ \A q \in Slots, o \in Dirs \X Idx :
               q # p /\ Given(q, o) => entry[q][o[1]] \notin Tables(p)
  <1>1. ASSUME NEW d \in Present(p), NEW q \in Slots, NEW k \in Kinds,
               HasRole(q, k), q # p \/ k \notin Present(p)
        PROVE  RoleFrame(q, k) # entry[p][d]
    <2>1. HasRole(p, d) /\ RoleFrame(p, d) = entry[p][d] /\ d \in Kinds
      BY Role
    <2> QED  BY <1>1, <2>1 DEF IInv, Apart, RolesApart
  <1>2. ASSUME NEW d \in Present(p), NEW q \in Slots, NEW o \in Dirs \X Idx, Given(q, o)
        PROVE  FrameOf(q, o) # entry[p][d]
    <2>1. HasRole(p, d) /\ RoleFrame(p, d) = entry[p][d] /\ d \in Kinds
      BY Role
    <2> QED  BY <1>2, <2>1 DEF IInv, Apart, PagesApart
  <1>3. ASSUME NEW d \in Present(p), NEW q \in Slots, NEW o \in Dirs \X Idx, q # p, Given(q, o)
        PROVE  entry[q][o[1]] # entry[p][d]
    <2>1. o[1] \in Present(q) /\ Alive(q)
      BY <1>3, GivenTypes DEF IInv, Apart, Given
    <2>2. HasRole(q, o[1]) /\ RoleFrame(q, o[1]) = entry[q][o[1]] /\ o[1] \in Kinds
      BY <2>1, Role
    <2> QED  BY <1>1, <1>3, <2>2
  <1>4. \A q \in Slots, o \in Dirs \X Idx, k \in Kinds, r \in Slots :
           Given(q, o) /\ HasRole(r, k) => RoleFrame(r, k) # FrameOf(q, o)
    BY DEF IInv, Apart, PagesApart
  <1> QED  BY <1>1, <1>2, <1>3, <1>4 DEF Tables

-----------------------------------------------------------------------------
(* Where no page and no role changes but that processes go. *)
LEMMA GoneInv ==
  ASSUME IInv, TypeOK', NEW p \in Slots, ~Alive(p)',
         \A q \in Slots : q # p => (Alive(q)' <=> Alive(q)),
         \A q \in Slots \ {p} : owns'[q] = owns[q],
         UNCHANGED <<count, page_dir, entry, esp_addr>>,
         \A f \in Frames : f \in used /\ f \notin used' =>
             Alive(p) /\ f \in Tables(p) \cup {esp_addr[p]},
         \A q \in Slots, o \in Dirs \X Idx :
             q # p /\ Given(q, o) => table'[entry[q][o[1]]] = table[entry[q][o[1]]]
  PROVE  IInv'
  <1>1. \A q \in Slots, o \in Dirs \X Idx : Given(q, o)' => q # p /\ Given(q, o)
    BY DEF Given
  <1>2. \A q \in Slots, o \in Dirs \X Idx : Given(q, o)' =>
            Pte(q, o)' = Pte(q, o) /\ FrameOf(q, o)' = FrameOf(q, o)
    BY <1>1 DEF Pte, FrameOf
  <1>3. \A q \in Slots, k \in Kinds : HasRole(q, k)' =>
            HasRole(q, k) /\ RoleFrame(q, k)' = RoleFrame(q, k) /\ (k # "dir" => q # p)
    BY DEF HasRole, RoleFrame, Present
  <1>4. ASSUME NEW q \in Slots, NEW k \in Kinds, HasRole(q, k)' PROVE RoleFrame(q, k) \in used'
    <2>1. HasRole(q, k) /\ RoleFrame(q, k) \in used /\ used \subseteq Frames
      BY <1>3, <1>4 DEF IInv, Apart, RolesUsed, TypeOK
    <2>2. Alive(p) => RoleFrame(q, k) \notin Tables(p)
      <3>1. q # p \/ k \notin Present(p)
        BY <1>3, <1>4 DEF Present, Dirs
      <3> QED  BY <2>1, <3>1, TablesApart
    <2>3. Alive(p) => RoleFrame(q, k) # esp_addr[p]
      <3>1. q # p \/ k # "kstack"
        BY <1>3, <1>4
      <3> QED  BY <2>1, <3>1, Role DEF IInv, Apart, RolesApart
    <2> QED  BY <2>1, <2>2, <2>3
  <1>5. ASSUME NEW q \in Slots, NEW o \in Dirs \X Idx, Given(q, o)' PROVE FrameOf(q, o) \in used'
    <2>1. Given(q, o) /\ FrameOf(q, o) \in used /\ used \subseteq Frames
      BY <1>1, <1>5 DEF IInv, Apart, PagesApart, TypeOK
    <2>2. Alive(p) => FrameOf(q, o) \notin Tables(p) /\ FrameOf(q, o) # esp_addr[p]
      BY <2>1, TablesApart, Role
    <2> QED  BY <2>1, <2>2
  <1>6. Apart'
    <2>1. \A q \in Slots, k \in Kinds : HasRole(q, k)' =>
              HasRole(q, k) /\ RoleFrame(q, k)' = RoleFrame(q, k) /\ RoleFrame(q, k) \in used'
      BY <1>3, <1>4
    <2>2. ASSUME NEW q \in Slots, NEW o \in Dirs \X Idx, Given(q, o)'
          PROVE  /\ entry'[q][o[1]] # NULL /\ FrameOf(q, o)' \in used'
                 /\ \E r \in Slots, s \in Dirs \X Idx : Given(r, s) /\ FrameOf(r, s) = FrameOf(q, o)'
      <3>1. Given(q, o) /\ FrameOf(q, o)' = FrameOf(q, o)
        BY <1>1, <1>2, <2>2
      <3> QED  BY <1>5, <2>2, <3>1 DEF IInv, Apart, PagesApart
    <2>3. Moves(used', {})
      BY <2>1, <2>2 DEF Moves
    <2> QED  BY <2>3, ApartStep DEF IInv
  <1>7. Stacks'
    <2>1. \A q \in Slots : q # p /\ Alive(q)' => Alive(q) /\ owns'[q] = owns[q]
      OBVIOUS
    <2>2. \A q \in Slots, o \in Dirs \X Idx : q # p /\ Given(q, o)' =>
              Pte(q, o)' = Pte(q, o) /\ count'[FrameOf(q, o)] = count[FrameOf(q, o)]
      BY <1>2
    <2> QED  BY <2>1, <2>2, StacksStep DEF IInv, Apart
  <1> QED  BY <1>6, <1>7 DEF IInv

LEMMA ExitInv == ASSUME IInv, NEW p \in Slots, sys_exit(p) PROVE IInv'
  <1>1. /\ Alive(p) /\ life' = [life EXCEPT ![p] = "zombie"]
        /\ used' = used \ (Tables(p) \cup {esp_addr[p]}) /\ owns' = [owns EXCEPT ![p] = {}]
        /\ UNCHANGED <<count, page_dir, entry, esp_addr, turns>>
    BY DEF sys_exit, Life!Exit, Cleared, Alive
  <1>2. PICK left \in Residue : table' = [table EXCEPT ![esp_addr[p]] = left]
    BY DEF sys_exit
  <1>3. left \in [Idx -> Entries]
    BY PagingAssumption
  <1>4. TypeOK'
    <2>1. table' \in [Frames -> [Idx -> Entries]]
      BY <1>2, <1>3 DEF IInv, TypeOK
    <2>2. owns' \in [Slots -> SUBSET (Dirs \X Idx)]
      BY <1>1 DEF IInv, TypeOK
    <2>3. life' \in [Slots -> {"free", "live", "zombie"}] /\ used' \subseteq Frames
      BY <1>1 DEF IInv, TypeOK
    <2> QED  BY <1>1, <2>1, <2>2, <2>3 DEF IInv, TypeOK
  <1>5. ~Alive(p)' /\ \A q \in Slots : q # p => (Alive(q)' <=> Alive(q)) /\ owns'[q] = owns[q]
    BY <1>1 DEF IInv, TypeOK, Alive
  <1>6. ASSUME NEW q \in Slots, NEW o \in Dirs \X Idx, q # p, Given(q, o)
        PROVE  table'[entry[q][o[1]]] = table[entry[q][o[1]]]
    <2>1. o[1] \in Present(q) /\ Alive(q) /\ entry[q][o[1]] \in Frames
      BY <1>6, GivenTypes DEF IInv, Apart, Given
    <2>2. entry[q][o[1]] # esp_addr[p]
      BY <1>1, <1>6, <2>1, Role DEF IInv, Apart, RolesApart
    <2> QED  BY <1>2, <2>1, <2>2 DEF IInv, TypeOK
  <1> QED  BY <1>1, <1>4, <1>5, <1>6, GoneInv

LEMMA WaitInv == ASSUME IInv, NEW p \in Slots, NEW c \in Slots, sys_waitpid(p, c) PROVE IInv'
  <1>1. /\ life[c] = "zombie" /\ life' = [life EXCEPT ![c] = "free"]
        /\ UNCHANGED <<used, count, table, page_dir, entry, esp_addr, owns, turns>>
    BY DEF sys_waitpid, Life!Reap, memory
  <1>2. TypeOK'
    BY <1>1 DEF IInv, TypeOK
  <1>3. ~Alive(c)' /\ \A q \in Slots : q # c => (Alive(q)' <=> Alive(q))
    BY <1>1 DEF IInv, TypeOK, Alive
  <1> QED  BY <1>1, <1>2, <1>3, GoneInv

-----------------------------------------------------------------------------
(* sys_execve: the frames that are taken are in no use but p's tables'.    *)
LEMMA ExecInv == ASSUME IInv, NEW p \in Slots, NEW prog \in Programs, sys_execve(p, prog) PROVE IInv'
  <1> DEFINE u == Cleared(p)
             k == Cardinality(prog)
             rank(i) == Cardinality({j \in prog : j < i})
             seg(i) == Page(u, 2 + rank(i))
             text == Page(u, 1)
             stab == Page(u, k + 2)
             stack == Page(u, k + 3)
             fresh == Pages(u, k + 3)
  <1>1. /\ Alive(p) /\ turns < Turns /\ turns' = turns + 1 /\ k + 3 <= Cardinality(Unused(u))
        /\ used' = u \cup fresh
        /\ count' = [f \in Frames |-> IF f \notin fresh THEN count[f]
                                      ELSE IF f = stack THEN 1 ELSE 0]
        /\ table' = [table EXCEPT
              ![text] = [i \in Idx |-> IF i \in prog THEN [frame |-> seg(i), rw |-> TRUE] ELSE @[i]],
              ![stab][StackIdx] = [frame |-> stack, rw |-> TRUE]]
        /\ entry' = [entry EXCEPT ![p] = [d \in Dirs |-> IF d = "text" THEN text ELSE stab]]
        /\ owns' = [owns EXCEPT ![p] = {<<"text", i>> : i \in prog} \cup {StackPage}]
        /\ UNCHANGED <<life, parent, page_dir, esp_addr>>
    BY DEF sys_execve, StackCount, Alive
  <1>2. prog \subseteq Idx /\ IsFiniteSet(prog) /\ k \in Nat /\ Idx \subseteq Nat /\ StackIdx \in Idx
    BY PagingAssumption, FS_Subset, FS_CardinalityType
  <1>3. ASSUME NEW i \in prog PROVE rank(i) \in 0 .. k - 1
    <2> DEFINE below == {j \in prog : j < i}
    <2>1. below \in SUBSET prog /\ i \in Nat /\ ~ (i < i) /\ i \notin below
      BY <1>2
    <2>2. IsFiniteSet(below) /\ Cardinality(below) <= k /\ (k = Cardinality(below) => prog = below)
      BY <1>2, <2>1, FS_Subset
    <2>3. Cardinality(below) \in Nat
      BY <2>2, FS_CardinalityType
    <2>4. Cardinality(below) # k
      BY <2>1, <2>2
    <2> HIDE DEF below, k
    <2>5. Cardinality(below) \in 0 .. k - 1
      BY <1>2, <2>2, <2>3, <2>4
    <2> QED  BY <2>5 DEF below
  <1> HIDE DEF k, rank
  <1>4. /\ fresh \subseteq Frames /\ fresh \cap u = {}
        /\ \A i, j \in 1 .. k + 3 : Page(u, i) = Page(u, j) => i = j
        /\ \A i \in 1 .. k + 3 : Page(u, i) \in fresh /\ Page(u, i) \in Frames /\ Page(u, i) # NULL
    <2>1. k + 3 \in Nat /\ k + 3 <= Cardinality(Unused(u))
      BY <1>1, <1>2
    <2> DEFINE n == k + 3
    <2> HIDE DEF u, n
    <2>2. n \in Nat /\ n <= Cardinality(Unused(u))
      BY <2>1 DEF n
    <2>3. /\ Pages(u, n) \subseteq Frames /\ Pages(u, n) \cap u = {}
          /\ \A i, j \in 1 .. n : Page(u, i) = Page(u, j) => i = j
      BY <2>2, PagesFresh
    <2>4. \A i \in 1 .. n : Page(u, i) \in Pages(u, n) /\ Page(u, i) \in Frames /\ Page(u, i) # NULL
      BY <2>2, PageIs
    <2> QED  BY <2>3, <2>4 DEF n
  <1>5. 1 \in 1 .. k + 3 /\ k + 2 \in 1 .. k + 3 /\ k + 3 \in 1 .. k + 3 /\ 1 # k + 2 /\ k + 2 # k + 3 /\ 1 # k + 3
    BY <1>2
  <1>6. ASSUME NEW i \in prog
        PROVE  2 + rank(i) \in 1 .. k + 3 /\ 2 + rank(i) \notin {1, k + 2, k + 3}
    BY <1>2, <1>3
  <1>7. /\ text \in fresh /\ stab \in fresh /\ stack \in fresh
        /\ text # stab /\ stab # stack /\ text # stack
        /\ text \in Frames /\ stab \in Frames /\ stack \in Frames /\ text # NULL /\ stab # NULL
    BY <1>4, <1>5
  <1>8. \A i \in prog : seg(i) \in fresh /\ seg(i) \in Frames /\ seg(i) \notin {text, stab, stack}
    BY <1>4, <1>5, <1>6
  <1> HIDE DEF seg, text, stab, stack, fresh
  <1>9. /\ \A i \in prog : table'[text][i] = [frame |-> seg(i), rw |-> TRUE]
        /\ table'[stab][StackIdx] = [frame |-> stack, rw |-> TRUE]
        /\ \A f \in Frames \ {text, stab} : table'[f] = table[f]
        /\ table' \in [Frames -> [Idx -> Entries]]
    <2> DEFINE new == [i \in Idx |-> IF i \in prog THEN [frame |-> seg(i), rw |-> TRUE]
                                                  ELSE table[text][i]]
    <2>1. table' = [[table EXCEPT ![text] = new] EXCEPT ![stab][StackIdx] = [frame |-> stack, rw |-> TRUE]]
      BY <1>1
    <2>2. table \in [Frames -> [Idx -> Entries]]
      BY DEF IInv, TypeOK
    <2>3. [frame |-> stack, rw |-> TRUE] \in Entries
      BY <1>7 DEF Entries
    <2>4. new \in [Idx -> Entries]
      <3> SUFFICES ASSUME NEW i \in Idx PROVE new[i] \in Entries
        OBVIOUS
      <3>1. table[text][i] \in Entries
        BY <1>7, <2>2
      <3>2. i \in prog => [frame |-> seg(i), rw |-> TRUE] \in Entries
        BY <1>8 DEF Entries
      <3> QED  BY <3>1, <3>2
    <2>5. \A i \in prog : new[i] = [frame |-> seg(i), rw |-> TRUE]
      BY <1>2
    <2> HIDE DEF new
    <2>6. [table EXCEPT ![text] = new] \in [Frames -> [Idx -> Entries]]
      BY <2>2, <2>4
    <2>7. table' \in [Frames -> [Idx -> Entries]]
      BY <1>2, <1>7, <2>1, <2>3, <2>6
    <2>8. table'[text] = new /\ table'[stab][StackIdx] = [frame |-> stack, rw |-> TRUE]
      BY <1>2, <1>7, <2>1, <2>2, <2>6
    <2>9. \A f \in Frames \ {text, stab} : table'[f] = table[f]
      BY <1>7, <2>1, <2>2
    <2> QED  BY <2>5, <2>7, <2>8, <2>9
  <1>10. TypeOK'
    <2>1. used' \subseteq Frames
      BY <1>1, <1>4 DEF IInv, TypeOK, Cleared, fresh
    <2>2. count' \in [Frames -> Nat]
      BY <1>1 DEF IInv, TypeOK
    <2>3. entry' \in [Slots -> [Dirs -> Frames \cup {NULL}]]
      BY <1>1, <1>7 DEF IInv, TypeOK
    <2>4. {<<"text", i>> : i \in prog} \cup {StackPage} \in SUBSET (Dirs \X Idx)
      BY <1>2 DEF StackPage, Dirs
    <2>5. owns' \in [Slots -> SUBSET (Dirs \X Idx)]
      BY <1>1, <2>4 DEF IInv, TypeOK
    <2>6. turns' \in 0 .. Turns
      BY <1>1, PagingAssumption DEF IInv, TypeOK
    <2> QED  BY <1>1, <1>9, <2>1, <2>2, <2>3, <2>5, <2>6 DEF IInv, TypeOK
  <1>11. /\ \A q \in Slots : q # p => entry'[q] = entry[q] /\ owns'[q] = owns[q] /\ (Alive(q)' <=> Alive(q))
         /\ Alive(p)' /\ entry'[p]["text"] = text /\ entry'[p]["stack"] = stab
         /\ owns'[p] = {<<"text", i>> : i \in prog} \cup {StackPage}
    BY <1>1 DEF IInv, TypeOK, Alive, Dirs
  <1>12. ASSUME NEW q \in Slots, NEW k_1 \in Kinds, HasRole(q, k_1)'
         PROVE  \/ HasRole(q, k_1) /\ RoleFrame(q, k_1)' = RoleFrame(q, k_1) /\ RoleFrame(q, k_1) \in u
                \/ q = p /\ k_1 = "text" /\ RoleFrame(q, k_1)' = text
                \/ q = p /\ k_1 = "stack" /\ RoleFrame(q, k_1)' = stab
    <2>1. CASE q # p \/ k_1 \in {"dir", "kstack"}
      <3>1. HasRole(q, k_1) /\ RoleFrame(q, k_1)' = RoleFrame(q, k_1)
        BY <1>1, <1>11, <1>12, <2>1 DEF HasRole, RoleFrame, Present, Dirs
      <3>2. q # p \/ k_1 \notin Present(p)
        BY <2>1 DEF Present, Dirs
      <3>3. RoleFrame(q, k_1) \in used /\ RoleFrame(q, k_1) \notin Tables(p)
        BY <1>1, <3>1, <3>2, TablesApart DEF IInv, Apart, RolesUsed
      <3> QED  BY <3>1, <3>3 DEF Cleared
    <2>2. CASE q = p /\ k_1 \notin {"dir", "kstack"}
      BY <1>11, <2>2 DEF Kinds, Dirs, RoleFrame
    <2> QED  BY <2>1, <2>2
  <1>13. ASSUME NEW q \in Slots, NEW o \in Dirs \X Idx, q # p, Given(q, o)
         PROVE  Given(q, o)' /\ Pte(q, o)' = Pte(q, o) /\ FrameOf(q, o)' = FrameOf(q, o)
                /\ FrameOf(q, o) \in u
    <2>1. entry[q][o[1]] \in Frames /\ o[1] \in Present(q) /\ Alive(q) /\ FrameOf(q, o) \in used
      BY <1>13, GivenTypes DEF IInv, Apart, Given
    <2>2. entry[q][o[1]] \in used
      BY <1>13, <2>1, LiveFrames
    <2>3. entry[q][o[1]] \in u /\ FrameOf(q, o) \in u
      BY <1>1, <1>13, <2>1, <2>2, TablesApart DEF Cleared
    <2>4. table'[entry[q][o[1]]] = table[entry[q][o[1]]]
      BY <1>4, <1>7, <1>9, <2>1, <2>3
    <2> QED  BY <1>11, <1>13, <2>3, <2>4 DEF Given, Pte, FrameOf
  <1>14. ASSUME NEW o \in Dirs \X Idx, Given(p, o)'
         PROVE  /\ Pte(p, o)'.rw /\ FrameOf(p, o)' \in fresh \ {text, stab}
                /\ entry'[p][o[1]] # NULL
                /\ o # StackPage => FrameOf(p, o)' # FrameOf(p, StackPage)'
                /\ FrameOf(p, StackPage)' = stack
    <2>1. Pte(p, StackPage)' = [frame |-> stack, rw |-> TRUE]
      BY <1>9, <1>11 DEF Pte, StackPage
    <2>2. CASE o = StackPage
      BY <1>7, <1>11, <2>1, <2>2 DEF FrameOf, StackPage
    <2>3. CASE o # StackPage
      <3>1. PICK i \in prog : o = <<"text", i>>
        BY <1>11, <1>14, <2>3 DEF Given
      <3>2. Pte(p, o)' = [frame |-> seg(i), rw |-> TRUE]
        BY <1>9, <1>11, <3>1 DEF Pte
      <3> QED  BY <1>7, <1>8, <1>11, <2>1, <3>1, <3>2 DEF FrameOf
    <2> QED  BY <2>2, <2>3
  <1>15. \A q \in Slots, o \in Dirs \X Idx : q # p /\ Given(q, o)' => Given(q, o)
    BY <1>11 DEF Given
  <1>16. Moves(u, fresh)
    <2>1. u \cap fresh = {} /\ u \cup fresh \subseteq used'
      BY <1>1, <1>4
    <2>2. ASSUME NEW q \in Slots, NEW r \in Slots, NEW l \in Kinds, NEW m \in Kinds,
                 HasRole(q, l)', HasRole(r, m)', RoleFrame(q, l)' \in fresh,
                 RoleFrame(q, l)' = RoleFrame(r, m)'
          PROVE  q = r /\ l = m
      <3>1. RoleFrame(q, l)' \notin u /\ RoleFrame(r, m)' \notin u
        BY <1>4, <2>2
      <3> QED  BY <1>7, <1>12, <2>2, <3>1
    <2>3. ASSUME NEW q \in Slots, NEW o \in Dirs \X Idx, Given(q, o)'
          PROVE  /\ entry'[q][o[1]] # NULL
                 /\ \/ /\ FrameOf(q, o)' \in u
                       /\ \E r \in Slots, s \in Dirs \X Idx : Given(r, s) /\ FrameOf(r, s) = FrameOf(q, o)'
                    \/ /\ FrameOf(q, o)' \in fresh
                       /\ \A r \in Slots, l \in Kinds : HasRole(r, l)' => RoleFrame(r, l)' # FrameOf(q, o)'
      <3>1. CASE q # p
        <4>1. Given(q, o)
          BY <1>15, <2>3, <3>1
        <4>2. entry'[q][o[1]] # NULL
          BY <1>11, <3>1, <4>1 DEF IInv, Apart, PagesApart
        <4> QED  BY <1>13, <3>1, <4>1, <4>2
      <3>2. CASE q = p
        <4>1. FrameOf(q, o)' \in fresh \ {text, stab} /\ entry'[q][o[1]] # NULL
          BY <1>14, <2>3, <3>2
        <4>2. ASSUME NEW r \in Slots, NEW l \in Kinds, HasRole(r, l)'
              PROVE  RoleFrame(r, l)' # FrameOf(q, o)'
          <5>1. RoleFrame(r, l)' \in u \cup {text, stab}
            BY <1>12, <4>2
          <5> QED  BY <1>4, <4>1, <5>1
        <4> QED  BY <4>1, <4>2
      <3> QED  BY <3>1, <3>2
    <2>4. \A q \in Slots, l \in Kinds : HasRole(q, l)' =>
              \/ HasRole(q, l) /\ RoleFrame(q, l)' = RoleFrame(q, l) /\ RoleFrame(q, l) \in u
              \/ RoleFrame(q, l)' \in fresh
      BY <1>7, <1>12
    <2> HIDE DEF u
    <2> QED  BY <2>1, <2>2, <2>3, <2>4 DEF Moves
  <1>17. Apart'
    BY <1>16, ApartStep DEF IInv
  <1>18. Stacks'
    <2>1. \A q \in Slots : q # p /\ Alive(q)' => Alive(q) /\ owns'[q] = owns[q]
      BY <1>11
    <2>2. \A q \in Slots, o \in Dirs \X Idx : q # p /\ Given(q, o)' =>
              Pte(q, o)' = Pte(q, o) /\ count'[FrameOf(q, o)] = count[FrameOf(q, o)]
      <3> SUFFICES ASSUME NEW q \in Slots, NEW o \in Dirs \X Idx, q # p, Given(q, o)'
                   PROVE  Pte(q, o)' = Pte(q, o) /\ count'[FrameOf(q, o)] = count[FrameOf(q, o)]
        OBVIOUS
      <3>1. Given(q, o)
        BY <1>15
      <3>2. FrameOf(q, o) \in Frames /\ FrameOf(q, o) \notin fresh
        BY <1>4, <1>13, <3>1, GivenTypes DEF IInv, Apart
      <3> QED  BY <1>1, <1>13, <3>1, <3>2
    <2>3. StackPage \in owns'[p] /\ StackPage \in Dirs \X Idx /\ Given(p, StackPage)'
      BY <1>2, <1>11 DEF Given, StackPage, Dirs
    <2>4. count'[FrameOf(p, StackPage)'] = 1
      <3>1. FrameOf(p, StackPage)' = stack
        BY <1>14, <2>3
      <3> QED  BY <1>1, <1>7, <3>1
    <2>5. \A o \in Dirs \X Idx : Given(p, o)' => Pte(p, o)'.rw
      BY <1>14
    <2>6. \A o, r \in Dirs \X Idx, q \in Slots :
             Given(p, o)' /\ q # p /\ Given(q, r) => FrameOf(p, o)' # FrameOf(q, r)
      BY <1>4, <1>13, <1>14
    <2>7. \A o \in Dirs \X Idx : Given(p, o)' /\ o # StackPage => FrameOf(p, o)' # FrameOf(p, StackPage)'
      BY <1>14
    <2> QED  BY <2>1, <2>2, <2>3, <2>4, <2>5, <2>6, <2>7, StacksStep DEF IInv, Apart
  <1> QED  BY <1>10, <1>17, <1>18 DEF IInv

-----------------------------------------------------------------------------
(* do_wp_page: one entry is written; no other page has its place. *)
LEMMA Rewritten ==
  ASSUME IInv, NEW p \in Slots, NEW pg \in Dirs \X Idx, Given(p, pg), NEW g \in Frames,
         table' = [table EXCEPT ![entry[p][pg[1]]][pg[2]] = [frame |-> g, rw |-> TRUE]],
         UNCHANGED <<life, page_dir, entry, esp_addr, owns>>
  PROVE  /\ table' \in [Frames -> [Idx -> Entries]]
         /\ Pte(p, pg)' = [frame |-> g, rw |-> TRUE] /\ FrameOf(p, pg)' = g
         /\ \A q \in Slots, o \in Dirs \X Idx : Given(q, o) /\ (q # p \/ o # pg) =>
               Pte(q, o)' = Pte(q, o) /\ FrameOf(q, o)' = FrameOf(q, o)
         /\ \A q \in Slots, o \in Dirs \X Idx : Given(q, o)' <=> Given(q, o)
         /\ \A q \in Slots : Alive(q)' <=> Alive(q)
         /\ \A q \in Slots, k \in Kinds :
               (HasRole(q, k)' <=> HasRole(q, k)) /\ RoleFrame(q, k)' = RoleFrame(q, k)
  <1> DEFINE e == entry[p][pg[1]]
             new == [frame |-> g, rw |-> TRUE]
  <1>1. e \in Frames /\ pg[1] \in Dirs /\ pg[2] \in Idx /\ pg = <<pg[1], pg[2]>>
        /\ pg[1] \in Present(p) /\ Alive(p)
    BY GivenTypes DEF IInv, Apart, Given
  <1>2. new \in Entries /\ table \in [Frames -> [Idx -> Entries]]
    BY DEF Entries, IInv, TypeOK
  <1>3. table' = [table EXCEPT ![e][pg[2]] = new]
    OBVIOUS
  <1> HIDE DEF new
  <1>4. /\ table' \in [Frames -> [Idx -> Entries]] /\ table'[e][pg[2]] = new
        /\ \A f \in Frames, i \in Idx : f # e \/ i # pg[2] => table'[f][i] = table[f][i]
    <2> HIDE DEF e
    <2>1. DOMAIN table = Frames /\ table[e] \in [Idx -> Entries]
      BY <1>1, <1>2
    <2>2. table' = [table EXCEPT ![e] = [table[e] EXCEPT ![pg[2]] = new]]
      BY <1>3, <2>1
    <2>3. [table[e] EXCEPT ![pg[2]] = new] \in [Idx -> Entries]
      BY <1>1, <1>2, <2>1
    <2>4. table' \in [Frames -> [Idx -> Entries]]
      BY <1>1, <1>2, <2>2, <2>3
    <2>5. table'[e] = [table[e] EXCEPT ![pg[2]] = new] /\ \A f \in Frames : f # e => table'[f] = table[f]
      BY <1>1, <1>2, <2>2
    <2>6. table'[e][pg[2]] = new /\ \A i \in Idx : i # pg[2] => table'[e][i] = table[e][i]
      BY <1>1, <2>1, <2>5
    <2> QED  BY <2>4, <2>5, <2>6
  <1>5. Pte(p, pg)' = new /\ FrameOf(p, pg)' = g
    BY <1>4 DEF Pte, FrameOf, new
  <1>6. ASSUME NEW q \in Slots, NEW o \in Dirs \X Idx, Given(q, o), q # p \/ o # pg
        PROVE  Pte(q, o)' = Pte(q, o) /\ FrameOf(q, o)' = FrameOf(q, o)
    <2>1. entry[q][o[1]] \in Frames /\ o[1] \in Present(q) /\ o[2] \in Idx /\ o = <<o[1], o[2]>> /\ Alive(q)
      BY <1>6, GivenTypes DEF IInv, Apart, Given
    <2>2. entry[q][o[1]] # e \/ o[2] # pg[2]
      <3> SUFFICES ASSUME entry[q][o[1]] = e PROVE o[2] # pg[2]
        OBVIOUS
      <3>1. q = p /\ o[1] = pg[1]
        BY <1>1, <2>1, Role DEF IInv, Apart, RolesApart
      <3> QED  BY <1>1, <1>6, <2>1, <3>1
    <2> QED  BY <1>4, <2>1, <2>2 DEF Pte, FrameOf
  <1>7. /\ \A q \in Slots, o \in Dirs \X Idx : Given(q, o)' <=> Given(q, o)
        /\ \A q \in Slots : Alive(q)' <=> Alive(q)
    BY DEF Given, Alive
  <1>8. \A q \in Slots, k \in Kinds :
           (HasRole(q, k)' <=> HasRole(q, k)) /\ RoleFrame(q, k)' = RoleFrame(q, k)
    BY <1>7 DEF HasRole, RoleFrame, Present
  <1> QED  BY <1>4, <1>5, <1>6, <1>7, <1>8 DEF new

LEMMA WriterInv ==
  ASSUME IInv, NEW p \in Slots, NEW pg \in Dirs \X Idx, do_wp_page(p, pg), LastSharer(FrameOf(p, pg))
  PROVE  IInv'
  <1> DEFINE old == FrameOf(p, pg)
  <1>1. /\ Given(p, pg) /\ ~Pte(p, pg).rw /\ count[old] = 1
        /\ table' = [table EXCEPT ![entry[p][pg[1]]][pg[2]] = [frame |-> old, rw |-> TRUE]]
        /\ UNCHANGED <<used, count, life, parent, page_dir, entry, esp_addr, owns, turns>>
    BY DEF do_wp_page, LastSharer, FrameOf, Given, Alive
  <1>2. old \in Frames /\ StackPage \in Dirs \X Idx
    BY <1>1, GivenTypes, PagingAssumption DEF IInv, Apart, StackPage, Dirs
  <1> HIDE DEF old
  <1>3. /\ table' \in [Frames -> [Idx -> Entries]]
        /\ Pte(p, pg)' = [frame |-> old, rw |-> TRUE] /\ FrameOf(p, pg)' = old
        /\ \A q \in Slots, o \in Dirs \X Idx : Given(q, o) /\ (q # p \/ o # pg) =>
              Pte(q, o)' = Pte(q, o) /\ FrameOf(q, o)' = FrameOf(q, o)
        /\ \A q \in Slots, o \in Dirs \X Idx : Given(q, o)' <=> Given(q, o)
        /\ \A q \in Slots : Alive(q)' <=> Alive(q)
        /\ \A q \in Slots, k \in Kinds :
              (HasRole(q, k)' <=> HasRole(q, k)) /\ RoleFrame(q, k)' = RoleFrame(q, k)
    BY <1>1, <1>2, Rewritten
  <1>4. TypeOK'
    BY <1>1, <1>3 DEF IInv, TypeOK
  <1>5. \A q \in Slots, o \in Dirs \X Idx : Given(q, o) => FrameOf(q, o)' = FrameOf(q, o)
    BY <1>3 DEF old
  <1>6. \A q \in Slots : Alive(q) => Given(q, StackPage) /\ FrameOf(q, StackPage)' = FrameOf(q, StackPage)
    BY <1>2, <1>5 DEF IInv, Stacks, StackGiven, Given
  <1>7. Moves(used, {})
    BY <1>1, <1>3, <1>5 DEF Moves, IInv, Apart, RolesUsed, PagesApart
  <1>8. Apart'
    BY <1>7, ApartStep DEF IInv
  <1>9. StackGiven' /\ StackApart' /\ ReadOnlyCounted'
    <2>1. StackGiven'
      BY <1>1, <1>3 DEF IInv, Stacks, StackGiven
    <2>2. StackApart'
      BY <1>3, <1>5, <1>6 DEF IInv, Stacks, StackApart
    <2>3. ReadOnlyCounted'
      BY <1>1, <1>3, <1>5 DEF IInv, Stacks, ReadOnlyCounted
    <2> QED  BY <2>1, <2>2, <2>3
  <1>10. StackCounted'
    <2> SUFFICES ASSUME NEW q \in Slots, Alive(q)'
                 PROVE  Cardinality(Sharers(FrameOf(q, StackPage))') <= count'[FrameOf(q, StackPage)']
      BY DEF StackCounted, Sharers
    <2>1. Sharers(FrameOf(q, StackPage))' = Sharers(FrameOf(q, StackPage))
      BY <1>3, <1>6 DEF Sharers
    <2>2. Cardinality(Sharers(FrameOf(q, StackPage))) <= count[FrameOf(q, StackPage)]
      BY <1>3 DEF IInv, Stacks, StackCounted, Sharers
    <2> QED  BY <1>1, <1>3, <1>6, <2>1, <2>2
  <1>11. StackPrivate'
    <2> SUFFICES ASSUME NEW q \in Slots, NEW r \in Slots, Alive(q)', Alive(r)', q # r,
                        FrameOf(q, StackPage)' = FrameOf(r, StackPage)'
                 PROVE  ~Pte(q, StackPage)'.rw
      BY DEF StackPrivate, StackPage
    <2>1. /\ Alive(q) /\ Alive(r) /\ FrameOf(q, StackPage) = FrameOf(r, StackPage)
          /\ Given(q, StackPage)
      BY <1>3, <1>6
    <2>2. ~ (q = p /\ pg = StackPage)
      <3> SUFFICES ASSUME q = p, pg = StackPage PROVE FALSE
        OBVIOUS
      <3>1. q \in Sharers(old) /\ r \in Sharers(old)
        BY <2>1 DEF Sharers, old
      <3>2. Cardinality(Sharers(old)) <= 1
        BY <1>1, <2>1 DEF IInv, Stacks, StackCounted, Sharers, old
      <3>3. {q, r} \in SUBSET Sharers(old) /\ IsFiniteSet(Sharers(old)) /\ Cardinality(Sharers(old)) \in Nat
        BY <3>1, SharersFinite
      <3>4. IsFiniteSet({q}) /\ Cardinality({q}) = 1 /\ r \notin {q} /\ {q} \cup {r} = {q, r}
        BY FS_Singleton
      <3>5. Cardinality({q, r}) = 2
        BY <3>4, FS_AddElement
      <3>6. Cardinality({q, r}) <= Cardinality(Sharers(old))
        BY <3>3, FS_Subset
      <3> QED  BY <3>2, <3>3, <3>5, <3>6
    <2>3. Pte(q, StackPage)' = Pte(q, StackPage)
      BY <1>2, <1>3, <2>1, <2>2
    <2> QED  BY <2>1, <2>3 DEF IInv, Stacks, StackPrivate
  <1> QED  BY <1>4, <1>8, <1>9, <1>10, <1>11 DEF IInv, Stacks

LEMMA CopierInv ==
  ASSUME IInv, NEW p \in Slots, NEW pg \in Dirs \X Idx, do_wp_page(p, pg), ~LastSharer(FrameOf(p, pg))
  PROVE  IInv'
  <1> DEFINE old == FrameOf(p, pg)
             new == Page(used, 1)
  <1>1. /\ Given(p, pg) /\ ~Pte(p, pg).rw /\ count[old] # 1
        /\ table' = [table EXCEPT ![entry[p][pg[1]]][pg[2]] = [frame |-> new, rw |-> TRUE]]
        /\ Unused(used) # {} /\ used' = used \cup {new}
        /\ count' = [count EXCEPT ![new] = 1, ![old] = @ - 1]
        /\ UNCHANGED <<life, parent, page_dir, entry, esp_addr, owns, turns>>
    BY DEF do_wp_page, LastSharer, FrameOf, Given, Alive
  <1>2. /\ old \in Frames /\ old \in used /\ count[old] \in Nat
        /\ StackPage \in Dirs \X Idx /\ Alive(p)
    BY <1>1, GivenTypes, PagingAssumption DEF IInv, Apart, StackPage, Dirs, Given
  <1>3. new \in Frames /\ new \notin used
    <2>1. IsFiniteSet(Unused(used))
      BY Memory, FS_Subset DEF Unused
    <2>2. Cardinality(Unused(used)) \in Nat /\ Cardinality(Unused(used)) # 0
      BY <1>1, <2>1, FS_CardinalityType, FS_EmptySet
    <2>3. 1 <= Cardinality(Unused(used)) /\ 1 \in 1 .. 1
      BY <2>2
    <2> QED  BY <2>3, PageIs
  <1>4. count[old] - 1 \in Nat /\ count[old] - 1 > 0
    <2>1. count[old] > 0
      BY <1>1 DEF IInv, Stacks, ReadOnlyCounted
    <2> QED  BY <1>1, <1>2, <2>1
  <1> HIDE DEF old, new
  <1>5. /\ table' \in [Frames -> [Idx -> Entries]]
        /\ Pte(p, pg)' = [frame |-> new, rw |-> TRUE] /\ FrameOf(p, pg)' = new
        /\ \A q \in Slots, o \in Dirs \X Idx : Given(q, o) /\ (q # p \/ o # pg) =>
              Pte(q, o)' = Pte(q, o) /\ FrameOf(q, o)' = FrameOf(q, o)
        /\ \A q \in Slots, o \in Dirs \X Idx : Given(q, o)' <=> Given(q, o)
        /\ \A q \in Slots : Alive(q)' <=> Alive(q)
        /\ \A q \in Slots, k \in Kinds :
              (HasRole(q, k)' <=> HasRole(q, k)) /\ RoleFrame(q, k)' = RoleFrame(q, k)
    BY <1>1, <1>3, Rewritten
  <1>6. /\ count' \in [Frames -> Nat] /\ count'[new] = 1 /\ count'[old] = count[old] - 1
        /\ \A f \in Frames : f # new /\ f # old => count'[f] = count[f]
    <2>1. count \in [Frames -> Nat] /\ new # old
      BY <1>2, <1>3 DEF IInv, TypeOK
    <2> QED  BY <1>1, <1>2, <1>3, <1>4, <2>1
  <1>7. TypeOK'
    <2>1. used' \subseteq Frames
      BY <1>1, <1>3 DEF IInv, TypeOK
    <2> QED  BY <1>1, <1>5, <1>6, <2>1 DEF IInv, TypeOK
  <1>8. \A q \in Slots, o \in Dirs \X Idx : Given(q, o) =>
            FrameOf(q, o) \in used /\ FrameOf(q, o) \in Frames /\ FrameOf(q, o) # new
    BY <1>3, GivenTypes DEF IInv, Apart
  <1>9. \A q \in Slots : Alive(q) => Given(q, StackPage)
    BY <1>2 DEF IInv, Stacks, StackGiven, Given
  <1>10. Moves(used, {new})
    <2>1. \A q \in Slots, k \in Kinds : HasRole(q, k)' =>
             HasRole(q, k) /\ RoleFrame(q, k)' = RoleFrame(q, k) /\ RoleFrame(q, k) \in used
      BY <1>5 DEF IInv, Apart, RolesUsed
    <2>2. ASSUME NEW q \in Slots, NEW o \in Dirs \X Idx, Given(q, o)'
          PROVE  /\ entry'[q][o[1]] # NULL
                 /\ \/ /\ FrameOf(q, o)' \in used
                       /\ \E r \in Slots, s \in Dirs \X Idx : Given(r, s) /\ FrameOf(r, s) = FrameOf(q, o)'
                    \/ /\ FrameOf(q, o)' \in {new}
                       /\ \A r \in Slots, k \in Kinds : HasRole(r, k)' => RoleFrame(r, k)' # FrameOf(q, o)'
      <3>1. Given(q, o) /\ entry'[q][o[1]] # NULL
        BY <1>1, <1>5, <2>2 DEF IInv, Apart, PagesApart
      <3>2. CASE q = p /\ o = pg
        BY <1>3, <1>5, <2>1, <3>1, <3>2
      <3>3. CASE q # p \/ o # pg
        BY <1>5, <1>8, <3>1, <3>3
      <3> QED  BY <3>2, <3>3
    <2>3. used \cap {new} = {} /\ used \cup {new} \subseteq used'
      BY <1>1, <1>3
    <2> QED  BY <1>3, <2>1, <2>2, <2>3 DEF Moves
  <1>11. Apart'
    BY <1>10, ApartStep DEF IInv
  <1>12. StackGiven'
    BY <1>1, <1>5 DEF IInv, Stacks, StackGiven
  <1>13. ASSUME NEW q \in Slots, Alive(q), q # p \/ pg # StackPage
         PROVE  FrameOf(q, StackPage)' = FrameOf(q, StackPage) /\ Pte(q, StackPage)' = Pte(q, StackPage)
                /\ FrameOf(q, StackPage) # new
    BY <1>2, <1>5, <1>8, <1>9, <1>13
  <1>14. StackApart'
    <2> SUFFICES ASSUME NEW q \in Slots, NEW r \in Slots, NEW o \in Dirs \X Idx,
                        Given(q, o)', o # StackPage, Alive(r)'
                 PROVE  FrameOf(q, o)' # FrameOf(r, StackPage)'
      BY DEF StackApart, StackPage
    <2>1. Given(q, o) /\ Alive(r) /\ FrameOf(q, o) # FrameOf(r, StackPage)
      BY <1>5 DEF IInv, Stacks, StackApart
    <2>2. CASE q = p /\ o = pg
      BY <1>5, <1>13, <2>1, <2>2
    <2>3. CASE q # p \/ o # pg
      <3>1. FrameOf(q, o)' = FrameOf(q, o) /\ FrameOf(q, o) # new
        BY <1>5, <1>8, <2>1, <2>3
      <3> QED  BY <1>5, <1>13, <2>1, <3>1
    <2> QED  BY <2>2, <2>3
  <1>15. ReadOnlyCounted'
    <2> SUFFICES ASSUME NEW q \in Slots, NEW o \in Dirs \X Idx, Given(q, o)', ~Pte(q, o)'.rw
                 PROVE  count'[FrameOf(q, o)'] > 0
      BY DEF ReadOnlyCounted
    <2>1. q # p \/ o # pg
      BY <1>5
    <2>2. /\ Given(q, o) /\ FrameOf(q, o)' = FrameOf(q, o) /\ ~Pte(q, o).rw
          /\ FrameOf(q, o) \in Frames /\ FrameOf(q, o) # new
      BY <1>5, <1>8, <2>1
    <2>3. count[FrameOf(q, o)] > 0
      BY <2>2 DEF IInv, Stacks, ReadOnlyCounted
    <2> QED  BY <1>4, <1>6, <2>2, <2>3
  <1>16. StackCounted'
    <2> SUFFICES ASSUME NEW q \in Slots, Alive(q)'
                 PROVE  Cardinality(Sharers(FrameOf(q, StackPage))') <= count'[FrameOf(q, StackPage)']
      BY DEF StackCounted, Sharers
    <2>1. Alive(q) /\ Given(q, StackPage)
      BY <1>5, <1>9
    <2>2. CASE q = p /\ pg = StackPage
      <3>1. Sharers(FrameOf(q, StackPage))' \subseteq {p}
        <4> SUFFICES ASSUME NEW r \in Slots, Alive(r)', FrameOf(r, StackPage)' = new, r # p PROVE FALSE
          BY <1>5, <2>2 DEF Sharers
        <4> QED  BY <1>5, <1>13
      <3>2. Cardinality(Sharers(FrameOf(q, StackPage))') <= 1
        <4>1. IsFiniteSet({p}) /\ Cardinality({p}) = 1 /\ Sharers(FrameOf(q, StackPage))' \in SUBSET {p}
          BY <3>1, FS_Singleton
        <4>2. Cardinality(Sharers(FrameOf(q, StackPage))') <= Cardinality({p})
          BY <4>1, FS_Subset
        <4> QED  BY <4>1, <4>2
      <3>3. count'[FrameOf(q, StackPage)'] = 1
        BY <1>5, <1>6, <2>2
      <3> QED  BY <3>2, <3>3
    <2>3. CASE q # p \/ pg # StackPage
      <3> DEFINE f == FrameOf(q, StackPage)
                 S == Sharers(f)
      <3>1. f \in Frames /\ FrameOf(q, StackPage)' = f /\ f # new /\ count[f] \in Nat
        BY <1>2, <1>8, <1>13, <2>1, <2>3 DEF IInv, TypeOK
      <3>2. Cardinality(S) <= count[f] /\ IsFiniteSet(S) /\ Cardinality(S) \in Nat
        BY <2>1, SharersFinite DEF IInv, Stacks, StackCounted, Sharers
      <3>3. Sharers(FrameOf(q, StackPage))' = {r \in Slots : Alive(r)' /\ FrameOf(r, StackPage)' = f}
        BY <3>1 DEF Sharers
      <3> HIDE DEF f, S
      <3>4. CASE f # old
        <4>1. Sharers(FrameOf(q, StackPage))' = S
          <5>1. ASSUME NEW r \in Slots PROVE Alive(r)' /\ FrameOf(r, StackPage)' = f
                                               <=> Alive(r) /\ FrameOf(r, StackPage) = f
            <6>1. CASE r = p /\ pg = StackPage
              BY <1>5, <3>1, <3>4, <6>1 DEF old
            <6>2. CASE r # p \/ pg # StackPage
              BY <1>5, <1>13, <6>2
            <6> QED  BY <6>1, <6>2
          <5> QED  BY <3>3, <5>1 DEF S, Sharers
        <4>2. count'[f] = count[f]
          BY <1>6, <3>1, <3>4
        <4> QED  BY <3>1, <3>2, <4>1, <4>2
      <3>5. CASE f = old
        <4>1. pg = StackPage /\ q # p
          <5>1. pg # StackPage => FrameOf(p, pg) # FrameOf(q, StackPage)
            BY <1>1, <2>1 DEF IInv, Stacks, StackApart
          <5> QED  BY <2>3, <3>5, <5>1 DEF old, f
        <4>2. p \in S
          BY <1>2, <3>5, <4>1 DEF S, Sharers, old
        <4>3. Sharers(FrameOf(q, StackPage))' = S \ {p}
          <5>1. ASSUME NEW r \in Slots PROVE Alive(r)' /\ FrameOf(r, StackPage)' = f
                                               <=> Alive(r) /\ FrameOf(r, StackPage) = f /\ r # p
            <6>1. CASE r = p
              BY <1>5, <3>1, <4>1, <6>1
            <6>2. CASE r # p
              BY <1>5, <1>13, <6>2
            <6> QED  BY <6>1, <6>2
          <5> QED  BY <3>3, <5>1 DEF S, Sharers
        <4>4. Cardinality(S \ {p}) = Cardinality(S) - 1
          BY <3>2, <4>2, FS_RemoveElement
        <4>5. count'[f] = count[f] - 1
          BY <1>6, <3>5
        <4> QED  BY <3>1, <3>2, <4>3, <4>4, <4>5
      <3> QED  BY <3>4, <3>5
    <2> QED  BY <2>2, <2>3
  <1>17. StackPrivate'
    <2> SUFFICES ASSUME NEW q \in Slots, NEW r \in Slots, Alive(q)', Alive(r)', q # r,
                        FrameOf(q, StackPage)' = FrameOf(r, StackPage)'
                 PROVE  ~Pte(q, StackPage)'.rw
      BY DEF StackPrivate, StackPage
    <2>1. Alive(q) /\ Alive(r)
      BY <1>5
    <2>2. (q # p /\ r # p) \/ pg # StackPage
      BY <1>5, <1>13, <2>1
    <2>3. FrameOf(q, StackPage) = FrameOf(r, StackPage) /\ Pte(q, StackPage)' = Pte(q, StackPage)
      BY <1>13, <2>1, <2>2
    <2> QED  BY <2>1, <2>3 DEF IInv, Stacks, StackPrivate
  <1> QED  BY <1>7, <1>11, <1>12, <1>14, <1>15, <1>16, <1>17 DEF IInv, Stacks

-----------------------------------------------------------------------------
(* sys_fork: what a page table has of a frame, and what the child gets. *)
LEMMA CountedIs ==
  ASSUME NEW p, NEW ds \in SUBSET Dirs, NEW f
  PROVE  /\ Counted(p, ds, f) \in Nat
         /\ \A o \in ds \X Idx : Pte(p, o).frame = f => Counted(p, ds, f) >= 1
  <1> DEFINE S == {pg \in ds \X Idx : Pte(p, pg).frame = f}
  <1>1. IsFiniteSet(ds)
    <2>1. IsFiniteSet({"text"}) /\ IsFiniteSet({"text"} \cup {"stack"})
      BY FS_Singleton, FS_AddElement
    <2>2. {"text"} \cup {"stack"} = Dirs
      BY DEF Dirs
    <2> QED  BY <2>1, <2>2, FS_Subset
  <1>2. IsFiniteSet(ds \X Idx)
    BY <1>1, PagingAssumption, FS_Product
  <1>3. IsFiniteSet(S) /\ Cardinality(S) \in Nat
    BY <1>2, FS_Subset, FS_CardinalityType
  <1>4. S # {} => Cardinality(S) >= 1
    BY <1>3, FS_EmptySet
  <1>5. Counted(p, ds, f) = Cardinality(S)
    BY DEF Counted
  <1> QED  BY <1>3, <1>4, <1>5

LEMMA PresentIs ==
  ASSUME NEW p, "stack" \in Present(p)
  PROVE  /\ Present(p) \in SUBSET Dirs /\ Cardinality(Present(p)) \in 1 .. 2
         /\ "text" \in Present(p) => Cardinality(Present(p)) = 2
  <1>1. Present(p) \in SUBSET Dirs
    BY DEF Present
  <1>2. IsFiniteSet({"stack"}) /\ Cardinality({"stack"}) = 1 /\ "text" \notin {"stack"}
    BY FS_Singleton
  <1>3. Cardinality({"stack"} \cup {"text"}) = 2
    BY <1>2, FS_AddElement
  <1>4. Present(p) = {"stack"} \/ (Present(p) = {"stack"} \cup {"text"})
    BY <1>1 DEF Dirs
  <1> QED  BY <1>1, <1>2, <1>3, <1>4

LEMMA ReadOnlyIs ==
  ASSUME NEW pt \in [Idx -> Entries]
  PROVE  /\ ReadOnly(pt) \in [Idx -> Entries]
         /\ \A i \in Idx : ReadOnly(pt)[i].frame = pt[i].frame /\ ~ReadOnly(pt)[i].rw
  <1>1. \A i \in Idx : pt[i].frame \in Frames \cup {NULL}
    BY DEF Entries
  <1> QED  BY <1>1 DEF ReadOnly, Entries

(* The frames that the child gets, and what becomes of tables and counts.  *)
ForkTakes(p, c, fresh, new, kstack) ==
    /\ fresh \cap used = {} /\ used' = used \cup fresh
    /\ kstack \in fresh /\ \A d \in Present(p) : new[d] \in fresh /\ new[d] # kstack
    /\ \A d, e \in Present(p) : new[d] = new[e] => d = e
    /\ page_dir' = [page_dir EXCEPT ![c] = page_dir'[c]]
    /\ \/ page_dir[c] # NULL /\ page_dir'[c] = page_dir[c]
       \/ /\ page_dir[c] = NULL /\ page_dir'[c] \in fresh /\ page_dir'[c] # kstack
          /\ \A d \in Present(p) : page_dir'[c] # new[d]
    /\ entry' = [entry EXCEPT ![c] = [d \in Dirs |-> IF d \in Present(p) THEN new[d] ELSE NULL]]
    /\ esp_addr' = [esp_addr EXCEPT ![c] = kstack]
    /\ table' = Copied(p, new)
    /\ count' \in [Frames -> Nat]
    /\ \A f \in Frames \ fresh : count'[f] = count[f] + Counted(p, Present(p), f)

LEMMA ForkFrames ==
  ASSUME IInv, NEW p \in Slots, NEW c \in Slots, sys_fork(p, c)
  PROVE  \E fresh \in SUBSET Frames, new \in [Present(p) -> Frames], kstack \in Frames :
            ForkTakes(p, c, fresh, new, kstack)
  <1> DEFINE n0 == IF page_dir[c] = NULL THEN 1 ELSE 0
             n == n0 + Cardinality(Present(p)) + 1
             new == [d \in Present(p) |-> Page(used, IF d = "text" THEN n0 + 1 ELSE n - 1)]
             kstack == Page(used, n)
             fresh == Pages(used, n)
  <1>1. /\ life[p] = "live"
        /\ n <= Cardinality(Unused(used)) /\ used' = used \cup fresh
        /\ count' = [f \in Frames |->
              CASE f = kstack       -> 0
                [] f = new["stack"] -> Counted(p, {"stack"}, f)
                [] f \in fresh \ {kstack, new["stack"]} -> Counted(p, Present(p), f)
                [] f \notin fresh   -> count[f] + Counted(p, Present(p), f)]
        /\ table' = Copied(p, new)
        /\ page_dir' = [page_dir EXCEPT ![c] = IF @ = NULL THEN Page(used, 1) ELSE @]
        /\ entry' = [entry EXCEPT ![c] = [d \in Dirs |-> IF d \in Present(p) THEN new[d] ELSE NULL]]
        /\ esp_addr' = [esp_addr EXCEPT ![c] = kstack]
    <2>1. Cardinality(Unused(used)) \in Nat
      BY Memory, FS_Subset, FS_CardinalityType DEF Unused
    <2>2. Cardinality(Present(p)) \in Nat
      BY PresentIs, LiveFrames DEF sys_fork, Life!Fork, Alive
    <2> QED  BY <2>1, <2>2 DEF sys_fork, Life!Fork
  <1>2. /\ "stack" \in Present(p) /\ Present(p) \in SUBSET Dirs /\ Cardinality(Present(p)) \in 1 .. 2
        /\ "text" \in Present(p) => Cardinality(Present(p)) = 2
    BY <1>1, LiveFrames, PresentIs DEF Alive
  <1>3. /\ n \in Nat /\ n \in 1 .. n /\ n - 1 \in 1 .. n /\ n - 1 # n
        /\ "text" \in Present(p) => n0 + 1 \in 1 .. n /\ n0 + 1 # n /\ n0 + 1 # n - 1
        /\ page_dir[c] = NULL => 1 \in 1 .. n /\ 1 # n /\ 1 # n - 1 /\ n0 + 1 # 1
    BY <1>2
  <1>4. /\ fresh \subseteq Frames /\ fresh \cap used = {}
        /\ \A i, j \in 1 .. n : Page(used, i) = Page(used, j) => i = j
        /\ \A i \in 1 .. n : Page(used, i) \in fresh /\ Page(used, i) \in Frames
    <2> HIDE DEF n
    <2>1. n \in Nat /\ n <= Cardinality(Unused(used))
      BY <1>1, <1>3
    <2>2. /\ fresh \subseteq Frames /\ fresh \cap used = {}
          /\ \A i, j \in 1 .. n : Page(used, i) = Page(used, j) => i = j
      BY <2>1, PagesFresh
    <2>3. \A i \in 1 .. n : Page(used, i) \in fresh /\ Page(used, i) \in Frames
      BY <2>1, PageIs
    <2> QED  BY <2>2, <2>3
  <1> HIDE DEF fresh, n0, n
  <1>5. kstack \in fresh /\ kstack \in Frames
    BY <1>3, <1>4
  <1>6. ASSUME NEW d \in Present(p)
        PROVE  new[d] \in fresh /\ new[d] \in Frames /\ new[d] # kstack
               /\ (page_dir[c] = NULL => new[d] # Page(used, 1))
    BY <1>3, <1>4
  <1>7. ASSUME NEW d \in Present(p), NEW e \in Present(p), new[d] = new[e] PROVE d = e
    <2>1. d \in {"text", "stack"} /\ e \in {"text", "stack"}
      BY <1>2 DEF Dirs
    <2> QED  BY <1>3, <1>4, <1>7, <2>1
  <1>8. new \in [Present(p) -> Frames]
    BY <1>6
  <1>9. /\ page_dir' = [page_dir EXCEPT ![c] = page_dir'[c]]
        /\ \/ page_dir[c] # NULL /\ page_dir'[c] = page_dir[c]
           \/ /\ page_dir[c] = NULL /\ page_dir'[c] \in fresh /\ page_dir'[c] # kstack
              /\ \A d \in Present(p) : page_dir'[c] # new[d]
    <2> HIDE DEF new
    <2>1. page_dir \in [Slots -> Frames \cup {NULL}]
      BY DEF IInv, TypeOK
    <2>2. page_dir'[c] = IF page_dir[c] = NULL THEN Page(used, 1) ELSE page_dir[c]
      BY <1>1, <2>1
    <2>3. page_dir' = [page_dir EXCEPT ![c] = page_dir'[c]]
      BY <1>1, <2>1, <2>2
    <2>4. page_dir[c] = NULL => page_dir'[c] \in fresh /\ page_dir'[c] # kstack
      BY <1>3, <1>4, <2>2
    <2> QED  BY <1>6, <2>2, <2>3, <2>4
  <1> HIDE DEF new, kstack
  <1>10. \A f \in Frames \ fresh : count'[f] = count[f] + Counted(p, Present(p), f)
    <2> SUFFICES ASSUME NEW f \in Frames, f \notin fresh
                 PROVE  count'[f] = count[f] + Counted(p, Present(p), f)
      OBVIOUS
    <2>1. f # kstack /\ f # new["stack"]
      BY <1>2, <1>5, <1>6
    <2> QED  BY <1>1, <2>1
  <1>11. count' \in [Frames -> Nat]
    <2>1. ASSUME NEW f \in Frames PROVE count'[f] \in Nat
      <3>1. Counted(p, {"stack"}, f) \in Nat /\ Counted(p, Present(p), f) \in Nat
        BY <1>2, CountedIs DEF Dirs
      <3>2. count[f] \in Nat
        BY DEF IInv, TypeOK
      <3>3. CASE f \notin fresh
        BY <1>10, <3>1, <3>2, <3>3
      <3>4. CASE f = kstack
        <4>1. f # new["stack"] /\ f \in fresh
          BY <1>2, <1>5, <1>6, <3>4
        <4> QED  BY <1>1, <3>4, <4>1
      <3>5. CASE f = new["stack"]
        <4>1. f # kstack /\ f \in fresh
          BY <1>2, <1>6, <3>5
        <4> QED  BY <1>1, <3>1, <3>5, <4>1
      <3>6. CASE f \in fresh \ {kstack, new["stack"]}
        BY <1>1, <3>1, <3>6
      <3> QED  BY <3>3, <3>4, <3>5, <3>6
    <2> QED  BY <1>1, <2>1
  <1>12. ForkTakes(p, c, fresh, new, kstack)
    <2>1. /\ fresh \cap used = {} /\ used' = used \cup fresh
          /\ kstack \in fresh /\ \A d \in Present(p) : new[d] \in fresh /\ new[d] # kstack
          /\ \A d, e \in Present(p) : new[d] = new[e] => d = e
      BY <1>1, <1>4, <1>5, <1>6, <1>7
    <2> QED  BY <1>1, <1>9, <1>10, <1>11, <2>1 DEF ForkTakes
  <1>13. fresh \in SUBSET Frames /\ kstack \in Frames
    BY <1>4, <1>5
  <1> QED  BY <1>8, <1>12, <1>13

LEMMA CopiedIs ==
  ASSUME table \in [Frames -> [Idx -> Entries]], NEW p \in Slots, NEW new \in [Present(p) -> Frames],
         \A d \in Present(p) : entry[p][d] \in Frames,
         \A d, e \in Present(p) : new[d] = new[e] => d = e,
         \A d, e \in Present(p) : new[d] # entry[p][e]
  PROVE  /\ Copied(p, new) \in [Frames -> [Idx -> Entries]]
         /\ \A d \in Present(p) : Copied(p, new)[new[d]] = ReadOnly(table[entry[p][d]])
         /\ \A d \in Present(p) : Copied(p, new)[entry[p][d]] = ReadOnly(table[entry[p][d]])
         /\ \A f \in Frames : f \notin Tables(p) /\ (\A d \in Present(p) : f # new[d])
                                 => Copied(p, new)[f] = table[f]
  <1> DEFINE is(f) == CHOOSE d \in Present(p) : f = new[d]
  <1>1. \A f \in Frames : Copied(p, new)[f] =
           IF \E d \in Present(p) : f = new[d] THEN ReadOnly(table[entry[p][is(f)]])
           ELSE IF f \in Tables(p) THEN ReadOnly(table[f]) ELSE table[f]
    BY DEF Copied
  <1>2. ASSUME NEW d \in Present(p) PROVE is(new[d]) = d
    <2>1. is(new[d]) \in Present(p) /\ new[d] = new[is(new[d])]
      OBVIOUS
    <2> QED  BY <2>1
  <1>3. ASSUME NEW d \in Present(p) PROVE Copied(p, new)[new[d]] = ReadOnly(table[entry[p][d]])
    BY <1>1, <1>2
  <1>4. ASSUME NEW d \in Present(p) PROVE Copied(p, new)[entry[p][d]] = ReadOnly(table[entry[p][d]])
    <2>1. entry[p][d] \in Frames /\ entry[p][d] \in Tables(p)
      BY DEF Tables
    <2> QED  BY <1>1, <2>1
  <1>5. ASSUME NEW f \in Frames, f \notin Tables(p), \A d \in Present(p) : f # new[d]
        PROVE  Copied(p, new)[f] = table[f]
    BY <1>1, <1>5
  <1>6. ASSUME NEW f \in Frames PROVE Copied(p, new)[f] \in [Idx -> Entries]
    <2>1. table[f] \in [Idx -> Entries]
      OBVIOUS
    <2>2. CASE \E d \in Present(p) : f = new[d]
      <3>1. PICK d \in Present(p) : f = new[d]
        BY <2>2
      <3>2. ReadOnly(table[entry[p][d]]) \in [Idx -> Entries]
        BY ReadOnlyIs
      <3> QED  BY <1>3, <3>1, <3>2
    <2>3. CASE f \in Tables(p) /\ ~ \E d \in Present(p) : f = new[d]
      BY <1>1, <2>1, <2>3, ReadOnlyIs
    <2>4. CASE f \notin Tables(p) /\ ~ \E d \in Present(p) : f = new[d]
      BY <1>5, <2>1, <2>4
    <2> QED  BY <2>2, <2>3, <2>4
  <1>7. Copied(p, new) \in [Frames -> [Idx -> Entries]]
    BY <1>6 DEF Copied
  <1> QED  BY <1>3, <1>4, <1>5, <1>7

(* Whose pages a process has after the fork. *)
LEMMA ForkInv == ASSUME IInv, NEW p \in Slots, NEW c \in Slots, sys_fork(p, c) PROVE IInv'
  <1>1. /\ Alive(p) /\ life[c] = "free" /\ life' = [life EXCEPT ![c] = "live"]
        /\ turns < Turns /\ turns' = turns + 1 /\ owns' = [owns EXCEPT ![c] = owns[p]]
    BY DEF sys_fork, Life!Fork, Alive
  <1>2. PICK fresh \in SUBSET Frames, new \in [Present(p) -> Frames], kstack \in Frames :
           ForkTakes(p, c, fresh, new, kstack)
    BY ForkFrames
  <1> DEFINE of(q) == IF q = c THEN p ELSE q
             F(q, o) == FrameOf(of(q), o)
  <1>3. /\ ~Alive(c) /\ c # p /\ Alive(c)'
        /\ \A q \in Slots : of(q) \in Slots /\ (Alive(q)' => Alive(of(q))) /\ owns'[q] = owns[of(q)]
        /\ \A q \in Slots : q # c => (Alive(q)' <=> Alive(q))
        /\ StackPage \in Dirs \X Idx /\ StackPage[1] = "stack"
    BY <1>1, PagingAssumption DEF Alive, IInv, TypeOK, StackPage, Dirs
  <1>4. /\ \A d \in Present(p) : new[d] \in fresh /\ new[d] # kstack /\ d \in Dirs /\ new[d] # NULL
                                 /\ entry[p][d] \in used /\ entry[p][d] \in Frames
        /\ \A d, e \in Present(p) : new[d] = new[e] => d = e
        /\ fresh \cap used = {} /\ used' = used \cup fresh /\ kstack \in fresh /\ kstack # NULL
    BY <1>1, <1>2, LiveFrames, Memory DEF ForkTakes, Present
  <1>5. \A q \in Slots, o \in Dirs \X Idx : Given(q, o)' => Given(of(q), o)
    BY <1>3 DEF Given
  <1>6. /\ \A q \in Slots : q # c => entry'[q] = entry[q] /\ esp_addr'[q] = esp_addr[q]
                                     /\ page_dir'[q] = page_dir[q]
        /\ esp_addr'[c] = kstack
        /\ \A d \in Dirs : entry'[c][d] = IF d \in Present(p) THEN new[d] ELSE NULL
        /\ entry' \in [Slots -> [Dirs -> Frames \cup {NULL}]]
        /\ esp_addr' \in [Slots -> Frames \cup {NULL}] /\ page_dir' \in [Slots -> Frames \cup {NULL}]
    <2>1. page_dir'[c] \in Frames \cup {NULL}
      BY <1>2 DEF ForkTakes, IInv, TypeOK
    <2>2. /\ page_dir' = [page_dir EXCEPT ![c] = page_dir'[c]]
          /\ esp_addr' = [esp_addr EXCEPT ![c] = kstack]
          /\ entry' = [entry EXCEPT ![c] = [d \in Dirs |-> IF d \in Present(p) THEN new[d] ELSE NULL]]
      BY <1>2 DEF ForkTakes
    <2>3. [d \in Dirs |-> IF d \in Present(p) THEN new[d] ELSE NULL] \in [Dirs -> Frames \cup {NULL}]
      OBVIOUS
    <2>4. entry' \in [Slots -> [Dirs -> Frames \cup {NULL}]]
      BY <2>2, <2>3 DEF IInv, TypeOK
    <2>5. esp_addr' \in [Slots -> Frames \cup {NULL}] /\ page_dir' \in [Slots -> Frames \cup {NULL}]
      BY <2>1, <2>2 DEF IInv, TypeOK
    <2> QED  BY <2>2, <2>4, <2>5 DEF IInv, TypeOK
  <1>7. /\ table' \in [Frames -> [Idx -> Entries]]
        /\ \A d \in Present(p) : /\ table'[new[d]] = ReadOnly(table[entry[p][d]])
                                 /\ table'[entry[p][d]] = ReadOnly(table[entry[p][d]])
        /\ \A f \in Frames : f \notin Tables(p) /\ f \notin fresh => table'[f] = table[f]
    <2>1. table' = Copied(p, new)
      BY <1>2 DEF ForkTakes
    <2>2. /\ \A d, e \in Present(p) : new[d] # entry[p][e]
          /\ \A d \in Present(p) : entry[p][d] \in Frames
      BY <1>4
    <2>3. table \in [Frames -> [Idx -> Entries]] /\ new \in [Present(p) -> Frames]
      BY <1>2 DEF IInv, TypeOK
    <2>4. /\ Copied(p, new) \in [Frames -> [Idx -> Entries]]
          /\ \A d \in Present(p) : Copied(p, new)[new[d]] = ReadOnly(table[entry[p][d]])
          /\ \A d \in Present(p) : Copied(p, new)[entry[p][d]] = ReadOnly(table[entry[p][d]])
          /\ \A f \in Frames : f \notin Tables(p) /\ (\A d \in Present(p) : f # new[d])
                                  => Copied(p, new)[f] = table[f]
      BY <1>4, <2>2, <2>3, CopiedIs
    <2>5. \A f \in Frames : f \notin fresh => \A d \in Present(p) : f # new[d]
      BY <1>4
    <2> QED  BY <2>1, <2>4, <2>5
  <1> HIDE DEF of
  <1>8. ASSUME NEW q \in Slots, NEW o \in Dirs \X Idx, Given(q, o)'
        PROVE  /\ entry'[q][o[1]] # NULL /\ FrameOf(q, o)' = F(q, o) /\ F(q, o) \in used
               /\ of(q) = p => ~Pte(q, o)'.rw
               /\ of(q) # p => of(q) = q /\ Pte(q, o)' = Pte(q, o)
    <2>1. /\ Given(of(q), o) /\ of(q) \in Slots /\ o[2] \in Idx
          /\ entry[of(q)][o[1]] \in Frames /\ o[1] \in Present(of(q)) /\ o[1] \in Dirs
          /\ F(q, o) \in used /\ Alive(of(q))
      BY <1>3, <1>5, <1>8, GivenTypes DEF IInv, Apart, Given
    <2>2. table[entry[of(q)][o[1]]] \in [Idx -> Entries]
      BY <2>1 DEF IInv, TypeOK
    <2>3. CASE of(q) = p
      <3>1. entry'[q][o[1]] # NULL /\ table'[entry'[q][o[1]]] = ReadOnly(table[entry[p][o[1]]])
        <4>1. CASE q = c
          BY <1>4, <1>6, <1>7, <2>1, <2>3, <4>1
        <4>2. CASE q # c
          <5>1. q = p /\ entry'[q] = entry[p] /\ entry[p][o[1]] # NULL
            BY <1>3, <1>6, <2>1, <2>3, <4>2, Memory DEF of
          <5> QED  BY <1>7, <2>1, <2>3, <5>1
        <4> QED  BY <4>1, <4>2
      <3>2. /\ ReadOnly(table[entry[p][o[1]]])[o[2]].frame = table[entry[p][o[1]]][o[2]].frame
            /\ ~ReadOnly(table[entry[p][o[1]]])[o[2]].rw
        BY <2>1, <2>2, <2>3, ReadOnlyIs
      <3> QED  BY <2>1, <2>3, <3>1, <3>2 DEF Pte, FrameOf
    <2>4. CASE of(q) # p
      <3>1. q = of(q) /\ q # p /\ q # c
        BY <2>4 DEF of
      <3>2. entry[q][o[1]] \notin Tables(p)
        BY <1>1, <2>1, <3>1, TablesApart
      <3>3. entry[q][o[1]] \in used
        BY <2>1, <3>1, LiveFrames
      <3>4. table'[entry'[q][o[1]]] = table[entry[q][o[1]]] /\ entry'[q][o[1]] = entry[q][o[1]]
        BY <1>4, <1>6, <1>7, <2>1, <3>1, <3>2, <3>3
      <3> QED  BY <2>1, <2>4, <3>1, <3>4, Memory DEF Pte, FrameOf
    <2> QED  BY <2>3, <2>4
  <1>9. ASSUME NEW q \in Slots, NEW o \in Dirs \X Idx, Given(q, o)
        PROVE  /\ count[FrameOf(q, o)] \in Nat /\ count'[FrameOf(q, o)] \in Nat
               /\ count'[FrameOf(q, o)] >= count[FrameOf(q, o)]
               /\ (\E r \in Dirs \X Idx : Given(p, r) /\ FrameOf(p, r) = FrameOf(q, o))
                     => count'[FrameOf(q, o)] >= count[FrameOf(q, o)] + 1
    <2> DEFINE f == FrameOf(q, o)
               extra == Counted(p, Present(p), f)
    <2>1. f \in Frames /\ f \in used /\ count[f] \in Nat
      BY <1>9, GivenTypes DEF IInv, Apart
    <2>2. count'[f] = count[f] + extra
      BY <1>2, <1>4, <2>1 DEF ForkTakes
    <2>3. extra \in Nat /\ \A r \in Present(p) \X Idx : Pte(p, r).frame = f => extra >= 1
      BY CountedIs DEF Present
    <2>4. (\E r \in Dirs \X Idx : Given(p, r) /\ FrameOf(p, r) = f) => extra >= 1
      <3> SUFFICES ASSUME NEW r \in Dirs \X Idx, Given(p, r), FrameOf(p, r) = f PROVE extra >= 1
        OBVIOUS
      <3>1. r \in Present(p) \X Idx
        BY GivenTypes DEF IInv, Apart
      <3> QED  BY <2>3, <3>1 DEF FrameOf
    <2> HIDE DEF f, extra
    <2>5. count'[f] \in Nat /\ count'[f] >= count[f] /\ (extra >= 1 => count'[f] >= count[f] + 1)
      BY <2>1, <2>2, <2>3
    <2> QED  BY <2>1, <2>4, <2>5 DEF f
  <1>10. TypeOK'
    <2>1. used' \subseteq Frames
      BY <1>4 DEF IInv, TypeOK
    <2>2. owns' \in [Slots -> SUBSET (Dirs \X Idx)] /\ life' \in [Slots -> {"free", "live", "zombie"}]
      BY <1>1 DEF IInv, TypeOK
    <2>3. turns' \in 0 .. Turns
      BY <1>1, PagingAssumption DEF IInv, TypeOK
    <2>4. count' \in [Frames -> Nat]
      BY <1>2 DEF ForkTakes
    <2> QED  BY <1>6, <1>7, <2>1, <2>2, <2>3, <2>4 DEF TypeOK
  <1>11. ASSUME NEW q \in Slots, NEW k \in Kinds, HasRole(q, k)'
         PROVE  \/ HasRole(q, k) /\ RoleFrame(q, k)' = RoleFrame(q, k) /\ RoleFrame(q, k) \in used
                \/ /\ q = c /\ RoleFrame(q, k)' \in fresh
                   /\ \/ k = "dir" /\ RoleFrame(q, k)' # kstack
                                   /\ \A d \in Present(p) : RoleFrame(q, k)' # new[d]
                      \/ k = "kstack" /\ RoleFrame(q, k)' = kstack
                      \/ k \in Present(p) /\ RoleFrame(q, k)' = new[k]
    <2>1. CASE q # c \/ (k = "dir" /\ page_dir[c] # NULL)
      <3>1. HasRole(q, k) /\ RoleFrame(q, k)' = RoleFrame(q, k)
        <4>1. CASE q # c
          <5>1. Present(q)' = Present(q) /\ (Alive(q)' <=> Alive(q))
            BY <1>3, <1>6, <4>1 DEF Present
          <5>2. page_dir'[q] = page_dir[q] /\ entry'[q] = entry[q] /\ esp_addr'[q] = esp_addr[q]
            BY <1>6, <4>1
          <5>3. HasRole(q, k)
            BY <1>11, <5>1, <5>2 DEF HasRole
          <5> QED  BY <5>2, <5>3 DEF RoleFrame
        <4>2. CASE q = c
          BY <1>2, <2>1, <4>2 DEF HasRole, RoleFrame, ForkTakes
        <4> QED  BY <4>1, <4>2
      <3> QED  BY <3>1 DEF IInv, Apart, RolesUsed
    <2>2. CASE q = c /\ k = "dir" /\ page_dir[c] = NULL
      BY <1>2, <2>2 DEF RoleFrame, ForkTakes
    <2>3. CASE q = c /\ k = "kstack"
      BY <1>4, <1>6, <2>3 DEF RoleFrame
    <2>4. CASE q = c /\ k \notin {"dir", "kstack"}
      <3>1. k \in Dirs /\ entry'[q][k] # NULL /\ RoleFrame(q, k)' = entry'[q][k]
        BY <1>11, <2>4 DEF HasRole, RoleFrame, Present
      <3>2. k \in Present(p) /\ entry'[q][k] = new[k]
        BY <1>6, <2>4, <3>1
      <3>3. RoleFrame(q, k)' = new[k] /\ new[k] \in fresh
        BY <1>4, <3>1, <3>2
      <3> QED  BY <2>4, <3>2, <3>3
    <2> QED  BY <2>1, <2>2, <2>3, <2>4
  <1>12. ASSUME NEW q \in Slots, NEW o \in Dirs \X Idx, Given(q, o)
         PROVE  FrameOf(q, o) \in used /\ FrameOf(q, o) \notin fresh
    BY <1>4, <1>12 DEF IInv, Apart, PagesApart
  <1>13. Moves(used, fresh)
    <2>1. ASSUME NEW q \in Slots, NEW r \in Slots, NEW k \in Kinds, NEW l \in Kinds,
                 HasRole(q, k)', HasRole(r, l)', RoleFrame(q, k)' \in fresh,
                 RoleFrame(q, k)' = RoleFrame(r, l)'
          PROVE  q = r /\ k = l
      <3>1. q = c /\ r = c
        BY <1>4, <1>11, <2>1
      <3>2. \/ k = "dir" /\ RoleFrame(q, k)' # kstack /\ \A d \in Present(p) : RoleFrame(q, k)' # new[d]
            \/ k = "kstack" /\ RoleFrame(q, k)' = kstack
            \/ k \in Present(p) /\ RoleFrame(q, k)' = new[k]
        BY <1>4, <1>11, <2>1
      <3>3. \/ l = "dir" /\ RoleFrame(r, l)' # kstack /\ \A d \in Present(p) : RoleFrame(r, l)' # new[d]
            \/ l = "kstack" /\ RoleFrame(r, l)' = kstack
            \/ l \in Present(p) /\ RoleFrame(r, l)' = new[l]
        BY <1>4, <1>11, <2>1
      <3> QED  BY <1>4, <2>1, <3>1, <3>2, <3>3
    <2>2. ASSUME NEW q \in Slots, NEW o \in Dirs \X Idx, Given(q, o)'
          PROVE  /\ entry'[q][o[1]] # NULL
                 /\ FrameOf(q, o)' \in used
                 /\ \E r \in Slots, s \in Dirs \X Idx : Given(r, s) /\ FrameOf(r, s) = FrameOf(q, o)'
      BY <1>3, <1>5, <1>8, <2>2
    <2>3. \A q \in Slots, k \in Kinds : HasRole(q, k)' =>
              \/ HasRole(q, k) /\ RoleFrame(q, k)' = RoleFrame(q, k) /\ RoleFrame(q, k) \in used
              \/ RoleFrame(q, k)' \in fresh
      BY <1>11
    <2>4. used \cap fresh = {} /\ used \cup fresh \subseteq used'
      BY <1>4
    <2> QED  BY <2>1, <2>2, <2>3, <2>4 DEF Moves
  <1>14. Apart'
    BY <1>13, ApartStep DEF IInv
  <1>15. StackGiven'
    BY <1>3 DEF IInv, Stacks, StackGiven
  <1>16. \A q \in Slots : Alive(q)' => /\ Given(q, StackPage)' /\ Given(of(q), StackPage)
                                        /\ Alive(of(q)) /\ of(q) \in Slots
                                        /\ FrameOf(q, StackPage)' = FrameOf(of(q), StackPage)
    BY <1>3, <1>5, <1>8, <1>15 DEF StackGiven, Given
  <1>17. StackApart'
    <2> SUFFICES ASSUME NEW q \in Slots, NEW r \in Slots, NEW o \in Dirs \X Idx,
                        Given(q, o)', o # StackPage, Alive(r)'
                 PROVE  FrameOf(q, o)' # FrameOf(r, StackPage)'
      BY DEF StackApart, StackPage
    <2>1. Given(of(q), o) /\ Alive(of(r)) /\ of(q) \in Slots /\ of(r) \in Slots
      BY <1>3, <1>5
    <2>2. FrameOf(of(q), o) # FrameOf(of(r), StackPage)
      BY <2>1 DEF IInv, Stacks, StackApart
    <2> QED  BY <1>8, <1>16, <2>2
  <1>18. ReadOnlyCounted'
    <2> SUFFICES ASSUME NEW q \in Slots, NEW o \in Dirs \X Idx, Given(q, o)', ~Pte(q, o)'.rw
                 PROVE  count'[FrameOf(q, o)'] > 0
      BY DEF ReadOnlyCounted
    <2>1. Given(of(q), o) /\ of(q) \in Slots /\ FrameOf(q, o)' = FrameOf(of(q), o)
      BY <1>3, <1>5, <1>8
    <2>2. CASE of(q) = p
      <3>1. count'[FrameOf(p, o)] >= count[FrameOf(p, o)] + 1 /\ count[FrameOf(p, o)] \in Nat
            /\ count'[FrameOf(p, o)] \in Nat
        BY <1>9, <2>1, <2>2
      <3> QED  BY <2>1, <2>2, <3>1
    <2>3. CASE of(q) # p
      <3>1. of(q) = q /\ ~Pte(q, o).rw
        BY <1>8, <2>3
      <3>2. count[FrameOf(q, o)] > 0
        BY <2>1, <3>1 DEF IInv, Stacks, ReadOnlyCounted
      <3>3. /\ count'[FrameOf(q, o)] >= count[FrameOf(q, o)]
            /\ count[FrameOf(q, o)] \in Nat /\ count'[FrameOf(q, o)] \in Nat
        BY <1>9, <2>1, <3>1
      <3> QED  BY <2>1, <3>1, <3>2, <3>3
    <2> QED  BY <2>2, <2>3
  <1>19. StackCounted'
    <2> SUFFICES ASSUME NEW q \in Slots, Alive(q)'
                 PROVE  Cardinality(Sharers(FrameOf(q, StackPage))') <= count'[FrameOf(q, StackPage)']
      BY DEF StackCounted, Sharers
    <2> DEFINE f == FrameOf(of(q), StackPage)
               S == Sharers(f)
    <2>1. /\ Given(of(q), StackPage) /\ FrameOf(q, StackPage)' = f /\ Alive(of(q)) /\ of(q) \in Slots
          /\ count[f] \in Nat /\ count'[f] \in Nat /\ count'[f] >= count[f]
      BY <1>3, <1>9, <1>16
    <2>2. Cardinality(S) <= count[f] /\ IsFiniteSet(S) /\ Cardinality(S) \in Nat
      BY <2>1, SharersFinite DEF IInv, Stacks, StackCounted, Sharers
    <2>3. Sharers(FrameOf(q, StackPage))' = {r \in Slots : Alive(r)' /\ FrameOf(r, StackPage)' = f}
      BY <2>1 DEF Sharers
    <2>4. CASE FrameOf(p, StackPage) = f
      <3>1. Sharers(FrameOf(q, StackPage))' = S \cup {c}
        <4>1. ASSUME NEW r \in Slots PROVE Alive(r)' /\ FrameOf(r, StackPage)' = f <=> r \in S \/ r = c
          <5>1. CASE r = c
            <6>1. of(c) = p
              BY DEF of
            <6> QED  BY <1>3, <1>16, <2>4, <5>1, <6>1
          <5>2. CASE r # c
            <6>1. of(r) = r
              BY <5>2 DEF of
            <6> QED  BY <1>3, <1>16, <5>2, <6>1 DEF Sharers
          <5> QED  BY <5>1, <5>2
        <4> QED  BY <2>3, <4>1 DEF Sharers
      <3>2. c \notin S
        BY <1>3 DEF Sharers
      <3>3. Cardinality(S \cup {c}) = Cardinality(S) + 1
        BY <2>2, <3>2, FS_AddElement
      <3>4. count'[f] >= count[f] + 1
        <4>1. Given(p, StackPage)
          BY <1>1, LiveFrames
        <4> QED  BY <1>3, <1>9, <2>1, <2>4, <4>1
      <3> HIDE DEF f, S
      <3> QED  BY <2>1, <2>2, <3>1, <3>3, <3>4
    <2>5. CASE FrameOf(p, StackPage) # f
      <3>1. Sharers(FrameOf(q, StackPage))' = S
        <4>1. ASSUME NEW r \in Slots PROVE Alive(r)' /\ FrameOf(r, StackPage)' = f <=> r \in S
          <5>1. CASE r = c
            <6>1. of(c) = p
              BY DEF of
            <6> QED  BY <1>3, <1>16, <2>5, <5>1, <6>1 DEF Sharers
          <5>2. CASE r # c
            <6>1. of(r) = r
              BY <5>2 DEF of
            <6> QED  BY <1>3, <1>16, <5>2, <6>1 DEF Sharers
          <5> QED  BY <5>1, <5>2
        <4> QED  BY <2>3, <4>1 DEF Sharers
      <3> HIDE DEF f, S
      <3> QED  BY <2>1, <2>2, <3>1
    <2> QED  BY <2>4, <2>5
  <1>20. StackPrivate'
    <2> SUFFICES ASSUME NEW q \in Slots, NEW r \in Slots, Alive(q)', Alive(r)', q # r,
                        FrameOf(q, StackPage)' = FrameOf(r, StackPage)'
                 PROVE  ~Pte(q, StackPage)'.rw
      BY DEF StackPrivate, StackPage
    <2>1. CASE of(q) = p
      BY <1>3, <1>8, <1>16, <2>1
    <2>2. CASE of(q) # p
      <3>1. of(q) = q /\ Pte(q, StackPage)' = Pte(q, StackPage)
        BY <1>3, <1>8, <1>16, <2>2
      <3>2. of(r) # q
        BY <2>2, <3>1 DEF of
      <3>3. Alive(q) /\ Alive(of(r)) /\ of(r) \in Slots /\ FrameOf(q, StackPage) = FrameOf(of(r), StackPage)
        BY <1>16, <3>1
      <3> QED  BY <3>1, <3>2, <3>3 DEF IInv, Stacks, StackPrivate
    <2> QED  BY <2>1, <2>2
  <1> QED  BY <1>10, <1>14, <1>15, <1>17, <1>18, <1>19, <1>20 DEF IInv, Stacks

-----------------------------------------------------------------------------
(* init_fork: four frames, and one process with a stack. *)
LEMMA Initially == Init => IInv
  <1> SUFFICES ASSUME Init PROVE IInv
    OBVIOUS
  <1> DEFINE fr(i) == Page({}, i)
  <1>1. /\ \A i \in 1 .. 4 : fr(i) \in Frames /\ fr(i) \in Pages({}, 4) /\ fr(i) # NULL
        /\ \A i, j \in 1 .. 4 : fr(i) = fr(j) => i = j
        /\ Pages({}, 4) \subseteq Frames
    <2>1. Unused({}) = Frames /\ 4 <= Cardinality(Unused({}))
      <3>1. Unused({}) = Frames /\ Cardinality(Frames) >= 4 /\ Cardinality(Frames) \in Nat
        BY Memory, FS_CardinalityType DEF Unused, Init
      <3> QED  BY <3>1
    <2>2. \A i \in 1 .. 4 : fr(i) \in Frames /\ fr(i) \in Pages({}, 4) /\ fr(i) # NULL
      BY <2>1, PageIs
    <2>3. Pages({}, 4) \subseteq Frames /\ \A i, j \in 1 .. 4 : fr(i) = fr(j) => i = j
      BY <2>1, PagesFresh
    <2> QED  BY <2>2, <2>3
  <1> HIDE DEF fr
  <1>2. fr(4) \notin Pages({}, 3)
    <2>1. \A i \in 1 .. 3 : fr(4) # fr(i)
      BY <1>1
    <2> QED  BY <2>1 DEF Pages, fr
  <1>3. /\ life = [p \in Slots |-> IF p = Root THEN "live" ELSE "free"]
        /\ used = Pages({}, 4)
        /\ count = [f \in Frames |-> IF f \in Pages({}, 3) THEN 0 ELSE 1]
        /\ table = [f \in Frames |-> [i \in Idx |-> IF f = fr(3) /\ i = StackIdx
                                          THEN [frame |-> fr(4), rw |-> TRUE] ELSE NoEntry]]
        /\ page_dir = [p \in Slots |-> IF p = Root THEN fr(1) ELSE NULL]
        /\ entry = [p \in Slots |-> [d \in Dirs |->
                       IF p = Root /\ d = "stack" THEN fr(3) ELSE NULL]]
        /\ esp_addr = [p \in Slots |-> IF p = Root THEN fr(2) ELSE NULL]
        /\ owns = [p \in Slots |-> IF p = Root THEN {StackPage} ELSE {}]
        /\ turns = 0
    BY DEF Init, Life!Init, fr
  <1>4. StackPage \in Dirs \X Idx /\ StackPage = <<"stack", StackIdx>> /\ Root \in Slots /\ StackIdx \in Idx
    BY PagingAssumption DEF StackPage, Dirs
  <1>5. TypeOK
    <2>1. NoEntry \in Entries /\ [frame |-> fr(4), rw |-> TRUE] \in Entries
      BY <1>1 DEF NoEntry, Entries
    <2>2. table \in [Frames -> [Idx -> Entries]]
      BY <1>3, <2>1
    <2>3. owns \in [Slots -> SUBSET (Dirs \X Idx)] /\ turns \in 0 .. Turns
      BY <1>3, <1>4, PagingAssumption
    <2>4. count \in [Frames -> Nat] /\ used \subseteq Frames
      BY <1>1, <1>3
    <2>5. /\ page_dir \in [Slots -> Frames \cup {NULL}] /\ esp_addr \in [Slots -> Frames \cup {NULL}]
          /\ entry \in [Slots -> [Dirs -> Frames \cup {NULL}]]
          /\ life \in [Slots -> {"free", "live", "zombie"}]
      BY <1>1, <1>3
    <2> QED  BY <2>2, <2>3, <2>4, <2>5 DEF TypeOK
  <1>6. \A p \in Slots : Alive(p) <=> p = Root
    BY <1>3 DEF Alive
  <1>7. \A p \in Slots, o \in Dirs \X Idx : Given(p, o) <=> p = Root /\ o = StackPage
    BY <1>3, <1>4, <1>6 DEF Given
  <1>8. /\ entry[Root]["stack"] = fr(3) /\ Pte(Root, StackPage) = [frame |-> fr(4), rw |-> TRUE]
        /\ FrameOf(Root, StackPage) = fr(4) /\ count[fr(4)] = 1
    BY <1>1, <1>2, <1>3, <1>4 DEF Pte, FrameOf, Dirs
  <1>9. ASSUME NEW p \in Slots, NEW k \in Kinds, HasRole(p, k)
        PROVE  p = Root /\ \/ k = "dir" /\ RoleFrame(p, k) = fr(1)
                           \/ k = "kstack" /\ RoleFrame(p, k) = fr(2)
                           \/ k = "stack" /\ RoleFrame(p, k) = fr(3)
    <2>1. CASE k = "dir"
      BY <1>3, <1>9, <2>1 DEF HasRole, RoleFrame, Present, Dirs
    <2>2. CASE k = "kstack"
      BY <1>3, <1>6, <1>9, <2>2 DEF HasRole, RoleFrame, Present, Dirs
    <2>3. CASE k \notin {"dir", "kstack"}
      <3>1. k \in Dirs /\ entry[p][k] # NULL /\ RoleFrame(p, k) = entry[p][k]
        BY <1>9, <2>3 DEF HasRole, RoleFrame, Present
      <3> QED  BY <1>3, <3>1
    <2> QED  BY <2>1, <2>2, <2>3
  <1>10. Apart
    <2>1. RolesUsed
      <3>1. fr(1) \in used /\ fr(2) \in used /\ fr(3) \in used
        BY <1>1, <1>3
      <3> QED  BY <1>9, <3>1 DEF RolesUsed
    <2>2. RolesApart
      <3> SUFFICES ASSUME NEW p \in Slots, NEW q \in Slots, NEW k \in Kinds, NEW l \in Kinds,
                          HasRole(p, k), HasRole(q, l), RoleFrame(p, k) = RoleFrame(q, l)
                   PROVE  p = q /\ k = l
        BY DEF RolesApart
      <3>1. fr(1) # fr(2) /\ fr(2) # fr(3) /\ fr(1) # fr(3)
        BY <1>1
      <3> QED  BY <1>9, <3>1
    <2>3. PagesApart
      <3>1. fr(1) # fr(4) /\ fr(2) # fr(4) /\ fr(3) # fr(4) /\ fr(4) \in used /\ fr(3) # NULL
        BY <1>1, <1>3
      <3>2. entry[Root][StackPage[1]] # NULL
        BY <1>4, <1>8, <3>1
      <3> QED  BY <1>7, <1>8, <1>9, <3>1, <3>2 DEF PagesApart
    <2> QED  BY <2>1, <2>2, <2>3 DEF Apart
  <1>11. Stacks
    <2>1. StackGiven
      BY <1>3, <1>6 DEF StackGiven
    <2>2. StackApart /\ ReadOnlyCounted
      BY <1>7, <1>8 DEF StackApart, ReadOnlyCounted
    <2>3. StackPrivate
      BY <1>6 DEF StackPrivate
    <2>4. StackCounted
      <3> SUFFICES ASSUME NEW p \in Slots, Alive(p)
                   PROVE  Cardinality(Sharers(FrameOf(p, StackPage))) <= count[FrameOf(p, StackPage)]
        BY DEF StackCounted, Sharers
      <3>1. Sharers(FrameOf(p, StackPage)) \in SUBSET {Root}
        BY <1>6 DEF Sharers
      <3>2. IsFiniteSet({Root}) /\ Cardinality({Root}) = 1
        BY FS_Singleton
      <3>3. Cardinality(Sharers(FrameOf(p, StackPage))) <= 1
        BY <3>1, <3>2, FS_Subset
      <3> QED  BY <1>6, <1>8, <3>3
    <2> QED  BY <2>1, <2>2, <2>3, <2>4 DEF Stacks
  <1> QED  BY <1>5, <1>10, <1>11 DEF IInv

LEMMA StutterInv == ASSUME IInv, UNCHANGED vars PROVE IInv'
  <1> USE DEF vars
  <1>1. TypeOK'
    BY DEF IInv, TypeOK
  <1>2. Apart'
    BY DEF IInv, Apart, RolesUsed, RolesApart, PagesApart, HasRole, RoleFrame, Present,
           Given, Alive, FrameOf, Pte
  <1>3. Stacks'
    BY DEF IInv, Stacks, StackGiven, StackApart, ReadOnlyCounted, StackCounted, StackPrivate,
           Given, Alive, FrameOf, Pte
  <1> QED  BY <1>1, <1>2, <1>3 DEF IInv

LEMMA NextInv == IInv /\ [Next]_vars => IInv'
  <1> SUFFICES ASSUME IInv, [Next]_vars PROVE IInv'
    OBVIOUS
  <1>1. ASSUME NEW p \in Slots, NEW c \in Slots, sys_fork(p, c) PROVE IInv'
    BY <1>1, ForkInv
  <1>2. ASSUME NEW p \in Slots, NEW c \in Slots, sys_waitpid(p, c) PROVE IInv'
    BY <1>2, WaitInv
  <1>3. ASSUME NEW p \in Slots, NEW pg \in Dirs \X Idx, do_wp_page(p, pg) PROVE IInv'
    BY <1>3, WriterInv, CopierInv
  <1>4. ASSUME NEW p \in Slots, NEW prog \in Programs, sys_execve(p, prog) PROVE IInv'
    BY <1>4, ExecInv
  <1>5. ASSUME NEW p \in Slots, sys_exit(p) PROVE IInv'
    BY <1>5, ExitInv
  <1>6. CASE UNCHANGED vars
    BY <1>6, StutterInv
  <1> QED  BY <1>1, <1>2, <1>3, <1>4, <1>5, <1>6 DEF Next

(* What every reachable state satisfies, from which the properties follow. *)
THEOREM Invariance == Spec => []IInv
  BY Initially, NextInv, PTL DEF Spec

-----------------------------------------------------------------------------
(* A role of the properties is a place of the proof. *)
LEMMA RolesAre ==
  ASSUME NEW r \in Roles
  PROVE  \E p \in Slots, k \in Kinds : HasRole(p, k) /\ r = <<p, k, RoleFrame(p, k)>>
  <1>1. PICK p \in Slots : r \in RoleFrames(p)
    BY DEF Roles
  <1>2. CASE page_dir[p] # NULL /\ r = <<p, "dir", page_dir[p]>>
    BY <1>2, Role
  <1>3. CASE Alive(p) /\ r = <<p, "kstack", esp_addr[p]>>
    BY <1>3, Role
  <1>4. CASE Alive(p) /\ r \in {<<p, d, entry[p][d]>> : d \in Present(p)}
    BY <1>4, Role
  <1> QED  BY <1>1, <1>2, <1>3, <1>4 DEF RoleFrames

LEMMA RolesOne == TypeOK /\ Apart => OneRole
  <1> SUFFICES ASSUME TypeOK, Apart PROVE OneRole
    OBVIOUS
  <1>1. ASSUME NEW r \in Roles PROVE r[3] \in used
    <2>1. PICK p \in Slots, k \in Kinds : HasRole(p, k) /\ r = <<p, k, RoleFrame(p, k)>>
      BY RolesAre
    <2> QED  BY <2>1 DEF Apart, RolesUsed
  <1>2. ASSUME NEW r \in Roles, NEW s \in Roles, r[3] = s[3] PROVE r = s
    <2>1. PICK p \in Slots, k \in Kinds : HasRole(p, k) /\ r = <<p, k, RoleFrame(p, k)>>
      BY RolesAre
    <2>2. PICK q \in Slots, l \in Kinds : HasRole(q, l) /\ s = <<q, l, RoleFrame(q, l)>>
      BY RolesAre
    <2>3. p = q /\ k = l
      BY <1>2, <2>1, <2>2 DEF Apart, RolesApart
    <2> QED  BY <2>1, <2>2, <2>3
  <1>3. ASSUME NEW p \in Slots, Alive(p), NEW pg \in Dirs \X Idx, pg \in owns[p]
        PROVE  /\ entry[p][pg[1]] # NULL /\ FrameOf(p, pg) \in used
               /\ \A r \in Roles : r[3] # FrameOf(p, pg)
    <2>1. Given(p, pg)
      BY <1>3 DEF Given
    <2>2. ASSUME NEW r \in Roles PROVE r[3] # FrameOf(p, pg)
      <3>1. PICK q \in Slots, k \in Kinds : HasRole(q, k) /\ r = <<q, k, RoleFrame(q, k)>>
        BY RolesAre
      <3> QED  BY <2>1, <3>1 DEF Apart, PagesApart
    <2> QED  BY <2>1, <2>2 DEF Apart, PagesApart
  <1>4. \A p \in Slots : owns[p] \subseteq Dirs \X Idx
    BY DEF TypeOK
  <1> QED  BY <1>1, <1>2, <1>3, <1>4 DEF OneRole

(* The tables hold what they should, and no count goes below zero: the      *)
(* count of a shared page is only lowered where another one still has it.  *)
THEOREM TypeCorrect == Spec => []TypeOK
  <1>1. IInv => TypeOK
    BY DEF IInv
  <1> QED  BY <1>1, Invariance, PTL

(* No frame is a directory, a table, a kernel stack or a page of two        *)
(* places at once, whatever stale entries exit and execve leave.           *)
THEOREM FramesHaveOneRole == Spec => []OneRole
  <1>1. IInv => OneRole
    BY RolesOne DEF IInv
  <1> QED  BY <1>1, Invariance, PTL

(* The count of a stack page is at least the number of its processes, so    *)
(* that do_wp_page may make the process it finds alone a writer.           *)
THEOREM StacksAreCounted == Spec => []StackCounted
  <1>1. IInv => StackCounted
    BY DEF IInv, Stacks
  <1> QED  BY <1>1, Invariance, PTL

(* A stack page that two processes share is read-only in both.              *)
THEOREM StacksArePrivate == Spec => []StackPrivate
  <1>1. IInv => StackPrivate
    BY DEF IInv, Stacks
  <1> QED  BY <1>1, Invariance, PTL
=============================================================================
