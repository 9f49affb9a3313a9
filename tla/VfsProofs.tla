------------------------------ MODULE VfsProofs -----------------------------
(***************************************************************************)
(* Every entry of the tree has its place, a thing of a mounted disk has    *)
(* one entry, and the cache of entries is not seen: for any disk, any      *)
(* paths and any number of processes.                                      *)
(***************************************************************************)
EXTENDS Vfs, WellFoundedInduction, TLAPS

Nodes == [name : Names \cup {"/"}, parent : Nat, obj : Objs \cup {None},
          sb : Nat, mounted : Nat]

(* Trees as they are between two calls, and between two lookups of a path. *)
Placed(t) ==
    \A e \in DOMAIN t :
        /\ t[e].parent \in 1 .. e /\ t[e].sb \in 1 .. e
        /\ t[e].sb = t[t[e].parent].sb
        /\ t[e].parent = e <=> t[e].sb = e
Mounts(t) == \A e \in DOMAIN t : t[e].mounted = 0 \/ t[e].mounted \in e + 1 .. Len(t)
OnTheDisk(x, d) == /\ d \in DirObjs /\ x.name \in DOMAIN Disk[d]
                   /\ x.obj = Disk[d][x.name]
FromDisk(t) ==
    \A e \in DOMAIN t : t[e].obj # None =>
        IF t[e].parent = e THEN t[e].obj = RootObj ELSE OnTheDisk(t[e], t[t[e].parent].obj)
Once(t) ==
    \A e, f \in DOMAIN t :
        t[e].obj # None /\ t[e].obj = t[f].obj /\ t[e].sb = t[f].sb => e = f

Rooted(t) ==
    \A e \in DOMAIN t : /\ t[t[e].sb].sb = t[e].sb
                        /\ t[e].obj # None => t[t[e].sb].obj = RootObj

Tree(t) == t \in Seq(Nodes) /\ Placed(t) /\ Mounts(t) /\ FromDisk(t) /\ Once(t) /\ Rooted(t)
Grows(t, u) == Tree(u) /\ Len(t) <= Len(u) /\ \A e \in DOMAIN t : u[e].obj = t[e].obj

IInv ==
    /\ Tree(tree)
    /\ root \in [Procs -> Entries] /\ pwd \in [Procs -> Entries]
    /\ \A p \in Procs : IsDir(tree, root[p]) /\ IsDir(tree, pwd[p])

-----------------------------------------------------------------------------
(* A set of numbers has a least one. *)
LEMMA NatMin ==
  ASSUME NEW T, T \subseteq Nat, T # {}
  PROVE  \E x \in T : \A y \in T : x <= y
  <1> DEFINE R == {ss \in Nat \X Nat : ss[1] < ss[2]}
  <1>1. IsWellFoundedOn(R, Nat)
    BY NatLessThanWellFounded DEF OpToRel
  <1>2. \A x, y \in Nat : <<y, x>> \in R <=> y < x
    OBVIOUS
  <1> HIDE DEF R
  <1>3. PICK x \in T : \A y \in T : ~ (<<y, x>> \in R)
    BY <1>1, WFMin
  <1>4. \A y \in T : x \in Nat /\ y \in Nat /\ ~ (y < x)
    BY <1>2, <1>3
  <1> QED  BY <1>4

(* One more entry, on which an older one may be covered. *)
LEMMA OneMore ==
  ASSUME NEW t, Tree(t), NEW u \in Seq(Nodes), NEW n, n = Len(t) + 1, Len(u) = n,
         \A e \in DOMAIN t : /\ u[e].name = t[e].name /\ u[e].parent = t[e].parent
                             /\ u[e].obj = t[e].obj /\ u[e].sb = t[e].sb
                             /\ u[e].mounted = t[e].mounted \/ u[e].mounted = n,
         u[n].mounted = 0, u[n].parent \in 1 .. n, u[n].sb \in 1 .. n,
         u[n].sb = u[u[n].parent].sb, u[n].parent = n <=> u[n].sb = n,
         u[n].obj # None =>
             /\ IF u[n].parent = n THEN u[n].obj = RootObj ELSE OnTheDisk(u[n], u[u[n].parent].obj)
             /\ \A f \in DOMAIN t : ~ (t[f].obj = u[n].obj /\ t[f].sb = u[n].sb)
  PROVE  Grows(t, u)
  <1>1. /\ DOMAIN t = 1 .. Len(t) /\ DOMAIN u = 1 .. n /\ Len(t) \in Nat /\ n \in Nat
        /\ \A e \in DOMAIN u : e \in DOMAIN t \/ e = n
        /\ n \in DOMAIN u /\ DOMAIN t \subseteq DOMAIN u /\ n \notin DOMAIN t
    BY DEF Tree
  <1>2. \A e \in DOMAIN t : t[e].parent \in 1 .. e /\ t[e].parent \in DOMAIN t
    BY <1>1 DEF Tree, Placed
  <1>3. Placed(u)
    <2> SUFFICES ASSUME NEW e \in DOMAIN u
                 PROVE  /\ u[e].parent \in 1 .. e /\ u[e].sb \in 1 .. e
                        /\ u[e].sb = u[u[e].parent].sb
                        /\ u[e].parent = e <=> u[e].sb = e
      BY DEF Placed
    <2>1. CASE e \in DOMAIN t
      <3>1. /\ t[e].parent \in 1 .. e /\ t[e].sb \in 1 .. e
            /\ t[e].sb = t[t[e].parent].sb
            /\ t[e].parent = e <=> t[e].sb = e
        BY <2>1 DEF Tree, Placed
      <3>2. t[e].parent \in DOMAIN t
        BY <1>2, <2>1
      <3>3. /\ u[e].parent = t[e].parent /\ u[e].sb = t[e].sb
            /\ u[t[e].parent].sb = t[t[e].parent].sb
        BY <2>1, <3>2
      <3> QED  BY <3>1, <3>3
    <2>2. CASE e = n
      BY <2>2
    <2> QED  BY <1>1, <2>1, <2>2
  <1>4. Mounts(u)
    <2> SUFFICES ASSUME NEW e \in DOMAIN u
                 PROVE  u[e].mounted = 0 \/ u[e].mounted \in e + 1 .. Len(u)
      BY DEF Mounts
    <2>1. CASE e \in DOMAIN t
      <3>1. t[e].mounted = 0 \/ t[e].mounted \in e + 1 .. Len(t)
        BY <2>1 DEF Tree, Mounts
      <3> QED  BY <1>1, <2>1, <3>1
    <2>2. CASE e = n
      BY <2>2
    <2> QED  BY <1>1, <2>1, <2>2
  <1>5. FromDisk(u)
    <2> SUFFICES ASSUME NEW e \in DOMAIN u, u[e].obj # None
                 PROVE  IF u[e].parent = e THEN u[e].obj = RootObj
                        ELSE OnTheDisk(u[e], u[u[e].parent].obj)
      BY DEF FromDisk
    <2>1. CASE e \in DOMAIN t
      <3>1. IF t[e].parent = e THEN t[e].obj = RootObj ELSE OnTheDisk(t[e], t[t[e].parent].obj)
        BY <2>1 DEF Tree, FromDisk
      <3>2. u[u[e].parent].obj = t[t[e].parent].obj
        BY <1>2, <2>1
      <3> QED  BY <2>1, <3>1, <3>2 DEF OnTheDisk
    <2>2. CASE e = n
      BY <2>2
    <2> QED  BY <1>1, <2>1, <2>2
  <1>6. Once(u)
    <2> SUFFICES ASSUME NEW e \in DOMAIN u, NEW f \in DOMAIN u,
                        u[e].obj # None, u[e].obj = u[f].obj, u[e].sb = u[f].sb
                 PROVE  e = f
      BY DEF Once
    <2>1. CASE e \in DOMAIN t /\ f \in DOMAIN t
      BY <2>1 DEF Tree, Once
    <2>2. CASE e = n \/ f = n
      BY <1>1, <2>2
    <2> QED  BY <1>1, <2>1, <2>2
  <1>7. Rooted(u)
    <2>1. ASSUME NEW e \in DOMAIN t
          PROVE  /\ u[u[e].sb].sb = u[e].sb
                 /\ u[e].obj # None => u[u[e].sb].obj = RootObj
      <3>1. t[e].sb \in DOMAIN t
        <4>1. t[e].sb \in 1 .. e
          BY DEF Tree, Placed
        <4> QED  BY <1>1, <4>1
      <3>2. /\ t[t[e].sb].sb = t[e].sb
            /\ t[e].obj # None => t[t[e].sb].obj = RootObj
        BY DEF Tree, Rooted
      <3> QED  BY <3>1, <3>2
    <2>2. /\ u[u[n].sb].sb = u[n].sb
          /\ u[n].obj # None => u[u[n].sb].obj = RootObj
      <3>1. CASE u[n].parent = n
        BY <3>1
      <3>2. CASE u[n].parent # n
        <4>1. u[n].parent \in DOMAIN t
          BY <1>1, <3>2
        <4>2. u[n].obj # None => u[u[n].parent].obj # None
          BY <3>2, VfsAssumption DEF OnTheDisk, Objs
        <4> QED  BY <2>1, <4>1, <4>2
      <3> QED  BY <3>1, <3>2
    <2> QED  BY <1>1, <2>1, <2>2 DEF Rooted
  <1> QED  BY <1>1, <1>3, <1>4, <1>5, <1>6, <1>7 DEF Tree, Grows

LEMMA GrowsOn ==
  ASSUME NEW t, NEW u, NEW v, t \in Seq(Nodes), Grows(t, u), Grows(u, v)
  PROVE  Grows(t, v)
  <1>1. DOMAIN t = 1 .. Len(t) /\ DOMAIN u = 1 .. Len(u) /\ Len(t) \in Nat /\ Len(u) \in Nat
        /\ Len(v) \in Nat
    BY DEF Grows, Tree
  <1>2. DOMAIN t \subseteq DOMAIN u /\ Len(t) <= Len(v)
    BY <1>1 DEF Grows
  <1> QED  BY <1>2 DEF Grows

LEMMA GrowsStays == ASSUME NEW t, Tree(t) PROVE Grows(t, t)
  BY DEF Grows, Tree

-----------------------------------------------------------------------------
(* Following mounts up ends at an entry that nothing is mounted on. *)
LEMMA ResolvedIs ==
  ASSUME NEW t, Tree(t), NEW e \in DOMAIN t
  PROVE  /\ Resolved(t, e) \in DOMAIN t /\ t[Resolved(t, e)].mounted = 0
         /\ Resolved(t, e) = IF t[e].mounted = 0 THEN e ELSE Resolved(t, t[e].mounted)
  <1> DEFINE L == Len(t)
             Beyond(m) == L + 1 - m .. L
             Follows(g, S) == g = [x \in S |-> IF t[x].mounted = 0 THEN x ELSE g[t[x].mounted]]
             Missing == {m \in 0 .. L : ~ \E g : Follows(g, Beyond(m))}
             r[x \in DOMAIN t] == IF t[x].mounted = 0 THEN x ELSE r[t[x].mounted]
  <1>1. L \in Nat /\ DOMAIN t = 1 .. L /\ Beyond(L) = DOMAIN t /\ L \in 0 .. L
    BY DEF Tree
  <1>2. \A x \in DOMAIN t : t[x].mounted = 0 \/ t[x].mounted \in x + 1 .. L
    BY DEF Tree, Mounts
  <1> HIDE DEF L
  <1>3. Missing = {}
    <2> SUFFICES ASSUME Missing # {} PROVE FALSE
      OBVIOUS
    <2>1. PICK m \in Missing : \A k \in Missing : m <= k
      <3>1. Missing \subseteq Nat
        OBVIOUS
      <3> QED  BY <3>1, NatMin
    <2>2. m \in Nat /\ m <= L /\ ~ \E g : Follows(g, Beyond(m))
      OBVIOUS
    <2>3. CASE m = 0
      <3> DEFINE g == [x \in {} |-> 0]
      <3>1. Beyond(m) = {}
        BY <1>1, <2>3
      <3>2. g = [x \in Beyond(m) |-> IF t[x].mounted = 0 THEN x ELSE g[t[x].mounted]]
        BY <3>1
      <3> QED  BY <2>2, <3>2
    <2>4. CASE m # 0
      <3>1. m - 1 \in 0 .. L /\ ~ (m <= m - 1)
        BY <1>1, <2>2, <2>4
      <3>2. PICK g : Follows(g, Beyond(m - 1))
        BY <2>1, <3>1
      <3> DEFINE y == L + 1 - m
                 h == [x \in Beyond(m) |-> IF x = y THEN IF t[y].mounted = 0 THEN y
                                                        ELSE g[t[y].mounted]
                                                   ELSE g[x]]
      <3>3. /\ y \in Beyond(m) /\ y \notin Beyond(m - 1) /\ y \in DOMAIN t
            /\ \A x \in Beyond(m) : x = y \/ x \in Beyond(m - 1)
            /\ Beyond(m - 1) \subseteq Beyond(m) /\ Beyond(m) \subseteq DOMAIN t
            /\ \A x \in Beyond(m) : t[x].mounted = 0 \/ t[x].mounted \in Beyond(m - 1)
        <4>1. y \in Int /\ y >= 1 /\ y <= L /\ L + 1 - (m - 1) = y + 1
          BY <1>1, <2>2, <2>4
        <4> HIDE DEF y
        <4>2. Beyond(m) = y .. L /\ Beyond(m - 1) = y + 1 .. L
          BY <4>1 DEF y
        <4>3. \A x \in y .. L : x \in DOMAIN t /\ (x = y \/ x \in y + 1 .. L)
          BY <1>1, <4>1
        <4>4. \A x \in y .. L : t[x].mounted = 0 \/ t[x].mounted \in y + 1 .. L
          <5> SUFFICES ASSUME NEW x \in y .. L, t[x].mounted # 0
                       PROVE  t[x].mounted \in y + 1 .. L
            OBVIOUS
          <5>1. t[x].mounted \in x + 1 .. L
            BY <1>2, <4>3
          <5> QED  BY <1>1, <4>1, <5>1
        <4>5. y \in y .. L /\ y \notin y + 1 .. L /\ y + 1 .. L \subseteq y .. L /\ y .. L \subseteq DOMAIN t
          BY <1>1, <4>1
        <4> QED  BY <4>2, <4>3, <4>4, <4>5
      <3> HIDE DEF Above, y
      <3>4. \A x \in Beyond(m - 1) : g[x] = IF t[x].mounted = 0 THEN x ELSE g[t[x].mounted]
        BY <3>2
      <3>5. \A x \in Beyond(m - 1) : h[x] = g[x]
        BY <3>3
      <3>6. \A x \in Beyond(m) : h[x] = IF t[x].mounted = 0 THEN x ELSE h[t[x].mounted]
        BY <3>3, <3>4, <3>5
      <3>7. h = [x \in Beyond(m) |-> IF t[x].mounted = 0 THEN x ELSE h[t[x].mounted]]
        <4>1. h = [x \in Beyond(m) |-> h[x]]
          OBVIOUS
        <4> HIDE DEF h
        <4> QED  BY <3>6, <4>1
      <3> HIDE DEF h
      <3> QED  BY <2>2, <3>7
    <2> QED  BY <2>3, <2>4
  <1>4. PICK g : g = [x \in DOMAIN t |-> IF t[x].mounted = 0 THEN x ELSE g[t[x].mounted]]
    <2>1. L \notin Missing
      BY <1>3
    <2>2. PICK g : Follows(g, Beyond(L))
      BY <1>1, <2>1
    <2>3. g = [x \in DOMAIN t |-> IF t[x].mounted = 0 THEN x ELSE g[t[x].mounted]]
      BY <1>1, <2>2
    <2> QED  BY <2>3
  <1>5. r = [x \in DOMAIN t |-> IF t[x].mounted = 0 THEN x ELSE r[t[x].mounted]]
    BY <1>4
  <1>6. \A x : Resolved(t, x) = r[x]
    BY DEF Resolved
  <1> HIDE DEF r
  <1> DEFINE Ends(x) == r[x] \in DOMAIN t /\ t[r[x]].mounted = 0
             Lost == {m \in 0 .. L : m # L /\ ~ Ends(L - m)}
  <1>7. Lost = {}
    <2> SUFFICES ASSUME Lost # {} PROVE FALSE
      OBVIOUS
    <2>1. PICK m \in Lost : \A k \in Lost : m <= k
      <3>1. Lost \subseteq Nat
        OBVIOUS
      <3> QED  BY <3>1, NatMin
    <2>2. L - m \in DOMAIN t /\ ~ Ends(L - m) /\ m \in Nat
      BY <1>1
    <2>3. r[L - m] = IF t[L - m].mounted = 0 THEN L - m ELSE r[t[L - m].mounted]
      BY <1>5, <2>2
    <2>4. t[L - m].mounted \in L - m + 1 .. L /\ r[L - m] = r[t[L - m].mounted]
      BY <1>2, <2>2, <2>3
    <2> DEFINE k == L - t[L - m].mounted
    <2>5. k \in 0 .. L /\ k # L /\ k < m /\ L - k = t[L - m].mounted
      BY <1>1, <2>2, <2>4
    <2> HIDE DEF k
    <2>6. k \in Lost
      BY <2>2, <2>4, <2>5
    <2>7. m <= k
      BY <2>1, <2>6
    <2> QED  BY <1>1, <2>2, <2>5, <2>7
  <1>8. L - e \in 0 .. L /\ L - e # L /\ L - (L - e) = e
    BY <1>1
  <1>9. Ends(e)
    BY <1>7, <1>8
  <1>10. r[e] = IF t[e].mounted = 0 THEN e ELSE r[t[e].mounted]
    BY <1>5
  <1> QED  BY <1>6, <1>9, <1>10

(* What an older entry leads to when some entries have been covered.       *)
LEMMA ResolvedGrows ==
  ASSUME NEW t, Tree(t), NEW u, Tree(u), DOMAIN t \subseteq DOMAIN u,
         \A e \in DOMAIN t :
            \/ u[e].mounted = t[e].mounted
            \/ t[e].mounted = 0 /\ u[e].mounted \in DOMAIN u /\ u[u[e].mounted].mounted = 0,
         NEW e \in DOMAIN t
  PROVE  Resolved(u, e) = IF u[Resolved(t, e)].mounted = 0 THEN Resolved(t, e)
                          ELSE u[Resolved(t, e)].mounted
  <1> DEFINE L == Len(t)
             Agrees(x) == Resolved(u, x) = IF u[Resolved(t, x)].mounted = 0 THEN Resolved(t, x)
                                           ELSE u[Resolved(t, x)].mounted
             Lost == {m \in 0 .. L : m # L /\ ~ Agrees(L - m)}
  <1>1. L \in Nat /\ DOMAIN t = 1 .. L
    BY DEF Tree
  <1>2. \A x \in DOMAIN t : t[x].mounted = 0 \/ t[x].mounted \in x + 1 .. L
    BY DEF Tree, Mounts
  <1> HIDE DEF L
  <1>3. Lost = {}
    <2> SUFFICES ASSUME Lost # {} PROVE FALSE
      OBVIOUS
    <2>1. PICK m \in Lost : \A k \in Lost : m <= k
      <3>1. Lost \subseteq Nat
        OBVIOUS
      <3> QED  BY <3>1, NatMin
    <2> DEFINE x == L - m
    <2>2. x \in DOMAIN t /\ ~ Agrees(x) /\ m \in Nat
      BY <1>1
    <2> HIDE DEF Agrees, x
    <2>3. CASE t[x].mounted = 0
      <3>1. Resolved(t, x) = x
        BY <2>2, <2>3, ResolvedIs
      <3>2. Resolved(u, x) = IF u[x].mounted = 0 THEN x ELSE Resolved(u, u[x].mounted)
        BY <2>2, ResolvedIs
      <3>3. u[x].mounted # 0 => u[x].mounted \in DOMAIN u /\ u[u[x].mounted].mounted = 0
        BY <2>2, <2>3
      <3>4. u[x].mounted # 0 => Resolved(u, u[x].mounted) = u[x].mounted
        BY <3>3, ResolvedIs
      <3> QED  BY <2>2, <3>1, <3>2, <3>4 DEF Agrees
    <2>4. CASE t[x].mounted # 0
      <3> DEFINE y == t[x].mounted
                 k == L - y
      <3>1. y \in x + 1 .. L /\ y \in DOMAIN t /\ u[x].mounted = y
        BY <1>1, <1>2, <2>2, <2>4
      <3>2. Resolved(t, x) = Resolved(t, y) /\ Resolved(u, x) = Resolved(u, y)
        BY <2>2, <2>4, <3>1, ResolvedIs
      <3> HIDE DEF y
      <3>3. k \in 0 .. L /\ k # L /\ k < m /\ L - k = y
        <4>1. x = L - m /\ y \in x + 1 .. L /\ y \in 1 .. L
          BY <1>1, <3>1 DEF x
        <4> QED  BY <1>1, <2>2, <4>1
      <3> HIDE DEF k
      <3>4. ~ Agrees(y)
        BY <2>2, <3>2 DEF Agrees
      <3>5. k \in Lost
        BY <3>3, <3>4
      <3>6. m <= k
        BY <2>1, <3>5
      <3> QED  BY <1>1, <2>2, <3>3, <3>6
    <2> QED  BY <2>3, <2>4
  <1>4. L - e \in 0 .. L /\ L - e # L /\ L - (L - e) = e
    BY <1>1
  <1>5. Agrees(e)
    BY <1>3, <1>4
  <1> QED  BY <1>5

(* Of some entries one is the newest. *)
LEMMA NewestIs ==
  ASSUME NEW t, Tree(t), NEW es \in SUBSET DOMAIN t, es # {}
  PROVE  Newest(es) \in es /\ \A f \in es : f <= Newest(es)
  <1> DEFINE L == Len(t)
             Ages == {L - e : e \in es}
  <1>1. L \in Nat /\ DOMAIN t = 1 .. L
    BY DEF Tree
  <1>2. \A e \in es : L - e \in Nat /\ e \in Nat
    BY <1>1
  <1>3. PICK a \in Ages : \A b \in Ages : a <= b
    <2>1. Ages \subseteq Nat /\ Ages # {}
      BY <1>2
    <2> QED  BY <2>1, NatMin
  <1>4. PICK e \in es : a = L - e
    BY <1>3
  <1>5. ASSUME NEW f \in es PROVE f <= e
    <2>1. L - f \in Ages
      OBVIOUS
    <2>2. L - e <= L - f /\ e \in Nat /\ f \in Nat
      BY <1>2, <1>3, <1>4, <2>1
    <2> QED  BY <1>1, <2>2
  <1> QED  BY <1>5 DEF Newest

-----------------------------------------------------------------------------
(* What entries stand for: no two for the same thing. *)
LEMMA ThingApart ==
  ASSUME NEW t, Tree(t), NEW e \in DOMAIN t, NEW f \in DOMAIN t, ThingOf(t, e) = ThingOf(t, f)
  PROVE  e = f
  <1>1. /\ t[e].obj = t[f].obj
        /\ t[e].obj = None => e = f
        /\ t[e].obj # None => t[e].sb = t[f].sb
    BY DEF ThingOf
  <1> QED  BY <1>1 DEF Tree, Once

LEMMA ParentIs ==
  ASSUME NEW t, Tree(t), NEW e \in DOMAIN t
  PROVE  /\ t[e].parent \in DOMAIN t /\ t[e].sb \in DOMAIN t /\ e \in Nat /\ e \in 1 .. Len(t)
         /\ t[e].parent <= e /\ t[e].sb <= e /\ t[e].parent \in Nat /\ t[e].sb \in Nat
         /\ t[e].sb = t[t[e].parent].sb /\ (t[e].parent = e <=> t[e].sb = e)
  <1>1. /\ t[e].parent \in 1 .. e /\ t[e].sb \in 1 .. e /\ e \in 1 .. Len(t) /\ Len(t) \in Nat
        /\ DOMAIN t = 1 .. Len(t)
        /\ t[e].sb = t[t[e].parent].sb
        /\ t[e].parent = e <=> t[e].sb = e
    BY DEF Tree, Placed
  <1> QED  BY <1>1

(* Things are what mkdir and mount made, and all of each disk. *)
LEMMA ThingsAre ==
  ASSUME NEW t, Tree(t), NEW x
  PROVE  x \in Things(t) <=> \/ \E e \in DOMAIN t : t[e].obj = None /\ x = <<e, None>>
                             \/ \E s \in Disks(t), o \in Objs : x = <<s, o>>
  <1>1. ASSUME NEW e \in DOMAIN t, t[e].obj # None
        PROVE  t[e].sb \in Disks(t) /\ t[e].obj \in Objs /\ ThingOf(t, e) = <<t[e].sb, t[e].obj>>
    <2>1. t[e].sb \in DOMAIN t
      BY ParentIs
    <2>2. t[t[e].sb].sb = t[e].sb /\ t[t[e].sb].obj = RootObj
      BY <1>1 DEF Tree, Rooted
    <2>3. t[e] \in Nodes
      BY DEF Tree
    <2> QED  BY <1>1, <2>1, <2>2, <2>3 DEF Disks, Nodes, ThingOf
  <1>2. \A e \in DOMAIN t : t[e].obj = None => ThingOf(t, e) = <<e, None>>
    BY DEF ThingOf
  <1>3. x \in Things(t) <=> (\E e \in DOMAIN t : x = ThingOf(t, e)) \/ x \in Disks(t) \X Objs
    BY DEF Things
  <1> QED  BY <1>1, <1>2, <1>3

LEMMA EntryIsThing ==
  ASSUME NEW t, NEW e \in DOMAIN t
  PROVE  ThingOf(t, e) \in Things(t) /\ ThingOf(t, e)[2] = t[e].obj
  BY DEF Things, ThingOf

LEMMA KnownIs ==
  ASSUME NEW t, Tree(t), NEW d \in DOMAIN t, NEW n
  PROVE  Known(t, ThingOf(t, d), n) = Children(t, d, n)
  <1>1. \A f \in DOMAIN t : ThingOf(t, t[f].parent) = ThingOf(t, d) <=> t[f].parent = d
    BY ParentIs, ThingApart
  <1> QED  BY <1>1 DEF Known, Children

(* One more entry has a name in one directory, and hides what had it.      *)
LEMMA OneMoreName ==
  ASSUME NEW t, Tree(t), NEW u, Tree(u), NEW d \in DOMAIN t, NEW n \in Names,
         NEW m, m = Len(t) + 1, Len(u) = m, \A e \in DOMAIN t : u[e] = t[e],
         u[m].parent = d, u[m].name = n, u[m].mounted = 0
  PROVE  /\ \A e \in DOMAIN t : ThingOf(u, e) = ThingOf(t, e)
         /\ Disks(u) = Disks(t)
         /\ \A x \in Things(t) : UpOf(u, x) = UpOf(t, x)
         /\ \A x \in Things(t), k \in Names :
               NameOf(u, x, k) = IF x = ThingOf(t, d) /\ k = n THEN ThingOf(u, m)
                                 ELSE NameOf(t, x, k)
  <1>1. /\ DOMAIN t = 1 .. Len(t) /\ DOMAIN u = 1 .. m /\ Len(t) \in Nat /\ m \in Nat
        /\ m \in DOMAIN u /\ m \notin DOMAIN t /\ DOMAIN t \subseteq DOMAIN u
        /\ \A e \in DOMAIN u : e \in DOMAIN t \/ e = m
    BY DEF Tree
  <1>2. \A e \in DOMAIN t : ThingOf(u, e) = ThingOf(t, e)
    BY DEF ThingOf
  <1>3. Disks(u) = Disks(t)
    <2>1. u[m].sb # m
      BY <1>1, ParentIs
    <2> QED  BY <1>1, <2>1 DEF Disks
  <1>4. ASSUME NEW x \in Things(t)
        PROVE  UpOf(u, x) = UpOf(t, x)
    <2>1. CASE x[2] = None
      <3>1. x[1] \in DOMAIN t
        BY <2>1, ThingsAre, VfsAssumption
      <3>2. t[x[1]].parent \in DOMAIN t
        BY <3>1, ParentIs
      <3>3. u[x[1]].parent = t[x[1]].parent
        BY <3>1
      <3> QED  BY <1>2, <2>1, <3>2, <3>3 DEF UpOf
    <2>2. CASE x[2] # None
      BY <2>2 DEF UpOf
    <2> QED  BY <2>1, <2>2
  <1>5. ASSUME NEW x, NEW k \in Names
        PROVE  Known(u, x, k) = IF x = ThingOf(t, d) /\ k = n THEN Known(t, x, k) \cup {m}
                                ELSE Known(t, x, k)
    <2>1. \A f \in DOMAIN t : f \in Known(u, x, k) <=> f \in Known(t, x, k)
      <3>1. \A f \in DOMAIN t : /\ u[f].name = t[f].name /\ u[f].parent = t[f].parent
                                /\ ThingOf(u, t[f].parent) = ThingOf(t, t[f].parent)
        BY <1>2, ParentIs
      <3> QED  BY <1>1, <3>1 DEF Known
    <2>2. m \in Known(u, x, k) <=> x = ThingOf(t, d) /\ k = n
      BY <1>1, <1>2 DEF Known
    <2>3. Known(u, x, k) \subseteq DOMAIN t \cup {m} /\ Known(t, x, k) \subseteq DOMAIN t
      BY <1>1 DEF Known
    <2>4. CASE x = ThingOf(t, d) /\ k = n
      <3>1. Known(u, x, k) = Known(t, x, k) \cup {m}
        BY <2>1, <2>2, <2>3, <2>4
      <3> QED  BY <2>4, <3>1
    <2>5. CASE ~ (x = ThingOf(t, d) /\ k = n)
      <3>1. Known(u, x, k) = Known(t, x, k)
        BY <2>1, <2>2, <2>3, <2>5
      <3> QED  BY <2>5, <3>1
    <2> QED  BY <2>4, <2>5
  <1>6. ASSUME NEW x \in Things(t), NEW k \in Names
        PROVE  NameOf(u, x, k) = IF x = ThingOf(t, d) /\ k = n THEN ThingOf(u, m)
                                 ELSE NameOf(t, x, k)
    <2>1. CASE x = ThingOf(t, d) /\ k = n
      <3>1. Known(u, x, k) = Known(t, x, k) \cup {m} /\ Known(t, x, k) \subseteq DOMAIN t
        <4>1. Known(u, x, k) = Known(t, x, k) \cup {m}
          BY <1>5, <2>1
        <4> QED  BY <4>1 DEF Known
      <3>2. Newest(Known(u, x, k)) \in Known(u, x, k) /\ m <= Newest(Known(u, x, k))
        BY <1>1, <3>1, NewestIs
      <3>3. Newest(Known(u, x, k)) = m
        BY <1>1, <3>1, <3>2
      <3>4. Resolved(u, m) = m
        BY <1>1, ResolvedIs
      <3> QED  BY <2>1, <3>1, <3>3, <3>4 DEF NameOf
    <2>2. CASE ~ (x = ThingOf(t, d) /\ k = n)
      <3>1. Known(u, x, k) = Known(t, x, k)
        BY <1>5, <2>2
      <3>2. CASE Known(t, x, k) = {}
        BY <2>2, <3>1, <3>2 DEF NameOf
      <3>3. CASE Known(t, x, k) # {}
        <4> DEFINE f == Newest(Known(t, x, k))
        <4>1. f \in DOMAIN t
          BY <3>3, NewestIs DEF Known
        <4> HIDE DEF f
        <4>2. Resolved(t, f) \in DOMAIN t /\ t[Resolved(t, f)].mounted = 0
          BY <4>1, ResolvedIs
        <4>3. Resolved(u, f) = Resolved(t, f)
          BY <1>1, <4>1, <4>2, ResolvedGrows
        <4>4. ThingOf(u, Resolved(u, f)) = ThingOf(t, Resolved(t, f))
          BY <1>2, <4>2, <4>3
        <4> QED  BY <2>2, <3>1, <3>3, <4>4 DEF NameOf, f
      <3> QED  BY <3>2, <3>3
    <2> QED  BY <2>1, <2>2
  <1> QED  BY <1>2, <1>3, <1>4, <1>6

-----------------------------------------------------------------------------
(* Lookups make entries, and change nothing of what there is. *)
Learns(t, u) ==
    /\ Grows(t, u) /\ \A e \in DOMAIN t : u[e] = t[e]
    /\ Things(u) = Things(t)
    /\ \A x \in Things(t) : /\ UpOf(u, x) = UpOf(t, x)
                             /\ \A n \in Names : NameOf(u, x, n) = NameOf(t, x, n)

LEMMA LearnsOn ==
  ASSUME NEW t, NEW u, NEW v, t \in Seq(Nodes), Learns(t, u), Learns(u, v)
  PROVE  Learns(t, v)
  <1>1. Grows(t, v)
    BY GrowsOn DEF Learns
  <1>2. DOMAIN t \subseteq DOMAIN u
    <2>1. /\ DOMAIN t = 1 .. Len(t) /\ DOMAIN u = 1 .. Len(u) /\ Len(t) \in Nat /\ Len(u) \in Nat
          /\ Len(t) <= Len(u)
      BY DEF Learns, Grows, Tree
    <2> QED  BY <2>1
  <1> QED  BY <1>1, <1>2 DEF Learns

LEMMA LearnsNothing == ASSUME NEW t, Tree(t) PROVE Learns(t, t)
  BY GrowsStays DEF Learns

(* What a lookup comes to, and the walk of a path with it. *)
Reached(t, r) == Learns(t, r.tree) /\ (r.at \in DOMAIN r.tree \/ r.at \in {NOT_FOUND, FAULT})

(* What a name means in a directory. *)
Meaning(t, x, n) == IF n = "." THEN x ELSE IF n = ".." THEN UpOf(t, x) ELSE NameOf(t, x, n)
Means(t, r, x, n) ==
    r.at \in DOMAIN r.tree => ThingOf(r.tree, r.at) = Meaning(t, x, n)

(* What the disk has and the tree has not becomes a child. *)
LEMMA FatLookupIs ==
  ASSUME NEW t, Tree(t), NEW d \in DOMAIN t, NEW n \in Names, t[d].obj \in DirObjs,
         Children(t, d, n) = {}
  PROVE  Reached(t, fat_lookup(t, d, n)) /\ Means(t, fat_lookup(t, d, n), ThingOf(t, d), n)
  <1>0. n # "." /\ n # ".."
    BY VfsAssumption
  <1>1. CASE n \in DOMAIN Disk[t[d].obj]
    <2> DEFINE x == Entry(n, d, Disk[t[d].obj][n], t[d].sb)
               u == Append(t, x)
               m == Len(t) + 1
    <2>1. /\ Len(t) \in Nat /\ DOMAIN t = 1 .. Len(t) /\ t \in Seq(Nodes) /\ d \in Nat /\ d < m
          /\ t[d] \in Nodes
      BY DEF Tree
    <2>2. Disk[t[d].obj][n] \in Objs \ {RootObj}
      BY <1>1, VfsAssumption
    <2>3. t[d].sb \in 1 .. d
      BY DEF Tree, Placed
    <2>4. x \in Nodes
      BY <2>1, <2>2 DEF Entry, Nodes
    <2>5. /\ u \in Seq(Nodes) /\ Len(u) = m /\ u[m] = x
          /\ \A e \in DOMAIN t : u[e] = t[e]
      BY <2>1, <2>4
    <2>6. /\ u[m].mounted = 0 /\ u[m].parent = d /\ u[m].sb = t[d].sb
          /\ u[m].obj = Disk[t[d].obj][n] /\ u[m].name = n
      BY <2>5 DEF Entry
    <2>7. OnTheDisk(u[m], u[u[m].parent].obj)
      BY <1>1, <2>5, <2>6 DEF OnTheDisk
    <2>8. ASSUME NEW f \in DOMAIN t, t[f].obj = u[m].obj, t[f].sb = u[m].sb
          PROVE  FALSE
      <3>1. t[f].obj \in Objs \ {RootObj} /\ t[f].obj # None
        BY <2>2, <2>6, <2>8, VfsAssumption
      <3>2. t[f].parent # f /\ OnTheDisk(t[f], t[t[f].parent].obj)
        BY <3>1 DEF Tree, FromDisk
      <3> DEFINE b == t[f].parent
      <3>3. b \in DOMAIN t /\ t[b].sb = t[f].sb
        <4>1. b \in 1 .. f /\ t[f].sb = t[b].sb
          BY DEF Tree, Placed
        <4> QED  BY <2>1, <4>1
      <3>4. t[b].obj = t[d].obj /\ t[f].name = n
        <4> DEFINE a == t[b].obj
                   g == t[d].obj
        <4>1. /\ a \in DirObjs /\ g \in DirObjs
              /\ t[f].name \in DOMAIN Disk[a] /\ n \in DOMAIN Disk[g]
              /\ Disk[a][t[f].name] = Disk[g][n]
          BY <1>1, <2>6, <2>8, <3>2 DEF OnTheDisk
        <4> HIDE DEF a, g
        <4>2. a = g /\ t[f].name = n
          BY <4>1, VfsAssumption
        <4> QED  BY <4>2 DEF a, g
      <3>5. t[d].obj # None
        BY VfsAssumption DEF Objs
      <3>6. b = d
        <4>1. t[b].sb = t[d].sb
          BY <2>6, <2>8, <3>3
        <4> QED  BY <3>3, <3>4, <3>5, <4>1 DEF Tree, Once
      <3>7. f \in Children(t, d, n)
        BY <3>2, <3>4, <3>6 DEF Children
      <3> QED  BY <3>7
    <2>9. u[u[m].parent].sb = t[d].sb /\ ~ (u[m].parent = m) /\ ~ (u[m].sb = m)
      BY <2>1, <2>3, <2>5, <2>6
    <2> HIDE DEF u, x, m
    <2>10. Grows(t, u)
      <3>1. u[m].parent \in 1 .. m /\ u[m].sb \in 1 .. m
        <4>1. t[d].sb \in Nat /\ 1 <= t[d].sb /\ t[d].sb <= d /\ 1 <= d /\ m \in Nat
          BY <2>1, <2>3 DEF m
        <4>2. u[m].parent = d /\ u[m].sb = t[d].sb
          BY <2>6
        <4> QED  BY <2>1, <4>1, <4>2
      <3>2. m = Len(t) + 1
        BY DEF m
      <3> QED  BY <2>5, <2>6, <2>7, <2>8, <2>9, <3>1, <3>2, OneMore
    <2>11. fat_lookup(t, d, n) = [tree |-> u, at |-> m]
      BY <1>1 DEF fat_lookup, Result, u, x, m
    <2>12. m \in DOMAIN u /\ m = Len(t) + 1
      BY <2>1, <2>5 DEF m
    <2>13. u[m].obj # None /\ t[d].obj # None
      BY <2>2, <2>6, VfsAssumption DEF Objs
    <2>14. NameOf(t, ThingOf(t, d), n) = ThingOf(u, m)
      <3>1. Known(t, ThingOf(t, d), n) = {}
        BY KnownIs
      <3>2. OnDisk(ThingOf(t, d), n) = <<t[d].sb, Disk[t[d].obj][n]>>
        BY <1>1, <2>13 DEF OnDisk, ThingOf
      <3>3. ThingOf(u, m) = <<t[d].sb, Disk[t[d].obj][n]>>
        BY <2>6, <2>13 DEF ThingOf
      <3> QED  BY <3>1, <3>2, <3>3 DEF NameOf
    <2>15. /\ Tree(u) /\ Disks(u) = Disks(t)
           /\ \A z \in Things(t) : UpOf(u, z) = UpOf(t, z)
           /\ \A z \in Things(t), k \in Names :
                 NameOf(u, z, k) = IF z = ThingOf(t, d) /\ k = n THEN ThingOf(u, m)
                                   ELSE NameOf(t, z, k)
      <3>1. Tree(u)
        BY <2>10 DEF Grows
      <3>2. u[m].name = n /\ u[m].parent = d /\ u[m].mounted = 0
        BY <2>6
      <3> QED  BY <2>5, <2>12, <3>1, <3>2, OneMoreName
    <2>16. Things(u) = Things(t)
      <3>1. \A e \in DOMAIN u : (e \in DOMAIN t /\ u[e] = t[e]) \/ e = m
        BY <2>1, <2>5, <2>12
      <3>2. DOMAIN t \subseteq DOMAIN u
        BY <2>1, <2>5, <2>12
      <3>3. ASSUME NEW z PROVE z \in Things(u) <=> z \in Things(t)
        <4>1. (\E e \in DOMAIN u : u[e].obj = None /\ z = <<e, None>>)
              <=> \E e \in DOMAIN t : t[e].obj = None /\ z = <<e, None>>
          BY <2>5, <2>13, <3>1, <3>2
        <4> QED  BY <2>15, <4>1, ThingsAre
      <3> QED  BY <3>3
    <2>17. Learns(t, u)
      <3>1. \A z \in Things(t), k \in Names : NameOf(u, z, k) = NameOf(t, z, k)
        BY <2>14, <2>15
      <3> QED  BY <2>5, <2>10, <2>15, <2>16, <3>1 DEF Learns
    <2> QED  BY <1>0, <2>11, <2>12, <2>14, <2>17 DEF Reached, Means, Meaning
  <1>2. CASE n \notin DOMAIN Disk[t[d].obj]
    <2>1. fat_lookup(t, d, n) = [tree |-> t, at |-> NOT_FOUND]
      BY <1>2 DEF fat_lookup, Result
    <2>2. NOT_FOUND \notin DOMAIN t
      BY DEF Tree, NOT_FOUND
    <2> QED  BY <2>1, <2>2, LearnsNothing DEF Reached, Means
  <1> QED  BY <1>1, <1>2

(* The directory of the disk above one, or above a file. *)
LEMMA AboveIs ==
  ASSUME NEW t, Tree(t), NEW d \in DOMAIN t
  PROVE  ThingOf(t, t[d].parent) = UpOf(t, ThingOf(t, d))
  <1> DEFINE b == t[d].parent
  <1>1. b \in DOMAIN t /\ t[b].sb = t[d].sb
    BY ParentIs
  <1>2. CASE t[d].obj = None
    BY <1>2 DEF UpOf, ThingOf
  <1>3. CASE t[d].obj # None /\ t[d].obj = RootObj
    <2>1. ~ OnTheDisk(t[d], t[b].obj)
      BY <1>3, VfsAssumption DEF OnTheDisk
    <2>2. b = d
      BY <1>3, <2>1 DEF Tree, FromDisk
    <2>3. UpOf(t, ThingOf(t, d)) = <<t[d].sb, Above(t[d].obj)>>
      BY <1>3 DEF UpOf, ThingOf
    <2> QED  BY <1>3, <2>2, <2>3 DEF Above, ThingOf
  <1>4. CASE t[d].obj # None /\ t[d].obj # RootObj
    <2>1. OnTheDisk(t[d], t[b].obj)
      BY <1>4 DEF Tree, FromDisk
    <2>2. /\ t[b].obj \in DirObjs /\ t[d].name \in DOMAIN Disk[t[b].obj]
          /\ t[d].obj = Disk[t[b].obj][t[d].name] /\ t[b].obj # None
      BY <2>1, VfsAssumption DEF OnTheDisk, Objs
    <2> DEFINE o == t[d].obj
               c == t[b].obj
               k == t[d].name
    <2>3. \A a \in DirObjs : (\E n \in DOMAIN Disk[a] : Disk[a][n] = o) => a = c
      <3> SUFFICES ASSUME NEW a \in DirObjs, NEW n \in DOMAIN Disk[a], Disk[a][n] = o
                   PROVE  a = c
        OBVIOUS
      <3>1. c \in DirObjs /\ k \in DOMAIN Disk[c] /\ Disk[a][n] = Disk[c][k]
        BY <2>2
      <3> HIDE DEF c, k, o
      <3> QED  BY <3>1, VfsAssumption
    <2>4. \E n \in DOMAIN Disk[c] : Disk[c][n] = o
      BY <2>2
    <2>5. Above(o) = c
      <3>1. o # RootObj /\ c \in DirObjs
        BY <1>4, <2>2
      <3> HIDE DEF o, c
      <3> QED  BY <2>3, <2>4, <3>1 DEF Above
    <2>6. UpOf(t, ThingOf(t, d)) = <<t[d].sb, Above(t[d].obj)>>
      BY <1>4 DEF UpOf, ThingOf
    <2>7. ThingOf(t, b) = <<t[b].sb, t[b].obj>>
      BY <2>2 DEF ThingOf
    <2> QED  BY <1>1, <2>5, <2>6, <2>7
  <1> QED  BY <1>2, <1>3, <1>4

LEMMA LookupIs ==
  ASSUME NEW t, Tree(t), NEW d \in DOMAIN t, NEW n \in Names \cup {".", ".."}
  PROVE  Reached(t, lookup(t, d, n)) /\ Means(t, lookup(t, d, n), ThingOf(t, d), n)
  <1>1. CASE n = "."
    <2>1. lookup(t, d, n) = [tree |-> t, at |-> d]
      <3>1. n # ".." /\ n \notin Names
        BY <1>1, VfsAssumption
      <3> QED  BY <1>1, <3>1 DEF lookup, Result
    <2> QED  BY <1>1, <2>1, LearnsNothing DEF Reached, Means, Meaning
  <1>2. CASE n = ".."
    <2>1. t[d].parent \in DOMAIN t
      BY ParentIs
    <2>2. lookup(t, d, n) = [tree |-> t, at |-> t[d].parent]
      <3>1. n # "." /\ n \notin Names
        BY <1>2, VfsAssumption
      <3> QED  BY <1>2, <3>1 DEF lookup, Result
    <2>3. ThingOf(t, t[d].parent) = Meaning(t, ThingOf(t, d), n)
      BY <1>2, AboveIs DEF Meaning
    <2> QED  BY <2>1, <2>2, <2>3, LearnsNothing DEF Reached, Means
  <1>3. CASE n \in Names
    <2>0. n # "." /\ n # ".."
      BY <1>3, VfsAssumption
    <2>1. CASE Children(t, d, n) # {}
      <3>1. Newest(Children(t, d, n)) \in DOMAIN t
        BY <2>1, NewestIs DEF Children
      <3>2. Resolved(t, Newest(Children(t, d, n))) \in DOMAIN t
        BY <3>1, ResolvedIs
      <3>3. lookup(t, d, n) = [tree |-> t, at |-> Resolved(t, Newest(Children(t, d, n)))]
        BY <1>3, <2>0, <2>1 DEF lookup, Result
      <3>4. ThingOf(t, Resolved(t, Newest(Children(t, d, n)))) = NameOf(t, ThingOf(t, d), n)
        BY <2>1, KnownIs DEF NameOf
      <3> QED  BY <2>0, <3>2, <3>3, <3>4, LearnsNothing DEF Reached, Means, Meaning
    <2>2. CASE Children(t, d, n) = {} /\ t[d].obj \in DirObjs
      <3>1. lookup(t, d, n) = fat_lookup(t, d, n)
        BY <1>3, <2>0, <2>2 DEF lookup
      <3> QED  BY <1>3, <2>2, <3>1, FatLookupIs
    <2>3. CASE Children(t, d, n) = {} /\ t[d].obj \notin DirObjs
      <3>1. lookup(t, d, n) = [tree |-> t, at |-> FAULT]
        BY <1>3, <2>0, <2>3 DEF lookup, Result
      <3>2. FAULT \notin DOMAIN t
        BY DEF Tree, FAULT
      <3> QED  BY <3>1, <3>2, LearnsNothing DEF Reached, Means
    <2> QED  BY <2>1, <2>2, <2>3
  <1> QED  BY <1>1, <1>2, <1>3

(* A walk is a lookup after another as long as they find something. *)
Onward(r, n) == IF r.at <= 0 THEN r ELSE lookup(r.tree, r.at, n)

LEMMA OnwardIs ==
  ASSUME NEW t, Tree(t), NEW r, Reached(t, r), NEW n \in Names \cup {".", ".."}
  PROVE  LET s == Onward(r, n) IN
         /\ Reached(t, s)
         /\ s.at \in DOMAIN s.tree =>
               /\ r.at \in DOMAIN r.tree /\ ThingOf(r.tree, r.at) \in Things(t)
               /\ ThingOf(s.tree, s.at) = Meaning(t, ThingOf(r.tree, r.at), n)
  <1> DEFINE s == Onward(r, n)
  <1>0. \A v : Tree(v) => \A e \in DOMAIN v : ~ (e <= 0)
    BY DEF Tree
  <1>1. CASE r.at <= 0
    <2>1. Tree(r.tree)
      BY DEF Reached, Learns, Grows
    <2>2. r.at \notin DOMAIN r.tree
      BY <1>0, <1>1, <2>1
    <2> QED  BY <1>1, <2>2 DEF Onward
  <1>2. CASE ~ (r.at <= 0)
    <2>1. r.at \in DOMAIN r.tree /\ Tree(r.tree) /\ Learns(t, r.tree)
      BY <1>2 DEF Reached, Learns, Grows, NOT_FOUND, FAULT
    <2>2. s = lookup(r.tree, r.at, n)
      BY <1>2 DEF Onward
    <2>3. Reached(r.tree, s) /\ Means(r.tree, s, ThingOf(r.tree, r.at), n)
      BY <2>1, <2>2, LookupIs
    <2> HIDE DEF s
    <2>4. Reached(t, s)
      BY <2>1, <2>3, LearnsOn DEF Reached, Tree
    <2>5. ThingOf(r.tree, r.at) \in Things(t)
      BY <2>1, EntryIsThing DEF Learns
    <2>6. Meaning(r.tree, ThingOf(r.tree, r.at), n) = Meaning(t, ThingOf(r.tree, r.at), n)
      BY <2>1, <2>5 DEF Meaning, Learns
    <2> QED  BY <2>1, <2>3, <2>4, <2>5, <2>6 DEF Means, s
  <1> QED  BY <1>1, <1>2

(* The results along a path. *)
Along(t, base, path, w) ==
    /\ Walk(t, base, path) = w[Len(path)] /\ w[0] = Result(t, base)
    /\ \A i \in 1 .. Len(path) : w[i] = Onward(w[i - 1], path[i])
    /\ \A i \in 0 .. Len(path) : Reached(t, w[i])

LEMMA WalkSteps ==
  ASSUME NEW t, Tree(t), NEW base \in DOMAIN t, NEW path \in Seq(Names \cup {".", ".."})
  PROVE  \E w : Along(t, base, path, w)
  <1> DEFINE L == Len(path)
             Start == Result(t, base)
             Steps(g, m) == g = [i \in 0 .. m |-> IF i = 0 THEN Start ELSE Onward(g[i - 1], path[i])]
             Missing == {m \in 0 .. L : ~ \E g : Steps(g, m)}
             w[i \in 0 .. L] ==
                 IF i = 0 THEN Result(t, base)
                 ELSE IF w[i - 1].at <= 0 THEN w[i - 1]
                 ELSE lookup(w[i - 1].tree, w[i - 1].at, path[i])
  <1>1. L \in Nat /\ \A i \in 1 .. L : path[i] \in Names \cup {".", ".."}
    OBVIOUS
  <1>2. Walk(t, base, path) = w[L]
    BY DEF Walk
  <1> HIDE DEF L, Start
  <1>3. Missing = {}
    <2> SUFFICES ASSUME Missing # {} PROVE FALSE
      OBVIOUS
    <2>1. PICK m \in Missing : \A k \in Missing : m <= k
      <3>1. Missing \subseteq Nat
        OBVIOUS
      <3> QED  BY <3>1, NatMin
    <2>2. m \in Nat /\ m <= L /\ ~ \E g : Steps(g, m)
      BY <1>1
    <2>3. CASE m = 0
      <3> DEFINE g == [i \in 0 .. 0 |-> Start]
      <3>1. g = [i \in 0 .. 0 |-> IF i = 0 THEN Start ELSE Onward(g[i - 1], path[i])]
        OBVIOUS
      <3> HIDE DEF g
      <3> QED  BY <2>2, <2>3, <3>1
    <2>4. CASE m # 0
      <3>1. m - 1 \in 0 .. L /\ ~ (m <= m - 1)
        BY <1>1, <2>2, <2>4
      <3>2. PICK g : Steps(g, m - 1)
        BY <2>1, <3>1
      <3> DEFINE h == [i \in 0 .. m |-> IF i = m THEN Onward(g[m - 1], path[m]) ELSE g[i]]
      <3>3. \A i \in 0 .. m - 1 : g[i] = IF i = 0 THEN Start ELSE Onward(g[i - 1], path[i])
        BY <3>2
      <3>4. \A i \in 0 .. m - 1 : h[i] = g[i] /\ (i # 0 => h[i - 1] = g[i - 1])
        BY <2>2
      <3>5. h[m] = Onward(h[m - 1], path[m])
        BY <2>2, <2>4
      <3>6. h = [i \in 0 .. m |-> h[i]]
        OBVIOUS
      <3> HIDE DEF h
      <3>7. \A i \in 0 .. m : h[i] = IF i = 0 THEN Start ELSE Onward(h[i - 1], path[i])
        <4> TAKE i \in 0 .. m
        <4>1. CASE i = m
          BY <2>4, <3>5, <4>1
        <4>2. CASE i # m
          <5>1. i \in 0 .. m - 1
            BY <2>2, <4>2
          <5> QED  BY <3>3, <3>4, <5>1
        <4> QED  BY <4>1, <4>2
      <3>8. h = [i \in 0 .. m |-> IF i = 0 THEN Start ELSE Onward(h[i - 1], path[i])]
        BY <3>6, <3>7
      <3> QED  BY <2>2, <3>8
    <2> QED  BY <2>3, <2>4
  <1>4. PICK g : g = [i \in 0 .. L |-> IF i = 0 THEN Start ELSE Onward(g[i - 1], path[i])]
    <2>1. L \in 0 .. L
      BY <1>1
    <2>2. L \notin Missing
      BY <1>3
    <2>3. PICK g : Steps(g, L)
      BY <2>1, <2>2
    <2>4. g = [i \in 0 .. L |-> IF i = 0 THEN Start ELSE Onward(g[i - 1], path[i])]
      BY <2>3
    <2> QED  BY <2>4
  <1>5. w = [i \in 0 .. L |-> IF i = 0 THEN Start ELSE Onward(w[i - 1], path[i])]
    BY <1>4 DEF Onward, Start
  <1> HIDE DEF w
  <1> DEFINE Lost == {i \in 0 .. L : ~ Reached(t, w[i])}
  <1>6. Lost = {}
    <2> SUFFICES ASSUME Lost # {} PROVE FALSE
      OBVIOUS
    <2>1. PICK i \in Lost : \A k \in Lost : i <= k
      <3>1. Lost \subseteq Nat
        OBVIOUS
      <3> QED  BY <3>1, NatMin
    <2>2. i \in 0 .. L /\ ~ Reached(t, w[i])
      OBVIOUS
    <2>3. CASE i = 0
      <3>1. w[i] = Start
        BY <1>5, <2>2, <2>3
      <3> QED  BY <2>2, <3>1, LearnsNothing DEF Start, Result, Reached
    <2>4. CASE i # 0
      <3>1. i - 1 \in 0 .. L /\ ~ (i <= i - 1) /\ i \in 1 .. L
        BY <1>1, <2>2, <2>4
      <3>2. Reached(t, w[i - 1])
        BY <2>1, <3>1
      <3>3. w[i] = Onward(w[i - 1], path[i])
        BY <1>5, <2>2, <2>4
      <3> QED  BY <1>1, <2>2, <3>1, <3>2, <3>3, OnwardIs
    <2> QED  BY <2>3, <2>4
  <1>7. w[0] = Result(t, base) /\ \A i \in 1 .. L : w[i] = Onward(w[i - 1], path[i])
    <2>1. 0 \in 0 .. L /\ \A i \in 1 .. L : i \in 0 .. L /\ i # 0
      BY <1>1
    <2> QED  BY <1>5, <2>1 DEF Start
  <1>8. \A i \in 0 .. L : Reached(t, w[i])
    BY <1>6
  <1> QED  BY <1>2, <1>7, <1>8 DEF L, Along


LEMMA WalkIs ==
  ASSUME NEW t, Tree(t), NEW base \in DOMAIN t, NEW path \in Seq(Names \cup {".", ".."})
  PROVE  Reached(t, Walk(t, base, path))
  <1>1. Len(path) \in 0 .. Len(path)
    OBVIOUS
  <1>2. PICK w : Along(t, base, path, w)
    BY WalkSteps
  <1> QED  BY <1>1, <1>2 DEF Along

(* The things along a path that ends somewhere: each is what the name of   *)
(* the next one is looked up in.                                           *)
LEMMA WalkThings ==
  ASSUME NEW t, Tree(t), NEW base \in DOMAIN t, NEW path \in Seq(Names \cup {".", ".."}),
         NEW r, r = Walk(t, base, path), r.at \in DOMAIN r.tree
  PROVE  \E g : /\ g[0] = ThingOf(t, base) /\ g[Len(path)] = ThingOf(r.tree, r.at)
                /\ \A i \in 0 .. Len(path) : g[i] \in Things(t)
                /\ \A i \in 1 .. Len(path) : g[i] = Meaning(t, g[i - 1], path[i])
  <1> DEFINE L == Len(path)
  <1>1. L \in Nat /\ \A i \in 1 .. L : path[i] \in Names \cup {".", ".."}
    OBVIOUS
  <1>2. PICK w : /\ r = w[L] /\ w[0] = Result(t, base)
                 /\ \A i \in 1 .. L : w[i] = Onward(w[i - 1], path[i])
                 /\ \A i \in 0 .. L : Reached(t, w[i])
    <2>1. PICK w : Along(t, base, path, w)
      BY WalkSteps
    <2> QED  BY <2>1 DEF Along
  <1> HIDE DEF L
  <1>3. ASSUME NEW i \in 1 .. L, w[i].at \in DOMAIN w[i].tree
        PROVE  /\ w[i - 1].at \in DOMAIN w[i - 1].tree
               /\ ThingOf(w[i].tree, w[i].at) = Meaning(t, ThingOf(w[i - 1].tree, w[i - 1].at), path[i])
    <2>1. i - 1 \in 0 .. L /\ Reached(t, w[i - 1]) /\ w[i] = Onward(w[i - 1], path[i])
      BY <1>1, <1>2
    <2> QED  BY <1>1, <1>3, <2>1, OnwardIs
  <1> DEFINE Lost == {k \in 0 .. L : w[L - k].at \notin DOMAIN w[L - k].tree}
  <1>4. Lost = {}
    <2> SUFFICES ASSUME Lost # {} PROVE FALSE
      OBVIOUS
    <2>1. PICK m \in Lost : \A k \in Lost : m <= k
      <3>1. Lost \subseteq Nat
        OBVIOUS
      <3> QED  BY <3>1, NatMin
    <2>2. m \in 0 .. L /\ w[L - m].at \notin DOMAIN w[L - m].tree
      OBVIOUS
    <2>3. m # 0
      <3>1. L - 0 = L
        BY <1>1
      <3> QED  BY <1>2, <2>2, <3>1
    <2>4. m - 1 \in 0 .. L /\ ~ (m <= m - 1) /\ L - (m - 1) \in 1 .. L /\ L - (m - 1) - 1 = L - m
      BY <1>1, <2>2, <2>3
    <2>5. w[L - (m - 1)].at \in DOMAIN w[L - (m - 1)].tree
      BY <2>1, <2>4
    <2> QED  BY <1>3, <2>2, <2>4, <2>5
  <1>5. \A i \in 0 .. L : w[i].at \in DOMAIN w[i].tree
    <2> TAKE i \in 0 .. L
    <2>1. L - i \in 0 .. L /\ L - (L - i) = i
      BY <1>1
    <2> QED  BY <1>4, <2>1
  <1> DEFINE g == [i \in 0 .. L |-> ThingOf(w[i].tree, w[i].at)]
  <1>6. /\ g[0] = ThingOf(t, base) /\ g[L] = ThingOf(r.tree, r.at)
    BY <1>1, <1>2 DEF Result
  <1>7. \A i \in 0 .. L : g[i] \in Things(t)
    BY <1>2, <1>5, EntryIsThing DEF Reached, Learns
  <1>8. \A i \in 1 .. L : g[i] = Meaning(t, g[i - 1], path[i])
    <2> TAKE i \in 1 .. L
    <2>1. i \in 0 .. L /\ i - 1 \in 0 .. L
      BY <1>1
    <2> QED  BY <1>3, <1>5, <2>1
  <1> QED  BY <1>6, <1>7, <1>8 DEF L

-----------------------------------------------------------------------------
(* What a call finds: a larger tree, and an entry of it. *)
LEMMA FoundIs ==
  ASSUME NEW t, Tree(t), NEW base \in DOMAIN t, NEW path \in Seq(Names \cup {".", ".."})
  PROVE  LET w == Walk(t, base, path) IN
         /\ Grows(t, w.tree) /\ Tree(w.tree)
         /\ FoundDir(w) => w.at \in DOMAIN w.tree /\ IsDir(w.tree, w.at)
  BY WalkIs DEF Reached, Learns, Found, FoundDir, NOT_FOUND, FAULT, Grows

LEMMA NameiIs ==
  ASSUME NEW t, Tree(t), NEW p \in Procs, root[p] \in DOMAIN t, pwd[p] \in DOMAIN t,
         NEW path \in Paths \cup Devs
  PROVE  LET w == namei(p, t, path) IN
         /\ Grows(t, w.tree) /\ Tree(w.tree)
         /\ FoundDir(w) => w.at \in DOMAIN w.tree /\ IsDir(w.tree, w.at)
  <1>1. path.names \in Seq(Names \cup {".", ".."})
    BY VfsAssumption
  <1> QED  BY <1>1, FoundIs DEF namei

(* Processes stay at their directories when the tree grows. *)
LEMMA PlacesStay ==
  ASSUME IInv, Grows(tree, tree')
  PROVE  /\ Tree(tree')
         /\ root \in [Procs -> Entries'] /\ pwd \in [Procs -> Entries']
         /\ \A p \in Procs : IsDir(tree', root[p]) /\ IsDir(tree', pwd[p])
  <1>1. \A e \in Entries : e \in Entries' /\ tree'[e].obj = tree[e].obj
    BY DEF IInv, Grows, Tree, Entries
  <1>2. \A p \in Procs : root[p] \in Entries /\ pwd[p] \in Entries
    BY DEF IInv
  <1> QED  BY <1>1, <1>2 DEF IInv, IsDir, Grows

(* sys_mkdir: an entry that no disk has. *)
LEMMA MkdirIs ==
  ASSUME NEW t, Tree(t), NEW d \in DOMAIN t, NEW n \in Names
  PROVE  Grows(t, Append(t, Entry(n, d, None, t[d].sb)))
  <1> DEFINE x == Entry(n, d, None, t[d].sb)
             u == Append(t, x)
             m == Len(t) + 1
  <1>1. /\ Len(t) \in Nat /\ DOMAIN t = 1 .. Len(t) /\ t \in Seq(Nodes) /\ d \in Nat /\ d < m
        /\ 1 <= d /\ t[d] \in Nodes
    BY DEF Tree
  <1>2. t[d].sb \in Nat /\ 1 <= t[d].sb /\ t[d].sb <= d
    BY <1>1 DEF Tree, Placed
  <1>3. x \in Nodes
    BY <1>1 DEF Entry, Nodes
  <1>4. /\ u \in Seq(Nodes) /\ Len(u) = m /\ u[m] = x
        /\ \A e \in DOMAIN t : u[e] = t[e]
    BY <1>1, <1>3
  <1>5. /\ u[m].mounted = 0 /\ u[m].parent = d /\ u[m].sb = t[d].sb /\ u[m].obj = None
    BY <1>4 DEF Entry
  <1>6. u[u[m].parent].sb = t[d].sb
    BY <1>4, <1>5
  <1>7. u[m].parent \in 1 .. m /\ u[m].sb \in 1 .. m /\ u[m].parent # m /\ u[m].sb # m
    BY <1>1, <1>2, <1>5
  <1>8. m = Len(t) + 1
    OBVIOUS
  <1> HIDE DEF u, x, m
  <1>9. Grows(t, u)
    BY <1>4, <1>5, <1>6, <1>7, <1>8, OneMore
  <1> QED  BY <1>9 DEF u, x

(* sys_mount: a root that nothing else of its disk is there with. *)
LEMMA CoversIs ==
  ASSUME NEW t, Tree(t), NEW d \in DOMAIN t, NEW obj \in {RootObj, None}
  PROVE  Grows(t, Covers(t, d, obj))
  <1> DEFINE m == Len(t) + 1
             x == Entry("/", m, obj, m)
             s == [t EXCEPT ![d].mounted = m]
             u == Append(s, x)
  <1>1. /\ Len(t) \in Nat /\ DOMAIN t = 1 .. Len(t) /\ t \in Seq(Nodes) /\ m \in Nat
        /\ t[d] \in Nodes
    BY DEF Tree
  <1>2. x \in Nodes
    BY <1>1, VfsAssumption DEF Entry, Nodes, Objs
  <1>3. /\ s \in Seq(Nodes) /\ Len(s) = Len(t)
        /\ \A e \in DOMAIN t : s[e] = IF e = d THEN [t[d] EXCEPT !.mounted = m] ELSE t[e]
    <2>1. [t[d] EXCEPT !.mounted = m] \in Nodes
      BY <1>1 DEF Nodes
    <2>2. s = [t EXCEPT ![d] = [t[d] EXCEPT !.mounted = m]]
      OBVIOUS
    <2> QED  BY <1>1, <2>1, <2>2
  <1>4. /\ u \in Seq(Nodes) /\ Len(u) = m /\ u[m] = x
        /\ \A e \in DOMAIN t : u[e] = s[e]
    BY <1>1, <1>2, <1>3
  <1>5. ASSUME NEW e \in DOMAIN t
        PROVE  /\ u[e].name = t[e].name /\ u[e].parent = t[e].parent
               /\ u[e].obj = t[e].obj /\ u[e].sb = t[e].sb
               /\ u[e].mounted = t[e].mounted \/ u[e].mounted = m
    <2>1. u[e] = IF e = d THEN [t[d] EXCEPT !.mounted = m] ELSE t[e]
      BY <1>3, <1>4
    <2>2. CASE e = d
      BY <1>1, <2>1, <2>2 DEF Nodes
    <2>3. CASE e # d
      BY <2>1, <2>3
    <2> QED  BY <2>2, <2>3
  <1>6. /\ u[m].mounted = 0 /\ u[m].parent = m /\ u[m].sb = m /\ u[m].obj = obj
    BY <1>4 DEF Entry
  <1>7. ASSUME NEW f \in DOMAIN t PROVE t[f].sb # m
    <2>1. t[f].sb \in 1 .. f /\ f \in 1 .. Len(t)
      BY <1>1 DEF Tree, Placed
    <2> QED  BY <1>1, <2>1
  <1>8. m = Len(t) + 1 /\ m \in 1 .. m
    BY <1>1
  <1>9. u[m].obj # None => u[m].obj = RootObj
    BY <1>6
  <1>10. Covers(t, d, obj) = u
    BY DEF Covers
  <1> HIDE DEF u, s, x, m
  <1>11. Grows(t, u)
    BY <1>4, <1>5, <1>6, <1>7, <1>8, <1>9, OneMore
  <1> QED  BY <1>10, <1>11

-----------------------------------------------------------------------------
(* Each call keeps the tree. *)
LEMMA StatInv ==
  ASSUME IInv, NEW p \in Procs, NEW path \in Paths, sys_stat(p, path)
  PROVE  IInv'
  <1>1. Grows(tree, namei(p, tree, path).tree)
    BY NameiIs DEF IInv, Entries
  <1>2. tree' = namei(p, tree, path).tree /\ root' = root /\ pwd' = pwd
    BY DEF sys_stat
  <1> QED  BY <1>1, <1>2, PlacesStay DEF IInv

(* sys_chdir and sys_chroot: one process is elsewhere, at a directory. *)
LEMMA Moved ==
  ASSUME IInv, NEW p \in Procs, NEW path \in Paths,
         LET w == namei(p, tree, path) IN
         /\ FoundDir(w)
         /\ tree' = w.tree
         /\ \/ pwd' = [pwd EXCEPT ![p] = w.at] /\ root' = root
            \/ root' = [root EXCEPT ![p] = w.at] /\ pwd' = pwd
  PROVE  IInv'
  <1> DEFINE w == namei(p, tree, path)
  <1>1. /\ Grows(tree, w.tree) /\ tree' = w.tree
        /\ w.at \in Entries' /\ IsDir(tree', w.at)
    BY NameiIs DEF IInv, Entries
  <1>2. /\ Tree(tree')
        /\ root \in [Procs -> Entries'] /\ pwd \in [Procs -> Entries']
        /\ \A q \in Procs : IsDir(tree', root[q]) /\ IsDir(tree', pwd[q])
    BY <1>1, PlacesStay
  <1>3. \/ pwd' = [pwd EXCEPT ![p] = w.at] /\ root' = root
        \/ root' = [root EXCEPT ![p] = w.at] /\ pwd' = pwd
    OBVIOUS
  <1> HIDE DEF w
  <1>4. root' \in [Procs -> Entries'] /\ pwd' \in [Procs -> Entries']
    BY <1>1, <1>2, <1>3
  <1>5. \A q \in Procs : IsDir(tree', root'[q]) /\ IsDir(tree', pwd'[q])
    <2> TAKE q \in Procs
    <2>1. root'[q] \in {root[q], w.at} /\ pwd'[q] \in {pwd[q], w.at}
      BY <1>2, <1>3
    <2> QED  BY <1>1, <1>2, <2>1
  <1> QED  BY <1>2, <1>4, <1>5 DEF IInv

LEMMA ForkInv ==
  ASSUME IInv, NEW p \in Procs, NEW q \in Procs, sys_fork(p, q)
  PROVE  IInv'
  <1>1. /\ tree' = tree /\ Entries' = Entries
        /\ root' = [root EXCEPT ![q] = root[p]] /\ pwd' = [pwd EXCEPT ![q] = pwd[p]]
    BY DEF sys_fork, Entries
  <1>2. /\ root \in [Procs -> Entries] /\ pwd \in [Procs -> Entries] /\ Tree(tree)
        /\ \A z \in Procs : IsDir(tree, root[z]) /\ IsDir(tree, pwd[z])
    BY DEF IInv
  <1>3. root' \in [Procs -> Entries'] /\ pwd' \in [Procs -> Entries']
    BY <1>1, <1>2
  <1>4. \A z \in Procs : IsDir(tree, root'[z]) /\ IsDir(tree, pwd'[z])
    <2> TAKE z \in Procs
    <2>1. root'[z] = root[IF z = q THEN p ELSE z] /\ pwd'[z] = pwd[IF z = q THEN p ELSE z]
      BY <1>1, <1>2
    <2> QED  BY <1>2, <2>1
  <1> QED  BY <1>1, <1>2, <1>3, <1>4 DEF IInv

LEMMA MkdirInv ==
  ASSUME IInv, NEW p \in Procs, NEW path \in Paths, NEW n \in Names, sys_mkdir(p, path, n)
  PROVE  IInv'
  <1> DEFINE w == Walk(tree, root[p], path.names)
  <1>1. Grows(tree, w.tree) /\ Tree(w.tree) /\ w.at \in DOMAIN w.tree
    <2>1. path.names \in Seq(Names \cup {".", ".."})
      BY VfsAssumption
    <2>2. FoundDir(w)
      BY DEF sys_mkdir
    <2> QED  BY <2>1, <2>2, FoundIs DEF IInv, Entries
  <1>2. tree' = Append(w.tree, Entry(n, w.at, None, w.tree[w.at].sb)) /\ root' = root /\ pwd' = pwd
    BY DEF sys_mkdir
  <1> HIDE DEF w
  <1>3. Grows(w.tree, tree')
    BY <1>1, <1>2, MkdirIs
  <1>4. Grows(tree, tree')
    BY <1>1, <1>3, GrowsOn DEF IInv, Tree
  <1> QED  BY <1>2, <1>4, PlacesStay DEF IInv

LEMMA MountInv ==
  ASSUME IInv, NEW p \in Procs, NEW dev \in Devs, NEW path \in Paths,
         NEW obj \in {RootObj, None}, sys_mount(p, dev, path, obj)
  PROVE  IInv'
  <1> DEFINE v == namei(p, tree, dev)
             w == namei(p, v.tree, path)
  <1>1. /\ tree \in Seq(Nodes) /\ Tree(tree) /\ root[p] \in DOMAIN tree /\ pwd[p] \in DOMAIN tree
    BY DEF IInv, Entries, Tree
  <1>2. Grows(tree, v.tree) /\ Tree(v.tree)
    BY <1>1, NameiIs
  <1>3. root[p] \in DOMAIN v.tree /\ pwd[p] \in DOMAIN v.tree
    <2>1. DOMAIN tree \subseteq DOMAIN v.tree
      BY <1>1, <1>2 DEF Grows, Tree
    <2> QED  BY <1>1, <2>1
  <1>4. FoundDir(w) /\ tree' = Covers(w.tree, w.at, obj) /\ root' = root /\ pwd' = pwd
    BY DEF sys_mount
  <1> HIDE DEF v
  <1>5. Grows(v.tree, w.tree) /\ Tree(w.tree) /\ w.at \in DOMAIN w.tree
    BY <1>2, <1>3, <1>4, NameiIs
  <1> HIDE DEF w
  <1>6. Grows(w.tree, tree')
    BY <1>4, <1>5, CoversIs
  <1>7. Grows(tree, tree')
    <2>1. Grows(tree, w.tree)
      BY <1>1, <1>2, <1>5, GrowsOn
    <2> QED  BY <1>1, <1>6, <2>1, GrowsOn
  <1> QED  BY <1>4, <1>7, PlacesStay DEF IInv

-----------------------------------------------------------------------------
LEMMA Initially == Init => IInv
  <1> SUFFICES ASSUME Init PROVE IInv
    OBVIOUS
  <1> DEFINE x == Entry("/", 1, RootObj, 1)
  <1>1. tree = <<x>> /\ root = [p \in Procs |-> 1] /\ pwd = [p \in Procs |-> 1]
    BY DEF Init
  <1>2. x \in Nodes /\ RootObj \notin FileObjs
    BY VfsAssumption DEF Entry, Nodes, Objs
  <1>3. /\ tree \in Seq(Nodes) /\ Len(tree) = 1 /\ DOMAIN tree = {1} /\ tree[1] = x
    BY <1>1, <1>2
  <1>4. /\ tree[1].parent = 1 /\ tree[1].sb = 1 /\ tree[1].mounted = 0 /\ tree[1].obj = RootObj
    BY <1>3 DEF Entry
  <1> HIDE DEF x
  <1>5. Placed(tree) /\ Mounts(tree) /\ FromDisk(tree) /\ Once(tree) /\ Rooted(tree)
    BY <1>3, <1>4 DEF Placed, Mounts, FromDisk, Once, Rooted
  <1>6. \A p \in Procs : root[p] = 1 /\ pwd[p] = 1
    BY <1>1
  <1>7. root \in [Procs -> Entries] /\ pwd \in [Procs -> Entries]
    BY <1>1, <1>3 DEF Entries
  <1> QED  BY <1>2, <1>3, <1>4, <1>5, <1>6, <1>7 DEF IInv, Tree, IsDir

LEMMA NextInv == IInv /\ [Next]_vars => IInv'
  <1> SUFFICES ASSUME IInv, [Next]_vars PROVE IInv'
    OBVIOUS
  <1>1. CASE UNCHANGED vars
    BY <1>1 DEF vars, IInv, Entries
  <1>2. CASE Next
    <2> PICK p \in Procs :
          \/ \E q \in Procs \ {p} : sys_fork(p, q)
          \/ \E path \in Paths :
                \/ \E n \in Names : sys_mkdir(p, path, n)
                \/ sys_stat(p, path) \/ sys_chdir(p, path) \/ sys_chroot(p, path)
                \/ \E dev \in Devs, obj \in {RootObj, None} : sys_mount(p, dev, path, obj)
      BY <1>2 DEF Next
    <2>1. CASE \E q \in Procs \ {p} : sys_fork(p, q)
      BY <2>1, ForkInv
    <2>2. ASSUME NEW path \in Paths, \E n \in Names : sys_mkdir(p, path, n)
          PROVE  IInv'
      BY <2>2, MkdirInv
    <2>3. ASSUME NEW path \in Paths, sys_stat(p, path)
          PROVE  IInv'
      BY <2>3, StatInv
    <2>4. ASSUME NEW path \in Paths, sys_chdir(p, path)
          PROVE  IInv'
      BY <2>4, Moved DEF sys_chdir
    <2>5. ASSUME NEW path \in Paths, sys_chroot(p, path)
          PROVE  IInv'
      BY <2>5, Moved DEF sys_chroot
    <2>6. ASSUME NEW path \in Paths,
                 \E dev \in Devs, obj \in {RootObj, None} : sys_mount(p, dev, path, obj)
          PROVE  IInv'
      BY <2>6, MountInv
    <2> QED  BY <2>1, <2>2, <2>3, <2>4, <2>5, <2>6
  <1> QED  BY <1>1, <1>2

(* No call breaks the tree: places, mounts, and what is known of the disks. *)
THEOREM Invariance == Spec => []IInv
  <1> QED  BY Initially, NextInv, PTL DEF Spec

LEMMA IInvTypes == IInv => TypeOK
  <1> SUFFICES ASSUME IInv PROVE TypeOK
    OBVIOUS
  <1>1. tree \in Seq(Nodes) /\ Placed(tree)
    BY DEF IInv, Tree
  <1> QED  BY <1>1 DEF IInv, TypeOK, Nodes, Placed, Entries

(* Every entry is below an older one of its file system or is a root, and  *)
(* processes are at directories, whatever paths are asked for.             *)
THEOREM TypeCorrect == Spec => []TypeOK
  <1> QED  BY Invariance, IInvTypes, PTL

(* A thing of a mounted disk has one entry, however it is come by.         *)
THEOREM OneEntryEach == Spec => []CachedOnce
  <1>1. IInv => CachedOnce
    BY DEF IInv, Tree, Once, CachedOnce, Entries
  <1> QED  BY <1>1, Invariance, PTL

-----------------------------------------------------------------------------
(* The cache is not seen: each call is one of the name space.              *)
LEMMA ThingIsSome == ASSUME NEW t, Tree(t), NEW x \in Things(t) PROVE x # Nowhere
  <1>1. ASSUME NEW e \in DOMAIN t PROVE e # 0
    BY DEF Tree
  <1> QED  BY <1>1, ThingsAre DEF Nowhere, Disks

LEMMA LearnsView ==
  ASSUME NEW t, NEW u, Learns(t, u)
  PROVE  /\ Things(u) = Things(t) /\ Dirs(u) = Dirs(t)
         /\ NamesOf(u) = NamesOf(t) /\ UpsOf(u) = UpsOf(t)
         /\ \A e \in DOMAIN t : ThingOf(u, e) = ThingOf(t, e)
  <1>1. Things(u) = Things(t) /\ Dirs(u) = Dirs(t)
    BY DEF Learns, Dirs
  <1>2. NamesOf(u) = NamesOf(t)
    <2>1. \A x \in Things(t) : [n \in Names |-> NameOf(u, x, n)] = [n \in Names |-> NameOf(t, x, n)]
      BY DEF Learns
    <2> QED  BY <1>1, <2>1 DEF NamesOf
  <1>3. UpsOf(u) = UpsOf(t)
    BY <1>1 DEF Learns, UpsOf
  <1>4. \A e \in DOMAIN t : ThingOf(u, e) = ThingOf(t, e)
    BY DEF Learns, ThingOf
  <1> QED  BY <1>1, <1>2, <1>3, <1>4

(* Where a path ends in the tree it ends in the name space. *)
LEMMA AbstractWalk ==
  ASSUME Tree(tree), NEW t, Learns(tree, t), NEW base \in DOMAIN tree,
         NEW path \in Seq(Names \cup {".", ".."}),
         NEW r, r = Walk(t, base, path), r.at \in DOMAIN r.tree
  PROVE  Abstract!Walk(ThingOf(tree, base), path) = ThingOf(r.tree, r.at)
  <1> DEFINE L == Len(path)
             x == ThingOf(tree, base)
             h[i \in 0 .. Len(path)] ==
                 IF i = 0 THEN x
                 ELSE IF h[i - 1] = Nowhere THEN Nowhere
                 ELSE IF path[i] = "." THEN h[i - 1]
                 ELSE IF path[i] = ".." THEN UpsOf(tree)[h[i - 1]]
                 ELSE NamesOf(tree)[h[i - 1]][path[i]]
             After(y, n) == IF y = Nowhere THEN Nowhere
                            ELSE IF n = "." THEN y
                            ELSE IF n = ".." THEN UpsOf(tree)[y]
                            ELSE NamesOf(tree)[y][n]
  <1>1. L \in Nat /\ \A i \in 1 .. L : path[i] \in Names \cup {".", ".."}
    OBVIOUS
  <1>2. Abstract!Walk(x, path) = h[Len(path)]
    BY DEF Abstract!Walk
  <1>3. PICK g : /\ g[0] = ThingOf(t, base) /\ g[Len(path)] = ThingOf(r.tree, r.at)
                 /\ \A i \in 0 .. Len(path) : g[i] \in Things(t)
                 /\ \A i \in 1 .. Len(path) : g[i] = Meaning(t, g[i - 1], path[i])
    <2>1. Tree(t) /\ base \in DOMAIN t
      <3>1. /\ Tree(t) /\ DOMAIN tree = 1 .. Len(tree) /\ DOMAIN t = 1 .. Len(t) /\ Len(tree) \in Nat
            /\ Len(t) \in Nat /\ Len(tree) <= Len(t)
        BY DEF Learns, Grows, Tree
      <3> QED  BY <3>1
    <2> QED  BY <2>1, WalkThings
  <1>4. \A y \in Things(tree), n \in Names \cup {".", ".."} : Meaning(t, y, n) = After(y, n)
    <2> TAKE y \in Things(tree), n \in Names \cup {".", ".."}
    <2>1. y # Nowhere
      BY ThingIsSome
    <2>2. CASE n = "."
      BY <2>1, <2>2 DEF Meaning
    <2>3. CASE n = ".."
      <3>1. UpsOf(tree)[y] = UpOf(t, y)
        BY DEF UpsOf, Learns
      <3> QED  BY <2>1, <2>3, <3>1 DEF Meaning
    <2>4. CASE n \in Names
      <3>1. NamesOf(tree)[y][n] = NameOf(t, y, n)
        BY <2>4 DEF NamesOf, Learns
      <3>2. n # "." /\ n # ".."
        BY <2>4, VfsAssumption
      <3> QED  BY <2>1, <3>1, <3>2 DEF Meaning
    <2> QED  BY <2>2, <2>3, <2>4
  <1> HIDE DEF L, x, After
  <1>5. \A i \in 1 .. L : g[i] = After(g[i - 1], path[i])
    <2> TAKE i \in 1 .. L
    <2>1. i - 1 \in 0 .. L
      BY <1>1
    <2>2. g[i - 1] \in Things(tree) /\ g[i] = Meaning(t, g[i - 1], path[i])
      BY <1>3, <2>1 DEF L, Learns
    <2> QED  BY <1>1, <1>4, <2>2
  <1>6. h = [i \in 0 .. L |-> IF i = 0 THEN x ELSE After(h[i - 1], path[i])]
    <2> DEFINE k == [i \in 0 .. L |-> g[i]]
    <2>1. \A i \in 0 .. L : k[i] = IF i = 0 THEN x ELSE After(k[i - 1], path[i])
      <3> TAKE i \in 0 .. L
      <3>1. CASE i = 0
        BY <1>3, <3>1, LearnsView DEF x
      <3>2. CASE i # 0
        <4>1. i \in 1 .. L /\ i - 1 \in 0 .. L
          BY <1>1, <3>2
        <4> QED  BY <1>5, <3>2, <4>1
      <3> QED  BY <3>1, <3>2
    <2>2. k = [i \in 0 .. L |-> k[i]]
      OBVIOUS
    <2> HIDE DEF k
    <2>3. k = [i \in 0 .. L |-> IF i = 0 THEN x ELSE After(k[i - 1], path[i])]
      BY <2>1, <2>2
    <2> QED  BY <2>3 DEF L, After
  <1> HIDE DEF h
  <1> DEFINE Off == {i \in 0 .. L : h[i] # g[i]}
  <1>7. Off = {}
    <2> SUFFICES ASSUME Off # {} PROVE FALSE
      OBVIOUS
    <2>1. PICK i \in Off : \A k \in Off : i <= k
      <3>1. Off \subseteq Nat
        OBVIOUS
      <3> QED  BY <3>1, NatMin
    <2>2. i \in 0 .. L /\ h[i] # g[i]
      OBVIOUS
    <2>3. h[i] = IF i = 0 THEN x ELSE After(h[i - 1], path[i])
      BY <1>6, <2>2
    <2>4. CASE i = 0
      BY <1>3, <2>2, <2>3, <2>4, LearnsView DEF x
    <2>5. CASE i # 0
      <3>1. i - 1 \in 0 .. L /\ ~ (i <= i - 1) /\ i \in 1 .. L
        BY <1>1, <2>2, <2>5
      <3>2. h[i - 1] = g[i - 1]
        BY <2>1, <3>1
      <3> QED  BY <1>5, <2>2, <2>3, <2>5, <3>1, <3>2
    <2> QED  BY <2>4, <2>5
  <1>8. h[L] = g[L]
    BY <1>1, <1>7
  <1> QED  BY <1>2, <1>3, <1>8 DEF L, x

(* What does not change when a call has only looked things up. *)
LEMMA OnlyLooked ==
  ASSUME NEW t, NEW u, Learns(t, u)
  PROVE  /\ Things(u) = Things(t) /\ Dirs(u) = Dirs(t)
         /\ NamesOf(u) = NamesOf(t) /\ UpsOf(u) = UpsOf(t)
         /\ \A place \in [Procs -> DOMAIN t] : At(u, place) = At(t, place)
  <1>1. ASSUME NEW place \in [Procs -> DOMAIN t] PROVE At(u, place) = At(t, place)
    <2>1. \A p \in Procs : ThingOf(u, place[p]) = ThingOf(t, place[p])
      BY LearnsView
    <2> QED  BY <2>1 DEF At
  <1> QED  BY <1>1, LearnsView

(* What a call finds at the end of a path. *)
LEMMA WalkNamed ==
  ASSUME IInv, NEW t, Learns(tree, t), NEW base \in DOMAIN tree,
         NEW path \in Seq(Names \cup {".", ".."}), FoundDir(Walk(t, base, path))
  PROVE  LET w == Walk(t, base, path) IN
         /\ Learns(tree, w.tree) /\ w.at \in DOMAIN w.tree
         /\ Abstract!Walk(ThingOf(tree, base), path) = ThingOf(w.tree, w.at)
         /\ ThingOf(w.tree, w.at) \in Dirs(tree)
  <1> DEFINE w == Walk(t, base, path)
  <1>1. Tree(tree) /\ tree \in Seq(Nodes) /\ Tree(t)
    BY DEF IInv, Tree, Learns, Grows
  <1>2. base \in DOMAIN t
    <2>1. /\ DOMAIN tree = 1 .. Len(tree) /\ DOMAIN t = 1 .. Len(t) /\ Len(tree) \in Nat
          /\ Len(t) \in Nat /\ Len(tree) <= Len(t)
      BY <1>1 DEF Learns, Grows, Tree
    <2> QED  BY <2>1
  <1>3. Reached(t, w)
    BY <1>1, <1>2, WalkIs
  <1>4. w.at \in DOMAIN w.tree /\ IsDir(w.tree, w.at) /\ Learns(t, w.tree)
    BY <1>3 DEF Reached, FoundDir, Found, NOT_FOUND, FAULT
  <1>5. Learns(tree, w.tree)
    BY <1>1, <1>4, LearnsOn
  <1>6. Abstract!Walk(ThingOf(tree, base), path) = ThingOf(w.tree, w.at)
    BY <1>1, <1>4, AbstractWalk
  <1> HIDE DEF w
  <1>7. ThingOf(w.tree, w.at) \in Dirs(tree)
    <2>1. ThingOf(w.tree, w.at) \in Things(w.tree) /\ ThingOf(w.tree, w.at)[2] \notin FileObjs
      BY <1>4, EntryIsThing DEF IsDir
    <2> QED  BY <1>5, <2>1 DEF Dirs, Learns
  <1> QED  BY <1>4, <1>5, <1>6, <1>7 DEF w

LEMMA NameiNamed ==
  ASSUME IInv, NEW t, Learns(tree, t), NEW p \in Procs, NEW path \in Paths \cup Devs,
         FoundDir(namei(p, t, path))
  PROVE  LET w == namei(p, t, path) IN
         /\ Learns(tree, w.tree) /\ w.at \in DOMAIN w.tree
         /\ Abstract!Named(p, path) = ThingOf(w.tree, w.at)
         /\ ThingOf(w.tree, w.at) \in Dirs(tree)
  <1> DEFINE base == IF path.abs THEN root[p] ELSE pwd[p]
  <1>1. path.names \in Seq(Names \cup {".", ".."})
    BY VfsAssumption
  <1>2. base \in DOMAIN tree
    BY DEF IInv, Entries
  <1>3. namei(p, t, path) = Walk(t, base, path.names)
    BY DEF namei
  <1>4. Abstract!Named(p, path) = Abstract!Walk(ThingOf(tree, base), path.names)
    BY DEF Abstract!Named, At
  <1> HIDE DEF base
  <1> QED  BY <1>1, <1>2, <1>3, <1>4, WalkNamed

LEMMA StatLooks ==
  ASSUME IInv, NEW p \in Procs, NEW path \in Paths, sys_stat(p, path)
  PROVE  Abstract!Look
  <1> DEFINE base == IF path.abs THEN root[p] ELSE pwd[p]
  <1>1. Learns(tree, Walk(tree, base, path.names).tree)
    <2>1. path.names \in Seq(Names \cup {".", ".."})
      BY VfsAssumption
    <2>2. base \in DOMAIN tree /\ Tree(tree)
      BY DEF IInv, Entries
    <2> QED  BY <2>1, <2>2, WalkIs DEF Reached
  <1>2. Learns(tree, tree') /\ root' = root /\ pwd' = pwd
    BY <1>1 DEF sys_stat, namei
  <1>3. root \in [Procs -> DOMAIN tree] /\ pwd \in [Procs -> DOMAIN tree]
    BY DEF IInv, Entries
  <1>4. At(tree', root') = At(tree, root) /\ At(tree', pwd') = At(tree, pwd)
    BY <1>2, <1>3, OnlyLooked
  <1> QED  BY <1>2, <1>4, OnlyLooked DEF Abstract!Look, Abstract!vars

(* One process moves, in the tree and in the name space. *)
LEMMA Moves ==
  ASSUME NEW t, NEW u, Learns(t, u), NEW place \in [Procs -> DOMAIN t],
         NEW p \in Procs, NEW e, NEW after, \A q \in Procs : after[q] = IF q = p THEN e ELSE place[q]
  PROVE  \A q \in Procs : At(u, after)[q] = IF q = p THEN ThingOf(u, e) ELSE At(t, place)[q]
  <1> TAKE q \in Procs
  <1>1. ThingOf(u, place[q]) = ThingOf(t, place[q])
    BY LearnsView
  <1>2. At(u, after)[q] = ThingOf(u, after[q]) /\ At(t, place)[q] = ThingOf(t, place[q])
    BY DEF At
  <1> QED  BY <1>1, <1>2

LEMMA AtIs == \A t, place : At(t, place) = [p \in Procs |-> At(t, place)[p]]
  BY DEF At

LEMMA ChdirMoves ==
  ASSUME IInv, NEW p \in Procs, NEW path \in Paths, sys_chdir(p, path)
  PROVE  Abstract!Chdir(p, path)
  <1> DEFINE w == namei(p, tree, path)
  <1>1. FoundDir(w) /\ tree' = w.tree /\ pwd' = [pwd EXCEPT ![p] = w.at] /\ root' = root
    BY DEF sys_chdir
  <1>2. Learns(tree, tree)
    BY LearnsNothing DEF IInv
  <1>3. /\ Learns(tree, tree') /\ Abstract!Named(p, path) = ThingOf(tree', w.at)
        /\ ThingOf(tree', w.at) \in Dirs(tree)
    BY <1>1, <1>2, NameiNamed
  <1>4. root \in [Procs -> DOMAIN tree] /\ pwd \in [Procs -> DOMAIN tree]
    BY DEF IInv, Entries
  <1>5. At(tree', root') = At(tree, root)
    BY <1>1, <1>3, <1>4, OnlyLooked
  <1> HIDE DEF w
  <1>6. At(tree', pwd') = [At(tree, pwd) EXCEPT ![p] = ThingOf(tree', w.at)]
    <2>1. \A q \in Procs : pwd'[q] = IF q = p THEN w.at ELSE pwd[q]
      BY <1>1, <1>4
    <2>2. \A q \in Procs : At(tree', pwd')[q]
                             = IF q = p THEN ThingOf(tree', w.at) ELSE At(tree, pwd)[q]
      BY <1>3, <1>4, <2>1, Moves
    <2> QED  BY <2>2, AtIs
  <1> QED  BY <1>3, <1>5, <1>6, OnlyLooked DEF Abstract!Chdir

LEMMA ChrootMoves ==
  ASSUME IInv, NEW p \in Procs, NEW path \in Paths, sys_chroot(p, path)
  PROVE  Abstract!Chroot(p, path)
  <1> DEFINE w == namei(p, tree, path)
  <1>1. FoundDir(w) /\ tree' = w.tree /\ root' = [root EXCEPT ![p] = w.at] /\ pwd' = pwd
    BY DEF sys_chroot
  <1>2. Learns(tree, tree)
    BY LearnsNothing DEF IInv
  <1>3. /\ Learns(tree, tree') /\ Abstract!Named(p, path) = ThingOf(tree', w.at)
        /\ ThingOf(tree', w.at) \in Dirs(tree)
    BY <1>1, <1>2, NameiNamed
  <1>4. root \in [Procs -> DOMAIN tree] /\ pwd \in [Procs -> DOMAIN tree]
    BY DEF IInv, Entries
  <1>5. At(tree', pwd') = At(tree, pwd)
    BY <1>1, <1>3, <1>4, OnlyLooked
  <1> HIDE DEF w
  <1>6. At(tree', root') = [At(tree, root) EXCEPT ![p] = ThingOf(tree', w.at)]
    <2>1. \A q \in Procs : root'[q] = IF q = p THEN w.at ELSE root[q]
      BY <1>1, <1>4
    <2>2. \A q \in Procs : At(tree', root')[q]
                             = IF q = p THEN ThingOf(tree', w.at) ELSE At(tree, root)[q]
      BY <1>3, <1>4, <2>1, Moves
    <2> QED  BY <2>2, AtIs
  <1> QED  BY <1>3, <1>5, <1>6, OnlyLooked DEF Abstract!Chroot

LEMMA ForkCopies ==
  ASSUME IInv, NEW p \in Procs, NEW q \in Procs, sys_fork(p, q)
  PROVE  Abstract!Fork(p, q)
  <1>1. /\ tree' = tree /\ root' = [root EXCEPT ![q] = root[p]]
        /\ pwd' = [pwd EXCEPT ![q] = pwd[p]]
    BY DEF sys_fork
  <1>2. root \in [Procs -> DOMAIN tree] /\ pwd \in [Procs -> DOMAIN tree] /\ Learns(tree, tree')
    BY <1>1, LearnsNothing DEF IInv, Entries
  <1>3. /\ At(tree', root') = [At(tree, root) EXCEPT ![q] = ThingOf(tree', root[p])]
        /\ At(tree', pwd') = [At(tree, pwd) EXCEPT ![q] = ThingOf(tree', pwd[p])]
    <2> DEFINE r == root[p]
               d == pwd[p]
    <2>1. \A z \in Procs : root'[z] = IF z = q THEN r ELSE root[z]
      BY <1>1, <1>2
    <2>2. \A z \in Procs : pwd'[z] = IF z = q THEN d ELSE pwd[z]
      BY <1>1, <1>2
    <2>3. tree' = tree
      BY <1>1
    <2> HIDE DEF r, d
    <2>4. \A z \in Procs : At(tree', root')[z]
                             = IF z = q THEN ThingOf(tree', r) ELSE At(tree, root)[z]
      BY <2>1, <2>3 DEF At
    <2>5. \A z \in Procs : At(tree', pwd')[z]
                             = IF z = q THEN ThingOf(tree', d) ELSE At(tree, pwd)[z]
      BY <2>2, <2>3 DEF At
    <2>6. At(tree', root') = [At(tree, root) EXCEPT ![q] = ThingOf(tree', r)]
      BY <2>4, AtIs
    <2>7. At(tree', pwd') = [At(tree, pwd) EXCEPT ![q] = ThingOf(tree', d)]
      BY <2>5, AtIs
    <2> QED  BY <2>6, <2>7 DEF r, d
  <1>4. ThingOf(tree', root[p]) = At(tree, root)[p] /\ ThingOf(tree', pwd[p]) = At(tree, pwd)[p]
    BY <1>1 DEF At
  <1> QED  BY <1>2, <1>3, <1>4, OnlyLooked DEF Abstract!Fork

(* mkdir gives one name to a new thing. *)
LEMMA MkdirNames ==
  ASSUME NEW v, Tree(v), NEW d \in DOMAIN v, NEW n \in Names, NEW u, Tree(u),
         NEW m, m = Len(v) + 1, Len(u) = m, \A e \in DOMAIN v : u[e] = v[e],
         u[m].parent = d, u[m].name = n, u[m].mounted = 0, u[m].obj = None,
         NEW y, y = <<m, None>>
  PROVE  /\ y \notin Things(v) /\ Things(u) = Things(v) \cup {y} /\ Dirs(u) = Dirs(v) \cup {y}
         /\ \A e \in DOMAIN v : ThingOf(u, e) = ThingOf(v, e)
         /\ \A k \in Names : NameOf(u, y, k) = Nowhere
         /\ \A x \in Things(v), k \in Names :
               NameOf(u, x, k) = IF x = ThingOf(v, d) /\ k = n THEN y ELSE NameOf(v, x, k)
         /\ UpOf(u, y) = ThingOf(v, d)
         /\ \A x \in Things(v) : UpOf(u, x) = UpOf(v, x)
  <1>1. /\ Len(v) \in Nat /\ DOMAIN v = 1 .. Len(v) /\ DOMAIN u = 1 .. m /\ m \in Nat
        /\ m \notin DOMAIN v /\ m \in DOMAIN u
        /\ DOMAIN v \subseteq DOMAIN u /\ \A e \in DOMAIN u : e \in DOMAIN v \/ e = m
    BY DEF Tree
  <1>2. /\ \A e \in DOMAIN v : ThingOf(u, e) = ThingOf(v, e)
        /\ Disks(u) = Disks(v)
        /\ \A x \in Things(v) : UpOf(u, x) = UpOf(v, x)
        /\ \A x \in Things(v), k \in Names :
              NameOf(u, x, k) = IF x = ThingOf(v, d) /\ k = n THEN ThingOf(u, m)
                                ELSE NameOf(v, x, k)
    BY OneMoreName
  <1>3. ThingOf(u, m) = y
    BY <1>1 DEF ThingOf
  <1>4. y \notin Things(v)
    <2>1. \A e \in DOMAIN v : y # <<e, None>>
      BY <1>1
    <2>2. \A s \in Disks(v), o \in Objs : y # <<s, o>>
      BY <1>1, VfsAssumption
    <2> QED  BY <2>1, <2>2, ThingsAre
  <1>5. Things(u) = Things(v) \cup {y}
    <2>1. ASSUME NEW x PROVE x \in Things(u) <=> x \in Things(v) \/ x = y
      <3>1. (\E e \in DOMAIN u : u[e].obj = None /\ x = <<e, None>>)
            <=> (\E e \in DOMAIN v : v[e].obj = None /\ x = <<e, None>>) \/ x = y
        <4>1. ASSUME NEW e \in DOMAIN u, u[e].obj = None, x = <<e, None>>
              PROVE  (\E f \in DOMAIN v : v[f].obj = None /\ x = <<f, None>>) \/ x = y
          BY <1>1, <4>1
        <4>2. ASSUME NEW e \in DOMAIN v, v[e].obj = None, x = <<e, None>>
              PROVE  \E f \in DOMAIN u : u[f].obj = None /\ x = <<f, None>>
          BY <1>1, <4>2
        <4>3. x = y => \E f \in DOMAIN u : u[f].obj = None /\ x = <<f, None>>
          BY <1>1
        <4> QED  BY <4>1, <4>2, <4>3
      <3> QED  BY <1>2, <3>1, ThingsAre
    <2> QED  BY <2>1
  <1>6. Dirs(u) = Dirs(v) \cup {y}
    <2>1. y[2] \notin FileObjs
      BY VfsAssumption DEF Objs
    <2> QED  BY <1>5, <2>1 DEF Dirs
  <1>7. \A k \in Names : NameOf(u, y, k) = Nowhere
    <2> TAKE k \in Names
    <2>1. Known(u, y, k) = {}
      <3>1. Known(u, y, k) = Children(u, m, k)
        BY <1>1, <1>3, KnownIs
      <3>2. ASSUME NEW f \in DOMAIN u, u[f].parent = m PROVE f = m
        <4>1. u[f].parent <= f /\ f \in Nat
          BY ParentIs
        <4>2. f <= m
          BY <1>1
        <4> QED  BY <3>2, <4>1, <4>2
      <3> QED  BY <3>1, <3>2 DEF Children
    <2>2. OnDisk(y, k) = Nowhere
      BY VfsAssumption DEF OnDisk, Objs
    <2> QED  BY <2>1, <2>2 DEF NameOf
  <1>8. UpOf(u, y) = ThingOf(v, d)
    BY <1>1, <1>2 DEF UpOf
  <1> QED  BY <1>2, <1>3, <1>4, <1>5, <1>6, <1>7, <1>8

LEMMA MkdirNamed ==
  ASSUME IInv, NEW p \in Procs, NEW path \in Paths, NEW n \in Names, sys_mkdir(p, path, n)
  PROVE  Abstract!Mkdir(p, path, n)
  <1> DEFINE w == Walk(tree, root[p], path.names)
             v == w.tree
             d == w.at
             y == <<Len(v) + 1, None>>
             x == ThingOf(v, d)
  <1>1. FoundDir(w) /\ tree' = Append(v, Entry(n, d, None, v[d].sb)) /\ root' = root /\ pwd' = pwd
    BY DEF sys_mkdir
  <1>2. root \in [Procs -> DOMAIN tree] /\ pwd \in [Procs -> DOMAIN tree] /\ Learns(tree, tree)
    BY LearnsNothing DEF IInv, Entries
  <1>3. path.names \in Seq(Names \cup {".", ".."})
    BY VfsAssumption
  <1>4. /\ Learns(tree, v) /\ d \in DOMAIN v /\ x \in Dirs(tree)
        /\ Abstract!Walk(ThingOf(tree, root[p]), path.names) = x
    BY <1>1, <1>2, <1>3, WalkNamed
  <1>5. Abstract!Walk(At(tree, root)[p], path.names) = x
    BY <1>4 DEF At
  <1> HIDE DEF w
  <1>6. Tree(v) /\ d \in DOMAIN v
    BY <1>4 DEF Learns, Grows
  <1> HIDE DEF v, d
  <1>7. /\ Things(v) = Things(tree) /\ Dirs(v) = Dirs(tree)
        /\ NamesOf(v) = NamesOf(tree) /\ UpsOf(v) = UpsOf(tree)
    BY <1>4, LearnsView
  <1> HIDE DEF x, y
  <1>8. /\ y \notin Things(v) /\ Things(tree') = Things(v) \cup {y} /\ Dirs(tree') = Dirs(v) \cup {y}
        /\ \A e \in DOMAIN v : ThingOf(tree', e) = ThingOf(v, e)
        /\ \A k \in Names : NameOf(tree', y, k) = Nowhere
        /\ \A z \in Things(v), k \in Names :
              NameOf(tree', z, k) = IF z = x /\ k = n THEN y ELSE NameOf(v, z, k)
        /\ UpOf(tree', y) = x
        /\ \A z \in Things(v) : UpOf(tree', z) = UpOf(v, z)
    <2> DEFINE m == Len(v) + 1
               z == Entry(n, d, None, v[d].sb)
    <2>1. y = <<m, None>>
      BY DEF y
    <2>2. v \in Seq(Nodes) /\ v[d] \in Nodes
      BY <1>6 DEF Tree
    <2>3. z \in Nodes
      BY <1>6, <2>2, ParentIs DEF Entry, Nodes
    <2>4. Len(tree') = m /\ (\A e \in DOMAIN v : tree'[e] = v[e]) /\ tree'[m] = z
      BY <1>1, <2>2, <2>3
    <2>5. /\ tree'[m].parent = d /\ tree'[m].name = n /\ tree'[m].mounted = 0
          /\ tree'[m].obj = None
      BY <2>4 DEF Entry
    <2>6. Tree(tree')
      BY <1>1, <1>6, MkdirIs DEF Grows
    <2>7. m = Len(v) + 1
      OBVIOUS
    <2> HIDE DEF m, z
    <2> QED  BY <1>6, <2>1, <2>4, <2>5, <2>6, <2>7, MkdirNames DEF x
  <1>9. NamesOf(tree') = [z \in Things(tree) \cup {y} |->
                             IF z = y THEN [k \in Names |-> Nowhere]
                             ELSE IF z = x THEN [NamesOf(tree)[x] EXCEPT ![n] = y]
                             ELSE NamesOf(tree)[z]]
    <2>1. \A z \in Things(v) : NamesOf(tree)[z] = [k \in Names |-> NameOf(v, z, k)]
      BY <1>7 DEF NamesOf
    <2>2. [k \in Names |-> NameOf(tree', y, k)] = [k \in Names |-> Nowhere]
      BY <1>8
    <2>3. [k \in Names |-> NameOf(tree', x, k)] = [NamesOf(tree)[x] EXCEPT ![n] = y]
      <3>1. x \in Things(v)
        BY <1>4, <1>7 DEF Dirs
      <3>2. NamesOf(tree)[x] = [k \in Names |-> NameOf(v, x, k)]
        BY <2>1, <3>1
      <3>3. \A k \in Names : NameOf(tree', x, k) = IF k = n THEN y ELSE NameOf(v, x, k)
        BY <1>8, <3>1
      <3> QED  BY <3>2, <3>3
    <2>4. \A z \in Things(v) : z # x => [k \in Names |-> NameOf(tree', z, k)] = NamesOf(tree)[z]
      BY <1>8, <2>1
    <2>5. \A z \in Things(v) \cup {y} : [k \in Names |-> NameOf(tree', z, k)]
             = IF z = y THEN [k \in Names |-> Nowhere]
               ELSE IF z = x THEN [NamesOf(tree)[x] EXCEPT ![n] = y]
               ELSE NamesOf(tree)[z]
      BY <1>8, <2>2, <2>3, <2>4
    <2> QED  BY <1>7, <1>8, <2>5 DEF NamesOf
  <1>10. UpsOf(tree') = [z \in Things(tree) \cup {y} |-> IF z = y THEN x ELSE UpsOf(tree)[z]]
    <2>1. \A z \in Things(v) : UpsOf(tree)[z] = UpOf(v, z)
      BY <1>7 DEF UpsOf
    <2>2. \A z \in Things(v) \cup {y} : UpOf(tree', z) = IF z = y THEN x ELSE UpsOf(tree)[z]
      BY <1>8, <2>1
    <2> QED  BY <1>7, <1>8, <2>2 DEF UpsOf
  <1>11. At(tree', root') = At(tree, root) /\ At(tree', pwd') = At(tree, pwd)
    <2>1. \A e \in DOMAIN tree : ThingOf(tree', e) = ThingOf(tree, e)
      <3>1. \A e \in DOMAIN tree : e \in DOMAIN v /\ ThingOf(v, e) = ThingOf(tree, e)
        <4>1. /\ DOMAIN tree = 1 .. Len(tree) /\ DOMAIN v = 1 .. Len(v) /\ Len(tree) \in Nat
              /\ Len(v) \in Nat /\ Len(tree) <= Len(v)
          BY <1>4 DEF Learns, Grows, IInv, Tree
        <4> QED  BY <1>4, <4>1, LearnsView
      <3> QED  BY <1>8, <3>1
    <2> QED  BY <1>1, <1>2, <2>1 DEF At
  <1>12. y \in Things(tree') \ Things(tree) /\ Things(tree') # Things(tree)
    BY <1>7, <1>8
  <1> QED  BY <1>4, <1>5, <1>7, <1>8, <1>9, <1>10, <1>11, <1>12
           DEF Abstract!Mkdir, Abstract!Nothing

(* mount puts a new disk, or an empty directory, in place of a directory,  *)
(* wherever that had a name.                                               *)
LEMMA CoversNames ==
  ASSUME NEW v, Tree(v), NEW d \in DOMAIN v, v[d].mounted = 0, NEW obj \in {RootObj, None},
         NEW u, Tree(u), NEW m, m = Len(v) + 1, Len(u) = m,
         \A e \in DOMAIN v : /\ u[e].name = v[e].name /\ u[e].parent = v[e].parent
                             /\ u[e].obj = v[e].obj /\ u[e].sb = v[e].sb
                             /\ u[e].mounted = IF e = d THEN m ELSE v[e].mounted,
         u[m].parent = m, u[m].sb = m, u[m].obj = obj, u[m].mounted = 0
  PROVE  LET r == <<m, obj>>
             new == Things(u) \ Things(v) IN
         /\ \A e \in DOMAIN v : ThingOf(u, e) = ThingOf(v, e)
         /\ Things(v) \subseteq Things(u) /\ r \in new /\ UpOf(u, r) = r
         /\ \A y \in new : /\ UpOf(u, y) \in new
                           /\ \A k \in Names : NameOf(u, y, k) \in new \cup {Nowhere}
         /\ \A y \in Things(v) :
               /\ UpOf(u, y) = UpOf(v, y)
               /\ \A k \in Names : NameOf(u, y, k) = IF NameOf(v, y, k) = ThingOf(v, d) THEN r
                                                     ELSE NameOf(v, y, k)
  <1> DEFINE r == <<m, obj>>
             New(y) == (obj = None /\ y = r) \/ (obj = RootObj /\ \E o \in Objs : y = <<m, o>>)
  <1>1. /\ Len(v) \in Nat /\ DOMAIN v = 1 .. Len(v) /\ DOMAIN u = 1 .. m /\ m \in Nat
        /\ m \notin DOMAIN v /\ m \in DOMAIN u
        /\ DOMAIN v \subseteq DOMAIN u /\ \A e \in DOMAIN u : e \in DOMAIN v \/ e = m
    BY DEF Tree
  <1>2. RootObj \in Objs /\ None \notin Objs /\ RootObj # None
    BY VfsAssumption DEF Objs
  <1>3. (\A e \in DOMAIN v : ThingOf(u, e) = ThingOf(v, e)) /\ ThingOf(u, m) = r
    BY <1>2 DEF ThingOf
  <1>4. \A e : e \in Disks(u) <=> e \in Disks(v) \/ (e = m /\ obj = RootObj)
    <2>1. \A e \in DOMAIN v : e \in Disks(u) <=> e \in Disks(v)
      BY <1>1 DEF Disks
    <2>2. m \in Disks(u) <=> obj = RootObj
      BY <1>1 DEF Disks
    <2>3. Disks(u) \subseteq DOMAIN v \cup {m} /\ Disks(v) \subseteq DOMAIN v
      BY <1>1 DEF Disks
    <2> QED  BY <1>1, <2>1, <2>2, <2>3
  <1>5. \A y \in Things(v) : y[1] \in DOMAIN v
    BY ThingsAre DEF Disks
  <1>6. ASSUME NEW y PROVE y \in Things(u) <=> y \in Things(v) \/ New(y)
    <2>1. (\E e \in DOMAIN u : u[e].obj = None /\ y = <<e, None>>)
          <=> (\E e \in DOMAIN v : v[e].obj = None /\ y = <<e, None>>) \/ (obj = None /\ y = r)
      <3>1. ASSUME NEW e \in DOMAIN u, u[e].obj = None, y = <<e, None>>
            PROVE  (\E f \in DOMAIN v : v[f].obj = None /\ y = <<f, None>>) \/ (obj = None /\ y = r)
        <4>1. CASE e = m
          BY <3>1, <4>1
        <4>2. CASE e \in DOMAIN v
          <5>1. v[e].obj = None
            BY <3>1, <4>2
          <5> QED  BY <3>1, <4>2, <5>1
        <4> QED  BY <1>1, <4>1, <4>2
      <3>2. ASSUME NEW e \in DOMAIN v, v[e].obj = None, y = <<e, None>>
            PROVE  \E f \in DOMAIN u : u[f].obj = None /\ y = <<f, None>>
        BY <1>1, <3>2
      <3>3. obj = None /\ y = r => \E f \in DOMAIN u : u[f].obj = None /\ y = <<f, None>>
        BY <1>1
      <3> QED  BY <3>1, <3>2, <3>3
    <2>2. (\E s \in Disks(u), o \in Objs : y = <<s, o>>)
          <=> \/ \E s \in Disks(v), o \in Objs : y = <<s, o>>
              \/ obj = RootObj /\ \E o \in Objs : y = <<m, o>>
      <3>1. ASSUME NEW s \in Disks(u), NEW o \in Objs, y = <<s, o>>
            PROVE  \/ \E z \in Disks(v), c \in Objs : y = <<z, c>>
                   \/ obj = RootObj /\ \E c \in Objs : y = <<m, c>>
        BY <1>4, <3>1
      <3>2. ASSUME NEW s \in Disks(v), NEW o \in Objs, y = <<s, o>>
            PROVE  \E z \in Disks(u), c \in Objs : y = <<z, c>>
        BY <1>4, <3>2
      <3>3. ASSUME obj = RootObj, NEW o \in Objs, y = <<m, o>>
            PROVE  \E z \in Disks(u), c \in Objs : y = <<z, c>>
        BY <1>4, <3>3
      <3> QED  BY <3>1, <3>2, <3>3
    <2>3. y \in Things(v) <=> \/ \E e \in DOMAIN v : v[e].obj = None /\ y = <<e, None>>
                             \/ \E s \in Disks(v), o \in Objs : y = <<s, o>>
      BY ThingsAre
    <2>4. y \in Things(u) <=> \/ \E e \in DOMAIN u : u[e].obj = None /\ y = <<e, None>>
                             \/ \E s \in Disks(u), o \in Objs : y = <<s, o>>
      BY ThingsAre
    <2> QED  BY <2>1, <2>2, <2>3, <2>4
  <1>7. \A y : New(y) => y[1] = m
    OBVIOUS
  <1>8. \A y : y \in Things(u) \ Things(v) <=> New(y)
    <2>1. \A y : New(y) => y \notin Things(v)
      BY <1>1, <1>5, <1>7
    <2> QED  BY <1>6, <2>1
  <1>9. New(r)
    <2>1. CASE obj = None
      BY <2>1
    <2>2. CASE obj = RootObj
      BY <1>2, <2>2
    <2> QED  BY <2>1, <2>2
  <1>10. UpOf(u, r) = r
    <2>1. CASE obj = None
      BY <1>3, <2>1 DEF UpOf
    <2>2. CASE obj = RootObj
      BY <1>2, <2>2 DEF UpOf, Above
    <2> QED  BY <2>1, <2>2
  <1>11. ASSUME NEW y, New(y) PROVE New(UpOf(u, y))
    <2>1. CASE obj = None
      BY <1>9, <1>10, <1>11, <2>1, <1>2
    <2>2. CASE obj = RootObj
      <3>1. PICK o \in Objs : y = <<m, o>>
        BY <1>2, <1>11, <2>2
      <3>2. Above(o) \in Objs
        <4>1. CASE o = RootObj
          BY <4>1 DEF Above
        <4>2. CASE o # RootObj
          <5>1. \E e \in DirObjs : \E n \in DOMAIN Disk[e] : Disk[e][n] = o
            BY <4>2, VfsAssumption
          <5> QED  BY <4>2, <5>1 DEF Above, Objs
        <4> QED  BY <4>1, <4>2
      <3>3. UpOf(u, y) = <<m, Above(o)>>
        BY <1>2, <3>1 DEF UpOf
      <3> QED  BY <2>2, <3>2, <3>3
    <2> QED  BY <2>1, <2>2
  <1>12. ASSUME NEW y, New(y), NEW k \in Names PROVE New(NameOf(u, y, k)) \/ NameOf(u, y, k) = Nowhere
    <2>1. Known(u, y, k) = {}
      <3> SUFFICES ASSUME NEW f \in DOMAIN u, u[f].parent # f, ThingOf(u, u[f].parent) = y
                   PROVE  FALSE
        BY DEF Known
      <3> DEFINE b == u[f].parent
      <3>1. /\ b \in DOMAIN u /\ b <= f /\ f <= m /\ f \in Nat /\ b \in Nat
        <4>1. b \in DOMAIN u /\ b <= f /\ f \in Nat /\ b \in Nat
          BY ParentIs
        <4>2. f <= m
          BY <1>1
        <4> QED  BY <4>1, <4>2
      <3>2. b # m
        BY <1>1, <3>1
      <3>3. b \in DOMAIN v
        BY <1>1, <3>1, <3>2
      <3>4. ThingOf(u, b) \in Things(v)
        BY <1>3, <3>3, EntryIsThing
      <3> QED  BY <1>1, <1>5, <1>7, <1>12, <3>4
    <2>2. OnDisk(y, k) = Nowhere \/ New(OnDisk(y, k))
      <3>1. CASE y[2] \in DirObjs /\ k \in DOMAIN Disk[y[2]]
        <4>1. Disk[y[2]][k] \in Objs
          BY <3>1, VfsAssumption
        <4>2. OnDisk(y, k) = <<m, Disk[y[2]][k]>>
          BY <1>7, <1>12, <3>1 DEF OnDisk
        <4>3. obj = RootObj
          BY <1>2, <1>12, <3>1 DEF Objs
        <4> QED  BY <4>1, <4>2, <4>3
      <3>2. CASE ~ (y[2] \in DirObjs /\ k \in DOMAIN Disk[y[2]])
        BY <3>2 DEF OnDisk
      <3> QED  BY <3>1, <3>2
    <2>3. NameOf(u, y, k) = OnDisk(y, k)
      BY <2>1 DEF NameOf
    <2> QED  BY <2>2, <2>3
  <1>13. ASSUME NEW y \in Things(v)
         PROVE  UpOf(u, y) = UpOf(v, y)
    <2>1. CASE y[2] = None
      <3>1. y[1] \in DOMAIN v /\ v[y[1]].parent \in DOMAIN v
        BY <1>5, ParentIs
      <3> QED  BY <1>3, <2>1, <3>1 DEF UpOf
    <2>2. CASE y[2] # None
      BY <2>2 DEF UpOf
    <2> QED  BY <2>1, <2>2
  <1>14. ASSUME NEW y \in Things(v), NEW k \in Names
         PROVE  NameOf(u, y, k) = IF NameOf(v, y, k) = ThingOf(v, d) THEN r ELSE NameOf(v, y, k)
    <2>1. Known(u, y, k) = Known(v, y, k)
      <3>1. \A f \in DOMAIN v : /\ u[f].name = v[f].name /\ u[f].parent = v[f].parent
                                /\ ThingOf(u, v[f].parent) = ThingOf(v, v[f].parent)
        BY <1>3, ParentIs
      <3>2. \A f \in DOMAIN v : f \in Known(u, y, k) <=> f \in Known(v, y, k)
        BY <1>1, <3>1 DEF Known
      <3>3. Known(u, y, k) \subseteq DOMAIN v /\ Known(v, y, k) \subseteq DOMAIN v
        BY <1>1 DEF Known
      <3> QED  BY <3>2, <3>3
    <2>2. CASE Known(v, y, k) = {}
      <3>1. OnDisk(y, k) # ThingOf(v, d)
        <4> SUFFICES ASSUME OnDisk(y, k) = ThingOf(v, d) PROVE FALSE
          OBVIOUS
        <4> DEFINE b == v[d].parent
        <4>1. ThingOf(v, d) # Nowhere
          BY EntryIsThing, ThingIsSome
        <4>2. y[2] \in DirObjs /\ k \in DOMAIN Disk[y[2]] /\ ThingOf(v, d) = <<y[1], Disk[y[2]][k]>>
          BY <4>1 DEF OnDisk
        <4>3. v[d].obj = Disk[y[2]][k] /\ v[d].obj \in Objs \ {RootObj}
          <5>1. v[d].obj = Disk[y[2]][k]
            BY <4>2 DEF ThingOf
          <5> QED  BY <4>2, <5>1, VfsAssumption
        <4>4. v[d].obj # None /\ v[d].sb = y[1]
          BY <1>2, <4>2, <4>3 DEF ThingOf
        <4>5. b # d /\ OnTheDisk(v[d], v[b].obj)
          BY <4>3, <4>4 DEF Tree, FromDisk
        <4>6. v[b].obj = y[2] /\ v[d].name = k
          <5> DEFINE o == v[b].obj
                     q == v[d].name
                     c == y[2]
          <5>1. /\ o \in DirObjs /\ c \in DirObjs /\ q \in DOMAIN Disk[o] /\ k \in DOMAIN Disk[c]
                /\ Disk[o][q] = Disk[c][k]
            BY <4>2, <4>3, <4>5 DEF OnTheDisk
          <5> HIDE DEF o, q, c
          <5>2. o = c /\ q = k
            BY <5>1, VfsAssumption
          <5> QED  BY <5>2 DEF o, q, c
        <4>7. b \in DOMAIN v /\ v[b].sb = y[1] /\ v[b].obj # None
          <5>1. b \in DOMAIN v /\ v[b].sb = v[d].sb
            BY ParentIs
          <5>2. y[2] # None
            BY <1>2, <4>2 DEF Objs
          <5> QED  BY <4>4, <4>6, <5>1, <5>2
        <4>8. ThingOf(v, b) = y
          <5>1. y = <<y[1], y[2]>>
            BY ThingsAre
          <5> QED  BY <4>6, <4>7, <5>1 DEF ThingOf
        <4>9. d \in Known(v, y, k)
          BY <4>5, <4>6, <4>8 DEF Known
        <4> QED  BY <2>2, <4>9
      <3> QED  BY <2>1, <2>2, <3>1 DEF NameOf
    <2>3. CASE Known(v, y, k) # {}
      <3> DEFINE f == Newest(Known(v, y, k))
                 g == Resolved(v, f)
      <3>1. f \in DOMAIN v
        BY <2>3, NewestIs DEF Known
      <3>2. NameOf(v, y, k) = ThingOf(v, g) /\ NameOf(u, y, k) = ThingOf(u, Resolved(u, f))
        BY <2>1, <2>3 DEF NameOf
      <3> HIDE DEF f
      <3>3. g \in DOMAIN v /\ v[g].mounted = 0
        BY <3>1, ResolvedIs
      <3>4. Resolved(u, f) = IF u[g].mounted = 0 THEN g ELSE u[g].mounted
        <4>1. \A e \in DOMAIN v :
                 \/ u[e].mounted = v[e].mounted
                 \/ v[e].mounted = 0 /\ u[e].mounted \in DOMAIN u /\ u[u[e].mounted].mounted = 0
          <5> TAKE e \in DOMAIN v
          <5>1. CASE e = d
            BY <1>1, <5>1
          <5>2. CASE e # d
            BY <5>2
          <5> QED  BY <5>1, <5>2
        <4>2. DOMAIN v \subseteq DOMAIN u
          BY <1>1
        <4> QED  BY <3>1, <4>1, <4>2, ResolvedGrows
      <3> HIDE DEF g
      <3>5. CASE g = d
        <4>1. Resolved(u, f) = m
          BY <1>1, <3>3, <3>4, <3>5
        <4> QED  BY <1>3, <3>2, <3>5, <4>1
      <3>6. CASE g # d
        <4>1. Resolved(u, f) = g
          BY <3>3, <3>4, <3>6
        <4>2. ThingOf(v, g) # ThingOf(v, d)
          BY <3>3, <3>6, ThingApart
        <4> QED  BY <1>3, <3>2, <3>3, <4>1, <4>2
      <3> QED  BY <3>5, <3>6
    <2> QED  BY <2>2, <2>3
  <1> HIDE DEF New
  <1>15. /\ \A y \in Things(u) \ Things(v) :
               /\ UpOf(u, y) \in Things(u) \ Things(v)
               /\ \A k \in Names : NameOf(u, y, k) \in (Things(u) \ Things(v)) \cup {Nowhere}
         /\ r \in Things(u) \ Things(v) /\ Things(v) \subseteq Things(u)
    BY <1>6, <1>8, <1>9, <1>11, <1>12
  <1> QED  BY <1>3, <1>10, <1>13, <1>14, <1>15

LEMMA MountNamed ==
  ASSUME IInv, NEW p \in Procs, NEW dev \in Devs, NEW path \in Paths,
         NEW obj \in {RootObj, None}, sys_mount(p, dev, path, obj)
  PROVE  Abstract!Mount(p, path)
  <1> DEFINE t == namei(p, tree, dev).tree
             w == namei(p, t, path)
             v == w.tree
             d == w.at
             m == Len(v) + 1
             r == <<m, obj>>
             x == ThingOf(v, d)
             new == Things(tree') \ Things(tree)
  <1>1. /\ FoundDir(namei(p, tree, dev)) /\ FoundDir(w) /\ v[d].mounted = 0
        /\ tree' = Covers(v, d, obj) /\ root' = root /\ pwd' = pwd
    BY DEF sys_mount
  <1>2. root \in [Procs -> DOMAIN tree] /\ pwd \in [Procs -> DOMAIN tree] /\ Learns(tree, tree)
    BY LearnsNothing DEF IInv, Entries
  <1>3. Learns(tree, t)
    BY <1>1, <1>2, NameiNamed
  <1> HIDE DEF t
  <1>4. Learns(tree, v) /\ d \in DOMAIN v /\ x \in Dirs(tree) /\ Abstract!Named(p, path) = x
    BY <1>1, <1>3, NameiNamed
  <1> HIDE DEF w
  <1>5. Tree(v)
    BY <1>4 DEF Learns, Grows
  <1> HIDE DEF v, d
  <1>6. /\ Things(v) = Things(tree) /\ Dirs(v) = Dirs(tree)
        /\ NamesOf(v) = NamesOf(tree) /\ UpsOf(v) = UpsOf(tree)
    BY <1>4, LearnsView
  <1>7. /\ Len(tree') = m
        /\ \A e \in DOMAIN v : /\ tree'[e].name = v[e].name /\ tree'[e].parent = v[e].parent
                               /\ tree'[e].obj = v[e].obj /\ tree'[e].sb = v[e].sb
                               /\ tree'[e].mounted = IF e = d THEN m ELSE v[e].mounted
        /\ tree'[m].parent = m /\ tree'[m].sb = m /\ tree'[m].obj = obj /\ tree'[m].mounted = 0
    <2> DEFINE z == Entry("/", m, obj, m)
               s == [v EXCEPT ![d].mounted = m]
    <2>1. Len(v) \in Nat /\ DOMAIN v = 1 .. Len(v) /\ v \in Seq(Nodes) /\ m \in Nat
      BY <1>5 DEF Tree
    <2>2. z \in Nodes
      BY <2>1, VfsAssumption DEF Entry, Nodes, Objs
    <2>3. \A e \in DOMAIN v : v[e] \in Nodes /\ [v[e] EXCEPT !.mounted = m] \in Nodes
      <3>1. m \in Nat /\ \A e \in DOMAIN v : v[e] \in Nodes
        BY <2>1
      <3> HIDE DEF m
      <3> QED  BY <3>1 DEF Nodes
    <2>4. /\ s \in Seq(Nodes) /\ Len(s) = Len(v)
          /\ \A e \in DOMAIN v : s[e] = IF e = d THEN [v[d] EXCEPT !.mounted = m] ELSE v[e]
      <3>1. s = [v EXCEPT ![d] = [v[d] EXCEPT !.mounted = m]]
        OBVIOUS
      <3> QED  BY <1>4, <2>1, <2>3, <3>1
    <2>5. /\ Len(tree') = m /\ tree'[m] = z
          /\ \A e \in DOMAIN v : tree'[e] = s[e]
      <3>1. tree' = Append(s, z)
        BY <1>1 DEF Covers
      <3> HIDE DEF s, z
      <3> QED  BY <2>1, <2>2, <2>4, <3>1
    <2>6. ASSUME NEW e \in DOMAIN v
          PROVE  /\ tree'[e].name = v[e].name /\ tree'[e].parent = v[e].parent
                 /\ tree'[e].obj = v[e].obj /\ tree'[e].sb = v[e].sb
                 /\ tree'[e].mounted = IF e = d THEN m ELSE v[e].mounted
      <3>1. tree'[e] = IF e = d THEN [v[d] EXCEPT !.mounted = m] ELSE v[e]
        BY <2>4, <2>5
      <3>2. v[e] \in Nodes
        BY <2>3
      <3> HIDE DEF m
      <3>3. CASE e = d
        BY <3>1, <3>2, <3>3 DEF Nodes
      <3>4. CASE e # d
        BY <3>1, <3>4
      <3> QED  BY <3>3, <3>4
    <2>7. tree'[m].parent = m /\ tree'[m].sb = m /\ tree'[m].obj = obj /\ tree'[m].mounted = 0
      BY <2>5 DEF Entry
    <2> QED  BY <2>5, <2>6, <2>7
  <1>8. Tree(tree')
    BY <1>1, <1>4, <1>5, CoversIs DEF Grows
  <1>9. m = Len(v) + 1 /\ v[d].mounted = 0 /\ d \in DOMAIN v
    BY <1>1, <1>4
  <1> HIDE DEF m
  <1>10. /\ \A e \in DOMAIN v : ThingOf(tree', e) = ThingOf(v, e)
         /\ Things(v) \subseteq Things(tree') /\ r \in new /\ UpOf(tree', r) = r
         /\ \A y \in new : /\ UpOf(tree', y) \in new
                           /\ \A k \in Names : NameOf(tree', y, k) \in new \cup {Nowhere}
         /\ \A y \in Things(v) :
               /\ UpOf(tree', y) = UpOf(v, y)
               /\ \A k \in Names : NameOf(tree', y, k) = IF NameOf(v, y, k) = x THEN r
                                                         ELSE NameOf(v, y, k)
    BY <1>5, <1>6, <1>7, <1>8, <1>9, CoversNames
  <1>11. r[2] = obj /\ obj \notin FileObjs
    BY VfsAssumption DEF Objs
  <1> HIDE DEF r, x, new
  <1>12. /\ Things(tree) \subseteq Things(tree') /\ Things(tree') # Things(tree)
         /\ Dirs(tree') \cap Things(tree) = Dirs(tree) /\ r \in Dirs(tree') \cap new
    <2>1. Things(tree) \subseteq Things(tree') /\ r \in Things(tree') /\ r \notin Things(tree)
      BY <1>6, <1>10 DEF new
    <2> QED  BY <1>10, <1>11, <2>1 DEF Dirs
  <1>13. UpsOf(tree')[r] = r /\ \A y \in Things(tree) : UpsOf(tree')[y] = UpsOf(tree)[y]
    <2>1. \A y \in Things(tree) : UpsOf(tree)[y] = UpOf(v, y)
      BY <1>6 DEF UpsOf
    <2>2. \A y \in Things(tree') : UpsOf(tree')[y] = UpOf(tree', y)
      BY DEF UpsOf
    <2>3. r \in Things(tree')
      BY <1>10 DEF new
    <2> QED  BY <1>6, <1>10, <1>12, <2>1, <2>2, <2>3
  <1>14. \A y \in Things(tree) :
            NamesOf(tree')[y] = [n \in Names |-> IF NamesOf(tree)[y][n] = x THEN r
                                                 ELSE NamesOf(tree)[y][n]]
    <2> TAKE y \in Things(tree)
    <2>1. NamesOf(tree)[y] = [n \in Names |-> NameOf(v, y, n)]
      BY <1>6 DEF NamesOf
    <2>2. NamesOf(tree')[y] = [n \in Names |-> NameOf(tree', y, n)]
      BY <1>12 DEF NamesOf
    <2>3. \A n \in Names : NameOf(tree', y, n) = IF NamesOf(tree)[y][n] = x THEN r
                                                 ELSE NamesOf(tree)[y][n]
      BY <1>6, <1>10, <2>1
    <2> QED  BY <2>2, <2>3
  <1>15. \A y \in new : /\ UpsOf(tree')[y] \in new
                        /\ \A n \in Names : NamesOf(tree')[y][n] \in new \cup {Nowhere}
    <2> TAKE y \in new
    <2>1. y \in Things(tree')
      BY DEF new
    <2>2. UpsOf(tree')[y] = UpOf(tree', y)
      BY <2>1 DEF UpsOf
    <2>3. \A n \in Names : NamesOf(tree')[y][n] = NameOf(tree', y, n)
      BY <2>1 DEF NamesOf
    <2> QED  BY <1>10, <2>2, <2>3
  <1>16. At(tree', root') = At(tree, root) /\ At(tree', pwd') = At(tree, pwd)
    <2>1. \A e \in DOMAIN tree : ThingOf(tree', e) = ThingOf(tree, e)
      <3>1. \A e \in DOMAIN tree : e \in DOMAIN v /\ ThingOf(v, e) = ThingOf(tree, e)
        <4>1. /\ DOMAIN tree = 1 .. Len(tree) /\ DOMAIN v = 1 .. Len(v) /\ Len(tree) \in Nat
              /\ Len(v) \in Nat /\ Len(tree) <= Len(v)
          BY <1>4 DEF Learns, Grows, IInv, Tree
        <4> QED  BY <1>4, <4>1, LearnsView
      <3> QED  BY <1>10, <3>1
    <2> QED  BY <1>1, <1>2, <2>1 DEF At
  <1>17. \E z \in Dirs(tree)' \cap (Things(tree)' \ Things(tree)) :
            /\ (UpsOf(tree)')[z] = z
            /\ \A y \in Things(tree) :
                  (NamesOf(tree)')[y]
                     = [n \in Names |-> IF NamesOf(tree)[y][n] = Abstract!Named(p, path) THEN z
                                        ELSE NamesOf(tree)[y][n]]
    <2> r \in Dirs(tree)' \cap (Things(tree)' \ Things(tree))
      BY <1>12 DEF new
    <2> WITNESS r \in Dirs(tree)' \cap (Things(tree)' \ Things(tree))
    <2> QED  BY <1>4, <1>13, <1>14
  <1>18. \A y \in Things(tree)' \ Things(tree) :
            /\ (UpsOf(tree)')[y] \in Things(tree)' \ Things(tree)
            /\ \A n \in Names : (NamesOf(tree)')[y][n] \in (Things(tree)' \ Things(tree)) \cup {Nowhere}
    BY <1>15 DEF new
  <1>19. UNCHANGED <<At(tree, root), At(tree, pwd)>>
    BY <1>16
  <1> QED  BY <1>4, <1>12, <1>13, <1>17, <1>18, <1>19 DEF Abstract!Mount

(* At first there is the disk, and everyone is at its root. *)
LEMMA InitNamed == Init => Abstract!Init
  <1> SUFFICES ASSUME Init PROVE Abstract!Init
    OBVIOUS
  <1> DEFINE x == Entry("/", 1, RootObj, 1)
             r == <<1, RootObj>>
  <1>1. tree = <<x>> /\ root = [p \in Procs |-> 1] /\ pwd = [p \in Procs |-> 1]
    BY DEF Init
  <1>2. RootObj \notin FileObjs /\ RootObj \in Objs /\ RootObj # None
    BY VfsAssumption DEF Objs
  <1>3. DOMAIN tree = {1} /\ tree[1] = x
    BY <1>1
  <1>4. tree[1].parent = 1 /\ tree[1].sb = 1 /\ tree[1].mounted = 0 /\ tree[1].obj = RootObj
    BY <1>3 DEF Entry
  <1>5. Tree(tree)
    BY Initially DEF IInv
  <1> HIDE DEF x
  <1>6. Disks(tree) = {1} /\ ThingOf(tree, 1) = r
    BY <1>2, <1>3, <1>4 DEF Disks, ThingOf
  <1>7. \A y : y \in Things(tree) <=> \E o \in Objs : y = <<1, o>>
    <2> TAKE y
    <2>1. y \in Things(tree) <=> \/ \E e \in DOMAIN tree : tree[e].obj = None /\ y = <<e, None>>
                                 \/ \E s \in Disks(tree), o \in Objs : y = <<s, o>>
      BY <1>5, ThingsAre
    <2> QED  BY <1>2, <1>3, <1>4, <1>6, <2>1
  <1>8. r \in Dirs(tree) /\ Dirs(tree) \subseteq Things(tree)
    <2>1. r \in Things(tree)
      BY <1>2, <1>7
    <2> QED  BY <1>2, <2>1 DEF Dirs
  <1>9. NamesOf(tree) \in [Things(tree) -> [Names -> Things(tree) \cup {Nowhere}]]
    <2> SUFFICES ASSUME NEW y \in Things(tree), NEW n \in Names
                 PROVE  NameOf(tree, y, n) \in Things(tree) \cup {Nowhere}
      BY DEF NamesOf
    <2>1. Known(tree, y, n) = {}
      BY <1>3, <1>4 DEF Known
    <2>2. y[1] = 1
      BY <1>7
    <2>3. OnDisk(y, n) \in Things(tree) \cup {Nowhere}
      <3>1. CASE y[2] \in DirObjs /\ n \in DOMAIN Disk[y[2]]
        <4>1. Disk[y[2]][n] \in Objs
          BY <3>1, VfsAssumption
        <4> QED  BY <1>7, <2>2, <3>1, <4>1 DEF OnDisk
      <3>2. CASE ~ (y[2] \in DirObjs /\ n \in DOMAIN Disk[y[2]])
        BY <3>2 DEF OnDisk
      <3> QED  BY <3>1, <3>2
    <2> QED  BY <2>1, <2>3 DEF NameOf
  <1>10. UpsOf(tree)[r] = r
    <2>1. UpOf(tree, r) = r
      BY <1>2 DEF UpOf, Above
    <2> QED  BY <1>8, <2>1 DEF UpsOf
  <1>11. At(tree, root) = [p \in Procs |-> r] /\ At(tree, pwd) = At(tree, root)
    <2>1. \A p \in Procs : root[p] = 1 /\ pwd[p] = 1
      BY <1>1
    <2> QED  BY <1>6, <2>1 DEF At
  <1> HIDE DEF r
  <1> QED  BY <1>8, <1>9, <1>10, <1>11 DEF Abstract!Init

LEMMA NextNamed == IInv /\ [Next]_vars => [Abstract!Next]_(Abstract!vars)
  <1> SUFFICES ASSUME IInv, [Next]_vars PROVE [Abstract!Next]_(Abstract!vars)
    OBVIOUS
  <1>1. CASE UNCHANGED vars
    BY <1>1 DEF vars, Abstract!vars
  <1>2. CASE Next
    <2> PICK p \in Procs :
          \/ \E q \in Procs \ {p} : sys_fork(p, q)
          \/ \E path \in Paths :
                \/ \E n \in Names : sys_mkdir(p, path, n)
                \/ sys_stat(p, path) \/ sys_chdir(p, path) \/ sys_chroot(p, path)
                \/ \E dev \in Devs, obj \in {RootObj, None} : sys_mount(p, dev, path, obj)
      BY <1>2 DEF Next
    <2>1. ASSUME NEW q \in Procs \ {p}, sys_fork(p, q)
          PROVE  Abstract!Next
      <3>1. Abstract!Fork(p, q)
        BY <2>1, ForkCopies
      <3> QED  BY <3>1 DEF Abstract!Next
    <2>2. ASSUME NEW path \in Paths, NEW n \in Names, sys_mkdir(p, path, n)
          PROVE  Abstract!Next
      <3>1. Abstract!Mkdir(p, path, n)
        BY <2>2, MkdirNamed
      <3> QED  BY <3>1 DEF Abstract!Next
    <2>3. ASSUME NEW path \in Paths, sys_stat(p, path)
          PROVE  Abstract!Next
      <3>1. Abstract!Look
        BY <2>3, StatLooks
      <3> QED  BY <3>1 DEF Abstract!Next
    <2>4. ASSUME NEW path \in Paths, sys_chdir(p, path)
          PROVE  Abstract!Next
      <3>1. Abstract!Chdir(p, path)
        BY <2>4, ChdirMoves
      <3> QED  BY <3>1 DEF Abstract!Next
    <2>5. ASSUME NEW path \in Paths, sys_chroot(p, path)
          PROVE  Abstract!Next
      <3>1. Abstract!Chroot(p, path)
        BY <2>5, ChrootMoves
      <3> QED  BY <3>1 DEF Abstract!Next
    <2>6. ASSUME NEW path \in Paths, NEW dev \in Devs, NEW obj \in {RootObj, None},
                 sys_mount(p, dev, path, obj)
          PROVE  Abstract!Next
      <3>1. Abstract!Mount(p, path)
        BY <2>6, MountNamed
      <3> QED  BY <3>1 DEF Abstract!Next
    <2> QED  BY <2>1, <2>2, <2>3, <2>4, <2>5, <2>6
  <1> QED  BY <1>1, <1>2

(* What a path names depends on what was made and mounted, never on what    *)
(* was looked up before: the tree of cached entries, with its lookups,      *)
(* mkdir and mounts, implements a name space in which looking is no change.  *)
THEOREM CacheIsInvisible == Spec => NameSpaceSpec
  <1> QED  BY InitNamed, Invariance, NextNamed, PTL DEF Spec, NameSpaceSpec, Abstract!Spec
=============================================================================
