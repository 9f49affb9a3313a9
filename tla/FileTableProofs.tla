-------------------------- MODULE FileTableProofs --------------------------
(***************************************************************************)
(* The reference counts of the tables of open files are exact, for every   *)
(* number of processes, fds, descriptors and inodes.                       *)
(*                                                                         *)
(* Both counts count places of one table: the places of file_table that    *)
(* hold a descriptor, and the places that lead to an inode through their   *)
(* descriptor.  The lemmas say what the four ways the code changes a table *)
(* (one place filled or cleared, a row copied or cleared) do to the number *)
(* of places that hold a value.                                            *)
(***************************************************************************)
EXTENDS FileTable, FiniteSetTheorems, TLAPS

Places == Slots \X Fds

At(g, x) == {r \in Places : g[r] = x}

InRow(g, p, x) == {fd \in Fds : g[<<p, fd>>] = x}

(* The sets that are counted are finite. *)
LEMMA AtFinite ==
  ASSUME NEW g, NEW x
  PROVE  IsFiniteSet(At(g, x)) /\ Cardinality(At(g, x)) \in Nat
  <1>1. IsFiniteSet(Fds)
    BY FS_Interval, FileTableAssumption DEF Fds
  <1>2. IsFiniteSet(Places)
    BY <1>1, FS_Product, FileTableAssumption DEF Places
  <1>3. At(g, x) \in SUBSET Places
    BY DEF At
  <1>4. IsFiniteSet(At(g, x))
    BY <1>2, <1>3, FS_Subset
  <1> QED
    BY <1>4, FS_CardinalityType

(* The four ways the code changes a table g into h. *)
Filled(V, g, h, r, v) ==
    /\ g \in [Places -> V] /\ r \in Places /\ g[r] = NULL
    /\ h = [g EXCEPT ![r] = v]

Cleared(V, g, h, r) ==
    /\ g \in [Places -> V] /\ r \in Places
    /\ h = [g EXCEPT ![r] = NULL]

RowGone(g, h, p) ==
    /\ p \in Slots
    /\ h = [r \in Places |-> IF r[1] = p THEN NULL ELSE g[r]]

RowGiven(g, h, p, c) ==
    /\ p \in Slots /\ c \in Slots
    /\ \A fd \in Fds : g[<<c, fd>>] = NULL
    /\ h = [r \in Places |-> IF r[1] = c THEN g[<<p, r[2]>>] ELSE g[r]]

(* An empty place is filled. *)
LEMMA PlaceFilled ==
  ASSUME NEW V, NEW g, NEW h, NEW r, NEW v, Filled(V, g, h, r, v), NEW x, x # NULL
  PROVE  Cardinality(At(h, x)) =
            IF x = v THEN Cardinality(At(g, x)) + 1 ELSE Cardinality(At(g, x))
  <1> USE DEF Filled
  <1>1. CASE x = v
    <2>1. At(h, x) = At(g, x) \cup {r} /\ r \notin At(g, x)
      BY <1>1 DEF At
    <2> QED
      BY <1>1, <2>1, AtFinite, FS_AddElement
  <1>2. CASE x # v
    <2>1. At(h, x) = At(g, x)
      BY <1>2 DEF At
    <2> QED
      BY <1>2, <2>1
  <1> QED
    BY <1>1, <1>2

(* A place is cleared. *)
LEMMA PlaceCleared ==
  ASSUME NEW V, NEW g, NEW h, NEW r, Cleared(V, g, h, r), NEW x, x # NULL
  PROVE  Cardinality(At(h, x)) =
            IF x = g[r] THEN Cardinality(At(g, x)) - 1 ELSE Cardinality(At(g, x))
  <1>1. At(h, x) = At(g, x) \ {r} /\ (r \in At(g, x) <=> x = g[r])
    BY DEF At, Cleared
  <1> QED
    BY <1>1, AtFinite, FS_RemoveElement

(* A row of places is as large as its set of fds. *)
LEMMA RowSize ==
  ASSUME NEW g, NEW p, NEW x, NEW c
  PROVE  /\ IsFiniteSet({c} \X InRow(g, p, x))
         /\ Cardinality({c} \X InRow(g, p, x)) = Cardinality(InRow(g, p, x))
         /\ Cardinality(InRow(g, p, x)) \in Nat
  <1>1. IsFiniteSet(Fds)
    BY FS_Interval, FileTableAssumption DEF Fds
  <1>2. IsFiniteSet(InRow(g, p, x))
    BY <1>1, FS_Subset DEF InRow
  <1>3. Cardinality(InRow(g, p, x)) \in Nat
    BY <1>2, FS_CardinalityType
  <1>4. IsFiniteSet({c}) /\ Cardinality({c}) = 1
    BY FS_Singleton
  <1> QED
    BY <1>2, <1>3, <1>4, FS_Product

(* A row is cleared. *)
LEMMA RowCleared ==
  ASSUME NEW g, NEW h, NEW p, RowGone(g, h, p), NEW x, x # NULL
  PROVE  Cardinality(At(h, x)) = Cardinality(At(g, x)) - Cardinality(InRow(g, p, x))
  <1> DEFINE Row == {p} \X InRow(g, p, x)
  <1>1. \A r \in Places : r = <<r[1], r[2]>> /\ r[1] \in Slots /\ r[2] \in Fds
    BY DEF Places
  <1>2. \A r : r \in Row <=> r \in Places /\ r[1] = p /\ g[r] = x
    BY <1>1 DEF InRow, Places, RowGone
  <1>3. At(h, x) = At(g, x) \ Row
    BY <1>2 DEF At, RowGone
  <1>4. At(g, x) \cap Row = Row
    BY <1>2 DEF At
  <1>5. Cardinality(At(h, x)) = Cardinality(At(g, x)) - Cardinality(Row)
    BY <1>3, <1>4, AtFinite, FS_Difference
  <1>6. Cardinality(Row) = Cardinality(InRow(g, p, x))
    BY RowSize
  <1> QED
    BY <1>5, <1>6

(* Row p is copied over the empty row c. *)
LEMMA RowCopied ==
  ASSUME NEW g, NEW h, NEW p, NEW c, RowGiven(g, h, p, c), NEW x, x # NULL
  PROVE  Cardinality(At(h, x)) = Cardinality(At(g, x)) + Cardinality(InRow(g, p, x))
  <1> DEFINE Row == {c} \X InRow(g, p, x)
  <1>1. \A r \in Places : r = <<r[1], r[2]>> /\ r[1] \in Slots /\ r[2] \in Fds
    BY DEF Places
  <1>2. \A r : r \in Row <=> r \in Places /\ r[1] = c /\ g[<<p, r[2]>>] = x
    BY <1>1 DEF InRow, Places, RowGiven
  <1>3. \A r \in Places : r[1] = c => g[r] # x
    BY <1>1 DEF RowGiven
  <1>4. At(h, x) = At(g, x) \cup Row /\ At(g, x) \cap Row = {}
    BY <1>2, <1>3 DEF At, RowGiven
  <1>5. IsFiniteSet(Row) /\ Cardinality(Row) = Cardinality(InRow(g, p, x))
        /\ Cardinality(InRow(g, p, x)) \in Nat
    BY RowSize
  <1> HIDE DEF Row
  <1>6. Cardinality(At(h, x)) =
           Cardinality(At(g, x)) + Cardinality(Row) - Cardinality(At(g, x) \cap Row)
    BY <1>4, <1>5, AtFinite, FS_Union
  <1>7. Cardinality(At(g, x) \cap Row) = 0
    BY <1>4, FS_EmptySet
  <1> QED
    BY <1>5, <1>6, <1>7, AtFinite

-----------------------------------------------------------------------------
(* Where a place leads to: the table whose entries InodeCounts counts.      *)
Node == [r \in Places |-> IF file_table[r] = NULL THEN NULL ELSE inode[file_table[r]]]

(* The inductive invariant. *)
IInv ==
    /\ TypeOK
    /\ HoldersAlive
    /\ DescCounts
    /\ InodeCounts

(* The counts, and what fork and exit add to them, in terms of the lemmas.  *)
LEMMA CountsAreSizes ==
  /\ \A d : Refs(d) = At(file_table, d)
  /\ \A i \in Inodes : InodeRefs(i) = At(Node, i)
  /\ \A p, d : FdsOn(p, d) = InRow(file_table, p, d)
  /\ \A p \in Slots, i \in Inodes : FdsOnInode(p, i) = InRow(Node, p, i)
  <1>1. \A i \in Inodes : i # NULL
    BY FileTableAssumption DEF NULL
  <1>2. \A p \in Slots, i \in Inodes : FdsOnInode(p, i) = InRow(Node, p, i)
    BY <1>1 DEF FdsOnInode, InRow, Node, Places
  <1> QED
    BY <1>1, <1>2 DEF Refs, InodeRefs, FdsOn, InRow, At, Node, Places

(* Two steps of one kind keep the counts of two tables; this is what has to *)
(* be known of both tables after a step.                                    *)
CountsKept ==
    /\ \A d \in Descs : used_count'[d] = Cardinality(At(file_table', d))
    /\ \A i \in Inodes : i_used_count'[i] = Cardinality(At(Node', i))

LEMMA CountsSuffice ==
  ASSUME file_table' \in [Places -> Descs \cup {NULL}],
         used_count' = [d \in Descs |-> used_count'[d]],
         i_used_count' = [i \in Inodes |-> i_used_count'[i]],
         CountsKept
  PROVE  /\ DescCounts' /\ InodeCounts'
         /\ used_count' \in [Descs -> Nat]
         /\ i_used_count' \in [Inodes -> Nat]
  <1>1. \A d : Refs(d)' = At(file_table', d)
    BY DEF Refs, At, Places
  <1>2. \A i \in Inodes : InodeRefs(i)' = At(Node', i)
    BY FileTableAssumption DEF InodeRefs, At, Node, Places, NULL
  <1>3. DescCounts' /\ InodeCounts'
    BY <1>1, <1>2 DEF CountsKept, DescCounts, InodeCounts
  <1>4. \A d \in Descs : used_count'[d] \in Nat
    BY AtFinite DEF CountsKept
  <1>5. \A i \in Inodes : i_used_count'[i] \in Nat
    BY AtFinite DEF CountsKept
  <1> QED
    BY <1>3, <1>4, <1>5

-----------------------------------------------------------------------------
(* What the invariant says of the types, in the form the steps use. *)
LEMMA TypesOf ==
  ASSUME IInv
  PROVE  /\ file_table \in [Places -> Descs \cup {NULL}]
         /\ Node \in [Places -> Inodes \cup {NULL}]
         /\ \A r \in Places : file_table[r] # NULL =>
               /\ file_table[r] \in Descs /\ Node[r] \in Inodes
               /\ Node[r] = inode[file_table[r]] /\ Node[r] # NULL
         /\ \A r \in Places : file_table[r] = NULL => Node[r] = NULL
         /\ \A d \in Descs : d # NULL
         /\ \A i \in Inodes : i # NULL
  <1>1. file_table \in [Places -> Descs \cup {NULL}] /\ inode \in [Descs -> Inodes \cup {NULL}]
    BY DEF IInv, TypeOK, Places
  <1>2. (\A d \in Descs : d # NULL) /\ (\A i \in Inodes : i # NULL)
    BY FileTableAssumption DEF Descs, NULL
  <1>3. \A r \in Places : r = <<r[1], r[2]>> /\ r[1] \in Slots /\ r[2] \in Fds
    BY DEF Places
  <1>4. \A r \in Places : file_table[r] # NULL => inode[file_table[r]] # NULL
    BY <1>3 DEF IInv, HoldersAlive
  <1> QED
    BY <1>1, <1>2, <1>4 DEF Node

(* The sizes of the two tables are the counts. *)
LEMMA SizesOf ==
  ASSUME IInv
  PROVE  /\ \A d \in Descs : used_count[d] = Cardinality(At(file_table, d))
         /\ \A i \in Inodes : i_used_count[i] = Cardinality(At(Node, i))
  BY CountsAreSizes DEF IInv, DescCounts, InodeCounts

(* open takes a descriptor no place holds, so its count starts at 1. *)
LEMMA OpenStep ==
  ASSUME IInv, NEW p \in Slots, NEW i \in Inodes, sys_open(p, i)
  PROVE  IInv'
  <1>1. PICK fd \in Fds, d \in Descs :
           /\ FreeFd(p, fd) /\ FreeDesc(d)
           /\ file_table' = [file_table EXCEPT ![<<p, fd>>] = d]
           /\ inode' = [inode EXCEPT ![d] = i]
           /\ used_count' = [used_count EXCEPT ![d] = 1]
    BY DEF sys_open
  <1> DEFINE r == <<p, fd>>
  <1>2. /\ r \in Places /\ file_table[r] = NULL /\ inode[d] = NULL
        /\ life[p] = "live" /\ UNCHANGED <<life, parent>>
        /\ i_used_count' = [i_used_count EXCEPT ![i] = @ + 1]
    BY <1>1 DEF sys_open, FreeFd, FreeDesc, Places
  <1> HIDE DEF r
  <1>3. \A q \in Places : file_table[q] # d
    BY <1>2, TypesOf
  <1>4. /\ life \in [Slots -> {"free", "live", "zombie"}]
        /\ inode \in [Descs -> Inodes \cup {NULL}]
        /\ used_count \in [Descs -> Nat] /\ i_used_count \in [Inodes -> Nat]
    BY DEF IInv, TypeOK
  <1>5. Node' = [Node EXCEPT ![r] = i]
    BY <1>1, <1>2, <1>3, <1>4, TypesOf DEF Node, r
  <1>6. \A x \in Descs : used_count'[x] = Cardinality(At(file_table', x))
    <2> SUFFICES ASSUME NEW x \in Descs
                 PROVE  used_count'[x] = Cardinality(At(file_table', x))
      OBVIOUS
    <2>1. At(file_table, d) = {}
      BY <1>3 DEF At
    <2>2. Cardinality(At(file_table, d)) = 0
      BY <2>1, FS_EmptySet
    <2>3. Cardinality(At(file_table', x)) =
            IF x = d THEN Cardinality(At(file_table, x)) + 1 ELSE Cardinality(At(file_table, x))
      <3>1. Filled(Descs \cup {NULL}, file_table, file_table', r, d) /\ x # NULL
        BY <1>1, <1>2, TypesOf DEF Filled, r
      <3> QED
        BY <3>1, PlaceFilled
    <2> QED
      BY <1>1, <1>4, <2>2, <2>3, SizesOf
  <1>7. \A x \in Inodes : i_used_count'[x] = Cardinality(At(Node', x))
    <2> SUFFICES ASSUME NEW x \in Inodes
                 PROVE  i_used_count'[x] = Cardinality(At(Node', x))
      OBVIOUS
    <2>1. Filled(Inodes \cup {NULL}, Node, Node', r, i) /\ x # NULL
      BY <1>2, <1>5, TypesOf DEF Filled
    <2>2. Cardinality(At(Node', x)) =
            IF x = i THEN Cardinality(At(Node, x)) + 1 ELSE Cardinality(At(Node, x))
      BY <2>1, PlaceFilled
    <2> QED
      BY <1>2, <1>4, <2>2, SizesOf
  <1>8. file_table' \in [Places -> Descs \cup {NULL}]
    BY <1>1, TypesOf
  <1>9. DescCounts' /\ InodeCounts' /\ used_count' \in [Descs -> Nat]
        /\ i_used_count' \in [Inodes -> Nat]
    BY <1>1, <1>2, <1>4, <1>6, <1>7, <1>8, CountsSuffice DEF CountsKept
  <1>10. TypeOK'
    BY <1>1, <1>2, <1>4, <1>8, <1>9 DEF TypeOK, Places
  <1>11. HoldersAlive'
    <2> SUFFICES ASSUME NEW q \in Slots, NEW e \in Fds, file_table'[<<q, e>>] # NULL
                 PROVE  life'[q] = "live" /\ inode'[file_table'[<<q, e>>]] # NULL
      BY DEF HoldersAlive
    <2>1. <<q, e>> \in Places
      BY DEF Places
    <2>2. CASE <<q, e>> = r
      BY <1>1, <1>2, <1>4, <2>1, <2>2, TypesOf DEF r
    <2>3. CASE <<q, e>> # r
      <3>1. file_table'[<<q, e>>] = file_table[<<q, e>>]
        BY <1>1, <2>1, <2>3, TypesOf DEF r
      <3> QED
        BY <1>1, <1>2, <1>3, <1>4, <2>1, <3>1, TypesOf DEF IInv, HoldersAlive
    <2> QED
      BY <2>2, <2>3
  <1> QED
    BY <1>9, <1>10, <1>11 DEF IInv

(* close gives back one place, and one of each count. *)
LEMMA CloseStep ==
  ASSUME IInv, NEW p \in Slots, NEW fd \in Fds, sys_close(p, fd)
  PROVE  IInv'
  <1> DEFINE r == <<p, fd>>
             d == file_table[r]
             i == Node[r]
  <1>1. /\ r \in Places /\ d # NULL
        /\ file_table' = [file_table EXCEPT ![r] = NULL]
        /\ used_count' = [used_count EXCEPT ![d] = @ - 1]
        /\ i_used_count' = [i_used_count EXCEPT ![inode[d]] = @ - 1]
        /\ UNCHANGED <<life, parent, inode>>
    BY DEF sys_close, Places
  <1>2. d \in Descs /\ i \in Inodes /\ i = inode[d]
    BY <1>1, TypesOf
  <1> HIDE DEF r, d, i
  <1>3. /\ life \in [Slots -> {"free", "live", "zombie"}]
        /\ inode \in [Descs -> Inodes \cup {NULL}]
        /\ used_count \in [Descs -> Nat] /\ i_used_count \in [Inodes -> Nat]
    BY DEF IInv, TypeOK
  <1>4. Node' = [Node EXCEPT ![r] = NULL]
    BY <1>1, TypesOf DEF Node
  <1>5. Cleared(Descs \cup {NULL}, file_table, file_table', r)
    BY <1>1, TypesOf DEF Cleared
  <1>6. Cleared(Inodes \cup {NULL}, Node, Node', r)
    BY <1>1, <1>4, TypesOf DEF Cleared
  <1>7. ASSUME NEW x \in Descs
        PROVE  used_count'[x] = Cardinality(At(file_table', x))
    <2>1. Cardinality(At(file_table', x)) =
            IF x = d THEN Cardinality(At(file_table, x)) - 1 ELSE Cardinality(At(file_table, x))
      BY <1>5, TypesOf, PlaceCleared DEF d
    <2> QED
      BY <1>1, <1>3, <2>1, SizesOf
  <1>8. ASSUME NEW x \in Inodes
        PROVE  i_used_count'[x] = Cardinality(At(Node', x))
    <2>1. Cardinality(At(Node', x)) =
            IF x = i THEN Cardinality(At(Node, x)) - 1 ELSE Cardinality(At(Node, x))
      BY <1>6, TypesOf, PlaceCleared DEF i
    <2> QED
      BY <1>1, <1>2, <1>3, <2>1, SizesOf
  <1>9. file_table' \in [Places -> Descs \cup {NULL}]
    BY <1>1, TypesOf
  <1>10. DescCounts' /\ InodeCounts' /\ used_count' \in [Descs -> Nat]
         /\ i_used_count' \in [Inodes -> Nat]
    BY <1>1, <1>3, <1>7, <1>8, <1>9, CountsSuffice DEF CountsKept
  <1>11. TypeOK'
    BY <1>1, <1>3, <1>9, <1>10 DEF TypeOK, Places
  <1>12. HoldersAlive'
    <2>1. \A q \in Places : file_table'[q] # NULL => file_table'[q] = file_table[q]
      BY <1>1, TypesOf
    <2> QED
      BY <1>1, <2>1 DEF IInv, HoldersAlive, Places
  <1> QED
    BY <1>10, <1>11, <1>12 DEF IInv

(* dup fills a place with a descriptor another place of the process holds. *)
LEMMA DupStep ==
  ASSUME IInv, NEW p \in Slots, NEW oldfd \in Fds, sys_dup(p, oldfd)
  PROVE  IInv'
  <1> DEFINE o == <<p, oldfd>>
             d == file_table[o]
             i == Node[o]
  <1>1. PICK fd \in Fds : FreeFd(p, fd) /\ file_table' = [file_table EXCEPT ![<<p, fd>>] = d]
    BY DEF sys_dup
  <1> DEFINE r == <<p, fd>>
  <1>2. /\ o \in Places /\ r \in Places /\ d # NULL /\ file_table[r] = NULL
        /\ life[p] = "live"
        /\ file_table' = [file_table EXCEPT ![r] = d]
        /\ used_count' = [used_count EXCEPT ![d] = @ + 1]
        /\ i_used_count' = [i_used_count EXCEPT ![inode[d]] = @ + 1]
        /\ UNCHANGED <<life, parent, inode>>
    BY <1>1 DEF sys_dup, FreeFd, Places
  <1>3. d \in Descs /\ i \in Inodes /\ i = inode[d] /\ i # NULL
    BY <1>2, TypesOf
  <1> HIDE DEF o, d, i
  <1>4. /\ life \in [Slots -> {"free", "live", "zombie"}]
        /\ inode \in [Descs -> Inodes \cup {NULL}]
        /\ used_count \in [Descs -> Nat] /\ i_used_count \in [Inodes -> Nat]
    BY DEF IInv, TypeOK
  <1>5. Filled(Descs \cup {NULL}, file_table, file_table', r, d)
    BY <1>2, TypesOf DEF Filled
  <1>6. Filled(Inodes \cup {NULL}, Node, Node', r, i)
    <2>1. Node' = [Node EXCEPT ![r] = i]
      BY <1>2, <1>3, TypesOf DEF Node
    <2> QED
      BY <1>2, <2>1, TypesOf DEF Filled
  <1>7. ASSUME NEW x \in Descs
        PROVE  used_count'[x] = Cardinality(At(file_table', x))
    <2>1. Cardinality(At(file_table', x)) =
            IF x = d THEN Cardinality(At(file_table, x)) + 1 ELSE Cardinality(At(file_table, x))
      BY <1>5, TypesOf, PlaceFilled
    <2> QED
      BY <1>2, <1>4, <2>1, SizesOf
  <1>8. ASSUME NEW x \in Inodes
        PROVE  i_used_count'[x] = Cardinality(At(Node', x))
    <2>1. Cardinality(At(Node', x)) =
            IF x = i THEN Cardinality(At(Node, x)) + 1 ELSE Cardinality(At(Node, x))
      BY <1>6, TypesOf, PlaceFilled
    <2> QED
      BY <1>2, <1>3, <1>4, <2>1, SizesOf
  <1>9. file_table' \in [Places -> Descs \cup {NULL}]
    BY <1>2, <1>3, TypesOf
  <1>10. DescCounts' /\ InodeCounts' /\ used_count' \in [Descs -> Nat]
         /\ i_used_count' \in [Inodes -> Nat]
    BY <1>2, <1>4, <1>7, <1>8, <1>9, CountsSuffice DEF CountsKept
  <1>11. TypeOK'
    BY <1>2, <1>4, <1>9, <1>10 DEF TypeOK, Places
  <1>12. HoldersAlive'
    <2>1. \A q \in Places : q # r => file_table'[q] = file_table[q]
      BY <1>2, TypesOf
    <2>2. file_table'[r] = d
      BY <1>2, TypesOf
    <2> QED
      BY <1>2, <1>3, <2>1, <2>2 DEF IInv, HoldersAlive, Places
  <1> QED
    BY <1>10, <1>11, <1>12 DEF IInv

(* fork copies a row over the row of a free slot, which is empty. *)
LEMMA ForkStep ==
  ASSUME IInv, NEW p \in Slots, NEW c \in Slots, sys_fork(p, c)
  PROVE  IInv'
  <1>1. /\ life[p] = "live" /\ life[c] = "free"
        /\ life' = [life EXCEPT ![c] = "live"]
        /\ file_table' = [r \in Places |->
                             IF r[1] = c THEN file_table[<<p, r[2]>>] ELSE file_table[r]]
        /\ used_count' = [x \in Descs |-> used_count[x] + Cardinality(FdsOn(p, x))]
        /\ i_used_count' = [x \in Inodes |->
                               i_used_count[x] + Cardinality(FdsOnInode(p, x))]
        /\ UNCHANGED inode
    BY DEF sys_fork, Life!Fork, Places
  <1>2. /\ life \in [Slots -> {"free", "live", "zombie"}]
        /\ inode \in [Descs -> Inodes \cup {NULL}]
        /\ used_count \in [Descs -> Nat] /\ i_used_count \in [Inodes -> Nat]
    BY DEF IInv, TypeOK
  <1>3. \A r \in Places : r = <<r[1], r[2]>> /\ r[1] \in Slots /\ r[2] \in Fds
                          /\ <<p, r[2]>> \in Places
    BY DEF Places
  <1>4. \A fd \in Fds : file_table[<<c, fd>>] = NULL
    BY <1>1 DEF IInv, HoldersAlive
  <1>5. RowGiven(file_table, file_table', p, c)
    BY <1>1, <1>4 DEF RowGiven
  <1>6. file_table' \in [Places -> Descs \cup {NULL}]
    BY <1>1, <1>3, TypesOf
  <1>7. RowGiven(Node, Node', p, c)
    <2>1. \A r \in Places : Node'[r] = IF r[1] = c THEN Node[<<p, r[2]>>] ELSE Node[r]
      BY <1>1, <1>3, TypesOf DEF Node
    <2>2. Node' = [r \in Places |-> IF r[1] = c THEN Node[<<p, r[2]>>] ELSE Node[r]]
      BY <2>1 DEF Node
    <2>3. \A fd \in Fds : Node[<<c, fd>>] = NULL
      BY <1>4, TypesOf DEF Places
    <2> QED
      BY <2>2, <2>3 DEF RowGiven
  <1>8. ASSUME NEW x \in Descs
        PROVE  used_count'[x] = Cardinality(At(file_table', x))
    <2>1. Cardinality(At(file_table', x)) =
             Cardinality(At(file_table, x)) + Cardinality(InRow(file_table, p, x))
      BY <1>5, TypesOf, RowCopied
    <2> QED
      BY <1>1, <2>1, SizesOf, CountsAreSizes
  <1>9. ASSUME NEW x \in Inodes
        PROVE  i_used_count'[x] = Cardinality(At(Node', x))
    <2>1. Cardinality(At(Node', x)) =
             Cardinality(At(Node, x)) + Cardinality(InRow(Node, p, x))
      BY <1>7, TypesOf, RowCopied
    <2> QED
      BY <1>1, <2>1, SizesOf, CountsAreSizes
  <1>10. DescCounts' /\ InodeCounts' /\ used_count' \in [Descs -> Nat]
         /\ i_used_count' \in [Inodes -> Nat]
    BY <1>1, <1>6, <1>8, <1>9, CountsSuffice DEF CountsKept
  <1>11. TypeOK'
    BY <1>1, <1>2, <1>6, <1>10 DEF TypeOK, Places
  <1>12. HoldersAlive'
    <2>1. \A q \in Slots, fd \in Fds :
             file_table'[<<q, fd>>] = IF q = c THEN file_table[<<p, fd>>] ELSE file_table[<<q, fd>>]
      BY <1>1 DEF Places
    <2> QED
      BY <1>1, <1>2, <2>1 DEF IInv, HoldersAlive
  <1> QED
    BY <1>10, <1>11, <1>12 DEF IInv

(* exit clears a row. *)
LEMMA ExitStep ==
  ASSUME IInv, NEW p \in Slots, sys_exit(p)
  PROVE  IInv'
  <1>1. /\ life[p] = "live"
        /\ life' = [life EXCEPT ![p] = "zombie"]
        /\ file_table' = [r \in Places |-> IF r[1] = p THEN NULL ELSE file_table[r]]
        /\ used_count' = [x \in Descs |-> used_count[x] - Cardinality(FdsOn(p, x))]
        /\ i_used_count' = [x \in Inodes |->
                               i_used_count[x] - Cardinality(FdsOnInode(p, x))]
        /\ UNCHANGED inode
    BY DEF sys_exit, Closed, Life!Exit, Places
  <1>2. /\ life \in [Slots -> {"free", "live", "zombie"}]
        /\ inode \in [Descs -> Inodes \cup {NULL}]
        /\ used_count \in [Descs -> Nat] /\ i_used_count \in [Inodes -> Nat]
    BY DEF IInv, TypeOK
  <1>3. RowGone(file_table, file_table', p)
    BY <1>1 DEF RowGone
  <1>4. file_table' \in [Places -> Descs \cup {NULL}]
    BY <1>1, TypesOf
  <1>5. RowGone(Node, Node', p)
    <2>1. \A r \in Places : Node'[r] = IF r[1] = p THEN NULL ELSE Node[r]
      BY <1>1, TypesOf DEF Node
    <2>2. Node' = [r \in Places |-> IF r[1] = p THEN NULL ELSE Node[r]]
      BY <2>1 DEF Node
    <2> QED
      BY <2>2 DEF RowGone
  <1>6. ASSUME NEW x \in Descs
        PROVE  used_count'[x] = Cardinality(At(file_table', x))
    <2>1. Cardinality(At(file_table', x)) =
             Cardinality(At(file_table, x)) - Cardinality(InRow(file_table, p, x))
      BY <1>3, TypesOf, RowCleared
    <2> QED
      BY <1>1, <2>1, SizesOf, CountsAreSizes
  <1>7. ASSUME NEW x \in Inodes
        PROVE  i_used_count'[x] = Cardinality(At(Node', x))
    <2>1. Cardinality(At(Node', x)) =
             Cardinality(At(Node, x)) - Cardinality(InRow(Node, p, x))
      BY <1>5, TypesOf, RowCleared
    <2> QED
      BY <1>1, <2>1, SizesOf, CountsAreSizes
  <1>8. DescCounts' /\ InodeCounts' /\ used_count' \in [Descs -> Nat]
        /\ i_used_count' \in [Inodes -> Nat]
    BY <1>1, <1>4, <1>6, <1>7, CountsSuffice DEF CountsKept
  <1>9. TypeOK'
    BY <1>1, <1>2, <1>4, <1>8 DEF TypeOK, Places
  <1>10. HoldersAlive'
    <2>1. \A q \in Slots, fd \in Fds :
             file_table'[<<q, fd>>] = IF q = p THEN NULL ELSE file_table[<<q, fd>>]
      BY <1>1 DEF Places
    <2> QED
      BY <1>1, <1>2, <2>1 DEF IInv, HoldersAlive
  <1> QED
    BY <1>8, <1>9, <1>10 DEF IInv

(* A step that leaves the files alone, and no holder without its life.      *)
LEMMA ReapStep ==
  ASSUME IInv, NEW p \in Slots, NEW c \in Slots, sys_waitpid(p, c)
  PROVE  IInv'
  <1>1. /\ life[c] = "zombie" /\ life' = [life EXCEPT ![c] = "free"]
        /\ UNCHANGED <<file_table, inode, used_count, i_used_count>>
    BY DEF sys_waitpid, Life!Reap, files
  <1>2. TypeOK'
    BY <1>1 DEF IInv, TypeOK
  <1>3. HoldersAlive'
    BY <1>1 DEF IInv, TypeOK, HoldersAlive
  <1>4. DescCounts' /\ InodeCounts'
    BY <1>1 DEF IInv, DescCounts, InodeCounts, Refs, InodeRefs
  <1> QED
    BY <1>2, <1>3, <1>4 DEF IInv

LEMMA InitIInv == Init => IInv
  <1> SUFFICES ASSUME Init PROVE IInv
    OBVIOUS
  <1>1. TypeOK /\ HoldersAlive
    BY FileTableAssumption DEF Init, Life!Init, TypeOK, HoldersAlive
  <1>2. ASSUME NEW d \in Descs PROVE Refs(d) = {}
    BY DEF Init, Refs, Descs, NULL
  <1>3. ASSUME NEW i \in Inodes PROVE InodeRefs(i) = {}
    BY DEF Init, InodeRefs
  <1>4. Cardinality({}) = 0
    BY FS_EmptySet
  <1>5. DescCounts
    BY <1>2, <1>4 DEF Init, DescCounts
  <1>6. InodeCounts
    BY <1>3, <1>4 DEF Init, InodeCounts
  <1> QED
    BY <1>1, <1>5, <1>6 DEF IInv

LEMMA NextIInv == IInv /\ [Next]_vars => IInv'
  <1> SUFFICES ASSUME IInv, [Next]_vars PROVE IInv'
    OBVIOUS
  <1>1. ASSUME NEW p \in Slots, NEW i \in Inodes, sys_open(p, i) PROVE IInv'
    BY <1>1, OpenStep
  <1>2. ASSUME NEW p \in Slots, NEW fd \in Fds, sys_close(p, fd) PROVE IInv'
    BY <1>2, CloseStep
  <1>3. ASSUME NEW p \in Slots, NEW fd \in Fds, sys_dup(p, fd) PROVE IInv'
    BY <1>3, DupStep
  <1>4. ASSUME NEW p \in Slots, NEW c \in Slots, sys_fork(p, c) PROVE IInv'
    BY <1>4, ForkStep
  <1>5. ASSUME NEW p \in Slots, NEW c \in Slots, sys_waitpid(p, c) PROVE IInv'
    BY <1>5, ReapStep
  <1>6. ASSUME NEW p \in Slots, sys_exit(p) PROVE IInv'
    BY <1>6, ExitStep
  <1>7. CASE UNCHANGED vars
    BY <1>7 DEF vars, IInv, TypeOK, HoldersAlive, DescCounts, InodeCounts, Refs, InodeRefs
  <1> QED
    BY <1>1, <1>2, <1>3, <1>4, <1>5, <1>6, <1>7 DEF Next

(* The invariant holds in every reachable state. *)
THEOREM Invariance == Spec => []IInv
  BY InitIInv, NextIInv, PTL DEF Spec

(* The tables keep their types; no count ever becomes negative, whatever    *)
(* the order in which processes open, dup, fork, close and exit.            *)
THEOREM TypeCorrect == Spec => []TypeOK
  <1>1. IInv => TypeOK
    BY DEF IInv
  <1> QED
    BY <1>1, Invariance, PTL

(* Only live processes hold descriptors, and only descriptors with an inode *)
(* are held (sys_open, sys_exit and the copy in sys_fork).                  *)
THEOREM HoldersAreAlive == Spec => []HoldersAlive
  <1>1. IInv => HoldersAlive
    BY DEF IInv
  <1> QED
    BY <1>1, Invariance, PTL

(* A descriptor's used_count is exactly the number of fds that lead to it. *)
THEOREM DescCountsExact == Spec => []DescCounts
  <1>1. IInv => DescCounts
    BY DEF IInv
  <1> QED
    BY <1>1, Invariance, PTL

(* An inode's used_count is exactly the number of fds that lead to it. *)
THEOREM InodeCountsExact == Spec => []InodeCounts
  <1>1. IInv => InodeCounts
    BY DEF IInv
  <1> QED
    BY <1>1, Invariance, PTL

-----------------------------------------------------------------------------
(* Only sys_open writes an inode pointer, that of a descriptor nobody       *)
(* holds.                                                                   *)
KeepsFile ==
    \A r \in Slots \X Fds :
        file_table[r] # NULL /\ file_table'[r] = file_table[r] =>
            inode'[file_table[r]] = inode[file_table[r]]

LEMMA KeepsFileStep == IInv /\ [Next]_vars => [KeepsFile]_vars
  <1> SUFFICES ASSUME IInv, Next PROVE KeepsFile
    BY DEF KeepsFile
  <1>1. ASSUME NEW p \in Slots, NEW i \in Inodes, sys_open(p, i) PROVE KeepsFile
    <2>1. PICK d \in Descs : inode[d] = NULL /\ inode' = [inode EXCEPT ![d] = i]
      BY <1>1 DEF sys_open, FreeDesc
    <2>2. \A r \in Places : file_table[r] # NULL =>
             file_table[r] \in Descs /\ inode[file_table[r]] # NULL
      BY TypesOf
    <2>3. inode \in [Descs -> Inodes \cup {NULL}]
      BY DEF IInv, TypeOK
    <2> QED
      BY <2>1, <2>2, <2>3 DEF KeepsFile, Places
  <1>2. CASE UNCHANGED inode
    BY <1>2 DEF KeepsFile
  <1>3. \A p \in Slots, fd \in Fds : sys_close(p, fd) \/ sys_dup(p, fd) => UNCHANGED inode
    BY DEF sys_close, sys_dup
  <1>4. \A p, c \in Slots : sys_fork(p, c) \/ sys_waitpid(p, c) \/ sys_exit(p) => UNCHANGED inode
    BY DEF sys_fork, sys_waitpid, sys_exit, files
  <1> QED
    BY <1>1, <1>2, <1>3, <1>4 DEF Next

(* An fd that is kept names the same file, whatever other processes open,   *)
(* dup and close in between.                                                *)
THEOREM FdsKeepFiles == Spec => FdKeepsFile
  <1>1. KeepsFile = (\A r \in Slots \X Fds :
          file_table[r] # NULL /\ file_table'[r] = file_table[r] =>
              inode'[file_table[r]] = inode[file_table[r]])
    BY DEF KeepsFile
  <1>2. IInv /\ [Next]_vars => [\A r \in Slots \X Fds :
          file_table[r] # NULL /\ file_table'[r] = file_table[r] =>
              inode'[file_table[r]] = inode[file_table[r]]]_vars
    BY <1>1, KeepsFileStep
  <1> QED
    BY <1>2, Invariance, PTL DEF Spec, FdKeepsFile
=============================================================================
