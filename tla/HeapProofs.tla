--------------------------- MODULE HeapProofs -----------------------------
(***************************************************************************)
(* Both heaps of the kernel are heaps.  The bucket allocator loses no      *)
(* frame, descriptor or block, for any memory, page size, bucket sizes and *)
(* lengths of requests; the byte heap loses no byte, for any size of the   *)
(* heap, any sizes of blocks and any bits set at boot.                     *)
(*                                                                         *)
(* The invariant of the bucket allocator adds to the properties that every *)
(* block handed out lies in a page of a bucket in use.  With it, what      *)
(* happens in one bucket is seen to leave the others alone, as no two have *)
(* the same page.                                                          *)
(***************************************************************************)
EXTENDS KMalloc, VMalloc, FiniteSetTheorems, TLAPS

Housed == \A b \in held : \E s \in Sizes : \E d \in chain[s] : page[d] = b.page

IInv == TypeOK /\ FramesAccounted /\ BlocksAccounted /\ Housed /\ IsFiniteSet(held)

(* Multiples of a size are apart by the size. *)
LEMMA Multiples ==
  ASSUME NEW i \in Nat, NEW j \in Nat, NEW s \in Nat, i < j
  PROVE  i * s \in Nat /\ j * s \in Nat /\ i * s + s <= j * s
  <1>1. PICK k \in Nat : j = i + 1 + k
    <2>1. j - i - 1 \in Nat /\ j = i + 1 + (j - i - 1)
      OBVIOUS
    <2> QED  BY <2>1
  <1>2. j * s = i * s + s + k * s
    BY <1>1
  <1>3. i * s \in Nat /\ k * s \in Nat
    OBVIOUS
  <1> QED  BY <1>2, <1>3

LEMMA SizesAre == \A s \in Sizes : s \in Nat \ {0} /\ s <= PAGE_SIZE
  BY KMallocAssumption

(* The blocks that kmalloc cuts a page into lie in the page. *)
LEMMA CutInPage ==
  ASSUME NEW s \in Sizes, NEW x \in Cut(s)
  PROVE  x \in 0 .. PAGE_SIZE - 1 /\ x + s <= PAGE_SIZE
  <1>1. s \in Nat \ {0} /\ PAGE_SIZE \in Nat
    BY SizesAre, KMallocAssumption
  <1> DEFINE q == PAGE_SIZE \div s
  <1>2. q \in Nat /\ PAGE_SIZE % s \in Nat /\ PAGE_SIZE = s * q + (PAGE_SIZE % s)
    BY <1>1
  <1> HIDE DEF q
  <1>3. PICK i \in 0 .. q - 1 : x = i * s
    BY DEF Cut, q
  <1>4. i \in Nat /\ i < q
    BY <1>2, <1>3
  <1>5. i * s \in Nat /\ i * s + s <= q * s
    BY <1>1, <1>2, <1>4, Multiples
  <1>6. q * s = s * q /\ s * q \in Nat /\ s * q <= PAGE_SIZE
    BY <1>1, <1>2
  <1>7. x \in Nat /\ x + s <= PAGE_SIZE
    BY <1>1, <1>3, <1>5, <1>6
  <1> QED  BY <1>1, <1>7

(* Two blocks cut from a page share no byte. *)
LEMMA CutApart ==
  ASSUME NEW s \in Sizes, NEW x \in Cut(s), NEW y \in Cut(s), x # y,
         NEW m \in Nat, NEW n \in Nat, m <= s, n <= s
  PROVE  (x .. x + m - 1) \cap (y .. y + n - 1) = {}
  <1>1. s \in Nat \ {0} /\ PAGE_SIZE \in Nat
    BY SizesAre, KMallocAssumption
  <1> DEFINE q == PAGE_SIZE \div s
  <1>2. q \in Nat
    BY <1>1
  <1> HIDE DEF q
  <1>3. PICK i \in 0 .. q - 1 : x = i * s
    BY DEF Cut, q
  <1>4. PICK j \in 0 .. q - 1 : y = j * s
    BY DEF Cut, q
  <1>5. i \in Nat /\ j \in Nat /\ i # j
    BY <1>2, <1>3, <1>4
  <1>6. x \in Nat /\ y \in Nat /\ (x + s <= y \/ y + s <= x)
    <2>1. CASE i < j
      BY <1>1, <1>3, <1>4, <1>5, <2>1, Multiples
    <2>2. CASE j < i
      BY <1>1, <1>3, <1>4, <1>5, <2>2, Multiples
    <2> QED  BY <1>5, <2>1, <2>2
  <1> QED  BY <1>1, <1>6

LEMMA InitInv == Init => IInv
  <1> SUFFICES ASSUME Init PROVE IInv
    OBVIOUS
  <1>1. Chained = {} /\ DescPages = {}
    BY DEF Init, Chained, DescPages
  <1>2. TypeOK
    BY DEF Init, TypeOK
  <1>3. FramesAccounted
    BY <1>1 DEF Init, FramesAccounted
  <1>4. BlocksAccounted /\ Housed /\ IsFiniteSet(held)
    BY FS_EmptySet DEF Init, BlocksAccounted, Housed
  <1> QED  BY <1>2, <1>3, <1>4 DEF IInv

(* What is known of a bucket in use. *)
LEMMA InChain ==
  ASSUME IInv, NEW s \in Sizes, NEW d \in chain[s]
  PROVE  /\ d \in Descs /\ d \in Chained /\ page[d] \in used /\ page[d] \in Frames
         /\ d \notin free_bucket_desc
         /\ refcnt[d] = Cardinality(HeldIn(page[d])) /\ HeldIn(page[d]) # {}
         /\ freeptr[d] = Cut(s) \ {b.at : b \in HeldIn(page[d])}
         /\ IsFiniteSet(HeldIn(page[d])) /\ refcnt[d] \in Nat \ {0}
         /\ \A t \in Sizes : \A e \in chain[t] : page[e] = page[d] => e = d /\ t = s
  <1>1. d \in Descs /\ d \in Chained
    BY DEF IInv, TypeOK, Chained
  <1>2. page[d] \in used /\ d \notin free_bucket_desc
    BY <1>1 DEF IInv, FramesAccounted
  <1>3. HeldIn(page[d]) \in SUBSET held
    BY DEF HeldIn
  <1>4. IsFiniteSet(HeldIn(page[d]))
    BY <1>3, FS_Subset DEF IInv
  <1>5. /\ refcnt[d] = Cardinality(HeldIn(page[d])) /\ HeldIn(page[d]) # {}
        /\ freeptr[d] = Cut(s) \ {b.at : b \in HeldIn(page[d])}
    BY DEF IInv, BlocksAccounted
  <1>6. refcnt[d] \in Nat \ {0}
    BY <1>4, <1>5, FS_CardinalityType, FS_EmptySet
  <1>7. \A t \in Sizes : \A e \in chain[t] : page[e] = page[d] => e = d /\ t = s
    <2> SUFFICES ASSUME NEW t \in Sizes, NEW e \in chain[t], page[e] = page[d]
                 PROVE  e = d /\ t = s
      OBVIOUS
    <2>1. e \in Chained
      BY DEF Chained
    <2>2. e = d
      BY <1>1, <2>1 DEF IInv, FramesAccounted
    <2> QED  BY <2>2 DEF IInv, FramesAccounted
  <1>8. page[d] \in Frames
    BY <1>2 DEF IInv, TypeOK
  <1> QED  BY <1>1, <1>2, <1>4, <1>5, <1>6, <1>7, <1>8

LEMMA OldInv ==
  ASSUME IInv, NEW len \in Lens, NEW s \in Sizes, Bucket(s, len), kmalloc_old(s, len)
  PROVE  IInv'
  <1>0. PICK d \in chain[s] : \E at \in freeptr[d] :
           /\ freeptr' = [freeptr EXCEPT ![d] = @ \ {at}]
           /\ refcnt' = [refcnt EXCEPT ![d] = @ + 1]
           /\ held' = held \cup {Block(page[d], at, len)}
           /\ UNCHANGED <<others, used, chain, free_bucket_desc, page>>
    BY DEF kmalloc_old
  <1>1. PICK at \in freeptr[d] :
           /\ freeptr' = [freeptr EXCEPT ![d] = @ \ {at}]
           /\ refcnt' = [refcnt EXCEPT ![d] = @ + 1]
           /\ held' = held \cup {Block(page[d], at, len)}
           /\ UNCHANGED <<others, used, chain, free_bucket_desc, page>>
    BY <1>0
  <1> DEFINE B == Block(page[d], at, len)
             out == HeldIn(page[d])
  <1>2. /\ d \in Descs /\ page[d] \in Frames /\ refcnt[d] = Cardinality(out) /\ refcnt[d] \in Nat
        /\ freeptr[d] = Cut(s) \ {b.at : b \in out} /\ IsFiniteSet(out)
        /\ \A t \in Sizes : \A e \in chain[t] : page[e] = page[d] => e = d /\ t = s
    BY InChain
  <1>3. B.page = page[d] /\ B.at = at /\ B.len = len /\ at \in Cut(s) /\ len <= s /\ at + s <= PAGE_SIZE
    BY <1>2, CutInPage DEF Block, Bucket
  <1>4. at \in 0 .. PAGE_SIZE - 1
    BY <1>3, CutInPage
  <1>5. B \in [page : Frames, at : 0 .. PAGE_SIZE - 1, len : Lens]
    BY <1>2, <1>4 DEF Block
  <1>6. B \notin out /\ \A b \in out : b.at # at
    BY <1>2, <1>3
  <1> HIDE DEF B
  <1>7. TypeOK'
    <2>1. held' \subseteq [page : Frames, at : 0 .. PAGE_SIZE - 1, len : Lens]
      BY <1>1, <1>5 DEF IInv, TypeOK, B
    <2>2. freeptr' \in [Descs -> SUBSET (0 .. PAGE_SIZE - 1)] /\ refcnt' \in [Descs -> Nat]
      BY <1>1, <1>2 DEF IInv, TypeOK
    <2> QED  BY <1>1, <2>1, <2>2 DEF IInv, TypeOK
  <1>8. FramesAccounted'
    BY <1>1 DEF IInv, FramesAccounted, DescPages, Chained
  <1>9. Housed'
    BY <1>1, <1>3 DEF IInv, Housed, B
  <1>10. IsFiniteSet(held')
    BY <1>1, FS_AddElement DEF IInv
  <1>11. BlocksAccounted'
    <2> SUFFICES ASSUME NEW t \in Sizes, NEW e \in chain[t]
                 PROVE  /\ refcnt'[e] = Cardinality(HeldIn(page[e])') /\ HeldIn(page[e])' # {}
                        /\ freeptr'[e] = Cut(t) \ {b.at : b \in HeldIn(page[e])'}
                        /\ \A b \in HeldIn(page[e])' : b.at \in Cut(t) /\ b.len <= t /\ b.at + t <= PAGE_SIZE
                        /\ \A b, c \in HeldIn(page[e])' : b.at = c.at => b = c
      BY <1>1 DEF BlocksAccounted
    <2>1. e \in Descs
      BY InChain
    <2>2. CASE e = d
      <3>1. t = s
        BY <1>2, <2>2
      <3>2. HeldIn(page[e])' = out \cup {B}
        BY <1>1, <1>3, <2>2 DEF HeldIn, B
      <3>3. Cardinality(out \cup {B}) = Cardinality(out) + 1
        BY <1>2, <1>6, FS_AddElement
      <3>4. refcnt'[e] = refcnt[d] + 1 /\ freeptr'[e] = freeptr[d] \ {at}
        BY <1>1, <1>2, <2>2 DEF IInv, TypeOK
      <3>5. {b.at : b \in out \cup {B}} = {b.at : b \in out} \cup {at}
        BY <1>3
      <3>6. /\ \A b \in out : b.at \in Cut(s) /\ b.len <= s /\ b.at + s <= PAGE_SIZE
            /\ \A b, c \in out : b.at = c.at => b = c
        BY DEF IInv, BlocksAccounted
      <3> HIDE DEF out
      <3>7. \A b \in out \cup {B} : b.at \in Cut(s) /\ b.len <= s /\ b.at + s <= PAGE_SIZE
        BY <1>3, <3>6
      <3>8. \A b, c \in out \cup {B} : b.at = c.at => b = c
        BY <1>3, <1>6, <3>6
      <3> QED  BY <1>2, <2>2, <3>1, <3>2, <3>3, <3>4, <3>5, <3>7, <3>8
    <2>3. CASE e # d
      <3>1. page[e] # page[d]
        BY <1>2, <2>3
      <3>2. HeldIn(page[e])' = HeldIn(page[e])
        BY <1>1, <1>3, <3>1 DEF HeldIn, B
      <3>3. refcnt'[e] = refcnt[e] /\ freeptr'[e] = freeptr[e]
        BY <1>1, <2>1, <2>3 DEF IInv, TypeOK
      <3> QED  BY <3>2, <3>3 DEF IInv, BlocksAccounted
    <2> QED  BY <2>2, <2>3
  <1> QED  BY <1>7, <1>8, <1>9, <1>10, <1>11 DEF IInv

(* Frames and descriptors as kmalloc finds them when it takes a descriptor  *)
(* from descs, with the frames of used1 in use.                             *)
Ready(used1, descs) ==
    LET pages == {d[1] : d \in Chained \cup descs}
        buckets == {page[d] : d \in Chained}
    IN /\ used1 \subseteq Frames /\ descs \subseteq Descs
       /\ used1 = others \cup pages \cup buckets
       /\ others \cap (pages \cup buckets) = {}
       /\ pages \cap buckets = {}
       /\ Chained \cap descs = {}
       /\ pages \X (1 .. PerPage) = Chained \cup descs

LEMMA FromInv ==
  ASSUME IInv, NEW len \in Lens, NEW s \in Sizes, Bucket(s, len),
         NEW used1, NEW descs, Ready(used1, descs),
         NEW f \in Frames, f \notin used1, FromDescs(used1, descs, f, s, len)
  PROVE  IInv'
  <1>1. PICK d \in descs, at \in Cut(s) :
          /\ free_bucket_desc' = descs \ {d}
          /\ chain' = [chain EXCEPT ![s] = @ \cup {d}]
          /\ page' = [page EXCEPT ![d] = f]
          /\ freeptr' = [freeptr EXCEPT ![d] = Cut(s) \ {at}]
          /\ refcnt' = [refcnt EXCEPT ![d] = 1]
          /\ held' = held \cup {Block(f, at, len)}
    BY DEF FromDescs
  <1> DEFINE B == Block(f, at, len)
             pages == {e[1] : e \in Chained \cup descs}
             buckets == {page[e] : e \in Chained}
  <1>2. others' = others /\ used' = used1 \cup {f}
    BY DEF FromDescs
  <1>3. /\ used1 \subseteq Frames /\ descs \subseteq Descs
        /\ used1 = others \cup pages \cup buckets
        /\ others \cap (pages \cup buckets) = {}
        /\ pages \cap buckets = {}
        /\ Chained \cap descs = {}
        /\ pages \X (1 .. PerPage) = Chained \cup descs
    BY DEF Ready
  <1>4. d \in Descs /\ d \notin Chained
    BY <1>3
  <1>5. Chained' = Chained \cup {d}
    BY <1>1 DEF IInv, TypeOK, Chained
  <1>6. Chained' \cup free_bucket_desc' = Chained \cup descs
    BY <1>1, <1>5
  <1>7. DescPages' = pages
    BY <1>6 DEF DescPages
  <1>8. page'[d] = f /\ \A e \in Chained : page'[e] = page[e] /\ page[e] # f
    <2>1. \A e \in Chained : e \in Descs /\ page[e] \in used1
      BY <1>3 DEF Chained, IInv, TypeOK
    <2> QED  BY <1>1, <1>4, <2>1 DEF IInv, TypeOK
  <1>9. {page'[e] : e \in Chained'} = buckets \cup {f}
    BY <1>5, <1>8
  <1>10. B.page = f /\ B.at = at /\ B.len = len /\ len <= s /\ at + s <= PAGE_SIZE
    BY CutInPage DEF Block, Bucket
  <1>11. \A b \in held : b.page # f
    BY <1>8 DEF IInv, Housed, Chained
  <1>12. TypeOK'
    <2>1. held' \subseteq [page : Frames, at : 0 .. PAGE_SIZE - 1, len : Lens]
      <3>1. at \in 0 .. PAGE_SIZE - 1
        BY CutInPage
      <3> QED  BY <1>1, <3>1 DEF IInv, TypeOK, Block
    <2>2. Cut(s) \ {at} \subseteq 0 .. PAGE_SIZE - 1
      BY CutInPage
    <2>3. freeptr' \in [Descs -> SUBSET (0 .. PAGE_SIZE - 1)] /\ refcnt' \in [Descs -> Nat]
      BY <1>1, <1>4, <2>2 DEF IInv, TypeOK
    <2>4. page' \in [Descs -> Frames \cup {NULL}] /\ chain' \in [Sizes -> SUBSET Descs]
      BY <1>1, <1>4 DEF IInv, TypeOK
    <2>5. free_bucket_desc' \subseteq Descs /\ used' \subseteq Frames /\ others' \subseteq Frames
      BY <1>1, <1>2, <1>3 DEF IInv, TypeOK
    <2> QED  BY <2>1, <2>3, <2>4, <2>5 DEF TypeOK
  <1>13. FramesAccounted'
    <2>1. used' = others' \cup DescPages' \cup {page'[e] : e \in Chained'}
      BY <1>2, <1>3, <1>7, <1>9
    <2>2. /\ others' \cap (DescPages' \cup {page'[e] : e \in Chained'}) = {}
          /\ DescPages' \cap {page'[e] : e \in Chained'} = {}
      <3>1. f \notin pages /\ f \notin others
        BY <1>3
      <3>2. /\ others \cap (pages \cup (buckets \cup {f})) = {}
            /\ pages \cap (buckets \cup {f}) = {}
        <4> HIDE DEF pages, buckets
        <4> QED  BY <1>3, <3>1
      <3> QED  BY <1>2, <1>7, <1>9, <3>2
    <2>3. Chained' \cap free_bucket_desc' = {}
      BY <1>1, <1>3, <1>5
    <2>4. DescPages' \X (1 .. PerPage) = Chained' \cup free_bucket_desc'
      BY <1>3, <1>6, <1>7
    <2>5. \A e, g \in Chained' : page'[e] = page'[g] => e = g
      BY <1>5, <1>8 DEF IInv, FramesAccounted
    <2>6. \A t, u \in Sizes : t # u => chain'[t] \cap chain'[u] = {}
      BY <1>1, <1>4 DEF IInv, FramesAccounted, Chained, TypeOK
    <2> QED  BY <2>1, <2>2, <2>3, <2>4, <2>5, <2>6 DEF FramesAccounted
  <1>14. \A t \in Sizes : \A e \in chain'[t] : (e \in Chained /\ e \in chain[t]) \/ (e = d /\ t = s)
    BY <1>1 DEF IInv, TypeOK, Chained
  <1>15. Housed'
    <2>1. \A t \in Sizes : chain[t] \subseteq chain'[t]
      BY <1>1 DEF IInv, TypeOK
    <2>2. d \in chain'[s]
      BY <1>1 DEF IInv, TypeOK
    <2> SUFFICES ASSUME NEW b \in held'
                 PROVE  \E t \in Sizes : \E e \in chain'[t] : page'[e] = b.page
      BY DEF Housed
    <2>3. CASE b \in held
      <3>1. PICK t \in Sizes : \E e \in chain[t] : page[e] = b.page
        BY <2>3 DEF IInv, Housed
      <3>2. PICK e \in chain[t] : page[e] = b.page
        BY <3>1
      <3> QED  BY <1>8, <2>1, <3>2 DEF Chained
    <2>4. CASE b = B
      BY <1>8, <1>10, <2>2, <2>4
    <2> QED  BY <1>1, <2>3, <2>4
  <1>16. IsFiniteSet(held')
    BY <1>1, FS_AddElement DEF IInv
  <1>17. BlocksAccounted'
    <2> SUFFICES ASSUME NEW t \in Sizes, NEW e \in chain'[t]
                 PROVE  /\ refcnt'[e] = Cardinality(HeldIn(page[e])') /\ HeldIn(page[e])' # {}
                        /\ freeptr'[e] = Cut(t) \ {b.at : b \in HeldIn(page[e])'}
                        /\ \A b \in HeldIn(page[e])' : b.at \in Cut(t) /\ b.len <= t /\ b.at + t <= PAGE_SIZE
                        /\ \A b, c \in HeldIn(page[e])' : b.at = c.at => b = c
      BY DEF BlocksAccounted
    <2>1. CASE e = d /\ t = s
      <3>1. HeldIn(page[e])' = {B}
        BY <1>1, <1>8, <1>10, <1>11, <2>1 DEF HeldIn
      <3>2. Cardinality({B}) = 1
        BY FS_Singleton
      <3>3. refcnt'[e] = 1 /\ freeptr'[e] = Cut(s) \ {at}
        BY <1>1, <1>4, <2>1 DEF IInv, TypeOK
      <3> HIDE DEF B
      <3> QED  BY <1>10, <2>1, <3>1, <3>2, <3>3
    <2>2. CASE e \in Chained /\ e \in chain[t]
      <3>1. e \in Descs /\ e # d
        BY <1>4, <2>2 DEF Chained, IInv, TypeOK
      <3>2. HeldIn(page[e])' = HeldIn(page[e])
        BY <1>1, <1>8, <1>10, <2>2 DEF HeldIn
      <3>3. refcnt'[e] = refcnt[e] /\ freeptr'[e] = freeptr[e]
        BY <1>1, <3>1 DEF IInv, TypeOK
      <3> QED  BY <2>2, <3>2, <3>3 DEF IInv, BlocksAccounted
    <2> QED  BY <1>14, <2>1, <2>2
  <1> QED  BY <1>12, <1>13, <1>15, <1>16, <1>17 DEF IInv

LEMMA NewInv ==
  ASSUME IInv, NEW len \in Lens, NEW s \in Sizes, Bucket(s, len), kmalloc_new(s, len)
  PROVE  IInv'
  <1>1. ASSUME NEW f \in Frames \ used, FromDescs(used, free_bucket_desc, f, s, len)
        PROVE  IInv'
    <2>1. Ready(used, free_bucket_desc)
      BY DEF Ready, IInv, TypeOK, FramesAccounted, DescPages
    <2> QED  BY <1>1, <2>1, FromInv
  <1>2. ASSUME free_bucket_desc = {}, NEW g \in Frames \ used, NEW f \in Frames \ (used \cup {g}),
               FromDescs(used \cup {g}, NewDescs(g), f, s, len)
        PROVE  IInv'
    <2>1. 1 \in 1 .. PerPage
      BY KMallocAssumption
    <2>2. {d[1] : d \in Chained \cup NewDescs(g)} = DescPages \cup {g}
      <3>1. {d[1] : d \in NewDescs(g)} = {g}
        <4>1. <<g, 1>> \in NewDescs(g) /\ <<g, 1>>[1] = g
          BY <2>1 DEF NewDescs
        <4>2. \A d \in NewDescs(g) : d[1] = g
          BY DEF NewDescs
        <4> QED  BY <4>1, <4>2
      <3>2. DescPages = {d[1] : d \in Chained}
        BY <1>2 DEF DescPages
      <3>3. {d[1] : d \in Chained \cup NewDescs(g)}
               = {d[1] : d \in Chained} \cup {d[1] : d \in NewDescs(g)}
        OBVIOUS
      <3> QED  BY <3>1, <3>2, <3>3
    <2>3. \A d \in NewDescs(g) : d \in Descs /\ d[1] = g
      BY DEF NewDescs, Descs
    <2>4. g \notin DescPages /\ g \notin others /\ g \notin {page[d] : d \in Chained}
      BY DEF IInv, FramesAccounted
    <2>5. Chained \cap NewDescs(g) = {}
      BY <2>3, <2>4 DEF DescPages
    <2>6. (DescPages \cup {g}) \X (1 .. PerPage) = Chained \cup NewDescs(g)
      BY <1>2 DEF IInv, FramesAccounted, NewDescs
    <2>7. Ready(used \cup {g}, NewDescs(g))
      BY <2>2, <2>3, <2>4, <2>5, <2>6 DEF Ready, IInv, TypeOK, FramesAccounted
    <2> QED  BY <1>2, <2>7, FromInv
  <1> QED  BY <1>1, <1>2 DEF kmalloc_new

LEMMA FreeInv ==
  ASSUME IInv, NEW b \in held, NEW size \in 0 .. b.len, kfree(b, size)
  PROVE  IInv'
  <1>0. PICK s \in Sizes : \E d \in chain[s] :
          /\ Searched(s, size) /\ page[d] = b.page
          /\ freeptr' = [freeptr EXCEPT ![d] = @ \cup {b.at}]
          /\ refcnt' = [refcnt EXCEPT ![d] = @ - 1]
          /\ Put(s, d)
    BY DEF kfree
  <1>1. PICK d \in chain[s] :
          /\ page[d] = b.page
          /\ freeptr' = [freeptr EXCEPT ![d] = @ \cup {b.at}]
          /\ refcnt' = [refcnt EXCEPT ![d] = @ - 1]
          /\ Put(s, d)
    BY <1>0
  <1>2. held' = held \ {b} /\ others' = others /\ page' = page
    BY DEF kfree
  <1> DEFINE out == HeldIn(page[d])
  <1>3. /\ d \in Descs /\ d \in Chained /\ d \notin free_bucket_desc
        /\ refcnt[d] = Cardinality(out) /\ refcnt[d] \in Nat \ {0}
        /\ freeptr[d] = Cut(s) \ {c.at : c \in out} /\ IsFiniteSet(out)
        /\ \A t \in Sizes : \A e \in chain[t] : page[e] = page[d] => e = d /\ t = s
    BY InChain
  <1>4. /\ \A c \in out : c.at \in Cut(s) /\ c.len <= s /\ c.at + s <= PAGE_SIZE
        /\ \A c, x \in out : c.at = x.at => c = x
    BY DEF IInv, BlocksAccounted
  <1>5. b \in out
    BY <1>1 DEF HeldIn
  <1>6. HeldIn(page[d])' = out \ {b}
    BY <1>2 DEF HeldIn
  <1>7. \A e \in Descs : page[e] # page[d] => HeldIn(page[e])' = HeldIn(page[e])
    BY <1>1, <1>2 DEF HeldIn
  <1>8. freeptr'[d] = freeptr[d] \cup {b.at} /\ refcnt'[d] = refcnt[d] - 1
    BY <1>1, <1>3 DEF IInv, TypeOK
  <1>9. \A e \in Descs : e # d => freeptr'[e] = freeptr[e] /\ refcnt'[e] = refcnt[e]
    BY <1>1 DEF IInv, TypeOK
  <1>10. Cardinality(out \ {b}) = Cardinality(out) - 1 /\ IsFiniteSet(out \ {b})
    BY <1>3, <1>5, FS_RemoveElement
  <1>11. IsFiniteSet(held')
    BY <1>2, FS_Subset DEF IInv
  <1>12. held' \subseteq held /\ freeptr' \in [Descs -> SUBSET (0 .. PAGE_SIZE - 1)] /\ refcnt' \in [Descs -> Nat]
    <2>1. b.at \in 0 .. PAGE_SIZE - 1
      BY <1>4, <1>5, CutInPage
    <2> QED  BY <1>1, <1>2, <1>3, <2>1 DEF IInv, TypeOK
  (* What a bucket that stays in use keeps. *)
  <1>13. ASSUME NEW t \in Sizes, NEW e \in chain[t], e # d \/ refcnt[d] # 1
         PROVE  /\ refcnt'[e] = Cardinality(HeldIn(page[e])') /\ HeldIn(page[e])' # {}
                /\ freeptr'[e] = Cut(t) \ {c.at : c \in HeldIn(page[e])'}
                /\ \A c \in HeldIn(page[e])' : c.at \in Cut(t) /\ c.len <= t /\ c.at + t <= PAGE_SIZE
                /\ \A c, x \in HeldIn(page[e])' : c.at = x.at => c = x
    <2>1. CASE e = d
      <3>1. t = s
        BY <1>3, <2>1
      <3>2. out \ {b} # {}
        BY <1>3, <1>10, <1>13, <2>1, FS_EmptySet
      <3> HIDE DEF out
      <3>3. {c.at : c \in out \ {b}} = {c.at : c \in out} \ {b.at}
        BY <1>4, <1>5
      <3>4. Cut(s) \ {c.at : c \in out \ {b}} = (Cut(s) \ {c.at : c \in out}) \cup {b.at}
        BY <1>4, <1>5, <3>3
      <3> QED  BY <1>3, <1>4, <1>6, <1>8, <1>10, <2>1, <3>1, <3>2, <3>4
    <2>2. CASE e # d
      <3>1. page[e] # page[d] /\ e \in Descs
        BY <1>3, <2>2, InChain
      <3> QED  BY <1>7, <1>9, <2>2, <3>1 DEF IInv, BlocksAccounted
    <2> QED  BY <2>1, <2>2
  <1>14. CASE refcnt[d] = 1
    <2>1. /\ chain' = [chain EXCEPT ![s] = @ \ {d}]
          /\ used' = used \ {page[d]}
          /\ free_bucket_desc' = free_bucket_desc \cup {d}
      BY <1>1, <1>14 DEF Put
    <2>2. out = {b}
      BY <1>3, <1>5, <1>10, <1>14, FS_EmptySet
    <2>3. Chained' = Chained \ {d}
      BY <2>1, <1>3 DEF Chained, IInv, TypeOK
    <2>4. DescPages' = DescPages
      BY <1>3, <2>1, <2>3 DEF DescPages
    <2>5. {page'[e] : e \in Chained'} = {page[e] : e \in Chained} \ {page[d]}
      BY <1>2, <1>3, <2>3 DEF IInv, FramesAccounted
    <2>6. \A t \in Sizes : chain'[t] = chain[t] \ {d}
      BY <1>3, <2>1 DEF IInv, TypeOK
    <2>7. TypeOK'
      BY <1>2, <1>3, <1>12, <2>1 DEF IInv, TypeOK
    <2>8. FramesAccounted'
      <3>1. page[d] \notin others /\ page[d] \notin DescPages
        BY <1>3 DEF IInv, FramesAccounted
      <3>2. used' = others' \cup DescPages' \cup {page'[e] : e \in Chained'}
        BY <1>2, <2>1, <2>4, <2>5, <3>1 DEF IInv, FramesAccounted
      <3>3. /\ others' \cap (DescPages' \cup {page'[e] : e \in Chained'}) = {}
            /\ DescPages' \cap {page'[e] : e \in Chained'} = {}
        BY <1>2, <2>4, <2>5 DEF IInv, FramesAccounted
      <3>4. Chained' \cap free_bucket_desc' = {} /\ Chained' \cup free_bucket_desc' = Chained \cup free_bucket_desc
        BY <1>3, <2>1, <2>3 DEF IInv, FramesAccounted
      <3>5. DescPages' \X (1 .. PerPage) = Chained' \cup free_bucket_desc'
        BY <2>4, <3>4 DEF IInv, FramesAccounted
      <3>6. \A e, g \in Chained' : page'[e] = page'[g] => e = g
        BY <1>2, <2>3 DEF IInv, FramesAccounted
      <3>7. \A t, u \in Sizes : t # u => chain'[t] \cap chain'[u] = {}
        BY <2>6 DEF IInv, FramesAccounted
      <3> QED  BY <3>2, <3>3, <3>4, <3>5, <3>6, <3>7 DEF FramesAccounted
    <2>9. BlocksAccounted'
      BY <1>2, <1>13, <2>6 DEF BlocksAccounted
    <2>10. Housed'
      <3> SUFFICES ASSUME NEW c \in held' PROVE \E t \in Sizes : \E e \in chain'[t] : page'[e] = c.page
        BY DEF Housed
      <3>1. c \in held /\ c # b /\ c.page # page[d]
        BY <1>2, <2>2 DEF HeldIn
      <3>2. PICK t \in Sizes : \E e \in chain[t] : page[e] = c.page
        BY <3>1 DEF IInv, Housed
      <3>3. PICK e \in chain[t] : page[e] = c.page
        BY <3>2
      <3> QED  BY <1>2, <2>6, <3>1, <3>3
    <2> QED  BY <1>11, <2>7, <2>8, <2>9, <2>10 DEF IInv
  <1>15. CASE refcnt[d] # 1
    <2>1. used' = used /\ chain' = chain /\ free_bucket_desc' = free_bucket_desc
      BY <1>1, <1>15 DEF Put
    <2>2. TypeOK'
      BY <1>2, <1>12, <2>1 DEF IInv, TypeOK
    <2>3. FramesAccounted'
      <3>1. Chained' = Chained /\ DescPages' = DescPages
        BY <2>1 DEF Chained, DescPages
      <3> QED  BY <1>2, <2>1, <3>1 DEF IInv, FramesAccounted
    <2>4. BlocksAccounted'
      BY <1>2, <1>13, <1>15, <2>1 DEF BlocksAccounted
    <2>5. Housed'
      BY <1>2, <2>1 DEF IInv, Housed
    <2> QED  BY <1>11, <2>2, <2>3, <2>4, <2>5 DEF IInv
  <1> QED  BY <1>14, <1>15

LEMMA BucketsKept ==
  ASSUME IInv, UNCHANGED <<chain, page, freeptr, refcnt, held>>
  PROVE  BlocksAccounted' /\ Housed' /\ IsFiniteSet(held')
  <1>1. Housed' /\ IsFiniteSet(held')
    BY DEF IInv, Housed
  <1>2. BlocksAccounted'
    <2>1. BlocksAccounted
      BY DEF IInv
    <2> QED  BY <2>1 DEF BlocksAccounted, HeldIn
  <1> QED  BY <1>1, <1>2

LEMMA GetPageInv == IInv /\ get_free_page => IInv'
  <1> SUFFICES ASSUME IInv, get_free_page PROVE IInv'
    OBVIOUS
  <1>1. PICK f \in Frames \ used : used' = used \cup {f} /\ others' = others \cup {f}
    BY DEF get_free_page
  <1>2. UNCHANGED <<chain, free_bucket_desc, page, freeptr, refcnt, held>>
    BY DEF get_free_page
  <1>3. Chained' = Chained /\ DescPages' = DescPages
    BY <1>2 DEF Chained, DescPages
  <1>4. f \notin DescPages /\ f \notin {page[d] : d \in Chained}
    BY DEF IInv, FramesAccounted
  <1>5. FramesAccounted'
    BY <1>1, <1>2, <1>3, <1>4 DEF IInv, FramesAccounted
  <1>6. TypeOK'
    BY <1>1, <1>2 DEF IInv, TypeOK
  <1>7. BlocksAccounted' /\ Housed' /\ IsFiniteSet(held')
    BY <1>2, BucketsKept
  <1> QED  BY <1>5, <1>6, <1>7 DEF IInv

LEMMA FreePageInv == IInv /\ free_page => IInv'
  <1> SUFFICES ASSUME IInv, free_page PROVE IInv'
    OBVIOUS
  <1>1. PICK f \in others : used' = used \ {f} /\ others' = others \ {f}
    BY DEF free_page
  <1>2. UNCHANGED <<chain, free_bucket_desc, page, freeptr, refcnt, held>>
    BY DEF free_page
  <1>3. Chained' = Chained /\ DescPages' = DescPages
    BY <1>2 DEF Chained, DescPages
  <1>4. f \notin DescPages /\ f \notin {page[d] : d \in Chained}
    BY DEF IInv, FramesAccounted
  <1>5. FramesAccounted'
    BY <1>1, <1>2, <1>3, <1>4 DEF IInv, FramesAccounted
  <1>6. TypeOK'
    BY <1>1, <1>2 DEF IInv, TypeOK
  <1>7. BlocksAccounted' /\ Housed' /\ IsFiniteSet(held')
    BY <1>2, BucketsKept
  <1> QED  BY <1>5, <1>6, <1>7 DEF IInv

LEMMA NextInv == IInv /\ [Next]_vars => IInv'
  <1> SUFFICES ASSUME IInv, [Next]_vars PROVE IInv'
    OBVIOUS
  <1>1. ASSUME NEW len \in Lens, kmalloc(len) PROVE IInv'
    BY <1>1, OldInv, NewInv DEF kmalloc
  <1>2. ASSUME NEW b \in held, NEW size \in 0 .. b.len, kfree(b, size) PROVE IInv'
    BY <1>2, FreeInv
  <1>3. CASE UNCHANGED vars
    <2>1. UNCHANGED <<others, used, chain, free_bucket_desc, page, freeptr, refcnt, held>>
      BY <1>3 DEF vars
    <2>2. Chained' = Chained /\ DescPages' = DescPages
      BY <2>1 DEF Chained, DescPages
    <2>3. TypeOK' /\ FramesAccounted'
      BY <2>1, <2>2 DEF IInv, TypeOK, FramesAccounted
    <2>4. BlocksAccounted' /\ Housed' /\ IsFiniteSet(held')
      BY <2>1, BucketsKept
    <2> QED  BY <2>3, <2>4 DEF IInv
  <1> QED  BY <1>1, <1>2, <1>3, GetPageInv, FreePageInv DEF Next

(* The invariant holds in every state of the allocator. *)
THEOREM Invariance == Spec => []IInv
  BY InitInv, NextInv, PTL DEF Spec

(* Every kmalloc, kfree and step of paging keeps the allocator's state of   *)
(* its type: offsets inside the page, counts that never go below zero.      *)
THEOREM TypeCorrect == Spec => []TypeOK
  <1>1. IInv => TypeOK
    BY DEF IInv
  <1> QED  BY <1>1, Invariance, PTL

(* kmalloc and kfree never lose a page or a descriptor, nor use one twice. *)
THEOREM FramesStayAccounted == Spec => []FramesAccounted
  <1>1. IInv => FramesAccounted
    BY DEF IInv
  <1> QED  BY <1>1, Invariance, PTL

(* In every bucket each place is free or handed out, never both, and the    *)
(* count that kfree gives the page back by is exact.                        *)
THEOREM BlocksStayAccounted == Spec => []BlocksAccounted
  <1>1. IInv => BlocksAccounted
    BY DEF IInv
  <1> QED  BY <1>1, Invariance, PTL

(* The search of kfree meets the page of the block, whatever the caller     *)
(* gives as its size, up to the length that was asked for.                  *)
THEOREM FreesAlwaysFind == Spec => []KfreeFinds
  <1>1. IInv => KfreeFinds
    <2> SUFFICES ASSUME IInv, NEW b \in held, NEW size \in 0 .. b.len
                 PROVE  \E s \in Sizes : Searched(s, size) /\ \E d \in chain[s] : page[d] = b.page
      BY DEF KfreeFinds
    <2>1. PICK s \in Sizes : \E d \in chain[s] : page[d] = b.page
      BY DEF IInv, Housed
    <2>2. PICK d \in chain[s] : page[d] = b.page
      BY <2>1
    <2>3. b.len <= s
      BY <2>2 DEF IInv, BlocksAccounted, HeldIn
    <2>4. b.len \in Nat /\ s \in Nat
      BY SizesAre DEF IInv, TypeOK, Lens
    <2> QED  BY <2>1, <2>3, <2>4 DEF Searched
  <1> QED  BY <1>1, Invariance, PTL

HeldApart ==
    \A b \in held : /\ Bytes(b) # {}
                    /\ \A c \in held : b # c => Bytes(b) \cap Bytes(c) = {}

LEMMA BytesApart == IInv => HeldApart
  <1> SUFFICES ASSUME IInv, NEW b \in held
               PROVE  /\ Bytes(b) # {}
                      /\ \A c \in held : b # c => Bytes(b) \cap Bytes(c) = {}
    BY DEF HeldApart
  <1>1. \A c \in held : c.at \in Nat /\ c.len \in Nat \ {0}
    BY KMallocAssumption DEF IInv, TypeOK, Lens
  <1>2. <<b.page, b.at>> \in Bytes(b)
    <2>1. b.at \in b.at .. b.at + b.len - 1
      BY <1>1
    <2> QED  BY <2>1 DEF Bytes
  <1>3. ASSUME NEW c \in held, b # c PROVE Bytes(b) \cap Bytes(c) = {}
    <2>1. ASSUME b.page # c.page PROVE Bytes(b) \cap Bytes(c) = {}
      <3>1. \A x \in Bytes(b) : x[1] = b.page
        BY DEF Bytes
      <3>2. \A x \in Bytes(c) : x[1] = c.page
        BY DEF Bytes
      <3> QED  BY <2>1, <3>1, <3>2
    <2>2. ASSUME b.page = c.page PROVE Bytes(b) \cap Bytes(c) = {}
      <3>1. PICK s \in Sizes : \E d \in chain[s] : page[d] = b.page
        BY DEF IInv, Housed
      <3>2. PICK d \in chain[s] : page[d] = b.page
        BY <3>1
      <3>3. b \in HeldIn(page[d]) /\ c \in HeldIn(page[d])
        BY <2>2, <3>2 DEF HeldIn
      <3>4. /\ b.at \in Cut(s) /\ b.len <= s /\ b.at + s <= PAGE_SIZE /\ c.at \in Cut(s) /\ c.len <= s /\ c.at + s <= PAGE_SIZE
            /\ b.at # c.at
        BY <1>3, <3>3 DEF IInv, BlocksAccounted
      <3>5. (b.at .. b.at + b.len - 1) \cap (c.at .. c.at + c.len - 1) = {}
        BY <1>1, <3>4, CutApart
      <3> QED  BY <3>5 DEF Bytes
    <2> QED  BY <2>1, <2>2
  <1> QED  BY <1>2, <1>3

(* kmalloc hands out a block, kfree takes one back, and nothing else does.  *)
LEMMA StepIs ==
  ASSUME IInv, Next
  PROVE  \/ held' = held
         \/ \E b : b \notin held /\ held' = held \cup {b}
         \/ \E b \in held : held' = held \ {b}
  <1>1. ASSUME NEW len \in Lens, kmalloc(len)
        PROVE  held' = held \/ \E b : b \notin held /\ held' = held \cup {b}
    <2>1. \E b : held' = held \cup {b}
      BY <1>1 DEF kmalloc, kmalloc_old, kmalloc_new, FromDescs
    <2> QED  BY <2>1
  <1>2. ASSUME NEW b \in held, NEW size \in 0 .. b.len, kfree(b, size)
        PROVE  \E c \in held : held' = held \ {c}
    BY <1>2 DEF kfree
  <1>3. ASSUME get_free_page \/ free_page PROVE held' = held
    BY <1>3 DEF get_free_page, free_page
  <1> QED  BY <1>1, <1>2, <1>3 DEF Next

(* kmalloc and kfree implement the abstract heap: a block shares no byte    *)
(* with one still held.                                                     *)
THEOREM KMallocIsHeap == Spec => HeapSpec
  <1> DEFINE heap == {Bytes(b) : b \in held}
  <1>1. Init => AsHeap!Init
    BY DEF Init, AsHeap!Init
  <1>2. IInv /\ HeldApart /\ HeldApart' /\ [Next]_vars => [AsHeap!Next]_heap
    <2> SUFFICES ASSUME IInv, HeldApart, HeldApart', Next PROVE AsHeap!Next \/ heap' = heap
      BY DEF vars, Bytes
    <2>1. ASSUME NEW b, b \notin held, held' = held \cup {b} PROVE AsHeap!Next
      <3>1. heap' = heap \cup {Bytes(b)}
        BY <2>1 DEF Bytes
      <3>2. Bytes(b) # {} /\ \A c \in held : Bytes(b) \cap Bytes(c) = {}
        BY <2>1 DEF HeldApart, Bytes
      <3>3. Bytes(b) \cap UNION heap = {} /\ Bytes(b) \notin heap
        BY <3>2
      <3> QED  BY <3>1, <3>2, <3>3 DEF AsHeap!Next, AsHeap!Alloc
    <2>2. ASSUME NEW b \in held, held' = held \ {b} PROVE AsHeap!Next
      <3>1. \A c \in held : c # b => Bytes(c) # Bytes(b)
        BY DEF HeldApart
      <3>2. heap' = heap \ {Bytes(b)}
        BY <2>2, <3>1 DEF Bytes
      <3> QED  BY <3>2 DEF AsHeap!Next, AsHeap!Free
    <2>3. CASE held' = held
      BY <2>3 DEF Bytes
    <2> QED  BY <2>1, <2>2, <2>3, StepIs
  <1> QED  BY <1>1, <1>2, BytesApart, Invariance, PTL DEF Spec, HeapSpec, AsHeap!Spec

-----------------------------------------------------------------------------
(* The byte heap.  The block of a vmalloc that is full may run over the end *)
(* of the heap.  What keeps it apart from the others there is that blocks  *)
(* are runs: two that meet past the end meet in the last byte of the heap, *)
(* too.                                                                    *)
BitsInv ==
    /\ boot \subseteq Heap
    /\ \A b \in blocks : \E s \in Heap, size \in Nat \ {0} : b = Run(s, size)
    /\ \A b, c \in blocks : b # c => b \cap c = {}
    /\ BitsAccounted

LEMMA InitBits == init_mm => BitsInv
  BY VMallocAssumption DEF init_mm, BitsInv, BitsAccounted, Heap

(* What a search ends with: a run of clear bits, up to the end of the heap *)
(* at most.                                                                *)
LEMMA StartClear ==
  ASSUME NEW size \in Nat \ {0}, NEW s \in 0 .. HEAP, Start(s, size)
  PROVE  Run(s, size) \cap mmap \cap Heap = {}
  BY VMallocAssumption DEF Start, Fits, Run, Heap

(* The block of a vmalloc is apart from every other one. *)
LEMMA BlockApart ==
  ASSUME BitsInv, NEW size \in Nat \ {0}, NEW s \in Heap, Start(s, size), NEW b \in blocks
  PROVE  Run(s, size) \cap b = {}
  <1>1. PICK t \in Heap, n \in Nat \ {0} : b = Run(t, n)
    BY DEF BitsInv
  <1>2. s \in 0 .. HEAP /\ s \in Nat /\ t \in Nat /\ HEAP \in Nat /\ s < HEAP /\ t < HEAP
    BY VMallocAssumption DEF Heap
  <1>3. \A x \in Heap : x \in Run(s, size) => x \notin b
    <2>1. b \cap Heap \subseteq mmap
      BY DEF BitsInv, BitsAccounted
    <2> QED  BY <1>2, <2>1, StartClear
  <1>4. ASSUME NEW x \in Run(s, size), x \in b PROVE FALSE
    <2>1. x \in Int /\ s <= x /\ t <= x /\ x <= s + size - 1 /\ x <= t + n - 1
      BY <1>1, <1>2, <1>4 DEF Run
    <2>2. CASE x < HEAP
      BY <1>2, <1>3, <1>4, <2>1, <2>2 DEF Heap
    <2>3. CASE x >= HEAP
      <3>1. HEAP - 1 \in Run(s, size) /\ HEAP - 1 \in Run(t, n) /\ HEAP - 1 \in Heap
        BY <1>2, <2>1, <2>3 DEF Run, Heap
      <3> QED  BY <1>1, <1>3, <3>1
    <2> QED  BY <1>2, <2>1, <2>2, <2>3
  <1> QED  BY <1>4

LEMMA VmallocInv == ASSUME BitsInv, NEW size \in Requests, vmalloc(size) PROVE BitsInv'
  <1>1. size \in Nat \ {0}
    BY VMallocAssumption
  <1>2. PICK s \in 0 .. HEAP :
           /\ Start(s, size) /\ mmap' = mmap \cup Run(s, size)
           /\ blocks' = IF s < HEAP THEN blocks \cup {Run(s, size)} ELSE blocks
    BY DEF vmalloc
  <1>3. boot' = boot /\ s \in Nat /\ HEAP \in Nat /\ s <= HEAP
    BY VMallocAssumption DEF vmalloc
  <1>4. Run(s, size) \cap mmap \cap Heap = {}
    BY <1>1, <1>2, StartClear
  <1>5. CASE s < HEAP
    <2>1. s \in Heap
      BY <1>3, <1>5 DEF Heap
    <2>2. \A b \in blocks : Run(s, size) \cap b = {}
      BY <1>1, <1>2, <2>1, BlockApart
    <2>3. blocks' = blocks \cup {Run(s, size)}
      BY <1>2, <1>5
    <2>4. \A b \in blocks' : \E u \in Heap, n \in Nat \ {0} : b = Run(u, n)
      BY <1>1, <2>1, <2>3 DEF BitsInv
    <2>5. \A b, c \in blocks' : b # c => b \cap c = {}
      BY <2>2, <2>3 DEF BitsInv
    <2>6. UNION blocks' = (UNION blocks) \cup Run(s, size)
      BY <2>3
    <2>7. BitsAccounted'
      BY <1>2, <1>3, <1>4, <2>6 DEF BitsInv, BitsAccounted
    <2> QED  BY <1>3, <2>4, <2>5, <2>7 DEF BitsInv
  <1>6. CASE s = HEAP
    <2>1. blocks' = blocks /\ Run(s, size) \cap Heap = {}
      BY <1>1, <1>2, <1>3, <1>6 DEF Run, Heap
    <2> QED  BY <1>2, <1>3, <2>1 DEF BitsInv, BitsAccounted
  <1> QED  BY <1>3, <1>5, <1>6

LEMMA VfreeInv == ASSUME BitsInv, NEW b \in blocks, vfree(b) PROVE BitsInv'
  <1>1. mmap' = mmap \ b /\ blocks' = blocks \ {b} /\ boot' = boot
    BY DEF vfree, Cleared
  <1>2. UNION blocks' = (UNION blocks) \ b
    BY <1>1 DEF BitsInv
  <1>3. BitsAccounted'
    BY <1>1, <1>2 DEF BitsInv, BitsAccounted
  <1> QED  BY <1>1, <1>3 DEF BitsInv

THEOREM BitsInvariance == VMSpec => []BitsInv
  <1>1. BitsInv /\ [VMNext]_vmvars => BitsInv'
    <2>1. BitsInv /\ UNCHANGED vmvars => BitsInv'
      BY DEF vmvars, BitsInv, BitsAccounted
    <2> QED  BY <2>1, VmallocInv, VfreeInv DEF VMNext
  <1> QED  BY InitBits, <1>1, PTL DEF VMSpec

(* No byte of the heap is lost nor handed out while its bit is set.        *)
THEOREM BitsStayAccounted == VMSpec => []BitsAccounted
  <1>1. BitsInv => BitsAccounted
    BY DEF BitsInv
  <1> QED  BY BitsInvariance, <1>1, PTL

(* vmalloc and vfree are a heap: a block handed out shares no byte with     *)
(* another, and leaves by vfree only.                                       *)
THEOREM VMallocIsHeap == VMSpec => ByteHeapSpec
  <1>1. init_mm => AsByteHeap!Init
    BY DEF init_mm, AsByteHeap!Init
  <1>2. BitsInv /\ [VMNext]_vmvars => [AsByteHeap!Next]_blocks
    <2> SUFFICES ASSUME BitsInv, [VMNext]_vmvars PROVE [AsByteHeap!Next]_blocks
      OBVIOUS
    <2>1. ASSUME NEW size \in Requests, vmalloc(size) PROVE AsByteHeap!Alloc \/ blocks' = blocks
      <3>1. size \in Nat \ {0}
        BY VMallocAssumption
      <3>2. PICK s \in 0 .. HEAP :
               /\ Start(s, size)
               /\ blocks' = IF s < HEAP THEN blocks \cup {Run(s, size)} ELSE blocks
        BY <2>1 DEF vmalloc
      <3>3. CASE s < HEAP
        <4>1. s \in Heap /\ s \in Nat
          BY <3>3, VMallocAssumption DEF Heap
        <4>2. Run(s, size) # {} /\ Run(s, size) \cap UNION blocks = {}
          <5>1. s \in Run(s, size)
            BY <3>1, <4>1 DEF Run
          <5> QED  BY <3>1, <3>2, <4>1, <5>1, BlockApart
        <4>3. blocks' = blocks \cup {Run(s, size)} /\ Run(s, size) \notin blocks
          BY <3>2, <3>3, <4>2
        <4>4. Run(s, size) \in blocks' \ blocks
          BY <4>3
        <4> QED  BY <4>2, <4>3, <4>4 DEF AsByteHeap!Alloc
      <3>4. CASE s = HEAP
        BY <3>2, <3>4, VMallocAssumption
      <3> QED  BY <3>3, <3>4, VMallocAssumption
    <2>2. ASSUME NEW b \in blocks, vfree(b) PROVE AsByteHeap!Free
      BY <2>2 DEF vfree, AsByteHeap!Free
    <2>3. CASE UNCHANGED vmvars
      BY <2>3 DEF vmvars
    <2> QED  BY <2>1, <2>2, <2>3 DEF VMNext, AsByteHeap!Next
  <1> QED  BY <1>1, <1>2, BitsInvariance, PTL DEF VMSpec, ByteHeapSpec, AsByteHeap!Spec
=============================================================================
