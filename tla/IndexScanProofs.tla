---------------------------- MODULE IndexScanProofs ----------------------------
(***************************************************************************)
(* Proofs about an index, for every set of keys, all sizes of the entries  *)
(* and every number of rows that the assumptions of BTree allow.  First    *)
(* the build: how the pages of the file hang together, where a key ends    *)
(* up, and what the steps of CREATE INDEX keep of it; then the theorems    *)
(* about the index and the scans of queries over what the build has left.  *)
(***************************************************************************)
EXTENDS IndexScan, SequenceLemmas

USE DEF LocSize

-----------------------------------------------------------------------------
\* Sums[k] is the space that the first k of the items take, with their locs.
Sums(P, sizes) ==
    /\ P \in [0 .. Len(sizes) -> Nat]
    /\ P[0] = 0
    /\ \A k \in 1 .. Len(sizes) : P[k] = P[k - 1] + (sizes[k] + LocSize)

\* SpaceOf is the last of the sums.
LEMMA SpaceIs ==
    ASSUME NEW sizes \in Seq(Nat)
    PROVE  \E P : Sums(P, sizes) /\ SpaceOf(sizes) = P[Len(sizes)]
<1> DEFINE n == Len(sizes)
           seq == [l \in DOMAIN sizes |-> sizes[l] + LocSize]
           step == [w \in (1 .. n) \X Nat |-> w[2] + seq[w[1]]]
           Defines(it) == it = [s \in SUBSET (DOMAIN seq) |->
                                   IF s = {} THEN 0
                                   ELSE it[s \ {Max(s)}] + seq[Max(s)]]
           it == CHOOSE it : Defines(it)
<1>1. n \in Nat /\ DOMAIN sizes = 1 .. n /\ DOMAIN seq = 1 .. n
  OBVIOUS
<1>2. \A l \in 1 .. n : seq[l] = sizes[l] + LocSize /\ seq[l] \in Nat
  BY <1>1
<1>3. SpaceOf(sizes) = it[DOMAIN seq]
  BY DEF SpaceOf, FoldLeft, MapThenFoldSet
<1>4. Defines(it)
  <2>1. step \in [(1 .. n) \X Nat -> Nat]
    BY <1>2
  <2>2. PICK g \in [SUBSET (1 .. n) -> Nat] : Folds(g, n, 0, step)
    BY <1>1, <2>1, FoldExists
  <2>3. ASSUME NEW s \in SUBSET (1 .. n), s # {}
        PROVE  step[<<Max(s), g[s \ {Max(s)}]>>] = g[s \ {Max(s)}] + seq[Max(s)]
    <3>1. Max(s) \in 1 .. n
      BY <1>1, <2>3, MaxIs
    <3>2. g[s \ {Max(s)}] \in Nat
      OBVIOUS
    <3> HIDE DEF seq
    <3> QED
      BY <3>1, <3>2
  <2>4. \A s \in SUBSET (1 .. n) :
            g[s] = IF s = {} THEN 0 ELSE g[s \ {Max(s)}] + seq[Max(s)]
    <3> HIDE DEF step, seq
    <3> QED
      BY <2>2, <2>3 DEF Folds
  <2>5. g = [s \in SUBSET (1 .. n) |-> g[s]]
    OBVIOUS
  <2>6. Defines(g)
    <3> HIDE DEF seq
    <3> QED
      BY <1>1, <2>4, <2>5
  <2> QED
    BY <2>6, ZenonT(30)
<1> HIDE DEF it, seq, step
<1>5. \A s \in SUBSET (1 .. n) :
          it[s] = IF s = {} THEN 0 ELSE it[s \ {Max(s)}] + seq[Max(s)]
  BY <1>1, <1>4
<1> DEFINE P == [k \in 0 .. n |-> it[1 .. k]]
<1>6. P[0] = 0
  <2>1. 1 .. 0 = {} /\ {} \in SUBSET (1 .. n) /\ 0 \in 0 .. n
    BY <1>1
  <2> QED
    BY <1>5, <2>1
<1>7. ASSUME NEW k \in 1 .. n
      PROVE  P[k] = P[k - 1] + (sizes[k] + LocSize)
  <2>1. /\ 1 .. k \in SUBSET (1 .. n) /\ 1 .. k # {}
        /\ Max(1 .. k) = k
        /\ (1 .. k) \ {k} = 1 .. k - 1
    BY <1>1, FoldRange
  <2>2. it[1 .. k] = it[1 .. k - 1] + seq[k]
    BY <1>5, <2>1
  <2>3. k \in 0 .. n /\ k - 1 \in 0 .. n
    BY <1>1
  <2> QED
    BY <1>2, <2>2, <2>3
<1>8. P[n] = SpaceOf(sizes)
  BY <1>1, <1>3
<1> HIDE DEF P
<1> DEFINE Good == {k \in Nat : k <= n => P[k] \in Nat}
<1>9. \A k \in Nat : k >= 0 => k \in Good
  <2>1. 0 \in Good
    BY <1>6
  <2>2. ASSUME NEW k \in Nat, k >= 0, k \in Good PROVE k + 1 \in Good
    <3> SUFFICES ASSUME k + 1 <= n PROVE P[k + 1] \in Nat
      OBVIOUS
    <3>1. k + 1 \in 1 .. n /\ (k + 1) - 1 = k /\ k <= n
      BY <1>1
    <3>2. sizes[k + 1] \in Nat
      BY <3>1
    <3> QED
      BY <1>7, <2>2, <3>1, <3>2
  <2> HIDE DEF Good
  <2> QED
    BY <2>1, <2>2, InductionFrom
<1>10. P \in [0 .. n -> Nat]
  <2>1. P = [k \in 0 .. n |-> P[k]]
    BY DEF P
  <2>2. \A k \in 0 .. n : P[k] \in Nat
    BY <1>1, <1>9
  <2> QED
    BY <2>1, <2>2
<1>11. Sums(P, sizes)
  BY <1>6, <1>7, <1>10 DEF Sums
<1> QED
  BY <1>8, <1>11

\* more is sizes with the size z more, at position i.
OneSizeMore(sizes, more, i, z) ==
    /\ Len(more) = Len(sizes) + 1
    /\ more[i] = z
    /\ \A j \in 1 .. Len(sizes) : j < i => more[j] = sizes[j]
    /\ \A j \in 1 .. Len(sizes) : j >= i => more[j + 1] = sizes[j]

\* An item more takes its size and a loc.
LEMMA SpaceOfOneMore ==
    ASSUME NEW sizes \in Seq(Nat), NEW more \in Seq(Nat), NEW z \in Nat,
           NEW i \in 1 .. Len(sizes) + 1, OneSizeMore(sizes, more, i, z)
    PROVE  SpaceOf(more) = SpaceOf(sizes) + (z + LocSize)
<1> DEFINE n == Len(sizes)
<1>1. n \in Nat /\ Len(more) = n + 1 /\ i \in Nat /\ i >= 1 /\ i <= n + 1
  BY DEF OneSizeMore
<1>2. PICK P : Sums(P, sizes) /\ SpaceOf(sizes) = P[n]
  BY SpaceIs
<1>3. PICK Q : Sums(Q, more) /\ SpaceOf(more) = Q[n + 1]
  BY <1>1, SpaceIs
<1>4. /\ P \in [0 .. n -> Nat] /\ P[0] = 0
      /\ \A k \in 1 .. n : P[k] = P[k - 1] + (sizes[k] + LocSize)
      /\ Q \in [0 .. n + 1 -> Nat] /\ Q[0] = 0
      /\ \A k \in 1 .. n + 1 : Q[k] = Q[k - 1] + (more[k] + LocSize)
  BY <1>1, <1>2, <1>3 DEF Sums
<1>5. /\ more[i] = z
      /\ \A j \in 1 .. n : j < i => more[j] = sizes[j]
      /\ \A j \in 1 .. n : j >= i => more[j + 1] = sizes[j]
      /\ \A j \in 1 .. n : sizes[j] \in Nat
  BY SMTT(30), ZenonT(30) DEF OneSizeMore
<1> HIDE DEF n
<1> DEFINE Same == {k \in Nat : k < i => Q[k] = P[k]}
           More == {k \in Nat : k <= n + 1 => Q[k] = P[k - 1] + (z + LocSize)}
<1>6. \A k \in Nat : k >= 0 => k \in Same
  <2>1. 0 \in Same
    BY <1>4
  <2>2. ASSUME NEW k \in Nat, k >= 0, k \in Same PROVE k + 1 \in Same
    <3> SUFFICES ASSUME k + 1 < i PROVE Q[k + 1] = P[k + 1]
      OBVIOUS
    <3>1. k + 1 \in 1 .. n /\ k + 1 \in 1 .. n + 1 /\ (k + 1) - 1 = k /\ k < i
      BY <1>1
    <3>2. Q[k] = P[k] /\ more[k + 1] = sizes[k + 1]
      BY <1>5, <2>2, <3>1
    <3> QED
      BY <1>4, <3>1, <3>2
  <2> HIDE DEF Same
  <2> QED
    BY <2>1, <2>2, InductionFrom
<1>7. \A k \in Nat : k >= i => k \in More
  <2>1. i \in More
    <3>1. i \in 1 .. n + 1 /\ i - 1 \in 0 .. n /\ i - 1 \in Nat /\ i - 1 < i
      BY <1>1
    <3>2. Q[i] = Q[i - 1] + (z + LocSize) /\ Q[i - 1] = P[i - 1]
      BY <1>4, <1>5, <1>6, <3>1
    <3> QED
      BY <1>1, <3>2
  <2>2. ASSUME NEW k \in Nat, k >= i, k \in More PROVE k + 1 \in More
    <3> SUFFICES ASSUME k + 1 <= n + 1 PROVE Q[k + 1] = P[k] + (z + LocSize)
      OBVIOUS
    <3>1. k \in 1 .. n /\ k + 1 \in 1 .. n + 1 /\ (k + 1) - 1 = k /\ k <= n + 1
          /\ k - 1 \in 0 .. n
      BY <1>1, <2>2
    <3>2. Q[k] = P[k - 1] + (z + LocSize) /\ more[k + 1] = sizes[k]
      BY <1>5, <2>2, <3>1
    <3>3. Q[k + 1] = Q[k] + (sizes[k] + LocSize) /\ P[k] = P[k - 1] + (sizes[k] + LocSize)
      BY <1>4, <3>1, <3>2
    <3>4. P[k - 1] \in Nat /\ sizes[k] \in Nat
      BY <1>4, <1>5, <3>1
    <3> QED
      BY <3>2, <3>3, <3>4, SMTT(30), ZenonT(30)
  <2> HIDE DEF More
  <2> QED
    BY <1>1, <2>1, <2>2, InductionFrom
<1>8. n + 1 \in Nat /\ n + 1 >= i /\ (n + 1) - 1 = n
  BY <1>1
<1> QED
  BY <1>2, <1>3, <1>7, <1>8

\* Nothing takes nothing, and space is a number.
LEMMA SpaceOfNone == SpaceOf(<<>>) = 0
<1>1. <<>> \in Seq(Nat) /\ Len(<<>>) = 0
  OBVIOUS
<1>2. PICK P : Sums(P, <<>>) /\ SpaceOf(<<>>) = P[Len(<<>>)]
  BY <1>1, SpaceIs
<1> QED
  BY <1>1, <1>2 DEF Sums

\* The space of items and locs is a number.
LEMMA SpaceType ==
    ASSUME NEW sizes \in Seq(Nat)
    PROVE  SpaceOf(sizes) \in Nat
<1>1. PICK P : Sums(P, sizes) /\ SpaceOf(sizes) = P[Len(sizes)]
  BY SpaceIs
<1>2. Len(sizes) \in 0 .. Len(sizes)
  OBVIOUS
<1> QED
  BY <1>1, <1>2 DEF Sums

-----------------------------------------------------------------------------
\* Entries, the slots of a page that hold them, and the bodies of pages.
EntryType == [key : Keys \cup {NoKey}, row : Nat]
SlotType == [item : EntryType, dead : BOOLEAN]
BodyType == [items : Seq(SlotType), span : Int]

SizesOf(items) == [l \in DOMAIN items |-> Size(items[l])]

\* The unit of SliverAssumption.
Granule == LocSize + 2

\* A page whose span is what its items leave over, a whole number of granules
\* less than the span of an empty page.
Sound(body) ==
    /\ body \in BodyType
    /\ body.span = LeafSpan - SpaceOf(SizesOf(ItemsOf(body)))
    /\ \E k \in Nat : LeafSpan - body.span = Granule * k

\* An entry has a size, and takes a whole number of granules with its loc.
LEMMA SizeFacts ==
    ASSUME NEW e \in EntryType
    PROVE  Size(e) \in Nat \ {0} /\ \E k \in Nat : Size(e) + LocSize = Granule * k
<1>1. SizeOf[e.key] \in Nat \ {0} /\ (SizeOf[e.key] + LocSize) % Granule = 0
  BY TreeAssumption, SliverAssumption DEF EntryType, Granule
<1>2. ASSUME NEW n \in Nat, n % Granule = 0 PROVE \E k \in Nat : n = Granule * k
  <2>1. n = Granule * (n \div Granule) /\ n \div Granule \in Nat
    BY <1>2 DEF Granule
  <2> QED
    BY <2>1
<1> QED
  BY <1>1, <1>2 DEF Size

\* The entries of a page and their sizes.
LEMMA ItemsFacts ==
    ASSUME NEW body \in BodyType
    PROVE  /\ ItemsOf(body) \in Seq(EntryType)
           /\ Len(ItemsOf(body)) = NumItems(body)
           /\ NumItems(body) \in Nat
           /\ \A l \in 1 .. NumItems(body) : ItemsOf(body)[l] = body.items[l].item
<1>1. body.items \in Seq(SlotType) /\ NumItems(body) \in Nat
  BY DEF BodyType, NumItems
<1>2. \A l \in 1 .. NumItems(body) : body.items[l] \in SlotType
  BY <1>1, ElementOfSeq DEF NumItems
<1>3. \A l \in 1 .. NumItems(body) : body.items[l].item \in EntryType
  BY <1>2 DEF SlotType
<1> QED
  BY <1>1, <1>3 DEF ItemsOf

\* The sizes of a page's items, one by one.
LEMMA SizesFacts ==
    ASSUME NEW items \in Seq(EntryType)
    PROVE  /\ SizesOf(items) \in Seq(Nat)
           /\ Len(SizesOf(items)) = Len(items)
           /\ \A l \in 1 .. Len(items) : SizesOf(items)[l] = Size(items[l])
<1>1. \A l \in 1 .. Len(items) : items[l] \in EntryType
  BY ElementOfSeq
<1>2. \A l \in 1 .. Len(items) : Size(items[l]) \in Nat
  BY <1>1, SizeFacts
<1> QED
  BY <1>2 DEF SizesOf

\* Insertions and removals among slots and among entries.
LEMMA SlotsInsert ==
    ASSUME NEW s \in Seq(SlotType), NEW i \in 1 .. Len(s) + 1, NEW x \in SlotType
    PROVE  /\ InsertAt(s, i, x) \in Seq(SlotType)
           /\ Len(InsertAt(s, i, x)) = Len(s) + 1
           /\ \A j \in 1 .. Len(s) + 1 :
                 InsertAt(s, i, x)[j] =
                     IF j < i THEN s[j] ELSE IF j = i THEN x ELSE s[j - 1]
<1>1. PICK T : T = SlotType
  OBVIOUS
<1>2. s \in Seq(T) /\ x \in T
  BY <1>1
<1>3. /\ InsertAt(s, i, x) \in Seq(T)
      /\ Len(InsertAt(s, i, x)) = Len(s) + 1
      /\ \A j \in 1 .. Len(s) + 1 :
            InsertAt(s, i, x)[j] =
                IF j < i THEN s[j] ELSE IF j = i THEN x ELSE s[j - 1]
  BY <1>2, InsertAtFacts
<1> QED
  BY <1>1, <1>3

\* InsertAtFacts for entries.
LEMMA EntriesInsert ==
    ASSUME NEW s \in Seq(EntryType), NEW i \in 1 .. Len(s) + 1, NEW x \in EntryType
    PROVE  /\ InsertAt(s, i, x) \in Seq(EntryType)
           /\ Len(InsertAt(s, i, x)) = Len(s) + 1
           /\ \A j \in 1 .. Len(s) + 1 :
                 InsertAt(s, i, x)[j] =
                     IF j < i THEN s[j] ELSE IF j = i THEN x ELSE s[j - 1]
<1>1. PICK T : T = EntryType
  OBVIOUS
<1>2. s \in Seq(T) /\ x \in T
  BY <1>1
<1>3. /\ InsertAt(s, i, x) \in Seq(T)
      /\ Len(InsertAt(s, i, x)) = Len(s) + 1
      /\ \A j \in 1 .. Len(s) + 1 :
            InsertAt(s, i, x)[j] =
                IF j < i THEN s[j] ELSE IF j = i THEN x ELSE s[j - 1]
  BY <1>2, InsertAtFacts
<1> QED
  BY <1>1, <1>3

\* RemoveAtFacts for slots.
LEMMA SlotsRemove ==
    ASSUME NEW s \in Seq(SlotType), NEW i \in 1 .. Len(s)
    PROVE  /\ RemoveAt(s, i) \in Seq(SlotType)
           /\ Len(RemoveAt(s, i)) = Len(s) - 1
           /\ \A j \in 1 .. Len(s) - 1 :
                 RemoveAt(s, i)[j] = IF j < i THEN s[j] ELSE s[j + 1]
BY RemoveAtFacts

\* RemoveAtFacts for entries.
LEMMA EntriesRemove ==
    ASSUME NEW s \in Seq(EntryType), NEW i \in 1 .. Len(s)
    PROVE  /\ RemoveAt(s, i) \in Seq(EntryType)
           /\ Len(RemoveAt(s, i)) = Len(s) - 1
           /\ \A j \in 1 .. Len(s) - 1 :
                 RemoveAt(s, i)[j] = IF j < i THEN s[j] ELSE s[j + 1]
BY RemoveAtFacts

\* The granules of a page with an entry more.
LEMMA GranulesMore ==
    ASSUME NEW span \in Int, NEW z \in Nat,
           \E k \in Nat : LeafSpan - span = Granule * k,
           \E k \in Nat : z + LocSize = Granule * k
    PROVE  \E k \in Nat : LeafSpan - (span - (z + LocSize)) = Granule * k
<1>0. LeafSpan \in Nat
  BY TreeAssumption
<1>1. PICK j \in Nat : LeafSpan - span = Granule * j
  OBVIOUS
<1>2. PICK k \in Nat : z + LocSize = Granule * k
  OBVIOUS
<1>3. j + k \in Nat /\ LeafSpan - (span - (z + LocSize)) = Granule * (j + k)
  BY <1>0, <1>1, <1>2 DEF Granule
<1> QED
  BY <1>3

\* An entry inserted at a slot is a slot more, and takes its size and a loc.
LEMMA SoundAddAt ==
    ASSUME NEW body, Sound(body), NEW e \in EntryType, NEW id \in 1 .. NumItems(body) + 1
    PROVE  /\ Sound(AddItemAt(body, id, e, Size(e)))
           /\ ItemsOf(AddItemAt(body, id, e, Size(e))) = InsertAt(ItemsOf(body), id, e)
           /\ NumItems(AddItemAt(body, id, e, Size(e))) = NumItems(body) + 1
           /\ AddItemAt(body, id, e, Size(e)).span = body.span - (Size(e) + LocSize)
<1> DEFINE old == body.items
           new == InsertAt(old, id, Slot(e))
           more == AddItemAt(body, id, e, Size(e))
<1>1. /\ body \in BodyType /\ old \in Seq(SlotType) /\ body.span \in Int
      /\ NumItems(body) = Len(old) /\ Len(old) \in Nat
  BY DEF Sound, BodyType, NumItems
<1>2. Slot(e) \in SlotType /\ Slot(e).item = e
  BY DEF SlotType, Slot
<1>3. /\ new \in Seq(SlotType) /\ Len(new) = Len(old) + 1
      /\ \A j \in 1 .. Len(old) + 1 :
            new[j] = IF j < id THEN old[j] ELSE IF j = id THEN Slot(e) ELSE old[j - 1]
  <2>1. id \in 1 .. Len(old) + 1
    BY <1>1
  <2> HIDE DEF old
  <2> QED
    BY <1>1, <1>2, <2>1, SlotsInsert, SMTT(30), ZenonT(30)
<1>4. more = [items |-> new, span |-> body.span - (Size(e) + LocSize)]
  BY DEF AddItemAt
<1>5. Size(e) \in Nat
  BY SizeFacts
<1>6. more \in BodyType /\ NumItems(more) = NumItems(body) + 1
  <2> HIDE DEF new, more
  <2> QED
    BY <1>1, <1>3, <1>4, <1>5 DEF BodyType, NumItems
<1> HIDE DEF new, more
<1> DEFINE a == ItemsOf(body)
           b == ItemsOf(more)
<1>7. /\ a \in Seq(EntryType) /\ Len(a) = Len(old)
      /\ \A l \in 1 .. Len(old) : a[l] = old[l].item
  BY <1>1, ItemsFacts
<1>8. /\ b \in Seq(EntryType) /\ Len(b) = Len(old) + 1
      /\ \A l \in 1 .. Len(old) + 1 : b[l] = new[l].item
  BY <1>1, <1>4, <1>6, ItemsFacts
<1> HIDE DEF a, b
<1>9. \A j \in 1 .. Len(old) + 1 :
          b[j] = IF j < id THEN a[j] ELSE IF j = id THEN e ELSE a[j - 1]
  <2> SUFFICES ASSUME NEW j \in 1 .. Len(old) + 1
               PROVE  b[j] = IF j < id THEN a[j] ELSE IF j = id THEN e ELSE a[j - 1]
    OBVIOUS
  <2>1. id \in Nat /\ id >= 1 /\ id <= Len(old) + 1
    BY <1>1
  <2>2. CASE j < id
    <3>1. j \in 1 .. Len(old)
      BY <1>1, <2>1, <2>2
    <3> QED
      BY <1>3, <1>7, <1>8, <2>2, <3>1
  <2>3. CASE j = id
    BY <1>2, <1>3, <1>8, <2>1, <2>3
  <2>4. CASE j > id
    <3>1. j - 1 \in 1 .. Len(old) /\ ~(j < id) /\ j # id
      BY <1>1, <2>1, <2>4
    <3>2. b[j] = new[j].item /\ new[j] = old[j - 1] /\ a[j - 1] = old[j - 1].item
      BY <1>3, <1>7, <1>8, <3>1
    <3> QED
      BY <3>1, <3>2
  <2> QED
    BY <2>1, <2>2, <2>3, <2>4
<1>10. b = InsertAt(a, id, e)
  <2> DEFINE c == InsertAt(a, id, e)
  <2>1. id \in 1 .. Len(a) + 1
    BY <1>1, <1>7
  <2>2. /\ c \in Seq(EntryType) /\ Len(c) = Len(a) + 1
        /\ \A j \in 1 .. Len(a) + 1 :
              c[j] = IF j < id THEN a[j] ELSE IF j = id THEN e ELSE a[j - 1]
    BY <1>7, <2>1, EntriesInsert
  <2> HIDE DEF c
  <2>3. Len(b) = Len(c) /\ \A j \in 1 .. Len(b) : b[j] = c[j]
    BY <1>7, <1>8, <1>9, <2>2
  <2>4. b = c
    BY <1>8, <2>2, <2>3, SeqEqual
  <2> QED
    BY <2>4 DEF c
<1>11. SpaceOf(SizesOf(b)) = SpaceOf(SizesOf(a)) + (Size(e) + LocSize)
  <2> DEFINE sa == SizesOf(a)
             sb == SizesOf(b)
  <2>1. /\ sa \in Seq(Nat) /\ Len(sa) = Len(old)
        /\ \A l \in 1 .. Len(old) : sa[l] = Size(a[l])
    BY <1>7, SizesFacts
  <2>2. /\ sb \in Seq(Nat) /\ Len(sb) = Len(old) + 1
        /\ \A l \in 1 .. Len(old) + 1 : sb[l] = Size(b[l])
    BY <1>8, SizesFacts
  <2> HIDE DEF sa, sb
  <2>3. id \in 1 .. Len(sa) + 1 /\ id \in 1 .. Len(old) + 1
    BY <1>1, <2>1
  <2>4. OneSizeMore(sa, sb, id, Size(e))
    <3>1. ASSUME NEW j \in 1 .. Len(old), j >= id PROVE sb[j + 1] = sa[j]
      <4>1. j + 1 \in 1 .. Len(old) + 1 /\ ~(j + 1 < id) /\ j + 1 # id /\ (j + 1) - 1 = j
        BY <1>1, <2>3, <3>1
      <4> QED
        BY <1>9, <2>1, <2>2, <4>1
    <3>2. ASSUME NEW j \in 1 .. Len(old), j < id PROVE sb[j] = sa[j]
      <4>1. j \in 1 .. Len(old) + 1
        BY <1>1
      <4> QED
        BY <1>9, <2>1, <2>2, <3>2, <4>1
    <3>3. sb[id] = Size(e)
      BY <1>9, <2>2, <2>3
    <3> QED
      BY <2>1, <2>2, <3>1, <3>2, <3>3 DEF OneSizeMore
  <2>5. SpaceOf(sb) = SpaceOf(sa) + (Size(e) + LocSize)
    BY <1>5, <2>1, <2>2, <2>3, <2>4, SpaceOfOneMore
  <2> QED
    BY <2>5 DEF sa, sb
<1>12. body.span = LeafSpan - SpaceOf(SizesOf(a)) /\ SpaceOf(SizesOf(a)) \in Nat
  BY <1>7, SizesFacts, SpaceType DEF Sound, a
<1>13. more.span = LeafSpan - SpaceOf(SizesOf(b))
  BY <1>1, <1>4, <1>5, <1>11, <1>12, TreeAssumption
<1>14. \E k \in Nat : LeafSpan - more.span = Granule * k
  <2>1. more.span = body.span - (Size(e) + LocSize)
    BY <1>4
  <2> QED
    BY <1>1, <1>5, <2>1, SizeFacts, GranulesMore, ZenonT(30) DEF Sound
<1>15. Sound(more)
  BY <1>6, <1>13, <1>14 DEF Sound, b
<1> QED
  BY <1>4, <1>6, <1>10, <1>15 DEF a, b, more

\* Appending is inserting at the end.
LEMMA AppendInserts ==
    /\ \A s \in Seq(SlotType), x \in SlotType : Append(s, x) = InsertAt(s, Len(s) + 1, x)
    /\ \A s \in Seq(EntryType), x \in EntryType : Append(s, x) = InsertAt(s, Len(s) + 1, x)
<1>1. ASSUME NEW S, NEW s \in Seq(S), NEW x \in S,
             InsertAt(s, Len(s) + 1, x) \in Seq(S),
             Len(InsertAt(s, Len(s) + 1, x)) = Len(s) + 1,
             \A j \in 1 .. Len(s) + 1 :
                InsertAt(s, Len(s) + 1, x)[j] =
                    IF j < Len(s) + 1 THEN s[j] ELSE IF j = Len(s) + 1 THEN x ELSE s[j - 1]
      PROVE  Append(s, x) = InsertAt(s, Len(s) + 1, x)
  <2> DEFINE a == Append(s, x)
             b == InsertAt(s, Len(s) + 1, x)
  <2>1. /\ a \in Seq(S) /\ Len(a) = Len(s) + 1 /\ a[Len(s) + 1] = x
        /\ \A j \in 1 .. Len(s) : a[j] = s[j]
    BY AppendProperties
  <2>2. Len(s) \in Nat
    OBVIOUS
  <2>3. /\ b \in Seq(S) /\ Len(b) = Len(s) + 1
        /\ \A j \in 1 .. Len(s) + 1 :
              b[j] = IF j < Len(s) + 1 THEN s[j] ELSE IF j = Len(s) + 1 THEN x ELSE s[j - 1]
    BY <1>1
  <2> HIDE DEF a, b
  <2>4. \A j \in 1 .. Len(a) : a[j] = b[j]
    BY <2>1, <2>2, <2>3
  <2>5. a = b
    BY <2>1, <2>3, <2>4, SeqEqual
  <2> QED
    BY <2>5 DEF a, b
<1>2. ASSUME NEW s \in Seq(SlotType), NEW x \in SlotType
      PROVE  Append(s, x) = InsertAt(s, Len(s) + 1, x)
  <2>1. Len(s) + 1 \in 1 .. Len(s) + 1
    OBVIOUS
  <2> QED
    BY <1>1, <2>1, SlotsInsert
<1>3. ASSUME NEW s \in Seq(EntryType), NEW x \in EntryType
      PROVE  Append(s, x) = InsertAt(s, Len(s) + 1, x)
  <2>1. Len(s) + 1 \in 1 .. Len(s) + 1
    OBVIOUS
  <2> QED
    BY <1>1, <2>1, EntriesInsert
<1> QED
  BY <1>2, <1>3

\* An entry added at the end of a page.
LEMMA SoundAdd ==
    ASSUME NEW body, Sound(body), NEW e \in EntryType
    PROVE  /\ Sound(AddItem(body, e, Size(e)))
           /\ ItemsOf(AddItem(body, e, Size(e))) = Append(ItemsOf(body), e)
           /\ NumItems(AddItem(body, e, Size(e))) = NumItems(body) + 1
           /\ AddItem(body, e, Size(e)).span = body.span - (Size(e) + LocSize)
<1> DEFINE id == NumItems(body) + 1
<1>1. /\ body \in BodyType /\ body.items \in Seq(SlotType) /\ NumItems(body) = Len(body.items)
      /\ Slot(e) \in SlotType
  BY DEF Sound, BodyType, NumItems, SlotType, Slot
<1>2. AddItem(body, e, Size(e)) = AddItemAt(body, id, e, Size(e))
  BY <1>1, AppendInserts DEF AddItem, AddItemAt
<1>3. id \in 1 .. NumItems(body) + 1
  BY <1>1
<1>4. ItemsOf(body) \in Seq(EntryType) /\ Len(ItemsOf(body)) = NumItems(body)
  BY <1>1, ItemsFacts
<1>5. InsertAt(ItemsOf(body), id, e) = Append(ItemsOf(body), e)
  BY <1>4, AppendInserts
<1> HIDE DEF id
<1> QED
  BY <1>2, <1>3, <1>5, SoundAddAt

\* An entry removed with its loc gives back what it took.
LEMMA SoundRemove ==
    ASSUME NEW body, Sound(body), NEW id \in 1 .. NumItems(body)
    PROVE  LET z    == Size(ItemsOf(body)[id])
               less == RemoveLoc(body, id, z)
           IN  /\ Sound(less)
               /\ ItemsOf(less) = RemoveAt(ItemsOf(body), id)
               /\ NumItems(less) = NumItems(body) - 1
               /\ less.span = body.span + (z + LocSize)
<1> DEFINE z == Size(ItemsOf(body)[id])
           less == RemoveLoc(body, id, z)
           old == body.items
           new == RemoveAt(old, id)
<1>1. /\ body \in BodyType /\ old \in Seq(SlotType) /\ body.span \in Int
      /\ NumItems(body) = Len(old) /\ Len(old) \in Nat
      /\ id \in Nat /\ id >= 1 /\ id <= Len(old)
  BY DEF Sound, BodyType, NumItems
<1>3. /\ new \in Seq(SlotType) /\ Len(new) = Len(old) - 1
      /\ \A j \in 1 .. Len(old) - 1 : new[j] = IF j < id THEN old[j] ELSE old[j + 1]
  <2>1. id \in 1 .. Len(old)
    BY <1>1
  <2> HIDE DEF old
  <2> QED
    BY <1>1, <2>1, SlotsRemove
<1> DEFINE a == ItemsOf(body)
           b == ItemsOf(less)
<1>7. /\ a \in Seq(EntryType) /\ Len(a) = Len(old)
      /\ \A l \in 1 .. Len(old) : a[l] = old[l].item
  BY <1>1, ItemsFacts
<1>5. a[id] \in EntryType /\ z \in Nat /\ z = Size(a[id])
  <2>1. id \in 1 .. Len(a)
    BY <1>1, <1>7
  <2>2. a[id] \in EntryType
    BY <1>7, <2>1, ElementOfSeq
  <2> QED
    BY <2>2, SizeFacts
<1>4. less = [items |-> new, span |-> body.span + (z + LocSize)]
  BY DEF RemoveLoc
<1> HIDE DEF new, z, a
<1>6. less \in BodyType /\ NumItems(less) = NumItems(body) - 1
  <2> HIDE DEF less
  <2> QED
    BY <1>1, <1>3, <1>4, <1>5 DEF BodyType, NumItems
<1> HIDE DEF less
<1>8. /\ b \in Seq(EntryType) /\ Len(b) = Len(old) - 1
      /\ \A l \in 1 .. Len(old) - 1 : b[l] = new[l].item
  BY <1>1, <1>4, <1>6, ItemsFacts
<1> HIDE DEF b
<1>9. \A j \in 1 .. Len(old) - 1 : b[j] = IF j < id THEN a[j] ELSE a[j + 1]
  <2> SUFFICES ASSUME NEW j \in 1 .. Len(old) - 1
               PROVE  b[j] = IF j < id THEN a[j] ELSE a[j + 1]
    OBVIOUS
  <2>1. j \in 1 .. Len(old) /\ j + 1 \in 1 .. Len(old)
    BY <1>1
  <2>2. b[j] = new[j].item
    BY <1>8
  <2>3. a[j] = old[j].item /\ a[j + 1] = old[j + 1].item
    BY <1>7, <2>1
  <2>4. new[j] = IF j < id THEN old[j] ELSE old[j + 1]
    BY <1>3
  <2> QED
    BY <2>2, <2>3, <2>4
<1>10. b = RemoveAt(a, id)
  <2> DEFINE c == RemoveAt(a, id)
  <2>1. id \in 1 .. Len(a)
    BY <1>1, <1>7
  <2>2. /\ c \in Seq(EntryType) /\ Len(c) = Len(a) - 1
        /\ \A j \in 1 .. Len(a) - 1 : c[j] = IF j < id THEN a[j] ELSE a[j + 1]
    BY <1>7, <2>1, EntriesRemove
  <2> HIDE DEF c
  <2>3. Len(b) = Len(c) /\ \A j \in 1 .. Len(b) : b[j] = c[j]
    BY <1>7, <1>8, <1>9, <2>2
  <2>4. b = c
    BY <1>8, <2>2, <2>3, SeqEqual
  <2> QED
    BY <2>4 DEF c
<1>11. SpaceOf(SizesOf(a)) = SpaceOf(SizesOf(b)) + (z + LocSize)
  <2> DEFINE sa == SizesOf(a)
             sb == SizesOf(b)
  <2>1. /\ sa \in Seq(Nat) /\ Len(sa) = Len(old)
        /\ \A l \in 1 .. Len(old) : sa[l] = Size(a[l])
    BY <1>7, SizesFacts
  <2>2. /\ sb \in Seq(Nat) /\ Len(sb) = Len(old) - 1
        /\ \A l \in 1 .. Len(old) - 1 : sb[l] = Size(b[l])
    BY <1>8, SizesFacts
  <2> HIDE DEF sa, sb
  <2>3. id \in 1 .. Len(sb) + 1 /\ id \in 1 .. Len(old)
    BY <1>1, <2>2
  <2>4. OneSizeMore(sb, sa, id, z)
    <3>1. ASSUME NEW j \in 1 .. Len(old) - 1, j >= id PROVE sa[j + 1] = sb[j]
      <4>1. j + 1 \in 1 .. Len(old) /\ ~(j < id)
        BY <1>1, <3>1
      <4> QED
        BY <1>9, <2>1, <2>2, <4>1
    <3>2. ASSUME NEW j \in 1 .. Len(old) - 1, j < id PROVE sa[j] = sb[j]
      <4>1. j \in 1 .. Len(old)
        BY <1>1
      <4> QED
        BY <1>9, <2>1, <2>2, <3>2, <4>1
    <3>3. sa[id] = z
      BY <1>5, <2>1, <2>3
    <3> QED
      BY <1>1, <2>1, <2>2, <3>1, <3>2, <3>3 DEF OneSizeMore
  <2>5. SpaceOf(sa) = SpaceOf(sb) + (z + LocSize)
    BY <1>5, <2>1, <2>2, <2>3, <2>4, SpaceOfOneMore
  <2> QED
    BY <2>5 DEF sa, sb
<1>12. /\ body.span = LeafSpan - SpaceOf(SizesOf(a))
       /\ SpaceOf(SizesOf(a)) \in Nat /\ SpaceOf(SizesOf(b)) \in Nat
  BY <1>7, <1>8, SizesFacts, SpaceType DEF Sound, a
<1>13. less.span = LeafSpan - SpaceOf(SizesOf(b)) /\ less.span = body.span + (z + LocSize)
  BY <1>1, <1>4, <1>5, <1>11, <1>12, TreeAssumption
<1>14. \E k \in Nat : LeafSpan - less.span = Granule * k
  <2>1. PICK j \in Nat : LeafSpan - body.span = Granule * j
    BY DEF Sound
  <2>2. PICK k \in Nat : z + LocSize = Granule * k
    BY <1>5, SizeFacts
  <2>3. LeafSpan - less.span = Granule * (j - k) /\ LeafSpan - less.span >= 0
    <3>1. LeafSpan \in Nat /\ body.span \in Int /\ less.span = body.span + (z + LocSize)
      BY <1>1, <1>13, TreeAssumption
    <3>2. LeafSpan - less.span = SpaceOf(SizesOf(b))
      BY <1>12, <1>13, <3>1
    <3>3. LeafSpan - less.span = (LeafSpan - body.span) - (z + LocSize)
      BY <1>5, <3>1
    <3>4. Granule * j - Granule * k = Granule * (j - k)
      BY DEF Granule
    <3> QED
      BY <1>12, <2>1, <2>2, <3>2, <3>3, <3>4
  <2>4. j - k \in Nat
    BY <1>12, <1>13, <2>3 DEF Granule
  <2> QED
    BY <2>3, <2>4
<1>15. Sound(less)
  BY <1>6, <1>13, <1>14 DEF Sound, b
<1> QED
  BY <1>6, <1>10, <1>13, <1>15 DEF a, b, less, z

\* A page with nothing but its empty high key.
LEMMA NewBodySound ==
    /\ Sound(NewBody) /\ NumItems(NewBody) = 1
    /\ ItemsOf(NewBody) = <<EmptyHighKey>>
    /\ NewBody.span = LeafSpan - (SizeOf[NoKey] + LocSize)
    /\ EmptyHighKey \in EntryType /\ Size(EmptyHighKey) = SizeOf[NoKey]
<1> DEFINE empty == EmptyPage(LeafSpan)
<1>0. LeafSpan \in Nat
  BY TreeAssumption
<1>1. empty \in BodyType /\ NumItems(empty) = 0 /\ empty.span = LeafSpan
  BY <1>0 DEF EmptyPage, BodyType, NumItems
<1>2. ItemsOf(empty) = <<>>
  BY <1>1 DEF ItemsOf
<1>3. SizesOf(<<>>) = <<>>
  BY DEF SizesOf
<1>4. LeafSpan - empty.span = Granule * 0 /\ empty.span = LeafSpan - 0
  BY <1>0, <1>1 DEF Granule
<1>5. Sound(empty)
  BY <1>1, <1>2, <1>3, <1>4, SpaceOfNone DEF Sound
<1>6. EmptyHighKey \in EntryType /\ Size(EmptyHighKey) = SizeOf[NoKey]
  BY DEF EmptyHighKey, Entry, EntryType, Size
<1>7. NewBody = AddItem(empty, EmptyHighKey, Size(EmptyHighKey))
  BY DEF NewBody
<1> HIDE DEF empty
<1>8. /\ Sound(NewBody) /\ NumItems(NewBody) = NumItems(empty) + 1
      /\ ItemsOf(NewBody) = Append(ItemsOf(empty), EmptyHighKey)
      /\ NewBody.span = empty.span - (Size(EmptyHighKey) + LocSize)
  BY <1>5, <1>6, <1>7, SoundAdd
<1> QED
  BY <1>1, <1>2, <1>6, <1>8

\* Adds[k] is the body after the first k entries, those left out that do not fit.
Adds(B, body, entries) ==
    /\ \A k \in 0 .. Len(entries) : Sound(B[k])
    /\ B[0] = body
    /\ \A k \in 1 .. Len(entries) : B[k] = AddIfFits(B[k - 1], entries[k])

\* The fold that AddAll is goes through a body for each number of items added.
LEMMA AddAllIs ==
    ASSUME NEW body, Sound(body), NEW entries \in Seq(EntryType)
    PROVE  \E B : Adds(B, body, entries) /\ AddAll(body, entries) = B[Len(entries)]
<1> DEFINE n == Len(entries)
           V == {b \in BodyType : Sound(b)}
           step == [w \in (1 .. n) \X V |-> AddIfFits(w[2], entries[w[1]])]
           Defines(it) == it = [s \in SUBSET (DOMAIN entries) |->
                                   IF s = {} THEN body
                                   ELSE AddIfFits(it[s \ {Max(s)}], entries[Max(s)])]
           it == CHOOSE it : Defines(it)
<1>1. n \in Nat /\ DOMAIN entries = 1 .. n /\ \A k \in 1 .. n : entries[k] \in EntryType
  BY ElementOfSeq
<1>2. body \in V /\ \A b \in V : Sound(b)
  BY DEF Sound
<1>3. ASSUME NEW b \in V, NEW e \in EntryType PROVE AddIfFits(b, e) \in V
  <2>1. Sound(AddItem(b, e, Size(e)))
    BY <1>2, SoundAdd
  <2>2. AddItem(b, e, Size(e)) \in V
    BY <2>1 DEF Sound
  <2> QED
    BY <2>2 DEF AddIfFits
<1> HIDE DEF V
<1>4. AddAll(body, entries) = it[DOMAIN entries]
  BY DEF AddAll, FoldLeft, MapThenFoldSet
<1>5. Defines(it)
  <2>1. step \in [(1 .. n) \X V -> V]
    <3> SUFFICES ASSUME NEW w \in (1 .. n) \X V
                 PROVE  AddIfFits(w[2], entries[w[1]]) \in V
      OBVIOUS
    <3>1. w[2] \in V /\ entries[w[1]] \in EntryType
      BY <1>1
    <3> QED
      BY <1>3, <3>1
  <2>2. PICK g \in [SUBSET (1 .. n) -> V] : Folds(g, n, body, step)
    BY <1>1, <1>2, <2>1, FoldExists
  <2>3. ASSUME NEW s \in SUBSET (1 .. n), s # {}
        PROVE  step[<<Max(s), g[s \ {Max(s)}]>>] = AddIfFits(g[s \ {Max(s)}], entries[Max(s)])
    <3>1. Max(s) \in 1 .. n
      BY <1>1, <2>3, MaxIs
    <3>2. g[s \ {Max(s)}] \in V
      OBVIOUS
    <3> QED
      BY <3>1, <3>2
  <2>4. \A s \in SUBSET (1 .. n) :
            g[s] = IF s = {} THEN body ELSE AddIfFits(g[s \ {Max(s)}], entries[Max(s)])
    <3> HIDE DEF step
    <3> QED
      BY <2>2, <2>3 DEF Folds
  <2>5. g = [s \in SUBSET (1 .. n) |-> g[s]]
    OBVIOUS
  <2>6. Defines(g)
    BY <1>1, <2>4, <2>5
  <2> QED
    BY <2>6
<1> HIDE DEF it, step
<1>6. \A s \in SUBSET (1 .. n) :
          it[s] = IF s = {} THEN body ELSE AddIfFits(it[s \ {Max(s)}], entries[Max(s)])
  BY <1>1, <1>5
<1> DEFINE B == [k \in 0 .. n |-> it[1 .. k]]
<1>7. B[0] = body
  <2>1. 1 .. 0 = {} /\ {} \in SUBSET (1 .. n) /\ 0 \in 0 .. n
    BY <1>1
  <2> QED
    BY <1>6, <2>1
<1>8. ASSUME NEW k \in 1 .. n
      PROVE  B[k] = AddIfFits(B[k - 1], entries[k])
  <2>1. /\ 1 .. k \in SUBSET (1 .. n) /\ 1 .. k # {}
        /\ Max(1 .. k) = k
        /\ (1 .. k) \ {k} = 1 .. k - 1
    BY <1>1, FoldRange
  <2>2. it[1 .. k] = AddIfFits(it[1 .. k - 1], entries[k])
    BY <1>6, <2>1
  <2>3. k \in 0 .. n /\ k - 1 \in 0 .. n
    BY <1>1
  <2> QED
    BY <2>2, <2>3
<1>9. B[n] = AddAll(body, entries)
  BY <1>1, <1>4
<1> HIDE DEF B
<1> DEFINE Good == {k \in Nat : k <= n => B[k] \in V}
<1>10. \A k \in Nat : k >= 0 => k \in Good
  <2>1. 0 \in Good
    BY <1>2, <1>7
  <2>2. ASSUME NEW k \in Nat, k >= 0, k \in Good PROVE k + 1 \in Good
    <3> SUFFICES ASSUME k + 1 <= n PROVE B[k + 1] \in V
      OBVIOUS
    <3>1. k + 1 \in 1 .. n /\ (k + 1) - 1 = k /\ k <= n
      BY <1>1
    <3>2. B[k] \in V
      BY <2>2, <3>1
    <3> QED
      BY <1>1, <1>3, <1>8, <3>1, <3>2
  <2> HIDE DEF Good
  <2> QED
    BY <2>1, <2>2, InductionFrom
<1>11. \A k \in 0 .. n : Sound(B[k])
  BY <1>1, <1>2, <1>10
<1>12. Adds(B, body, entries)
  BY <1>7, <1>8, <1>11 DEF Adds
<1> QED
  BY <1>9, <1>12

\* Whatever fits, the body stays sound and its first item stays.
LEMMA AddAllKeeps ==
    ASSUME NEW body, Sound(body), NumItems(body) >= 1, NEW entries \in Seq(EntryType)
    PROVE  /\ Sound(AddAll(body, entries))
           /\ NumItems(AddAll(body, entries)) >= NumItems(body)
           /\ ItemsOf(AddAll(body, entries))[1] = ItemsOf(body)[1]
<1> DEFINE n == Len(entries)
<1>1. n \in Nat /\ \A k \in 1 .. n : entries[k] \in EntryType
  BY ElementOfSeq
<1>2. PICK B : Adds(B, body, entries) /\ AddAll(body, entries) = B[n]
  BY AddAllIs
<1> HIDE DEF n
<1>3. /\ \A k \in 0 .. n : Sound(B[k])
      /\ B[0] = body
      /\ \A k \in 1 .. n : B[k] = AddIfFits(B[k - 1], entries[k])
  BY <1>2 DEF Adds, n
<1> DEFINE Keeps(b) == NumItems(b) >= NumItems(body) /\ ItemsOf(b)[1] = ItemsOf(body)[1]
           Good == {k \in Nat : k <= n => Keeps(B[k])}
<1>4. \A b : Sound(b) => /\ NumItems(b) \in Nat /\ Len(ItemsOf(b)) = NumItems(b)
                         /\ ItemsOf(b) \in Seq(EntryType)
  BY ItemsFacts DEF Sound
<1>5. ASSUME NEW b, Sound(b), Keeps(b), NEW e \in EntryType
      PROVE  Keeps(AddIfFits(b, e))
  <2>1. /\ NumItems(AddItem(b, e, Size(e))) = NumItems(b) + 1
        /\ ItemsOf(AddItem(b, e, Size(e))) = Append(ItemsOf(b), e)
    BY <1>5, SoundAdd
  <2>2. /\ NumItems(b) \in Nat /\ Len(ItemsOf(b)) = NumItems(b)
        /\ ItemsOf(b) \in Seq(EntryType) /\ NumItems(body) \in Nat
    BY <1>4, <1>5
  <2>3. 1 \in 1 .. Len(ItemsOf(b))
    BY <1>5, <2>2
  <2>4. Append(ItemsOf(b), e)[1] = ItemsOf(b)[1]
    BY <2>2, <2>3, AppendProperties
  <2>5. NumItems(b) + 1 >= NumItems(body)
    BY <1>5, <2>2
  <2>6. Keeps(AddItem(b, e, Size(e)))
    BY <1>5, <2>1, <2>4, <2>5
  <2> HIDE DEF Keeps
  <2> QED
    BY <1>5, <2>6 DEF AddIfFits
<1>6. Keeps(body)
  BY <1>4
<1> HIDE DEF Keeps
<1>7. \A k \in Nat : k >= 0 => k \in Good
  <2>1. 0 \in Good
    BY <1>3, <1>6
  <2>2. ASSUME NEW k \in Nat, k >= 0, k \in Good PROVE k + 1 \in Good
    <3> SUFFICES ASSUME k + 1 <= n PROVE Keeps(B[k + 1])
      OBVIOUS
    <3>1. k + 1 \in 1 .. n /\ (k + 1) - 1 = k /\ k <= n /\ k \in 0 .. n
      BY <1>1
    <3>2. Keeps(B[k]) /\ Sound(B[k]) /\ entries[k + 1] \in EntryType
      BY <1>1, <1>3, <2>2, <3>1
    <3> QED
      BY <1>3, <1>5, <3>1, <3>2
  <2> HIDE DEF Good
  <2> QED
    BY <2>1, <2>2, InductionFrom
<1>8. n \in 0 .. n /\ n >= 0 /\ n <= n
  BY <1>1
<1> QED
  BY <1>1, <1>2, <1>3, <1>7, <1>8 DEF Keeps

\* The sums grow.
LEMMA SumsGrow ==
    ASSUME NEW sizes \in Seq(Nat), NEW P, Sums(P, sizes), NEW k \in 0 .. Len(sizes)
    PROVE  P[k] <= P[Len(sizes)]
<1> DEFINE n == Len(sizes)
           Good == {m \in Nat : m <= n => P[k] <= P[m]}
<1>1. n \in Nat /\ k \in Nat /\ k <= n
  OBVIOUS
<1>2. /\ P \in [0 .. n -> Nat]
      /\ \A m \in 1 .. n : P[m] = P[m - 1] + (sizes[m] + LocSize) /\ sizes[m] \in Nat
  BY DEF Sums
<1> HIDE DEF n
<1>3. k \in Good
  <2>1. k \in 0 .. n
    BY <1>1
  <2> QED
    BY <1>1, <1>2, <2>1
<1>4. ASSUME NEW m \in Nat, m >= k, m \in Good PROVE m + 1 \in Good
  <2> SUFFICES ASSUME m + 1 <= n PROVE P[k] <= P[m + 1]
    OBVIOUS
  <2>1. m + 1 \in 1 .. n /\ (m + 1) - 1 = m /\ m \in 0 .. n /\ m <= n /\ k \in 0 .. n
    BY <1>1
  <2>2. P[m + 1] = P[m] + (sizes[m + 1] + LocSize) /\ sizes[m + 1] \in Nat
    BY <1>2, <2>1
  <2>3. P[k] <= P[m] /\ P[m] \in Nat /\ P[k] \in Nat
    BY <1>2, <1>4, <2>1
  <2> QED
    BY <2>2, <2>3
<1>5. \A m \in Nat : m >= k => m \in Good
  <2> HIDE DEF Good
  <2> QED
    BY <1>1, <1>3, <1>4, InductionFrom
<1> QED
  BY <1>1, <1>5 DEF n

\* Entries that fit together are all added, in their order.
LEMMA AddAllFits ==
    ASSUME NEW body, Sound(body), NEW entries \in Seq(EntryType),
           SpaceOf(SizesOf(entries)) <= body.span
    PROVE  /\ ItemsOf(AddAll(body, entries)) = ItemsOf(body) \o entries
           /\ AddAll(body, entries).span = body.span - SpaceOf(SizesOf(entries))
<1> DEFINE n == Len(entries)
           z == SizesOf(entries)
           a == ItemsOf(body)
           m == Len(a)
<1>1. n \in Nat /\ \A k \in 1 .. n : entries[k] \in EntryType
  BY ElementOfSeq
<1>2. PICK B : Adds(B, body, entries) /\ AddAll(body, entries) = B[n]
  BY AddAllIs
<1>3. z \in Seq(Nat) /\ Len(z) = n /\ \A k \in 1 .. n : z[k] = Size(entries[k])
  BY SizesFacts
<1>4. PICK P : Sums(P, z) /\ SpaceOf(z) = P[n]
  BY <1>3, SpaceIs
<1>5. \A b : Sound(b) => /\ b.span \in Int /\ ItemsOf(b) \in Seq(EntryType)
  BY ItemsFacts DEF Sound, BodyType
<1>6. a \in Seq(EntryType) /\ m \in Nat /\ body.span \in Int
  BY <1>5
<1>7. P[n] <= body.span
  BY <1>4
<1>8. \A k \in 0 .. n : P[k] <= P[n]
  BY <1>3, <1>4, SumsGrow
<1> HIDE DEF n, z
<1>9. /\ \A k \in 0 .. n : Sound(B[k])
      /\ B[0] = body
      /\ \A k \in 1 .. n : B[k] = AddIfFits(B[k - 1], entries[k])
  BY <1>2 DEF Adds, n
<1>10. /\ P \in [0 .. n -> Nat] /\ P[0] = 0
       /\ \A k \in 1 .. n : P[k] = P[k - 1] + (Size(entries[k]) + LocSize)
  BY <1>3, <1>4 DEF Sums
<1> HIDE DEF a, m
<1> DEFINE Full(b, k) == /\ b.span = body.span - P[k]
                         /\ Len(ItemsOf(b)) = m + k
                         /\ \A j \in 1 .. m : ItemsOf(b)[j] = a[j]
                         /\ \A j \in 1 .. k : ItemsOf(b)[m + j] = entries[j]
           Good == {k \in Nat : k <= n => Full(B[k], k)}
<1>11. Full(body, 0)
  BY <1>6, <1>10 DEF a, m
<1>12. ASSUME NEW b, Sound(b), NEW k \in Nat, k + 1 <= n, Full(b, k)
       PROVE  Full(AddIfFits(b, entries[k + 1]), k + 1)
  <2> DEFINE e == entries[k + 1]
             c == AddItem(b, e, Size(e))
  <2>1. /\ k + 1 \in 1 .. n /\ (k + 1) - 1 = k /\ k \in 0 .. n /\ k + 1 \in 0 .. n
        /\ e \in EntryType
    BY <1>1, <1>12, SMTT(30), ZenonT(30)
  <2>2. /\ Size(e) \in Nat /\ P[k + 1] = P[k] + (Size(e) + LocSize)
        /\ P[k + 1] <= body.span /\ P[k] \in Nat /\ P[k + 1] \in Nat
    <3>1. Size(e) \in Nat
      BY <2>1, SizeFacts
    <3>2. P[k + 1] <= P[n] /\ P[n] \in Nat /\ P[k + 1] \in Nat /\ P[k] \in Nat
      BY <1>1, <1>8, <1>10, <2>1
    <3>3. P[k + 1] <= body.span
      BY <1>6, <1>7, <3>2
    <3> QED
      BY <1>10, <2>1, <3>1, <3>2, <3>3
  <2> HIDE DEF e
  <2>3. Fits(b, Size(e))
    BY <1>6, <1>12, <2>2 DEF Fits, HasRoom
  <2>4. AddIfFits(b, e) = c
    BY <2>3 DEF AddIfFits
  <2>5. /\ ItemsOf(c) = Append(ItemsOf(b), e)
        /\ c.span = b.span - (Size(e) + LocSize)
    BY <1>12, <2>1, SoundAdd
  <2>6. /\ Len(ItemsOf(c)) = Len(ItemsOf(b)) + 1
        /\ \A j \in 1 .. Len(ItemsOf(b)) : ItemsOf(c)[j] = ItemsOf(b)[j]
        /\ ItemsOf(c)[Len(ItemsOf(b)) + 1] = e
    BY <1>5, <1>12, <2>1, <2>5, AppendProperties
  <2> HIDE DEF c
  <2>7. c.span = body.span - P[k + 1] /\ Len(ItemsOf(c)) = m + (k + 1)
    BY <1>6, <1>12, <2>2, <2>5, <2>6, SMTT(30), ZenonT(30)
  <2>8. \A j \in 1 .. m : ItemsOf(c)[j] = a[j]
    BY <1>6, <1>12, <2>6, SMTT(30)
  <2>9. ASSUME NEW j \in 1 .. k + 1 PROVE ItemsOf(c)[m + j] = entries[j]
    <3>1. CASE j = k + 1
      <4>1. m + j = Len(ItemsOf(b)) + 1
        BY <1>6, <1>12, <3>1
      <4> QED
        BY <2>6, <3>1, <4>1 DEF e
    <3>2. CASE j # k + 1
      <4>1. j \in 1 .. k /\ m + j \in 1 .. Len(ItemsOf(b))
        BY <1>6, <1>12, <3>2
      <4> QED
        BY <1>12, <2>6, <4>1
    <3> QED
      BY <3>1, <3>2
  <2> QED
    BY <2>4, <2>7, <2>8, <2>9 DEF e
<1> HIDE DEF Full
<1>13. \A k \in Nat : k >= 0 => k \in Good
  <2>1. 0 \in Good
    BY <1>9, <1>11
  <2>2. ASSUME NEW k \in Nat, k >= 0, k \in Good PROVE k + 1 \in Good
    <3> SUFFICES ASSUME k + 1 <= n PROVE Full(B[k + 1], k + 1)
      OBVIOUS
    <3>1. k + 1 \in 1 .. n /\ (k + 1) - 1 = k /\ k <= n /\ k \in 0 .. n
      BY <1>1
    <3>2. Full(B[k], k) /\ Sound(B[k])
      BY <1>9, <2>2, <3>1
    <3> QED
      BY <1>9, <1>12, <3>1, <3>2
  <2> HIDE DEF Good
  <2> QED
    BY <2>1, <2>2, InductionFrom
<1>14. Full(B[n], n) /\ Sound(B[n])
  <2>1. n \in 0 .. n /\ n >= 0 /\ n <= n
    BY <1>1
  <2> QED
    BY <1>1, <1>9, <1>13, <2>1
<1>15. ItemsOf(B[n]) = a \o entries
  <2> DEFINE r == ItemsOf(B[n])
             s == a \o entries
  <2>1. /\ r \in Seq(EntryType) /\ Len(r) = m + n
        /\ \A j \in 1 .. m : r[j] = a[j]
        /\ \A j \in 1 .. n : r[m + j] = entries[j]
    BY <1>5, <1>14 DEF Full
  <2>2. /\ s \in Seq(EntryType) /\ Len(s) = m + n
        /\ \A j \in 1 .. m + n : s[j] = IF j <= m THEN a[j] ELSE entries[j - m]
    BY <1>6, ConcatProperties DEF m, n
  <2> HIDE DEF r, s
  <2>3. ASSUME NEW j \in 1 .. m + n PROVE r[j] = s[j]
    <3>1. CASE j <= m
      <4>1. j \in 1 .. m
        BY <1>6, <3>1
      <4> QED
        BY <2>1, <2>2, <3>1, <4>1
    <3>2. CASE ~(j <= m)
      <4>1. j - m \in 1 .. n /\ m + (j - m) = j
        BY <1>1, <1>6, <3>2
      <4>2. r[j] = entries[j - m]
        BY <2>1, <4>1
      <4> QED
        BY <2>2, <3>2, <4>2
    <3> QED
      BY <3>1, <3>2
  <2>4. r = s
    BY <2>1, <2>2, <2>3, SeqEqual
  <2> QED
    BY <2>4 DEF r, s
<1>16. B[n].span = body.span - P[n]
  BY <1>14 DEF Full
<1> QED
  BY <1>2, <1>4, <1>15, <1>16 DEF a, z

-----------------------------------------------------------------------------
\* Space of sequences of entries: of two of them, and of a part with one more.
LEMMA SizesOfConcat ==
    ASSUME NEW s \in Seq(EntryType), NEW t \in Seq(EntryType)
    PROVE  SpaceOf(SizesOf(s \o t)) = SpaceOf(SizesOf(s)) + SpaceOf(SizesOf(t))
<1> DEFINE n == Len(t)
           part(k) == s \o SubSeq(t, 1, k)
           Good == {k \in Nat : k <= n =>
                       SpaceOf(SizesOf(part(k))) =
                           SpaceOf(SizesOf(s)) + SpaceOf(SizesOf(SubSeq(t, 1, k)))}
<1>1. n \in Nat /\ Len(s) \in Nat
  OBVIOUS
<1>2. ASSUME NEW k \in Nat, k <= n
      PROVE  SubSeq(t, 1, k) \in Seq(EntryType) /\ Len(SubSeq(t, 1, k)) = k
  BY <1>1, <1>2
<1>3. 0 \in Good
  <2>1. SubSeq(t, 1, 0) = <<>>
    OBVIOUS
  <2>2. s \o <<>> = s
    BY ConcatEmptySeq
  <2>3. SizesOf(<<>>) = <<>>
    BY DEF SizesOf
  <2>4. SpaceOf(SizesOf(s)) \in Nat
    BY SizesFacts, SpaceType
  <2>5. part(0) = s
    BY <2>1, <2>2
  <2>6. SpaceOf(SizesOf(part(0))) = SpaceOf(SizesOf(s)) + SpaceOf(SizesOf(SubSeq(t, 1, 0)))
    <3>1. SpaceOf(SizesOf(SubSeq(t, 1, 0))) = 0
      BY <2>1, <2>3, SpaceOfNone, Zenon
    <3>2. SpaceOf(SizesOf(part(0))) = SpaceOf(SizesOf(s))
      BY <2>5, Zenon
    <3> HIDE DEF part
    <3> QED
      BY <2>4, <3>1, <3>2
  <2> HIDE DEF part
  <2> QED
    BY <2>6
<1>4. ASSUME NEW k \in Nat, k >= 0, k \in Good PROVE k + 1 \in Good
  <2> SUFFICES ASSUME k + 1 <= n
               PROVE  SpaceOf(SizesOf(part(k + 1))) =
                          SpaceOf(SizesOf(s)) + SpaceOf(SizesOf(SubSeq(t, 1, k + 1)))
    OBVIOUS
  <2> DEFINE e == t[k + 1]
             p == SubSeq(t, 1, k)
             q == SubSeq(t, 1, k + 1)
             sp == s \o p
             sq == s \o q
  <2>1. k <= n /\ k + 1 \in 1 .. n /\ e \in EntryType /\ Size(e) \in Nat
    <3>1. k + 1 \in 1 .. Len(t)
      BY <1>1
    <3>2. e \in EntryType
      BY <3>1, ElementOfSeq
    <3> QED
      BY <1>1, <3>1, <3>2, SizeFacts
  <2>2. p \in Seq(EntryType) /\ Len(p) = k /\ q \in Seq(EntryType) /\ Len(q) = k + 1
    BY <1>2, <2>1
  <2>3. (\A j \in 1 .. k : p[j] = t[j]) /\ (\A j \in 1 .. k + 1 : q[j] = t[j])
    BY <2>1
  <2>4. SpaceOf(SizesOf(sp)) = SpaceOf(SizesOf(s)) + SpaceOf(SizesOf(p))
    BY <1>4, <2>1
  <2> HIDE DEF p, q
  <2>5. /\ sp \in Seq(EntryType) /\ Len(sp) = Len(s) + k
        /\ sq \in Seq(EntryType) /\ Len(sq) = Len(s) + (k + 1)
        /\ \A j \in 1 .. Len(s) + k :
              sp[j] = IF j <= Len(s) THEN s[j] ELSE p[j - Len(s)]
        /\ \A j \in 1 .. Len(s) + (k + 1) :
              sq[j] = IF j <= Len(s) THEN s[j] ELSE q[j - Len(s)]
    <3>1. \A a, b \in Seq(EntryType) :
              /\ a \o b \in Seq(EntryType) /\ Len(a \o b) = Len(a) + Len(b)
              /\ \A j \in 1 .. Len(a) + Len(b) :
                    (a \o b)[j] = IF j <= Len(a) THEN a[j] ELSE b[j - Len(a)]
      BY ConcatProperties
    <3>2. /\ sp \in Seq(EntryType) /\ Len(sp) = Len(s) + Len(p)
          /\ \A j \in 1 .. Len(s) + Len(p) :
                sp[j] = IF j <= Len(s) THEN s[j] ELSE p[j - Len(s)]
      BY <2>2, <3>1
    <3>3. /\ sq \in Seq(EntryType) /\ Len(sq) = Len(s) + Len(q)
          /\ \A j \in 1 .. Len(s) + Len(q) :
                sq[j] = IF j <= Len(s) THEN s[j] ELSE q[j - Len(s)]
      BY <2>2, <3>1
    <3> HIDE DEF sp, sq
    <3> QED
      BY <2>2, <3>2, <3>3
  <2> HIDE DEF sp, sq, e
  <2>6. \A a \in Seq(EntryType), b \in Seq(EntryType) :
            Len(b) = Len(a) + 1 /\ b[Len(b)] = e /\ (\A j \in 1 .. Len(a) : b[j] = a[j])
            => SpaceOf(SizesOf(b)) = SpaceOf(SizesOf(a)) + (Size(e) + LocSize)
    <3> SUFFICES ASSUME NEW a \in Seq(EntryType), NEW b \in Seq(EntryType),
                        Len(b) = Len(a) + 1, b[Len(b)] = e, \A j \in 1 .. Len(a) : b[j] = a[j]
                 PROVE  SpaceOf(SizesOf(b)) = SpaceOf(SizesOf(a)) + (Size(e) + LocSize)
      OBVIOUS
    <3>1. /\ SizesOf(a) \in Seq(Nat) /\ Len(SizesOf(a)) = Len(a)
          /\ \A l \in 1 .. Len(a) : SizesOf(a)[l] = Size(a[l])
          /\ SizesOf(b) \in Seq(Nat) /\ Len(SizesOf(b)) = Len(b)
          /\ \A l \in 1 .. Len(b) : SizesOf(b)[l] = Size(b[l])
      BY SizesFacts
    <3>2. Len(a) + 1 \in 1 .. Len(SizesOf(a)) + 1 /\ Len(a) \in Nat
      BY <3>1
    <3>3. OneSizeMore(SizesOf(a), SizesOf(b), Len(a) + 1, Size(e))
      BY <3>1, <3>2 DEF OneSizeMore
    <3> QED
      BY <2>1, <3>1, <3>2, <3>3, SpaceOfOneMore
  <2>7. SpaceOf(SizesOf(q)) = SpaceOf(SizesOf(p)) + (Size(e) + LocSize)
    <3>1. Len(q) = Len(p) + 1 /\ q[Len(q)] = e /\ \A j \in 1 .. Len(p) : q[j] = p[j]
      BY <2>2, <2>3 DEF e
    <3> QED
      BY <2>2, <2>6, <3>1
  <2>8. SpaceOf(SizesOf(sq)) = SpaceOf(SizesOf(sp)) + (Size(e) + LocSize)
    <3>1. Len(sq) = Len(sp) + 1
      BY <1>1, <2>5
    <3>2. sq[Len(sq)] = e
      <4>1. Len(s) + (k + 1) \in 1 .. Len(s) + (k + 1) /\ ~(Len(s) + (k + 1) <= Len(s))
            /\ (Len(s) + (k + 1)) - Len(s) = k + 1 /\ k + 1 \in 1 .. k + 1
        BY <1>1
      <4> QED
        BY <2>3, <2>5, <4>1 DEF e
    <3>3. ASSUME NEW j \in 1 .. Len(sp) PROVE sq[j] = sp[j]
      <4>1. j \in 1 .. Len(s) + k /\ j \in 1 .. Len(s) + (k + 1)
        BY <1>1, <2>5
      <4>2. CASE j <= Len(s)
        BY <2>5, <4>1, <4>2
      <4>3. CASE ~(j <= Len(s))
        <5>1. j - Len(s) \in 1 .. k /\ j - Len(s) \in 1 .. k + 1
          BY <1>1, <4>1, <4>3
        <5> QED
          BY <2>3, <2>5, <4>1, <4>3, <5>1
      <4> QED
        BY <4>2, <4>3
    <3> QED
      BY <2>5, <2>6, <3>1, <3>2, <3>3
  <2>9. /\ SpaceOf(SizesOf(s)) \in Nat /\ SpaceOf(SizesOf(p)) \in Nat
    BY <2>2, SizesFacts, SpaceType
  <2>10. SpaceOf(SizesOf(sq)) = SpaceOf(SizesOf(s)) + SpaceOf(SizesOf(q))
    BY <2>1, <2>4, <2>7, <2>8, <2>9
  <2> QED
    BY <2>10 DEF sq, q
<1>5. \A k \in Nat : k >= 0 => k \in Good
  <2> HIDE DEF Good
  <2> QED
    BY <1>3, <1>4, InductionFrom
<1>6. part(n) = s \o t
  BY SubSeqFull
<1>7. SubSeq(t, 1, n) = t
  BY SubSeqFull
<1> HIDE DEF part
<1>8. n \in Good /\ n <= n
  BY <1>1, <1>5
<1>9. SpaceOf(SizesOf(part(n))) = SpaceOf(SizesOf(s)) + SpaceOf(SizesOf(SubSeq(t, 1, n)))
  <2> HIDE DEF n
  <2> QED
    BY <1>8
<1> QED
  BY <1>6, <1>7, <1>9, Zenon

-----------------------------------------------------------------------------
\* Sizes: insertions and parts.
LEMMA SizesInsert ==
    ASSUME NEW s \in Seq(Nat), NEW i \in 1 .. Len(s) + 1, NEW x \in Nat
    PROVE  /\ InsertAt(s, i, x) \in Seq(Nat)
           /\ Len(InsertAt(s, i, x)) = Len(s) + 1
           /\ \A j \in 1 .. Len(s) + 1 :
                 InsertAt(s, i, x)[j] =
                     IF j < i THEN s[j] ELSE IF j = i THEN x ELSE s[j - 1]
<1>1. PICK T : T = Nat
  OBVIOUS
<1>2. s \in Seq(T) /\ x \in T
  BY <1>1
<1>3. /\ InsertAt(s, i, x) \in Seq(T)
      /\ Len(InsertAt(s, i, x)) = Len(s) + 1
      /\ \A j \in 1 .. Len(s) + 1 :
            InsertAt(s, i, x)[j] =
                IF j < i THEN s[j] ELSE IF j = i THEN x ELSE s[j - 1]
  BY <1>2, InsertAtFacts
<1> QED
  BY <1>1, <1>3

\* A part of a sequence of numbers.
LEMMA NatSubSeq ==
    ASSUME NEW s \in Seq(Nat), NEW i \in 1 .. Len(s) + 1, NEW m \in 0 .. Len(s), i <= m + 1
    PROVE  /\ SubSeq(s, i, m) \in Seq(Nat)
           /\ Len(SubSeq(s, i, m)) = m - i + 1
           /\ \A j \in 1 .. m - i + 1 : SubSeq(s, i, m)[j] = s[i + j - 1]
<1>1. Len(s) \in Nat /\ i \in Int /\ m \in Int
  OBVIOUS
<1>2. \A j \in i .. m : s[j] \in Nat
  BY <1>1
<1>3. /\ SubSeq(s, i, m) \in Seq(Nat)
      /\ Len(SubSeq(s, i, m)) = IF i <= m THEN m - i + 1 ELSE 0
      /\ \A j \in 1 .. m - i + 1 : SubSeq(s, i, m)[j] = s[i + j - 1]
  BY <1>1, <1>2, SubSeqProperties
<1> QED
  BY <1>1, <1>3

\* A part of a sequence of entries.
LEMMA EntrySubSeq ==
    ASSUME NEW s \in Seq(EntryType), NEW i \in 1 .. Len(s) + 1, NEW m \in 0 .. Len(s), i <= m + 1
    PROVE  /\ SubSeq(s, i, m) \in Seq(EntryType)
           /\ Len(SubSeq(s, i, m)) = m - i + 1
           /\ \A j \in 1 .. m - i + 1 : SubSeq(s, i, m)[j] = s[i + j - 1]
<1>1. Len(s) \in Nat /\ i \in Int /\ m \in Int
  OBVIOUS
<1>2. \A j \in i .. m : s[j] \in EntryType
  BY <1>1
<1>3. /\ SubSeq(s, i, m) \in Seq(EntryType)
      /\ Len(SubSeq(s, i, m)) = IF i <= m THEN m - i + 1 ELSE 0
      /\ \A j \in 1 .. m - i + 1 : SubSeq(s, i, m)[j] = s[i + j - 1]
  BY <1>1, <1>2, SubSeqProperties
<1> QED
  BY <1>1, <1>3

\* The sizes of a part are the part of the sizes.
LEMMA SizesOfPart ==
    ASSUME NEW items \in Seq(EntryType), NEW i \in 1 .. Len(items) + 1,
           NEW m \in 0 .. Len(items), i <= m + 1
    PROVE  SizesOf(SubSeq(items, i, m)) = SubSeq(SizesOf(items), i, m)
<1> DEFINE part == SubSeq(items, i, m)
           z == SizesOf(items)
           a == SizesOf(part)
           b == SubSeq(z, i, m)
<1>1. /\ part \in Seq(EntryType) /\ Len(part) = m - i + 1
      /\ \A j \in 1 .. m - i + 1 : part[j] = items[i + j - 1]
  BY EntrySubSeq
<1>2. /\ z \in Seq(Nat) /\ Len(z) = Len(items) /\ Len(items) \in Nat
      /\ \A l \in 1 .. Len(items) : z[l] = Size(items[l])
  BY SizesFacts
<1> HIDE DEF part, z
<1>3. /\ a \in Seq(Nat) /\ Len(a) = m - i + 1
      /\ \A j \in 1 .. m - i + 1 : a[j] = Size(part[j])
  BY <1>1, SizesFacts
<1>4. /\ b \in Seq(Nat) /\ Len(b) = m - i + 1
      /\ \A j \in 1 .. m - i + 1 : b[j] = z[i + j - 1]
  BY <1>2, NatSubSeq
<1> HIDE DEF a, b
<1>5. ASSUME NEW j \in 1 .. m - i + 1 PROVE a[j] = b[j]
  <2>1. i + j - 1 \in 1 .. Len(items)
    BY <1>2
  <2> QED
    BY <1>1, <1>2, <1>3, <1>4, <2>1
<1>6. a = b
  BY <1>3, <1>4, <1>5, SeqEqual
<1> QED
  BY <1>6 DEF a, b, part, z

\* The last slot that a split keeps when s is the last slot to stay, the new
\* entry counted.
KeptUpTo(at, s) == IF at <= s THEN s - 1 ELSE s

\* The sizes that a split compares: those behind slot s are the moved items', and
\* the new entry's if it goes behind s.
LEMMA SplitSizes ==
    ASSUME NEW leaf, Sound(leaf.body), NEW entry \in EntryType,
           NEW at \in FirstKey .. NumItems(leaf.body) + 1,
           NEW s \in FirstKey .. NumItems(leaf.body)
    PROVE  LET items == ItemsOf(leaf.body)
               n     == NumItems(leaf.body)
               w     == SizesWith(leaf, entry, at)
               moved == SubSeq(items, KeptUpTo(at, s) + 1, n)
           IN  /\ w[HighKey] = Size(items[HighKey])
               /\ w[s + 1] \in Nat /\ w[s + 1] >= SizeOf[NoKey]
               /\ SpaceOf(SubSeq(w, s + 1, Len(w))) =
                      SpaceOf(SizesOf(moved))
                          + (IF at <= s THEN 0 ELSE Size(entry) + LocSize)
<1> DEFINE items == ItemsOf(leaf.body)
           n     == NumItems(leaf.body)
           z     == SizesOf(items)
           w     == SizesWith(leaf, entry, at)
           k     == KeptUpTo(at, s)
           moved == SubSeq(items, k + 1, n)
<1> USE DEF HighKey, FirstKey
<1>1. items \in Seq(EntryType) /\ Len(items) = n /\ n \in Nat
  BY ItemsFacts DEF Sound
<1>2. n >= 2 /\ at \in Nat /\ s \in Nat /\ at >= 2 /\ at <= n + 1 /\ s >= 2 /\ s <= n
  BY <1>1
<1> HIDE DEF items, n
<1>3. /\ z \in Seq(Nat) /\ Len(z) = n /\ \A l \in 1 .. n : z[l] = Size(items[l])
      /\ \A l \in 1 .. n : items[l] \in EntryType
  BY <1>1, SizesFacts, ElementOfSeq
<1>4. Size(entry) \in Nat
  BY SizeFacts
<1>5. w = InsertAt(z, at, Size(entry))
  BY DEF SizesWith, SizesOf, items
<1> HIDE DEF z, w
<1>6. /\ w \in Seq(Nat) /\ Len(w) = n + 1
      /\ \A j \in 1 .. n + 1 :
            w[j] = IF j < at THEN z[j] ELSE IF j = at THEN Size(entry) ELSE z[j - 1]
  <2>1. at \in 1 .. Len(z) + 1
    BY <1>2, <1>3
  <2> QED
    <3>1. /\ InsertAt(z, at, Size(entry)) \in Seq(Nat)
          /\ Len(InsertAt(z, at, Size(entry))) = Len(z) + 1
          /\ \A j \in 1 .. Len(z) + 1 :
                InsertAt(z, at, Size(entry))[j] =
                    IF j < at THEN z[j] ELSE IF j = at THEN Size(entry) ELSE z[j - 1]
      BY <1>3, <1>4, <2>1, SizesInsert, ZenonT(30)
    <3> QED
      BY <1>3, <1>5, <3>1
<1>7. w[1] = Size(items[1])
  BY <1>2, <1>3, <1>6
<1>8. w[s + 1] \in Nat /\ w[s + 1] >= SizeOf[NoKey]
  <2>1. \A e \in EntryType : Size(e) >= SizeOf[NoKey]
    <3>1. ASSUME NEW e \in EntryType PROVE Size(e) >= SizeOf[NoKey]
      <4>1. e.key \in Keys \/ e.key = NoKey
        BY DEF EntryType
      <4>2. SizeOf[NoKey] \in Nat
        BY TreeAssumption
      <4>3. CASE e.key \in Keys
        BY <4>3, EmptyKeyAssumption, TreeAssumption DEF Size
      <4>4. CASE e.key = NoKey
        BY <4>2, <4>4 DEF Size
      <4> QED
        BY <4>1, <4>3, <4>4
    <3> QED
      BY <3>1
  <2>2. s + 1 \in 1 .. n + 1 /\ s \in 1 .. n /\ (s + 1) - 1 = s
    BY <1>1, <1>2
  <2>3. \/ s + 1 < at /\ s + 1 \in 1 .. n /\ w[s + 1] = z[s + 1]
        \/ w[s + 1] = Size(entry)
        \/ w[s + 1] = z[s]
    BY <1>1, <1>2, <1>6, <2>2
  <2>4. w[s + 1] \in Nat
    BY <1>6, <2>2
  <2> QED
    BY <1>3, <2>1, <2>2, <2>3, <2>4
<1> DEFINE ws == SubSeq(w, s + 1, n + 1)
<1>9. /\ ws \in Seq(Nat) /\ Len(ws) = n - s + 1
      /\ \A j \in 1 .. n - s + 1 : ws[j] = w[s + j]
  <2>1. s + 1 \in 1 .. Len(w) + 1 /\ n + 1 \in 0 .. Len(w) /\ s + 1 <= (n + 1) + 1
    BY <1>1, <1>2, <1>6
  <2>2. /\ ws \in Seq(Nat) /\ Len(ws) = (n + 1) - (s + 1) + 1
        /\ \A j \in 1 .. (n + 1) - (s + 1) + 1 : ws[j] = w[(s + 1) + j - 1]
    BY <1>6, <2>1, NatSubSeq
  <2> HIDE DEF ws
  <2>3. (n + 1) - (s + 1) + 1 = n - s + 1
    BY <1>1, <1>2
  <2>4. \A j \in 1 .. n - s + 1 : (s + 1) + j - 1 = s + j
    BY <1>1, <1>2
  <2> QED
    BY <2>2, <2>3, <2>4
<1> HIDE DEF ws
<1>10. /\ k \in Nat /\ k + 1 \in 1 .. n + 1 /\ n \in 0 .. n /\ k + 1 <= n + 1
       /\ k = IF at <= s THEN s - 1 ELSE s
  BY <1>1, <1>2 DEF KeptUpTo
<1>11. SizesOf(moved) = SubSeq(z, k + 1, n)
  BY <1>1, <1>10, SizesOfPart DEF z
<1> HIDE DEF k
<1> DEFINE zs == SubSeq(z, k + 1, n)
<1>12. /\ zs \in Seq(Nat) /\ Len(zs) = n - k
       /\ \A j \in 1 .. n - k : zs[j] = z[k + j]
  <2>1. /\ zs \in Seq(Nat) /\ Len(zs) = n - (k + 1) + 1
        /\ \A j \in 1 .. n - (k + 1) + 1 : zs[j] = z[(k + 1) + j - 1]
    BY <1>3, <1>10, NatSubSeq
  <2> HIDE DEF zs
  <2>2. n - (k + 1) + 1 = n - k /\ \A j \in 1 .. n - k : (k + 1) + j - 1 = k + j
    BY <1>1, <1>10
  <2> QED
    BY <2>1, <2>2
<1> HIDE DEF zs
<1>13. CASE at <= s
  <2>1. k = s - 1 /\ n - k = n - s + 1
    BY <1>1, <1>2, <1>10, <1>13
  <2>2. ASSUME NEW j \in 1 .. n - s + 1 PROVE ws[j] = zs[j]
    <3>1. s + j \in 1 .. n + 1 /\ ~(s + j < at) /\ s + j # at /\ (s + j) - 1 = k + j
      BY <1>1, <1>2, <1>13, <2>1
    <3>2. ws[j] = w[s + j] /\ w[s + j] = z[(s + j) - 1]
      BY <1>6, <1>9, <3>1
    <3> QED
      BY <1>12, <2>1, <3>1, <3>2
  <2>3. ws = zs
    BY <1>9, <1>12, <2>1, <2>2, SeqEqual
  <2>4. SpaceOf(zs) \in Nat
    BY <1>12, SpaceType
  <2>5. SpaceOf(ws) = SpaceOf(zs) + 0
    BY <2>3, <2>4
  <2> QED
    BY <1>6, <1>7, <1>8, <1>11, <1>13, <2>5 DEF ws, zs, w, items, n, k
<1>14. CASE ~(at <= s)
  <2>1. k = s /\ at - s \in 1 .. Len(zs) + 1 /\ at - s \in Nat
    BY <1>1, <1>2, <1>10, <1>12, <1>14
  <2>2. OneSizeMore(zs, ws, at - s, Size(entry))
    <3>1. Len(ws) = Len(zs) + 1
      BY <1>1, <1>2, <1>9, <1>12, <2>1
    <3>2. ws[at - s] = Size(entry)
      <4>1. at - s \in 1 .. n - s + 1 /\ s + (at - s) = at /\ at \in 1 .. n + 1
        BY <1>1, <1>2, <1>14
      <4> QED
        BY <1>2, <1>6, <1>9, <4>1
    <3>3. ASSUME NEW j \in 1 .. Len(zs), j < at - s PROVE ws[j] = zs[j]
      <4>1. /\ j \in 1 .. n - s + 1 /\ j \in 1 .. n - k
            /\ s + j < at /\ s + j \in 1 .. n + 1 /\ s + j = k + j
        BY <1>1, <1>2, <1>12, <1>14, <2>1, <3>3
      <4> QED
        BY <1>6, <1>9, <1>12, <4>1
    <3>4. ASSUME NEW j \in 1 .. Len(zs), j >= at - s PROVE ws[j + 1] = zs[j]
      <4>1. /\ j + 1 \in 1 .. n - s + 1 /\ j \in 1 .. n - k
            /\ ~(s + (j + 1) < at) /\ s + (j + 1) # at /\ s + (j + 1) \in 1 .. n + 1
            /\ (s + (j + 1)) - 1 = k + j
        BY <1>1, <1>2, <1>12, <1>14, <2>1, <3>4
      <4>2. ws[j + 1] = w[s + (j + 1)] /\ w[s + (j + 1)] = z[(s + (j + 1)) - 1]
        BY <1>6, <1>9, <4>1
      <4> QED
        BY <1>12, <4>1, <4>2
    <3> QED
      BY <3>1, <3>2, <3>3, <3>4 DEF OneSizeMore
  <2>3. SpaceOf(ws) = SpaceOf(zs) + (Size(entry) + LocSize)
    BY <1>4, <1>9, <1>12, <2>1, <2>2, SpaceOfOneMore
  <2> QED
    BY <1>6, <1>7, <1>8, <1>11, <1>14, <2>3 DEF ws, zs, w, items, n, k
<1> QED
  BY <1>13, <1>14

-----------------------------------------------------------------------------
\* Where a key goes: slot i is behind every lesser key and not behind a key that
\* the key is not greater than.  Idx is what GetInsertionIdx promises of i.
Idx(i, key, items, n, right) ==
    /\ i \in 1 .. n + 1
    /\ \A l \in FirstKey .. n : l < i => key > items[l].key
    /\ i \in FirstKey .. n => key <= items[i].key
    /\ i = HighKey => /\ right # 0 /\ key > items[HighKey].key
                      /\ \A l \in FirstKey .. n : key > items[l].key
    /\ i = n + 1 => right = 0 \/ key <= items[HighKey].key

\* Keys are numbers.
LEMMA KeyType == \A e \in EntryType : e.key \in Nat
<1>1. ASSUME NEW e \in EntryType PROVE e.key \in Nat
  <2>1. e.key \in Keys \cup {NoKey}
    BY DEF EntryType
  <2>2. Keys \subseteq Nat /\ NoKey \in Nat
    BY TreeAssumption DEF NoKey
  <2> QED
    BY <2>1, <2>2
<1> QED
  BY <1>1

\* GetInsertionIdx keeps its promise.
LEMMA GetInsertionIdxIs ==
    ASSUME NEW leaf, Sound(leaf.body), NumItems(leaf.body) >= 1, NEW key \in Nat
    PROVE  Idx(GetInsertionIdx(key, leaf), key, ItemsOf(leaf.body), NumItems(leaf.body),
               leaf.right)
<1> DEFINE items == ItemsOf(leaf.body)
           n == NumItems(leaf.body)
           found == {l \in FirstKey .. Len(items) : key <= items[l].key}
           i == GetInsertionIdx(key, leaf)
<1> USE DEF HighKey, FirstKey
<1>1. items \in Seq(EntryType) /\ Len(items) = n /\ n \in Nat /\ n >= 1
  BY ItemsFacts DEF Sound
<1>2. \A l \in 1 .. n : items[l].key \in Nat
  <2>1. \A l \in 1 .. n : items[l] \in EntryType
    BY <1>1, ElementOfSeq
  <2> QED
    BY <2>1, KeyType
<1>3. i = IF found # {} THEN Min(found)
          ELSE IF leaf.right # 0 /\ key > items[1].key THEN 1 ELSE Len(items) + 1
  BY DEF GetInsertionIdx
<1> HIDE DEF items, n, i
<1>4. CASE found # {}
  <2>1. found \in SUBSET Nat
    BY <1>1
  <2>2. Min(found) \in found /\ \A l \in found : Min(found) <= l
    BY <1>4, <2>1, MinIs
  <2>3. i \in found /\ \A l \in found : i <= l
    BY <1>3, <1>4, <2>2
  <2>4. i \in 2 .. n /\ key <= items[i].key
    BY <1>1, <2>3
  <2>5. ASSUME NEW l \in 2 .. n, l < i PROVE key > items[l].key
    <3>1. l \notin found
      BY <1>1, <2>3, <2>4, <2>5
    <3>2. ~(key <= items[l].key) /\ items[l].key \in Nat
      BY <1>1, <1>2, <3>1
    <3> QED
      BY <3>2
  <2> QED
    BY <1>1, <2>4, <2>5 DEF Idx, items, n, i
<1>5. CASE found = {}
  <2>1. ASSUME NEW l \in 2 .. n PROVE key > items[l].key
    <3>1. ~(key <= items[l].key) /\ items[l].key \in Nat
      BY <1>1, <1>2, <1>5
    <3> QED
      BY <3>1
  <2>2. CASE leaf.right # 0 /\ key > items[1].key
    <3>1. i = 1
      BY <1>3, <1>5, <2>2
    <3> QED
      BY <1>1, <2>1, <2>2, <3>1 DEF Idx, items, n, i
  <2>3. CASE ~(leaf.right # 0 /\ key > items[1].key)
    <3>1. i = n + 1 /\ i # 1
      BY <1>1, <1>3, <1>5, <2>3
    <3>2. items[1].key \in Nat /\ (leaf.right = 0 \/ key <= items[1].key)
      BY <1>1, <1>2, <2>3
    <3> QED
      BY <1>1, <2>1, <3>1, <3>2 DEF Idx, items, n, i
  <2> QED
    BY <2>2, <2>3
<1> QED
  BY <1>4, <1>5

-----------------------------------------------------------------------------
\* The keys of a page, behind its high key.
KeysOf(items) == SubSeq(items, FirstKey, Len(items))

\* High key and keys of a page make up its items.
LEMMA HighAndKeys ==
    ASSUME NEW items \in Seq(EntryType), Len(items) >= 1
    PROVE  /\ items[HighKey] \in EntryType
           /\ KeysOf(items) \in Seq(EntryType) /\ Len(KeysOf(items)) = Len(items) - 1
           /\ \A j \in 1 .. Len(items) - 1 : KeysOf(items)[j] = items[j + 1]
           /\ items = <<items[HighKey]>> \o KeysOf(items)
<1> USE DEF HighKey, FirstKey
<1> DEFINE n == Len(items)
           h == items[1]
           ks == SubSeq(items, 2, n)
           all == <<h>> \o ks
<1>1. n \in Nat /\ n >= 1 /\ h \in EntryType
  <2>1. 1 \in 1 .. n
    OBVIOUS
  <2> QED
    BY <2>1, ElementOfSeq
<1>2. /\ ks \in Seq(EntryType) /\ Len(ks) = n - 1
      /\ \A j \in 1 .. n - 1 : ks[j] = items[j + 1]
  <2>1. 2 \in 1 .. n + 1 /\ n \in 0 .. n /\ 2 <= n + 1 /\ n - 2 + 1 = n - 1
    BY <1>1
  <2>2. /\ ks \in Seq(EntryType) /\ Len(ks) = n - 2 + 1
        /\ \A j \in 1 .. n - 2 + 1 : ks[j] = items[2 + j - 1]
    BY <2>1, EntrySubSeq
  <2> HIDE DEF ks
  <2>3. \A j \in 1 .. n - 1 : 2 + j - 1 = j + 1
    OBVIOUS
  <2> QED
    BY <2>1, <2>2, <2>3
<1> HIDE DEF ks, h
<1>3. /\ <<h>> \in Seq(EntryType) /\ Len(<<h>>) = 1 /\ <<h>>[1] = h
  BY <1>1
<1>4. /\ all \in Seq(EntryType) /\ Len(all) = 1 + (n - 1)
      /\ \A j \in 1 .. 1 + (n - 1) : all[j] = IF j <= 1 THEN <<h>>[j] ELSE ks[j - 1]
  BY <1>2, <1>3, ConcatProperties
<1> HIDE DEF all
<1>5. ASSUME NEW j \in 1 .. n PROVE items[j] = all[j]
  <2>1. CASE j = 1
    BY <1>1, <1>3, <1>4, <2>1 DEF h
  <2>2. CASE j # 1
    <3>1. j - 1 \in 1 .. n - 1 /\ j \in 1 .. 1 + (n - 1) /\ ~(j <= 1) /\ (j - 1) + 1 = j
      BY <1>1, <2>2
    <3> QED
      BY <1>2, <1>4, <3>1
  <2> QED
    BY <2>1, <2>2
<1>6. items = all
  <2>1. Len(all) = n
    BY <1>1, <1>4
  <2> QED
    BY <1>4, <1>5, <2>1, SeqEqual
<1> QED
  BY <1>1, <1>2, <1>6 DEF KeysOf, ks, h, all

\* A page whose first item is its high key has the others for keys.
LEMMA KeysOfPage ==
    ASSUME NEW h \in EntryType, NEW ks \in Seq(EntryType)
    PROVE  LET items == <<h>> \o ks
           IN  /\ items \in Seq(EntryType) /\ Len(items) = Len(ks) + 1
               /\ items[HighKey] = h
               /\ \A j \in 1 .. Len(ks) : items[j + 1] = ks[j]
               /\ KeysOf(items) = ks
<1> USE DEF HighKey
<1> DEFINE items == <<h>> \o ks
           kk == KeysOf(items)
<1>1. /\ <<h>> \in Seq(EntryType) /\ Len(<<h>>) = 1 /\ <<h>>[1] = h /\ Len(ks) \in Nat
  OBVIOUS
<1>2. /\ items \in Seq(EntryType) /\ Len(items) = 1 + Len(ks)
      /\ \A j \in 1 .. 1 + Len(ks) : items[j] = IF j <= 1 THEN <<h>>[j] ELSE ks[j - 1]
  BY <1>1, ConcatProperties
<1> HIDE DEF items
<1>3. items[1] = h /\ Len(items) >= 1
  BY <1>1, <1>2
<1>4. ASSUME NEW j \in 1 .. Len(ks) PROVE items[j + 1] = ks[j]
  <2>1. j + 1 \in 1 .. 1 + Len(ks) /\ ~(j + 1 <= 1) /\ (j + 1) - 1 = j
    BY <1>1
  <2> QED
    BY <1>2, <2>1
<1>5. /\ kk \in Seq(EntryType) /\ Len(kk) = Len(items) - 1
      /\ \A j \in 1 .. Len(items) - 1 : kk[j] = items[j + 1]
  BY <1>2, <1>3, HighAndKeys
<1> HIDE DEF kk
<1>6. Len(kk) = Len(ks) /\ \A j \in 1 .. Len(ks) : kk[j] = ks[j]
  BY <1>1, <1>2, <1>4, <1>5
<1>7. kk = ks
  BY <1>5, <1>6, SeqEqual
<1> QED
  BY <1>1, <1>2, <1>3, <1>4, <1>7 DEF items, kk

\* The space of one entry.
LEMMA SpaceOfOne ==
    ASSUME NEW e \in EntryType
    PROVE  SpaceOf(SizesOf(<<e>>)) = Size(e) + LocSize
<1>1. /\ SizesOf(<<e>>) \in Seq(Nat) /\ Len(SizesOf(<<e>>)) = 1
      /\ SizesOf(<<e>>)[1] = Size(e)
  <2> DEFINE s == <<e>>
  <2>1. s \in Seq(EntryType) /\ Len(s) = 1 /\ s[1] = e
    OBVIOUS
  <2> HIDE DEF s
  <2>2. /\ SizesOf(s) \in Seq(Nat) /\ Len(SizesOf(s)) = Len(s)
        /\ \A l \in 1 .. Len(s) : SizesOf(s)[l] = Size(s[l])
    BY <2>1, SizesFacts
  <2>3. SizesOf(s)[1] = Size(e)
    BY <2>1, <2>2
  <2> QED
    BY <2>1, <2>2, <2>3 DEF s
<1>2. <<>> \in Seq(Nat) /\ Len(<<>>) = 0 /\ 1 \in 1 .. Len(<<>>) + 1
  OBVIOUS
<1>3. OneSizeMore(<<>>, SizesOf(<<e>>), 1, Size(e))
  BY <1>1, <1>2 DEF OneSizeMore
<1>4. SpaceOf(SizesOf(<<e>>)) = SpaceOf(<<>>) + (Size(e) + LocSize)
  BY <1>1, <1>2, <1>3, SizeFacts, SpaceOfOneMore
<1> QED
  BY <1>4, SpaceOfNone, SizeFacts

\* A page with another high key.
LEMMA SetHighKey ==
    ASSUME NEW body, Sound(body), NumItems(body) >= 1, NEW e \in EntryType
    PROVE  LET new == WithHighKey(WithoutHighKey(body), e)
           IN  /\ Sound(new)
               /\ NumItems(new) = NumItems(body)
               /\ ItemsOf(new) = <<e>> \o KeysOf(ItemsOf(body))
               /\ new.span = WithoutHighKey(body).span - (Size(e) + LocSize)
               /\ WithoutHighKey(body).span =
                      body.span + (Size(ItemsOf(body)[HighKey]) + LocSize)
<1> USE DEF HighKey
<1> DEFINE less == WithoutHighKey(body)
           new == WithHighKey(less, e)
           items == ItemsOf(body)
           n == NumItems(body)
<1>1. items \in Seq(EntryType) /\ Len(items) = n /\ n \in Nat
  BY ItemsFacts DEF Sound
<1>2. /\ Sound(less) /\ ItemsOf(less) = RemoveAt(items, 1)
      /\ NumItems(less) = n - 1
      /\ less.span = body.span + (Size(items[1]) + LocSize)
  <2>1. 1 \in 1 .. n
    BY <1>1
  <2> QED
    BY <2>1, SoundRemove DEF WithoutHighKey
<1> HIDE DEF less, items, n
<1>3. /\ Sound(new) /\ ItemsOf(new) = InsertAt(RemoveAt(items, 1), 1, e)
      /\ NumItems(new) = (n - 1) + 1
      /\ new.span = less.span - (Size(e) + LocSize)
  <2>1. 1 \in 1 .. NumItems(less) + 1
    BY <1>1, <1>2 DEF n
  <2> QED
    BY <1>2, <2>1, SoundAddAt DEF WithHighKey
<1> HIDE DEF new
<1>4. InsertAt(RemoveAt(items, 1), 1, e) = <<e>> \o KeysOf(items)
  <2> DEFINE r == RemoveAt(items, 1)
             a == InsertAt(r, 1, e)
             ks == KeysOf(items)
             b == <<e>> \o ks
  <2>1. /\ r \in Seq(EntryType) /\ Len(r) = n - 1
        /\ \A j \in 1 .. n - 1 : r[j] = items[j + 1]
    <3>1. 1 \in 1 .. Len(items)
      BY <1>1 DEF n
    <3>2. /\ r \in Seq(EntryType) /\ Len(r) = Len(items) - 1
          /\ \A j \in 1 .. Len(items) - 1 :
                r[j] = IF j < 1 THEN items[j] ELSE items[j + 1]
      BY <1>1, <3>1, EntriesRemove
    <3> HIDE DEF r
    <3> QED
      BY <1>1, <3>2
  <2>2. /\ ks \in Seq(EntryType) /\ Len(ks) = n - 1
        /\ \A j \in 1 .. n - 1 : ks[j] = items[j + 1]
    <3>1. Len(items) >= 1
      BY <1>1 DEF n
    <3> QED
      BY <1>1, <3>1, HighAndKeys
  <2> HIDE DEF r, ks
  <2>3. r = ks
    BY <2>1, <2>2, SeqEqual
  <2>4. /\ a \in Seq(EntryType) /\ Len(a) = n
        /\ \A j \in 1 .. n : a[j] = IF j = 1 THEN e ELSE r[j - 1]
    <3>1. 1 \in 1 .. Len(r) + 1
      BY <1>1, <2>1 DEF n
    <3>2. /\ a \in Seq(EntryType) /\ Len(a) = Len(r) + 1
          /\ \A j \in 1 .. Len(r) + 1 :
                a[j] = IF j < 1 THEN r[j] ELSE IF j = 1 THEN e ELSE r[j - 1]
      BY <2>1, <3>1, EntriesInsert, ZenonT(30)
    <3> HIDE DEF a
    <3> QED
      BY <1>1, <2>1, <3>2
  <2>5. /\ b \in Seq(EntryType) /\ Len(b) = Len(ks) + 1 /\ b[1] = e
        /\ \A j \in 1 .. Len(ks) : b[j + 1] = ks[j]
    BY <2>2, KeysOfPage
  <2> HIDE DEF a, b
  <2>6. ASSUME NEW j \in 1 .. n PROVE a[j] = b[j]
    <3>1. CASE j = 1
      BY <2>4, <2>5, <3>1
    <3>2. CASE j # 1
      <4>1. j - 1 \in 1 .. Len(ks) /\ (j - 1) + 1 = j
        BY <1>1, <2>2, <3>2
      <4> QED
        BY <2>3, <2>4, <2>5, <3>2, <4>1
    <3> QED
      BY <3>1, <3>2
  <2>7. a = b
    <3>1. Len(b) = n
      BY <1>1, <2>2, <2>5
    <3> QED
      BY <2>4, <2>5, <2>6, <3>1, SeqEqual
  <2> QED
    BY <2>7 DEF a, b, r, ks
<1>5. (n - 1) + 1 = n
  BY <1>1
<1> QED
  BY <1>2, <1>3, <1>4, <1>5 DEF new, less, items, n

-----------------------------------------------------------------------------
\* What a split works on: a sound page, an entry and its slot among the keys or
\* behind them, and no assert that fails.
SplitCase(leaf, entry, at) ==
    /\ Sound(leaf.body) /\ leaf.right \in Nat
    /\ entry \in EntryType
    /\ at \in FirstKey .. NumItems(leaf.body) + 1
    /\ SplitSucceeds(leaf, entry, at)

\* The keys that stay and the keys that move, and the space they take.
LEMMA KeptAndMoved ==
    ASSUME NEW items \in Seq(EntryType), NEW k \in 1 .. Len(items)
    PROVE  LET n     == Len(items)
               kept  == SubSeq(items, FirstKey, k)
               moved == SubSeq(items, k + 1, n)
           IN  /\ kept \in Seq(EntryType) /\ Len(kept) = k - 1
               /\ \A j \in 1 .. k - 1 : kept[j] = items[j + 1]
               /\ moved \in Seq(EntryType) /\ Len(moved) = n - k
               /\ \A j \in 1 .. n - k : moved[j] = items[k + j]
               /\ kept \o moved = KeysOf(items)
               /\ SpaceOf(SizesOf(kept)) \in Nat /\ SpaceOf(SizesOf(moved)) \in Nat
               /\ SpaceOf(SizesOf(items)) =
                      (Size(items[HighKey]) + LocSize)
                          + (SpaceOf(SizesOf(kept)) + SpaceOf(SizesOf(moved)))
<1> USE DEF HighKey, FirstKey
<1> DEFINE n     == Len(items)
           kept  == SubSeq(items, 2, k)
           moved == SubSeq(items, k + 1, n)
           keys  == KeysOf(items)
           h == items[1]
<1>1. n \in Nat /\ k \in Nat /\ k >= 1 /\ k <= n
  OBVIOUS
<1>2. /\ kept \in Seq(EntryType) /\ Len(kept) = k - 1
      /\ \A j \in 1 .. k - 1 : kept[j] = items[j + 1]
  <2>1. 2 \in 1 .. n + 1 /\ k \in 0 .. n /\ 2 <= k + 1 /\ k - 2 + 1 = k - 1
    BY <1>1
  <2>2. /\ kept \in Seq(EntryType) /\ Len(kept) = k - 2 + 1
        /\ \A j \in 1 .. k - 2 + 1 : kept[j] = items[2 + j - 1]
    BY <2>1, EntrySubSeq
  <2> HIDE DEF kept
  <2>3. \A j \in 1 .. k - 1 : 2 + j - 1 = j + 1
    OBVIOUS
  <2> QED
    BY <2>1, <2>2, <2>3
<1>3. /\ moved \in Seq(EntryType) /\ Len(moved) = n - k
      /\ \A j \in 1 .. n - k : moved[j] = items[k + j]
  <2>1. /\ k + 1 \in 1 .. n + 1 /\ n \in 0 .. n /\ k + 1 <= n + 1
        /\ n - (k + 1) + 1 = n - k
    BY <1>1
  <2>2. /\ moved \in Seq(EntryType) /\ Len(moved) = n - (k + 1) + 1
        /\ \A j \in 1 .. n - (k + 1) + 1 : moved[j] = items[(k + 1) + j - 1]
    BY <2>1, EntrySubSeq
  <2> HIDE DEF moved
  <2>3. \A j \in 1 .. n - k : (k + 1) + j - 1 = k + j
    BY <1>1
  <2> QED
    BY <2>1, <2>2, <2>3
<1>4. /\ keys \in Seq(EntryType) /\ Len(keys) = n - 1 /\ h \in EntryType
      /\ \A j \in 1 .. n - 1 : keys[j] = items[j + 1]
      /\ items = <<h>> \o keys
  BY <1>1, HighAndKeys
<1> DEFINE both == kept \o moved
<1> HIDE DEF kept, moved, keys, h
<1>5. /\ both \in Seq(EntryType) /\ Len(both) = (k - 1) + (n - k)
      /\ \A j \in 1 .. (k - 1) + (n - k) :
            both[j] = IF j <= k - 1 THEN kept[j] ELSE moved[j - (k - 1)]
  <2>1. /\ both \in Seq(EntryType) /\ Len(both) = Len(kept) + Len(moved)
        /\ \A j \in 1 .. Len(kept) + Len(moved) :
              both[j] = IF j <= Len(kept) THEN kept[j] ELSE moved[j - Len(kept)]
    BY <1>2, <1>3, ConcatProperties
  <2> HIDE DEF both
  <2> QED
    BY <1>2, <1>3, <2>1
<1>6. both = keys
  <2> HIDE DEF both
  <2>1. Len(both) = n - 1
    BY <1>1, <1>5
  <2>2. ASSUME NEW j \in 1 .. n - 1 PROVE both[j] = keys[j]
    <3>1. j \in 1 .. (k - 1) + (n - k)
      BY <1>1
    <3>2. CASE j <= k - 1
      <4>1. j \in 1 .. k - 1
        BY <1>1, <3>2
      <4> QED
        BY <1>2, <1>4, <1>5, <3>1, <3>2, <4>1
    <3>3. CASE ~(j <= k - 1)
      <4>1. j - (k - 1) \in 1 .. n - k /\ k + (j - (k - 1)) = j + 1
        BY <1>1, <3>3
      <4> QED
        BY <1>3, <1>4, <1>5, <3>1, <3>3, <4>1
    <3> QED
      BY <3>2, <3>3
  <2> QED
    BY <1>4, <1>5, <2>1, <2>2, SeqEqual
<1>7. SpaceOf(SizesOf(keys)) = SpaceOf(SizesOf(kept)) + SpaceOf(SizesOf(moved))
  BY <1>2, <1>3, <1>6, SizesOfConcat
<1>8. SpaceOf(SizesOf(items)) = SpaceOf(SizesOf(<<h>>)) + SpaceOf(SizesOf(keys))
  <2>1. <<h>> \in Seq(EntryType)
    BY <1>4
  <2> QED
    BY <1>4, <2>1, SizesOfConcat
<1>9. SpaceOf(SizesOf(<<h>>)) = Size(h) + LocSize
  BY <1>4, SpaceOfOne
<1>10. SpaceOf(SizesOf(kept)) \in Nat /\ SpaceOf(SizesOf(moved)) \in Nat
  BY <1>2, <1>3, SizesFacts, SpaceType
<1> QED
  BY <1>2, <1>3, <1>6, <1>7, <1>8, <1>9, <1>10 DEF kept, moved, keys, h

\* A split keeps at least nothing and moves at least nothing; what it keeps and
\* what it moves fits on the two pages.
LEMMA SplitFits ==
    ASSUME NEW leaf, NEW entry, NEW at, SplitCase(leaf, entry, at)
    PROVE  LET items == ItemsOf(leaf.body)
               n     == NumItems(leaf.body)
               k     == LastKept(leaf, entry, at)
           IN  /\ n >= FirstKey
               /\ k \in 1 .. n
               /\ at <= k => k < n
               /\ SpaceOf(SizesOf(SubSeq(items, FirstKey, k))) <= NewBody.span
               /\ SpaceOf(SizesOf(SubSeq(items, k + 1, n)))
                      <= LeafSpan - (Size(items[FirstKey]) + LocSize)
<1> USE DEF HighKey, FirstKey, SplitCase
<1> DEFINE items == ItemsOf(leaf.body)
           n     == NumItems(leaf.body)
           k     == LastKept(leaf, entry, at)
           slots == SplitSlots(leaf, entry, at)
           w     == SizesWith(leaf, entry, at)
           s     == Max(slots)
           kept  == SubSeq(items, 2, k)
           moved == SubSeq(items, k + 1, n)
           behind == SpaceOf(SubSeq(w, s + 1, Len(w)))
<1>1. items \in Seq(EntryType) /\ Len(items) = n /\ n \in Nat
  BY ItemsFacts DEF Sound
<1>2. n >= 2 /\ slots # {} /\ RightSpace(leaf, entry, at, s) >= 0
  BY DEF SplitSucceeds
<1>3. slots = {r \in 2 .. n : LeftSpace(leaf, entry, at, r) >= w[r + 1] + LocSize}
  BY DEF SplitSlots
<1>4. s \in 2 .. n /\ LeftSpace(leaf, entry, at, s) >= w[s + 1] + LocSize
  <2>1. slots \in SUBSET (1 .. n)
    BY <1>1, <1>3
  <2>2. s \in slots
    BY <1>1, <1>2, <2>1, MaxIs
  <2> HIDE DEF slots, s
  <2> QED
    BY <1>3, <2>2
<1>5. k = KeptUpTo(at, s)
  BY DEF LastKept, KeptUpTo
<1> HIDE DEF slots, s, k
<1>6. /\ w[1] = Size(items[1])
      /\ w[s + 1] \in Nat /\ w[s + 1] >= SizeOf[NoKey]
      /\ behind = SpaceOf(SizesOf(moved)) + (IF at <= s THEN 0 ELSE Size(entry) + LocSize)
  BY <1>4, <1>5, SplitSizes
<1>7. k \in 1 .. n /\ (at <= k => k < n)
  BY <1>1, <1>4, <1>5 DEF KeptUpTo
<1>8. /\ kept \in Seq(EntryType) /\ moved \in Seq(EntryType)
      /\ SpaceOf(SizesOf(kept)) \in Nat /\ SpaceOf(SizesOf(moved)) \in Nat
      /\ SpaceOf(SizesOf(items)) =
             (Size(items[1]) + LocSize) + (SpaceOf(SizesOf(kept)) + SpaceOf(SizesOf(moved)))
  BY <1>1, <1>7, KeptAndMoved
<1>9. LeftSpace(leaf, entry, at, s) = leaf.body.span + w[1] - Size(entry) + behind
  BY DEF LeftSpace
<1>10. RightSpace(leaf, entry, at, s) = LeafSpan - (Size(items[2]) + LocSize) - behind
  BY DEF RightSpace
<1>11. leaf.body.span = LeafSpan - SpaceOf(SizesOf(items))
  BY DEF Sound
<1>12. /\ Size(entry) \in Nat /\ Size(items[1]) \in Nat /\ Size(items[2]) \in Nat
       /\ LeafSpan \in Nat /\ SizeOf[NoKey] \in Nat
  <2>1. 1 \in 1 .. n /\ 2 \in 1 .. n
    BY <1>1, <1>2
  <2>2. items[1] \in EntryType /\ items[2] \in EntryType
    BY <1>1, <2>1, ElementOfSeq
  <2> QED
    BY <2>2, SizeFacts, TreeAssumption
<1>13. NewBody.span = LeafSpan - (SizeOf[NoKey] + LocSize)
  BY NewBodySound
<1> HIDE DEF w, behind, items, kept, moved, n
<1> DEFINE sk == SpaceOf(SizesOf(kept))
           sm == SpaceOf(SizesOf(moved))
           si == SpaceOf(SizesOf(items))
<1> HIDE DEF sk, sm, si
<1>14. sk \in Nat /\ sm \in Nat /\ si = (Size(items[1]) + LocSize) + (sk + sm)
  BY <1>8 DEF sk, sm, si
<1>15. leaf.body.span = LeafSpan - si /\ behind = sm + (IF at <= s THEN 0 ELSE Size(entry) + LocSize)
  BY <1>6, <1>11 DEF sm, si
<1>16. sk <= NewBody.span
  <2>1. LeafSpan - si + Size(items[1]) - Size(entry) + behind >= SizeOf[NoKey] + LocSize
    BY <1>4, <1>6, <1>9, <1>12, <1>14, <1>15
  <2>2. LeafSpan - si + Size(items[1]) = LeafSpan - LocSize - sk - sm
    BY <1>12, <1>14
  <2>3. CASE at <= s
    BY <1>12, <1>13, <1>14, <1>15, <2>1, <2>2, <2>3
  <2>4. CASE ~(at <= s)
    BY <1>12, <1>13, <1>14, <1>15, <2>1, <2>2, <2>4
  <2> QED
    BY <2>3, <2>4
<1>17. sm <= LeafSpan - (Size(items[2]) + LocSize)
  BY <1>2, <1>10, <1>12, <1>14, <1>15
<1> QED
  BY <1>2, <1>7, <1>16, <1>17 DEF sk, sm, kept, moved, items, n, k

\* The halves of a split, before the new entry: every key goes to one of them.
LEMMA HalvesAre ==
    ASSUME NEW leaf, NEW entry, NEW at, SplitCase(leaf, entry, at)
    PROVE  LET items == ItemsOf(leaf.body)
               n     == NumItems(leaf.body)
               k     == LastKept(leaf, entry, at)
               l     == LeftHalf(leaf, entry, at)
               r     == RightHalf(leaf, entry, at)
           IN  /\ Sound(l) /\ NumItems(l) = k
               /\ ItemsOf(l) = <<EmptyHighKey>> \o SubSeq(items, FirstKey, k)
               /\ Sound(r) /\ NumItems(r) = n - k + 1
               /\ ItemsOf(r) = <<items[FirstKey]>> \o SubSeq(items, k + 1, n)
<1> USE DEF HighKey, FirstKey, SplitCase
<1> DEFINE items == ItemsOf(leaf.body)
           n     == NumItems(leaf.body)
           k     == LastKept(leaf, entry, at)
           kept  == SubSeq(items, 2, k)
           moved == SubSeq(items, k + 1, n)
           l     == LeftHalf(leaf, entry, at)
           r     == RightHalf(leaf, entry, at)
           base  == WithHighKey(WithoutHighKey(NewBody), items[2])
<1>1. items \in Seq(EntryType) /\ Len(items) = n /\ n \in Nat
  BY ItemsFacts DEF Sound
<1>2. /\ n >= 2 /\ k \in 1 .. n
      /\ SpaceOf(SizesOf(kept)) <= NewBody.span
      /\ SpaceOf(SizesOf(moved)) <= LeafSpan - (Size(items[2]) + LocSize)
  BY SplitFits
<1>3. /\ kept \in Seq(EntryType) /\ Len(kept) = k - 1
      /\ moved \in Seq(EntryType) /\ Len(moved) = n - k
  BY <1>1, <1>2, KeptAndMoved, SMTT(30), ZenonT(30)
<1>4. items[2] \in EntryType
  BY <1>1, <1>2, ElementOfSeq
<1>5. l = AddAll(NewBody, kept) /\ r = AddAll(base, moved)
  BY DEF LeftHalf, RightHalf, KeptItems, MovedItems
<1>6. Sound(NewBody) /\ NumItems(NewBody) = 1 /\ ItemsOf(NewBody) = <<EmptyHighKey>>
  BY NewBodySound
<1>7. ItemsOf(NewBody)[1] = EmptyHighKey /\ KeysOf(ItemsOf(NewBody)) = <<>>
  BY <1>6 DEF KeysOf
<1>8. Sound(base) /\ NumItems(base) = 1 /\ ItemsOf(base) = <<items[2]>> /\
      base.span = LeafSpan - (Size(items[2]) + LocSize)
  <2>1. /\ Sound(base) /\ NumItems(base) = NumItems(NewBody)
        /\ ItemsOf(base) = <<items[2]>> \o KeysOf(ItemsOf(NewBody))
        /\ base.span = WithoutHighKey(NewBody).span - (Size(items[2]) + LocSize)
        /\ WithoutHighKey(NewBody).span =
               NewBody.span + (Size(ItemsOf(NewBody)[1]) + LocSize)
    <3>1. NumItems(NewBody) >= 1
      BY <1>6
    <3>2. \A e \in EntryType :
              LET new == WithHighKey(WithoutHighKey(NewBody), e)
              IN  /\ Sound(new) /\ NumItems(new) = NumItems(NewBody)
                  /\ ItemsOf(new) = <<e>> \o KeysOf(ItemsOf(NewBody))
                  /\ new.span = WithoutHighKey(NewBody).span - (Size(e) + LocSize)
                  /\ WithoutHighKey(NewBody).span =
                         NewBody.span + (Size(ItemsOf(NewBody)[1]) + LocSize)
      BY <1>6, <3>1, SetHighKey
    <3> QED
      BY <1>4, <3>2
  <2>2. <<items[2]>> \o <<>> = <<items[2]>>
    OBVIOUS
  <2>3. NewBody.span + (Size(ItemsOf(NewBody)[1]) + LocSize) = LeafSpan
    <3>1. NewBody.span = LeafSpan - (SizeOf[NoKey] + LocSize) /\ Size(EmptyHighKey) = SizeOf[NoKey]
      BY NewBodySound
    <3>2. LeafSpan \in Nat /\ SizeOf[NoKey] \in Nat
      BY TreeAssumption
    <3> QED
      BY <1>7, <3>1, <3>2
  <2> QED
    BY <1>6, <1>7, <2>1, <2>2, <2>3
<1> HIDE DEF items, kept, moved, base, l, r
<1>9. /\ Sound(l) /\ ItemsOf(l) = ItemsOf(NewBody) \o kept
      /\ Sound(r) /\ ItemsOf(r) = ItemsOf(base) \o moved
  <2>1. 1 <= NumItems(NewBody) /\ 1 <= NumItems(base)
    BY <1>6, <1>8
  <2>2. Sound(l) /\ ItemsOf(l) = ItemsOf(NewBody) \o kept
    BY <1>2, <1>3, <1>5, <1>6, <2>1, AddAllFits, AddAllKeeps
  <2>3. Sound(r) /\ ItemsOf(r) = ItemsOf(base) \o moved
    BY <1>2, <1>3, <1>5, <1>8, <2>1, AddAllFits, AddAllKeeps
  <2> QED
    BY <2>2, <2>3
<1>10. NumItems(l) = Len(ItemsOf(l)) /\ NumItems(r) = Len(ItemsOf(r))
  BY <1>9, ItemsFacts DEF Sound
<1>11. EmptyHighKey \in EntryType
  BY NewBodySound
<1>12. Len(<<EmptyHighKey>> \o kept) = Len(kept) + 1 /\ Len(<<items[2]>> \o moved) = Len(moved) + 1
  BY <1>3, <1>4, <1>11, KeysOfPage
<1>13. NumItems(l) = k /\ NumItems(r) = n - k + 1
  BY <1>1, <1>2, <1>3, <1>6, <1>8, <1>9, <1>10, <1>12, SMTT(30), ZenonT(30)
<1> QED
  BY <1>6, <1>8, <1>9, <1>13 DEF items, kept, moved, l, r

-----------------------------------------------------------------------------
\* An insertion into the first of two sequences is one into both together.
LEMMA InsertInFirst ==
    ASSUME NEW s \in Seq(EntryType), NEW t \in Seq(EntryType), NEW x \in EntryType,
           NEW i \in 1 .. Len(s) + 1
    PROVE  InsertAt(s, i, x) \o t = InsertAt(s \o t, i, x)
<1> DEFINE m == Len(s)
           n == Len(t)
           a == InsertAt(s, i, x)
           st == s \o t
           b == InsertAt(st, i, x)
           at == a \o t
<1>1. m \in Nat /\ n \in Nat
  OBVIOUS
<1>2. /\ a \in Seq(EntryType) /\ Len(a) = m + 1
      /\ \A j \in 1 .. m + 1 : a[j] = IF j < i THEN s[j] ELSE IF j = i THEN x ELSE s[j - 1]
  <2>1. /\ InsertAt(s, i, x) \in Seq(EntryType)
        /\ Len(InsertAt(s, i, x)) = Len(s) + 1
        /\ \A j \in 1 .. Len(s) + 1 :
              InsertAt(s, i, x)[j] = IF j < i THEN s[j] ELSE IF j = i THEN x ELSE s[j - 1]
    BY EntriesInsert
  <2> QED
    BY <2>1
<1>3. /\ st \in Seq(EntryType) /\ Len(st) = m + n
      /\ \A j \in 1 .. m + n : st[j] = IF j <= m THEN s[j] ELSE t[j - m]
  BY ConcatProperties
<1> HIDE DEF a, st
<1>4. /\ b \in Seq(EntryType) /\ Len(b) = m + n + 1
      /\ \A j \in 1 .. m + n + 1 :
            b[j] = IF j < i THEN st[j] ELSE IF j = i THEN x ELSE st[j - 1]
  <2>1. i \in 1 .. Len(st) + 1
    BY <1>1, <1>3
  <2>2. /\ b \in Seq(EntryType) /\ Len(b) = Len(st) + 1
        /\ \A j \in 1 .. Len(st) + 1 :
              b[j] = IF j < i THEN st[j] ELSE IF j = i THEN x ELSE st[j - 1]
    <3>1. st \in Seq(EntryType)
      BY <1>3
    <3> QED
      BY <2>1, <3>1, EntriesInsert
  <2> HIDE DEF b
  <2> QED
    BY <1>3, <2>2
<1>5. /\ at \in Seq(EntryType) /\ Len(at) = m + 1 + n
      /\ \A j \in 1 .. m + 1 + n : at[j] = IF j <= m + 1 THEN a[j] ELSE t[j - (m + 1)]
  <2>1. /\ at \in Seq(EntryType) /\ Len(at) = Len(a) + Len(t)
        /\ \A j \in 1 .. Len(a) + Len(t) :
              at[j] = IF j <= Len(a) THEN a[j] ELSE t[j - Len(a)]
    BY <1>2, ConcatProperties
  <2> HIDE DEF at
  <2> QED
    BY <1>2, <2>1
<1> HIDE DEF b, at
<1>6. ASSUME NEW j \in 1 .. m + n + 1 PROVE at[j] = b[j]
  <2>0. j \in 1 .. m + 1 + n
    BY <1>1
  <2>1. CASE j < i
    <3>1. j \in 1 .. m /\ j \in 1 .. m + 1 /\ j \in 1 .. m + n /\ j <= m /\ j <= m + 1
      BY <1>1, <2>1
    <3> QED
      BY <1>2, <1>3, <1>4, <1>5, <2>0, <2>1, <3>1
  <2>2. CASE j = i
    <3>1. j \in 1 .. m + 1 /\ j <= m + 1 /\ ~(j < i)
      BY <1>1, <2>2
    <3> QED
      BY <1>2, <1>4, <1>5, <2>0, <2>2, <3>1
  <2>3. CASE j > i /\ j <= m + 1
    <3>1. /\ j \in 1 .. m + 1 /\ ~(j < i) /\ j # i
          /\ j - 1 \in 1 .. m + n /\ j - 1 <= m
      BY <1>1, <2>3
    <3> QED
      BY <1>2, <1>3, <1>4, <1>5, <2>0, <2>3, <3>1
  <2>4. CASE j > m + 1
    <3>1. /\ ~(j < i) /\ j # i /\ ~(j <= m + 1)
          /\ j - 1 \in 1 .. m + n /\ ~(j - 1 <= m) /\ (j - 1) - m = j - (m + 1)
      BY <1>1, <2>4
    <3> QED
      BY <1>3, <1>4, <1>5, <2>0, <3>1
  <2> QED
    BY <1>1, <2>1, <2>2, <2>3, <2>4
<1>7. Len(at) = Len(b) /\ Len(b) = m + n + 1
  BY <1>1, <1>4, <1>5
<1>8. at = b
  BY <1>4, <1>5, <1>6, <1>7, SeqEqual
<1> QED
  BY <1>8 DEF at, b, a, st

\* So is an insertion into the second.
LEMMA InsertInSecond ==
    ASSUME NEW s \in Seq(EntryType), NEW t \in Seq(EntryType), NEW x \in EntryType,
           NEW i \in 1 .. Len(t) + 1
    PROVE  s \o InsertAt(t, i, x) = InsertAt(s \o t, Len(s) + i, x)
<1> DEFINE m == Len(s)
           n == Len(t)
           a == InsertAt(t, i, x)
           st == s \o t
           b == InsertAt(st, m + i, x)
           sa == s \o a
<1>1. m \in Nat /\ n \in Nat
  OBVIOUS
<1>2. /\ a \in Seq(EntryType) /\ Len(a) = n + 1
      /\ \A j \in 1 .. n + 1 : a[j] = IF j < i THEN t[j] ELSE IF j = i THEN x ELSE t[j - 1]
  BY EntriesInsert, ZenonT(30)
<1>3. /\ st \in Seq(EntryType) /\ Len(st) = m + n
      /\ \A j \in 1 .. m + n : st[j] = IF j <= m THEN s[j] ELSE t[j - m]
  BY ConcatProperties
<1> HIDE DEF a, st
<1>4. /\ b \in Seq(EntryType) /\ Len(b) = m + n + 1
      /\ \A j \in 1 .. m + n + 1 :
            b[j] = IF j < m + i THEN st[j] ELSE IF j = m + i THEN x ELSE st[j - 1]
  <2>1. m + i \in 1 .. Len(st) + 1
    BY <1>1, <1>3
  <2>2. /\ b \in Seq(EntryType) /\ Len(b) = Len(st) + 1
        /\ \A j \in 1 .. Len(st) + 1 :
              b[j] = IF j < m + i THEN st[j] ELSE IF j = m + i THEN x ELSE st[j - 1]
    <3>1. st \in Seq(EntryType)
      BY <1>3
    <3>2. \A q \in 1 .. Len(st) + 1 :
             /\ InsertAt(st, q, x) \in Seq(EntryType)
             /\ Len(InsertAt(st, q, x)) = Len(st) + 1
             /\ \A j \in 1 .. Len(st) + 1 :
                   InsertAt(st, q, x)[j] =
                       IF j < q THEN st[j] ELSE IF j = q THEN x ELSE st[j - 1]
      BY <3>1, EntriesInsert, ZenonT(30)
    <3> QED
      BY <2>1, <3>2
  <2> HIDE DEF b
  <2> QED
    BY <1>3, <2>2
<1>5. /\ sa \in Seq(EntryType) /\ Len(sa) = m + (n + 1)
      /\ \A j \in 1 .. m + (n + 1) : sa[j] = IF j <= m THEN s[j] ELSE a[j - m]
  <2>1. /\ sa \in Seq(EntryType) /\ Len(sa) = Len(s) + Len(a)
        /\ \A j \in 1 .. Len(s) + Len(a) :
              sa[j] = IF j <= Len(s) THEN s[j] ELSE a[j - Len(s)]
    BY <1>2, ConcatProperties
  <2> HIDE DEF sa
  <2> QED
    BY <1>2, <2>1
<1> HIDE DEF b, sa
<1>6. ASSUME NEW j \in 1 .. m + n + 1 PROVE sa[j] = b[j]
  <2>0. j \in 1 .. m + (n + 1)
    BY <1>1
  <2>1. CASE j <= m
    <3>1. j \in 1 .. m + n /\ j < m + i
      BY <1>1, <2>1
    <3> QED
      BY <1>3, <1>4, <1>5, <2>0, <2>1, <3>1
  <2>2. CASE j > m /\ j < m + i
    <3>1. j - m \in 1 .. n + 1 /\ j - m < i /\ ~(j <= m) /\ j \in 1 .. m + n
      BY <1>1, <2>2
    <3> QED
      BY <1>2, <1>3, <1>4, <1>5, <2>0, <2>2, <3>1
  <2>3. CASE j = m + i
    <3>1. j - m \in 1 .. n + 1 /\ j - m = i /\ ~(j <= m) /\ ~(i < i) /\ ~(j < m + i)
      BY <1>1, <2>3
    <3> QED
      BY <1>2, <1>4, <1>5, <2>0, <2>3, <3>1
  <2>4. CASE j > m + i
    <3>1. /\ j - m \in 1 .. n + 1 /\ ~(j - m < i) /\ j - m # i /\ ~(j <= m)
          /\ ~(j < m + i) /\ j # m + i
          /\ j - 1 \in 1 .. m + n /\ ~(j - 1 <= m) /\ (j - 1) - m = (j - m) - 1
      BY <1>1, <2>4
    <3> QED
      BY <1>2, <1>3, <1>4, <1>5, <2>0, <3>1
  <2> QED
    BY <1>1, <2>1, <2>2, <2>3, <2>4
<1>7. Len(sa) = Len(b) /\ Len(b) = m + n + 1
  BY <1>1, <1>4, <1>5
<1>8. sa = b
  BY <1>4, <1>5, <1>6, <1>7, SeqEqual
<1> QED
  BY <1>8 DEF sa, b, a, st

\* An insertion among the keys of a page.
LEMMA KeysOfInsert ==
    ASSUME NEW items \in Seq(EntryType), NEW x \in EntryType,
           NEW i \in FirstKey .. Len(items) + 1, Len(items) >= 1
    PROVE  /\ InsertAt(items, i, x)[HighKey] = items[HighKey]
           /\ KeysOf(InsertAt(items, i, x)) = InsertAt(KeysOf(items), i - 1, x)
<1> USE DEF FirstKey, HighKey
<1> DEFINE h  == items[1]
           ks == KeysOf(items)
           kx == InsertAt(ks, i - 1, x)
<1>1. /\ h \in EntryType /\ ks \in Seq(EntryType) /\ Len(ks) = Len(items) - 1
      /\ items = <<h>> \o ks
  BY HighAndKeys
<1> HIDE DEF h, ks
<1>2. i - 1 \in 1 .. Len(ks) + 1 /\ <<h>> \in Seq(EntryType) /\ Len(<<h>>) = 1 /\ 1 + (i - 1) = i
  BY <1>1
<1>3. <<h>> \o kx = InsertAt(<<h>> \o ks, Len(<<h>>) + (i - 1), x)
  BY <1>1, <1>2, InsertInSecond
<1>4. kx \in Seq(EntryType)
  BY <1>1, <1>2, EntriesInsert
<1> HIDE DEF kx
<1>5. <<h>> \o kx = InsertAt(items, i, x)
  BY <1>1, <1>2, <1>3
<1>6. KeysOf(<<h>> \o kx) = kx /\ (<<h>> \o kx)[1] = h
  BY <1>1, <1>4, KeysOfPage
<1> QED
  BY <1>5, <1>6 DEF h, ks, kx

-----------------------------------------------------------------------------
\* The page that a split writes over the old one: the left half with the entry, if
\* it goes there, and with the first key of the new page as its high key.
SplitLeft(leaf, entry, at) ==
    LET halves == Halves(leaf, entry, at)
    IN  WithHighKey(WithoutHighKey(halves[1]), ItemsOf(halves[2])[FirstKey])

\* Both pages of a split are sound and have room for a loc's worth of nothing; the
\* new page has a key.
LEMMA SplitSound ==
    ASSUME NEW leaf, NEW entry, NEW at, SplitCase(leaf, entry, at)
    PROVE  LET right == Halves(leaf, entry, at)[2]
               left  == SplitLeft(leaf, entry, at)
           IN  /\ Sound(right) /\ right.span >= 0 /\ NumItems(right) >= FirstKey
               /\ Sound(left) /\ left.span >= 0 /\ NumItems(left) >= 1
<1> USE DEF HighKey, FirstKey
<1> DEFINE n    == NumItems(leaf.body)
           k    == LastKept(leaf, entry, at)
           l    == LeftHalf(leaf, entry, at)
           r    == RightHalf(leaf, entry, at)
           idx  == SlotInHalf(leaf, entry, at)
           h    == Halves(leaf, entry, at)
           half == IF at > k THEN r ELSE l
           first == ItemsOf(h[2])[2]
<1>1. entry \in EntryType /\ entry.key \in Nat /\ at \in Nat
  <2>1. NumItems(leaf.body) \in Nat
    BY ItemsFacts DEF SplitCase, Sound
  <2> QED
    BY <2>1, KeyType DEF SplitCase
<1>2. /\ n \in Nat /\ k \in 1 .. n /\ (at <= k => k < n)
  <2>1. n \in Nat
    BY ItemsFacts DEF SplitCase, Sound
  <2> QED
    BY <2>1, SplitFits
<1>3. Sound(l) /\ NumItems(l) = k /\ Sound(r) /\ NumItems(r) = n - k + 1
  BY HalvesAre
<1>4. idx = GetInsertionIdx(entry.key, Leaf(half, leaf.right))
  BY DEF SlotInHalf, GoesRight
<1>5. h = IF at > k THEN <<l, AddItemAt(r, idx, entry, Size(entry))>>
          ELSE <<AddItemAt(l, idx, entry, Size(entry)), r>>
  BY DEF Halves, GoesRight
<1> HIDE DEF n, k, l, r, idx, h
<1>6. idx \in 1 .. NumItems(half) + 1
  <2>1. Sound(half) /\ NumItems(half) >= 1
    BY <1>2, <1>3
  <2>2. Leaf(half, leaf.right).body = half
    BY DEF Leaf
  <2> HIDE DEF half
  <2>3. Idx(idx, entry.key, ItemsOf(half), NumItems(half), Leaf(half, leaf.right).right)
    BY <1>1, <1>4, <2>1, <2>2, GetInsertionIdxIs
  <2> QED
    BY <2>3 DEF Idx
<1>7. Sound(h[1]) /\ NumItems(h[1]) >= 1 /\ Sound(h[2]) /\ NumItems(h[2]) >= 2
  <2>1. CASE at > k
    <3>1. idx \in 1 .. NumItems(r) + 1
      BY <1>6, <2>1
    <3>2. /\ Sound(AddItemAt(r, idx, entry, Size(entry)))
          /\ NumItems(AddItemAt(r, idx, entry, Size(entry))) = NumItems(r) + 1
      BY <1>1, <1>3, <3>1, SoundAddAt
    <3> QED
      BY <1>2, <1>3, <1>5, <2>1, <3>2
  <2>2. CASE ~(at > k)
    <3>1. idx \in 1 .. NumItems(l) + 1 /\ at <= k
      BY <1>1, <1>2, <1>6, <2>2
    <3>2. /\ Sound(AddItemAt(l, idx, entry, Size(entry)))
          /\ NumItems(AddItemAt(l, idx, entry, Size(entry))) = NumItems(l) + 1
      BY <1>1, <1>3, <3>1, SoundAddAt
    <3> QED
      BY <1>2, <1>3, <1>5, <2>2, <3>1, <3>2
  <2> QED
    BY <2>1, <2>2
<1>8. first \in EntryType
  <2>1. ItemsOf(h[2]) \in Seq(EntryType) /\ Len(ItemsOf(h[2])) = NumItems(h[2])
    BY <1>7, ItemsFacts DEF Sound
  <2>2. 2 \in 1 .. Len(ItemsOf(h[2]))
    BY <1>7, <2>1
  <2> QED
    BY <2>1, <2>2, ElementOfSeq
<1>9. /\ h[1].span >= 0 /\ h[2].span >= 0
      /\ Fits(WithoutHighKey(h[1]), Size(first))
  BY DEF SplitCase, SplitSucceeds, h
<1> HIDE DEF first
<1> DEFINE left == WithHighKey(WithoutHighKey(h[1]), first)
<1>10. /\ Sound(left) /\ NumItems(left) = NumItems(h[1])
       /\ left.span = WithoutHighKey(h[1]).span - (Size(first) + LocSize)
       /\ WithoutHighKey(h[1]).span =
                     h[1].span + (Size(ItemsOf(h[1])[1]) + LocSize)
  BY <1>7, <1>8, SetHighKey
<1>11. left.span >= 0
  <2>1. Size(first) \in Nat
    BY <1>8, SizeFacts
  <2>2. ItemsOf(h[1])[1] \in EntryType
    <3>1. ItemsOf(h[1]) \in Seq(EntryType) /\ Len(ItemsOf(h[1])) = NumItems(h[1])
      BY <1>7, ItemsFacts DEF Sound
    <3>2. 1 \in 1 .. Len(ItemsOf(h[1]))
      BY <1>7, <3>1
    <3> QED
      BY <3>1, <3>2, ElementOfSeq
  <2>3. Size(ItemsOf(h[1])[1]) \in Nat
    BY <2>2, SizeFacts
  <2>4. h[1].span \in Int
    BY <1>7 DEF Sound, BodyType
  <2> HIDE DEF left
  <2> QED
    BY <1>9, <1>10, <2>1, <2>3, <2>4 DEF Fits, Sliver, HasRoom, LocSize
<1> QED
  BY <1>7, <1>9, <1>10, <1>11 DEF SplitLeft, h, first

\* The entry goes to the same place among the keys of its half as it would have
\* gone to on the old page, unless it goes to the high key slot.
LEMMA SplitSlot ==
    ASSUME NEW leaf, NEW entry, NEW at, SplitCase(leaf, entry, at),
           Idx(at, entry.key, ItemsOf(leaf.body), NumItems(leaf.body), leaf.right),
           SlotInHalf(leaf, entry, at) # HighKey
    PROVE  LET k == LastKept(leaf, entry, at)
           IN  SlotInHalf(leaf, entry, at) = IF at <= k THEN at ELSE at - k + 1
<1> USE DEF HighKey, FirstKey
<1> DEFINE items == ItemsOf(leaf.body)
           n     == NumItems(leaf.body)
           k     == LastKept(leaf, entry, at)
           key   == entry.key
           l     == LeftHalf(leaf, entry, at)
           r     == RightHalf(leaf, entry, at)
           idx   == SlotInHalf(leaf, entry, at)
           kept  == SubSeq(items, 2, k)
           moved == SubSeq(items, k + 1, n)
<1>1. entry \in EntryType /\ key \in Nat
  BY KeyType DEF SplitCase
<1>2. n \in Nat /\ k \in 1 .. n /\ (at <= k => k < n) /\ at \in 2 .. n + 1
  <2>1. n \in Nat
    BY ItemsFacts DEF SplitCase, Sound
  <2> QED
    BY <2>1, SplitFits DEF SplitCase
<1>3. items \in Seq(EntryType) /\ Len(items) = n
  BY ItemsFacts DEF SplitCase, Sound
<1>4. /\ Sound(l) /\ NumItems(l) = k /\ ItemsOf(l) = <<EmptyHighKey>> \o kept
      /\ Sound(r) /\ NumItems(r) = n - k + 1 /\ ItemsOf(r) = <<items[2]>> \o moved
  BY HalvesAre
<1>5. /\ kept \in Seq(EntryType) /\ Len(kept) = k - 1
      /\ \A j \in 1 .. k - 1 : kept[j] = items[j + 1]
      /\ moved \in Seq(EntryType) /\ Len(moved) = n - k
      /\ \A j \in 1 .. n - k : moved[j] = items[k + j]
  BY <1>2, <1>3, KeptAndMoved, SMTT(30), ZenonT(30)
<1>6. idx = GetInsertionIdx(key, Leaf(IF at > k THEN r ELSE l, leaf.right)) /\ idx # 1
  BY DEF SlotInHalf, GoesRight
<1>7. /\ \A q \in 2 .. n : q < at => key > items[q].key
      /\ at \in 2 .. n => key <= items[at].key
  BY DEF Idx
<1>8. \A q \in 1 .. n : items[q].key \in Nat
  <2>1. \A q \in 1 .. n : items[q] \in EntryType
    BY <1>3, ElementOfSeq
  <2> QED
    BY <2>1, KeyType
<1>9. items[2] \in EntryType /\ EmptyHighKey \in EntryType
  <2>1. 2 \in 1 .. n
    BY <1>2, SplitFits
  <2>2. items[2] \in EntryType
    BY <1>3, <2>1, ElementOfSeq
  <2> QED
    BY <2>2, NewBodySound
<1> HIDE DEF items, n, k, key, l, r, idx, kept, moved
<1>10. CASE at <= k
  <2>1. ~(at > k)
    BY <1>2, <1>10
  <2>2. \A j \in 2 .. k : ItemsOf(l)[j] = items[j]
    <3> SUFFICES ASSUME NEW j \in 2 .. k PROVE ItemsOf(l)[j] = items[j]
      OBVIOUS
    <3>1. j - 1 \in 1 .. k - 1 /\ (j - 1) + 1 = j /\ j - 1 \in 1 .. Len(kept)
      BY <1>2, <1>5
    <3>2. (<<EmptyHighKey>> \o kept)[(j - 1) + 1] = kept[j - 1]
      BY <1>5, <1>9, <3>1, KeysOfPage
    <3> QED
      BY <1>4, <1>5, <3>1, <3>2
  <2>3. Idx(idx, key, ItemsOf(l), k, leaf.right)
    <3>1. idx = GetInsertionIdx(key, Leaf(l, leaf.right))
      BY <1>6, <2>1
    <3>2. Leaf(l, leaf.right).body = l /\ Leaf(l, leaf.right).right = leaf.right
      BY DEF Leaf
    <3>3. k >= 1
      BY <1>2
    <3> QED
      BY <1>1, <1>4, <3>1, <3>2, <3>3, GetInsertionIdxIs
  <2>4. /\ idx \in 1 .. k + 1
        /\ \A q \in 2 .. k : q < idx => key > ItemsOf(l)[q].key
        /\ idx \in 2 .. k => key <= ItemsOf(l)[idx].key
    BY <2>3 DEF Idx
  <2>5. at \in 2 .. k /\ at \in 2 .. n /\ at \in 1 .. n
    BY <1>2, <1>10
  <2>6. ~(at < idx)
    <3> SUFFICES ASSUME at < idx PROVE FALSE
      OBVIOUS
    <3>1. key > items[at].key
      BY <2>2, <2>4, <2>5
    <3> QED
      BY <1>1, <1>7, <1>8, <2>5, <3>1
  <2>7. ~(idx < at)
    <3> SUFFICES ASSUME idx < at PROVE FALSE
      OBVIOUS
    <3>1. idx \in 2 .. k /\ idx \in 2 .. n /\ idx \in 1 .. n
      BY <1>2, <1>6, <1>10, <2>4
    <3>2. key <= items[idx].key /\ key > items[idx].key
      BY <1>7, <2>2, <2>4, <3>1
    <3> QED
      BY <1>1, <1>8, <3>1, <3>2
  <2>8. idx = at
    BY <1>2, <2>4, <2>6, <2>7
  <2> QED
    BY <1>10, <2>8 DEF idx, k
<1>11. CASE ~(at <= k)
  <2>1. at > k
    BY <1>2, <1>11
  <2>2. \A j \in 2 .. n - k + 1 : ItemsOf(r)[j] = items[j + k - 1]
    <3> SUFFICES ASSUME NEW j \in 2 .. n - k + 1 PROVE ItemsOf(r)[j] = items[j + k - 1]
      OBVIOUS
    <3>0. j - 1 \in 1 .. n - k /\ (j - 1) + 1 = j /\ k + (j - 1) = j + k - 1
      BY <1>2
    <3>1. j - 1 \in 1 .. n - k /\ (j - 1) + 1 = j /\ j - 1 \in 1 .. Len(moved) /\ k + (j - 1) = j + k - 1
      BY <1>5, <3>0
    <3>2. (<<items[2]>> \o moved)[(j - 1) + 1] = moved[j - 1]
      BY <1>5, <1>9, <3>1, KeysOfPage
    <3> QED
      BY <1>4, <1>5, <3>1, <3>2
  <2>3. Idx(idx, key, ItemsOf(r), n - k + 1, leaf.right)
    <3>1. idx = GetInsertionIdx(key, Leaf(r, leaf.right))
      BY <1>6, <2>1
    <3>2. Leaf(r, leaf.right).body = r /\ Leaf(r, leaf.right).right = leaf.right
      BY DEF Leaf
    <3>3. n - k + 1 >= 1
      BY <1>2
    <3> QED
      BY <1>1, <1>4, <3>1, <3>2, <3>3, GetInsertionIdxIs
  <2>4. /\ idx \in 1 .. (n - k + 1) + 1
        /\ \A q \in 2 .. n - k + 1 : q < idx => key > ItemsOf(r)[q].key
        /\ idx \in 2 .. n - k + 1 => key <= ItemsOf(r)[idx].key
    BY <2>3 DEF Idx
  <2> DEFINE at2 == at - k + 1
  <2>6. ~(at2 < idx)
    <3> SUFFICES ASSUME at2 < idx PROVE FALSE
      OBVIOUS
    <3>1. at2 \in 2 .. n - k + 1 /\ at2 + k - 1 = at /\ at \in 2 .. n /\ at \in 1 .. n
      BY <1>2, <2>1, <2>4
    <3>2. key > ItemsOf(r)[at2].key /\ ItemsOf(r)[at2] = items[at]
      <4> HIDE DEF at2
      <4> QED
        BY <2>2, <2>4, <3>1
    <3>3. key > items[at].key /\ key <= items[at].key
      BY <1>7, <3>1, <3>2
    <3> QED
      BY <1>1, <1>8, <3>1, <3>3
  <2>7. ~(idx < at2)
    <3> SUFFICES ASSUME idx < at2 PROVE FALSE
      OBVIOUS
    <3>1. /\ idx \in 2 .. n - k + 1 /\ idx + k - 1 \in 2 .. n /\ idx + k - 1 \in 1 .. n
          /\ idx + k - 1 < at
      BY <1>2, <1>6, <2>1, <2>4
    <3>2. key <= items[idx + k - 1].key /\ key > items[idx + k - 1].key
      BY <1>7, <2>2, <2>4, <3>1
    <3> QED
      BY <1>1, <1>8, <3>1, <3>2
  <2>8. idx = at2
    BY <1>2, <2>4, <2>6, <2>7
  <2> QED
    BY <1>11, <2>8 DEF idx, k
<1> QED
  BY <1>10, <1>11

\* A split leaves the keys of the old page and the entry, in its place among them,
\* on the two pages; the new page's first key is the high key of the left one, and
\* the old page's first key is that of the new one.
LEMMA SplitEntries ==
    ASSUME NEW leaf, NEW entry, NEW at, SplitCase(leaf, entry, at),
           Idx(at, entry.key, ItemsOf(leaf.body), NumItems(leaf.body), leaf.right),
           SlotInHalf(leaf, entry, at) # HighKey
    PROVE  LET items == ItemsOf(leaf.body)
               right == ItemsOf(Halves(leaf, entry, at)[2])
               left  == ItemsOf(SplitLeft(leaf, entry, at))
           IN  /\ KeysOf(left) \o KeysOf(right) = InsertAt(KeysOf(items), at - 1, entry)
               /\ left[HighKey] = right[FirstKey]
               /\ right[HighKey] = items[FirstKey]
<1> USE DEF HighKey, FirstKey
<1> DEFINE items == ItemsOf(leaf.body)
           n     == NumItems(leaf.body)
           k     == LastKept(leaf, entry, at)
           l     == LeftHalf(leaf, entry, at)
           r     == RightHalf(leaf, entry, at)
           idx  == SlotInHalf(leaf, entry, at)
           kept  == SubSeq(items, 2, k)
           moved == SubSeq(items, k + 1, n)
           h     == Halves(leaf, entry, at)
           first == ItemsOf(h[2])[2]
           left  == WithHighKey(WithoutHighKey(h[1]), first)
<1>1. entry \in EntryType
  BY DEF SplitCase
<1>2. n \in Nat /\ n >= 2 /\ k \in 1 .. n /\ (at <= k => k < n) /\ at \in 2 .. n + 1
  <2>1. n \in Nat
    BY ItemsFacts DEF SplitCase, Sound
  <2> QED
    BY <2>1, SplitFits DEF SplitCase
<1>3. items \in Seq(EntryType) /\ Len(items) = n
  BY ItemsFacts DEF SplitCase, Sound
<1>4. /\ Sound(l) /\ NumItems(l) = k /\ ItemsOf(l) = <<EmptyHighKey>> \o kept
      /\ Sound(r) /\ NumItems(r) = n - k + 1 /\ ItemsOf(r) = <<items[2]>> \o moved
  BY HalvesAre
<1>5. /\ kept \in Seq(EntryType) /\ Len(kept) = k - 1
      /\ moved \in Seq(EntryType) /\ Len(moved) = n - k
      /\ kept \o moved = KeysOf(items)
  BY <1>2, <1>3, KeptAndMoved, ZenonT(30)
<1>6. idx = IF at <= k THEN at ELSE at - k + 1
  BY SplitSlot
<1>7. h = IF at > k THEN <<l, AddItemAt(r, idx, entry, Size(entry))>>
          ELSE <<AddItemAt(l, idx, entry, Size(entry)), r>>
  BY DEF Halves, GoesRight
<1>8. items[2] \in EntryType /\ EmptyHighKey \in EntryType
  <2>1. 2 \in 1 .. n
    BY <1>2
  <2>2. items[2] \in EntryType
    BY <1>3, <2>1, ElementOfSeq
  <2> QED
    BY <2>2, NewBodySound
<1>9. /\ Sound(h[2]) /\ NumItems(h[2]) >= 2
  BY SplitSound
<1> HIDE DEF items, n, k, l, r, idx, kept, moved, h
<1>10. /\ KeysOf(ItemsOf(l)) = kept /\ Len(ItemsOf(l)) = k /\ ItemsOf(l) \in Seq(EntryType)
       /\ KeysOf(ItemsOf(r)) = moved /\ Len(ItemsOf(r)) = n - k + 1 /\ ItemsOf(r) \in Seq(EntryType)
       /\ ItemsOf(r)[1] = items[2]
  <2>1. ItemsOf(l) \in Seq(EntryType) /\ Len(ItemsOf(l)) = k
    BY <1>4, ItemsFacts DEF Sound
  <2>2. ItemsOf(r) \in Seq(EntryType) /\ Len(ItemsOf(r)) = n - k + 1
    BY <1>4, ItemsFacts DEF Sound
  <2>3. KeysOf(<<EmptyHighKey>> \o kept) = kept
    BY <1>5, <1>8, KeysOfPage
  <2>4. KeysOf(<<items[2]>> \o moved) = moved /\ (<<items[2]>> \o moved)[1] = items[2]
    BY <1>5, <1>8, KeysOfPage
  <2> QED
    BY <1>4, <2>1, <2>2, <2>3, <2>4
<1>11. /\ Sound(h[1]) /\ NumItems(h[1]) >= 1
       /\ KeysOf(ItemsOf(h[1])) \o KeysOf(ItemsOf(h[2])) = InsertAt(KeysOf(items), at - 1, entry)
       /\ ItemsOf(h[2])[1] = items[2]
  <2>1. CASE at <= k
    <3>1. ~(at > k) /\ idx = at /\ at \in 1 .. NumItems(l) + 1
          /\ at \in 2 .. Len(ItemsOf(l)) + 1 /\ Len(ItemsOf(l)) >= 1
      BY <1>2, <1>4, <1>6, <1>10, <2>1
    <3>2. h[1] = AddItemAt(l, at, entry, Size(entry)) /\ h[2] = r
      BY <1>7, <3>1
    <3>3. /\ Sound(h[1]) /\ ItemsOf(h[1]) = InsertAt(ItemsOf(l), at, entry)
          /\ NumItems(h[1]) = NumItems(l) + 1
      BY <1>1, <1>4, <3>1, <3>2, SoundAddAt
    <3>4. KeysOf(InsertAt(ItemsOf(l), at, entry)) = InsertAt(kept, at - 1, entry)
      BY <1>1, <1>10, <3>1, KeysOfInsert
    <3>5. at - 1 \in 1 .. Len(kept) + 1
      BY <1>2, <1>5, <2>1
    <3>6. InsertAt(kept, at - 1, entry) \o moved = InsertAt(kept \o moved, at - 1, entry)
      BY <1>1, <1>5, <3>5, InsertInFirst
    <3>7. NumItems(h[1]) >= 1
      BY <1>2, <1>4, <3>3
    <3> QED
      BY <1>5, <1>10, <3>2, <3>3, <3>4, <3>6, <3>7
  <2>2. CASE ~(at <= k)
    <3>1. at > k /\ idx = at - k + 1
      BY <1>2, <1>6, <2>2
    <3>2. /\ at - k + 1 \in 1 .. NumItems(r) + 1
          /\ at - k + 1 \in 2 .. Len(ItemsOf(r)) + 1
          /\ Len(ItemsOf(r)) >= 1 /\ (at - k + 1) - 1 = at - k
      BY <1>2, <1>4, <1>10, <3>1, SMTT(30), ZenonT(30)
    <3>3. h[1] = l /\ h[2] = AddItemAt(r, at - k + 1, entry, Size(entry))
      BY <1>7, <3>1
    <3>4. ItemsOf(h[2]) = InsertAt(ItemsOf(r), at - k + 1, entry)
      BY <1>1, <1>4, <3>2, <3>3, SoundAddAt
    <3>5. /\ KeysOf(InsertAt(ItemsOf(r), at - k + 1, entry)) = InsertAt(moved, at - k, entry)
          /\ InsertAt(ItemsOf(r), at - k + 1, entry)[1] = ItemsOf(r)[1]
      <4> DEFINE i == at - k + 1
      <4>1. i \in 2 .. Len(ItemsOf(r)) + 1 /\ i - 1 = at - k /\ Len(ItemsOf(r)) >= 1
        BY <3>2
      <4> HIDE DEF i
      <4>2. /\ KeysOf(InsertAt(ItemsOf(r), i, entry)) = InsertAt(moved, i - 1, entry)
            /\ InsertAt(ItemsOf(r), i, entry)[1] = ItemsOf(r)[1]
        BY <1>1, <1>10, <4>1, KeysOfInsert
      <4> QED
        BY <4>1, <4>2 DEF i
    <3>6. at - k \in 1 .. Len(moved) + 1 /\ Len(kept) + (at - k) = at - 1
      BY <1>2, <1>5, <3>1
    <3>7. kept \o InsertAt(moved, at - k, entry) = InsertAt(kept \o moved, at - 1, entry)
      <4>1. kept \o InsertAt(moved, at - k, entry)
                = InsertAt(kept \o moved, Len(kept) + (at - k), entry)
        BY <1>1, <1>5, <3>6, InsertInSecond
      <4> QED
        BY <3>6, <4>1
    <3>8. NumItems(l) >= 1
      BY <1>2, <1>4
    <3> QED
      BY <1>4, <1>5, <1>10, <3>3, <3>4, <3>5, <3>7, <3>8
  <2> QED
    BY <2>1, <2>2
<1>12. first \in EntryType
  <2>1. ItemsOf(h[2]) \in Seq(EntryType) /\ Len(ItemsOf(h[2])) = NumItems(h[2])
    BY <1>9, ItemsFacts DEF Sound
  <2>2. 2 \in 1 .. Len(ItemsOf(h[2]))
    BY <1>9, <2>1
  <2> QED
    BY <2>1, <2>2, ElementOfSeq
<1> HIDE DEF first
<1>13. ItemsOf(left) = <<first>> \o KeysOf(ItemsOf(h[1]))
  BY <1>11, <1>12, SetHighKey
<1>14. KeysOf(ItemsOf(h[1])) \in Seq(EntryType)
  <2>1. ItemsOf(h[1]) \in Seq(EntryType) /\ Len(ItemsOf(h[1])) >= 1
    BY <1>11, ItemsFacts DEF Sound
  <2> QED
    BY <2>1, HighAndKeys
<1>15. KeysOf(ItemsOf(left)) = KeysOf(ItemsOf(h[1])) /\ ItemsOf(left)[1] = first
  BY <1>12, <1>13, <1>14, KeysOfPage
<1>16. left = SplitLeft(leaf, entry, at)
  BY DEF SplitLeft, h, first
<1> HIDE DEF left
<1> QED
  BY <1>11, <1>15, <1>16 DEF h, first, items

HIDE DEF LocSize

-----------------------------------------------------------------------------
\* The pages from page start to the right, of any pages.
ChainOf(pages, start) ==
    LET from[p \in Nat] ==
            IF p = 0 \/ p > Len(pages) THEN <<>> ELSE <<p>> \o from[pages[p].right]
    IN  from[start]

PageType == [body : BodyType, right : Nat]

\* o is an order of the pages 1 to m in which each is linked to the next and the
\* root is the first.  The file has all of them or all but page m, which is at
\* place z; z is m + 1 if it has all.
Order(o, m, z, pages) ==
    /\ m \in Nat /\ z \in 1 .. m + 1
    /\ o \in [1 .. m -> 1 .. m]
    /\ m >= 1 => o[1] = 1
    /\ \A i, j \in 1 .. m : o[i] = o[j] => i = j
    /\ \A p \in 1 .. m : \E i \in 1 .. m : o[i] = p
    /\ m \in {Len(pages), Len(pages) + 1}
    /\ m = Len(pages) <=> z = m + 1
    /\ \A i \in 1 .. m : o[i] <= Len(pages) <=> i # z
    /\ \A i \in 1 .. m : i # z => pages[o[i]].right = IF i = m THEN 0 ELSE o[i + 1]

\* The places from i on, up to the page that is missing.
PlacesFrom(o, m, z, i) ==
    [j \in 1 .. (IF i < z THEN z ELSE m + 1) - i |-> o[i + j - 1]]

\* The places from i on are place i and those from the next on.
LEMMA PlacesStep ==
    ASSUME NEW o, NEW m, NEW z, NEW pages, Order(o, m, z, pages),
           NEW i \in 1 .. m, i # z
    PROVE  PlacesFrom(o, m, z, i) =
               <<o[i]>> \o (IF i = m \/ i + 1 = z THEN <<>> ELSE PlacesFrom(o, m, z, i + 1))
<1>1. m \in Nat /\ z \in 1 .. m + 1 /\ i \in Nat /\ \A j \in 1 .. m : o[j] \in Nat
  <2>1. m \in Nat /\ z \in 1 .. m + 1 /\ o \in [1 .. m -> 1 .. m]
    BY DEF Order
  <2> QED
    BY <2>1
<1> DEFINE e == IF i < z THEN z ELSE m + 1
           t == PlacesFrom(o, m, z, i)
           s == IF i = m \/ i + 1 = z THEN <<>> ELSE PlacesFrom(o, m, z, i + 1)
           all == <<o[i]>> \o s
<1>2. e \in Nat /\ i + 1 <= e /\ e <= m + 1
  BY <1>1
<1>3. t \in Seq(Nat) /\ Len(t) = e - i /\ \A j \in 1 .. e - i : t[j] = o[i + j - 1]
  <2>1. t = [j \in 1 .. e - i |-> o[i + j - 1]]
    BY DEF PlacesFrom
  <2>2. \A j \in 1 .. e - i : i + j - 1 \in 1 .. m
    BY <1>1, <1>2
  <2>3. e - i \in Nat
    BY <1>1, <1>2
  <2> HIDE DEF t, e
  <2> QED
    BY <1>1, <2>1, <2>2, <2>3, SMTT(30), ZenonT(30)
<1>4. s \in Seq(Nat) /\ Len(s) = e - i - 1 /\ \A j \in 1 .. e - i - 1 : s[j] = o[i + j]
  <2>1. CASE i = m \/ i + 1 = z
    <3>1. s = <<>> /\ e = i + 1
      BY <1>1, <2>1
    <3> QED
      BY <1>1, <3>1
  <2>2. CASE ~(i = m \/ i + 1 = z)
    <3>1. (IF i + 1 < z THEN z ELSE m + 1) = e
      BY <1>1, <2>2
    <3>2. s = [j \in 1 .. e - (i + 1) |-> o[i + 1 + j - 1]]
      BY <2>2, <3>1 DEF PlacesFrom
    <3> HIDE DEF s, e
    <3>3. \A j \in 1 .. e - (i + 1) : i + 1 + j - 1 \in 1 .. m /\ i + 1 + j - 1 = i + j
      BY <1>1, <1>2
    <3>4. e - (i + 1) \in Nat /\ e - (i + 1) = e - i - 1
      BY <1>1, <1>2
    <3>5. s = [j \in 1 .. e - i - 1 |-> o[i + 1 + j - 1]]
      BY <3>2, <3>4
    <3>6. s \in Seq(Nat) /\ Len(s) = e - i - 1
      BY <1>1, <3>3, <3>4, <3>5
    <3> QED
      BY <3>3, <3>4, <3>5, <3>6
  <2> QED
    BY <2>1, <2>2
<1> HIDE DEF t, s, e
<1>5. /\ all \in Seq(Nat) /\ Len(all) = 1 + (e - i - 1)
      /\ \A j \in 1 .. 1 + (e - i - 1) : all[j] = IF j <= 1 THEN o[i] ELSE s[j - 1]
  <2>1. <<o[i]>> \in Seq(Nat) /\ Len(<<o[i]>>) = 1 /\ <<o[i]>>[1] = o[i]
    BY <1>1
  <2>2. /\ all \in Seq(Nat) /\ Len(all) = Len(<<o[i]>>) + Len(s)
        /\ \A j \in 1 .. Len(<<o[i]>>) + Len(s) :
              all[j] = IF j <= Len(<<o[i]>>) THEN <<o[i]>>[j] ELSE s[j - Len(<<o[i]>>)]
    BY <1>4, <2>1, ConcatProperties
  <2> HIDE DEF all
  <2>3. \A j \in 1 .. 1 + Len(s) : j <= 1 => j = 1
    BY <1>4
  <2> QED
    BY <1>4, <2>1, <2>2, <2>3
<1> HIDE DEF all
<1>6. ASSUME NEW j \in 1 .. e - i PROVE t[j] = all[j]
  <2>1. j \in 1 .. 1 + (e - i - 1)
    BY <1>1, <1>2
  <2>2. CASE j = 1
    <3>1. i + 1 - 1 = i
      BY <1>1
    <3> QED
      BY <1>3, <1>5, <2>1, <2>2, <3>1
  <2>3. CASE j # 1
    <3>1. j - 1 \in 1 .. e - i - 1 /\ i + (j - 1) = i + j - 1 /\ ~(j <= 1)
      BY <1>1, <1>2, <2>3
    <3> QED
      BY <1>3, <1>4, <1>5, <2>1, <3>1
  <2> QED
    BY <2>2, <2>3
<1>7. t = all
  <2>1. Len(all) = e - i /\ Len(t) = e - i
    BY <1>1, <1>2, <1>3, <1>5
  <2> QED
    BY <1>3, <1>5, <1>6, <2>1, SeqEqual
<1> QED
  BY <1>7 DEF t, all, s

\* The chain from the root is the order, up to the page that is missing.
LEMMA ChainIs ==
    ASSUME NEW pages \in Seq(PageType), NEW o, NEW m, NEW z, Order(o, m, z, pages)
    PROVE  /\ ChainOf(pages, 0) = <<>>
           /\ m >= 1 /\ z # 1 => ChainOf(pages, 1) = [i \in 1 .. z - 1 |-> o[i]]
<1> DEFINE n == Len(pages)
           Defines(f) == f = [p \in Nat |->
               IF p = 0 \/ p > n THEN <<>> ELSE <<p>> \o f[pages[p].right]]
           place(p) == CHOOSE i \in 1 .. m : o[i] = p
           w == [p \in Nat |->
                   IF p = 0 \/ p > n THEN <<>> ELSE PlacesFrom(o, m, z, place(p))]
<1>1. m \in Nat /\ z \in 1 .. m + 1 /\ o \in [1 .. m -> 1 .. m] /\ n \in Nat
  BY SMTT(30), ZenonT(30) DEF Order
<1>2. \A i, j \in 1 .. m : o[i] = o[j] => i = j
  BY DEF Order
<1>3. /\ m \in {n, n + 1}
      /\ \A i \in 1 .. m : o[i] <= n <=> i # z
      /\ \A i \in 1 .. m : i # z => pages[o[i]].right = IF i = m THEN 0 ELSE o[i + 1]
  BY DEF Order
<1>4. \A i \in 1 .. m : o[i] \in Nat /\ o[i] # 0
  BY <1>1
<1>5. \A p \in 1 .. m : \E i \in 1 .. m : o[i] = p
  BY DEF Order
<1>6. \A i \in 1 .. m : place(o[i]) = i
  BY <1>2
<1>7. \A i \in 1 .. m : i # z => w[o[i]] = PlacesFrom(o, m, z, i)
  <2> SUFFICES ASSUME NEW i \in 1 .. m, i # z PROVE w[o[i]] = PlacesFrom(o, m, z, i)
    OBVIOUS
  <2>1. o[i] \in Nat /\ ~(o[i] = 0 \/ o[i] > n)
    BY <1>1, <1>3, <1>4
  <2>2. place(o[i]) = i
    BY <1>6
  <2> HIDE DEF place
  <2> QED
    BY <2>1, <2>2
<1>8. /\ w[0] = <<>>
      /\ \A i \in 1 .. m : i = z => w[o[i]] = <<>>
  <2>1. \A i \in 1 .. m : i = z => o[i] \in Nat /\ o[i] > n
    BY <1>1, <1>3, <1>4
  <2> HIDE DEF place
  <2> QED
    BY <2>1
<1>9. ASSUME NEW p \in Nat
      PROVE  w[p] = IF p = 0 \/ p > n THEN <<>> ELSE <<p>> \o w[pages[p].right]
  <2>1. CASE p = 0 \/ p > n
    BY <2>1
  <2>2. CASE ~(p = 0 \/ p > n)
    <3>1. p \in 1 .. m
      BY <1>1, <1>3, <2>2
    <3>2. PICK i \in 1 .. m : o[i] = p
      BY <1>5, <3>1
    <3>3. i # z
      BY <1>1, <1>3, <2>2, <3>2
    <3>4. w[p] = <<p>> \o (IF i = m \/ i + 1 = z THEN <<>> ELSE PlacesFrom(o, m, z, i + 1))
      <4> HIDE DEF w
      <4> QED
        BY <1>7, <3>2, <3>3, PlacesStep, SMTT(30), ZenonT(30)
    <3>5. pages[p].right = IF i = m THEN 0 ELSE o[i + 1]
      BY <1>3, <3>2, <3>3
    <3>6. w[pages[p].right] = IF i = m \/ i + 1 = z THEN <<>> ELSE PlacesFrom(o, m, z, i + 1)
      <4> HIDE DEF w
      <4>1. CASE i = m
        BY <1>8, <3>5, <4>1
      <4>2. CASE i # m
        <5>1. i + 1 \in 1 .. m
          BY <1>1, <4>2
        <5> QED
          BY <1>7, <1>8, <3>5, <4>2, <5>1
      <4> QED
        BY <4>1, <4>2
    <3> HIDE DEF w
    <3> QED
      BY <2>2, <3>4, <3>6
  <2> QED
    BY <2>1, <2>2
<1>10. Defines(w)
  <2>1. w = [p \in Nat |-> w[p]]
    OBVIOUS
  <2> HIDE DEF w
  <2> QED
    BY <1>9, <2>1
<1> DEFINE from == CHOOSE f : Defines(f)
<1>11. Defines(from)
  <2> HIDE DEF w, Defines
  <2> QED
    BY <1>10
<1>12. \A p \in Nat : from[p] = IF p = 0 \/ p > n THEN <<>> ELSE <<p>> \o from[pages[p].right]
  <2> HIDE DEF from
  <2> QED
    BY <1>11
<1>13. ChainOf(pages, 0) = from[0] /\ ChainOf(pages, 1) = from[1]
  BY DEF ChainOf
<1> HIDE DEF from, w
<1>14. from[0] = <<>>
  BY <1>12
<1> DEFINE Good == {k \in Nat : k <= z - 1 => from[o[z - k]] = PlacesFrom(o, m, z, z - k)}
<1>15. 1 \in Good
  <2> SUFFICES ASSUME 1 <= z - 1 PROVE from[o[z - 1]] = PlacesFrom(o, m, z, z - 1)
    OBVIOUS
  <2>1. z - 1 \in 1 .. m /\ z - 1 # z /\ (z - 1) + 1 = z
    BY <1>1
  <2>2. PlacesFrom(o, m, z, z - 1) = <<o[z - 1]>> \o <<>>
    <3> DEFINE i == z - 1
    <3>1. i \in 1 .. m /\ i # z /\ i + 1 = z
      BY <2>1
    <3> HIDE DEF i
    <3>2. PlacesFrom(o, m, z, i) =
              <<o[i]>> \o (IF i = m \/ i + 1 = z THEN <<>> ELSE PlacesFrom(o, m, z, i + 1))
      BY <3>1, PlacesStep
    <3>3. PlacesFrom(o, m, z, i) = <<o[i]>> \o <<>>
      BY <3>1, <3>2, Zenon
    <3> QED
      BY <3>3 DEF i
  <2>3. o[z - 1] \in Nat /\ ~(o[z - 1] = 0 \/ o[z - 1] > n)
    BY <1>1, <1>3, <1>4, <2>1
  <2>4. from[o[z - 1]] = <<o[z - 1]>> \o from[pages[o[z - 1]].right]
    BY <1>12, <2>3
  <2>5. from[pages[o[z - 1]].right] = <<>>
    <3>1. CASE z - 1 = m
      BY <1>3, <1>14, <2>1, <3>1
    <3>2. CASE z - 1 # m
      <4>1. z \in 1 .. m /\ pages[o[z - 1]].right = o[z]
        BY <1>1, <1>3, <2>1, <3>2
      <4>2. o[z] \in Nat /\ o[z] > n
        BY <1>1, <1>3, <1>4, <4>1
      <4> QED
        BY <1>12, <4>1, <4>2
    <3> QED
      BY <3>1, <3>2
  <2> QED
    BY <2>2, <2>4, <2>5
<1>16. ASSUME NEW k \in Nat, k >= 1, k \in Good
       PROVE  k + 1 \in Good
  <2> SUFFICES ASSUME k + 1 <= z - 1
               PROVE  from[o[z - (k + 1)]] = PlacesFrom(o, m, z, z - (k + 1))
    BY <1>16
  <2> DEFINE i == z - (k + 1)
  <2>1. i \in 1 .. m /\ i # z /\ i + 1 = z - k /\ i # m /\ i + 1 # z /\ k <= z - 1
    BY <1>1, <1>16
  <2>2. from[o[z - k]] = PlacesFrom(o, m, z, z - k)
    BY <1>16, <2>1
  <2> HIDE DEF i
  <2>3. PlacesFrom(o, m, z, i) = <<o[i]>> \o PlacesFrom(o, m, z, z - k)
    BY <2>1, PlacesStep
  <2>4. o[i] \in Nat /\ ~(o[i] = 0 \/ o[i] > n)
    BY <1>1, <1>3, <1>4, <2>1
  <2>5. from[o[i]] = <<o[i]>> \o from[pages[o[i]].right] /\ pages[o[i]].right = o[z - k]
    BY <1>3, <1>12, <2>1, <2>4
  <2> QED
    BY <2>2, <2>3, <2>5 DEF i
<1>17. \A k \in Nat : k >= 1 => k \in Good
  <2> HIDE DEF Good
  <2> QED
    BY <1>15, <1>16, InductionFrom
<1>18. ASSUME m >= 1, z # 1 PROVE from[1] = [i \in 1 .. z - 1 |-> o[i]]
  <2>1. z - 1 \in Nat /\ z - 1 >= 1 /\ z - (z - 1) = 1 /\ 1 < z
    BY <1>1, <1>18
  <2>2. from[o[1]] = PlacesFrom(o, m, z, 1)
    <3>1. z - 1 \in Good
      BY <1>17, <2>1
    <3> QED
      BY <2>1, <3>1
  <2>3. o[1] = 1
    BY <1>18 DEF Order
  <2>4. PlacesFrom(o, m, z, 1) = [j \in 1 .. z - 1 |-> o[1 + j - 1]]
    BY <2>1 DEF PlacesFrom
  <2>5. \A j \in 1 .. z - 1 : 1 + j - 1 = j
    OBVIOUS
  <2> QED
    BY <2>2, <2>3, <2>4, <2>5
<1> QED
  BY <1>13, <1>14, <1>18

-----------------------------------------------------------------------------
\* Every page is sound, with a high key, and its span is not negative.
PagesSound(pages) ==
    /\ pages \in Seq(PageType)
    /\ \A p \in 1 .. Len(pages) :
          /\ Sound(pages[p].body) /\ NumItems(pages[p].body) >= 1
          /\ pages[p].body.span >= 0

\* The walk from the root ends on the first page, in the order of the pages, where
\* the key does not belong further to the right.
LEMMA MoveRightIs ==
    ASSUME NEW key \in Nat, NEW o, NEW m, Order(o, m, m + 1, leaves), m >= 1,
           PagesSound(leaves), root = 1
    PROVE  \E i \in 1 .. m :
              /\ MoveRight(key) = o[i]
              /\ GetInsertionIdx(key, leaves[o[i]]) # HighKey
              /\ \A j \in 1 .. i - 1 : GetInsertionIdx(key, leaves[o[j]]) = HighKey
<1> DEFINE Behind(p) == GetInsertionIdx(key, leaves[p]) = HighKey
           Stops(i) == {j \in i .. m : ~Behind(o[j])}
           place(p) == CHOOSE i \in 1 .. m : o[i] = p
           w == [p \in DOMAIN leaves |-> o[Min(Stops(place(p)))]]
           Defines(f) == f = [p \in DOMAIN leaves |->
                                IF Behind(p) THEN f[leaves[p].right] ELSE p]
<1>1. m \in Nat /\ m = Len(leaves) /\ o \in [1 .. m -> 1 .. m] /\ o[1] = 1
      /\ DOMAIN leaves = 1 .. m
  <2>1. m \in Nat /\ o \in [1 .. m -> 1 .. m] /\ o[1] = 1
    BY DEF Order
  <2>2. m = Len(leaves)
    BY DEF Order
  <2> QED
    BY <2>1, <2>2 DEF PagesSound
<1>2. \A i, j \in 1 .. m : o[i] = o[j] => i = j
  BY DEF Order
<1>3. \A i \in 1 .. m : leaves[o[i]].right = IF i = m THEN 0 ELSE o[i + 1]
  <2>1. \A i \in 1 .. m : i # m + 1
    BY <1>1
  <2> QED
    BY <2>1 DEF Order
<1>4. \A p \in 1 .. m : \E i \in 1 .. m : o[i] = p
  BY DEF Order
<1>5. ~Behind(o[m])
  <2>1. m \in 1 .. m /\ o[m] \in 1 .. m
    BY <1>1
  <2>2. Sound(leaves[o[m]].body) /\ NumItems(leaves[o[m]].body) >= 1 /\ leaves[o[m]].right = 0
    BY <1>1, <1>3, <2>1 DEF PagesSound
  <2>3. Idx(GetInsertionIdx(key, leaves[o[m]]), key, ItemsOf(leaves[o[m]].body),
            NumItems(leaves[o[m]].body), leaves[o[m]].right)
    BY <2>2, GetInsertionIdxIs
  <2> QED
    BY <2>2, <2>3 DEF Idx
<1> HIDE DEF Behind
<1>6. \A i \in 1 .. m : Min(Stops(i)) \in i .. m /\ ~Behind(o[Min(Stops(i))])
                        /\ \A j \in i .. m : ~Behind(o[j]) => Min(Stops(i)) <= j
  <2> SUFFICES ASSUME NEW i \in 1 .. m
               PROVE  Min(Stops(i)) \in i .. m /\ ~Behind(o[Min(Stops(i))])
                      /\ \A j \in i .. m : ~Behind(o[j]) => Min(Stops(i)) <= j
    OBVIOUS
  <2>1. Stops(i) \in SUBSET Nat /\ m \in Stops(i)
    BY <1>1, <1>5
  <2>2. Min(Stops(i)) \in Stops(i) /\ \A j \in Stops(i) : Min(Stops(i)) <= j
    <3> HIDE DEF Stops
    <3> QED
      BY <2>1, MinIs
  <2> QED
    BY <2>2
<1>7. \A i \in 1 .. m : place(o[i]) = i
  BY <1>2
<1> HIDE DEF place
<1> DEFINE stop(i) == Min(Stops(i))
<1>8. \A i \in 1 .. m : w[o[i]] = o[stop(i)]
  <2> SUFFICES ASSUME NEW i \in 1 .. m PROVE w[o[i]] = o[stop(i)]
    OBVIOUS
  <2>1. o[i] \in DOMAIN leaves /\ place(o[i]) = i
    BY <1>1, <1>7
  <2> HIDE DEF Stops
  <2> QED
    BY <2>1
<1> HIDE DEF w, Stops
<1>9. \A i \in 1 .. m : stop(i) = IF Behind(o[i]) THEN stop(i + 1) ELSE i
  <2> SUFFICES ASSUME NEW i \in 1 .. m
               PROVE  stop(i) = IF Behind(o[i]) THEN stop(i + 1) ELSE i
    OBVIOUS
  <2>1. stop(i) \in i .. m /\ ~Behind(o[stop(i)]) /\ \A j \in i .. m : ~Behind(o[j]) => stop(i) <= j
    BY <1>6
  <2>2. CASE ~Behind(o[i])
    <3>1. stop(i) <= i
      BY <1>1, <2>1, <2>2
    <3> HIDE DEF stop
    <3> QED
      BY <1>1, <2>1, <2>2, <3>1
  <2>3. CASE Behind(o[i])
    <3>1. i + 1 \in 1 .. m
      BY <1>1, <1>5, <2>3
    <3>2. /\ stop(i + 1) \in i + 1 .. m /\ ~Behind(o[stop(i + 1)])
          /\ \A j \in i + 1 .. m : ~Behind(o[j]) => stop(i + 1) <= j
      BY <1>6, <3>1
    <3> HIDE DEF stop
    <3>3. stop(i) # i
      BY <2>1, <2>3
    <3>4. stop(i) \in i + 1 .. m /\ stop(i + 1) \in i .. m
      BY <1>1, <2>1, <3>2, <3>3
    <3>5. stop(i) <= stop(i + 1) /\ stop(i + 1) <= stop(i)
      BY <2>1, <3>2, <3>4
    <3> QED
      BY <1>1, <2>3, <3>4, <3>5
  <2> QED
    BY <2>2, <2>3
<1>10. ASSUME NEW p \in DOMAIN leaves
       PROVE  w[p] = IF Behind(p) THEN w[leaves[p].right] ELSE p
  <2>1. PICK i \in 1 .. m : o[i] = p
    BY <1>1, <1>4
  <2>2. w[p] = o[stop(i)]
    BY <1>8, <2>1
  <2>3. CASE ~Behind(p)
    BY <1>9, <2>1, <2>2, <2>3
  <2>4. CASE Behind(p)
    <3>1. i + 1 \in 1 .. m /\ i # m
      BY <1>1, <1>5, <2>1, <2>4
    <3>2. leaves[p].right = o[i + 1]
      BY <1>3, <2>1, <3>1
    <3>3. stop(i) = stop(i + 1)
      BY <1>9, <2>1, <2>4
    <3>4. w[o[i + 1]] = o[stop(i + 1)]
      BY <1>8, <3>1
    <3> HIDE DEF stop
    <3> QED
      BY <2>2, <2>4, <3>2, <3>3, <3>4
  <2> QED
    BY <2>3, <2>4
<1>11. Defines(w)
  <2>1. w = [p \in DOMAIN leaves |-> w[p]]
    BY DEF w
  <2> QED
    BY <1>10, <2>1
<1> DEFINE walk == CHOOSE f : Defines(f)
<1>12. Defines(walk)
  <2> HIDE DEF Defines
  <2> QED
    BY <1>11
<1>13. MoveRight(key) = walk[1]
  BY DEF MoveRight, Behind
<1> HIDE DEF walk
<1>14. \A p \in DOMAIN leaves : walk[p] = IF Behind(p) THEN walk[leaves[p].right] ELSE p
  BY <1>12
<1> HIDE DEF Defines, stop
<1> DEFINE s == stop(1)
           Good == {k \in Nat : k <= s => walk[1] = walk[o[k]]}
<1>15. /\ s \in 1 .. m /\ ~Behind(o[s])
       /\ \A j \in 1 .. m : ~Behind(o[j]) => s <= j
  <2>1. 1 \in 1 .. m
    BY <1>1
  <2> QED
    BY <1>6, <2>1 DEF stop
<1> HIDE DEF s
<1>16. 1 \in Good
  BY <1>1
<1>17. ASSUME NEW k \in Nat, k >= 1, k \in Good
       PROVE  k + 1 \in Good
  <2> SUFFICES ASSUME k + 1 <= s PROVE walk[1] = walk[o[k + 1]]
    BY <1>17
  <2>1. k \in 1 .. m /\ k # m /\ k <= s /\ ~(s <= k)
    BY <1>1, <1>15, <1>17
  <2>2. Behind(o[k]) /\ o[k] \in DOMAIN leaves
    BY <1>1, <1>15, <2>1
  <2>3. walk[o[k]] = walk[leaves[o[k]].right] /\ leaves[o[k]].right = o[k + 1]
    BY <1>3, <1>14, <2>1, <2>2
  <2> QED
    BY <1>17, <2>1, <2>3
<1>18. walk[1] = walk[o[s]]
  <2>1. \A k \in Nat : k >= 1 => k \in Good
    <3> HIDE DEF Good
    <3> QED
      BY <1>16, <1>17, InductionFrom
  <2>2. s \in Nat /\ s >= 1 /\ s <= s
    BY <1>1, <1>15
  <2> QED
    BY <2>1, <2>2
<1>19. walk[o[s]] = o[s]
  <2>1. o[s] \in DOMAIN leaves
    BY <1>1, <1>15
  <2> QED
    BY <1>14, <1>15, <2>1
<1>20. \A j \in 1 .. s - 1 : Behind(o[j])
  <2>1. \A j \in 1 .. s - 1 : j \in 1 .. m /\ ~(s <= j)
    BY <1>1, <1>15
  <2> QED
    BY <1>15, <2>1
<1> QED
  BY <1>13, <1>15, <1>18, <1>19, <1>20 DEF Behind

-----------------------------------------------------------------------------
\* Links that stay the same leave the order as it is.
LEMMA OrderSame ==
    ASSUME NEW pages, NEW new, NEW o, NEW m, NEW z, Order(o, m, z, pages),
           Len(new) = Len(pages), \A p \in 1 .. Len(pages) : new[p].right = pages[p].right
    PROVE  Order(o, m, z, new)
<1>1. \A i \in 1 .. m : i # z => new[o[i]].right = pages[o[i]].right
  <2> SUFFICES ASSUME NEW i \in 1 .. m, i # z PROVE new[o[i]].right = pages[o[i]].right
    OBVIOUS
  <2>1. o[i] \in 1 .. m /\ o[i] <= Len(pages) /\ m \in Nat /\ m \in {Len(pages), Len(pages) + 1}
    BY DEF Order
  <2>2. o[i] \in 1 .. Len(pages)
    BY <2>1
  <2> QED
    BY <2>2
<1> QED
  BY <1>1 DEF Order

\* A new page behind the one at place i.
Behind(o, m, i) == [j \in 1 .. m + 1 |-> IF j <= i THEN o[j] ELSE IF j = i + 1 THEN m + 1 ELSE o[j - 1]]

\* A page more, linked between the one at place i and the next.
LEMMA OrderMore ==
    ASSUME NEW pages, NEW new, NEW o, NEW m, Order(o, m, m + 1, pages),
           NEW i \in 1 .. m,
           Len(new) = m + 1,
           new[o[i]].right = m + 1, new[m + 1].right = pages[o[i]].right,
           \A p \in 1 .. m : p # o[i] => new[p].right = pages[p].right
    PROVE  Order(Behind(o, m, i), m + 1, m + 2, new)
<1> DEFINE q == Behind(o, m, i)
<1>1. m \in Nat /\ o \in [1 .. m -> 1 .. m] /\ o[1] = 1 /\ i \in Nat /\ m >= 1
  <2>1. m \in Nat
    BY DEF Order
  <2>2. m >= 1 /\ i \in Nat
    BY <2>1
  <2>3. o \in [1 .. m -> 1 .. m]
    BY DEF Order
  <2>4. o[1] = 1
    BY <2>2 DEF Order
  <2> QED
    BY <2>1, <2>2, <2>3, <2>4
<1>2. \A j, k \in 1 .. m : o[j] = o[k] => j = k
  BY DEF Order
<1>3. \A p \in 1 .. m : \E j \in 1 .. m : o[j] = p
  BY DEF Order
<1>4. \A j \in 1 .. m : pages[o[j]].right = IF j = m THEN 0 ELSE o[j + 1]
  <2>1. \A j \in 1 .. m : j # m + 1
    BY <1>1
  <2> QED
    BY <2>1 DEF Order
<1>5. /\ \A j \in 1 .. i : q[j] = o[j]
      /\ q[i + 1] = m + 1
      /\ \A j \in i + 2 .. m + 1 : q[j] = o[j - 1]
  BY <1>1 DEF Behind
<1>6. q \in [1 .. m + 1 -> 1 .. m + 1]
  <2>1. ASSUME NEW j \in 1 .. m + 1
        PROVE  (IF j <= i THEN o[j] ELSE IF j = i + 1 THEN m + 1 ELSE o[j - 1]) \in 1 .. m + 1
    <3>1. CASE j <= i
      <4>1. j \in 1 .. m
        BY <1>1, <3>1
      <4>2. o[j] \in 1 .. m
        BY <1>1, <4>1
      <4> QED
        BY <1>1, <3>1, <4>2
    <3>2. CASE j = i + 1
      BY <1>1, <3>2
    <3>3. CASE j > i + 1
      <4>1. j - 1 \in 1 .. m /\ ~(j <= i) /\ j # i + 1
        BY <1>1, <3>3
      <4>2. o[j - 1] \in 1 .. m
        BY <1>1, <4>1
      <4> QED
        BY <1>1, <4>1, <4>2
    <3> QED
      BY <1>1, <3>1, <3>2, <3>3
  <2> QED
    BY <2>1 DEF Behind
<1> HIDE DEF q
<1>7. q[1] = 1
  BY <1>1, <1>5
<1>8. \A j, k \in 1 .. m + 1 : q[j] = q[k] => j = k
  <2> SUFFICES ASSUME NEW j \in 1 .. m + 1, NEW k \in 1 .. m + 1, q[j] = q[k]
               PROVE  j = k
    OBVIOUS
  <2> DEFINE old(x) == IF x <= i THEN x ELSE x - 1
  <2>1. \A x \in 1 .. m + 1 : x # i + 1 =>
            /\ old(x) \in 1 .. m /\ q[x] = o[old(x)] /\ q[x] \in 1 .. m
    <3> SUFFICES ASSUME NEW x \in 1 .. m + 1, x # i + 1
                 PROVE  old(x) \in 1 .. m /\ q[x] = o[old(x)] /\ q[x] \in 1 .. m
      OBVIOUS
    <3>1. old(x) \in 1 .. m
      BY <1>1
    <3>2. q[x] = o[old(x)]
      <4>1. CASE x <= i
        BY <1>1, <1>5, <4>1
      <4>2. CASE ~(x <= i)
        <5>1. x \in i + 2 .. m + 1
          BY <1>1, <4>2
        <5> QED
          BY <1>5, <4>2, <5>1
      <4> QED
        BY <4>1, <4>2
    <3> QED
      BY <1>1, <3>1, <3>2
  <2>2. CASE j = i + 1 /\ k # i + 1
    <3>1. q[j] = m + 1 /\ q[k] \in 1 .. m
      BY <1>5, <2>1, <2>2
    <3> QED
      BY <1>1, <3>1
  <2>3. CASE j # i + 1 /\ k = i + 1
    <3>1. q[k] = m + 1 /\ q[j] \in 1 .. m
      BY <1>5, <2>1, <2>3
    <3> QED
      BY <1>1, <3>1
  <2>4. CASE j # i + 1 /\ k # i + 1
    <3>1. old(j) \in 1 .. m /\ old(k) \in 1 .. m /\ o[old(j)] = o[old(k)]
      BY <2>1, <2>4
    <3>2. old(j) = old(k)
      <4> HIDE DEF old
      <4> QED
        BY <1>2, <3>1
    <3>3. /\ j <= i => old(j) = j /\ j <= i
          /\ ~(j <= i) => old(j) = j - 1 /\ j - 1 > i
          /\ k <= i => old(k) = k /\ k <= i
          /\ ~(k <= i) => old(k) = k - 1 /\ k - 1 > i
      BY <1>1, <2>4
    <3> HIDE DEF old
    <3>4. CASE j <= i
      BY <1>1, <3>2, <3>3, <3>4
    <3>5. CASE ~(j <= i)
      BY <1>1, <3>2, <3>3, <3>5
    <3> QED
      BY <3>4, <3>5
  <2> QED
    BY <2>2, <2>3, <2>4
<1>9. \A p \in 1 .. m + 1 : \E j \in 1 .. m + 1 : q[j] = p
  <2> SUFFICES ASSUME NEW p \in 1 .. m + 1 PROVE \E j \in 1 .. m + 1 : q[j] = p
    OBVIOUS
  <2>1. CASE p = m + 1
    <3>1. i + 1 \in 1 .. m + 1
      BY <1>1
    <3> QED
      BY <1>5, <2>1, <3>1
  <2>2. CASE p # m + 1
    <3>1. p \in 1 .. m
      BY <1>1, <2>2
    <3>2. PICK j \in 1 .. m : o[j] = p
      BY <1>3, <3>1
    <3>3. CASE j <= i
      <4>1. j \in 1 .. i /\ j \in 1 .. m + 1
        BY <1>1, <3>3
      <4> QED
        BY <1>5, <3>2, <4>1
    <3>4. CASE ~(j <= i)
      <4>1. j + 1 \in i + 2 .. m + 1 /\ j + 1 \in 1 .. m + 1 /\ (j + 1) - 1 = j
        BY <1>1, <3>4
      <4> QED
        BY <1>5, <3>2, <4>1
    <3> QED
      BY <3>3, <3>4
  <2> QED
    BY <2>1, <2>2
<1>10. ASSUME NEW j \in 1 .. m + 1
       PROVE  new[q[j]].right = IF j = m + 1 THEN 0 ELSE q[j + 1]
  <2>1. CASE j < i
    <3>1. j \in 1 .. i /\ j + 1 \in 1 .. i /\ j \in 1 .. m /\ i \in 1 .. m /\ j # i /\ j # m /\ j # m + 1
      BY <1>1, <2>1
    <3>2. q[j] = o[j] /\ q[j + 1] = o[j + 1] /\ o[j] # o[i] /\ o[j] \in 1 .. m
      BY <1>1, <1>2, <1>5, <3>1
    <3> QED
      BY <1>4, <3>1, <3>2
  <2>2. CASE j = i
    <3>1. j \in 1 .. i /\ j # m + 1
      BY <1>1, <2>2
    <3> QED
      BY <1>5, <2>2, <3>1
  <2>3. CASE j = i + 1
    <3>1. q[j] = m + 1
      BY <1>5, <2>3
    <3>2. new[q[j]].right = IF i = m THEN 0 ELSE o[i + 1]
      BY <1>4, <3>1
    <3>3. CASE i = m
      BY <2>3, <3>2, <3>3
    <3>4. CASE i # m
      <4>1. j + 1 \in i + 2 .. m + 1 /\ (j + 1) - 1 = i + 1 /\ j # m + 1
        BY <1>1, <2>3, <3>4
      <4> QED
        BY <1>5, <3>2, <3>4, <4>1
    <3> QED
      BY <3>3, <3>4
  <2>4. CASE j > i + 1
    <3>1. /\ j \in i + 2 .. m + 1 /\ j - 1 \in 1 .. m /\ j - 1 # i /\ (j - 1) + 1 = j
          /\ (j - 1 = m <=> j = m + 1)
      BY <1>1, <2>4
    <3>2. q[j] = o[j - 1] /\ o[j - 1] # o[i] /\ o[j - 1] \in 1 .. m
      BY <1>1, <1>2, <1>5, <3>1
    <3>3. new[q[j]].right = IF j - 1 = m THEN 0 ELSE o[(j - 1) + 1]
      BY <1>4, <3>1, <3>2
    <3>4. CASE j = m + 1
      BY <3>1, <3>3, <3>4
    <3>5. CASE j # m + 1
      <4>1. j + 1 \in i + 2 .. m + 1 /\ (j + 1) - 1 = j
        BY <1>1, <2>4, <3>5
      <4>2. q[j + 1] = o[j]
        BY <1>5, <4>1
      <4> QED
        BY <3>1, <3>3, <3>5, <4>2
    <3> QED
      BY <3>4, <3>5
  <2> QED
    BY <1>1, <2>1, <2>2, <2>3, <2>4
<1>11. /\ m + 1 \in Nat /\ m + 2 \in 1 .. (m + 1) + 1 /\ m + 2 = (m + 1) + 1
       /\ \A j \in 1 .. m + 1 : q[j] <= Len(new) <=> j # m + 2
  <2>1. \A j \in 1 .. m + 1 : j # m + 2
    BY <1>1
  <2>2. \A j \in 1 .. m + 1 : q[j] \in 1 .. m + 1
    BY <1>6
  <2>3. \A j \in 1 .. m + 1 : q[j] <= Len(new)
    BY <1>1, <2>2
  <2> QED
    BY <1>1, <2>1, <2>3
<1>12. Order(q, m + 1, m + 2, new)
  BY <1>6, <1>7, <1>8, <1>9, <1>10, <1>11 DEF Order
<1> QED
  BY <1>12 DEF q

\* The last page missing: another place than the first.
LEMMA OrderLess ==
    ASSUME NEW pages, NEW new, NEW o, NEW m, Order(o, m, m + 1, pages), m >= 2,
           Len(new) = m - 1, \A p \in 1 .. m - 1 : new[p].right = pages[p].right
    PROVE  \E z \in 2 .. m : Order(o, m, z, new)
<1>1. m \in Nat /\ o \in [1 .. m -> 1 .. m] /\ o[1] = 1 /\ m \in 1 .. m
  <2>1. m \in Nat
    BY DEF Order
  <2>2. m >= 1 /\ m \in 1 .. m
    BY <2>1
  <2>3. o \in [1 .. m -> 1 .. m]
    BY DEF Order
  <2>4. o[1] = 1
    BY <2>2 DEF Order
  <2> QED
    BY <2>1, <2>2, <2>3, <2>4
<1>2. \A j, k \in 1 .. m : o[j] = o[k] => j = k
  BY DEF Order
<1>3. PICK z \in 1 .. m : o[z] = m
  BY <1>1 DEF Order
<1>4. z \in 2 .. m
  BY <1>1, <1>3
<1>5. \A j \in 1 .. m : j # z => o[j] \in 1 .. m - 1
  <2>1. \A j \in 1 .. m : j # z => o[j] # m /\ o[j] \in 1 .. m
    BY <1>1, <1>2, <1>3
  <2> QED
    BY <1>1, <2>1
<1>6. \A j \in 1 .. m : o[j] <= Len(new) <=> j # z
  BY <1>1, <1>3, <1>5, SMTT(30), ZenonT(30)
<1>7. \A j \in 1 .. m : j # z => new[o[j]].right = IF j = m THEN 0 ELSE o[j + 1]
  <2>1. \A j \in 1 .. m : j # m + 1
    BY <1>1
  <2>2. \A j \in 1 .. m : pages[o[j]].right = IF j = m THEN 0 ELSE o[j + 1]
    BY <2>1 DEF Order
  <2> QED
    BY <1>5, <2>2
<1>8. m \in {Len(new), Len(new) + 1} /\ (m = Len(new) <=> z = m + 1) /\ z \in 1 .. m + 1
  BY <1>1, <1>4
<1>9. \A p \in 1 .. m : \E j \in 1 .. m : o[j] = p
  BY DEF Order
<1> QED
  BY <1>1, <1>2, <1>4, <1>6, <1>7, <1>8, <1>9 DEF Order

-----------------------------------------------------------------------------
\* The steps that change the tree: those of CREATE INDEX, and the creation of the
\* root when a scan finds none.
TreeNext == Build \/ WriteRootPage \/ WriteMetaPage

\* An order of all the pages, in mid-split with the one that is not yet written;
\* after a build that was cut in mid-split all but that one are in the file.
Linked ==
    \E o, m, z : /\ Order(o, m, z, Pages)
                 /\ phase # "cut" => z = m + 1
                 /\ root = 1 => z # 1

\* The inductive invariant of the tree's structure.
TreeInv ==
    /\ PagesSound(leaves) /\ PagesSound(Pages)
    /\ pending = <<>> \/ \E pg \in PageType : pending = <<pg>>
    /\ pending # <<>> => phase = "build"
    /\ root \in {0, 1} /\ phase \in {"build", "done", "cut"} /\ misplaced \in BOOLEAN
    /\ rows \in Seq(Keys)
    /\ root = 0 => /\ pending = <<>> /\ rows = <<>>
                   /\ leaves = <<>> \/ leaves = <<Leaf(NewBody, 0)>>
    /\ root = 1 => leaves # <<>>
    /\ Linked

\* Pages with one more, and with none.
LEMMA PageMore ==
    ASSUME NEW pages \in Seq(PageType)
    PROVE  /\ pages \o <<>> = pages
           /\ \A pg \in PageType :
                 /\ pages \o <<pg>> \in Seq(PageType)
                 /\ Len(pages \o <<pg>>) = Len(pages) + 1
                 /\ \A p \in 1 .. Len(pages) : (pages \o <<pg>>)[p] = pages[p]
                 /\ (pages \o <<pg>>)[Len(pages) + 1] = pg
<1>1. pages \o <<>> = pages
  BY ConcatEmptySeq
<1>2. ASSUME NEW pg \in PageType
      PROVE  /\ pages \o <<pg>> \in Seq(PageType)
             /\ Len(pages \o <<pg>>) = Len(pages) + 1
             /\ \A p \in 1 .. Len(pages) : (pages \o <<pg>>)[p] = pages[p]
             /\ (pages \o <<pg>>)[Len(pages) + 1] = pg
  <2>1. <<pg>> \in Seq(PageType) /\ Len(<<pg>>) = 1 /\ <<pg>>[1] = pg
    OBVIOUS
  <2>2. /\ pages \o <<pg>> \in Seq(PageType)
        /\ Len(pages \o <<pg>>) = Len(pages) + Len(<<pg>>)
        /\ \A p \in 1 .. Len(pages) + Len(<<pg>>) :
              (pages \o <<pg>>)[p] = IF p <= Len(pages) THEN pages[p] ELSE <<pg>>[p - Len(pages)]
    BY <2>1, ConcatProperties
  <2>3. /\ Len(pages) \in Nat
        /\ \A p \in 1 .. Len(pages) : p \in 1 .. Len(pages) + 1 /\ p <= Len(pages)
        /\ Len(pages) + 1 \in 1 .. Len(pages) + 1 /\ ~(Len(pages) + 1 <= Len(pages))
        /\ (Len(pages) + 1) - Len(pages) = 1
    OBVIOUS
  <2> QED
    BY <2>1, <2>2, <2>3
<1> QED
  BY <1>1, <1>2

\* A key that is inserted descends to a page to which it belongs, behind pages all
\* of whose keys are less.
Descends(key, o, m, i) ==
    LET at(p) == GetInsertionIdx(key, leaves[p])
        IdxOn(p) == Idx(at(p), key, ItemsOf(leaves[p].body), NumItems(leaves[p].body),
                        leaves[p].right)
    IN  /\ Order(o, m, m + 1, leaves) /\ m = Len(leaves) /\ m \in Nat /\ Pages = leaves
        /\ i \in 1 .. m
        /\ MoveRight(key) = o[i] /\ o[i] \in 1 .. m
        /\ IdxOn(o[i]) /\ at(o[i]) \in FirstKey .. NumItems(leaves[o[i]].body) + 1
        /\ \A j \in 1 .. i - 1 : o[j] \in 1 .. m /\ IdxOn(o[j]) /\ at(o[j]) = HighKey

\* Every key that can be inserted descends so.
LEMMA Descent ==
    ASSUME TreeInv, CanInsert, NEW key \in Keys
    PROVE  \E o, m, i : Descends(key, o, m, i)
<1>1. /\ phase = "build" /\ root = 1 /\ pending = <<>> /\ leaves # <<>> /\ PagesSound(leaves)
      /\ leaves \in Seq(PageType)
  BY DEF TreeInv, CanInsert, PagesSound
<1>2. Pages = leaves
  BY <1>1, PageMore DEF Pages
<1>3. PICK o, m, z : Order(o, m, z, Pages) /\ (phase # "cut" => z = m + 1)
  BY DEF TreeInv, Linked
<1>4. Order(o, m, m + 1, leaves) /\ m \in Nat /\ m = Len(leaves) /\ m >= 1
  <2>1. Order(o, m, m + 1, leaves)
    BY <1>1, <1>2, <1>3
  <2>2. m \in Nat /\ m = Len(leaves)
    BY <2>1 DEF Order
  <2>3. m # 0
    BY <1>1, <2>2, EmptySeq
  <2> QED
    BY <2>1, <2>2, <2>3
<1>5. key \in Nat
  BY TreeAssumption
<1>6. PICK i \in 1 .. m :
        /\ MoveRight(key) = o[i]
        /\ GetInsertionIdx(key, leaves[o[i]]) # HighKey
        /\ \A j \in 1 .. i - 1 : GetInsertionIdx(key, leaves[o[j]]) = HighKey
  BY <1>1, <1>4, <1>5, MoveRightIs, ZenonT(30)
<1>7. \A j \in 1 .. m : o[j] \in 1 .. m
  <2>1. o \in [1 .. m -> 1 .. m]
    BY <1>4 DEF Order
  <2> QED
    BY <2>1
<1>8. \A p \in 1 .. m : Idx(GetInsertionIdx(key, leaves[p]), key, ItemsOf(leaves[p].body),
                            NumItems(leaves[p].body), leaves[p].right)
  <2> SUFFICES ASSUME NEW p \in 1 .. m
               PROVE  Idx(GetInsertionIdx(key, leaves[p]), key, ItemsOf(leaves[p].body),
                            NumItems(leaves[p].body), leaves[p].right)
    OBVIOUS
  <2>1. Sound(leaves[p].body) /\ NumItems(leaves[p].body) >= 1
    BY <1>1, <1>4 DEF PagesSound
  <2> QED
    BY <1>5, <2>1, GetInsertionIdxIs
<1>9. GetInsertionIdx(key, leaves[o[i]]) \in FirstKey .. NumItems(leaves[o[i]].body) + 1
  <2>1. GetInsertionIdx(key, leaves[o[i]]) \in 1 .. NumItems(leaves[o[i]].body) + 1
    BY <1>7, <1>8 DEF Idx
  <2>2. NumItems(leaves[o[i]].body) \in Nat
    <3>1. Sound(leaves[o[i]].body)
      BY <1>1, <1>4, <1>7 DEF PagesSound
    <3> QED
      BY <3>1, ItemsFacts DEF Sound
  <2> QED
    BY <1>6, <2>1, <2>2 DEF FirstKey, HighKey
<1>10. \A j \in 1 .. i - 1 : j \in 1 .. m
  BY <1>4
<1>11. Descends(key, o, m, i)
  BY <1>2, <1>4, <1>6, <1>7, <1>8, <1>9, <1>10 DEF Descends
<1> QED
  BY <1>11

-----------------------------------------------------------------------------
\* The invariant's parts are about sequences of pages: what is asked of the next
\* state is asked of the next leaves and the next pages.
LEMMA InitTreeInv ==
    ASSUME TreeInit
    PROVE  TreeInv
<1>1. leaves = <<>> /\ root = 0 /\ pending = <<>> /\ rows = <<>> /\ phase = "build"
      /\ misplaced = FALSE
  BY DEF TreeInit
<1>2. Pages = <<>>
  BY <1>1 DEF Pages
<1>3. PagesSound(<<>>)
  BY DEF PagesSound
<1>4. Order(<<>>, 0, 1, <<>>)
  <2>1. <<>> \in [1 .. 0 -> 1 .. 0] /\ Len(<<>>) = 0
    OBVIOUS
  <2> QED
    BY <2>1 DEF Order
<1>5. Linked
  BY <1>1, <1>2, <1>4 DEF Linked
<1>6. <<>> \in Seq(Keys)
  OBVIOUS
<1>7. PagesSound(leaves) /\ PagesSound(Pages)
  BY <1>1, <1>2, <1>3, Zenon
<1>8. rows \in Seq(Keys)
  BY <1>1, <1>6, Zenon
<1>9. misplaced \in BOOLEAN
  BY <1>1, Zenon
<1>10. root \in {0, 1} /\ root # 1 /\ phase \in {"build", "done", "cut"}
  BY <1>1
<1> QED
  BY <1>1, <1>5, <1>7, <1>8, <1>9, <1>10, Zenon DEF TreeInv

\* A page of one's own: the root when it is written.
LEMMA FirstPage ==
    LET pages == <<Leaf(NewBody, 0)>>
    IN  /\ PagesSound(pages) /\ Leaf(NewBody, 0) \in PageType
        /\ \E o : Order(o, 1, 2, pages)
<1> DEFINE pg == Leaf(NewBody, 0)
           pages == <<pg>>
           o == [i \in 1 .. 1 |-> 1]
<1>1. Sound(NewBody) /\ NumItems(NewBody) = 1 /\ NewBody \in BodyType
  BY NewBodySound DEF Sound
<1>2. NewBody.span >= 0
  <2>1. SizeOf[NoKey] \in Nat /\ LeafSpan \in Nat /\ SizeOf[NoKey] + LocSize <= LeafSpan
    BY TreeAssumption, EmptyKeyAssumption
  <2>2. NewBody.span = LeafSpan - (SizeOf[NoKey] + LocSize)
    BY NewBodySound
  <2> QED
    BY <2>1, <2>2 DEF LocSize
<1>3. pg \in PageType /\ pg.body = NewBody /\ pg.right = 0
  BY <1>1 DEF Leaf, PageType
<1>4. pages \in Seq(PageType) /\ Len(pages) = 1 /\ pages[1] = pg
  BY <1>3
<1>5. PagesSound(pages)
  BY <1>1, <1>2, <1>3, <1>4 DEF PagesSound
<1>6. Order(o, 1, 2, pages)
  <2>1. o \in [1 .. 1 -> 1 .. 1] /\ \A i \in 1 .. 1 : i = 1 /\ o[i] = 1
    OBVIOUS
  <2> HIDE DEF o
  <2> QED
    BY <1>3, <1>4, <2>1 DEF Order
<1> QED
  BY <1>3, <1>5, <1>6

\* The root page is written to an empty file.
LEMMA RootPageKeepsTree ==
    ASSUME TreeInv, WriteRootPage
    PROVE  TreeInv'
<1>1. /\ root = 0 /\ root' = 0 /\ leaves' = <<Leaf(NewBody, 0)>> /\ pending = <<>> /\ pending' = <<>>
      /\ rows = <<>> /\ rows' = rows /\ phase' = phase /\ misplaced' = misplaced
  BY DEF TreeInv, WriteRootPage
<1>2. Pages' = leaves'
  <2>1. Leaf(NewBody, 0) \in PageType
    BY FirstPage
  <2>2. leaves' \in Seq(PageType)
    BY <1>1, <2>1
  <2> QED
    BY <1>1, <2>2, PageMore DEF Pages
<1>3. PagesSound(leaves')
  BY <1>1, FirstPage
<1>4. Linked'
  <2>1. PICK o : Order(o, 1, 2, leaves')
    BY <1>1, FirstPage
  <2> QED
    BY <1>1, <1>2, <2>1 DEF Linked
<1> QED
  BY <1>1, <1>2, <1>3, <1>4 DEF TreeInv

\* The meta page names the root, whose chain has one page.
LEMMA MetaPageKeepsTree ==
    ASSUME TreeInv, WriteMetaPage
    PROVE  TreeInv'
<1>1. /\ root = 0 /\ root' = 1 /\ leaves' = leaves /\ leaves # <<>> /\ pending = <<>>
      /\ pending' = <<>> /\ rows' = rows /\ phase' = phase /\ misplaced' = misplaced
      /\ leaves = <<Leaf(NewBody, 0)>>
  BY DEF TreeInv, WriteMetaPage
<1>2. Pages' = Pages /\ Pages = leaves
  <2>1. leaves \in Seq(PageType)
    BY DEF TreeInv, PagesSound
  <2> QED
    BY <1>1, <2>1, PageMore DEF Pages
<1>3. Linked'
  <2>1. PICK o : Order(o, 1, 2, Pages)
    BY <1>1, <1>2, FirstPage
  <2> QED
    BY <1>1, <1>2, <2>1 DEF Linked
<1> QED
  BY <1>1, <1>2, <1>3 DEF TreeInv

\* A build that ends keeps the pages it has written; only a split's new page can be
\* missing then, and only in a build that was cut.
LEMMA EndKeepsTree ==
    ASSUME TreeInv, NEW how \in {"done", "cut"}, EndOfBuild(how), phase = "build",
           how = "done" => pending = <<>>
    PROVE  TreeInv'
<1>1. /\ phase' = how /\ pending' = <<>> /\ leaves' = leaves /\ root' = root
      /\ rows' = rows /\ misplaced' = misplaced
  BY DEF EndOfBuild
<1>2. leaves \in Seq(PageType)
  BY DEF TreeInv, PagesSound
<1>3. Pages' = leaves
  BY <1>1, <1>2, PageMore DEF Pages
<1>4. PICK o, m, z : /\ Order(o, m, z, Pages) /\ z = m + 1
                     /\ root = 1 => z # 1
  BY DEF TreeInv, Linked
<1>5. Linked'
  <2>1. CASE pending = <<>>
    <3>1. Pages = leaves
      BY <1>2, <2>1, PageMore DEF Pages
    <3> QED
      BY <1>1, <1>3, <1>4, <3>1 DEF Linked
  <2>2. CASE pending # <<>>
    <3>1. how = "cut" /\ root = 1
      BY <2>2 DEF TreeInv
    <3>2. PICK pg \in PageType : pending = <<pg>>
      BY <2>2 DEF TreeInv
    <3>3. /\ Len(Pages) = Len(leaves) + 1
          /\ \A p \in 1 .. Len(leaves) : Pages[p] = leaves[p]
      BY <1>2, <3>2, PageMore DEF Pages
    <3>4. m = Len(leaves) + 1 /\ Len(leaves) \in Nat
      <4>1. m = Len(Pages)
        BY <1>4 DEF Order
      <4> QED
        BY <1>2, <3>3, <4>1
    <3>5. m >= 2
      <4>1. Len(leaves) # 0
        BY <1>2, <3>1, EmptySeq DEF TreeInv
      <4> QED
        BY <3>4, <4>1
    <3>6. m - 1 = Len(leaves)
      BY <3>4
    <3>7. PICK y \in 2 .. m : Order(o, m, y, leaves)
      <4>1. \A p \in 1 .. m - 1 : leaves[p].right = Pages[p].right
        BY <3>3, <3>6
      <4> QED
        BY <1>4, <3>5, <3>6, <4>1, OrderLess
    <3> QED
      BY <1>1, <1>3, <3>1, <3>7 DEF Linked
  <2> QED
    BY <2>1, <2>2
<1> QED
  BY <1>1, <1>3, <1>5 DEF TreeInv
\* The entry of the next row.
NewEntry(key) == Entry(key, Next1)

\* The entry of the next row and its parts.
LEMMA NewEntryType ==
    ASSUME TreeInv, NEW key \in Keys
    PROVE  /\ NewEntry(key) \in EntryType /\ Next1 \in Nat /\ Next1 = Len(rows) + 1
           /\ NewEntry(key).key = key /\ NewEntry(key).row = Next1
           /\ Size(NewEntry(key)) = SizeOf[key]
<1>1. rows \in Seq(Keys)
  BY DEF TreeInv
<1>2. Next1 \in Nat
  BY <1>1 DEF Next1
<1> QED
  BY <1>2 DEF NewEntry, Entry, EntryType, Size, Next1

\* An insertion changes one page, whose items get the entry.
InsertEffect(key, p) ==
    LET body == leaves[p].body
        more == leaves'[p].body
        at   == GetInsertionIdx(key, leaves[p])
    IN  /\ leaves' \in Seq(PageType) /\ Len(leaves') = Len(leaves)
        /\ Pages' = leaves' /\ pending' = <<>>
        /\ \A q \in 1 .. Len(leaves) : q # p => leaves'[q] = leaves[q]
        /\ leaves'[p].right = leaves[p].right
        /\ Sound(more) /\ more.span >= 0 /\ NumItems(more) = NumItems(body) + 1
        /\ ItemsOf(more) = InsertAt(ItemsOf(body), at, NewEntry(key))

\* A span that is not negative has room for a loc: what granules leave over of an
\* empty page is at least that.
LEMMA RoomForLoc ==
    ASSUME NEW body, Sound(body), body.span >= 0
    PROVE  body.span \in LocSize .. LeafSpan
<1>1. PICK k \in Nat : LeafSpan - body.span = Granule * k
  BY DEF Sound
<1>2. body.span \in Int /\ LeafSpan \in Nat
  BY TreeAssumption DEF Sound, BodyType
<1>3. LeafSpan % 8 >= 6
  BY SliverAssumption DEF LocSize
<1>4. LeafSpan = body.span + 8 * k
  BY <1>1, <1>2 DEF Granule, LocSize
<1>5. LeafSpan % 8 = body.span % 8
  BY <1>2, <1>4
<1>6. body.span % 8 <= body.span
  BY <1>2
<1> QED
  BY <1>2, <1>3, <1>4, <1>5, <1>6 DEF LocSize

\* An insertion has that effect on the page to which its key has descended.
LEMMA InsertionIs ==
    ASSUME TreeInv, NEW key \in Keys, InsertEntry(key),
           NEW o, NEW m, NEW i, Descends(key, o, m, i)
    PROVE  InsertEffect(key, o[i])
<1> DEFINE p == o[i]
           at == GetInsertionIdx(key, leaves[p])
           e == NewEntry(key)
           body == leaves[p].body
           more == AddItemAt(body, at, e, Size(e))
<1>1. /\ CanInsert /\ MoveRight(key) = p /\ p \in 1 .. Len(leaves)
      /\ at \in FirstKey .. NumItems(body) + 1
  BY DEF InsertEntry, Descends
<1>2. pending = <<>> /\ pending' = <<>>
  BY DEF InsertEntry, CanInsert
<1>3. leaves \in Seq(PageType) /\ Sound(body) /\ leaves[p] \in PageType
  <2>1. leaves \in Seq(PageType) /\ Sound(body)
    BY <1>1 DEF TreeInv, PagesSound
  <2> QED
    BY <1>1, <2>1, ElementOfSeq
<1>4. e \in EntryType /\ Size(e) = SizeOf[key]
  BY NewEntryType
<1>5. /\ Fits(body, Size(e))
      /\ leaves' = [leaves EXCEPT ![p].body = AddItemAt(@, at, e, Size(e))]
  BY <1>1, <1>4 DEF InsertEntry, NewEntry
<1>6. at \in 1 .. NumItems(body) + 1
  BY <1>1 DEF FirstKey
<1>7. /\ Sound(more) /\ ItemsOf(more) = InsertAt(ItemsOf(body), at, e)
      /\ NumItems(more) = NumItems(body) + 1
      /\ more.span = body.span - (Size(e) + LocSize)
  BY <1>3, <1>4, <1>6, SoundAddAt
<1>8. more.span >= 0
  <2>1. body.span \in Int /\ Size(e) \in Nat
    BY <1>3, <1>4, SizeFacts DEF Sound, BodyType
  <2>2. body.span \in LocSize .. LeafSpan
    BY <1>1, <1>3, RoomForLoc DEF TreeInv, PagesSound
  <2> HIDE DEF more, e
  <2> QED
    BY <1>5, <1>7, <2>1, <2>2 DEF Fits, Sliver, HasRoom, LocSize
<1> HIDE DEF e, at
<1>9. leaves' = [leaves EXCEPT ![p].body = more]
  BY <1>5
<1> HIDE DEF more
<1>10. leaves' = [leaves EXCEPT ![p] = [leaves[p] EXCEPT !.body = more]]
  BY <1>1, <1>3, <1>9
<1> DEFINE pg == [leaves[p] EXCEPT !.body = more]
<1>11. pg \in PageType /\ pg.body = more /\ pg.right = leaves[p].right
  BY <1>3, <1>7 DEF PageType, Sound
<1> HIDE DEF pg
<1>12. /\ leaves' \in Seq(PageType) /\ Len(leaves') = Len(leaves) /\ leaves'[p] = pg
       /\ \A q \in 1 .. Len(leaves) : q # p => leaves'[q] = leaves[q]
  BY <1>1, <1>3, <1>10, <1>11, ExceptSeq DEF pg
<1>13. Pages' = leaves'
  BY <1>2, <1>12, PageMore DEF Pages
<1> QED
  BY <1>2, <1>7, <1>8, <1>11, <1>12, <1>13 DEF InsertEffect, e, at

\* It changes no link.
LEMMA InsertKeepsTree ==
    ASSUME TreeInv, NEW key \in Keys, InsertEntry(key)
    PROVE  TreeInv'
<1>1. CanInsert
  BY DEF InsertEntry
<1>2. PICK o, m, i : Descends(key, o, m, i)
  BY <1>1, Descent
<1>3. InsertEffect(key, o[i])
  BY <1>2, InsertionIs
<1>4. o[i] \in 1 .. Len(leaves) /\ Order(o, m, m + 1, leaves) /\ m \in Nat /\ m >= 1
      /\ m = Len(leaves)
  BY <1>2 DEF Descends
<1>5. PagesSound(leaves')
  <2> SUFFICES ASSUME NEW q \in 1 .. Len(leaves)
               PROVE  /\ Sound(leaves'[q].body) /\ NumItems(leaves'[q].body) >= 1
                      /\ leaves'[q].body.span >= 0
    BY <1>3 DEF PagesSound, InsertEffect
  <2>1. /\ Sound(leaves[q].body) /\ NumItems(leaves[q].body) >= 1
        /\ leaves[q].body.span >= 0
    BY DEF TreeInv, PagesSound
  <2>2. CASE q = o[i]
    <3>1. NumItems(leaves[q].body) \in Nat
      BY <2>1, ItemsFacts DEF Sound
    <3>2. Sound(leaves'[q].body) /\ leaves'[q].body.span >= 0
          /\ NumItems(leaves'[q].body) = NumItems(leaves[q].body) + 1
      BY <1>3, <2>2 DEF InsertEffect
    <3> QED
      BY <2>1, <3>1, <3>2
  <2>3. CASE q # o[i]
    BY <1>3, <2>1, <2>3 DEF InsertEffect
  <2> QED
    BY <2>2, <2>3
<1>6. Order(o, m, m + 1, leaves')
  <2>1. Len(leaves') = Len(leaves) /\ \A q \in 1 .. Len(leaves) : leaves'[q].right = leaves[q].right
    BY <1>3 DEF InsertEffect
  <2> QED
    BY <1>4, <2>1, OrderSame
<1>7. /\ Pages' = leaves' /\ pending' = <<>> /\ root' = root /\ root = 1 /\ phase' = phase
      /\ misplaced' = misplaced /\ rows' = Append(rows, key)
  BY <1>1, <1>3 DEF InsertEffect, InsertEntry, CanInsert, TreeInv
<1>8. Linked'
  <2>1. m + 1 # 1
    BY <1>4
  <2> QED
    BY <1>6, <1>7, <2>1 DEF Linked
<1>9. rows' \in Seq(Keys) /\ leaves' # <<>>
  <2>1. rows \in Seq(Keys)
    BY DEF TreeInv
  <2>2. Len(leaves') # 0
    BY <1>3, <1>4 DEF InsertEffect
  <2> QED
    BY <1>7, <2>1, <2>2
<1> QED
  BY <1>5, <1>7, <1>8, <1>9 DEF TreeInv
\* A split changes one page and makes another behind it.
SplitEffect(key, p) ==
    LET leaf == leaves[p]
        at   == GetInsertionIdx(key, leaf)
        e    == NewEntry(key)
        n    == Len(leaves)
        left == Leaf(SplitLeft(leaf, e, at), n + 1)
        right == Leaf(Halves(leaf, e, at)[2], leaf.right)
    IN  /\ SplitCase(leaf, e, at)
        /\ leaves' \in Seq(PageType) /\ Len(leaves') = n
        /\ pending' = <<right>> /\ right \in PageType /\ left \in PageType
        /\ Pages' \in Seq(PageType) /\ Len(Pages') = n + 1
        /\ \A q \in 1 .. n : Pages'[q] = leaves'[q]
        /\ \A q \in 1 .. n : q # p => leaves'[q] = leaves[q]
        /\ leaves'[p] = left /\ Pages'[n + 1] = right
        /\ misplaced' = (misplaced \/ SlotInHalf(leaf, e, at) = HighKey)

\* A split has that effect on the page to which its key has descended.
LEMMA SplitIs ==
    ASSUME TreeInv, NEW key \in Keys, Split(key),
           NEW o, NEW m, NEW i, Descends(key, o, m, i)
    PROVE  SplitEffect(key, o[i])
<1> DEFINE p == o[i]
           n == Len(leaves)
           leaf == leaves[p]
           at == GetInsertionIdx(key, leaf)
           e == NewEntry(key)
           left == Leaf(SplitLeft(leaf, e, at), n + 1)
           right == Leaf(Halves(leaf, e, at)[2], leaf.right)
<1>1. /\ MoveRight(key) = p /\ p \in 1 .. n
      /\ at \in FirstKey .. NumItems(leaf.body) + 1
  BY DEF Descends
<1>2. leaves \in Seq(PageType) /\ Sound(leaf.body) /\ leaf \in PageType /\ leaf.right \in Nat
  <2>1. leaves \in Seq(PageType) /\ Sound(leaf.body)
    BY <1>1 DEF TreeInv, PagesSound
  <2>2. leaf \in PageType
    BY <1>1, <2>1, ElementOfSeq
  <2> QED
    BY <2>1, <2>2 DEF PageType
<1>3. e \in EntryType /\ e = Entry(key, Next1)
  BY NewEntryType DEF NewEntry
<1>4. /\ SplitSucceeds(leaf, e, at)
      /\ leaves' = [leaves EXCEPT ![p] = left]
      /\ pending' = <<right>>
      /\ misplaced' = (misplaced \/ SlotInHalf(leaf, e, at) = HighKey)
  BY <1>1, <1>3 DEF Split, SplitLeft, NewRight, NewPageId
<1>5. SplitCase(leaf, e, at)
  BY <1>1, <1>2, <1>3, <1>4 DEF SplitCase
<1>6. left \in PageType /\ right \in PageType
  <2>1. Sound(SplitLeft(leaf, e, at)) /\ Sound(Halves(leaf, e, at)[2])
    BY <1>5, SplitSound
  <2>2. n + 1 \in Nat
    BY <1>2
  <2> QED
    BY <1>2, <2>1, <2>2 DEF Sound, Leaf, PageType
<1> HIDE DEF left, right
<1>7. /\ leaves' \in Seq(PageType) /\ Len(leaves') = n /\ leaves'[p] = left
      /\ \A q \in 1 .. n : q # p => leaves'[q] = leaves[q]
  BY <1>1, <1>2, <1>4, <1>6, ExceptSeq
<1>8. /\ Pages' \in Seq(PageType) /\ Len(Pages') = n + 1
      /\ \A q \in 1 .. n : Pages'[q] = leaves'[q]
      /\ Pages'[n + 1] = right
  <2>1. Pages' = leaves' \o <<right>>
    BY <1>4 DEF Pages
  <2> QED
    BY <1>6, <1>7, <2>1, PageMore, SMTT(30)
<1> QED
  BY <1>4, <1>5, <1>6, <1>7, <1>8 DEF SplitEffect, left, right, e, at, leaf

\* Sound pages stay so when one is replaced and one added.
LEMMA SplitKeepsSound ==
    ASSUME TreeInv, NEW key \in Keys, NEW p \in 1 .. Len(leaves), SplitEffect(key, p)
    PROVE  PagesSound(leaves') /\ PagesSound(Pages')
<1> DEFINE n == Len(leaves)
           leaf == leaves[p]
           at == GetInsertionIdx(key, leaf)
           e == NewEntry(key)
           left == Leaf(SplitLeft(leaf, e, at), n + 1)
           right == Leaf(Halves(leaf, e, at)[2], leaf.right)
           Fine(pg) == Sound(pg.body) /\ NumItems(pg.body) >= 1 /\ pg.body.span >= 0
<1>1. SplitCase(leaf, e, at)
  BY DEF SplitEffect
<1>2. Fine(left) /\ Fine(right)
  <2>1. /\ left.body = SplitLeft(leaf, e, at) /\ right.body = Halves(leaf, e, at)[2]
        /\ Sound(right.body)
    BY <1>1, SplitSound DEF Leaf
  <2>2. NumItems(right.body) \in Nat
    BY <2>1, ItemsFacts DEF Sound
  <2>3. NumItems(right.body) >= FirstKey
    BY <1>1, <2>1, SplitSound
  <2>4. NumItems(right.body) >= 1
    BY <2>2, <2>3 DEF FirstKey
  <2> QED
    BY <1>1, <2>1, <2>4, SplitSound
<1>3. /\ leaves' \in Seq(PageType) /\ Len(leaves') = n
      /\ Pages' \in Seq(PageType) /\ Len(Pages') = n + 1
      /\ \A q \in 1 .. n : Pages'[q] = leaves'[q]
      /\ \A q \in 1 .. n : q # p => leaves'[q] = leaves[q]
      /\ leaves'[p] = left /\ Pages'[n + 1] = right
  BY DEF SplitEffect
<1>4. \A q \in 1 .. n : Fine(leaves[q])
  BY DEF TreeInv, PagesSound
<1>5. n \in Nat
  BY DEF TreeInv, PagesSound
<1> HIDE DEF Fine, left, right, n
<1>6. \A q \in 1 .. n : Fine(leaves'[q])
  BY <1>2, <1>3, <1>4
<1>7. \A q \in 1 .. n + 1 : Fine(Pages'[q])
  <2>1. \A q \in 1 .. n + 1 : q \in 1 .. n \/ q = n + 1
    BY <1>5
  <2> QED
    BY <1>2, <1>3, <1>6, <2>1
<1> QED
  BY <1>3, <1>6, <1>7 DEF Fine, PagesSound

\* The new page is linked in behind the old one, before it is written.
LEMMA SplitKeepsTree ==
    ASSUME TreeInv, NEW key \in Keys, Split(key)
    PROVE  TreeInv'
<1>1. CanInsert
  BY DEF Split
<1>2. PICK o, m, i : Descends(key, o, m, i)
  BY <1>1, Descent
<1>3. SplitEffect(key, o[i])
  BY <1>2, SplitIs
<1>4. /\ o[i] \in 1 .. Len(leaves) /\ Order(o, m, m + 1, leaves) /\ m \in Nat /\ i \in 1 .. m
      /\ m = Len(leaves)
  BY <1>2 DEF Descends
<1>5. PagesSound(leaves') /\ PagesSound(Pages')
  BY <1>3, <1>4, SplitKeepsSound
<1>6. Order(Behind(o, m, i), m + 1, m + 2, Pages')
  <2>1. /\ Len(Pages') = m + 1 /\ Pages'[o[i]].right = m + 1
        /\ Pages'[m + 1].right = leaves[o[i]].right
        /\ \A q \in 1 .. m : q # o[i] => Pages'[q].right = leaves[q].right
    BY <1>3, <1>4 DEF SplitEffect, Leaf
  <2> QED
    BY <1>4, <2>1, OrderMore
<1>7. /\ \E pg \in PageType : pending' = <<pg>>
      /\ root' = root /\ root = 1 /\ phase' = phase /\ phase = "build" /\ rows' = Append(rows, key)
  BY <1>1, <1>3 DEF SplitEffect, Split, CanInsert, TreeInv
<1>8. Linked'
  <2>1. m + 2 = (m + 1) + 1 /\ m + 2 # 1
    BY <1>4
  <2> QED
    BY <1>6, <2>1 DEF Linked
<1>9. rows' \in Seq(Keys) /\ leaves' # <<>>
  <2>1. rows \in Seq(Keys)
    BY DEF TreeInv
  <2>2. Len(leaves') # 0
    BY <1>3, <1>4 DEF SplitEffect
  <2> QED
    BY <1>7, <2>1, <2>2
<1>10. misplaced' \in BOOLEAN
  <2>1. misplaced' = (misplaced \/ SlotInHalf(leaves[o[i]], NewEntry(key), GetInsertionIdx(key, leaves[o[i]])) = HighKey)
    BY <1>3 DEF SplitEffect
  <2> QED
    BY <2>1
<1> QED
  BY <1>5, <1>7, <1>8, <1>9, <1>10 DEF TreeInv

\* The new page is the last of the file, as its link says.
LEMMA NewPageKeepsTree ==
    ASSUME TreeInv, WriteNewPage
    PROVE  TreeInv'
<1>1. /\ leaves' = leaves \o pending /\ pending' = <<>> /\ phase' = phase /\ pending # <<>>
      /\ root' = root /\ rows' = rows /\ misplaced' = misplaced /\ root = 1
  BY DEF WriteNewPage, TreeInv
<1>2. leaves' = Pages
  BY <1>1 DEF Pages
<1>3. Pages \in Seq(PageType) /\ PagesSound(Pages)
  BY DEF TreeInv, PagesSound
<1>4. Pages' = Pages
  BY <1>1, <1>2, <1>3, PageMore DEF Pages
<1>5. leaves' # <<>>
  <2>1. PICK pg \in PageType : pending = <<pg>>
    BY <1>1 DEF TreeInv
  <2>2. leaves \in Seq(PageType)
    BY DEF TreeInv, PagesSound
  <2>3. Len(Pages) = Len(leaves) + 1 /\ Len(leaves) \in Nat
    BY <2>1, <2>2, PageMore DEF Pages
  <2>4. Len(leaves') # 0
    BY <1>2, <2>3
  <2> QED
    BY <2>4
<1>6. Linked'
  BY <1>1, <1>4 DEF TreeInv, Linked
<1> QED
  BY <1>1, <1>2, <1>3, <1>4, <1>5, <1>6 DEF TreeInv

\* The structure is kept by every step.
LEMMA TreeStep ==
    ASSUME TreeInv, [TreeNext]_treeVars
    PROVE  TreeInv'
<1>1. CASE Build
  <2>1. CASE ReadOrCreateRoot
    BY <2>1, RootPageKeepsTree, MetaPageKeepsTree DEF ReadOrCreateRoot
  <2>2. ASSUME NEW k \in Keys, InsertEntry(k) PROVE TreeInv'
    BY <2>2, InsertKeepsTree
  <2>3. ASSUME NEW k \in Keys, Split(k) PROVE TreeInv'
    BY <2>3, SplitKeepsTree
  <2>4. ASSUME NEW k \in Keys, SplitAborts(k) PROVE TreeInv'
    BY <2>4, EndKeepsTree DEF SplitAborts, CanInsert
  <2>5. CASE WriteNewPage
    BY <2>5, NewPageKeepsTree
  <2>6. CASE BuildEnds
    BY <2>6, EndKeepsTree DEF BuildEnds
  <2>7. CASE Cut
    BY <2>7, EndKeepsTree DEF Cut
  <2> QED
    BY <1>1, <2>1, <2>2, <2>3, <2>4, <2>5, <2>6, <2>7 DEF Build
<1>2. CASE WriteRootPage
  BY <1>2, RootPageKeepsTree
<1>3. CASE WriteMetaPage
  BY <1>3, MetaPageKeepsTree
<1>4. CASE UNCHANGED treeVars
  BY <1>4 DEF treeVars, TreeInv, Linked, Pages
<1> QED
  BY <1>1, <1>2, <1>3, <1>4 DEF TreeNext
-----------------------------------------------------------------------------
\* The last written page of an order, and how many pages it has.
LEMMA LinkedFacts ==
    ASSUME TreeInv, NEW o, NEW m, NEW z, Order(o, m, z, Pages), phase # "cut" => z = m + 1
    PROVE  m <= Len(leaves) + 1
<1>1. m \in {Len(Pages), Len(Pages) + 1} /\ (m = Len(Pages) <=> z = m + 1) /\ m \in Nat
  BY DEF Order
<1>2. leaves \in Seq(PageType)
  BY DEF TreeInv, PagesSound
<1>3. CASE pending = <<>>
  <2>1. Pages = leaves
    BY <1>2, <1>3, PageMore DEF Pages
  <2> QED
    BY <1>1, <1>2, <2>1
<1>4. CASE pending # <<>>
  <2>1. phase = "build"
    BY <1>4 DEF TreeInv
  <2>2. PICK pg \in PageType : pending = <<pg>>
    BY <1>4 DEF TreeInv
  <2>3. Len(Pages) = Len(leaves) + 1
    BY <1>2, <2>2, PageMore DEF Pages
  <2> QED
    BY <1>1, <2>1, <2>3
<1> QED
  BY <1>3, <1>4

\* The invariant's types are those that the run checks.
LEMMA TreeInvTypes ==
    ASSUME TreeInv
    PROVE  TreeTypeOK
<1>1. ASSUME NEW p \in DOMAIN Pages
      PROVE  /\ Pages[p].body.span \in LocSize .. LeafSpan
             /\ LET items == ItemsOf(Pages[p].body)
                IN  Pages[p].body.span =
                       LeafSpan - SpaceOf([l \in DOMAIN items |-> Size(items[l])])
             /\ Pages[p].right \in 0 .. Len(leaves) + 1
  <2>1. Pages \in Seq(PageType) /\ Len(Pages) \in Nat /\ p \in 1 .. Len(Pages)
    BY DEF TreeInv, PagesSound
  <2>2. Sound(Pages[p].body) /\ Pages[p].body.span >= 0
    BY <2>1 DEF TreeInv, PagesSound
  <2>3. Pages[p].body.span \in LocSize .. LeafSpan
    BY <2>2, RoomForLoc
  <2>4. LET items == ItemsOf(Pages[p].body)
        IN  Pages[p].body.span =
               LeafSpan - SpaceOf([l \in DOMAIN items |-> Size(items[l])])
    BY <2>2 DEF Sound, SizesOf
  <2>5. PICK o, m, z : Order(o, m, z, Pages) /\ (phase # "cut" => z = m + 1)
    BY DEF TreeInv, Linked
  <2>6. m <= Len(leaves) + 1
    BY <2>5, LinkedFacts
  <2>7. m \in Nat /\ o \in [1 .. m -> 1 .. m] /\ p \in 1 .. m
    <3>1. m \in Nat /\ o \in [1 .. m -> 1 .. m] /\ m \in {Len(Pages), Len(Pages) + 1}
      BY <2>5 DEF Order
    <3> QED
      BY <2>1, <3>1
  <2>8. PICK i \in 1 .. m : o[i] = p
    BY <2>5, <2>7 DEF Order
  <2>9. Pages[p].right = IF i = m THEN 0 ELSE o[i + 1]
    <3>1. i # z
      BY <2>1, <2>5, <2>8 DEF Order
    <3> QED
      BY <2>5, <2>8, <3>1 DEF Order
  <2>10. Pages[p].right \in 0 .. m
    <3>1. CASE i = m
      BY <2>7, <2>9, <3>1
    <3>2. CASE i # m
      <4>1. i + 1 \in 1 .. m
        BY <2>7, <3>2
      <4>2. o[i + 1] \in 1 .. m
        BY <2>7, <4>1
      <4> QED
        BY <2>7, <2>9, <3>2, <4>2
    <3> QED
      BY <3>1, <3>2
  <2>11. Len(leaves) \in Nat
    BY DEF TreeInv, PagesSound
  <2> QED
    BY <2>3, <2>4, <2>6, <2>7, <2>10, <2>11
<1> QED
  BY <1>1 DEF TreeTypeOK, TreeInv

\* The chain of the pages, in the model's words.
LEMMA ChainIsOrder ==
    ASSUME TreeInv, root = 1, NEW o, NEW m, NEW z, Order(o, m, z, Pages), z # 1
    PROVE  /\ Chain = [i \in 1 .. z - 1 |-> o[i]]
           /\ m \in Nat /\ m >= 1 /\ z \in 2 .. m + 1
           /\ \A i \in 1 .. z - 1 : o[i] \in 1 .. Len(Pages)
<1>1. Pages \in Seq(PageType) /\ Len(Pages) \in Nat
  BY DEF TreeInv, PagesSound
<1>2. m \in Nat /\ m \in {Len(Pages), Len(Pages) + 1} /\ z \in 1 .. m + 1
  BY DEF Order
<1>3. m >= 1
  <2>1. leaves # <<>> /\ leaves \in Seq(PageType)
    BY DEF TreeInv, PagesSound
  <2>2. Len(leaves) # 0 /\ Len(leaves) \in Nat
    BY <2>1, EmptySeq
  <2>3. Len(Pages) >= Len(leaves)
    <3>1. CASE pending = <<>>
      BY <2>1, <2>2, <3>1, PageMore DEF Pages
    <3>2. CASE pending # <<>>
      <4>1. PICK pg \in PageType : pending = <<pg>>
        BY <3>2 DEF TreeInv
      <4>2. Len(Pages) = Len(leaves) + 1
        BY <2>1, <4>1, PageMore DEF Pages
      <4> QED
        BY <2>2, <4>2
    <3> QED
      BY <3>1, <3>2
  <2> QED
    BY <1>1, <1>2, <2>2, <2>3
<1>4. ChainOf(Pages, 1) = [i \in 1 .. z - 1 |-> o[i]]
  BY <1>1, <1>3, ChainIs
<1>5. Chain = ChainOf(Pages, 1)
  BY DEF Chain, ChainOf
<1>6. \A i \in 1 .. z - 1 : o[i] \in 1 .. Len(Pages)
  <2>1. \A i \in 1 .. z - 1 : i \in 1 .. m /\ i # z
    BY <1>2
  <2>2. \A i \in 1 .. m : o[i] <= Len(Pages) <=> i # z
    BY DEF Order
  <2>3. o \in [1 .. m -> 1 .. m]
    BY DEF Order
  <2>4. \A i \in 1 .. z - 1 : o[i] \in 1 .. m /\ o[i] <= Len(Pages)
    BY <2>1, <2>2, <2>3
  <2> QED
    BY <1>1, <1>2, <2>4
<1>7. z \in 2 .. m + 1
  BY <1>2
<1> QED
  BY <1>2, <1>3, <1>4, <1>5, <1>6, <1>7

\* All pages are in an order from the root on, so the chain covers the file.
LEMMA TreeInvCovers ==
    ASSUME TreeInv
    PROVE  ChainCoversFile
<1> SUFFICES ASSUME phase # "cut", root # 0
             PROVE  Len(Chain) = Len(Pages) /\ ToSet(Chain) = DOMAIN Pages
  BY DEF ChainCoversFile
<1>1. root = 1
  BY DEF TreeInv
<1>2. PICK o, m : Order(o, m, m + 1, Pages) /\ m + 1 # 1
  BY <1>1 DEF TreeInv, Linked
<1>3. /\ Chain = [i \in 1 .. m |-> o[i]] /\ m \in Nat
      /\ \A i \in 1 .. m : o[i] \in 1 .. Len(Pages)
  <2>1. m \in Nat
    BY <1>2 DEF Order
  <2>2. (m + 1) - 1 = m
    BY <2>1
  <2> QED
    BY <1>1, <1>2, <2>1, <2>2, ChainIsOrder
<1>4. m = Len(Pages) /\ \A p \in 1 .. m : \E i \in 1 .. m : o[i] = p
  BY <1>2 DEF Order
<1>5. Len(Chain) = m /\ DOMAIN Chain = 1 .. m /\ \A i \in 1 .. m : Chain[i] = o[i]
  BY <1>3
<1>6. ToSet(Chain) = 1 .. m
  <2>1. \A x : x \in ToSet(Chain) <=> \E i \in 1 .. m : x = o[i]
    BY <1>5 DEF ToSet
  <2>2. \A x : x \in ToSet(Chain) => x \in 1 .. m
    <3>1. \A i \in 1 .. m : o[i] \in 1 .. m
      BY <1>3, <1>4
    <3> QED
      BY <2>1, <3>1
  <2>3. \A x : x \in 1 .. m => x \in ToSet(Chain)
    BY <1>4, <2>1
  <2> QED
    BY <2>2, <2>3
<1>7. DOMAIN Pages = 1 .. Len(Pages)
  BY DEF TreeInv, PagesSound
<1> QED
  BY <1>4, <1>5, <1>6, <1>7
-----------------------------------------------------------------------------
\* Entries in the order of their keys, each of one row.
EntriesOf(E, R) ==
    /\ E \in Seq(EntryType)
    /\ \A x, y \in 1 .. Len(E) : x < y => E[x].key <= E[y].key /\ E[x].row # E[y].row
    /\ \A x \in 1 .. Len(E) : E[x].row \in 1 .. Len(R) /\ R[E[x].row] = E[x].key

\* An entry for every row.
AllOf(E, R) ==
    /\ Len(E) = Len(R)
    /\ \A r \in 1 .. Len(R) : \E x \in 1 .. Len(E) : E[x] = Entry(R[r], r)

\* Place x is between the lesser keys and the greater ones.
PlaceFor(E, x, key) ==
    /\ x \in 1 .. Len(E) + 1
    /\ \A y \in 1 .. x - 1 : E[y].key <= key
    /\ \A y \in x .. Len(E) : key <= E[y].key

\* The entry of the next row, put in its place, keeps all that.
LEMMA EntryMore ==
    ASSUME NEW R \in Seq(Keys), NEW E, EntriesOf(E, R), NEW key \in Keys, NEW x,
           PlaceFor(E, x, key)
    PROVE  LET more == InsertAt(E, x, Entry(key, Len(R) + 1))
           IN  /\ EntriesOf(more, Append(R, key))
               /\ AllOf(E, R) => AllOf(more, Append(R, key))
<1> DEFINE n == Len(E)
           r1 == Len(R) + 1
           e == Entry(key, r1)
           F == InsertAt(E, x, e)
           Q == Append(R, key)
           old(y) == IF y < x THEN y ELSE y - 1
<1>1. /\ E \in Seq(EntryType) /\ n \in Nat /\ Len(R) \in Nat /\ r1 \in Nat
      /\ x \in 1 .. n + 1
  BY DEF EntriesOf, PlaceFor
<1>2. e \in EntryType /\ e.key = key /\ e.row = r1
  BY <1>1 DEF EntryType, Entry
<1>3. /\ Len(Q) = r1 /\ Q[r1] = key
      /\ \A r \in 1 .. Len(R) : Q[r] = R[r] /\ r # r1 /\ r \in 1 .. r1
  BY AppendProperties
<1>4. /\ F \in Seq(EntryType) /\ Len(F) = n + 1
      /\ \A y \in 1 .. n + 1 : F[y] = IF y < x THEN E[y] ELSE IF y = x THEN e ELSE E[y - 1]
  <2> HIDE DEF e
  <2>1. e \in EntryType /\ x \in 1 .. Len(E) + 1
    BY <1>1, <1>2
  <2>2. /\ InsertAt(E, x, e) \in Seq(EntryType) /\ Len(InsertAt(E, x, e)) = Len(E) + 1
        /\ \A y \in 1 .. Len(E) + 1 : InsertAt(E, x, e)[y] =
               IF y < x THEN E[y] ELSE IF y = x THEN e ELSE E[y - 1]
    BY <1>1, <2>1, EntriesInsert, SMTT(30), ZenonT(30)
  <2> QED
    BY <2>2
<1>5. \A y, w \in 1 .. n : y < w => E[y].key <= E[w].key /\ E[y].row # E[w].row
  BY DEF EntriesOf
<1>6. \A y \in 1 .. n : E[y].row \in 1 .. Len(R) /\ R[E[y].row] = E[y].key
  BY DEF EntriesOf
<1>7. /\ \A y \in 1 .. n : y < x => E[y].key <= key
      /\ \A y \in 1 .. n : x <= y => key <= E[y].key
  BY <1>1 DEF PlaceFor
<1> HIDE DEF e, F, Q, r1, n
<1>8. \A y \in 1 .. n + 1 : y # x =>
          /\ old(y) \in 1 .. n /\ F[y] = E[old(y)]
          /\ (y < x => old(y) < x) /\ (x < y => x <= old(y))
  <2> SUFFICES ASSUME NEW y \in 1 .. n + 1, y # x
               PROVE  /\ old(y) \in 1 .. n /\ F[y] = E[old(y)]
                      /\ (y < x => old(y) < x) /\ (x < y => x <= old(y))
    OBVIOUS
  <2>1. CASE y < x
    BY <1>1, <1>4, <2>1
  <2>2. CASE ~(y < x)
    <3>1. y - 1 \in 1 .. n /\ x < y
      BY <1>1, <2>2
    <3> QED
      BY <1>1, <1>4, <2>2, <3>1
  <2> QED
    BY <2>1, <2>2
<1>9. F[x] = e
  BY <1>1, <1>4
<1>10. \A y, w \in 1 .. n + 1 : y < w /\ y # x /\ w # x => old(y) < old(w)
  BY <1>1
<1> HIDE DEF old
<1>11. ASSUME NEW y \in 1 .. n + 1, NEW w \in 1 .. n + 1, y < w
       PROVE  F[y].key <= F[w].key /\ F[y].row # F[w].row
  <2>1. CASE y # x /\ w # x
    <3>1. old(y) \in 1 .. n /\ old(w) \in 1 .. n /\ old(y) < old(w)
      BY <1>8, <1>10, <1>11, <2>1
    <3>2. E[old(y)].key <= E[old(w)].key /\ E[old(y)].row # E[old(w)].row
      BY <1>5, <3>1
    <3> QED
      BY <1>8, <2>1, <3>2
  <2>2. CASE y = x
    <3>1. w # x /\ x < w
      BY <1>1, <1>11, <2>2
    <3>2. old(w) \in 1 .. n /\ x <= old(w) /\ F[w] = E[old(w)]
      BY <1>8, <3>1
    <3>3. key <= E[old(w)].key /\ E[old(w)].row # r1
      BY <1>3, <1>6, <1>7, <3>2
    <3> QED
      BY <1>2, <1>9, <2>2, <3>2, <3>3
  <2>3. CASE w = x
    <3>1. y # x /\ y < x
      BY <1>1, <1>11, <2>3
    <3>2. old(y) \in 1 .. n /\ old(y) < x /\ F[y] = E[old(y)]
      BY <1>8, <3>1
    <3>3. E[old(y)].key <= key /\ E[old(y)].row # r1
      BY <1>3, <1>6, <1>7, <3>2
    <3> QED
      BY <1>2, <1>9, <2>3, <3>2, <3>3
  <2> QED
    BY <2>1, <2>2, <2>3
<1>12. ASSUME NEW y \in 1 .. n + 1
       PROVE  F[y].row \in 1 .. Len(Q) /\ Q[F[y].row] = F[y].key
  <2>1. CASE y = x
    <3>1. r1 \in 1 .. r1
      BY <1>1 DEF r1
    <3> QED
      BY <1>2, <1>3, <1>9, <2>1, <3>1
  <2>2. CASE y # x
    <3>1. old(y) \in 1 .. n /\ F[y] = E[old(y)]
      BY <1>8, <2>2
    <3>2. E[old(y)].row \in 1 .. Len(R) /\ R[E[old(y)].row] = E[old(y)].key
      BY <1>6, <3>1
    <3> QED
      BY <1>3, <3>1, <3>2
  <2> QED
    BY <2>1, <2>2
<1>13. EntriesOf(F, Q)
  BY <1>4, <1>11, <1>12 DEF EntriesOf
<1>14. ASSUME AllOf(E, R) PROVE AllOf(F, Q)
  <2>1. n = Len(R) /\ \A r \in 1 .. Len(R) : \E y \in 1 .. n : E[y] = Entry(R[r], r)
    BY <1>14 DEF AllOf, n
  <2>2. Len(F) = Len(Q)
    BY <1>3, <1>4, <2>1 DEF r1
  <2>3. \A y \in 1 .. n : \E w \in 1 .. n + 1 : F[w] = E[y]
    <3> SUFFICES ASSUME NEW y \in 1 .. n PROVE \E w \in 1 .. n + 1 : F[w] = E[y]
      OBVIOUS
    <3>1. CASE y < x
      <4>1. y \in 1 .. n + 1
        BY <1>1
      <4> QED
        BY <1>4, <3>1, <4>1
    <3>2. CASE ~(y < x)
      <4>1. y + 1 \in 1 .. n + 1 /\ ~(y + 1 < x) /\ y + 1 # x /\ (y + 1) - 1 = y
        BY <1>1, <3>2
      <4> QED
        BY <1>4, <4>1
    <3> QED
      BY <3>1, <3>2
  <2>4. \A r \in 1 .. Len(Q) : \E w \in 1 .. n + 1 : F[w] = Entry(Q[r], r)
    <3> SUFFICES ASSUME NEW r \in 1 .. Len(Q) PROVE \E w \in 1 .. n + 1 : F[w] = Entry(Q[r], r)
      OBVIOUS
    <3>1. CASE r = r1
      BY <1>1, <1>3, <1>9, <3>1 DEF e
    <3>2. CASE r # r1
      <4>1. r \in 1 .. Len(R)
        BY <1>1, <1>3, <3>2 DEF r1
      <4>2. PICK y \in 1 .. n : E[y] = Entry(R[r], r)
        BY <2>1, <4>1
      <4> QED
        BY <1>3, <2>3, <4>1, <4>2
    <3> QED
      BY <3>1, <3>2
  <2> QED
    BY <1>4, <2>2, <2>4 DEF AllOf
<1> QED
  BY <1>13, <1>14 DEF F, Q, e, r1

\* The entries at the front of what a split has left.
LEMMA EntriesLess ==
    ASSUME NEW R, NEW E, EntriesOf(E, R), NEW t \in Seq(EntryType), NEW c \in Seq(EntryType),
           E = t \o c
    PROVE  EntriesOf(t, R)
<1>1. /\ Len(t) \in Nat /\ Len(c) \in Nat /\ Len(E) = Len(t) + Len(c)
      /\ \A x \in 1 .. Len(t) : E[x] = t[x] /\ x \in 1 .. Len(E)
  <2>1. /\ Len(E) = Len(t) + Len(c)
        /\ \A x \in 1 .. Len(t) + Len(c) : E[x] = IF x <= Len(t) THEN t[x] ELSE c[x - Len(t)]
    BY ConcatProperties
  <2>2. \A x \in 1 .. Len(t) : x \in 1 .. Len(t) + Len(c) /\ x <= Len(t)
    OBVIOUS
  <2> QED
    BY <2>1, <2>2
<1>2. \A x, y \in 1 .. Len(t) : x < y => t[x].key <= t[y].key /\ t[x].row # t[y].row
  BY <1>1 DEF EntriesOf
<1>3. \A x \in 1 .. Len(t) : t[x].row \in 1 .. Len(R) /\ R[t[x].row] = t[x].key
  BY <1>1 DEF EntriesOf
<1> QED
  BY <1>2, <1>3 DEF EntriesOf
-----------------------------------------------------------------------------
\* The keys of the first n pages of an order, page by page.
KeyLists(pages, o, n) == [i \in 1 .. n |-> KeysOf(ItemsOf(pages[o[i]].body))]

\* The high key of a page is no greater than the keys of the pages behind it.
HighsFit(pages, o, n) ==
    \A i, j \in 1 .. n : i < j =>
        \A l \in FirstKey .. NumItems(pages[o[j]].body) :
            ItemsOf(pages[o[i]].body)[HighKey].key <= ItemsOf(pages[o[j]].body)[l].key

\* One page: its items, its high key and its keys.
PageItems(pg, items, keys) ==
    /\ items \in Seq(EntryType) /\ Len(items) >= 1 /\ Len(items) \in Nat
    /\ NumItems(pg.body) = Len(items)
    /\ items[HighKey] \in EntryType
    /\ keys \in Seq(EntryType) /\ Len(keys) = Len(items) - 1
    /\ \A l \in 1 .. Len(items) - 1 : keys[l] = items[l + 1]

\* A sound page with a high key is so.
LEMMA PageItemsAre ==
    ASSUME NEW pg, Sound(pg.body), NumItems(pg.body) >= 1
    PROVE  PageItems(pg, ItemsOf(pg.body), KeysOf(ItemsOf(pg.body)))
<1> DEFINE items == ItemsOf(pg.body)
<1>1. items \in Seq(EntryType) /\ Len(items) = NumItems(pg.body) /\ Len(items) \in Nat
  BY ItemsFacts DEF Sound
<1> HIDE DEF items
<1>2. Len(items) >= 1
  BY <1>1
<1>3. /\ items[HighKey] \in EntryType
      /\ KeysOf(items) \in Seq(EntryType) /\ Len(KeysOf(items)) = Len(items) - 1
      /\ \A l \in 1 .. Len(items) - 1 : KeysOf(items)[l] = items[l + 1]
  BY <1>1, <1>2, HighAndKeys
<1> QED
  BY <1>1, <1>2, <1>3 DEF PageItems, items

\* All of them.
LEMMA KeyListsAre ==
    ASSUME NEW pages, PagesSound(pages), NEW o, NEW n \in Nat,
           \A i \in 1 .. n : o[i] \in 1 .. Len(pages)
    PROVE  /\ KeyLists(pages, o, n) \in Seq(Seq(EntryType))
           /\ Len(KeyLists(pages, o, n)) = n
           /\ \A i \in 1 .. n :
                 /\ KeyLists(pages, o, n)[i] = KeysOf(ItemsOf(pages[o[i]].body))
                 /\ KeyLists(pages, o, n)[i] \in Seq(EntryType)
                 /\ PageItems(pages[o[i]], ItemsOf(pages[o[i]].body), KeyLists(pages, o, n)[i])
<1> DEFINE kl == KeyLists(pages, o, n)
<1>1. \A i \in 1 .. n : PageItems(pages[o[i]], ItemsOf(pages[o[i]].body),
                                  KeysOf(ItemsOf(pages[o[i]].body)))
  <2> SUFFICES ASSUME NEW i \in 1 .. n
               PROVE  PageItems(pages[o[i]], ItemsOf(pages[o[i]].body),
                                KeysOf(ItemsOf(pages[o[i]].body)))
    OBVIOUS
  <2>1. Sound(pages[o[i]].body) /\ NumItems(pages[o[i]].body) >= 1
    BY DEF PagesSound
  <2> QED
    BY <2>1, PageItemsAre
<1>2. \A i \in 1 .. n : KeysOf(ItemsOf(pages[o[i]].body)) \in Seq(EntryType)
  BY <1>1 DEF PageItems
<1>3. kl = [i \in 1 .. n |-> KeysOf(ItemsOf(pages[o[i]].body))]
  BY DEF KeyLists
<1> HIDE DEF kl
<1>4. kl \in Seq(Seq(EntryType)) /\ Len(kl) = n
  BY <1>2, <1>3
<1>5. \A i \in 1 .. n : kl[i] = KeysOf(ItemsOf(pages[o[i]].body))
  BY <1>3
<1>6. \A i \in 1 .. n : /\ kl[i] \in Seq(EntryType)
                        /\ PageItems(pages[o[i]], ItemsOf(pages[o[i]].body), kl[i])
  BY <1>1, <1>2, <1>5
<1> QED
  BY <1>4, <1>5, <1>6 DEF kl

\* The entries of the tree, in the model's words.
LEMMA EntriesAre ==
    ASSUME TreeInv, root = 1, NEW o, NEW m, NEW z, Order(o, m, z, Pages), z # 1
    PROVE  /\ Entries = FlattenSeq(KeyLists(Pages, o, z - 1))
           /\ z - 1 \in Nat /\ z - 1 >= 1 /\ m \in Nat /\ z \in 2 .. m + 1
           /\ Len(Chain) = z - 1 /\ \A i \in 1 .. z - 1 : Chain[i] = o[i]
           /\ \A i \in 1 .. z - 1 : o[i] \in 1 .. Len(Pages)
           /\ KeyLists(Pages, o, z - 1) \in Seq(Seq(EntryType))
<1>1. /\ Chain = [i \in 1 .. z - 1 |-> o[i]]
      /\ m \in Nat /\ m >= 1 /\ z \in 2 .. m + 1
      /\ \A i \in 1 .. z - 1 : o[i] \in 1 .. Len(Pages)
  BY ChainIsOrder
<1>2. z - 1 \in Nat /\ z - 1 >= 1
  BY <1>1
<1>3. Len(Chain) = z - 1 /\ DOMAIN Chain = 1 .. z - 1 /\ \A i \in 1 .. z - 1 : Chain[i] = o[i]
  BY <1>1, <1>2
<1>4. Entries = FlattenSeq([i \in DOMAIN Chain |-> KeysOf(ItemsOf(Pages[Chain[i]].body))])
  BY DEF Entries, KeysOf
<1>5. [i \in DOMAIN Chain |-> KeysOf(ItemsOf(Pages[Chain[i]].body))] = KeyLists(Pages, o, z - 1)
  BY <1>3 DEF KeyLists
<1>6. KeyLists(Pages, o, z - 1) \in Seq(Seq(EntryType))
  <2>1. PagesSound(Pages)
    BY DEF TreeInv
  <2> QED
    BY <1>1, <1>2, <2>1, KeyListsAre
<1> QED
  BY <1>1, <1>2, <1>3, <1>4, <1>5, <1>6

\* Without a root there are neither a chain nor entries.
LEMMA EntriesNone ==
    ASSUME TreeInv, root = 0
    PROVE  Entries = <<>> /\ Len(Chain) = 0
<1>1. PICK o, m, z : Order(o, m, z, Pages)
  BY DEF TreeInv, Linked
<1>2. Pages \in Seq(PageType)
  BY DEF TreeInv, PagesSound
<1>3. ChainOf(Pages, 0) = <<>>
  BY <1>1, <1>2, ChainIs
<1>4. Chain = <<>>
  BY <1>3 DEF Chain, ChainOf
<1>5. DOMAIN Chain = {} /\ Len(Chain) = 0
  BY <1>4
<1>6. Entries = FlattenSeq([i \in DOMAIN Chain |-> KeysOf(ItemsOf(Pages[Chain[i]].body))])
  BY DEF Entries, KeysOf
<1>7. [i \in DOMAIN Chain |-> KeysOf(ItemsOf(Pages[Chain[i]].body))] = <<>>
  BY <1>5
<1> QED
  BY <1>5, <1>6, <1>7, FlattenEmpty

-----------------------------------------------------------------------------
\* The invariant of the entries: in order, of one row each, and complete unless the
\* build was cut.
EntriesInv ==
    ~misplaced =>
        /\ EntriesOf(Entries, rows)
        /\ phase # "cut" => AllOf(Entries, rows)
        /\ HighsFit(Pages, Chain, Len(Chain))

\* The keys of the pages, flat: those of a page behind the keys of the pages before
\* it.
LEMMA SortedAcross ==
    ASSUME NEW ss \in Seq(Seq(EntryType)),
           \A x, y \in 1 .. Len(FlattenSeq(ss)) :
              x < y => FlattenSeq(ss)[x].key <= FlattenSeq(ss)[y].key
    PROVE  /\ \A i, j \in 1 .. Len(ss) : i < j =>
                 \A l \in 1 .. Len(ss[i]) : \A k \in 1 .. Len(ss[j]) : ss[i][l].key <= ss[j][k].key
           /\ \A i \in 1 .. Len(ss) : \A l, k \in 1 .. Len(ss[i]) :
                 l < k => ss[i][l].key <= ss[i][k].key
<1>e. \E off : /\ Offsets(ss, off)
               /\ Len(FlattenSeq(ss)) = off[Len(ss) + 1]
               /\ \A i \in 1 .. Len(ss) : \A l \in 1 .. Len(ss[i]) :
                     /\ off[i] + l \in 1 .. Len(FlattenSeq(ss))
                     /\ FlattenSeq(ss)[off[i] + l] = ss[i][l]
  BY FlattenOffsets, ZenonT(30)
<1> DEFINE E == FlattenSeq(ss)
           n == Len(ss)
<1>1. PICK off : /\ Offsets(ss, off) /\ Len(E) = off[n + 1]
                 /\ \A i \in 1 .. n : \A l \in 1 .. Len(ss[i]) :
                       /\ off[i] + l \in 1 .. Len(E) /\ E[off[i] + l] = ss[i][l]
  BY <1>e, ZenonT(30)
<1>2. /\ n \in Nat /\ \A i \in 1 .. n + 1 : off[i] \in Nat
      /\ \A i \in 1 .. n : off[i + 1] = off[i] + Len(ss[i])
      /\ \A i \in 1 .. n : Len(ss[i]) \in Nat
  <2>1. off \in [1 .. n + 1 -> Nat] /\ \A i \in 1 .. n : off[i + 1] = off[i] + Len(ss[i])
    BY <1>1 DEF Offsets
  <2>2. \A i \in 1 .. n : ss[i] \in Seq(EntryType)
    BY ElementOfSeq
  <2>3. n \in Nat
    OBVIOUS
  <2>4. \A i \in 1 .. n : Len(ss[i]) \in Nat
    BY <2>2
  <2> QED
    BY <2>1, <2>3, <2>4
<1>3. \A x, y \in 1 .. Len(E) : x < y => E[x].key <= E[y].key
  OBVIOUS
<1> HIDE DEF E, n
<1>4. ASSUME NEW i \in 1 .. n
      PROVE  \A j \in Nat : j >= i + 1 => (j <= n + 1 => off[i + 1] <= off[j])
  <2> DEFINE Good == {j \in Nat : j <= n + 1 => off[i + 1] <= off[j]}
  <2>1. i + 1 \in Good /\ i + 1 \in Nat
    <3>1. i + 1 \in 1 .. n + 1
      BY <1>2
    <3>2. off[i + 1] \in Nat
      BY <1>2, <3>1
    <3> QED
      BY <3>1, <3>2
  <2>2. ASSUME NEW j \in Nat, j >= i + 1, j \in Good PROVE j + 1 \in Good
    <3> SUFFICES ASSUME j + 1 <= n + 1 PROVE off[i + 1] <= off[j + 1]
      BY <2>2
    <3>1. j \in 1 .. n /\ off[i + 1] <= off[j] /\ j \in 1 .. n + 1 /\ i + 1 \in 1 .. n + 1
      BY <1>2, <2>2
    <3>2. off[j + 1] = off[j] + Len(ss[j]) /\ Len(ss[j]) \in Nat /\ off[j] \in Nat /\ off[i + 1] \in Nat
      BY <1>2, <3>1
    <3> QED
      BY <3>1, <3>2
  <2>3. \A j \in Nat : j >= i + 1 => j \in Good
    <3> HIDE DEF Good
    <3> QED
      BY <2>1, <2>2, InductionFrom
  <2> QED
    BY <2>3
<1>5. ASSUME NEW i \in 1 .. n, NEW j \in 1 .. n, i < j,
             NEW l \in 1 .. Len(ss[i]), NEW k \in 1 .. Len(ss[j])
      PROVE  ss[i][l].key <= ss[j][k].key
  <2>1. off[i + 1] <= off[j]
    <3>1. j \in Nat /\ j >= i + 1 /\ j <= n + 1
      BY <1>2, <1>5
    <3> QED
      BY <1>4, <3>1
  <2>2. off[i + 1] = off[i] + Len(ss[i]) /\ off[i] \in Nat /\ off[j] \in Nat /\ Len(ss[i]) \in Nat
    <3>1. i \in 1 .. n + 1 /\ j \in 1 .. n + 1
      BY <1>2
    <3> QED
      BY <1>2, <3>1
  <2>3. off[i] + l < off[j] + k
    <3>1. l \in Nat /\ l <= Len(ss[i]) /\ k \in Nat /\ k >= 1
      BY <1>2
    <3> QED
      BY <2>1, <2>2, <3>1, SMTT(30), ZenonT(30)
  <2> QED
    BY <1>1, <1>3, <2>3
<1>6. ASSUME NEW i \in 1 .. n, NEW l \in 1 .. Len(ss[i]), NEW k \in 1 .. Len(ss[i]), l < k
      PROVE  ss[i][l].key <= ss[i][k].key
  <2>1. off[i] \in Nat /\ l \in Nat /\ k \in Nat
    <3>1. i \in 1 .. n + 1
      BY <1>2
    <3> QED
      BY <1>2, <3>1
  <2>2. off[i] + l < off[i] + k
    BY <1>6, <2>1
  <2> QED
    BY <1>1, <1>3, <2>2
<1> QED
  BY <1>5, <1>6 DEF n
-----------------------------------------------------------------------------
\* What is known of the pages on a key's way.
LEMMA DescentLists ==
    ASSUME TreeInv, root = 1, NEW key, NEW o, NEW m, NEW i, Descends(key, o, m, i)
    PROVE  /\ Entries = FlattenSeq(KeyLists(leaves, o, m)) /\ Pages = leaves
           /\ m \in Nat /\ i \in 1 .. m /\ m = Len(leaves)
           /\ Len(Chain) = m /\ \A j \in 1 .. m : Chain[j] = o[j]
           /\ \A j \in 1 .. m : o[j] \in 1 .. Len(leaves)
           /\ KeyLists(leaves, o, m) \in Seq(Seq(EntryType)) /\ Len(KeyLists(leaves, o, m)) = m
           /\ \A j \in 1 .. m :
                 /\ KeyLists(leaves, o, m)[j] = KeysOf(ItemsOf(leaves[o[j]].body))
                 /\ PageItems(leaves[o[j]], ItemsOf(leaves[o[j]].body), KeyLists(leaves, o, m)[j])
                 /\ leaves[o[j]].right = IF j = m THEN 0 ELSE o[j + 1]
<1>1. Pages = leaves /\ Order(o, m, m + 1, Pages) /\ m \in Nat /\ i \in 1 .. m /\ m + 1 # 1
      /\ m = Len(leaves)
  <2>1. Pages = leaves /\ Order(o, m, m + 1, leaves) /\ m \in Nat /\ i \in 1 .. m
        /\ m = Len(leaves)
    BY DEF Descends
  <2> QED
    BY <2>1
<1>2. (m + 1) - 1 = m
  BY <1>1
<1>3. /\ Entries = FlattenSeq(KeyLists(leaves, o, m))
      /\ Len(Chain) = m /\ \A j \in 1 .. m : Chain[j] = o[j]
      /\ \A j \in 1 .. m : o[j] \in 1 .. Len(leaves)
  BY <1>1, <1>2, EntriesAre
<1>4. PagesSound(leaves)
  BY DEF TreeInv
<1>5. /\ KeyLists(leaves, o, m) \in Seq(Seq(EntryType)) /\ Len(KeyLists(leaves, o, m)) = m
      /\ \A j \in 1 .. m :
            /\ KeyLists(leaves, o, m)[j] = KeysOf(ItemsOf(leaves[o[j]].body))
            /\ PageItems(leaves[o[j]], ItemsOf(leaves[o[j]].body), KeyLists(leaves, o, m)[j])
  BY <1>1, <1>3, <1>4, KeyListsAre, SMTT(30), ZenonT(30)
<1>6. \A j \in 1 .. m : leaves[o[j]].right = IF j = m THEN 0 ELSE o[j + 1]
  <2>1. \A j \in 1 .. m : j # m + 1
    BY <1>1
  <2> QED
    BY <1>1, <2>1 DEF Order
<1> QED
  BY <1>1, <1>3, <1>5, <1>6

\* The entry of a key, put in its slot on the page to which the key has descended,
\* is put in its place among all the entries.
LEMMA PutEntry ==
    ASSUME TreeInv, root = 1, NEW key \in Keys,
           EntriesOf(Entries, rows), HighsFit(Pages, Chain, Len(Chain)),
           NEW o, NEW m, NEW i, Descends(key, o, m, i),
           NEW tt \in Seq(Seq(EntryType)), SameBut(KeyLists(leaves, o, m), tt, i),
           tt[i] = InsertAt(KeyLists(leaves, o, m)[i],
                            GetInsertionIdx(key, leaves[o[i]]) - 1, NewEntry(key))
    PROVE  \E x : /\ PlaceFor(Entries, x, key)
                  /\ FlattenSeq(tt) = InsertAt(Entries, x, NewEntry(key))
<1> DEFINE ss == KeyLists(leaves, o, m)
           at == GetInsertionIdx(key, leaves[o[i]])
           items == ItemsOf(leaves[o[i]].body)
           n == NumItems(leaves[o[i]].body)
           e == NewEntry(key)
           E == Entries
<1>1. /\ E = FlattenSeq(ss) /\ m \in Nat /\ i \in 1 .. m
      /\ Pages = leaves /\ Len(Chain) = m /\ \A j \in 1 .. m : Chain[j] = o[j]
      /\ \A j \in 1 .. m : o[j] \in 1 .. Len(leaves)
      /\ ss \in Seq(Seq(EntryType)) /\ Len(ss) = m
      /\ \A j \in 1 .. m : PageItems(leaves[o[j]], ItemsOf(leaves[o[j]].body), ss[j])
      /\ \A j \in 1 .. m : leaves[o[j]].right = IF j = m THEN 0 ELSE o[j + 1]
  BY DescentLists
<1>2. E \in Seq(EntryType) /\ \A x, y \in 1 .. Len(E) : x < y => E[x].key <= E[y].key
  BY DEF EntriesOf
<1>3. e \in EntryType /\ key \in Nat
  BY NewEntryType, TreeAssumption
<1>4. /\ items \in Seq(EntryType) /\ Len(items) = n /\ n \in Nat /\ n >= 1
      /\ ss[i] \in Seq(EntryType) /\ Len(ss[i]) = n - 1
      /\ \A l \in 1 .. n - 1 : ss[i][l] = items[l + 1]
      /\ items[1] \in EntryType
  <2>1. PageItems(leaves[o[i]], items, ss[i])
    BY <1>1
  <2> HIDE DEF items, n, ss
  <2> QED
    BY <2>1 DEF PageItems, n, HighKey
<1>5. /\ Idx(at, key, items, n, leaves[o[i]].right) /\ at \in 2 .. n + 1
      /\ \A j \in 1 .. i - 1 :
            /\ Idx(GetInsertionIdx(key, leaves[o[j]]), key, ItemsOf(leaves[o[j]].body),
                   NumItems(leaves[o[j]].body), leaves[o[j]].right)
            /\ GetInsertionIdx(key, leaves[o[j]]) = HighKey
  BY DEF Descends, FirstKey
<1>6. \A j, k \in 1 .. m : j < k =>
          \A l \in 1 .. Len(ss[k]) : ItemsOf(leaves[o[j]].body)[HighKey].key <= ss[k][l].key
  <2> SUFFICES ASSUME NEW j \in 1 .. m, NEW k \in 1 .. m, j < k, NEW l \in 1 .. Len(ss[k])
               PROVE  ItemsOf(leaves[o[j]].body)[HighKey].key <= ss[k][l].key
    OBVIOUS
  <2>1. PageItems(leaves[o[k]], ItemsOf(leaves[o[k]].body), ss[k])
    BY <1>1
  <2>2. l + 1 \in FirstKey .. NumItems(leaves[o[k]].body)
        /\ ss[k][l] = ItemsOf(leaves[o[k]].body)[l + 1]
    BY <2>1 DEF PageItems, FirstKey
  <2>3. HighsFit(leaves, Chain, m)
    BY <1>1
  <2>4. ItemsOf(leaves[Chain[j]].body)[HighKey].key <= ItemsOf(leaves[Chain[k]].body)[l + 1].key
    <3>1. l + 1 \in FirstKey .. NumItems(leaves[Chain[k]].body)
      BY <1>1, <2>2
    <3> QED
      BY <2>3, <3>1 DEF HighsFit
  <2> QED
    BY <1>1, <2>2, <2>4
<1>7. \A j \in 1 .. i - 1 : \A l \in 1 .. Len(ss[j]) : ss[j][l].key <= key
  <2> SUFFICES ASSUME NEW j \in 1 .. i - 1, NEW l \in 1 .. Len(ss[j]) PROVE ss[j][l].key <= key
    OBVIOUS
  <2>1. j \in 1 .. m
    BY <1>1
  <2>2. PageItems(leaves[o[j]], ItemsOf(leaves[o[j]].body), ss[j])
    BY <1>1, <2>1
  <2>3. l + 1 \in FirstKey .. NumItems(leaves[o[j]].body)
        /\ ss[j][l] = ItemsOf(leaves[o[j]].body)[l + 1]
        /\ ss[j][l] \in EntryType
    <3>1. ss[j] \in Seq(EntryType)
      BY <2>2 DEF PageItems
    <3>2. ss[j][l] \in EntryType
      BY <3>1, ElementOfSeq
    <3> QED
      BY <2>2, <3>2 DEF PageItems, FirstKey
  <2>4. key > ItemsOf(leaves[o[j]].body)[l + 1].key
    BY <1>5, <2>3 DEF Idx
  <2>5. ss[j][l].key \in Nat
    BY <2>3, KeyType
  <2> QED
    BY <1>3, <2>3, <2>4, <2>5
<1>8. Around(ss, tt, EntryType)
  BY <1>1, FlattenAround
<1>9. PICK a \in Seq(EntryType), c \in Seq(EntryType) :
         /\ FlattenSeq(ss) = (a \o ss[i]) \o c
         /\ FlattenSeq(tt) = (a \o tt[i]) \o c
         /\ From(a, ss, 1, i - 1) /\ From(c, ss, i + 1, Len(ss))
  <2>1. SameBut(ss, tt, i) /\ i \in 1 .. Len(ss)
    BY <1>1
  <2> HIDE DEF ss
  <2> QED
    BY <1>8, <2>1 DEF Around
<1>10. tt[i] = InsertAt(ss[i], at - 1, e)
  OBVIOUS
<1> DEFINE x == Len(a) + (at - 1)
           as == a \o ss[i]
<1> HIDE DEF ss, at, e, E, items, n
<1>11. a \o tt[i] = InsertAt(as, x, e)
  <2> DEFINE s == ss[i]
             k == at - 1
  <2>1. k \in 1 .. Len(s) + 1 /\ s \in Seq(EntryType) /\ tt[i] = InsertAt(s, k, e)
        /\ x = Len(a) + k /\ as = a \o s
    BY <1>4, <1>5, <1>10
  <2> HIDE DEF s, k, x, as
  <2>2. a \o InsertAt(s, k, e) = InsertAt(a \o s, Len(a) + k, e)
    BY <1>3, <2>1, InsertInSecond
  <2> QED
    BY <2>1, <2>2
<1>12. /\ as \in Seq(EntryType) /\ Len(as) = Len(a) + (n - 1) /\ Len(a) \in Nat
       /\ \A y \in 1 .. Len(a) + (n - 1) : as[y] = IF y <= Len(a) THEN a[y] ELSE ss[i][y - Len(a)]
  <2>1. /\ as \in Seq(EntryType) /\ Len(as) = Len(a) + Len(ss[i])
        /\ \A y \in 1 .. Len(a) + Len(ss[i]) :
              as[y] = IF y <= Len(a) THEN a[y] ELSE ss[i][y - Len(a)]
    BY <1>4, ConcatProperties, ZenonT(30)
  <2>2. Len(a) \in Nat
    OBVIOUS
  <2> HIDE DEF as
  <2> QED
    BY <1>4, <2>1, <2>2
<1> HIDE DEF as
<1>13. x \in 1 .. Len(as) + 1
  BY <1>4, <1>5, <1>12
<1>14. FlattenSeq(tt) = InsertAt(E, x, e)
  <2>1. InsertAt(as, x, e) \o c = InsertAt(as \o c, x, e)
    BY <1>3, <1>12, <1>13, InsertInFirst
  <2> QED
    BY <1>1, <1>9, <1>11, <2>1 DEF as
<1>15. /\ Len(E) = Len(as) + Len(c) /\ Len(c) \in Nat
       /\ \A y \in 1 .. Len(as) + Len(c) : E[y] = IF y <= Len(as) THEN as[y] ELSE c[y - Len(as)]
  <2>1. E = as \o c
    BY <1>1, <1>9 DEF as
  <2>2. /\ Len(as \o c) = Len(as) + Len(c)
        /\ \A y \in 1 .. Len(as) + Len(c) :
              (as \o c)[y] = IF y <= Len(as) THEN as[y] ELSE c[y - Len(as)]
    BY <1>12, ConcatProperties
  <2>3. Len(c) \in Nat
    OBVIOUS
  <2> QED
    BY <2>1, <2>2, <2>3, Zenon
<1>16. x \in 1 .. Len(E) + 1 /\ x \in Nat
  BY <1>12, <1>13, <1>15
<1> HIDE DEF x
<1>17. x = Len(a) + (at - 1)
  BY DEF x
<1>18. ASSUME NEW y \in 1 .. x - 1 PROVE E[y].key <= key
  <2>1. y \in 1 .. Len(as) + Len(c) /\ y <= Len(as) /\ y \in 1 .. Len(a) + (n - 1) /\ y \in Nat
    BY <1>12, <1>13, <1>15, <1>16, SMTT(30), ZenonT(30)
  <2>2. E[y] = IF y <= Len(a) THEN a[y] ELSE ss[i][y - Len(a)]
    BY <1>12, <1>15, <2>1
  <2>3. CASE y <= Len(a)
    <3>1. y \in 1 .. Len(a)
      BY <2>1, <2>3
    <3>2. PICK j \in 1 .. i - 1 : \E l \in 1 .. Len(ss[j]) : a[y] = ss[j][l]
      BY <1>9, <3>1 DEF From
    <3>3. PICK l \in 1 .. Len(ss[j]) : a[y] = ss[j][l]
      BY <3>2
    <3>4. ss[j][l].key <= key
      BY <1>7
    <3> QED
      BY <2>2, <2>3, <3>3, <3>4
  <2>4. CASE ~(y <= Len(a))
    <3> DEFINE l == y - Len(a)
    <3>1. l \in 1 .. n - 1 /\ l + 1 \in 2 .. n /\ l + 1 < at
      BY <1>4, <1>5, <1>12, <1>17, <2>1, <2>4, SMTT(30), ZenonT(30)
    <3>2. E[y] = items[l + 1]
      BY <1>4, <2>2, <2>4, <3>1
    <3> HIDE DEF l
    <3>3. key > items[l + 1].key
      BY <1>5, <3>1 DEF Idx, FirstKey
    <3>4. items[l + 1].key \in Nat
      <4>1. items[l + 1] \in EntryType
        BY <1>4, <3>1, ElementOfSeq
      <4> QED
        BY <4>1, KeyType
    <3> QED
      BY <1>3, <3>2, <3>3, <3>4
  <2> QED
    BY <2>3, <2>4
<1>19. ASSUME x <= Len(E) PROVE key <= E[x].key
  <2>1. CASE at <= n
    <3>1. at \in FirstKey .. n /\ key <= items[at].key
      BY <1>4, <1>5, <2>1 DEF Idx, FirstKey
    <3>a. at \in 2 .. n + 1 /\ n \in Nat /\ Len(as) = Len(a) + (n - 1) /\ Len(a) \in Nat
          /\ Len(c) \in Nat
      BY <1>4, <1>5, <1>12, <1>15
    <3>2. x \in 1 .. Len(a) + (n - 1) /\ ~(x <= Len(a)) /\ x - Len(a) = at - 1 /\ at - 1 \in 1 .. n - 1
          /\ (at - 1) + 1 = at /\ x <= Len(as) /\ x \in 1 .. Len(as) + Len(c)
      BY <1>17, <2>1, <3>a
    <3>3. E[x] = ss[i][at - 1]
      BY <1>12, <1>15, <3>2
    <3>4. E[x] = items[at]
      BY <1>4, <3>2, <3>3
    <3> QED
      BY <3>1, <3>4
  <2>2. CASE at = n + 1
    <3>1. x = Len(as) + 1 /\ x - Len(as) = 1 /\ ~(x <= Len(as)) /\ x \in 1 .. Len(as) + Len(c)
          /\ 1 \in 1 .. Len(c)
      BY <1>4, <1>12, <1>15, <1>16, <1>17, <1>19, <2>2
    <3>2. E[x] = c[1]
      BY <1>15, <3>1
    <3>3. PICK j \in i + 1 .. Len(ss) : \E l \in 1 .. Len(ss[j]) : c[1] = ss[j][l]
      BY <1>9, <3>1 DEF From
    <3>4. PICK l \in 1 .. Len(ss[j]) : c[1] = ss[j][l]
      BY <3>3
    <3>5. j \in 1 .. m /\ i < j /\ i # m /\ i + 1 \in 1 .. m
      <4>1. i \in 1 .. m /\ m \in Nat /\ Len(ss) = m
        BY <1>1
      <4>2. j \in i + 1 .. m
        BY <3>3, <4>1
      <4> QED
        BY <4>1, <4>2
    <3>6. leaves[o[i]].right # 0
      <4>1. o[i + 1] \in 1 .. Len(leaves)
        BY <1>1, <3>5
      <4>2. leaves[o[i]].right = o[i + 1]
        BY <1>1, <3>5
      <4>3. o[i + 1] # 0
        BY <4>1
      <4> QED
        BY <4>2, <4>3
    <3>7. key <= items[HighKey].key
      BY <1>5, <2>2, <3>6 DEF Idx
    <3>8. items[HighKey].key <= ss[j][l].key
      <4>1. \A k \in 1 .. m : i < k => \A f \in 1 .. Len(ss[k]) : items[HighKey].key <= ss[k][f].key
        BY <1>1, <1>6 DEF items
      <4> QED
        BY <3>5, <4>1
    <3>9. items[HighKey].key \in Nat /\ ss[j][l].key \in Nat
      <4>1. items[HighKey] \in EntryType
        BY <1>4 DEF HighKey
      <4>2. c[1] \in EntryType
        BY <3>1, ElementOfSeq
      <4> QED
        BY <3>4, <4>1, <4>2, KeyType
    <3> QED
      BY <1>3, <3>2, <3>4, <3>7, <3>8, <3>9, SMTT(30), ZenonT(30)
  <2> QED
    BY <1>4, <1>5, <2>1, <2>2
<1>20. ASSUME NEW y \in x .. Len(E) PROVE key <= E[y].key
  <2>1. x \in 1 .. Len(E) /\ y \in 1 .. Len(E) /\ x <= Len(E)
    BY <1>2, <1>16
  <2>2. key <= E[x].key
    BY <1>19, <2>1
  <2>3. E[x].key \in Nat /\ E[y].key \in Nat
    <3>1. E[x] \in EntryType /\ E[y] \in EntryType
      BY <1>2, <2>1, ElementOfSeq
    <3> QED
      BY <3>1, KeyType
  <2>4. CASE x = y
    BY <2>2, <2>4
  <2>5. CASE x # y
    <3>1. x < y
      BY <1>16, <2>1, <2>5
    <3>2. E[x].key <= E[y].key
      BY <1>2, <2>1, <3>1
    <3> QED
      BY <1>3, <2>2, <2>3, <3>2
  <2> QED
    BY <2>4, <2>5
<1>21. PlaceFor(E, x, key)
  BY <1>16, <1>18, <1>20 DEF PlaceFor
<1> QED
  BY <1>14, <1>21 DEF E, e
-----------------------------------------------------------------------------
\* Chain and entries of any pages: the model's are those of its pages, in this
\* state and in the next.
EntriesFrom(pages, start) ==
    LET chain == ChainOf(pages, start)
    IN  FlattenSeq([i \in DOMAIN chain |-> KeysOf(ItemsOf(pages[chain[i]].body))])

\* They are, by their definitions.
LEMMA FromPages ==
    /\ Chain = ChainOf(Pages, root) /\ Entries = EntriesFrom(Pages, root)
    /\ Chain' = ChainOf(Pages', root') /\ Entries' = EntriesFrom(Pages', root')
<1>1. Chain = ChainOf(Pages, root) /\ Chain' = ChainOf(Pages', root')
  BY DEF Chain, ChainOf
<1>2. Entries = FlattenSeq([i \in DOMAIN Chain |-> KeysOf(ItemsOf(Pages[Chain[i]].body))])
  BY DEF Entries, KeysOf
<1>3. Entries' = FlattenSeq([i \in DOMAIN Chain' |-> KeysOf(ItemsOf(Pages'[Chain'[i]].body))])
  BY DEF Entries, KeysOf
<1> QED
  BY <1>1, <1>2, <1>3 DEF EntriesFrom

\* They follow the order of the pages.
LEMMA FromOrder ==
    ASSUME NEW pages, PagesSound(pages), NEW o, NEW m, NEW z, Order(o, m, z, pages),
           m >= 1, z # 1
    PROVE  /\ EntriesFrom(pages, 1) = FlattenSeq(KeyLists(pages, o, z - 1))
           /\ z - 1 \in Nat /\ Len(ChainOf(pages, 1)) = z - 1
           /\ \A i \in 1 .. z - 1 : ChainOf(pages, 1)[i] = o[i]
           /\ \A i \in 1 .. z - 1 : o[i] \in 1 .. Len(pages)
           /\ HighsFit(pages, o, z - 1) =>
                  HighsFit(pages, ChainOf(pages, 1), Len(ChainOf(pages, 1)))
<1> DEFINE chain == ChainOf(pages, 1)
<1>1. m \in Nat /\ m \in {Len(pages), Len(pages) + 1} /\ z \in 1 .. m + 1
  BY DEF Order
<1>2. pages \in Seq(PageType) /\ Len(pages) \in Nat
  BY DEF PagesSound
<1>3. chain = [i \in 1 .. z - 1 |-> o[i]]
  BY <1>2, ChainIs
<1>4. z - 1 \in Nat
  BY <1>1
<1> HIDE DEF chain
<1>5. Len(chain) = z - 1 /\ DOMAIN chain = 1 .. z - 1 /\ \A i \in 1 .. z - 1 : chain[i] = o[i]
  BY <1>3, <1>4
<1>6. \A i \in 1 .. z - 1 : o[i] \in 1 .. Len(pages)
  <2>1. \A i \in 1 .. z - 1 : i \in 1 .. m /\ i # z
    BY <1>1
  <2>2. \A i \in 1 .. m : o[i] <= Len(pages) <=> i # z
    BY DEF Order
  <2>3. o \in [1 .. m -> 1 .. m]
    BY DEF Order
  <2>4. \A i \in 1 .. z - 1 : o[i] \in 1 .. m /\ o[i] <= Len(pages)
    BY <2>1, <2>2, <2>3
  <2> QED
    BY <1>1, <1>2, <2>4
<1>7. [i \in DOMAIN chain |-> KeysOf(ItemsOf(pages[chain[i]].body))] = KeyLists(pages, o, z - 1)
  BY <1>5 DEF KeyLists
<1>8. EntriesFrom(pages, 1) = FlattenSeq(KeyLists(pages, o, z - 1))
  BY <1>7 DEF EntriesFrom, chain
<1>9. ASSUME HighsFit(pages, o, z - 1) PROVE HighsFit(pages, chain, Len(chain))
  BY <1>5, <1>9 DEF HighsFit
<1> QED
  BY <1>4, <1>5, <1>6, <1>8, <1>9 DEF chain

\* What an insertion does to the entries of the whole tree.
Grows(key) ==
    \E x : PlaceFor(Entries, x, key) /\ Entries' = InsertAt(Entries, x, NewEntry(key))

\* An insertion puts its entry in its place, and no high key becomes too great.
LEMMA InsertGrows ==
    ASSUME TreeInv, EntriesInv, ~misplaced, NEW key \in Keys, InsertEntry(key)
    PROVE  Grows(key) /\ HighsFit(Pages', Chain', Len(Chain'))
<1>1. CanInsert /\ root = 1 /\ root' = 1
  BY DEF InsertEntry, CanInsert, TreeInv
<1>2. PICK o, m, i : Descends(key, o, m, i)
  BY <1>1, Descent
<1> DEFINE p == o[i]
           at == GetInsertionIdx(key, leaves[p])
           items == ItemsOf(leaves[p].body)
           n == NumItems(leaves[p].body)
           e == NewEntry(key)
           ss == KeyLists(leaves, o, m)
           tt == KeyLists(leaves', o, m)
<1>3. InsertEffect(key, p)
  BY <1>2, InsertionIs
<1>4. /\ Entries = FlattenSeq(ss) /\ m \in Nat /\ i \in 1 .. m /\ m = Len(leaves)
      /\ Pages = leaves /\ Len(Chain) = m /\ \A j \in 1 .. m : Chain[j] = o[j]
      /\ \A j \in 1 .. m : o[j] \in 1 .. Len(leaves)
      /\ \A j \in 1 .. m : /\ ss[j] = KeysOf(ItemsOf(leaves[o[j]].body))
                           /\ PageItems(leaves[o[j]], ItemsOf(leaves[o[j]].body), ss[j])
      /\ ss \in Seq(Seq(EntryType)) /\ Len(ss) = m
  BY <1>1, <1>2, DescentLists
<1>5. /\ Order(o, m, m + 1, leaves)
      /\ at \in FirstKey .. n + 1 /\ Idx(at, key, items, n, leaves[p].right)
      /\ \A j \in 1 .. i - 1 :
            /\ Idx(GetInsertionIdx(key, leaves[o[j]]), key, ItemsOf(leaves[o[j]].body),
                   NumItems(leaves[o[j]].body), leaves[o[j]].right)
            /\ GetInsertionIdx(key, leaves[o[j]]) = HighKey
  BY <1>2 DEF Descends
<1>6. TreeInv' /\ Pages' = leaves' /\ Len(leaves') = m
  BY <1>3, <1>4, InsertKeepsTree DEF InsertEffect
<1>7. PagesSound(leaves')
  BY <1>6 DEF TreeInv
<1>8. Order(o, m, m + 1, leaves')
  <2>1. Len(leaves') = Len(leaves) /\ \A q \in 1 .. Len(leaves) : leaves'[q].right = leaves[q].right
    BY <1>3 DEF InsertEffect
  <2> QED
    BY <1>5, <2>1, OrderSame
<1>9. m >= 1 /\ m + 1 # 1 /\ (m + 1) - 1 = m
  BY <1>4
<1>10. /\ EntriesFrom(leaves', 1) = FlattenSeq(tt)
       /\ HighsFit(leaves', o, m) => HighsFit(leaves', ChainOf(leaves', 1), Len(ChainOf(leaves', 1)))
  BY <1>7, <1>8, <1>9, FromOrder
<1>11. tt \in Seq(Seq(EntryType)) /\ Len(tt) = m
       /\ \A j \in 1 .. m : tt[j] = KeysOf(ItemsOf(leaves'[o[j]].body))
  BY <1>4, <1>6, <1>7, KeyListsAre
<1>12. /\ items \in Seq(EntryType) /\ Len(items) >= 1 /\ Len(items) = n /\ n \in Nat
  <2>1. PageItems(leaves[p], items, ss[i])
    BY <1>4
  <2> HIDE DEF ss, items, n
  <2> QED
    BY <2>1 DEF PageItems, n
<1>13. e \in EntryType /\ e.key = key /\ key \in Nat
  BY NewEntryType, TreeAssumption
<1>14. ItemsOf(leaves'[p].body) = InsertAt(items, at, e) /\ NumItems(leaves'[p].body) = n + 1
  BY <1>3 DEF InsertEffect
<1>15. \A j \in 1 .. m : j # i => o[j] # p /\ leaves'[o[j]] = leaves[o[j]]
  <2>1. \A j, k \in 1 .. m : o[j] = o[k] => j = k
    BY <1>5 DEF Order
  <2>2. \A q \in 1 .. Len(leaves) : q # p => leaves'[q] = leaves[q]
    BY <1>3 DEF InsertEffect
  <2> QED
    BY <1>4, <2>1, <2>2
<1>16. tt[i] = InsertAt(ss[i], at - 1, e)
  <2>1. ss[i] = KeysOf(items) /\ tt[i] = KeysOf(InsertAt(items, at, e))
    BY <1>4, <1>11, <1>14
  <2>2. at \in FirstKey .. Len(items) + 1
    BY <1>5, <1>12
  <2> HIDE DEF ss, tt, items, at, e, n
  <2>3. KeysOf(InsertAt(items, at, e)) = InsertAt(KeysOf(items), at - 1, e)
    BY <1>12, <1>13, <2>2, KeysOfInsert
  <2> QED
    BY <2>1, <2>3
<1>17. SameBut(ss, tt, i)
  <2>1. \A j \in 1 .. m : j # i => tt[j] = ss[j]
    <3>1. ASSUME NEW j \in 1 .. m, j # i PROVE tt[j] = ss[j]
      <4>1. tt[j] = KeysOf(ItemsOf(leaves'[o[j]].body)) /\ ss[j] = KeysOf(ItemsOf(leaves[o[j]].body))
        BY <1>4, <1>11
      <4>2. leaves'[o[j]] = leaves[o[j]]
        BY <1>15, <3>1
      <4> HIDE DEF ss, tt
      <4> QED
        BY <4>1, <4>2
    <3> QED
      BY <3>1
  <2> HIDE DEF ss, tt
  <2> QED
    BY <1>4, <1>11, <2>1 DEF SameBut
<1>18. EntriesOf(Entries, rows) /\ HighsFit(Pages, Chain, Len(Chain))
  BY DEF EntriesInv
<1>19. PICK x : PlaceFor(Entries, x, key) /\ FlattenSeq(tt) = InsertAt(Entries, x, e)
  BY <1>1, <1>2, <1>11, <1>16, <1>17, <1>18, PutEntry
<1>20. Entries' = FlattenSeq(tt) /\ Chain' = ChainOf(leaves', 1)
  BY <1>1, <1>6, <1>10, FromPages
<1>21. Grows(key)
  BY <1>19, <1>20 DEF Grows
<1>22. \A j, k \in 1 .. m : j < k =>
          \A l \in FirstKey .. NumItems(leaves[o[k]].body) :
              ItemsOf(leaves[o[j]].body)[HighKey].key <= ItemsOf(leaves[o[k]].body)[l].key
  BY <1>4, <1>18 DEF HighsFit
<1> HIDE DEF at, items, n, e, ss, tt, p
<1>23. \A j \in 1 .. m : ItemsOf(leaves'[o[j]].body)[HighKey] = ItemsOf(leaves[o[j]].body)[HighKey]
  <2>1. InsertAt(items, at, e)[HighKey] = items[HighKey]
    BY <1>5, <1>12, <1>13, KeysOfInsert
  <2>2. ItemsOf(leaves'[o[i]].body)[HighKey] = ItemsOf(leaves[o[i]].body)[HighKey]
    BY <1>14, <2>1 DEF items, p
  <2> QED
    BY <1>15, <2>2
<1>24. ASSUME NEW j \in 1 .. m, NEW k \in 1 .. m, j < k,
              NEW l \in FirstKey .. NumItems(leaves'[o[k]].body)
       PROVE  ItemsOf(leaves'[o[j]].body)[HighKey].key <= ItemsOf(leaves'[o[k]].body)[l].key
  <2>1. CASE k # i
    BY <1>15, <1>22, <1>23, <1>24, <2>1
  <2>2. CASE k = i
    <3>1. l \in 2 .. n + 1
      BY <1>14, <2>2 DEF FirstKey, p
    <3>2. /\ at \in 2 .. n + 1
          /\ ItemsOf(leaves'[o[k]].body)[l] = IF l < at THEN items[l] ELSE IF l = at THEN e ELSE items[l - 1]
      <4>1. at \in 2 .. n + 1
        BY <1>5 DEF FirstKey
      <4>2. at \in 1 .. Len(items) + 1 /\ l \in 1 .. Len(items) + 1
        BY <1>12, <3>1, <4>1
      <4>3. InsertAt(items, at, e)[l] = IF l < at THEN items[l] ELSE IF l = at THEN e ELSE items[l - 1]
        <5>1. \A f \in 1 .. Len(items) + 1 : InsertAt(items, at, e)[f] =
                  IF f < at THEN items[f] ELSE IF f = at THEN e ELSE items[f - 1]
          BY <1>12, <1>13, <4>2, EntriesInsert, ZenonT(30)
        <5> QED
          BY <4>2, <5>1
      <4> QED
        BY <1>14, <2>2, <4>1, <4>3 DEF p
    <3>3. \A f \in FirstKey .. n : ItemsOf(leaves[o[j]].body)[HighKey].key <= items[f].key
      BY <1>22, <1>24, <2>2 DEF items, n, p
    <3>4. CASE l < at
      <4>1. l \in FirstKey .. n
        BY <1>12, <3>1, <3>2, <3>4 DEF FirstKey
      <4> QED
        BY <1>23, <3>2, <3>3, <3>4, <4>1
    <3>5. CASE l > at
      <4>1. l - 1 \in FirstKey .. n /\ ~(l < at) /\ l # at
        BY <1>12, <3>1, <3>2, <3>5 DEF FirstKey
      <4> QED
        BY <1>23, <3>2, <3>3, <4>1
    <3>6. CASE l = at
      <4>1. ItemsOf(leaves'[o[k]].body)[l].key = key
        BY <1>13, <3>1, <3>2, <3>6
      <4>2. j \in 1 .. i - 1
        BY <1>4, <1>24, <2>2
      <4>3. key > ItemsOf(leaves[o[j]].body)[HighKey].key
        BY <1>5, <4>2 DEF Idx
      <4>4. ItemsOf(leaves[o[j]].body)[HighKey].key \in Nat
        <5>1. ItemsOf(leaves[o[j]].body)[HighKey] \in EntryType
          BY <1>4 DEF PageItems
        <5> QED
          BY <5>1, KeyType
      <4> QED
        BY <1>13, <1>23, <4>1, <4>3, <4>4
    <3> QED
      BY <3>1, <3>2, <3>4, <3>5, <3>6
  <2> QED
    BY <2>1, <2>2
<1>25. HighsFit(leaves', o, m)
  BY <1>24 DEF HighsFit
<1> QED
  BY <1>6, <1>10, <1>20, <1>21, <1>25
\* The high keys, against the lists of keys.
HighOf(pages, o, i) == ItemsOf(pages[o[i]].body)[HighKey]

\* HighsFit in terms of the lists of keys.
LEMMA HighsOfLists ==
    ASSUME NEW pages, PagesSound(pages), NEW o, NEW n \in Nat,
           \A i \in 1 .. n : o[i] \in 1 .. Len(pages)
    PROVE  HighsFit(pages, o, n) <=>
               \A i, j \in 1 .. n : i < j =>
                   \A l \in 1 .. Len(KeyLists(pages, o, n)[j]) :
                       HighOf(pages, o, i).key <= KeyLists(pages, o, n)[j][l].key
<1> DEFINE kl == KeyLists(pages, o, n)
           Items(j) == ItemsOf(pages[o[j]].body)
<1>1. \A j \in 1 .. n : PageItems(pages[o[j]], Items(j), kl[j])
  BY KeyListsAre
<1> HIDE DEF kl, Items
<1>2. \A j \in 1 .. n :
          /\ \A l \in 1 .. Len(kl[j]) : l + 1 \in FirstKey .. NumItems(pages[o[j]].body)
                                        /\ kl[j][l] = Items(j)[l + 1]
          /\ \A l \in FirstKey .. NumItems(pages[o[j]].body) :
                l - 1 \in 1 .. Len(kl[j]) /\ kl[j][l - 1] = Items(j)[l]
  <2> SUFFICES ASSUME NEW j \in 1 .. n
               PROVE  /\ \A l \in 1 .. Len(kl[j]) : l + 1 \in FirstKey .. NumItems(pages[o[j]].body)
                                        /\ kl[j][l] = Items(j)[l + 1]
                      /\ \A l \in FirstKey .. NumItems(pages[o[j]].body) :
                            l - 1 \in 1 .. Len(kl[j]) /\ kl[j][l - 1] = Items(j)[l]
    OBVIOUS
  <2>1. /\ Len(Items(j)) \in Nat /\ NumItems(pages[o[j]].body) = Len(Items(j))
        /\ Len(kl[j]) = Len(Items(j)) - 1
        /\ \A l \in 1 .. Len(Items(j)) - 1 : kl[j][l] = Items(j)[l + 1]
    BY <1>1 DEF PageItems
  <2>2. \A l \in FirstKey .. NumItems(pages[o[j]].body) :
           l - 1 \in 1 .. Len(Items(j)) - 1 /\ (l - 1) + 1 = l
    BY <2>1 DEF FirstKey
  <2>3. \A l \in FirstKey .. NumItems(pages[o[j]].body) :
           l - 1 \in 1 .. Len(kl[j]) /\ kl[j][l - 1] = Items(j)[l]
    <3> SUFFICES ASSUME NEW l \in FirstKey .. NumItems(pages[o[j]].body)
                 PROVE  l - 1 \in 1 .. Len(kl[j]) /\ kl[j][l - 1] = Items(j)[l]
      OBVIOUS
    <3>1. l - 1 \in 1 .. Len(Items(j)) - 1 /\ (l - 1) + 1 = l
      BY <2>2
    <3>2. kl[j][l - 1] = Items(j)[(l - 1) + 1]
      BY <2>1, <3>1
    <3> QED
      BY <2>1, <3>1, <3>2
  <2>4. \A l \in 1 .. Len(kl[j]) : l + 1 \in FirstKey .. NumItems(pages[o[j]].body)
                                   /\ kl[j][l] = Items(j)[l + 1]
    BY <2>1 DEF FirstKey
  <2> QED
    BY <2>3, <2>4
<1>3. ASSUME HighsFit(pages, o, n), NEW i \in 1 .. n, NEW j \in 1 .. n, i < j,
             NEW l \in 1 .. Len(kl[j])
      PROVE  HighOf(pages, o, i).key <= kl[j][l].key
  <2>1. l + 1 \in FirstKey .. NumItems(pages[o[j]].body) /\ kl[j][l] = Items(j)[l + 1]
    BY <1>2
  <2>2. HighOf(pages, o, i).key <= Items(j)[l + 1].key
    BY <1>3, <2>1 DEF HighsFit, HighOf, Items
  <2> QED
    BY <2>1, <2>2
<1>4. ASSUME \A i, j \in 1 .. n : i < j =>
                 \A l \in 1 .. Len(kl[j]) : HighOf(pages, o, i).key <= kl[j][l].key,
             NEW i \in 1 .. n, NEW j \in 1 .. n, i < j,
             NEW l \in FirstKey .. NumItems(pages[o[j]].body)
      PROVE  ItemsOf(pages[o[i]].body)[HighKey].key <= ItemsOf(pages[o[j]].body)[l].key
  <2>1. l - 1 \in 1 .. Len(kl[j]) /\ kl[j][l - 1] = Items(j)[l]
    BY <1>2
  <2>2. HighOf(pages, o, i).key <= kl[j][l - 1].key
    BY <1>4, <2>1
  <2> QED
    BY <2>1, <2>2 DEF HighOf, Items
<1>5. HighsFit(pages, o, n) => \A i, j \in 1 .. n : i < j =>
          \A l \in 1 .. Len(kl[j]) : HighOf(pages, o, i).key <= kl[j][l].key
  BY <1>3
<1>6. (\A i, j \in 1 .. n : i < j =>
          \A l \in 1 .. Len(kl[j]) : HighOf(pages, o, i).key <= kl[j][l].key)
      => HighsFit(pages, o, n)
  BY <1>4 DEF HighsFit
<1> QED
  BY <1>5, <1>6 DEF kl
\* High keys fit the keys behind them, each list with its high key.
HighsOver(h, ss, n) ==
    \A i, j \in 1 .. n : i < j => \A l \in 1 .. Len(ss[j]) : h[i].key <= ss[j][l].key

Sorted(E) == \A x, y \in 1 .. Len(E) : x < y => E[x].key <= E[y].key

\* List i is divided in two, with one entry more; the first half gets the first key
\* of the second for its high key, the second the first key of the old list.
LEMMA HighsDivide ==
    ASSUME NEW m \in Nat, NEW i \in 1 .. m, NEW e \in EntryType,
           NEW ss \in Seq(Seq(EntryType)), Len(ss) = m, Sorted(FlattenSeq(ss)),
           NEW uu \in Seq(Seq(EntryType)), Len(uu) = m + 1, Sorted(FlattenSeq(uu)),
           NEW h, NEW hh, HighsOver(h, ss, m),
           \A j \in 1 .. i - 1 : uu[j] = ss[j] /\ hh[j] = h[j] /\ h[j].key <= e.key,
           \A j \in i + 1 .. m : uu[j + 1] = ss[j] /\ hh[j + 1] = h[j],
           Len(ss[i]) >= 1, Len(uu[i + 1]) >= 1,
           hh[i] = uu[i + 1][1], hh[i + 1] = ss[i][1],
           \A k \in {i, i + 1} : \A l \in 1 .. Len(uu[k]) :
               uu[k][l] = e \/ \E f \in 1 .. Len(ss[i]) : uu[k][l] = ss[i][f]
    PROVE  HighsOver(hh, uu, m + 1)
<1>1. /\ \A j, k \in 1 .. m : j < k =>
            \A l \in 1 .. Len(ss[j]) : \A f \in 1 .. Len(ss[k]) : ss[j][l].key <= ss[k][f].key
  BY SortedAcross DEF Sorted
<1>2. /\ \A j, k \in 1 .. m + 1 : j < k =>
            \A l \in 1 .. Len(uu[j]) : \A f \in 1 .. Len(uu[k]) : uu[j][l].key <= uu[k][f].key
      /\ \A j \in 1 .. m + 1 : \A l, f \in 1 .. Len(uu[j]) : l < f => uu[j][l].key <= uu[j][f].key
  BY SortedAcross DEF Sorted
<1>3. \A j, k \in 1 .. m : j < k => \A l \in 1 .. Len(ss[k]) : h[j].key <= ss[k][l].key
  BY DEF HighsOver
<1>4. /\ \A j \in 1 .. m : ss[j] \in Seq(EntryType) /\ Len(ss[j]) \in Nat
      /\ \A j \in 1 .. m + 1 : uu[j] \in Seq(EntryType) /\ Len(uu[j]) \in Nat
  <2>1. \A j \in 1 .. m : ss[j] \in Seq(EntryType)
    BY ElementOfSeq
  <2>2. \A j \in 1 .. m + 1 : uu[j] \in Seq(EntryType)
    BY ElementOfSeq
  <2>3. \A s \in Seq(EntryType) : Len(s) \in Nat
    OBVIOUS
  <2> QED
    BY <2>1, <2>2, <2>3
<1> SUFFICES ASSUME NEW j \in 1 .. m + 1, NEW k \in 1 .. m + 1, j < k, NEW l \in 1 .. Len(uu[k])
             PROVE  hh[j].key <= uu[k][l].key
  BY DEF HighsOver
<1>5. i \in Nat /\ j \in Nat /\ k \in Nat /\ m \in Nat /\ i <= m /\ i >= 1 /\ j >= 1 /\ k <= m + 1
      /\ j < k
  OBVIOUS
<1>6. CASE j < i
  <2>a. \A x, y, z \in Nat : 1 <= x /\ x < y /\ y <= z => x \in 1 .. y - 1 /\ x \in 1 .. z
    BY SMTT(30), ZenonT(30)
  <2>1. j \in 1 .. i - 1 /\ j \in 1 .. m
    BY <1>5, <1>6, <2>a
  <2>2. hh[j] = h[j] /\ h[j].key <= e.key
    BY <2>1
  <2>3. CASE k < i
    <3>1. k \in 1 .. i - 1 /\ k \in 1 .. m
      BY <1>5, <2>3
    <3>2. uu[k] = ss[k]
      BY <3>1
    <3> QED
      BY <1>3, <2>1, <2>2, <3>1, <3>2
  <2>4. CASE k \in {i, i + 1}
    <3>1. CASE uu[k][l] = e
      BY <2>2, <3>1
    <3>2. CASE uu[k][l] # e
      <4>1. PICK f \in 1 .. Len(ss[i]) : uu[k][l] = ss[i][f]
        BY <2>4, <3>2
      <4> QED
        BY <1>3, <1>6, <2>1, <2>2, <4>1
    <3> QED
      BY <3>1, <3>2
  <2>5. CASE k > i + 1
    <3> DEFINE k1 == k - 1
    <3>1. k1 \in i + 1 .. m /\ k1 \in 1 .. m /\ j < k1 /\ k1 + 1 = k
      BY <1>5, <1>6, <2>5
    <3> HIDE DEF k1
    <3>2. uu[k] = ss[k1]
      BY <3>1
    <3>3. l \in 1 .. Len(ss[k1])
      BY <3>2
    <3> QED
      BY <1>3, <2>1, <2>2, <3>1, <3>2, <3>3
  <2> QED
    BY <1>5, <2>3, <2>4, <2>5
<1>7. CASE j = i
  <2>1. i + 1 \in 1 .. m + 1 /\ 1 \in 1 .. Len(uu[i + 1]) /\ hh[j] = uu[i + 1][1]
    BY <1>4, <1>5, <1>7
  <2>2. CASE k = i + 1
    <3>1. CASE l = 1
      <4>1. uu[k][l] = hh[j] /\ uu[k][l].key \in Nat
        <5>1. uu[k][l] \in EntryType
          BY <1>4, ElementOfSeq
        <5> QED
          BY <2>1, <2>2, <3>1, <5>1, KeyType
      <4>2. hh[j].key = uu[k][l].key
        BY <4>1, Zenon
      <4>3. \A x, y : x = y /\ y \in Nat => x <= y
        OBVIOUS
      <4> QED
        BY <4>1, <4>2, <4>3, Zenon
    <3>2. CASE l # 1
      <4>1. 1 < l
        BY <3>2
      <4> QED
        BY <1>2, <2>1, <2>2, <4>1
    <3> QED
      BY <3>1, <3>2
  <2>3. CASE k # i + 1
    <3>1. i + 1 < k
      BY <1>5, <1>7, <2>3
    <3> QED
      BY <1>2, <2>1, <3>1
  <2> QED
    BY <2>2, <2>3
<1>8. CASE j > i
  <2> DEFINE k1 == k - 1
  <2>1. k1 \in i + 1 .. m /\ k1 \in 1 .. m /\ k1 + 1 = k /\ i < k1
    BY <1>5, <1>8
  <2>a. j <= k1
    BY <1>5
  <2> HIDE DEF k1
  <2>2. uu[k] = ss[k1]
    BY <2>1
  <2>b. l \in 1 .. Len(ss[k1])
    BY <2>2
  <2>3. CASE j = i + 1
    <3>1. hh[j] = ss[i][1] /\ 1 \in 1 .. Len(ss[i])
      BY <1>4, <2>3
    <3> QED
      BY <1>1, <2>1, <2>2, <2>b, <3>1
  <2>4. CASE j # i + 1
    <3> DEFINE j1 == j - 1
    <3>1. j1 \in i + 1 .. m /\ j1 \in 1 .. m /\ j1 + 1 = j
      BY <1>5, <1>8, <2>4
    <3>2. j1 < k1
      BY <1>5, <2>1, <2>a
    <3> HIDE DEF j1
    <3>3. hh[j] = h[j1]
      BY <3>1
    <3> QED
      BY <1>3, <2>1, <2>2, <2>b, <3>1, <3>2, <3>3
  <2> QED
    BY <2>3, <2>4
<1> QED
  BY <1>5, <1>6, <1>7, <1>8
\* Both halves of a list with one entry more have nothing else.
LEMMA HalvesFrom ==
    ASSUME NEW s \in Seq(EntryType), NEW x \in 1 .. Len(s) + 1, NEW e \in EntryType,
           NEW a \in Seq(EntryType), NEW b \in Seq(EntryType), a \o b = InsertAt(s, x, e)
    PROVE  /\ \A l \in 1 .. Len(a) : a[l] = e \/ \E f \in 1 .. Len(s) : a[l] = s[f]
           /\ \A l \in 1 .. Len(b) : b[l] = e \/ \E f \in 1 .. Len(s) : b[l] = s[f]
<1> DEFINE t == InsertAt(s, x, e)
<1>1. /\ Len(t) = Len(s) + 1 /\ x \in Nat /\ Len(s) \in Nat
      /\ \A j \in 1 .. Len(s) + 1 : t[j] = IF j < x THEN s[j] ELSE IF j = x THEN e ELSE s[j - 1]
  BY EntriesInsert
<1>2. /\ Len(t) = Len(a) + Len(b) /\ Len(a) \in Nat /\ Len(b) \in Nat
      /\ \A j \in 1 .. Len(a) + Len(b) : t[j] = IF j <= Len(a) THEN a[j] ELSE b[j - Len(a)]
  BY ConcatProperties
<1> HIDE DEF t
<1>3. ASSUME NEW j \in 1 .. Len(t) PROVE t[j] = e \/ \E f \in 1 .. Len(s) : t[j] = s[f]
  <2>1. CASE j < x
    <3>1. j \in 1 .. Len(s)
      BY <1>1, <2>1
    <3> QED
      BY <1>1, <2>1, <3>1
  <2>2. CASE j = x
    BY <1>1, <2>2
  <2>3. CASE j > x
    <3>1. j - 1 \in 1 .. Len(s) /\ ~(j < x) /\ j # x
      BY <1>1, <2>3
    <3> QED
      BY <1>1, <3>1
  <2> QED
    BY <1>1, <2>1, <2>2, <2>3
<1>4. \A l \in 1 .. Len(a) : l \in 1 .. Len(t) /\ t[l] = a[l]
  BY <1>2
<1>5. \A l \in 1 .. Len(b) : Len(a) + l \in 1 .. Len(t) /\ t[Len(a) + l] = b[l]
  <2> SUFFICES ASSUME NEW l \in 1 .. Len(b)
               PROVE  Len(a) + l \in 1 .. Len(t) /\ t[Len(a) + l] = b[l]
    OBVIOUS
  <2>1. Len(a) + l \in 1 .. Len(a) + Len(b) /\ ~(Len(a) + l <= Len(a)) /\ (Len(a) + l) - Len(a) = l
    BY <1>2
  <2> QED
    BY <1>2, <2>1
<1>6. \A l \in 1 .. Len(a) : a[l] = e \/ \E f \in 1 .. Len(s) : a[l] = s[f]
  BY <1>3, <1>4
<1>7. \A l \in 1 .. Len(b) : b[l] = e \/ \E f \in 1 .. Len(s) : b[l] = s[f]
  <2> SUFFICES ASSUME NEW l \in 1 .. Len(b)
               PROVE  b[l] = e \/ \E f \in 1 .. Len(s) : b[l] = s[f]
    OBVIOUS
  <2>1. Len(a) + l \in 1 .. Len(t) /\ t[Len(a) + l] = b[l]
    BY <1>5
  <2>2. t[Len(a) + l] = e \/ \E f \in 1 .. Len(s) : t[Len(a) + l] = s[f]
    BY <1>3, <2>1
  <2> QED
    BY <2>1, <2>2
<1> QED
  BY <1>6, <1>7

\* So does a split that finds a slot among the keys; its high keys are first keys of what
\* lies behind them.
LEMMA SplitGrows ==
    ASSUME TreeInv, EntriesInv, ~misplaced', NEW key \in Keys, Split(key)
    PROVE  Grows(key) /\ ~misplaced /\ HighsFit(Pages', Chain', Len(Chain'))
<1>1. CanInsert /\ root = 1 /\ root' = 1 /\ rows' = Append(rows, key) /\ rows \in Seq(Keys)
  BY DEF Split, CanInsert, TreeInv
<1>2. PICK o, m, i : Descends(key, o, m, i)
  BY <1>1, Descent
<1> DEFINE p == o[i]
           leaf == leaves[p]
           at == GetInsertionIdx(key, leaf)
           items == ItemsOf(leaf.body)
           n == NumItems(leaf.body)
           e == NewEntry(key)
           q == Behind(o, m, i)
           left == ItemsOf(SplitLeft(leaf, e, at))
           right == ItemsOf(Halves(leaf, e, at)[2])
           ss == KeyLists(leaves, o, m)
           uu == KeyLists(Pages', q, m + 1)
<1>3. SplitEffect(key, p)
  BY <1>2, SplitIs
<1>4. /\ Entries = FlattenSeq(ss) /\ m \in Nat /\ i \in 1 .. m /\ m = Len(leaves)
      /\ Pages = leaves /\ Len(Chain) = m /\ \A j \in 1 .. m : Chain[j] = o[j]
      /\ \A j \in 1 .. m : o[j] \in 1 .. Len(leaves)
      /\ \A j \in 1 .. m : /\ ss[j] = KeysOf(ItemsOf(leaves[o[j]].body))
                           /\ PageItems(leaves[o[j]], ItemsOf(leaves[o[j]].body), ss[j])
      /\ ss \in Seq(Seq(EntryType)) /\ Len(ss) = m
  BY <1>1, <1>2, DescentLists
<1>5. /\ Order(o, m, m + 1, leaves)
      /\ at \in FirstKey .. n + 1 /\ Idx(at, key, items, n, leaf.right)
      /\ \A j \in 1 .. i - 1 :
            /\ Idx(GetInsertionIdx(key, leaves[o[j]]), key, ItemsOf(leaves[o[j]].body),
                   NumItems(leaves[o[j]].body), leaves[o[j]].right)
            /\ GetInsertionIdx(key, leaves[o[j]]) = HighKey
  BY <1>2 DEF Descends
<1>6. /\ SplitCase(leaf, e, at) /\ Len(leaves') = m /\ Len(Pages') = m + 1
      /\ ~misplaced /\ SlotInHalf(leaf, e, at) # HighKey
      /\ Pages'[p] = Leaf(SplitLeft(leaf, e, at), m + 1)
      /\ Pages'[m + 1] = Leaf(Halves(leaf, e, at)[2], leaf.right)
      /\ \A r \in 1 .. m : r # p => Pages'[r] = leaves[r]
  <2>1. p \in 1 .. m
    BY <1>4
  <2> QED
    BY <1>3, <1>4, <2>1 DEF SplitEffect
<1>7. PagesSound(Pages')
  BY <1>3, <1>4, SplitKeepsSound
<1>8. Order(q, m + 1, m + 2, Pages')
  <2>1. /\ Pages'[o[i]].right = m + 1
        /\ Pages'[m + 1].right = leaves[o[i]].right
        /\ \A r \in 1 .. m : r # o[i] => Pages'[r].right = leaves[r].right
    BY <1>6 DEF Leaf
  <2> QED
    BY <1>4, <1>5, <1>6, <2>1, OrderMore, ZenonT(30)
<1>9. m + 1 \in Nat /\ m + 1 >= 1 /\ m + 2 # 1 /\ (m + 2) - 1 = m + 1
  BY <1>4
<1>10. /\ EntriesFrom(Pages', 1) = FlattenSeq(uu)
       /\ \A j \in 1 .. m + 1 : q[j] \in 1 .. Len(Pages')
       /\ HighsFit(Pages', q, m + 1) => HighsFit(Pages', ChainOf(Pages', 1), Len(ChainOf(Pages', 1)))
  BY <1>7, <1>8, <1>9, FromOrder
<1>11. uu \in Seq(Seq(EntryType)) /\ Len(uu) = m + 1
       /\ \A j \in 1 .. m + 1 : /\ uu[j] = KeysOf(ItemsOf(Pages'[q[j]].body))
                                /\ uu[j] \in Seq(EntryType)
  BY <1>7, <1>9, <1>10, KeyListsAre
<1>12. Entries' = FlattenSeq(uu) /\ Chain' = ChainOf(Pages', 1)
  BY <1>1, <1>10, FromPages
<1>13. /\ items \in Seq(EntryType) /\ Len(items) = n /\ n \in Nat
       /\ ss[i] = KeysOf(items) /\ Len(ss[i]) = n - 1 /\ ss[i] \in Seq(EntryType)
       /\ \A l \in 1 .. n - 1 : ss[i][l] = items[l + 1]
  <2>1. PageItems(leaf, items, ss[i]) /\ ss[i] = KeysOf(items)
    BY <1>4
  <2> HIDE DEF ss, items, n, leaf
  <2> QED
    BY <2>1 DEF PageItems, n
<1>14. e \in EntryType /\ e.key = key /\ key \in Nat
  BY NewEntryType, TreeAssumption
<1>15. /\ \A j \in 1 .. i : q[j] = o[j]
       /\ q[i + 1] = m + 1
       /\ \A j \in i + 1 .. m : q[j + 1] = o[j]
  <2>1. \A j \in 1 .. i : j \in 1 .. m + 1 /\ j <= i
    BY <1>4
  <2>2. i + 1 \in 1 .. m + 1 /\ ~(i + 1 <= i)
    BY <1>4
  <2>3. \A j \in i + 1 .. m : j + 1 \in 1 .. m + 1 /\ ~(j + 1 <= i) /\ j + 1 # i + 1 /\ (j + 1) - 1 = j
    BY <1>4
  <2> QED
    BY <2>1, <2>2, <2>3 DEF Behind
<1> HIDE DEF q
<1>16. \A j \in 1 .. m : j # i => Pages'[o[j]] = leaves[o[j]]
  <2>1. \A j, k \in 1 .. m : o[j] = o[k] => j = k
    BY <1>5 DEF Order
  <2> QED
    BY <1>4, <1>6, <2>1
<1>17. /\ uu[i] = KeysOf(left) /\ uu[i + 1] = KeysOf(right)
       /\ Pages'[q[i]].body = SplitLeft(leaf, e, at)
       /\ Pages'[q[i + 1]].body = Halves(leaf, e, at)[2]
  <2>1. i \in 1 .. i /\ i \in 1 .. m + 1 /\ i + 1 \in 1 .. m + 1
    BY <1>4
  <2>2. /\ Pages'[q[i]].body = SplitLeft(leaf, e, at)
        /\ Pages'[q[i + 1]].body = Halves(leaf, e, at)[2]
    BY <1>6, <1>15, <2>1 DEF Leaf
  <2> QED
    BY <1>11, <2>1, <2>2
<1>18. /\ KeysOf(left) \o KeysOf(right) = InsertAt(KeysOf(items), at - 1, e)
       /\ left[HighKey] = right[FirstKey] /\ right[HighKey] = items[FirstKey]
  <2>1. e.key = key
    BY <1>14
  <2>2. /\ SplitCase(leaf, e, at) /\ SlotInHalf(leaf, e, at) # HighKey
        /\ Idx(at, e.key, ItemsOf(leaf.body), NumItems(leaf.body), leaf.right)
    BY <1>5, <1>6, <2>1
  <2> QED
    BY <2>2, SplitEntries, ZenonT(30)
<1>19. n >= 2
  <2>1. n >= FirstKey
    BY <1>6 DEF SplitCase, SplitSucceeds
  <2> QED
    BY <2>1 DEF FirstKey
<1>20. /\ \A j \in 1 .. i - 1 : uu[j] = ss[j]
                /\ HighOf(Pages', q, j) = HighOf(leaves, o, j)
       /\ \A j \in i + 1 .. m : uu[j + 1] = ss[j]
                /\ HighOf(Pages', q, j + 1) = HighOf(leaves, o, j)
  <2>1. ASSUME NEW j \in 1 .. i - 1
        PROVE  uu[j] = ss[j] /\ HighOf(Pages', q, j) = HighOf(leaves, o, j)
    <3>1. j \in 1 .. m /\ j # i /\ j \in 1 .. i /\ j \in 1 .. m + 1
      BY <1>4
    <3>2. Pages'[q[j]] = leaves[o[j]]
      BY <1>15, <1>16, <3>1
    <3>3. uu[j] = KeysOf(ItemsOf(Pages'[q[j]].body)) /\ ss[j] = KeysOf(ItemsOf(leaves[o[j]].body))
      BY <1>4, <1>11, <3>1
    <3> HIDE DEF uu, ss
    <3> QED
      BY <3>2, <3>3 DEF HighOf
  <2>2. ASSUME NEW j \in i + 1 .. m
        PROVE  uu[j + 1] = ss[j] /\ HighOf(Pages', q, j + 1) = HighOf(leaves, o, j)
    <3>1. j \in 1 .. m /\ j # i /\ j + 1 \in 1 .. m + 1
      BY <1>4
    <3>2. Pages'[q[j + 1]] = leaves[o[j]]
      BY <1>15, <1>16, <3>1
    <3>3. uu[j + 1] = KeysOf(ItemsOf(Pages'[q[j + 1]].body)) /\ ss[j] = KeysOf(ItemsOf(leaves[o[j]].body))
      BY <1>4, <1>11, <3>1
    <3> HIDE DEF uu, ss
    <3> QED
      BY <3>2, <3>3 DEF HighOf
  <2> QED
    BY <2>1, <2>2
<1> DEFINE put == InsertAt(ss[i], at - 1, e)
           tt == [ss EXCEPT ![i] = put]
<1>21. uu[i] \o uu[i + 1] = put
  BY <1>13, <1>17, <1>18
<1>22. at - 1 \in 1 .. Len(ss[i]) + 1 /\ i + 1 \in 1 .. m + 1 /\ i \in 1 .. m + 1
  <2>1. at \in 2 .. n + 1
    BY <1>5 DEF FirstKey
  <2> HIDE DEF at, ss, n
  <2> QED
    BY <1>4, <1>13, <2>1
<1>23. uu[i] \in Seq(EntryType) /\ uu[i + 1] \in Seq(EntryType)
  BY <1>11, <1>22
<1> HIDE DEF at, items, n, e, ss, uu, p, left, right, leaf
<1>24. put \in Seq(EntryType)
  BY <1>13, <1>14, <1>22, EntriesInsert
<1> HIDE DEF put
<1>25. /\ tt \in Seq(Seq(EntryType)) /\ Len(tt) = m /\ tt[i] = put
       /\ \A j \in 1 .. m : j # i => tt[j] = ss[j]
  BY <1>4, <1>24, ExceptSeq
<1> HIDE DEF tt
<1>26. SameBut(ss, tt, i)
  BY <1>4, <1>25 DEF SameBut
<1>27. EntriesOf(Entries, rows) /\ HighsFit(Pages, Chain, Len(Chain))
  BY <1>6 DEF EntriesInv
<1>28. PICK x : PlaceFor(Entries, x, key) /\ FlattenSeq(tt) = InsertAt(Entries, x, e)
  <2>1. SameBut(KeyLists(leaves, o, m), tt, i)
    BY <1>26 DEF ss
  <2>2. tt[i] = InsertAt(KeyLists(leaves, o, m)[i], GetInsertionIdx(key, leaves[o[i]]) - 1, NewEntry(key))
    BY <1>25 DEF put, ss, at, e, leaf, p
  <2> QED
    BY <1>1, <1>2, <1>25, <1>27, <2>1, <2>2, PutEntry DEF e
<1>29. Divided(tt, uu, i)
  <2>1. \A j \in 1 .. i - 1 : uu[j] = tt[j]
    <3>1. \A j \in 1 .. i - 1 : j \in 1 .. m /\ j # i
      BY <1>4
    <3> QED
      BY <1>20, <1>25, <3>1
  <2>2. \A j \in i + 1 .. m : uu[j + 1] = tt[j]
    <3>1. \A j \in i + 1 .. m : j \in 1 .. m /\ j # i
      BY <1>4
    <3> QED
      BY <1>20, <1>25, <3>1
  <2> QED
    BY <1>11, <1>21, <1>25, <2>1, <2>2 DEF Divided
<1>30. FlattenSeq(uu) = FlattenSeq(tt)
  <2>1. DivisionKeeps(tt, uu)
    BY <1>11, <1>25, FlattenDivided
  <2> QED
    BY <1>4, <1>25, <1>29, <2>1 DEF DivisionKeeps
<1>31. Grows(key)
  BY <1>12, <1>28, <1>30 DEF Grows, e
<1>32. Sorted(FlattenSeq(ss)) /\ Sorted(FlattenSeq(uu))
  <2>1. Sorted(FlattenSeq(ss))
    BY <1>4, <1>27 DEF EntriesOf, Sorted
  <2>2. EntriesOf(InsertAt(Entries, x, e), Append(rows, key))
    BY <1>1, <1>27, <1>28, EntryMore DEF e, NewEntry, Next1
  <2> QED
    BY <1>28, <1>30, <2>1, <2>2 DEF EntriesOf, Sorted
<1> DEFINE h == [j \in 1 .. m |-> HighOf(leaves, o, j)]
           hh == [j \in 1 .. m + 1 |-> HighOf(Pages', q, j)]
<1>33. HighsOver(h, ss, m)
  <2>1. HighsFit(leaves, o, m)
    BY <1>4, <1>27 DEF HighsFit
  <2>2. PagesSound(leaves)
    BY DEF TreeInv
  <2>3. \A j, k \in 1 .. m : j < k =>
           \A l \in 1 .. Len(ss[k]) : HighOf(leaves, o, j).key <= ss[k][l].key
    BY <1>4, <2>1, <2>2, HighsOfLists DEF ss
  <2> QED
    BY <2>3 DEF HighsOver
<1>34. \A j \in 1 .. i - 1 : h[j].key <= e.key
  <2> SUFFICES ASSUME NEW j \in 1 .. i - 1 PROVE h[j].key <= e.key
    OBVIOUS
  <2>1. j \in 1 .. m
    BY <1>4
  <2>2. h[j] = ItemsOf(leaves[o[j]].body)[HighKey] /\ h[j] \in EntryType
    <3>1. PageItems(leaves[o[j]], ItemsOf(leaves[o[j]].body), ss[j])
      BY <1>4, <2>1
    <3> QED
      BY <2>1, <3>1 DEF HighOf, PageItems
  <2>3. key > ItemsOf(leaves[o[j]].body)[HighKey].key
    BY <1>5 DEF Idx
  <2>4. h[j].key \in Nat
    BY <2>2, KeyType
  <2> HIDE DEF h
  <2> QED
    BY <1>14, <2>2, <2>3, <2>4
<1>35. hh[i] = uu[i + 1][1] /\ hh[i + 1] = ss[i][1] /\ Len(uu[i + 1]) >= 1 /\ Len(ss[i]) >= 1
  <2>1. hh[i] = left[HighKey] /\ hh[i + 1] = right[HighKey]
    BY <1>17, <1>22 DEF HighOf, left, right
  <2>2. Len(right) >= 2 /\ right \in Seq(EntryType) /\ Len(right) \in Nat
    <3>1. Sound(Halves(leaf, e, at)[2]) /\ NumItems(Halves(leaf, e, at)[2]) >= FirstKey
      BY <1>6, SplitSound
    <3> QED
      BY <3>1, ItemsFacts DEF right, Sound, FirstKey
  <2>3. Len(KeysOf(right)) = Len(right) - 1 /\ \A l \in 1 .. Len(right) - 1 : KeysOf(right)[l] = right[l + 1]
    <3>1. Len(right) >= 1
      BY <2>2
    <3> QED
      BY <2>2, <3>1, HighAndKeys
  <2>4. uu[i + 1][1] = right[FirstKey] /\ Len(uu[i + 1]) >= 1
    <3>1. 1 \in 1 .. Len(right) - 1
      BY <2>2
    <3> QED
      BY <1>17, <2>2, <2>3, <3>1 DEF FirstKey
  <2>5. ss[i][1] = items[FirstKey] /\ Len(ss[i]) >= 1
    <3>1. 1 \in 1 .. n - 1
      BY <1>13, <1>19
    <3> QED
      BY <1>13, <1>19, <3>1 DEF FirstKey
  <2> QED
    BY <1>18, <2>1, <2>4, <2>5
<1>36. \A k \in {i, i + 1} : \A l \in 1 .. Len(uu[k]) :
           uu[k][l] = e \/ \E f \in 1 .. Len(ss[i]) : uu[k][l] = ss[i][f]
  <2> DEFINE a == uu[i]
             b == uu[i + 1]
             s == ss[i]
             y == at - 1
  <2>1. /\ a \in Seq(EntryType) /\ b \in Seq(EntryType) /\ s \in Seq(EntryType)
        /\ y \in 1 .. Len(s) + 1 /\ a \o b = InsertAt(s, y, e)
    BY <1>13, <1>21, <1>22, <1>23 DEF put
  <2> HIDE DEF a, b, s, y
  <2>2. /\ \A l \in 1 .. Len(a) : a[l] = e \/ \E f \in 1 .. Len(s) : a[l] = s[f]
        /\ \A l \in 1 .. Len(b) : b[l] = e \/ \E f \in 1 .. Len(s) : b[l] = s[f]
    BY <1>14, <2>1, HalvesFrom, ZenonT(30)
  <2> QED
    BY <2>2 DEF a, b, s
<1>37. /\ \A j \in 1 .. i - 1 : uu[j] = ss[j] /\ hh[j] = h[j] /\ h[j].key <= e.key
       /\ \A j \in i + 1 .. m : uu[j + 1] = ss[j] /\ hh[j + 1] = h[j]
  <2>1. \A j \in 1 .. i - 1 : j \in 1 .. m /\ j \in 1 .. m + 1
    BY <1>4
  <2>2. \A j \in i + 1 .. m : j \in 1 .. m /\ j + 1 \in 1 .. m + 1
    BY <1>4
  <2> QED
    BY <1>20, <1>34, <2>1, <2>2
<1> HIDE DEF h, hh
<1>38. HighsOver(hh, uu, m + 1)
  BY <1>4, <1>11, <1>14, <1>32, <1>33, <1>35, <1>36, <1>37, HighsDivide
<1>39. HighsFit(Pages', q, m + 1)
  <2>1. \A j, k \in 1 .. m + 1 : j < k =>
           \A l \in 1 .. Len(uu[k]) : HighOf(Pages', q, j).key <= uu[k][l].key
    BY <1>38 DEF HighsOver, hh
  <2> QED
    BY <1>7, <1>9, <1>10, <2>1, HighsOfLists DEF uu
<1> QED
  BY <1>6, <1>10, <1>12, <1>31, <1>39
-----------------------------------------------------------------------------
\* No chain, no entries.
LEMMA FromNone ==
    ASSUME NEW pages \in Seq(PageType), NEW o, NEW m, NEW z, Order(o, m, z, pages)
    PROVE  EntriesFrom(pages, 0) = <<>> /\ Len(ChainOf(pages, 0)) = 0
<1>1. ChainOf(pages, 0) = <<>>
  BY ChainIs
<1> DEFINE lists == [i \in DOMAIN ChainOf(pages, 0) |->
                        KeysOf(ItemsOf(pages[ChainOf(pages, 0)[i]].body))]
<1>2. lists = <<>>
  BY <1>1
<1>3. EntriesFrom(pages, 0) = FlattenSeq(lists)
  BY DEF EntriesFrom
<1> HIDE DEF lists
<1> QED
  BY <1>1, <1>2, <1>3, FlattenEmpty

\* Nothing is in order, and all there is of no rows.
LEMMA NoEntries ==
    /\ EntriesOf(<<>>, <<>>) /\ AllOf(<<>>, <<>>)
    /\ \A pages, o : HighsFit(pages, o, 0) /\ HighsFit(pages, o, 1)
<1>1. EntriesOf(<<>>, <<>>)
  BY DEF EntriesOf
<1>2. AllOf(<<>>, <<>>)
  BY DEF AllOf
<1>3. \A pages, o : HighsFit(pages, o, 0) /\ HighsFit(pages, o, 1)
  BY DEF HighsFit
<1> QED
  BY <1>1, <1>2, <1>3

\* Before and after the root is written.
LEMMA RootHasNoEntries ==
    ASSUME NEW pages, pages = <<>> \/ pages = <<Leaf(NewBody, 0)>>
    PROVE  /\ EntriesFrom(pages, 0) = <<>> /\ Len(ChainOf(pages, 0)) = 0
           /\ pages # <<>> => EntriesFrom(pages, 1) = <<>> /\ Len(ChainOf(pages, 1)) = 1
<1>1. CASE pages = <<>>
  <2>1. <<>> \in [1 .. 0 -> 1 .. 0] /\ Len(pages) = 0 /\ pages \in Seq(PageType)
    BY <1>1
  <2>2. Order(<<>>, 0, 1, pages)
    BY <2>1 DEF Order
  <2> QED
    BY <1>1, <2>1, <2>2, FromNone
<1>2. CASE pages = <<Leaf(NewBody, 0)>>
  <2>1. PagesSound(pages) /\ pages \in Seq(PageType)
    BY <1>2, FirstPage DEF PagesSound
  <2>2. PICK o : Order(o, 1, 2, pages)
    BY <1>2, FirstPage
  <2>3. EntriesFrom(pages, 0) = <<>> /\ Len(ChainOf(pages, 0)) = 0
    BY <2>1, <2>2, FromNone
  <2>4. /\ EntriesFrom(pages, 1) = FlattenSeq(KeyLists(pages, o, 1)) /\ Len(ChainOf(pages, 1)) = 1
        /\ \A i \in 1 .. 1 : o[i] \in 1 .. Len(pages)
    <3> DEFINE m == 1
               z == 2
    <3>1. m >= 1 /\ z # 1 /\ z - 1 = 1 /\ Order(o, m, z, pages)
      BY <2>2
    <3> HIDE DEF m, z
    <3>2. /\ EntriesFrom(pages, 1) = FlattenSeq(KeyLists(pages, o, z - 1))
          /\ Len(ChainOf(pages, 1)) = z - 1
          /\ \A i \in 1 .. z - 1 : o[i] \in 1 .. Len(pages)
      BY <2>1, <3>1, FromOrder
    <3> QED
      BY <3>1, <3>2
  <2> DEFINE kl == KeyLists(pages, o, 1)
  <2>5. /\ kl \in Seq(Seq(EntryType)) /\ Len(kl) = 1
        /\ PageItems(pages[o[1]], ItemsOf(pages[o[1]].body), kl[1])
    <3>1. 1 \in Nat /\ 1 \in 1 .. 1
      OBVIOUS
    <3> QED
      BY <2>1, <2>4, <3>1, KeyListsAre
  <2>6. pages[o[1]].body = NewBody
    <3>1. o[1] = 1
      BY <2>2 DEF Order
    <3> QED
      BY <1>2, <3>1 DEF Leaf
  <2>7. NumItems(NewBody) = 1
    BY NewBodySound
  <2> HIDE DEF kl
  <2>8. kl[1] \in Seq(EntryType) /\ Len(kl[1]) = 0
    BY <2>5, <2>6, <2>7 DEF PageItems
  <2>9. PICK off : /\ Offsets(kl, off) /\ Len(FlattenSeq(kl)) = off[Len(kl) + 1]
    BY <2>5, FlattenOffsets
  <2>10. Len(FlattenSeq(kl)) = 0
    <3>1. off[1] = 0 /\ \A i \in 1 .. Len(kl) : off[i + 1] = off[i] + Len(kl[i])
      BY <2>9 DEF Offsets
    <3>2. off[1 + 1] = off[1] + Len(kl[1])
      BY <2>5, <3>1
    <3> QED
      BY <2>5, <2>8, <2>9, <3>1, <3>2
  <2>11. FlattenSeq(kl) \in Seq(EntryType)
    BY <2>5, FlattenType
  <2>12. FlattenSeq(kl) = <<>>
    BY <2>10, <2>11, EmptySeq
  <2> QED
    BY <2>3, <2>4, <2>12 DEF kl
<1> QED
  BY <1>1, <1>2

\* No index, no entries.
LEMMA InitEntriesInv ==
    ASSUME TreeInit
    PROVE  EntriesInv
<1>1. leaves = <<>> /\ root = 0 /\ pending = <<>> /\ rows = <<>>
  BY DEF TreeInit
<1>2. Pages = <<>>
  BY <1>1 DEF Pages
<1>3. Entries = <<>> /\ Len(Chain) = 0
  BY <1>1, <1>2, FromPages, RootHasNoEntries
<1> QED
  BY <1>1, <1>3, NoEntries DEF EntriesInv

\* The root is written without entries.
LEMMA RootKeepsEntries ==
    ASSUME TreeInv, EntriesInv, WriteRootPage \/ WriteMetaPage
    PROVE  EntriesInv'
<1>1. /\ root = 0 /\ pending = <<>> /\ pending' = <<>> /\ rows = <<>> /\ rows' = <<>>
      /\ root' \in {0, 1} /\ leaves' = <<Leaf(NewBody, 0)>>
  <2>1. CASE WriteRootPage
    BY <2>1 DEF WriteRootPage, TreeInv
  <2>2. CASE WriteMetaPage
    BY <2>2 DEF WriteMetaPage, TreeInv
  <2> QED
    BY <2>1, <2>2
<1>2. Pages' = leaves'
  <2>1. leaves' \in Seq(PageType)
    BY <1>1, FirstPage
  <2> QED
    BY <1>1, <2>1, PageMore DEF Pages
<1>3. leaves' # <<>>
  BY <1>1
<1>4. Entries' = <<>> /\ Len(Chain') \in {0, 1}
  BY <1>1, <1>2, <1>3, FromPages, RootHasNoEntries
<1>5. HighsFit(Pages', Chain', Len(Chain'))
  BY <1>4, NoEntries
<1> QED
  BY <1>1, <1>4, <1>5, NoEntries DEF EntriesInv

\* A step that puts the next row's entry in its place keeps the entries in order.
LEMMA GrowthKeepsEntries ==
    ASSUME TreeInv, EntriesInv, ~misplaced, NEW key \in Keys, Grows(key), CanInsert,
           rows' = Append(rows, key), HighsFit(Pages', Chain', Len(Chain'))
    PROVE  EntriesInv'
<1>1. rows \in Seq(Keys)
  BY DEF TreeInv
<1>2. EntriesOf(Entries, rows) /\ AllOf(Entries, rows)
  BY DEF EntriesInv, CanInsert
<1>3. PICK x : PlaceFor(Entries, x, key) /\ Entries' = InsertAt(Entries, x, Entry(key, Len(rows) + 1))
  BY DEF Grows, NewEntry, Next1
<1>4. EntriesOf(Entries', rows') /\ AllOf(Entries', rows')
  BY <1>1, <1>2, <1>3, EntryMore
<1> QED
  BY <1>4 DEF EntriesInv

\* The end of the build keeps the entries of the pages written, which in a cut split are
\* those before the missing page.
LEMMA EndKeepsEntries ==
    ASSUME TreeInv, EntriesInv, NEW how \in {"done", "cut"}, EndOfBuild(how), phase = "build",
           how = "done" => pending = <<>>
    PROVE  EntriesInv'
<1>1. /\ phase' = how /\ pending' = <<>> /\ leaves' = leaves /\ root' = root
      /\ rows' = rows /\ misplaced' = misplaced
  BY DEF EndOfBuild
<1>2. leaves \in Seq(PageType) /\ PagesSound(Pages) /\ PagesSound(leaves)
  BY DEF TreeInv, PagesSound
<1>3. Pages' = leaves
  BY <1>1, <1>2, PageMore DEF Pages
<1>4. CASE pending = <<>>
  <2>1. Pages = leaves
    BY <1>2, <1>4, PageMore DEF Pages
  <2>2. Chain' = Chain /\ Entries' = Entries
    BY <1>1, <1>3, <2>1, FromPages
  <2> QED
    BY <1>1, <1>3, <2>1, <2>2 DEF EntriesInv
<1>5. CASE pending # <<>>
  <2>1. how = "cut" /\ root = 1
    BY <1>5 DEF TreeInv
  <2>2. PICK pg \in PageType : pending = <<pg>>
    BY <1>5 DEF TreeInv
  <2>3. /\ Len(Pages) = Len(leaves) + 1 /\ Len(leaves) \in Nat
        /\ \A p \in 1 .. Len(leaves) : Pages[p] = leaves[p]
    BY <1>2, <2>2, PageMore DEF Pages
  <2>4. PICK o, m : Order(o, m, m + 1, Pages) /\ m + 1 # 1
    BY <2>1 DEF TreeInv, Linked
  <2>5. m = Len(leaves) + 1 /\ m \in Nat /\ m - 1 = Len(leaves) /\ m >= 2
    <3>1. m = Len(Pages)
      BY <2>4 DEF Order
    <3>2. Len(leaves) # 0
      BY <1>2, <2>1, EmptySeq DEF TreeInv
    <3> QED
      BY <2>3, <3>1, <3>2
  <2>6. PICK z \in 2 .. m : Order(o, m, z, leaves)
    <3>1. \A p \in 1 .. m - 1 : leaves[p].right = Pages[p].right
      BY <2>3, <2>5
    <3> QED
      BY <2>4, <2>5, <3>1, OrderLess
  <2>7. /\ Entries = FlattenSeq(KeyLists(Pages, o, m)) /\ Len(Chain) = m
        /\ \A i \in 1 .. m : Chain[i] = o[i] /\ o[i] \in 1 .. Len(Pages)
    <3>1. (m + 1) - 1 = m /\ m >= 1
      BY <2>5
    <3> QED
      BY <1>2, <2>1, <2>4, <3>1, FromOrder, FromPages
  <2>8. /\ Entries' = FlattenSeq(KeyLists(leaves, o, z - 1)) /\ z - 1 \in Nat
        /\ Chain' = ChainOf(leaves, 1)
        /\ \A i \in 1 .. z - 1 : o[i] \in 1 .. Len(leaves)
        /\ HighsFit(leaves, o, z - 1) => HighsFit(leaves, ChainOf(leaves, 1), Len(ChainOf(leaves, 1)))
    <3>1. z # 1 /\ m >= 1
      BY <2>5
    <3> QED
      BY <1>1, <1>2, <1>3, <2>1, <2>6, <3>1, FromOrder, FromPages
  <2> DEFINE ss == KeyLists(Pages, o, m)
             tt == KeyLists(leaves, o, z - 1)
  <2>9. ss \in Seq(Seq(EntryType)) /\ Len(ss) = m
        /\ \A i \in 1 .. m : ss[i] = KeysOf(ItemsOf(Pages[o[i]].body))
    BY <1>2, <2>5, <2>7, KeyListsAre
  <2>10. tt \in Seq(Seq(EntryType)) /\ Len(tt) = z - 1
         /\ \A i \in 1 .. z - 1 : tt[i] = KeysOf(ItemsOf(leaves[o[i]].body))
    BY <1>2, <2>8, KeyListsAre
  <2> HIDE DEF ss, tt
  <2>11. \A i \in 1 .. z - 1 : i \in 1 .. m /\ Pages[o[i]] = leaves[o[i]]
    BY <2>3, <2>5, <2>8
  <2>12. \A i \in 1 .. z - 1 : tt[i] = ss[i]
    <3> SUFFICES ASSUME NEW i \in 1 .. z - 1 PROVE tt[i] = ss[i]
      OBVIOUS
    <3>1. /\ tt[i] = KeysOf(ItemsOf(leaves[o[i]].body)) /\ Pages[o[i]] = leaves[o[i]]
          /\ ss[i] = KeysOf(ItemsOf(Pages[o[i]].body))
      BY <2>9, <2>10, <2>11
    <3> QED
      BY <3>1
  <2>13. Len(tt) <= Len(ss)
    BY <2>5, <2>9, <2>10
  <2>14. PICK c \in Seq(EntryType) : FlattenSeq(ss) = FlattenSeq(tt) \o c
    <3>1. Begins(ss, tt, EntryType)
      BY <2>9, <2>10, FlattenBegins
    <3> QED
      BY <2>10, <2>12, <2>13, <3>1 DEF Begins
  <2>15. FlattenSeq(tt) \in Seq(EntryType)
    BY <2>10, FlattenType
  <2>16. ASSUME ~misplaced PROVE EntriesOf(Entries', rows)
    <3>1. EntriesOf(FlattenSeq(ss), rows)
      BY <2>7, <2>16 DEF EntriesInv, ss
    <3>2. EntriesOf(FlattenSeq(tt), rows)
      BY <2>14, <2>15, <3>1, EntriesLess
    <3> QED
      BY <2>8, <3>2 DEF tt
  <2>17. ASSUME ~misplaced PROVE HighsFit(leaves, o, z - 1)
    <3>1. HighsFit(Pages, Chain, m)
      BY <2>7, <2>17 DEF EntriesInv
    <3>2. HighsFit(Pages, o, m)
      BY <2>7, <3>1 DEF HighsFit
    <3> QED
      BY <2>11, <3>2 DEF HighsFit
  <2> QED
    BY <1>1, <1>3, <2>1, <2>8, <2>16, <2>17 DEF EntriesInv
<1> QED
  BY <1>4, <1>5

\* The order of the entries is kept by every step.
LEMMA EntriesStep ==
    ASSUME TreeInv, EntriesInv, [TreeNext]_treeVars
    PROVE  EntriesInv'
<1>1. CASE Build
  <2>1. CASE ReadOrCreateRoot
    BY <2>1, RootKeepsEntries DEF ReadOrCreateRoot
  <2>2. ASSUME NEW k \in Keys, InsertEntry(k) PROVE EntriesInv'
    <3>1. CanInsert /\ rows' = Append(rows, k) /\ misplaced' = misplaced
      BY <2>2 DEF InsertEntry
    <3>2. CASE misplaced
      BY <3>1, <3>2 DEF EntriesInv
    <3>3. CASE ~misplaced
      BY <2>2, <3>1, <3>3, InsertGrows, GrowthKeepsEntries
    <3> QED
      BY <3>2, <3>3
  <2>3. ASSUME NEW k \in Keys, Split(k) PROVE EntriesInv'
    <3>1. CanInsert /\ rows' = Append(rows, k)
      BY <2>3 DEF Split
    <3>2. CASE misplaced'
      BY <3>2 DEF EntriesInv
    <3>3. CASE ~misplaced'
      BY <2>3, <3>1, <3>3, SplitGrows, GrowthKeepsEntries
    <3> QED
      BY <3>2, <3>3
  <2>4. ASSUME NEW k \in Keys, SplitAborts(k) PROVE EntriesInv'
    BY <2>4, EndKeepsEntries DEF SplitAborts, CanInsert
  <2>5. CASE WriteNewPage
    <3>1. /\ leaves' = Pages /\ pending' = <<>> /\ phase' = phase /\ root' = root
          /\ rows' = rows /\ misplaced' = misplaced
      BY <2>5 DEF WriteNewPage, Pages
    <3>2. Pages' = Pages
      <4>1. Pages \in Seq(PageType)
        BY DEF TreeInv, PagesSound
      <4>2. Pages' = Pages \o <<>>
        BY <3>1 DEF Pages
      <4> QED
        BY <4>1, <4>2, PageMore
    <3>3. Chain' = Chain /\ Entries' = Entries
      BY <3>1, <3>2, FromPages
    <3> QED
      BY <3>1, <3>2, <3>3 DEF EntriesInv
  <2>6. CASE BuildEnds
    BY <2>6, EndKeepsEntries DEF BuildEnds
  <2>7. CASE Cut
    BY <2>7, EndKeepsEntries DEF Cut
  <2> QED
    BY <1>1, <2>1, <2>2, <2>3, <2>4, <2>5, <2>6, <2>7 DEF Build
<1>2. CASE WriteRootPage
  BY <1>2, RootKeepsEntries
<1>3. CASE WriteMetaPage
  BY <1>3, RootKeepsEntries
<1>4. CASE UNCHANGED treeVars
  <2>1. /\ Pages' = Pages /\ root' = root /\ phase' = phase
        /\ rows' = rows /\ misplaced' = misplaced
    BY <1>4 DEF treeVars, Pages
  <2>2. Chain' = Chain /\ Entries' = Entries
    BY <2>1, FromPages
  <2> QED
    BY <2>1, <2>2 DEF EntriesInv
<1> QED
  BY <1>1, <1>2, <1>3, <1>4 DEF TreeNext

-----------------------------------------------------------------------------
\* A step of the build is none of a scan's, and a scan changes the tree only where
\* it creates the root.
LEMMA TreeSteps ==
    ASSUME [Next]_vars
    PROVE  [TreeNext]_treeVars
BY DEF Next, vars, treeVars, TreeNext, InsertRow, DeleteRow, IndexCursorInit,
       CreateRootForScan, BTreeFirst, GetNextForward, GetNextBackward

\* The tree's structure is that of a sound build in every state of the system.
LEMMA TreeStructure == Spec => []TreeInv
<1>1. Init => TreeInv
  BY InitTreeInv DEF Init
<1>2. TreeInv /\ [Next]_vars => TreeInv'
  BY TreeSteps, TreeStep
<1> QED
  BY <1>1, <1>2, PTL DEF Spec

\* The free span of every page is what its items leave over and never less than a
\* loc takes, and a page's link leads to a page or one further (PageAddItemInner,
\* BTreeIndexInsert): the type invariant of the tree.
THEOREM TreeTyped == Spec => []TreeTypeOK
<1>1. TreeInv => TreeTypeOK
  BY TreeInvTypes
<1> QED
  BY <1>1, TreeStructure, PTL

\* Every page of the file is in the chain from the root, once, in every state of a
\* build that is not cut short, between the two writes of a split too, so that a
\* scan to the right meets all of them.
THEOREM ChainCovers == Spec => []ChainCoversFile
<1>1. TreeInv => ChainCoversFile
  BY TreeInvCovers
<1> QED
  BY <1>1, TreeStructure, PTL

-----------------------------------------------------------------------------
\* Where a scan stands: on a page of the file, after the build has ended.
ScanStands ==
    /\ scan \in {"none", "first", "next", "end", "crash"}
    /\ scan # "none" => phase \in {"done", "cut"}
    /\ scan \in {"next", "crash"} => root = 1 /\ page \in DOMAIN leaves
    /\ CrashExplained

\* The build has ended when no step of it is left.
LEMMA BuildIsOver ==
    ASSUME Build
    PROVE  phase = "build"
BY SMTT(30), ZenonT(30) DEF Build, ReadOrCreateRoot, InsertEntry, Split, SplitAborts, CanInsert, WriteNewPage,
       BuildEnds, Cut

\* The links of a finished index lead to its pages.
LEMMA LinksInFile ==
    ASSUME TreeInv, root = 1, phase = "done", NEW p \in DOMAIN leaves
    PROVE  leaves[p].right \in {0} \cup DOMAIN leaves
<1>1. leaves \in Seq(PageType) /\ Len(leaves) \in Nat /\ DOMAIN leaves = 1 .. Len(leaves)
  BY DEF TreeInv, PagesSound
<1>2. pending = <<>>
  BY DEF TreeInv
<1>3. Pages = leaves
  BY <1>1, <1>2, PageMore DEF Pages
<1>4. PICK o, m : Order(o, m, m + 1, leaves)
  BY <1>3 DEF TreeInv, Linked
<1>5. m = Len(leaves) /\ o \in [1 .. m -> 1 .. m]
  BY <1>4 DEF Order
<1>6. PICK i \in 1 .. m : o[i] = p
  BY <1>1, <1>4, <1>5 DEF Order
<1>7. leaves[p].right = IF i = m THEN 0 ELSE o[i + 1]
  <2>1. i # m + 1
    BY <1>1, <1>5
  <2> QED
    BY <1>4, <1>6, <2>1 DEF Order
<1>8. i # m => o[i + 1] \in 1 .. m
  <2>1. m \in Nat
    BY <1>1, <1>5
  <2>2. i # m => i + 1 \in 1 .. m
    BY <2>1
  <2> QED
    BY <1>5, <2>2
<1> QED
  BY <1>1, <1>5, <1>7, <1>8, ZenonT(30)

\* A scan goes to pages of the file only, and crashes where a link leads out of it.
LEMMA ScanStandsStep ==
    ASSUME TreeInv, ScanStands, [Next]_vars
    PROVE  ScanStands'
<1> USE DEF ScanStands
<1>1. leaves \in Seq(PageType) /\ Len(leaves) \in Nat /\ DOMAIN leaves = 1 .. Len(leaves)
  BY DEF TreeInv, PagesSound
<1>2. CASE Build /\ UNCHANGED scanVars
  <2>1. scan = "none" /\ scan' = "none"
    BY <1>2, BuildIsOver DEF scanVars
  <2> QED
    BY <2>1 DEF CrashExplained
<1>3. ASSUME NEW k \in Keys, InsertRow(k) PROVE ScanStands'
  BY <1>3 DEF InsertRow, treeVars, CrashExplained
<1>4. ASSUME NEW r \in DOMAIN rows, DeleteRow(r) PROVE ScanStands'
  BY <1>4 DEF DeleteRow, treeVars, CrashExplained
<1>5. ASSUME NEW op \in Ops, NEW k \in Keys, IndexCursorInit(op, k) PROVE ScanStands'
  BY <1>5 DEF IndexCursorInit, Indexed, treeVars, CrashExplained
<1>6. CASE CreateRootForScan
  <2>1. scan = "first" /\ scan' = "first" /\ phase' = phase
    BY <1>6 DEF CreateRootForScan, WriteRootPage, WriteMetaPage, scanVars
  <2> QED
    BY <2>1 DEF CrashExplained
<1>7. CASE BTreeFirst
  <2>1. scan = "first" /\ scan' \in {"end", "next"} /\ UNCHANGED treeVars /\ root = 1
    BY <1>7 DEF BTreeFirst, EndScan, TreeInv
  <2>2. scan' = "next" => page' = root
    BY <1>7 DEF BTreeFirst, EndScan
  <2>3. 1 \in DOMAIN leaves
    <3>1. Len(leaves) # 0
      BY <1>1, <2>1, EmptySeq DEF TreeInv
    <3> QED
      BY <1>1, <3>1
  <2> QED
    BY <2>1, <2>2, <2>3 DEF CrashExplained, treeVars
<1>8. CASE GetNextForward
  <2>1. scan = "next" /\ UNCHANGED treeVars /\ root = 1 /\ page \in DOMAIN leaves
    BY <1>8 DEF GetNextForward
  <2>2. leaves[page].right \in 0 .. Len(leaves) + 1
    <3>1. TreeTypeOK /\ page \in 1 .. Len(leaves)
      BY <1>1, <2>1, TreeInvTypes
    <3>2. page \in DOMAIN Pages /\ Pages[page] = leaves[page]
      <4>1. CASE pending = <<>>
        BY <1>1, <3>1, <4>1, PageMore DEF Pages
      <4>2. CASE pending # <<>>
        <5>1. PICK new \in PageType : pending = <<new>>
          BY <4>2 DEF TreeInv
        <5>2. /\ Pages \in Seq(PageType) /\ Len(Pages) = Len(leaves) + 1
              /\ \A p \in 1 .. Len(leaves) : Pages[p] = leaves[p]
          BY <1>1, <5>1, PageMore DEF Pages
        <5> QED
          BY <1>1, <3>1, <5>2
      <4> QED
        BY <4>1, <4>2
    <3> QED
      BY <3>1, <3>2 DEF TreeTypeOK
  <2>3. CASE slot + 1 <= NumItems(leaves[page].body)
    <3>1. scan' = "next" /\ page' = page
      BY <1>8, <2>3 DEF GetNextForward
    <3> QED
      BY <2>1, <3>1 DEF treeVars, CrashExplained
  <2>4. CASE ~(slot + 1 <= NumItems(leaves[page].body)) /\ ~Written(NextPage(page))
    <3>1. scan' = "crash" /\ page' = page
      BY <1>8, <2>4 DEF GetNextForward
    <3>2. leaves[page].right \notin {0} \cup DOMAIN leaves
      BY <2>4 DEF Written, NextPage
    <3>3. leaves[page].right = Len(leaves) + 1
      BY <1>1, <2>2, <3>2
    <3>4. phase = "cut"
      BY <2>1, <3>2, LinksInFile
    <3> QED
      BY <2>1, <3>1, <3>3, <3>4 DEF treeVars, CrashExplained
  <2>5. CASE ~(slot + 1 <= NumItems(leaves[page].body)) /\ Written(NextPage(page))
    <3>1. \/ scan' = "end"
          \/ scan' = "next" /\ page' = NextPage(page) /\ NextPage(page) # 0
      BY <1>8, <2>1, <2>5 DEF GetNextForward, EndScan
    <3>2. NextPage(page) # 0 => NextPage(page) \in DOMAIN leaves
      BY <2>5 DEF Written
    <3> QED
      BY <2>1, <3>1, <3>2 DEF treeVars, CrashExplained
  <2> QED
    BY <2>3, <2>4, <2>5
<1>9. CASE GetNextBackward
  <2>1. scan = "next" /\ UNCHANGED treeVars /\ root = 1 /\ page \in DOMAIN leaves
        /\ page' = page /\ scan' \in {"next", "end"}
    BY <1>9 DEF GetNextBackward, EndScan
  <2> QED
    BY <2>1 DEF treeVars, CrashExplained
<1>10. CASE UNCHANGED vars
  BY <1>10 DEF vars, treeVars, scanVars, CrashExplained
<1> QED
  BY <1>2, <1>3, <1>4, <1>5, <1>6, <1>7, <1>8, <1>9, <1>10 DEF Next

\* A scan runs into a page that was never written only over an index whose build
\* was cut between the two writes of a split (BTreeGetNext reads the neighbour
\* without a look whether it is there): no link of a finished index leads out of
\* its file.
THEOREM CrashesExplained == Spec => []CrashExplained
<1>1. Init => ScanStands
  BY DEF Init, ScanStands, CrashExplained
<1>2. TreeInv /\ ScanStands /\ [Next]_vars => ScanStands'
  BY ScanStandsStep
<1>3. ScanStands => CrashExplained
  BY DEF ScanStands
<1> QED
  BY <1>1, <1>2, <1>3, TreeStructure, PTL DEF Spec
-----------------------------------------------------------------------------
\* The entries are in order and of one row each in every state of the system.
LEMMA EntriesInOrder == Spec => []EntriesInv
<1>1. Init => EntriesInv
  BY InitEntriesInv DEF Init
<1>2. TreeInv /\ EntriesInv /\ [Next]_vars => EntriesInv'
  BY TreeSteps, EntriesStep
<1> QED
  BY <1>1, <1>2, TreeStructure, PTL DEF Spec

\* As long as no split has stored its tuple in the high key slot, the keys along
\* the chain are in order, whatever splits have happened, in mid-split and after a
\* crash too; each entry is the entry of one row, and none is missing unless the
\* build was cut short.
THEOREM EntriesAreSound == Spec => []EntriesSound
<1>1. TreeInv /\ EntriesInv => EntriesSound
  <2> SUFFICES ASSUME TreeInv, EntriesInv, ~misplaced
               PROVE  /\ \A i, j \in DOMAIN Entries :
                           i < j => /\ Entries[i].key <= Entries[j].key
                                    /\ Entries[i].row # Entries[j].row
                      /\ \A i \in DOMAIN Entries :
                           /\ Entries[i].row \in DOMAIN rows
                           /\ rows[Entries[i].row] = Entries[i].key
                      /\ phase # "cut" => Len(Entries) = Len(rows)
    BY DEF EntriesSound
  <2>1. EntriesOf(Entries, rows) /\ (phase # "cut" => AllOf(Entries, rows))
    BY DEF EntriesInv
  <2>2. DOMAIN Entries = 1 .. Len(Entries)
    BY <2>1 DEF EntriesOf
  <2>3. DOMAIN rows = 1 .. Len(rows)
    BY DEF TreeInv
  <2> QED
    BY <2>1, <2>2, <2>3, ZenonT(30) DEF EntriesOf, AllOf
<1> QED
  BY <1>1, TreeStructure, EntriesInOrder, PTL

\* The comment at storage.c:1106 promises a place among the keys to every item that a
\* split takes: it comes true for every row of a build that is not cut short, unless
\* some split has found the high key slot for its insertion point.
THEOREM OnlyMisplacedLose == Spec => [](~misplaced => EveryRowIndexed)
<1>1. TreeInv /\ EntriesInv => (~misplaced => EveryRowIndexed)
  <2> SUFFICES ASSUME TreeInv, EntriesInv, ~misplaced, phase # "cut", NEW r \in DOMAIN rows
               PROVE  Entry(rows[r], r) \in ToSet(Entries)
    BY DEF EveryRowIndexed
  <2>1. EntriesOf(Entries, rows) /\ AllOf(Entries, rows)
    BY DEF EntriesInv
  <2>2. r \in 1 .. Len(rows)
    BY DEF TreeInv
  <2>3. PICK x \in 1 .. Len(Entries) : Entries[x] = Entry(rows[r], r)
    BY <2>1, <2>2 DEF AllOf
  <2>4. x \in DOMAIN Entries
    BY <2>1 DEF EntriesOf
  <2> QED
    BY <2>3, <2>4 DEF ToSet
<1> QED
  BY <1>1, TreeStructure, EntriesInOrder, PTL

\* An insertion or a split, which rewrites two pages, puts one entry into the
\* sequence of entries and leaves the others where they are.
THEOREM OneEntryMore == Spec => InsertsOneEntry
<1>1. ASSUME TreeInv, EntriesInv, [Next]_vars, rows' # rows, ~misplaced'
      PROVE  \E i \in 1 .. Len(Entries) + 1 :
                 Entries' = InsertAt(Entries, i, Entry(rows'[Next1], Next1))
  <2>1. [TreeNext]_treeVars
    BY <1>1, TreeSteps
  <2>2. PICK key \in Keys : InsertEntry(key) \/ Split(key)
    BY <1>1, <2>1 DEF TreeNext, treeVars, Build, ReadOrCreateRoot, WriteRootPage, WriteMetaPage,
                      SplitAborts, EndOfBuild, WriteNewPage, BuildEnds, Cut
  <2>3. Grows(key)
    <3>1. CASE InsertEntry(key)
      <4>1. ~misplaced
        BY <1>1, <3>1 DEF InsertEntry
      <4> QED
        BY <1>1, <3>1, <4>1, InsertGrows
    <3>2. CASE Split(key)
      BY <1>1, <3>2, SplitGrows
    <3> QED
      BY <2>2, <3>1, <3>2
  <2>4. PICK x : PlaceFor(Entries, x, key) /\ Entries' = InsertAt(Entries, x, NewEntry(key))
    BY <2>3 DEF Grows
  <2>5. x \in 1 .. Len(Entries) + 1
    BY <2>4 DEF PlaceFor
  <2>6. rows'[Next1] = key
    <3>1. rows' = Append(rows, key) /\ rows \in Seq(Keys)
      BY <1>1, <2>2 DEF InsertEntry, Split, TreeInv
    <3> QED
      BY <3>1, AppendProperties DEF Next1
  <2> QED
    BY <2>4, <2>5, <2>6 DEF NewEntry
<1>2. TreeInv /\ EntriesInv /\ [Next]_vars =>
          [rows' # rows /\ ~misplaced' =>
              \E i \in 1 .. Len(Entries) + 1 :
                  Entries' = InsertAt(Entries, i, Entry(rows'[Next1], Next1))]_treeVars
  BY <1>1
<1> QED
  BY <1>2, TreeStructure, EntriesInOrder, PTL DEF Spec, InsertsOneEntry
-----------------------------------------------------------------------------
\* What a scan has returned: rows of selected entries, one after the other in the
\* direction of the scan; h says at which places the entries are.
Returned(E, sel, op, o, h) ==
    /\ o \in Seq(Nat)
    /\ h \in [1 .. Len(o) -> Nat]
    /\ \A k \in 1 .. Len(o) : h[k] \in 1 .. Len(E) /\ h[k] \in sel /\ o[k] = E[h[k]].row
    /\ \A j, k \in 1 .. Len(o) :
          j < k => IF op \in {"<", "<="} THEN h[k] < h[j] ELSE h[j] < h[k]

\* How far it has come: to place x.  To the right of where it began it has left out
\* none of the selected entries; to the left of that the keys are less than the value.
Reached(E, sel, op, value, n, h, x) ==
    /\ x \in 1 .. Len(E)
    /\ IF op \in {"<", "<="} THEN \A k \in 1 .. n : x <= h[k]
       ELSE /\ \A k \in 1 .. n : h[k] <= x
            /\ \A y \in sel : y <= x =>
                  (\E k \in 1 .. n : h[k] = y) \/ (y \in 1 .. Len(E) /\ E[y].key < value)

\* The output with the row of the entry at place x, if it is selected.
With(E, sel, o, x) == IF x \in sel THEN Append(o, E[x].row) ELSE o

\* Nothing is returned of nothing.
LEMMA NothingReturned ==
    \A E, sel, op : \E h : Returned(E, sel, op, <<>>, h)
<1> SUFFICES ASSUME NEW E, NEW sel, NEW op
             PROVE  \E h : Returned(E, sel, op, <<>>, h)
  OBVIOUS
<1> DEFINE h == [k \in 1 .. Len(<<>>) |-> 0]
<1>1. Len(<<>>) = 0 /\ <<>> \in Seq(Nat) /\ 1 .. Len(<<>>) = {}
  <2>1. Len(<<>>) = 0 /\ <<>> \in Seq(Nat)
    BY EmptySeq
  <2> QED
    BY <2>1
<1>2. h \in [1 .. Len(<<>>) -> Nat]
  OBVIOUS
<1>3. Returned(E, sel, op, <<>>, h)
  BY <1>1, <1>2 DEF Returned
<1> QED
  BY <1>3

\* One place further in the direction of the scan.
LEMMA OneMoreReturned ==
    ASSUME NEW E \in Seq(EntryType), NEW sel, NEW op, NEW o, NEW h, Returned(E, sel, op, o, h),
           NEW x \in 1 .. Len(E),
           IF op \in {"<", "<="} THEN \A k \in 1 .. Len(o) : x < h[k]
           ELSE \A k \in 1 .. Len(o) : h[k] < x
    PROVE  \E g : /\ Returned(E, sel, op, With(E, sel, o, x), g)
                  /\ \A k \in 1 .. Len(o) : k \in 1 .. Len(With(E, sel, o, x)) /\ g[k] = h[k]
                  /\ \A k \in 1 .. Len(With(E, sel, o, x)) :
                        g[k] = x \/ (k \in 1 .. Len(o) /\ g[k] = h[k])
                  /\ x \in sel => \E k \in 1 .. Len(With(E, sel, o, x)) : g[k] = x
<1> DEFINE n == Len(o)
           o2 == Append(o, E[x].row)
           g == [k \in 1 .. n + 1 |-> IF k = n + 1 THEN x ELSE h[k]]
<1>1. o \in Seq(Nat) /\ n \in Nat
  BY DEF Returned
<1>2. CASE x \notin sel
  <2>1. With(E, sel, o, x) = o
    BY <1>2 DEF With
  <2> QED
    BY <1>2, <2>1
<1>3. CASE x \in sel
  <2>1. With(E, sel, o, x) = o2
    BY <1>3 DEF With
  <2>2. E[x].row \in Nat
    <3>1. E[x] \in EntryType
      BY ElementOfSeq
    <3> QED
      BY <3>1 DEF EntryType
  <2>3. o2 \in Seq(Nat) /\ Len(o2) = n + 1 /\ o2[n + 1] = E[x].row
        /\ \A k \in 1 .. n : o2[k] = o[k]
    BY <1>1, <2>2, AppendProperties
  <2>4. x \in Nat
    OBVIOUS
  <2>5. h \in [1 .. n -> Nat]
    BY DEF Returned
  <2>6. g \in [1 .. n + 1 -> Nat] /\ g[n + 1] = x /\ \A k \in 1 .. n : g[k] = h[k]
    BY <1>1, <2>4, <2>5
  <2> HIDE DEF g, o2
  <2>7. \A k \in 1 .. n + 1 : k \in 1 .. n \/ k = n + 1
    BY <1>1
  <2>8. \A k \in 1 .. n : k \in 1 .. n + 1 /\ k < n + 1 /\ n + 1 \in 1 .. n + 1
    BY <1>1
  <2>9. \A k \in 1 .. n + 1 : g[k] \in 1 .. Len(E) /\ g[k] \in sel /\ o2[k] = E[g[k]].row
    <3>1. ASSUME NEW k \in 1 .. n PROVE g[k] \in 1 .. Len(E) /\ g[k] \in sel /\ o2[k] = E[g[k]].row
      BY <2>3, <2>6 DEF Returned
    <3> QED
      BY <1>3, <2>3, <2>6, <2>7, <3>1
  <2>10. ASSUME NEW j \in 1 .. n + 1, NEW k \in 1 .. n + 1, j < k
         PROVE  IF op \in {"<", "<="} THEN g[k] < g[j] ELSE g[j] < g[k]
    <3>1. j \in 1 .. n
      BY <1>1, <2>10
    <3>2. g[j] = h[j]
      BY <2>6, <3>1
    <3>3. CASE k \in 1 .. n
      <4>1. IF op \in {"<", "<="} THEN h[k] < h[j] ELSE h[j] < h[k]
        BY <2>10, <3>1, <3>3 DEF Returned
      <4>2. g[k] = h[k]
        BY <2>6, <3>3
      <4> QED
        BY <3>2, <4>1, <4>2
    <3>4. CASE k = n + 1
      <4>1. IF op \in {"<", "<="} THEN x < h[j] ELSE h[j] < x
        BY <3>1
      <4>2. g[k] = x
        BY <2>6, <3>4
      <4> QED
        BY <3>2, <4>1, <4>2
    <3> QED
      BY <2>7, <3>3, <3>4
  <2>11. Returned(E, sel, op, o2, g)
    BY <2>3, <2>6, <2>9, <2>10 DEF Returned
  <2>12. \A k \in 1 .. n + 1 : g[k] = x \/ (k \in 1 .. n /\ g[k] = h[k])
    BY <2>6, <2>7
  <2>13. n + 1 \in 1 .. Len(o2) /\ g[n + 1] = x /\ 1 .. Len(o2) = 1 .. n + 1
    BY <1>1, <2>3, <2>6
  <2> QED
    BY <2>1, <2>6, <2>8, <2>11, <2>12, <2>13
<1> QED
  BY <1>2, <1>3

\* The first entry of a scan.
LEMMA FirstReached ==
    ASSUME NEW E \in Seq(EntryType), NEW sel, NEW op, NEW value, NEW x \in 1 .. Len(E),
           sel \in SUBSET (1 .. Len(E)), \A y \in 1 .. Len(E) : y < x => E[y].key < value
    PROVE  \E g : /\ Returned(E, sel, op, With(E, sel, <<>>, x), g)
                  /\ Reached(E, sel, op, value, Len(With(E, sel, <<>>, x)), g, x)
<1> DEFINE o == With(E, sel, <<>>, x)
<1>1. PICK h : Returned(E, sel, op, <<>>, h)
  BY NothingReturned
<1>2. 1 .. Len(<<>>) = {}
  <2>1. Len(<<>>) = 0
    BY EmptySeq
  <2> QED
    BY <2>1
<1>3. PICK g : /\ Returned(E, sel, op, o, g)
               /\ \A k \in 1 .. Len(o) : g[k] = x \/ (k \in 1 .. Len(<<>>) /\ g[k] = h[k])
               /\ x \in sel => \E k \in 1 .. Len(o) : g[k] = x
  BY <1>1, <1>2, OneMoreReturned
<1> HIDE DEF o
<1>4. \A k \in 1 .. Len(o) : g[k] = x
  BY <1>2, <1>3
<1>5. x \in Nat
  OBVIOUS
<1>6. ASSUME NEW y \in sel, y <= x
      PROVE  (\E k \in 1 .. Len(o) : g[k] = y) \/ (y \in 1 .. Len(E) /\ E[y].key < value)
  <2>1. y \in 1 .. Len(E)
    OBVIOUS
  <2>2. y = x \/ y < x
    BY <1>6, <2>1
  <2> QED
    BY <1>3, <2>1, <2>2
<1>7. \A k \in 1 .. Len(o) : g[k] <= x /\ x <= g[k]
  BY <1>4, <1>5
<1>8. Reached(E, sel, op, value, Len(o), g, x)
  BY <1>6, <1>7 DEF Reached
<1> QED
  BY <1>3, <1>8 DEF o

\* The next entry.
LEMMA NextReached ==
    ASSUME NEW E \in Seq(EntryType), NEW sel, NEW op, NEW value, NEW o, NEW h, NEW x, NEW z,
           sel \in SUBSET (1 .. Len(E)),
           Returned(E, sel, op, o, h), Reached(E, sel, op, value, Len(o), h, x),
           z \in 1 .. Len(E), z = IF op \in {"<", "<="} THEN x - 1 ELSE x + 1
    PROVE  \E g : /\ Returned(E, sel, op, With(E, sel, o, z), g)
                  /\ Reached(E, sel, op, value, Len(With(E, sel, o, z)), g, z)
<1> DEFINE w == With(E, sel, o, z)
<1>1. x \in Nat /\ z \in Nat /\ x \in 1 .. Len(E)
  BY DEF Reached
<1>2. \A k \in 1 .. Len(o) : h[k] \in Nat
  BY DEF Returned
<1>3. IF op \in {"<", "<="} THEN \A k \in 1 .. Len(o) : z < h[k]
      ELSE \A k \in 1 .. Len(o) : h[k] < z
  <2>1. CASE op \in {"<", "<="}
    <3>1. \A k \in 1 .. Len(o) : x <= h[k]
      BY <2>1 DEF Reached
    <3> QED
      BY <1>1, <1>2, <2>1, <3>1
  <2>2. CASE op \notin {"<", "<="}
    <3>1. \A k \in 1 .. Len(o) : h[k] <= x
      BY <2>2 DEF Reached
    <3> QED
      BY <1>1, <1>2, <2>2, <3>1
  <2> QED
    BY <2>1, <2>2
<1>4. PICK g : /\ Returned(E, sel, op, w, g)
               /\ \A k \in 1 .. Len(o) : k \in 1 .. Len(w) /\ g[k] = h[k]
               /\ \A k \in 1 .. Len(w) : g[k] = z \/ (k \in 1 .. Len(o) /\ g[k] = h[k])
               /\ z \in sel => \E k \in 1 .. Len(w) : g[k] = z
  BY <1>3, OneMoreReturned
<1> HIDE DEF w
<1>5. Reached(E, sel, op, value, Len(w), g, z)
  <2>1. CASE op \in {"<", "<="}
    <3>1. \A k \in 1 .. Len(o) : z <= h[k]
      BY <1>1, <1>2, <1>3, <2>1
    <3>2. \A k \in 1 .. Len(w) : z <= g[k]
      BY <1>1, <1>4, <3>1
    <3> QED
      BY <2>1, <3>2 DEF Reached
  <2>2. CASE op \notin {"<", "<="}
    <3>1. \A k \in 1 .. Len(o) : h[k] <= z
      BY <1>1, <1>2, <1>3, <2>2
    <3>2. \A k \in 1 .. Len(w) : g[k] <= z
      BY <1>1, <1>4, <3>1
    <3>3. ASSUME NEW y \in sel, y <= z
          PROVE  (\E k \in 1 .. Len(w) : g[k] = y) \/ (y \in 1 .. Len(E) /\ E[y].key < value)
      <4>1. y \in Nat
        OBVIOUS
      <4>2. y = z \/ y <= x
        BY <1>1, <2>2, <3>3, <4>1
      <4>3. CASE y = z
        BY <1>4, <4>3
      <4>4. CASE y <= x
        <5>1. (\E k \in 1 .. Len(o) : h[k] = y) \/ (y \in 1 .. Len(E) /\ E[y].key < value)
          BY <2>2, <4>4 DEF Reached
        <5> QED
          BY <1>4, <5>1
      <4> QED
        BY <4>2, <4>3, <4>4
    <3> QED
      BY <2>2, <3>2, <3>3 DEF Reached
  <2> QED
    BY <2>1, <2>2
<1> QED
  BY <1>4, <1>5 DEF w

-----------------------------------------------------------------------------
\* Where the entries of each page of the chain begin among all the entries, and
\* where its link leads: off[i] entries are on the pages before page i.
Layout(pages, chain, E, off) ==
    /\ E \in Seq(EntryType)
    /\ Len(chain) \in Nat /\ Len(chain) >= 1 /\ chain[1] = 1
    /\ \A i, j \in 1 .. Len(chain) : chain[i] = chain[j] => i = j
    /\ off \in [1 .. Len(chain) + 1 -> Nat]
    /\ off[1] = 0 /\ off[Len(chain) + 1] = Len(E)
    /\ \A i \in 1 .. Len(chain) :
          /\ chain[i] \in DOMAIN pages
          /\ NumItems(pages[chain[i]].body) \in Nat
          /\ off[i + 1] = off[i] + NumItems(pages[chain[i]].body) - 1
          /\ \A l \in FirstKey .. NumItems(pages[chain[i]].body) :
                /\ off[i] + l - 1 \in 1 .. Len(E)
                /\ E[off[i] + l - 1] = ItemsOf(pages[chain[i]].body)[l]
          /\ IF i < Len(chain) THEN pages[chain[i]].right = chain[i + 1]
             ELSE pages[chain[i]].right \notin DOMAIN pages

\* The pages of an index whose build is over have such a layout.
LEMMA LayoutIs ==
    ASSUME TreeInv, root = 1, phase # "build"
    PROVE  \E off : Layout(leaves, Chain, Entries, off)
<1>1. pending = <<>> /\ Pages = leaves /\ PagesSound(leaves)
      /\ DOMAIN leaves = 1 .. Len(leaves) /\ Len(leaves) \in Nat
  <2>1. pending = <<>> /\ PagesSound(leaves)
    BY DEF TreeInv
  <2>2. leaves \in Seq(PageType)
    BY <2>1 DEF PagesSound
  <2> QED
    BY <2>1, <2>2, PageMore DEF Pages
<1>2. PICK o, m, z : Order(o, m, z, Pages) /\ z # 1
  BY DEF TreeInv, Linked
<1> DEFINE n == z - 1
           ss == KeyLists(leaves, o, n)
<1>3. /\ Entries = FlattenSeq(ss)
      /\ n \in Nat /\ n >= 1 /\ m \in Nat /\ z \in 2 .. m + 1
      /\ Len(Chain) = n /\ \A i \in 1 .. n : Chain[i] = o[i]
      /\ \A i \in 1 .. n : o[i] \in 1 .. Len(leaves)
  BY <1>1, <1>2, EntriesAre
<1>4. /\ ss \in Seq(Seq(EntryType)) /\ Len(ss) = n
      /\ \A i \in 1 .. n : PageItems(leaves[o[i]], ItemsOf(leaves[o[i]].body), ss[i])
  BY <1>1, <1>3, KeyListsAre
<1> HIDE DEF ss
<1>5. Entries \in Seq(EntryType)
  BY <1>3, <1>4, FlattenType
<1>6. PICK off : /\ Offsets(ss, off)
                 /\ Len(FlattenSeq(ss)) = off[Len(ss) + 1]
                 /\ \A i \in 1 .. Len(ss) : \A l \in 1 .. Len(ss[i]) :
                       /\ off[i] + l \in 1 .. Len(FlattenSeq(ss))
                       /\ FlattenSeq(ss)[off[i] + l] = ss[i][l]
  BY <1>4, FlattenOffsets, ZenonT(30)
<1>7. \A i \in 1 .. n : i \in 1 .. m /\ i # z
  BY <1>3
<1>8. n + 1 = z
  BY <1>3
<1> HIDE DEF n
<1>9. Chain[1] = 1 /\ \A i, j \in 1 .. n : Chain[i] = Chain[j] => i = j
  <2>1. 1 \in 1 .. n /\ m >= 1
    BY <1>3
  <2>2. Chain[1] = 1
    BY <1>2, <1>3, <2>1 DEF Order
  <2>3. ASSUME NEW i \in 1 .. n, NEW j \in 1 .. n, Chain[i] = Chain[j] PROVE i = j
    <3>1. o[i] = o[j] /\ i \in 1 .. m /\ j \in 1 .. m
      BY <1>3, <1>7, <2>3
    <3> QED
      BY <1>2, <3>1 DEF Order
  <2> QED
    BY <2>2, <2>3
<1>10. off \in [1 .. n + 1 -> Nat] /\ off[1] = 0 /\ off[n + 1] = Len(Entries)
  BY <1>3, <1>4, <1>6 DEF Offsets
<1>11. ASSUME NEW i \in 1 .. n
       PROVE  /\ Chain[i] \in DOMAIN leaves
              /\ NumItems(leaves[Chain[i]].body) \in Nat
              /\ off[i + 1] = off[i] + NumItems(leaves[Chain[i]].body) - 1
              /\ \A l \in FirstKey .. NumItems(leaves[Chain[i]].body) :
                    /\ off[i] + l - 1 \in 1 .. Len(Entries)
                    /\ Entries[off[i] + l - 1] = ItemsOf(leaves[Chain[i]].body)[l]
              /\ IF i < n THEN leaves[Chain[i]].right = Chain[i + 1]
                 ELSE leaves[Chain[i]].right \notin DOMAIN leaves
  <2> DEFINE p == o[i]
             items == ItemsOf(leaves[p].body)
             c == NumItems(leaves[p].body)
  <2>1. Chain[i] = p /\ p \in DOMAIN leaves
    BY <1>1, <1>3
  <2>2. /\ Len(items) \in Nat /\ Len(items) >= 1 /\ c = Len(items)
        /\ Len(ss[i]) = Len(items) - 1
        /\ \A l \in 1 .. Len(items) - 1 : ss[i][l] = items[l + 1]
    BY <1>4 DEF PageItems
  <2>3. off[i] \in Nat /\ off[i + 1] = off[i] + Len(ss[i])
    <3>1. i \in 1 .. n + 1
      BY <1>3
    <3> QED
      BY <1>4, <1>6, <1>10, <3>1 DEF Offsets
  <2>4. \A l \in 1 .. Len(ss[i]) : off[i] + l \in 1 .. Len(Entries) /\ Entries[off[i] + l] = ss[i][l]
    BY <1>3, <1>4, <1>6
  <2>5. IF i < n THEN leaves[p].right = o[i + 1] ELSE leaves[p].right \notin DOMAIN leaves
    <3>1. leaves[p].right = IF i = m THEN 0 ELSE o[i + 1]
      BY <1>1, <1>2, <1>7, ZenonT(30) DEF Order
    <3>2. CASE i < n
      <4>1. i # m
        BY <1>3, <1>8, <3>2
      <4> QED
        BY <3>1, <3>2, <4>1
    <3>3. CASE ~(i < n)
      <4>1. i = n /\ i + 1 = z
        BY <1>3, <1>8, <3>3
      <4>2. CASE i = m
        BY <1>1, <3>1, <3>3, <4>2
      <4>3. CASE i # m
        <5>1. z \in 1 .. m /\ o[z] \in 1 .. m
          BY <1>2, <1>3, <4>1, <4>3, SMTT(30), ZenonT(30) DEF Order
        <5>2. ~(o[z] <= Len(leaves))
          BY <1>1, <1>2, <5>1 DEF Order
        <5>3. o[z] \notin 1 .. Len(leaves)
          BY <5>2
        <5> QED
          BY <1>1, <3>1, <3>3, <4>1, <4>3, <5>3
      <4> QED
        BY <4>2, <4>3
    <3> QED
      BY <3>2, <3>3
  <2> HIDE DEF p, items, c
  <2>6. off[i + 1] = off[i] + c - 1
    BY <2>2, <2>3
  <2>7. ASSUME NEW l \in FirstKey .. c
        PROVE  off[i] + l - 1 \in 1 .. Len(Entries) /\ Entries[off[i] + l - 1] = items[l]
    <3>1. l - 1 \in 1 .. Len(ss[i]) /\ (l - 1) + 1 = l /\ off[i] + (l - 1) = off[i] + l - 1
      BY <2>2, <2>3 DEF FirstKey
    <3>2. l - 1 \in 1 .. Len(items) - 1
      BY <2>2, <3>1
    <3>3. ss[i][l - 1] = items[l]
      BY <2>2, <3>1, <3>2
    <3> QED
      BY <2>4, <3>1, <3>3
  <2>8. i < n => Chain[i + 1] = o[i + 1]
    <3>1. i < n => i + 1 \in 1 .. n
      BY <1>3
    <3> QED
      BY <1>3, <3>1
  <2> QED
    BY <2>1, <2>2, <2>5, <2>6, <2>7, <2>8 DEF p, items, c
<1>12. Layout(leaves, Chain, Entries, off)
  BY <1>3, <1>5, <1>9, <1>10, <1>11 DEF Layout
<1> QED
  BY <1>12

-----------------------------------------------------------------------------
\* The places of the entries that satisfy the WHERE clause.
SelectedAt == {x \in 1 .. Len(Entries) : Selects(Entries[x].key)}

\* The scan is at place x of the entries, in its slot of page i of the chain.
At(off, i, x) ==
    /\ i \in 1 .. Len(Chain) /\ page = Chain[i]
    /\ slot \in FirstKey .. NumItems(leaves[page].body)
    /\ x = off[i] + slot - 1

\* A forward scan that has ended has returned the rows of all selected entries.
EndsComplete ==
    /\ scan = "end" /\ query.op \in {"=", ">", ">="}
    /\ BoundaryOnRoot /\ NoKeylessPage
    => \A y \in SelectedAt : Entries[y].row \in ToSet(out)

\* What a scan keeps: the rows of selected entries in its direction, and where it
\* stands among the entries.
ScanInv ==
    /\ query.op \in Ops /\ query.value \in Nat
    /\ scan \in {"none", "first"} => out = <<>>
    /\ \E h : /\ Returned(Entries, SelectedAt, query.op, out, h)
              /\ scan = "next" =>
                    \E off, i, x : /\ Layout(leaves, Chain, Entries, off) /\ At(off, i, x)
                                   /\ Reached(Entries, SelectedAt, query.op, query.value,
                                              Len(out), h, x)
    /\ EndsComplete

\* An entry whose key is less than the value is not what a forward scan for =, > or
\* >= looks for.
LEMMA LessNotSelected ==
    ASSUME query.op \in {"=", ">", ">="}, query.value \in Nat, NEW x \in SelectedAt,
           Entries \in Seq(EntryType)
    PROVE  ~(Entries[x].key < query.value)
<1>1. x \in 1 .. Len(Entries) /\ Selects(Entries[x].key)
  BY DEF SelectedAt
<1>2. Entries[x].key \in Nat
  <2>1. Entries[x] \in EntryType
    BY <1>1, ElementOfSeq
  <2> QED
    BY <2>1, KeyType
<1> DEFINE k == Entries[x].key
<1>3. k \in Nat /\ Selects(k)
  BY <1>1, <1>2
<1> HIDE DEF k
<1>4. \/ query.op = "=" /\ k = query.value
      \/ query.op = ">" /\ k > query.value
      \/ query.op = ">=" /\ k >= query.value
  BY <1>3 DEF Selects
<1>5. ~(k < query.value)
  BY <1>3, <1>4
<1> QED
  BY <1>5 DEF k

\* A step that leaves the tree and the query alone leaves the entries and the
\* selection alone.
LEMMA EntriesStay ==
    ASSUME UNCHANGED treeVars
    PROVE  /\ Entries' = Entries /\ Chain' = Chain /\ leaves' = leaves /\ root' = root
           /\ query' = query => SelectedAt' = SelectedAt
<1>1. leaves' = leaves /\ pending' = pending /\ root' = root
  BY DEF treeVars
<1>2. Pages' = Pages
  BY <1>1 DEF Pages
<1>3. Entries' = Entries /\ Chain' = Chain
  BY <1>1, <1>2, FromPages
<1>4. ASSUME query' = query PROVE SelectedAt' = SelectedAt
  <2>1. \A x : Selects(Entries[x].key)' <=> Selects(Entries[x].key)
    BY <1>3, <1>4 DEF Selects
  <2> QED
    BY <1>3, <2>1 DEF SelectedAt
<1> QED
  BY <1>1, <1>3, <1>4

\* What Return adds to the output, by the place of the entry.
LEMMA ReturnIs ==
    ASSUME NEW x \in 1 .. Len(Entries), NEW entry, entry = Entries[x], Return(entry)
    PROVE  out' = With(Entries, SelectedAt, out, x)
<1>1. x \in SelectedAt <=> Selects(entry.key)
  BY DEF SelectedAt
<1> QED
  BY <1>1 DEF Return, With

\* A scan that stands at place x after the step keeps the invariant.
LEMMA StandsAt ==
    ASSUME UNCHANGED treeVars, query' = query, query.op \in Ops, query.value \in Nat,
           scan' = "next", NEW off, NEW i, NEW x, NEW g,
           Layout(leaves, Chain, Entries, off),
           i \in 1 .. Len(Chain), page' = Chain[i],
           slot' \in FirstKey .. NumItems(leaves[page'].body), x = off[i] + slot' - 1,
           Returned(Entries, SelectedAt, query.op, out', g),
           Reached(Entries, SelectedAt, query.op, query.value, Len(out'), g, x)
    PROVE  ScanInv'
<1>1. Entries' = Entries /\ Chain' = Chain /\ leaves' = leaves /\ SelectedAt' = SelectedAt
  BY EntriesStay
<1>2. At(off, i, x)'
  BY <1>1 DEF At
<1>3. Layout(leaves', Chain', Entries', off)
  BY <1>1
<1>4. /\ Returned(Entries', SelectedAt', query'.op, out', g)
      /\ Reached(Entries', SelectedAt', query'.op, query'.value, Len(out'), g, x)
  BY <1>1
<1>5. EndsComplete'
  BY DEF EndsComplete
<1> QED
  BY <1>2, <1>3, <1>4, <1>5 DEF ScanInv

\* A scan that ends or crashes in the step has returned what it had.
LEMMA StandsNoMore ==
    ASSUME UNCHANGED treeVars, query' = query, ScanInv,
           scan' \in {"end", "crash"}, out' = out,
           scan' = "end" => EndsComplete'
    PROVE  ScanInv'
<1>1. Entries' = Entries /\ SelectedAt' = SelectedAt
  BY EntriesStay
<1>2. PICK h : Returned(Entries, SelectedAt, query.op, out, h)
  BY DEF ScanInv
<1>3. Returned(Entries', SelectedAt', query'.op, out', h)
  BY <1>1, <1>2
<1>4. EndsComplete'
  BY DEF EndsComplete
<1> QED
  BY <1>3, <1>4 DEF ScanInv

\* With the boundary in reach, the keys of a scan that BTreeFirst ends at once are
\* all less than the value.
LEMMA FirstEnds ==
    ASSUME TreeInv, root = 1, phase # "build", query.value \in Nat, BoundaryOnRoot,
           StartSlot(query.value) \in {HighKey, NumItems(leaves[1].body) + 1},
           NEW y \in 1 .. Len(Entries)
    PROVE  Entries[y].key < query.value
<1> DEFINE v == query.value
           n == NumItems(leaves[1].body)
           items == ItemsOf(leaves[1].body)
<1>1. PICK off : Layout(leaves, Chain, Entries, off)
  BY LayoutIs
<1>2. /\ 1 \in 1 .. Len(Chain) /\ Chain[1] = 1 /\ 1 \in DOMAIN leaves /\ n \in Nat
      /\ off[1] = 0 /\ off[2] = off[1] + n - 1
      /\ \A l \in FirstKey .. n : /\ off[1] + l - 1 \in 1 .. Len(Entries)
                                  /\ Entries[off[1] + l - 1] = items[l]
  <2>1. 1 \in 1 .. Len(Chain) /\ 1 + 1 = 2
    BY <1>1 DEF Layout
  <2> QED
    BY <1>1, <2>1, SMTT(30), ZenonT(30) DEF Layout
<1>3. Sound(leaves[1].body) /\ n >= 1 /\ DOMAIN leaves = 1 .. Len(leaves) /\ Len(leaves) \in Nat
  <2>1. PagesSound(leaves)
    BY DEF TreeInv
  <2>2. DOMAIN leaves = 1 .. Len(leaves) /\ Len(leaves) \in Nat
    BY <2>1 DEF PagesSound
  <2> QED
    BY <1>2, <2>1, <2>2 DEF PagesSound
<1>4. Idx(StartSlot(v), v, items, n, leaves[1].right)
  BY <1>3, GetInsertionIdxIs DEF StartSlot
<1>5. \A l \in FirstKey .. n : v > items[l].key
  <2>1. CASE StartSlot(v) = HighKey
    BY <1>4, <2>1 DEF Idx
  <2>2. CASE StartSlot(v) = n + 1
    <3>1. \A l \in FirstKey .. n : l < n + 1
      BY <1>2
    <3> QED
      BY <1>4, <2>2, <3>1 DEF Idx
  <2> QED
    BY <2>1, <2>2
<1>6. \A l \in FirstKey .. n : items[l].key \in Nat
  <2>1. ASSUME NEW l \in FirstKey .. n PROVE items[l].key \in Nat
    <3>1. items[l] \in EntryType
      <4>1. off[1] + l - 1 \in 1 .. Len(Entries) /\ Entries \in Seq(EntryType)
        BY <1>1, <1>2 DEF Layout
      <4>2. Entries[off[1] + l - 1] \in EntryType
        BY <4>1, ElementOfSeq
      <4> QED
        BY <1>2, <4>2
    <3> QED
      BY <3>1, KeyType
  <2> QED
    BY <2>1
<1>7. Len(leaves) = 1
  <2>1. ~ \E l \in FirstKey .. n : items[l].key >= v
    BY <1>5, <1>6
  <2> QED
    BY <2>1 DEF BoundaryOnRoot, EntryAt
<1>8. Len(Chain) = 1
  <2>1. CASE Len(Chain) # 1
    <3>1. 2 \in 1 .. Len(Chain)
      <4>1. Len(Chain) \in Nat /\ Len(Chain) >= 1
        BY <1>1 DEF Layout
      <4>2. \A c \in Nat : c >= 1 /\ c # 1 => 2 \in 1 .. c
        OBVIOUS
      <4> QED
        BY <2>1, <4>1, <4>2
    <3>2. Chain[2] \in DOMAIN leaves
      BY <1>1, <3>1 DEF Layout
    <3>3. Chain[2] = 1
      BY <1>3, <1>7, <3>2
    <3>4. 1 = 2
      BY <1>1, <1>2, <3>1, <3>3, SMTT(30), ZenonT(30) DEF Layout
    <3> QED
      BY <3>4
  <2> QED
    BY <2>1
<1>9. Len(Entries) = n - 1
  <2>1. off[Len(Chain) + 1] = Len(Entries) /\ 1 + 1 = 2
    BY <1>1 DEF Layout
  <2> QED
    BY <1>2, <1>8, <2>1
<1>10. y + 1 \in FirstKey .. n /\ off[1] + (y + 1) - 1 = y
  BY <1>2, <1>9 DEF FirstKey
<1>11. Entries[y] = items[y + 1]
  BY <1>2, <1>10
<1>12. v > items[y + 1].key /\ items[y + 1].key \in Nat
  BY <1>5, <1>6, <1>10
<1> QED
  BY <1>11, <1>12

\* BTreeFirst: the first entry at or behind the value on the root page, or none.
LEMMA FirstStep ==
    ASSUME TreeInv, ScanStands, ScanInv, BTreeFirst
    PROVE  ScanInv'
<1> DEFINE v == query.value
           l == StartSlot(v)
           n == NumItems(leaves[1].body)
           items == ItemsOf(leaves[1].body)
<1>1. scan = "first" /\ root = 1 /\ phase # "build" /\ out = <<>>
  BY DEF BTreeFirst, TreeInv, ScanStands, ScanInv
<1>2. UNCHANGED treeVars /\ query' = query /\ v \in Nat /\ query.op \in Ops
  BY DEF BTreeFirst, ScanInv
<1>3. PICK off : Layout(leaves, Chain, Entries, off)
  BY <1>1, LayoutIs
<1>4. /\ 1 \in 1 .. Len(Chain) /\ Chain[1] = 1 /\ 1 \in DOMAIN leaves /\ n \in Nat
      /\ off[1] = 0 /\ Entries \in Seq(EntryType)
      /\ \A k \in FirstKey .. n : /\ off[1] + k - 1 \in 1 .. Len(Entries)
                                  /\ Entries[off[1] + k - 1] = items[k]
  <2>1. 1 \in 1 .. Len(Chain)
    BY <1>3 DEF Layout
  <2> QED
    BY <1>3, <2>1 DEF Layout
<1>5. CASE l = HighKey \/ l = n + 1
  <2>1. scan' = "end" /\ out' = out
    BY <1>1, <1>5 DEF BTreeFirst, EndScan
  <2>2. ASSUME query.op \in {"=", ">", ">="}, BoundaryOnRoot
        PROVE  SelectedAt = {}
    <3> SUFFICES ASSUME NEW y \in SelectedAt PROVE FALSE
      OBVIOUS
    <3>1. y \in 1 .. Len(Entries)
      BY DEF SelectedAt
    <3>2. Entries[y].key < v
      BY <1>1, <1>2, <1>5, <2>2, <3>1, FirstEnds
    <3> QED
      BY <1>2, <1>4, <2>2, <3>2, LessNotSelected
  <2>3. leaves' = leaves /\ root' = root /\ SelectedAt' = SelectedAt /\ Entries' = Entries
    BY <1>2, EntriesStay
  <2>4. BoundaryOnRoot' <=> BoundaryOnRoot
    BY <1>2, <2>3 DEF BoundaryOnRoot, EntryAt
  <2>5. EndsComplete'
    BY <1>2, <2>2, <2>3, <2>4 DEF EndsComplete
  <2> QED
    BY <1>2, <2>1, <2>5, StandsNoMore
<1>6. CASE ~(l = HighKey \/ l = n + 1)
  <2>1. scan' = "next" /\ page' = 1 /\ slot' = l /\ Return(EntryAt(1, l))
    BY <1>1, <1>6 DEF BTreeFirst
  <2>2. Idx(l, v, items, n, leaves[1].right)
    <3>1. Sound(leaves[1].body) /\ n >= 1
      <4>1. PagesSound(leaves)
        BY DEF TreeInv
      <4>2. 1 \in 1 .. Len(leaves)
        BY <1>4, <4>1 DEF PagesSound
      <4> QED
        BY <4>1, <4>2 DEF PagesSound
    <3> QED
      BY <1>1, <1>2, <3>1, GetInsertionIdxIs DEF StartSlot
  <2>3. l \in FirstKey .. n /\ \A k \in FirstKey .. n : k < l => v > items[k].key
    <3>1. l \in 1 .. n + 1
      BY <2>2 DEF Idx
    <3>2. l \in FirstKey .. n
      BY <1>4, <1>6, <3>1 DEF FirstKey, HighKey
    <3> QED
      BY <2>2, <3>2 DEF Idx
  <2> DEFINE x == off[1] + l - 1
  <2>4. x \in 1 .. Len(Entries) /\ Entries[x] = items[l]
    BY <1>4, <2>3
  <2>5. ASSUME NEW y \in 1 .. Len(Entries), y < x PROVE Entries[y].key < v
    <3>1. y + 1 \in FirstKey .. n /\ y + 1 < l /\ off[1] + (y + 1) - 1 = y
      BY <1>4, <2>3, <2>5 DEF FirstKey
    <3>2. Entries[y] = items[y + 1] /\ v > items[y + 1].key
      BY <1>4, <2>3, <3>1
    <3>3. items[y + 1].key \in Nat
      <4>1. Entries[y] \in EntryType
        BY <1>4, ElementOfSeq
      <4> QED
        BY <3>2, <4>1, KeyType
    <3> QED
      BY <1>2, <3>2, <3>3
  <2>6. out' = With(Entries, SelectedAt, <<>>, x)
    <3>1. EntryAt(1, l) = Entries[x]
      BY <2>4 DEF EntryAt
    <3> QED
      BY <1>1, <2>1, <2>4, <3>1, ReturnIs
  <2> HIDE DEF x
  <2>7. SelectedAt \in SUBSET (1 .. Len(Entries))
    BY DEF SelectedAt
  <2>8. PICK g : /\ Returned(Entries, SelectedAt, query.op, out', g)
                 /\ Reached(Entries, SelectedAt, query.op, v, Len(out'), g, x)
    BY <1>4, <2>4, <2>5, <2>6, <2>7, FirstReached
  <2>9. slot' \in FirstKey .. NumItems(leaves[page'].body) /\ x = off[1] + slot' - 1 /\ page' = Chain[1]
    BY <1>4, <2>1, <2>3 DEF x
  <2> QED
    BY <1>2, <1>3, <1>4, <2>1, <2>8, <2>9, StandsAt
<1> QED
  BY <1>5, <1>6

\* BTreeGetNext to the right: the next slot, the first key of the next page, or
\* nothing more.
LEMMA ForwardStep ==
    ASSUME TreeInv, ScanStands, ScanInv, GetNextForward
    PROVE  ScanInv'
<1>1. scan = "next" /\ root = 1 /\ phase # "build" /\ UNCHANGED treeVars /\ query' = query
      /\ query.value \in Nat /\ query.op \in Ops /\ query.op \notin {"<", "<="}
  BY DEF GetNextForward, ScanStands, ScanInv, Backwards
<1>2. PICK h, off, i, x :
          /\ Returned(Entries, SelectedAt, query.op, out, h)
          /\ Layout(leaves, Chain, Entries, off) /\ At(off, i, x)
          /\ Reached(Entries, SelectedAt, query.op, query.value, Len(out), h, x)
  BY <1>1 DEF ScanInv
<1> DEFINE c == Len(Chain)
           n(k) == NumItems(leaves[Chain[k]].body)
<1>3. i \in 1 .. c /\ page = Chain[i] /\ slot \in FirstKey .. n(i) /\ x = off[i] + slot - 1
  BY <1>2 DEF At
<1>4. c \in Nat /\ Entries \in Seq(EntryType) /\ DOMAIN leaves = 1 .. Len(leaves)
  BY <1>2 DEF Layout, TreeInv, PagesSound
<1>5. \A k \in 1 .. c :
          /\ Chain[k] \in DOMAIN leaves /\ n(k) \in Nat /\ off[k] \in Nat /\ off[k + 1] \in Nat
          /\ off[k + 1] = off[k] + n(k) - 1
          /\ \A l \in FirstKey .. n(k) : /\ off[k] + l - 1 \in 1 .. Len(Entries)
                                         /\ Entries[off[k] + l - 1] = EntryAt(Chain[k], l)
          /\ IF k < c THEN leaves[Chain[k]].right = Chain[k + 1]
             ELSE leaves[Chain[k]].right \notin DOMAIN leaves
  <2>1. \A k \in 1 .. c : k \in 1 .. c + 1 /\ k + 1 \in 1 .. c + 1
    BY <1>4
  <2> QED
    BY <1>2, <2>1 DEF Layout, EntryAt
<1>6. SelectedAt \in SUBSET (1 .. Len(Entries))
  BY DEF SelectedAt
\* The step to slot l of page k of the chain, the next of all places.
<1>7. ASSUME NEW k \in 1 .. c, NEW l \in FirstKey .. n(k), off[k] + l - 1 = x + 1,
             scan' = "next", page' = Chain[k], slot' = l, Return(EntryAt(Chain[k], l))
      PROVE  ScanInv'
  <2> DEFINE z == off[k] + l - 1
  <2>1. z \in 1 .. Len(Entries) /\ Entries[z] = EntryAt(Chain[k], l)
    BY <1>5, <1>7
  <2> HIDE DEF z
  <2>2. out' = With(Entries, SelectedAt, out, z)
    BY <1>7, <2>1, ReturnIs
  <2>3. z = IF query.op \in {"<", "<="} THEN x - 1 ELSE x + 1
    BY <1>1, <1>7 DEF z
  <2>4. PICK g : /\ Returned(Entries, SelectedAt, query.op, out', g)
                 /\ Reached(Entries, SelectedAt, query.op, query.value, Len(out'), g, z)
    BY <1>2, <1>4, <1>6, <2>1, <2>2, <2>3, NextReached
  <2>5. slot' \in FirstKey .. NumItems(leaves[page'].body) /\ z = off[k] + slot' - 1
    BY <1>7 DEF z
  <2> QED
    BY <1>1, <1>2, <1>7, <2>4, <2>5, StandsAt
<1>8. CASE slot + 1 <= n(i)
  <2>1. scan' = "next" /\ page' = Chain[i] /\ slot' = slot + 1 /\ Return(EntryAt(Chain[i], slot + 1))
    BY <1>3, <1>8 DEF GetNextForward
  <2>2. slot + 1 \in FirstKey .. n(i) /\ off[i] + (slot + 1) - 1 = x + 1
    BY <1>3, <1>5, <1>8, SMTT(30), ZenonT(30) DEF FirstKey
  <2> QED
    BY <1>3, <1>7, <2>1, <2>2
<1>9. CASE ~(slot + 1 <= n(i))
  <2>1. slot = n(i) /\ x = off[i + 1]
    <3>1. n(i) \in Nat /\ off[i] \in Nat /\ off[i + 1] = off[i] + n(i) - 1
      BY <1>3, <1>5
    <3>2. slot = n(i)
      BY <1>3, <1>9, <3>1 DEF FirstKey
    <3> QED
      BY <1>3, <3>1, <3>2
  <2> DEFINE q == leaves[Chain[i]].right
  <2>2. NextPage(page) = q
    BY <1>3 DEF NextPage
  <2>3. CASE ~Written(q)
    <3>1. scan' = "crash" /\ out' = out
      BY <1>3, <1>9, <2>2, <2>3 DEF GetNextForward
    <3> QED
      BY <1>1, <3>1, StandsNoMore
  <2>4. CASE Written(q) /\ q = 0
    <3>1. scan' = "end" /\ out' = out
      BY <1>3, <1>9, <2>2, <2>4 DEF GetNextForward, EndScan
    <3>2. i = c
      <4>1. CASE i < c
        <5>1. i + 1 \in 1 .. c
          BY <1>3, <1>4, <4>1
        <5>2. 0 \in DOMAIN leaves
          BY <1>3, <1>5, <2>4, <4>1, <5>1
        <5> QED
          BY <1>4, <5>2
      <4> QED
        BY <1>3, <1>4, <4>1
    <3>3. x = Len(Entries)
      BY <1>2, <2>1, <3>2 DEF Layout
    <3>4. ASSUME query.op \in {"=", ">", ">="}, NEW y \in SelectedAt
          PROVE  Entries[y].row \in ToSet(out)
      <4>1. ~(Entries[y].key < query.value)
        BY <1>1, <1>4, <3>4, LessNotSelected
      <4>2. y <= x
        BY <1>4, <1>6, <3>3
      <4>3. PICK k \in 1 .. Len(out) : h[k] = y
        BY <1>1, <1>2, <4>1, <4>2 DEF Reached
      <4>4. out[k] = Entries[y].row /\ k \in DOMAIN out
        BY <1>2, <4>3 DEF Returned
      <4> QED
        BY <4>4 DEF ToSet
    <3>5. SelectedAt' = SelectedAt /\ Entries' = Entries
      BY <1>1, EntriesStay
    <3>6. EndsComplete'
      BY <1>1, <3>1, <3>4, <3>5 DEF EndsComplete
    <3> QED
      BY <1>1, <3>1, <3>6, StandsNoMore
  <2>5. CASE Written(q) /\ q # 0
    <3>1. q \in DOMAIN leaves
      BY <2>5 DEF Written
    <3>2. i < c /\ i + 1 \in 1 .. c /\ q = Chain[i + 1]
      <4>1. i < c
        BY <1>3, <1>4, <1>5, <3>1
      <4> QED
        BY <1>3, <1>4, <1>5, <4>1
    <3>3. CASE n(i + 1) < FirstKey
      <4>1. scan' = "end" /\ out' = out
        BY <1>3, <1>9, <2>2, <2>5, <3>2, <3>3 DEF GetNextForward, EndScan
      <4>2. q # 1
        <5>1. Chain[1] = 1 /\ 1 \in 1 .. c
          BY <1>2, <1>3, <1>4 DEF Layout
        <5>2. i + 1 # 1
          BY <1>3, <1>4
        <5> QED
          BY <1>2, <3>2, <5>1, <5>2 DEF Layout
      <4>3. ~NoKeylessPage
        BY <1>1, <1>5, <3>1, <3>2, <3>3, <4>2 DEF NoKeylessPage, FirstKey
      <4>4. leaves' = leaves /\ root' = root
        BY <1>1, EntriesStay
      <4>5. EndsComplete'
        BY <4>3, <4>4 DEF EndsComplete, NoKeylessPage
      <4> QED
        BY <1>1, <4>1, <4>5, StandsNoMore
    <3>4. CASE ~(n(i + 1) < FirstKey)
      <4>1. /\ scan' = "next" /\ page' = Chain[i + 1] /\ slot' = FirstKey
            /\ Return(EntryAt(Chain[i + 1], FirstKey))
        BY <1>1, <1>3, <1>9, <2>2, <2>5, <3>2, <3>4 DEF GetNextForward
      <4>2. FirstKey \in FirstKey .. n(i + 1) /\ off[i + 1] + FirstKey - 1 = x + 1
        BY <1>5, <2>1, <3>2, <3>4, SMTT(30), ZenonT(30) DEF FirstKey
      <4> QED
        BY <1>7, <3>2, <4>1, <4>2
    <3> QED
      BY <3>3, <3>4
  <2> QED
    BY <2>3, <2>4, <2>5
<1> QED
  BY <1>8, <1>9

\* BTreeGetNext to the left: the slot before, on the same page.
LEMMA BackwardStep ==
    ASSUME TreeInv, ScanStands, ScanInv, GetNextBackward
    PROVE  ScanInv'
<1>1. scan = "next" /\ root = 1 /\ phase # "build" /\ UNCHANGED treeVars /\ query' = query
      /\ query.value \in Nat /\ query.op \in Ops /\ query.op \in {"<", "<="}
  BY DEF GetNextBackward, ScanStands, ScanInv, Backwards
<1>2. PICK h, off, i, x :
          /\ Returned(Entries, SelectedAt, query.op, out, h)
          /\ Layout(leaves, Chain, Entries, off) /\ At(off, i, x)
          /\ Reached(Entries, SelectedAt, query.op, query.value, Len(out), h, x)
  BY <1>1 DEF ScanInv
<1> DEFINE n == NumItems(leaves[page].body)
<1>3. i \in 1 .. Len(Chain) /\ page = Chain[i] /\ slot \in FirstKey .. n /\ x = off[i] + slot - 1
  BY <1>2 DEF At
<1>4. Entries \in Seq(EntryType) /\ n \in Nat /\ off[i] \in Nat
  <2>1. i \in 1 .. Len(Chain) + 1
    BY <1>2, <1>3 DEF Layout
  <2> QED
    BY <1>2, <1>3, <2>1 DEF Layout
<1>5. CASE slot - 1 <= FirstKey
  <2>1. scan' = "end" /\ out' = out
    BY <1>5 DEF GetNextBackward, EndScan
  <2>2. EndsComplete'
    BY <1>1 DEF EndsComplete
  <2> QED
    BY <1>1, <2>1, <2>2, StandsNoMore
<1>6. CASE ~(slot - 1 <= FirstKey)
  <2>1. scan' = "next" /\ page' = page /\ slot' = slot - 1 /\ Return(EntryAt(page, slot - 1))
    BY <1>6 DEF GetNextBackward
  <2> DEFINE z == off[i] + (slot - 1) - 1
  <2>2. slot - 1 \in FirstKey .. n
    BY <1>3, <1>4, <1>6 DEF FirstKey
  <2>3. z \in 1 .. Len(Entries) /\ Entries[z] = EntryAt(page, slot - 1)
    BY <1>2, <1>3, <2>2 DEF Layout, EntryAt
  <2>4. z = x - 1
    BY <1>3, <1>4 DEF FirstKey
  <2> HIDE DEF z
  <2>5. out' = With(Entries, SelectedAt, out, z)
    BY <2>1, <2>3, ReturnIs
  <2>6. SelectedAt \in SUBSET (1 .. Len(Entries))
    BY DEF SelectedAt
  <2>7. z = IF query.op \in {"<", "<="} THEN x - 1 ELSE x + 1
    BY <1>1, <2>4
  <2>8. PICK g : /\ Returned(Entries, SelectedAt, query.op, out', g)
                 /\ Reached(Entries, SelectedAt, query.op, query.value, Len(out'), g, z)
    BY <1>2, <1>4, <2>3, <2>5, <2>6, <2>7, NextReached
  <2>9. slot' \in FirstKey .. NumItems(leaves[page'].body) /\ z = off[i] + slot' - 1
    BY <2>1, <2>2 DEF z
  <2> QED
    BY <1>1, <1>2, <1>3, <2>1, <2>8, <2>9, StandsAt
<1> QED
  BY <1>5, <1>6

\* A state in which nothing has been returned yet.
LEMMA StandsNew ==
    ASSUME query'.op \in Ops, query'.value \in Nat, scan' \in {"none", "first"}, out' = <<>>
    PROVE  ScanInv'
<1>1. PICK h : Returned(Entries', SelectedAt', query'.op, <<>>, h)
  BY NothingReturned
<1>2. EndsComplete'
  BY DEF EndsComplete
<1> QED
  BY <1>1, <1>2 DEF ScanInv

\* Every step of the system keeps what a scan keeps.
LEMMA ScanStep ==
    ASSUME TreeInv, ScanStands, ScanInv, [Next]_vars
    PROVE  ScanInv'
<1>1. query.op \in Ops /\ query.value \in Nat
  BY DEF ScanInv
<1>2. CASE Build /\ UNCHANGED scanVars
  <2>1. scan = "none" /\ scan' = "none" /\ out = <<>> /\ out' = out /\ query' = query
    BY <1>2, BuildIsOver DEF scanVars, ScanStands, ScanInv
  <2> QED
    BY <1>1, <2>1, StandsNew
<1>3. ASSUME NEW k \in Keys, InsertRow(k) PROVE ScanInv'
  <2>1. scan' = "none" /\ out' = <<>> /\ query' = query
    BY <1>3 DEF InsertRow, ScanInv
  <2> QED
    BY <1>1, <2>1, StandsNew
<1>4. ASSUME NEW r \in DOMAIN rows, DeleteRow(r) PROVE ScanInv'
  <2>1. scan' = "none" /\ out' = <<>> /\ query' = query
    BY <1>4 DEF DeleteRow, ScanInv
  <2> QED
    BY <1>1, <2>1, StandsNew
<1>5. ASSUME NEW op \in Ops, NEW k \in Keys, IndexCursorInit(op, k) PROVE ScanInv'
  <2>1. k \in Nat
    BY TreeAssumption
  <2>2. scan' = "first" /\ out' = <<>> /\ query'.op = op /\ query'.value = k
    BY <1>5 DEF IndexCursorInit
  <2> QED
    BY <2>1, <2>2, StandsNew
<1>6. CASE CreateRootForScan
  <2>1. scan' = "first" /\ out' = <<>> /\ query' = query
    BY <1>6 DEF CreateRootForScan, scanVars, ScanInv
  <2> QED
    BY <1>1, <2>1, StandsNew
<1>7. CASE BTreeFirst
  BY <1>7, FirstStep
<1>8. CASE GetNextForward
  BY <1>8, ForwardStep
<1>9. CASE GetNextBackward
  BY <1>9, BackwardStep
<1>10. CASE UNCHANGED vars
  <2>1. UNCHANGED treeVars /\ UNCHANGED scanVars
    BY <1>10 DEF vars
  <2>2. Entries' = Entries /\ Chain' = Chain /\ leaves' = leaves /\ root' = root
        /\ SelectedAt' = SelectedAt /\ query' = query /\ scan' = scan /\ out' = out
        /\ page' = page /\ slot' = slot
    BY <2>1, EntriesStay DEF scanVars
  <2>3. EndsComplete'
    BY <2>2 DEF ScanInv, EndsComplete, BoundaryOnRoot, NoKeylessPage, EntryAt
  <2> QED
    BY <2>2, <2>3 DEF ScanInv, At
<1> QED
  BY <1>2, <1>3, <1>4, <1>5, <1>6, <1>7, <1>8, <1>9, <1>10 DEF Next

\* What a scan keeps holds in every state of the system.
LEMMA ScanKeeps == Spec => [](ScanInv /\ ScanStands)
<1>1. Init => ScanInv
  <2> SUFFICES ASSUME Init PROVE ScanInv
    OBVIOUS
  <2>1. query.op \in Ops /\ query.value \in Nat /\ scan = "none" /\ out = <<>>
    BY DEF Init, NoQuery, NoKey, Ops
  <2>2. PICK h : Returned(Entries, SelectedAt, query.op, <<>>, h)
    BY NothingReturned
  <2> QED
    BY <2>1, <2>2 DEF ScanInv, EndsComplete
<1>2. TreeInv /\ ScanStands /\ ScanInv /\ [Next]_vars => ScanInv'
  BY ScanStep
<1>3. Init => ScanStands
  BY DEF Init, ScanStands, CrashExplained
<1>4. TreeInv /\ ScanStands /\ [Next]_vars => ScanStands'
  BY ScanStandsStep
<1> QED
  BY <1>1, <1>2, <1>3, <1>4, TreeStructure, PTL DEF Spec

\* Whatever a scan has returned, over an index whose build was cut short at any
\* write too, is a row of the table with the entry's key that satisfies the WHERE
\* clause, no row twice, and in the order of the keys (BTreeFirst, BTreeGetNext,
\* IdxScan): an incomplete index loses rows and does nothing worse.
THEOREM ScansAreSound == Spec => []ScanSound
<1>1. TreeInv /\ EntriesInv /\ ScanInv => ScanSound
  <2> SUFFICES ASSUME TreeInv, EntriesInv, ScanInv, ~misplaced, NEW i \in DOMAIN out
               PROVE  /\ out[i] \in Selected(rows)
                      /\ \A j \in 1 .. i - 1 :
                            /\ out[j] # out[i]
                            /\ IF Backwards THEN rows[out[j]] >= rows[out[i]]
                               ELSE rows[out[j]] <= rows[out[i]]
    BY DEF ScanSound
  <2>1. EntriesOf(Entries, rows)
    BY DEF EntriesInv
  <2>2. PICK h : Returned(Entries, SelectedAt, query.op, out, h)
    BY DEF ScanInv
  <2>3. out \in Seq(Nat) /\ DOMAIN out = 1 .. Len(out) /\ Len(out) \in Nat /\ i \in 1 .. Len(out)
    BY <2>2 DEF Returned
  <2>4. DOMAIN rows = 1 .. Len(rows)
    BY DEF TreeInv
  <2>5. \A k \in 1 .. Len(out) :
            /\ h[k] \in 1 .. Len(Entries) /\ h[k] \in SelectedAt /\ out[k] = Entries[h[k]].row
            /\ out[k] \in DOMAIN rows /\ rows[out[k]] = Entries[h[k]].key
    BY <2>1, <2>2, <2>4 DEF Returned, EntriesOf
  <2>6. out[i] \in Selected(rows)
    <3>1. Selects(Entries[h[i]].key)
      BY <2>3, <2>5 DEF SelectedAt
    <3> QED
      BY <2>3, <2>5, <3>1 DEF Selected
  <2>7. ASSUME NEW j \in 1 .. i - 1
        PROVE  /\ out[j] # out[i]
               /\ IF Backwards THEN rows[out[j]] >= rows[out[i]]
                  ELSE rows[out[j]] <= rows[out[i]]
    <3>1. j \in 1 .. Len(out) /\ j < i
      BY <2>3
    <3>2. IF Backwards THEN h[i] < h[j] ELSE h[j] < h[i]
      BY <2>2, <2>3, <3>1 DEF Returned, Backwards
    <3>3. h[i] \in 1 .. Len(Entries) /\ h[j] \in 1 .. Len(Entries)
      BY <2>3, <2>5, <3>1
    <3>4. \A x, y \in 1 .. Len(Entries) :
              x < y => Entries[x].key <= Entries[y].key /\ Entries[x].row # Entries[y].row
      BY <2>1 DEF EntriesOf
    <3>5. CASE Backwards
      <4>1. Entries[h[i]].key <= Entries[h[j]].key /\ Entries[h[i]].row # Entries[h[j]].row
        BY <3>2, <3>3, <3>4, <3>5
      <4>2. rows[out[i]] <= rows[out[j]] /\ out[j] # out[i]
        BY <2>3, <2>5, <3>1, <4>1
      <4>3. rows[out[i]] \in Nat /\ rows[out[j]] \in Nat
        <5>1. rows \in Seq(Keys) /\ Keys \subseteq Nat
          BY TreeAssumption DEF TreeInv
        <5>2. \A r \in DOMAIN rows : rows[r] \in Nat
          <6>1. ASSUME NEW r \in DOMAIN rows PROVE rows[r] \in Nat
            <7>1. r \in 1 .. Len(rows)
              BY <2>4
            <7>2. rows[r] \in Keys
              BY <5>1, <7>1, ElementOfSeq
            <7> QED
              BY <5>1, <7>2
          <6> QED
            BY <6>1
        <5>3. out[i] \in DOMAIN rows /\ out[j] \in DOMAIN rows
          BY <2>3, <2>5, <3>1
        <5> QED
          BY <5>2, <5>3
      <4> QED
        BY <3>5, <4>2, <4>3
    <3>6. CASE ~Backwards
      <4>1. Entries[h[j]].key <= Entries[h[i]].key /\ Entries[h[j]].row # Entries[h[i]].row
        BY <3>2, <3>3, <3>4, <3>6
      <4> QED
        BY <2>3, <2>5, <3>1, <3>6, <4>1
    <3> QED
      BY <3>5, <3>6
  <2> QED
    BY <2>6, <2>7
<1> QED
  BY <1>1, TreeStructure, EntriesInOrder, ScanKeeps, PTL

\* A scan for =, > or >= over a finished index returns each row that satisfies the
\* WHERE clause, if the boundary is on the root page, on which BTreeFirst looks, and
\* no split has left a page without keys, at which BTreeGetNext ends.
THEOREM ForwardScansComplete == Spec => []ForwardScanComplete
<1>1. TreeInv /\ EntriesInv /\ ScanInv => ForwardScanComplete
  <2> SUFFICES ASSUME TreeInv, EntriesInv, ScanInv,
                      scan = "end", phase = "done", query.op \in {"=", ">", ">="},
                      BoundaryOnRoot, NoKeylessPage, ~misplaced
               PROVE  ToSet(out) = Selected(rows)
    BY DEF ForwardScanComplete
  <2>1. EntriesOf(Entries, rows) /\ AllOf(Entries, rows)
    BY DEF EntriesInv
  <2>2. PICK h : Returned(Entries, SelectedAt, query.op, out, h)
    BY DEF ScanInv
  <2>3. DOMAIN out = 1 .. Len(out) /\ DOMAIN rows = 1 .. Len(rows)
    BY <2>2 DEF Returned, TreeInv
  <2>4. ASSUME NEW k \in 1 .. Len(out) PROVE out[k] \in Selected(rows)
    <3>1. h[k] \in 1 .. Len(Entries) /\ Selects(Entries[h[k]].key) /\ out[k] = Entries[h[k]].row
      BY <2>2 DEF Returned, SelectedAt
    <3>2. out[k] \in DOMAIN rows /\ rows[out[k]] = Entries[h[k]].key
      BY <2>1, <2>3, <3>1 DEF EntriesOf
    <3> QED
      BY <3>1, <3>2 DEF Selected
  <2>5. ASSUME NEW r \in Selected(rows) PROVE r \in ToSet(out)
    <3>1. r \in 1 .. Len(rows) /\ Selects(rows[r])
      BY <2>3 DEF Selected
    <3>2. PICK x \in 1 .. Len(Entries) : Entries[x] = Entry(rows[r], r)
      BY <2>1, <3>1 DEF AllOf
    <3>3. Entries[x].key = rows[r] /\ Entries[x].row = r
      BY <3>2 DEF Entry
    <3>4. x \in SelectedAt
      BY <3>1, <3>3 DEF SelectedAt
    <3> QED
      BY <3>3, <3>4 DEF ScanInv, EndsComplete
  <2>6. ToSet(out) \subseteq Selected(rows)
    BY <2>3, <2>4 DEF ToSet
  <2> QED
    BY <2>5, <2>6
<1> QED
  BY <1>1, TreeStructure, EntriesInOrder, ScanKeeps, PTL
=============================================================================
