-------------------------- MODULE SlottedPageProofs --------------------------
(***************************************************************************)
(* Proofs about SlottedPage, for every page size, reserve, set of items    *)
(* and sizes that the assumptions of SlottedPage allow.                    *)
(***************************************************************************)
EXTENDS SlottedPage, SequenceLemmas

\* The types, and the sound layout as long as the free space never wrapped.
\* TypeOK alone is not inductive: PageRemoveLoc copies bytes from behind the
\* loc array, which stay inside the page only because the layout is sound.
IInv == TypeOK /\ IntactUnlessWrapped

USE DEF HeaderSize, LocSize

\* A 16 bit value is its own remainder, and every remainder has 16 bits.
LEMMA U16Facts ==
    /\ Max16 \in Nat
    /\ \A n \in UInt16 : U16(n) = n
    /\ \A n \in Int : U16(n) \in UInt16
<1>1. Max16 \in Nat
  BY DEF Max16
<1>2. ASSUME NEW n \in UInt16
      PROVE  U16(n) = n
  BY <1>1 DEF U16, UInt16
<1>3. ASSUME NEW n \in Int
      PROVE  U16(n) \in UInt16
  BY <1>1 DEF U16, UInt16
<1> QED
  BY <1>1, <1>2, <1>3

-----------------------------------------------------------------------------
\* An initialised page is sound.
LEMMA InitEstablishesIInv == PageInit => IInv
<1> SUFFICES ASSUME PageInit PROVE IInv
  OBVIOUS
<1>1. Special \in Int /\ Special - 1 \in UInt16 /\ Special - 1 >= HeaderSize
  BY PageSizeAssumption, ReserveAssumption, U16Facts DEF Special, UInt16
<1>2. locs = <<>> /\ Len(locs) = 0 /\ Id = {}
  BY DEF PageInit, Id
<1>3. TypeOK
  <2>1. FreeByte \in Bytes
    BY DEF FreeByte, Bytes
  <2>2. mem \in [Addr -> Bytes]
    BY <2>1 DEF PageInit
  <2>3. locs \in Seq(Locs)
    BY <1>2
  <2>4. freeLower \in UInt16 /\ freeUpper \in UInt16
    BY <1>1, U16Facts DEF PageInit, UInt16
  <2> QED
    BY <2>2, <2>3, <2>4 DEF PageInit, TypeOK
<1>4. PageIntact /\ NoSpaceLeak
  BY <1>1, <1>2 DEF PageInit, PageIntact, NoSpaceLeak, LocArrayFits,
     ItemsInDataArea, ItemsDisjoint, ItemBytesIntact, SlotsIntact
<1> QED
  BY <1>3, <1>4 DEF IInv, IntactUnlessWrapped, PageSound

\* The loc made for an item has the type of a loc.
LEMMA NewLocType ==
    ASSUME TypeOK, NEW x \in Items
    PROVE  NewLoc(SizeOf[x]) \in Locs
<1>1. SizeOf[x] \in UInt16
  BY PageSizeAssumption, SizeAssumption, U16Facts DEF UInt16
<1>2. freeUpper - SizeOf[x] + 1 \in Int
  BY <1>1, U16Facts DEF TypeOK, UInt16
<1>3. U16(freeUpper - SizeOf[x] + 1) \in UInt16
  BY <1>2, U16Facts
<1> QED
  BY <1>1, <1>3, Zenon DEF NewLoc, Locs

\* newLocs is locs with one loc more, at position p.
OneMore(newLocs, p, loc) ==
    /\ newLocs \in Seq(Locs)
    /\ Len(newLocs) = Len(locs) + 1
    /\ newLocs[p] = loc
    /\ \A j \in 1 .. Len(locs) + 1 : j < p => newLocs[j] = locs[j]
    /\ \A j \in 1 .. Len(locs) + 1 : j > p => newLocs[j] = locs[j - 1]

\* Adding an item, wherever its loc goes, keeps the layout sound unless the
\* free space wrapped: the item takes bytes that nothing else owned.  What the
\* page's users see of it: the span shrinks by the item and a loc, the new loc
\* leads to the item, and the other locs lead to what they led to.
LEMMA PlaceItemEffect ==
    ASSUME IInv,
           NEW x \in Items,
           NEW p \in 1 .. Len(locs) + 1,
           NEW newLocs,
           OneMore(newLocs, p, NewLoc(SizeOf[x])),
           PlaceItem(x, newLocs)
    PROVE  /\ IInv'
           /\ ~wrapped' =>
                 /\ SizeOf[x] + LocSize <= freeUpper - freeLower
                 /\ freeUpper' - freeLower' =
                       (freeUpper - freeLower) - (SizeOf[x] + LocSize)
                 /\ mem'[newLocs[p].offset].of = x
                 /\ newLocs[p].dead = FALSE
                 /\ \A l \in Id : mem'[locs[l].offset] = mem[locs[l].offset]
<1> DEFINE size == SizeOf[x]
           loc  == NewLoc(size)
           Old(j) == IF j < p THEN j ELSE j - 1
<1>1. size \in 1 .. Max16 /\ size < PageSize
  BY PageSizeAssumption, SizeAssumption, U16Facts
<1>2. /\ TypeOK
      /\ ~wrapped
      /\ PageIntact
      /\ NoSpaceLeak
  BY DEF IInv, IntactUnlessWrapped, PageSound, PlaceItem
<1>3. loc \in Locs
  BY <1>2, NewLocType
<1>4. /\ locs' = newLocs
      /\ mem' = Store(x, loc)
      /\ freeLower' = U16(freeLower + LocSize)
      /\ freeUpper' = U16(loc.offset - 1)
      /\ wrapped' = Wraps
      /\ HasSpace(size)
  BY DEF PlaceItem
<1>5. TypeOK'
  <2>1. freeLower' \in UInt16 /\ freeUpper' \in UInt16
    <3>1. freeLower + LocSize \in Int /\ loc.offset - 1 \in Int
      BY <1>2, <1>3, U16Facts DEF TypeOK, Locs, UInt16
    <3> QED
      BY <1>4, <3>1, U16Facts
  <2>2. wrapped' \in BOOLEAN
    BY <1>4 DEF Wraps
  <2>3. ASSUME NEW a \in Addr
        PROVE  Store(x, loc)[a] \in Bytes
    <3>1. CASE a \in LocBytes(loc)
      <4>1. a - loc.offset \in Nat
        BY <1>3, <3>1 DEF LocBytes, Locs, UInt16, Addr
      <4> QED
        BY <3>1, <4>1 DEF Store, Bytes, ItemByte
    <3>2. CASE a \notin LocBytes(loc)
      BY <1>2, <3>2 DEF Store, Bytes, SlotByte, TypeOK
    <3> QED
      BY <3>1, <3>2
  <2>4. mem' \in [Addr -> Bytes]
    BY <1>4, <2>3 DEF Store
  <2> QED
    BY <1>4, <2>1, <2>2, <2>4 DEF TypeOK, OneMore
<1>6. ASSUME ~wrapped'
      PROVE  /\ PageIntact' /\ NoSpaceLeak'
             /\ size + LocSize <= freeUpper - freeLower
             /\ freeUpper' - freeLower' = (freeUpper - freeLower) - (size + LocSize)
             /\ mem'[newLocs[p].offset].of = x
             /\ newLocs[p].dead = FALSE
             /\ \A l \in Id : mem'[locs[l].offset] = mem[locs[l].offset]
  <2>1. /\ Special \in 0 .. Max16
        /\ freeLower \in 8 .. Max16
        /\ freeUpper \in 0 .. Max16
        /\ Max16 \in Nat
        /\ freeLower = HeaderSize + LocSize * Len(locs)
        /\ freeUpper < Special
        /\ Special <= PageSize
        /\ PageSize \in Nat
        /\ Len(locs) \in Nat
    BY <1>2, PageSizeAssumption, ReserveAssumption, U16Facts
    DEF PageIntact, LocArrayFits, TypeOK, Special, UInt16
  <2>2. freeUpper - freeLower - LocSize >= size
    BY <1>4, <1>6 DEF HasSpace
  <2>3. loc = [offset |-> freeUpper - size + 1, length |-> size, dead |-> FALSE]
    <3>1. freeUpper - size + 1 \in UInt16
      BY <1>1, <2>1, <2>2, SMTT(30) DEF UInt16
    <3> QED
      BY <3>1, U16Facts DEF NewLoc
  <2>3a. loc.offset = freeUpper - size + 1 /\ loc.length = size
    BY <2>3
  <2>4. freeLower' = freeLower + LocSize
    <3>1. freeLower + LocSize \in UInt16
      BY <1>1, <2>1, <2>2 DEF UInt16
    <3> QED
      BY <1>4, <3>1, U16Facts
  <2>5. freeUpper' = freeUpper - size
    <3>1. /\ loc.offset - 1 = freeUpper - size
          /\ freeUpper - size \in UInt16
      BY <1>1, <2>1, <2>2, <2>3, SMTT(30), ZenonT(30) DEF UInt16
    <3> QED
      BY <1>4, <3>1, U16Facts
  <2>6. /\ Id' = 1 .. Len(locs) + 1
        /\ p \in Id'
        /\ locs'[p] = loc
    BY <1>4, <2>1 DEF Id, OneMore
  <2>6a. ASSUME NEW j \in Id', j # p
         PROVE  Old(j) \in Id /\ locs'[j] = locs[Old(j)]
    <3>1. CASE j < p
      BY <1>4, <2>1, <2>6, <3>1 DEF Id, OneMore
    <3>2. CASE j > p
      BY <1>4, <2>1, <2>6, <3>2 DEF Id, OneMore
    <3> QED
      BY <2>1, <2>6, <2>6a, <3>1, <3>2
  <2>6b. ASSUME NEW j \in Id', NEW k \in Id', j # p, k # p, j # k
         PROVE  Old(j) # Old(k)
    BY <2>1, <2>6, <2>6b
  <2>7. \A l \in Id : locs[l] \in Locs
    BY <1>2 DEF TypeOK, Id
  <2>8. \A l \in Id : /\ freeUpper < locs[l].offset
                      /\ locs[l].length > 0
                      /\ locs[l].offset + locs[l].length <= Special
    BY <1>2 DEF PageIntact, ItemsInDataArea
  <2> HIDE DEF loc, size, Old
  <2>10. LocArrayFits'
    <3>1. Len(locs') = Len(locs) + 1
      BY <1>4 DEF OneMore
    <3> QED
      BY <1>1, <2>1, <2>2, <2>4, <2>5, <3>1 DEF LocArrayFits, Special
  <2>11. ItemsInDataArea'
    <3> SUFFICES ASSUME NEW j \in Id'
                 PROVE  /\ freeUpper' < locs'[j].offset
                        /\ locs'[j].length > 0
                        /\ locs'[j].offset + locs'[j].length <= Special
      BY DEF ItemsInDataArea, Special
    <3>1. CASE j = p
      BY <1>1, <2>1, <2>3, <2>5, <2>6, <3>1
    <3>2. CASE j # p
      BY <1>1, <2>1, <2>5, <2>6a, <2>7, <2>8, <3>2, SMTT(30), ZenonT(30) DEF Locs, UInt16
    <3> QED
      BY <3>1, <3>2
  <2>12. ItemsDisjoint'
    <3> SUFFICES ASSUME NEW j \in Id', NEW k \in Id', j # k
                 PROVE  \/ locs'[j].offset + locs'[j].length <= locs'[k].offset
                        \/ locs'[k].offset + locs'[k].length <= locs'[j].offset
      BY DEF ItemsDisjoint
    <3>1. CASE j = p
      <4>1. locs'[k] \in Locs /\ freeUpper < locs'[k].offset
        BY <2>6a, <2>7, <2>8, <3>1
      <4>2. locs'[k].offset \in Nat
        BY <2>1, <4>1 DEF Locs, UInt16
      <4>3. locs'[j].offset + locs'[j].length = freeUpper + 1
        BY <1>1, <2>1, <2>3a, <2>6, <3>1
      <4> QED
        BY <2>1, <4>1, <4>2, <4>3
    <3>2. CASE k = p
      <4>1. locs'[j] \in Locs /\ freeUpper < locs'[j].offset
        BY <2>6a, <2>7, <2>8, <3>2
      <4>2. locs'[j].offset \in Nat
        BY <2>1, <4>1 DEF Locs, UInt16
      <4>3. locs'[k].offset + locs'[k].length = freeUpper + 1
        BY <1>1, <2>1, <2>3a, <2>6, <3>2
      <4> QED
        BY <2>1, <4>1, <4>2, <4>3
    <3>3. CASE j # p /\ k # p
      BY <1>2, <2>6a, <2>6b, <3>3 DEF PageIntact, ItemsDisjoint
    <3> QED
      BY <3>1, <3>2, <3>3
  <2>13. \A a \in Addr : a > freeUpper => mem'[a] = mem[a]
    BY <1>1, <1>4, <2>1, <2>2, <2>3 DEF Store, LocBytes, Addr
  <2>14. ItemBytesIntact'
    <3> SUFFICES ASSUME NEW j \in Id'
                 PROVE  \E y \in Items :
                            /\ locs'[j].length = SizeOf[y]
                            /\ \A k \in 0 .. SizeOf[y] - 1 :
                                   mem'[locs'[j].offset + k] = ItemByte(y, k)
      BY DEF ItemBytesIntact, ItemByte
    <3>1. CASE j = p
      <4>1. ASSUME NEW k \in 0 .. size - 1
            PROVE  mem'[loc.offset + k] = ItemByte(x, k)
        <5>1. /\ loc.offset + k \in Addr
              /\ loc.offset + k \in LocBytes(loc)
              /\ (loc.offset + k) - loc.offset = k
          BY <1>1, <2>1, <2>2, <2>3a DEF LocBytes, Addr
        <5> QED
          BY <1>4, <5>1 DEF Store
      <4> QED
        BY <2>3, <2>6, <3>1, <4>1 DEF size
    <3>2. CASE j # p
      <4>1. PICK y \in Items :
                /\ locs[Old(j)].length = SizeOf[y]
                /\ \A k \in 0 .. SizeOf[y] - 1 :
                       mem[locs[Old(j)].offset + k] = ItemByte(y, k)
        BY <1>2, <2>6a, <3>2 DEF PageIntact, ItemBytesIntact
      <4>2. ASSUME NEW k \in 0 .. SizeOf[y] - 1
            PROVE  mem'[locs'[j].offset + k] = ItemByte(y, k)
        <5>1. /\ locs'[j] = locs[Old(j)]
              /\ locs[Old(j)].offset + k \in Addr
              /\ locs[Old(j)].offset + k > freeUpper
          <6>1. locs'[j] = locs[Old(j)] /\ Old(j) \in Id
            BY <2>6a, <3>2
          <6>2. /\ locs[Old(j)].offset \in Nat
                /\ freeUpper < locs[Old(j)].offset
                /\ locs[Old(j)].offset + SizeOf[y] <= Special
            BY <2>1, <2>7, <2>8, <4>1, <6>1 DEF Locs, UInt16
          <6>3. SizeOf[y] \in Nat /\ k < SizeOf[y] /\ k \in Nat
            BY SizeAssumption, <2>1
          <6> QED
            <7> DEFINE o == locs[Old(j)].offset
            <7>1. o \in Nat /\ freeUpper < o /\ o + SizeOf[y] <= Special
              BY <6>2
            <7> HIDE DEF o
            <7>2. o + k \in Addr /\ o + k > freeUpper
              BY <2>1, <6>3, <7>1 DEF Addr
            <7> QED
              BY <6>1, <7>2 DEF o
        <5> QED
          BY <2>13, <4>1, <5>1
      <4> QED
        BY <2>6a, <3>2, <4>1, <4>2
    <3> QED
      BY <3>1, <3>2
  <2>15. SlotsIntact'
    <3> SUFFICES ASSUME NEW a \in HeaderSize .. freeLower' - 1
                 PROVE  mem'[a] = SlotByte
      BY DEF SlotsIntact, SlotByte
    <3>1. a \in Addr /\ a \notin LocBytes(loc)
      BY <1>1, <2>1, <2>2, <2>3a, <2>4 DEF LocBytes, Addr
    <3>2. a < freeLower => mem[a] = SlotByte
      BY <1>2, <2>1, <2>4 DEF PageIntact, SlotsIntact
    <3> QED
      BY <1>4, <2>1, <2>4, <3>1, <3>2 DEF Store
  <2>16. NoSpaceLeak'
    <3> SUFFICES ASSUME NEW a \in freeUpper' + 1 .. Special - 1
                 PROVE  \E j \in Id' : a \in LocBytes(locs'[j])
      BY DEF NoSpaceLeak, Special, LocBytes
    <3>1. CASE a <= freeUpper
      BY <1>1, <2>1, <2>3, <2>5, <2>6, <3>1 DEF LocBytes
    <3>2. CASE a > freeUpper
      <4>1. PICK l \in Id : a \in LocBytes(locs[l])
        BY <1>2, <2>1, <3>2 DEF NoSpaceLeak
      <4>2. PICK j \in Id' : locs'[j] = locs[l]
        <5>1. CASE l < p
          <6>1. l \in 1 .. Len(locs) + 1
            BY <2>1 DEF Id
          <6>2. locs'[l] = locs[l]
            BY <1>4, <5>1, <6>1 DEF OneMore
          <6> QED
            BY <2>6, <6>1, <6>2
        <5>2. CASE l >= p
          <6>1. l + 1 \in 1 .. Len(locs) + 1 /\ l + 1 # p /\ ~(l + 1 < p)
            BY <2>1, <5>2 DEF Id
          <6>2. (l + 1) - 1 = l /\ l + 1 > p
            BY <2>1, <5>2 DEF Id
          <6>3. locs'[l + 1] = locs[l]
            BY <1>4, <6>1, <6>2 DEF OneMore
          <6> QED
            BY <2>6, <6>1, <6>3
        <5> QED
          BY <2>1, <5>1, <5>2 DEF Id
      <4> QED
        BY <4>1, <4>2
    <3> QED
      BY <1>1, <2>1, <2>5, <3>1, <3>2
  <2>17. /\ size + LocSize <= freeUpper - freeLower
         /\ freeUpper' - freeLower' = (freeUpper - freeLower) - (size + LocSize)
    BY <1>1, <2>1, <2>2, <2>4, <2>5
  <2>18. mem'[newLocs[p].offset].of = x /\ newLocs[p].dead = FALSE
    <3>1. loc.offset \in Addr /\ loc.offset \in LocBytes(loc)
      BY <1>1, <2>1, <2>2, <2>3a DEF LocBytes, Addr
    <3>2. mem'[loc.offset] = ItemByte(x, loc.offset - loc.offset)
      BY <1>4, <3>1 DEF Store
    <3> QED
      BY <1>4, <2>3, <2>6, <3>2 DEF ItemByte
  <2>19. \A l \in Id : mem'[locs[l].offset] = mem[locs[l].offset]
    <3> SUFFICES ASSUME NEW l \in Id
                 PROVE  mem'[locs[l].offset] = mem[locs[l].offset]
      OBVIOUS
    <3> DEFINE o == locs[l].offset
               n == locs[l].length
    <3>1. o \in Nat /\ n \in Nat
      BY <2>1, <2>7 DEF Locs, UInt16
    <3>2. freeUpper < o /\ n > 0 /\ o + n <= Special
      BY <2>8
    <3> HIDE DEF o, n
    <3>3. o \in Addr /\ o > freeUpper
      BY <2>1, <3>1, <3>2 DEF Addr
    <3> QED
      BY <2>13, <3>3 DEF o
  <2> QED
    BY <2>10, <2>11, <2>12, <2>14, <2>15, <2>16, <2>17, <2>18, <2>19
    DEF PageIntact
<1> QED
  BY <1>5, <1>6 DEF IInv, IntactUnlessWrapped, PageSound

\* Marking a loc dead moves no byte.
LEMMA DeleteKeepsIInv ==
    ASSUME IInv, NEW l \in Id, PageDeleteItem(l)
    PROVE  IInv'
<1>1. /\ ~wrapped
      /\ locs' = [locs EXCEPT ![l].dead = TRUE]
      /\ UNCHANGED <<freeLower, freeUpper, mem, wrapped>>
  BY DEF PageDeleteItem
<1>2. TypeOK /\ PageIntact /\ NoSpaceLeak
  BY <1>1 DEF IInv, IntactUnlessWrapped, PageSound
<1>3. locs' \in Seq(Locs) /\ Len(locs') = Len(locs)
  <2>1. [locs[l] EXCEPT !.dead = TRUE] \in Locs
    <3>1. locs[l] \in Locs
      BY <1>2 DEF TypeOK, Id
    <3> QED
      BY <3>1 DEF Locs
  <2> QED
    BY <1>1, <1>2, <2>1, ExceptSeq DEF TypeOK, Id
<1>4. Id' = Id
  BY <1>3 DEF Id
<1>5. ASSUME NEW m \in Id
      PROVE  locs'[m].offset = locs[m].offset /\ locs'[m].length = locs[m].length
  <2>1. locs[m] \in Locs /\ m \in DOMAIN locs
    BY <1>2 DEF TypeOK, Id
  <2>2. locs'[m] = IF m = l THEN [locs[m] EXCEPT !.dead = TRUE] ELSE locs[m]
    BY <1>1, <2>1
  <2> QED
    BY <2>1, <2>2 DEF Locs
<1>6. TypeOK'
  BY <1>1, <1>2, <1>3 DEF TypeOK
<1>7. LocArrayFits' /\ SlotsIntact'
  BY <1>1, <1>2, <1>3
  DEF PageIntact, LocArrayFits, SlotsIntact, SlotByte, Special
<1>8. ItemsInDataArea'
  BY <1>1, <1>2, <1>4, <1>5 DEF PageIntact, ItemsInDataArea, Special
<1>9. ItemsDisjoint'
  BY <1>1, <1>2, <1>4, <1>5 DEF PageIntact, ItemsDisjoint
<1>10. ItemBytesIntact'
  BY <1>1, <1>2, <1>4, <1>5 DEF PageIntact, ItemBytesIntact, ItemByte
<1>11. NoSpaceLeak'
  BY <1>1, <1>2, <1>4, <1>5 DEF NoSpaceLeak, LocBytes, Special
<1> QED
  BY <1>6, <1>7, <1>8, <1>9, <1>10, <1>11
  DEF IInv, IntactUnlessWrapped, PageSound, PageIntact

\* The position that item m had before the item at l was removed.
Before(m, l) == IF m < l THEN m ELSE m + 1

\* Removing a loc closes the gap its item leaves: the items below it move up
\* by its length together with their offsets, the items above it stay.
LEMMA RemoveEffect ==
    ASSUME IInv, NEW l \in Id, PageRemoveLoc(l)
    PROVE  /\ IInv'
           /\ Len(locs') = Len(locs) - 1
           /\ freeUpper' - freeLower' =
                 (freeUpper - freeLower) + (locs[l].length + LocSize)
           /\ \A m \in 1 .. Len(locs) - 1 :
                 /\ mem'[locs'[m].offset] = mem[locs[Before(m, l)].offset]
                 /\ locs'[m].dead = locs[Before(m, l)].dead
<1> DEFINE off == locs[l].offset
           len == locs[l].length
<1>1. /\ ~wrapped
      /\ Reserve > 0
      /\ locs' = [m \in 1 .. Len(locs) - 1 |->
                     ShiftLoc(RemoveAt(locs, l)[m], locs[l])]
      /\ mem' = CloseGap(locs[l])
      /\ freeLower' = U16(freeLower - LocSize)
      /\ freeUpper' = GrownUpper(locs[l])
      /\ wrapped' = wrapped
  BY DEF PageRemoveLoc
<1>2. TypeOK /\ PageIntact /\ NoSpaceLeak
  BY <1>1 DEF IInv, IntactUnlessWrapped, PageSound
<1>3. /\ Special \in 0 .. Max16
      /\ Special + LocSize <= PageSize
      /\ freeLower \in 8 .. Max16
      /\ freeUpper \in 0 .. Max16
      /\ Max16 \in Nat
      /\ freeLower = HeaderSize + LocSize * Len(locs)
      /\ freeLower <= freeUpper
      /\ freeUpper < Special
      /\ PageSize \in Nat
      /\ PageSize <= Max16
      /\ Len(locs) \in Nat
      /\ l \in 1 .. Len(locs)
  BY <1>1, <1>2, PageSizeAssumption, ReserveAssumption, U16Facts
  DEF PageIntact, LocArrayFits, TypeOK, Special, UInt16, Id
<1>4. \A q \in Id : /\ locs[q] \in Locs
                    /\ locs[q].offset \in Nat
                    /\ locs[q].length \in Nat
  <2>1. \A q \in Id : locs[q] \in Locs
    BY <1>2 DEF TypeOK, Id
  <2>2. \A loc \in Locs : loc.offset \in Nat /\ loc.length \in Nat
    BY <1>3 DEF Locs, UInt16
  <2> QED
    BY <2>1, <2>2
<1>5. \A q \in Id : /\ freeUpper < locs[q].offset
                    /\ locs[q].length > 0
                    /\ locs[q].offset + locs[q].length <= Special
  BY <1>2 DEF PageIntact, ItemsInDataArea
<1>6. /\ off \in Nat
      /\ len \in Nat
      /\ freeUpper < off
      /\ len > 0
      /\ off + len <= Special
  BY <1>4, <1>5
<1>6a. \A n \in Int : 0 <= n /\ n <= Special => n \in UInt16
  BY <1>3 DEF UInt16
<1>6b. \A n \in Int : 0 <= n /\ n < Special => n \in Addr
  BY <1>3 DEF Addr
<1>7. ASSUME NEW q \in Id, q # l
      PROVE  \/ locs[q].offset + locs[q].length <= off
             \/ off + len <= locs[q].offset
  BY <1>2, <1>7 DEF PageIntact, ItemsDisjoint
<1> HIDE DEF off, len
<1>8. /\ freeLower' = freeLower - LocSize
      /\ freeUpper' = freeUpper + len
  <2>1. freeLower - LocSize \in UInt16 /\ freeUpper + len \in UInt16
    BY <1>3, <1>6 DEF UInt16
  <2> QED
    BY <1>1, <2>1, U16Facts DEF GrownUpper, len
<1>9. /\ Len(locs') = Len(locs) - 1
      /\ Id' = 1 .. Len(locs) - 1
  BY <1>1, <1>3 DEF Id
<1>10. ASSUME NEW m \in Id'
       PROVE  /\ Before(m, l) \in Id
              /\ Before(m, l) # l
              /\ locs'[m] = ShiftLoc(locs[Before(m, l)], locs[l])
  <2>1. locs'[m] = ShiftLoc(RemoveAt(locs, l)[m], locs[l])
    BY <1>1, <1>9
  <2>2. RemoveAt(locs, l)[m] = IF m < l THEN locs[m] ELSE locs[m + 1]
    BY <1>2, <1>3, <1>9, RemoveAtFacts DEF TypeOK
  <2>3. CASE m < l
    <3>1. Before(m, l) = m
      BY <2>3 DEF Before
    <3> QED
      BY <1>3, <1>9, <2>1, <2>2, <2>3, <3>1 DEF Id
  <2>4. CASE ~(m < l)
    <3>1. Before(m, l) = m + 1
      BY <2>4 DEF Before
    <3> QED
      BY <1>3, <1>9, <2>1, <2>2, <2>4, <3>1 DEF Id
  <2> QED
    BY <2>3, <2>4
<1>11. \A m, n \in Id' : m # n => Before(m, l) # Before(n, l)
  BY <1>3, <1>9 DEF Before
<1>12. ASSUME NEW q \in Id, q # l
       PROVE  \E m \in Id' : Before(m, l) = q
  <2>1. CASE q < l
    BY <1>3, <1>9, <2>1, SMTT(30) DEF Before, Id
  <2>2. CASE q > l
    <3>1. q - 1 \in Id' /\ Before(q - 1, l) = q
      BY <1>3, <1>9, <2>2 DEF Before, Id
    <3> QED
      BY <3>1
  <2> QED
    BY <1>3, <1>12, <2>1, <2>2 DEF Id
\* An item below the removed one moves, an item above it stays.
<1>13. ASSUME NEW q \in Id, q # l
       PROVE  LET new == ShiftLoc(locs[q], locs[l])
              IN  /\ new \in Locs
                  /\ new.length = locs[q].length
                  /\ new.dead = locs[q].dead
                  /\ \/ /\ locs[q].offset + locs[q].length <= off
                        /\ new.offset = locs[q].offset + len
                     \/ /\ off + len <= locs[q].offset
                        /\ new.offset = locs[q].offset
  <2>1. CASE locs[q].offset + locs[q].length <= off
    <3>1. locs[q].offset <= locs[l].offset
      BY <1>4, <1>6, <2>1 DEF off
    <3>2. locs[q].offset + len \in UInt16
      <4>1. /\ locs[q].offset + len \in Int
            /\ 0 <= locs[q].offset + len
            /\ locs[q].offset + len <= Special
        <5> DEFINE o == locs[q].offset
                   n == locs[q].length
        <5>1. o \in Nat /\ n \in Nat /\ o + n <= off /\ Special \in Nat
          BY <1>3, <1>4, <2>1
        <5>2. n > 0
          BY <1>5
        <5> HIDE DEF o, n
        <5>3. o + len \in Int /\ 0 <= o + len /\ o + len <= Special
          BY <1>6, <5>1, <5>2
        <5> QED
          BY <5>3 DEF o
      <4> QED
        BY <1>6a, <4>1
    <3>3. ShiftLoc(locs[q], locs[l]) =
              [locs[q] EXCEPT !.offset = locs[q].offset + len]
      BY <3>1, <3>2, U16Facts DEF ShiftLoc, len
    <3> QED
      BY <1>4, <2>1, <3>2, <3>3 DEF Locs
  <2>2. CASE off + len <= locs[q].offset
    <3>1. ~(locs[q].offset <= locs[l].offset)
      BY <1>4, <1>6, <2>2 DEF off
    <3>2. ShiftLoc(locs[q], locs[l]) = locs[q]
      BY <3>1 DEF ShiftLoc
    <3> QED
      BY <1>4, <2>2, <3>2
  <2> QED
    BY <1>7, <1>13, <2>1, <2>2
\* What the removal does to the bytes, away from the slot that goes.
<1>14. ASSUME NEW a \in Addr
       PROVE  /\ a < freeLower - LocSize => mem'[a] = mem[a]
              /\ a >= off + len => mem'[a] = mem[a]
              /\ a > freeUpper + len /\ a < off + len => mem'[a] = mem[a - len]
  <2>1. mem'[a] =
            IF a \in freeLower - LocSize .. freeLower - 1 THEN mem[a + LocSize]
            ELSE IF a \in freeUpper + len .. off + len - 1 THEN mem[a - len]
            ELSE mem[a]
    BY <1>1 DEF CloseGap, off, len
  <2>2. a \in Int
    BY DEF Addr
  <2>3. /\ freeLower \in Int
        /\ freeUpper \in Int
        /\ freeLower <= freeUpper
        /\ off \in Int
        /\ len \in Int
        /\ len > 0
        /\ freeUpper < off
    BY <1>3, <1>6
  <2> QED
    BY <2>1, <2>2, <2>3
<1>15. TypeOK'
  <2>1. freeLower' \in UInt16 /\ freeUpper' \in UInt16
    BY <1>3, <1>6, <1>8 DEF UInt16
  <2>2. locs' \in Seq(Locs)
    <3>1. \A m \in 1 .. Len(locs) - 1 : locs'[m] \in Locs
      BY <1>9, <1>10, <1>13
    <3>2. Len(locs) - 1 \in Nat
      BY <1>3
    <3> QED
      BY <1>1, <3>1, <3>2
  <2>3. ASSUME NEW a \in Addr
        PROVE  CloseGap(locs[l])[a] \in Bytes
    <3>1. CASE a \in freeLower - LocSize .. freeLower - 1
      <4>1. a + LocSize \in Addr
        BY <1>3, <3>1 DEF Addr
      <4> QED
        BY <1>2, <3>1, <4>1 DEF CloseGap, TypeOK
    <3>2. CASE /\ a \notin freeLower - LocSize .. freeLower - 1
               /\ a \in freeUpper + len .. off + len - 1
      <4>1. a - len \in Addr
        BY <1>3, <1>6, <3>2 DEF Addr
      <4> QED
        BY <1>2, <3>2, <4>1 DEF CloseGap, TypeOK, off, len
    <3>3. CASE /\ a \notin freeLower - LocSize .. freeLower - 1
               /\ a \notin freeUpper + len .. off + len - 1
      BY <1>2, <3>3 DEF CloseGap, TypeOK, off, len
    <3> QED
      BY <3>1, <3>2, <3>3
  <2>4. mem' \in [Addr -> Bytes]
    BY <1>1, <2>3 DEF CloseGap
  <2> QED
    BY <1>1, <1>2, <2>1, <2>2, <2>4 DEF TypeOK
<1>16. LocArrayFits'
  BY <1>3, <1>6, <1>8, <1>9, SMTT(30), ZenonT(30) DEF LocArrayFits, Special
<1>17. ItemsInDataArea'
  <2> SUFFICES ASSUME NEW m \in Id'
               PROVE  /\ freeUpper' < locs'[m].offset
                      /\ locs'[m].length > 0
                      /\ locs'[m].offset + locs'[m].length <= Special
    BY DEF ItemsInDataArea, Special
  <2> DEFINE o == locs[Before(m, l)].offset
             n == locs[Before(m, l)].length
  <2>1. o \in Nat /\ n \in Nat /\ freeUpper < o /\ n > 0 /\ o + n <= Special
    BY <1>4, <1>5, <1>10
  <2>2. /\ locs'[m].length = n
        /\ \/ o + n <= off /\ locs'[m].offset = o + len
           \/ off + len <= o /\ locs'[m].offset = o
    BY <1>10, <1>13
  <2> HIDE DEF o, n
  <2>3. /\ freeUpper \in Nat
        /\ Special \in Nat
        /\ freeUpper' = freeUpper + len
    BY <1>3, <1>8
  <2> QED
    BY <1>6, <2>1, <2>2, <2>3
<1>18. ItemsDisjoint'
  <2> SUFFICES ASSUME NEW m \in Id', NEW n \in Id', m # n
               PROVE  \/ locs'[m].offset + locs'[m].length <= locs'[n].offset
                      \/ locs'[n].offset + locs'[n].length <= locs'[m].offset
    BY DEF ItemsDisjoint
  <2>1. \/ locs[Before(m, l)].offset + locs[Before(m, l)].length <= locs[Before(n, l)].offset
        \/ locs[Before(n, l)].offset + locs[Before(n, l)].length <= locs[Before(m, l)].offset
    BY <1>2, <1>10, <1>11 DEF PageIntact, ItemsDisjoint
  <2> QED
    BY <1>4, <1>5, <1>6, <1>10, <1>13, <2>1
<1>19. ItemBytesIntact'
  <2> SUFFICES ASSUME NEW m \in Id'
               PROVE  \E y \in Items :
                          /\ locs'[m].length = SizeOf[y]
                          /\ \A k \in 0 .. SizeOf[y] - 1 :
                                 mem'[locs'[m].offset + k] = ItemByte(y, k)
    BY DEF ItemBytesIntact, ItemByte
  <2> DEFINE q == Before(m, l)
             o == locs[Before(m, l)].offset
  <2>1. q \in Id /\ q # l /\ locs'[m] = ShiftLoc(locs[q], locs[l])
    BY <1>10
  <2>2. PICK y \in Items :
            /\ locs[q].length = SizeOf[y]
            /\ \A k \in 0 .. SizeOf[y] - 1 : mem[o + k] = ItemByte(y, k)
    BY <1>2, <2>1 DEF PageIntact, ItemBytesIntact
  <2>3. /\ locs'[m].length = SizeOf[y]
        /\ \/ o + SizeOf[y] <= off /\ locs'[m].offset = o + len
           \/ off + len <= o /\ locs'[m].offset = o
    BY <1>13, <2>1, <2>2
  <2>4. o \in Nat /\ freeUpper < o /\ o + SizeOf[y] <= Special
    BY <1>4, <1>5, <2>1, <2>2
  <2> HIDE DEF o, q
  <2>5. ASSUME NEW k \in 0 .. SizeOf[y] - 1
        PROVE  mem'[locs'[m].offset + k] = ItemByte(y, k)
    <3>1. k \in Nat /\ k < SizeOf[y] /\ SizeOf[y] \in Nat
      BY <1>3, SizeAssumption
    <3>2. CASE o + SizeOf[y] <= off /\ locs'[m].offset = o + len
      <4>1. /\ (o + len) + k \in Addr
            /\ (o + len) + k > freeUpper + len
            /\ (o + len) + k < off + len
            /\ ((o + len) + k) - len = o + k
        <5>1. Special \in Nat /\ freeUpper \in Nat
          BY <1>3
        <5> QED
          BY <1>6, <1>6b, <2>4, <3>1, <3>2, <5>1
      <4> QED
        BY <1>14, <2>2, <3>2, <4>1
    <3>3. CASE off + len <= o /\ locs'[m].offset = o
      <4>1. o + k \in Addr /\ o + k >= off + len
        <5>1. Special \in Nat
          BY <1>3
        <5> QED
          BY <1>6, <1>6b, <2>4, <3>1, <3>3, <5>1
      <4> QED
        BY <1>14, <2>2, <3>3, <4>1
    <3> QED
      BY <2>3, <3>2, <3>3
  <2> QED
    BY <2>3, <2>5
<1>20. SlotsIntact'
  <2> SUFFICES ASSUME NEW a \in HeaderSize .. freeLower' - 1
               PROVE  mem'[a] = SlotByte
    BY DEF SlotsIntact, SlotByte
  <2>1. a \in Addr /\ a < freeLower - LocSize /\ a \in HeaderSize .. freeLower - 1
    BY <1>3, <1>8 DEF Addr
  <2> QED
    BY <1>2, <1>14, <2>1 DEF PageIntact, SlotsIntact
<1>21. NoSpaceLeak'
  <2> SUFFICES ASSUME NEW a \in freeUpper' + 1 .. Special - 1
               PROVE  \E m \in Id' : a \in LocBytes(locs'[m])
    BY DEF NoSpaceLeak, Special, LocBytes
  <2>0. a \in Int /\ a > freeUpper + len /\ a < Special
    BY <1>3, <1>6, <1>8
  <2>1. CASE a >= off + len
    <3>1. PICK q \in Id : a \in LocBytes(locs[q])
      BY <1>2, <1>3, <1>6, <2>0 DEF NoSpaceLeak
    <3>2. locs[q].offset <= a /\ a < locs[q].offset + locs[q].length
      BY <1>4, <2>0, <3>1 DEF LocBytes
    <3>3. q # l
      BY <1>6, <2>0, <2>1, <3>2 DEF off, len
    <3>4. PICK m \in Id' : Before(m, l) = q
      BY <1>12, <3>3
    <3>5. locs'[m].offset = locs[q].offset /\ locs'[m].length = locs[q].length
      BY <1>4, <1>6, <1>10, <1>13, <2>0, <2>1, <3>2, <3>3, <3>4
    <3> QED
      BY <1>4, <2>0, <3>2, <3>5 DEF LocBytes
  <2>2. CASE a < off + len
    <3>1. PICK q \in Id : a - len \in LocBytes(locs[q])
      BY <1>2, <1>3, <1>6, <2>0, <2>2 DEF NoSpaceLeak
    <3>2. locs[q].offset <= a - len /\ a - len < locs[q].offset + locs[q].length
      BY <1>4, <1>6, <2>0, <3>1 DEF LocBytes
    <3>3. q # l
      BY <1>6, <2>0, <2>2, <3>2 DEF off, len
    <3>4. PICK m \in Id' : Before(m, l) = q
      BY <1>12, <3>3
    <3>5. /\ locs'[m].offset = locs[q].offset + len
          /\ locs'[m].length = locs[q].length
      BY <1>4, <1>6, <1>10, <1>13, <2>0, <2>2, <3>2, <3>3, <3>4
    <3> QED
      BY <1>4, <1>6, <2>0, <3>2, <3>5 DEF LocBytes
  <2> QED
    BY <1>6, <2>0, <2>1, <2>2
<1>22. freeUpper' - freeLower' = (freeUpper - freeLower) + (len + LocSize)
  BY <1>3, <1>6, <1>8
<1>23. ASSUME NEW m \in 1 .. Len(locs) - 1
       PROVE  /\ mem'[locs'[m].offset] = mem[locs[Before(m, l)].offset]
              /\ locs'[m].dead = locs[Before(m, l)].dead
  <2> DEFINE q == Before(m, l)
  <2>1. m \in Id'
    BY <1>9
  <2>2. q \in Id /\ q # l /\ locs'[m] = ShiftLoc(locs[q], locs[l])
    BY <1>10, <2>1
  <2> DEFINE o == locs[q].offset
             n == locs[q].length
  <2>3. /\ locs'[m].dead = locs[q].dead
        /\ \/ o + n <= off /\ locs'[m].offset = o + len
           \/ off + len <= o /\ locs'[m].offset = o
    BY <1>13, <2>2
  <2>4. o \in Nat /\ n \in Nat /\ freeUpper < o /\ n > 0 /\ o + n <= Special
    BY <1>4, <1>5, <2>2
  <2>5. Special \in Nat /\ freeUpper \in Nat
    BY <1>3
  <2>6. mem'[locs'[m].offset] = mem[o]
    <3> HIDE DEF o, n, q
    <3>1. CASE o + n <= off /\ locs'[m].offset = o + len
      <4>1. /\ o + len \in Addr
            /\ o + len > freeUpper + len
            /\ o + len < off + len
            /\ (o + len) - len = o
        BY <1>6, <1>6b, <2>4, <2>5, <3>1
      <4> QED
        BY <1>14, <3>1, <4>1
    <3>2. CASE off + len <= o /\ locs'[m].offset = o
      <4>1. o \in Addr /\ o >= off + len
        BY <1>6, <1>6b, <2>4, <2>5, <3>2
      <4> QED
        BY <1>14, <3>2, <4>1
    <3> QED
      BY <2>3, <3>1, <3>2
  <2> QED
    BY <2>3, <2>6
<1>24. IInv'
  BY <1>15, <1>16, <1>17, <1>18, <1>19, <1>20, <1>21
  DEF IInv, IntactUnlessWrapped, PageSound, PageIntact
<1> QED
  BY <1>9, <1>22, <1>23, <1>24 DEF len

-----------------------------------------------------------------------------
\* Both ways of adding put one loc more into the array.
LEMMA AddsOneMore ==
    ASSUME IInv, NEW x \in Items
    PROVE  /\ OneMore(Append(locs, NewLoc(SizeOf[x])), Len(locs) + 1,
                      NewLoc(SizeOf[x]))
           /\ \A p \in 1 .. Len(locs) + 1 :
                  OneMore(InsertAt(locs, p, NewLoc(SizeOf[x])), p,
                          NewLoc(SizeOf[x]))
<1> DEFINE loc == NewLoc(SizeOf[x])
<1>1. locs \in Seq(Locs) /\ Len(locs) \in Nat
  BY DEF IInv, TypeOK
<1>2. loc \in Locs
  BY NewLocType DEF IInv
<1> HIDE DEF loc
<1>3. OneMore(Append(locs, loc), Len(locs) + 1, loc)
  BY <1>1, <1>2, AppendProperties DEF OneMore
<1>4. ASSUME NEW p \in 1 .. Len(locs) + 1
      PROVE  OneMore(InsertAt(locs, p, loc), p, loc)
  <2>1. /\ InsertAt(locs, p, loc) \in Seq(Locs)
        /\ Len(InsertAt(locs, p, loc)) = Len(locs) + 1
        /\ \A j \in 1 .. Len(locs) + 1 :
              InsertAt(locs, p, loc)[j] =
                  IF j < p THEN locs[j] ELSE IF j = p THEN loc ELSE locs[j - 1]
    <3>1. \A seq \in Seq(Locs) : \A i \in 1 .. Len(seq) + 1 : \A e \in Locs :
              /\ InsertAt(seq, i, e) \in Seq(Locs)
              /\ Len(InsertAt(seq, i, e)) = Len(seq) + 1
              /\ \A j \in 1 .. Len(seq) + 1 :
                    InsertAt(seq, i, e)[j] =
                        IF j < i THEN seq[j] ELSE IF j = i THEN e ELSE seq[j - 1]
      BY InsertAtFacts, SMTT(30)
    <3> QED
      BY <1>1, <1>2, <3>1, SMTT(30), ZenonT(30)
  <2> HIDE DEF InsertAt
  <2> QED
    BY <1>1, <2>1 DEF OneMore
<1> QED
  BY <1>3, <1>4 DEF loc

\* The invariant is inductive: one step per operation of the page.
LEMMA StepKeepsIInv == IInv /\ [Next]_vars => IInv'
<1> SUFFICES ASSUME IInv, [Next]_vars PROVE IInv'
  OBVIOUS
<1>1. ASSUME NEW x \in Items, PageAddItem(x) PROVE IInv'
  <2>1. Len(locs) + 1 \in 1 .. Len(locs) + 1
    BY DEF IInv, TypeOK
  <2> QED
    BY <1>1, <2>1, AddsOneMore, PlaceItemEffect DEF PageAddItem
<1>2. ASSUME NEW x \in Items, NEW l \in 1 .. Len(locs) + 1, PageAddItemAt(x, l)
      PROVE  IInv'
  BY <1>2, AddsOneMore, PlaceItemEffect DEF PageAddItemAt
<1>3. ASSUME NEW l \in Id, PageDeleteItem(l) PROVE IInv'
  BY <1>3, DeleteKeepsIInv
<1>4. ASSUME NEW l \in Id, PageRemoveLoc(l) PROVE IInv'
  BY <1>4, RemoveEffect
<1>5. CASE UNCHANGED vars
  BY <1>5 DEF vars, IInv, IntactUnlessWrapped, PageSound, TypeOK, PageIntact, NoSpaceLeak,
     LocArrayFits, ItemsInDataArea, ItemsDisjoint, ItemBytesIntact, SlotsIntact,
     Id, LocBytes, ItemByte, SlotByte, Special
<1>6. ASSUME NEW x \in Items, PageRejects(x) PROVE IInv'
  BY <1>5, <1>6 DEF PageRejects
<1> QED
  BY <1>1, <1>2, <1>3, <1>4, <1>5, <1>6 DEF Next

\* The invariant holds in every state of the page.
LEMMA Inductive == Spec => []IInv
<1> QED
  BY InitEstablishesIInv, StepKeepsIInv, PTL DEF Spec

\* The header fields stay 16 bit values, locs stay locs and bytes stay bytes,
\* also in the step in which the free space wraps.
THEOREM TypeCorrect == Spec => []TypeOK
<1>1. IInv => TypeOK
  BY DEF IInv
<1> QED
  BY <1>1, Inductive, PTL

\* Every page that never accepted an item in fewer than LocSize free bytes
\* has disjoint locs and items, reads every item back byte for byte, and has
\* lost no space, after any sequence of operations.
THEOREM LayoutSound == Spec => []IntactUnlessWrapped
<1>1. IInv => IntactUnlessWrapped
  BY DEF IInv
<1> QED
  BY <1>1, Inductive, PTL

\* Heap pages: as long as the free space has not wrapped, a tuple id keeps
\* naming the item it was handed out for, and the dead stay dead.
THEOREM TupleIdsKept == Spec => TupleIdsStable
<1> DEFINE Kept == Reserve = 0 /\ ~wrapped' =>
                       \A l \in Id : /\ l \in Id'
                                     /\ PageGetItem(l)' = PageGetItem(l)
                                     /\ locs[l].dead => locs[l].dead'
<1>1. ASSUME IInv, [Next]_vars PROVE [Kept]_vars
  <2> SUFFICES ASSUME Reserve = 0, ~wrapped', Next, NEW l \in Id
               PROVE  /\ l \in Id'
                      /\ PageGetItem(l)' = PageGetItem(l)
                      /\ locs[l].dead => locs[l].dead'
    BY <1>1
  <2>1. locs \in Seq(Locs) /\ Len(locs) \in Nat /\ l \in 1 .. Len(locs)
    BY <1>1 DEF IInv, TypeOK, Id
  <2>2. ASSUME NEW x \in Items, PageAddItem(x)
        PROVE  /\ l \in Id'
               /\ PageGetItem(l)' = PageGetItem(l)
               /\ locs[l].dead => locs[l].dead'
    <3> DEFINE n == Len(locs) + 1
               newLocs == Append(locs, NewLoc(SizeOf[x]))
    <3>1. OneMore(newLocs, n, NewLoc(SizeOf[x])) /\ n \in 1 .. Len(locs) + 1
      BY <1>1, <2>1, AddsOneMore
    <3>2. PlaceItem(x, newLocs) /\ locs' = newLocs
      BY <2>2 DEF PageAddItem, PlaceItem
    <3>3. mem'[locs[l].offset] = mem[locs[l].offset]
      BY <1>1, <3>1, <3>2, PlaceItemEffect
    <3> HIDE DEF newLocs
    <3>4. l \in Id' /\ locs'[l] = locs[l]
      BY <2>1, <3>1, <3>2 DEF OneMore, Id
    <3> QED
      BY <3>3, <3>4 DEF PageGetItem
  <2>3. ASSUME NEW m \in Id, PageDeleteItem(m)
        PROVE  /\ l \in Id'
               /\ PageGetItem(l)' = PageGetItem(l)
               /\ locs[l].dead => locs[l].dead'
    <3>1. locs' = [locs EXCEPT ![m].dead = TRUE] /\ mem' = mem
      BY <2>3 DEF PageDeleteItem
    <3>2. l \in Id' /\ locs[l] \in Locs /\ l \in DOMAIN locs
      BY <2>1, <3>1 DEF Id
    <3>3. locs'[l] = IF l = m THEN [locs[l] EXCEPT !.dead = TRUE] ELSE locs[l]
      BY <3>1, <3>2
    <3>4. locs'[l].offset = locs[l].offset /\ (locs[l].dead => locs'[l].dead)
      BY <3>2, <3>3 DEF Locs
    <3> QED
      BY <3>1, <3>2, <3>4 DEF PageGetItem
  <2> QED
    BY <2>2, <2>3 DEF Next, PageAddItemAt, PageRemoveLoc, PageRejects, vars, Id,
       PageGetItem
<1> QED
  BY <1>1, Inductive, PTL DEF Spec, TupleIdsStable

-----------------------------------------------------------------------------
\* What the items of a page look like from outside.
ViewItem == [item : Items \cup {NoItem}, dead : BOOLEAN]

IsView(items) ==
    /\ items \in Seq(ViewItem)
    /\ Len(items) = Len(locs)
    /\ \A l \in 1 .. Len(locs) :
           items[l] = [item |-> PageGetItem(l), dead |-> locs[l].dead]

\* The view of a sound page is a sequence with one entry per loc.
LEMMA ViewOfSoundPage == IInv /\ ~wrapped => IsView(PageView.items)
<1> SUFFICES ASSUME IInv, ~wrapped PROVE IsView(PageView.items)
  OBVIOUS
<1>1. TypeOK /\ PageIntact
  BY DEF IInv, IntactUnlessWrapped, PageSound
<1>2. Len(locs) \in Nat /\ Id = 1 .. Len(locs)
  BY <1>1 DEF TypeOK, Id
<1>3. ASSUME NEW l \in Id
      PROVE  [item |-> PageGetItem(l), dead |-> locs[l].dead] \in ViewItem
  <2>1. locs[l] \in Locs
    BY <1>1 DEF TypeOK, Id
  <2> DEFINE o == locs[l].offset
             n == locs[l].length
  <2>2. /\ o \in Nat
        /\ n \in Nat
        /\ locs[l].dead \in BOOLEAN
    BY <2>1, U16Facts DEF Locs, UInt16
  <2>3. /\ freeUpper < o
        /\ n > 0
        /\ o + n <= Special
    BY <1>1 DEF PageIntact, ItemsInDataArea
  <2>4. o \in Addr
    <3> HIDE DEF o, n
    <3> QED
      BY <2>2, <2>3, PageSizeAssumption, ReserveAssumption DEF Addr, Special
  <2>5. mem[o] \in Bytes
    BY <1>1, <2>4 DEF TypeOK
  <2>6. PageGetItem(l) \in Items \cup {NoItem}
    BY <2>5 DEF PageGetItem, Bytes
  <2> QED
    BY <2>2, <2>6 DEF ViewItem
<1>4. PageView.items =
          [l \in 1 .. Len(locs) |-> [item |-> PageGetItem(l), dead |-> locs[l].dead]]
  BY <1>2 DEF PageView
<1> QED
  BY <1>2, <1>3, <1>4 DEF IsView

\* Two sequences of view items are equal when they agree entry by entry.
LEMMA SameView ==
    ASSUME NEW s \in Seq(ViewItem), NEW t \in Seq(ViewItem),
           Len(s) = Len(t), \A l \in 1 .. Len(s) : s[l] = t[l]
    PROVE  s = t
  BY SeqEqual

\* Inserting a view item shifts those behind it.
LEMMA ViewInsert ==
    ASSUME NEW s \in Seq(ViewItem), NEW i \in 1 .. Len(s) + 1, NEW e \in ViewItem
    PROVE  /\ InsertAt(s, i, e) \in Seq(ViewItem)
           /\ Len(InsertAt(s, i, e)) = Len(s) + 1
           /\ InsertAt(s, i, e)[i] = e
           /\ \A l \in 1 .. Len(s) + 1 : l < i => InsertAt(s, i, e)[l] = s[l]
           /\ \A l \in 1 .. Len(s) + 1 : l > i => InsertAt(s, i, e)[l] = s[l - 1]
<1>1. /\ InsertAt(s, i, e) \in Seq(ViewItem)
      /\ Len(InsertAt(s, i, e)) = Len(s) + 1
      /\ \A l \in 1 .. Len(s) + 1 :
            InsertAt(s, i, e)[l] = IF l < i THEN s[l]
                                   ELSE IF l = i THEN e ELSE s[l - 1]
  BY InsertAtFacts
<1> HIDE DEF InsertAt
<1> QED
  BY <1>1

\* Removing a view item moves up those behind it.
LEMMA ViewRemove ==
    ASSUME NEW s \in Seq(ViewItem), NEW i \in 1 .. Len(s)
    PROVE  /\ RemoveAt(s, i) \in Seq(ViewItem)
           /\ Len(RemoveAt(s, i)) = Len(s) - 1
           /\ \A l \in 1 .. Len(s) - 1 : RemoveAt(s, i)[l] = s[Before(l, i)]
  BY RemoveAtFacts DEF Before

\* An initialised page is the empty abstract page.
LEMMA InitRefines == PageInit => Abstract!Init
<1> SUFFICES ASSUME PageInit PROVE Abstract!Init
  OBVIOUS
<1>1. locs = <<>> /\ Id = {}
  BY DEF PageInit, Id
<1>2. PageView.items = <<>>
  BY <1>1 DEF PageView
<1>3. PageView = [items |-> <<>>, span |-> PageSize - Reserve - 1 - HeaderSize]
  BY <1>1, PageSizeAssumption, ReserveAssumption
  DEF PageView, PageInit, Special
<1> QED
  BY <1>3 DEF Abstract!Init, Abstract!EmptyPage, Abstract!HeaderSize

\* A sound step of the bytes is a step of the array of items.
LEMMA StepRefines ==
    ASSUME IInv, IInv', ~wrapped, ~wrapped', [Next]_vars
    PROVE  [Abstract!Next]_PageView
<1> DEFINE items == PageView.items
           after == PageView'.items
           span  == freeUpper - freeLower
<1>1. IsView(items) /\ IsView(items)'
  <2>1. IInv' /\ ~wrapped' => IsView(PageView.items)'
    BY ViewOfSoundPage, PTL
  <2> QED
    BY <2>1, ViewOfSoundPage
<1>2. /\ items \in Seq(ViewItem)
      /\ Len(items) = Len(locs)
      /\ Len(locs) \in Nat
      /\ \A l \in 1 .. Len(locs) :
             items[l] = [item |-> mem[locs[l].offset].of, dead |-> locs[l].dead]
  BY <1>1 DEF IsView, PageGetItem, IInv, TypeOK
<1>3. /\ after \in Seq(ViewItem)
      /\ Len(after) = Len(locs')
      /\ \A l \in 1 .. Len(locs') :
             after[l] = [item |-> mem'[locs'[l].offset].of, dead |-> locs'[l].dead]
  BY <1>1 DEF IsView, PageGetItem
<1>4. PageView = [items |-> items, span |-> span]
  BY DEF PageView
<1>5. PageView' = [items |-> after, span |-> span']
  BY DEF PageView
<1> HIDE DEF items, after
\* Both ways of adding, at position p.
<1>6. ASSUME NEW x \in Items, NEW p \in 1 .. Len(locs) + 1, NEW newLocs,
             OneMore(newLocs, p, NewLoc(SizeOf[x])), PlaceItem(x, newLocs)
      PROVE  /\ SizeOf[x] + LocSize <= span
             /\ span' = span - (SizeOf[x] + LocSize)
             /\ Len(after) = Len(items) + 1
             /\ after[p] = [item |-> x, dead |-> FALSE]
             /\ \A l \in 1 .. Len(items) + 1 : l < p => after[l] = items[l]
             /\ \A l \in 1 .. Len(items) + 1 : l > p => after[l] = items[l - 1]
  <2>1. /\ SizeOf[x] + LocSize <= span
        /\ span' = span - (SizeOf[x] + LocSize)
        /\ mem'[newLocs[p].offset].of = x
        /\ newLocs[p].dead = FALSE
        /\ \A l \in Id : mem'[locs[l].offset] = mem[locs[l].offset]
    BY <1>6, PlaceItemEffect
  <2>2. /\ locs' = newLocs
        /\ Len(newLocs) = Len(locs) + 1
        /\ \A j \in 1 .. Len(locs) + 1 : j < p => newLocs[j] = locs[j]
        /\ \A j \in 1 .. Len(locs) + 1 : j > p => newLocs[j] = locs[j - 1]
    BY <1>6 DEF PlaceItem, OneMore
  <2>3. after[p] = [item |-> x, dead |-> FALSE]
    BY <1>3, <2>1, <2>2
  <2>4. ASSUME NEW l \in 1 .. Len(items) + 1, l < p
        PROVE  after[l] = items[l]
    <3>1. l \in Id /\ l \in 1 .. Len(locs')
      BY <1>2, <2>2, <2>4 DEF Id
    <3>2. locs'[l] = locs[l]
      BY <1>2, <2>2, <2>4
    <3> QED
      BY <1>2, <1>3, <2>1, <3>1, <3>2, ZenonT(30) DEF Id
  <2>5. ASSUME NEW l \in 1 .. Len(items) + 1, l > p
        PROVE  after[l] = items[l - 1]
    <3>1. l - 1 \in Id /\ l \in 1 .. Len(locs')
      BY <1>2, <2>2, <2>5 DEF Id
    <3>2. locs'[l] = locs[l - 1]
      BY <1>2, <2>2, <2>5
    <3>3. mem'[locs'[l].offset] = mem[locs[l - 1].offset]
      BY <2>1, <3>1, <3>2
    <3>4. after[l] = [item |-> mem'[locs'[l].offset].of, dead |-> locs'[l].dead]
      BY <1>3, <3>1
    <3>5. items[l - 1] =
              [item |-> mem[locs[l - 1].offset].of, dead |-> locs[l - 1].dead]
      BY <1>2, <3>1 DEF Id
    <3> QED
      BY <3>2, <3>3, <3>4, <3>5
  <2> QED
    BY <1>2, <1>3, <2>1, <2>2, <2>3, <2>4, <2>5
<1>7. ASSUME NEW x \in Items, PageAddItem(x) PROVE Abstract!Add(x)
  <2> DEFINE n == Len(locs) + 1
             newLocs == Append(locs, NewLoc(SizeOf[x]))
             slot == [item |-> x, dead |-> FALSE]
  <2>1. OneMore(newLocs, n, NewLoc(SizeOf[x])) /\ PlaceItem(x, newLocs)
    BY <1>7, AddsOneMore DEF PageAddItem
  <2>2. n \in 1 .. Len(locs) + 1
    BY <1>2
  <2> HIDE DEF newLocs
  <2>3. /\ SizeOf[x] + LocSize <= span
        /\ span' = span - (SizeOf[x] + LocSize)
        /\ Len(after) = Len(items) + 1
        /\ after[n] = slot
        /\ \A l \in 1 .. Len(items) + 1 : l < n => after[l] = items[l]
    BY <1>6, <2>1, <2>2
  <2>4. slot \in ViewItem
    BY DEF ViewItem
  <2> HIDE DEF slot
  <2>5. /\ Append(items, slot) \in Seq(ViewItem)
        /\ Len(Append(items, slot)) = Len(items) + 1
        /\ Append(items, slot)[n] = slot
        /\ \A l \in 1 .. Len(items) : Append(items, slot)[l] = items[l]
    BY <1>2, <2>4, AppendProperties
  <2>6. \A l \in 1 .. Len(after) : after[l] = Append(items, slot)[l]
    BY <1>2, <2>3, <2>5
  <2>7. after = Append(items, slot)
    BY <1>3, <2>3, <2>5, <2>6, SameView
  <2> QED
    BY <1>4, <1>5, <2>3, <2>7
    DEF slot, Abstract!Add, Abstract!HasRoom, Abstract!AddItem, Abstract!Slot,
        Abstract!LocSize
<1>8. ASSUME NEW x \in Items, NEW p \in 1 .. Len(locs) + 1, PageAddItemAt(x, p)
      PROVE  Abstract!AddAt(x)
  <2> DEFINE newLocs == InsertAt(locs, p, NewLoc(SizeOf[x]))
             slot == [item |-> x, dead |-> FALSE]
             longer == InsertAt(items, p, slot)
  <2>1. OneMore(newLocs, p, NewLoc(SizeOf[x])) /\ PlaceItem(x, newLocs)
    BY <1>8, AddsOneMore DEF PageAddItemAt
  <2> HIDE DEF newLocs
  <2>2. /\ SizeOf[x] + LocSize <= span
        /\ span' = span - (SizeOf[x] + LocSize)
        /\ Len(after) = Len(items) + 1
        /\ after[p] = slot
        /\ \A l \in 1 .. Len(items) + 1 : l < p => after[l] = items[l]
        /\ \A l \in 1 .. Len(items) + 1 : l > p => after[l] = items[l - 1]
    BY <1>6, <2>1
  <2>3. slot \in ViewItem
    BY DEF ViewItem
  <2> HIDE DEF slot
  <2>4. /\ longer \in Seq(ViewItem)
        /\ Len(longer) = Len(items) + 1
        /\ longer[p] = slot
        /\ \A l \in 1 .. Len(items) + 1 : l < p => longer[l] = items[l]
        /\ \A l \in 1 .. Len(items) + 1 : l > p => longer[l] = items[l - 1]
    <3>1. items \in Seq(ViewItem) /\ p \in 1 .. Len(items) + 1
      BY <1>2
    <3> QED
      BY <2>3, <3>1, ViewInsert, ZenonT(30)
  <2> HIDE DEF longer
  <2>5. ASSUME NEW l \in 1 .. Len(after)
        PROVE  after[l] = longer[l]
    <3>1. l \in 1 .. Len(items) + 1 /\ l \in Int /\ p \in Int
      BY <1>2, <2>2
    <3>2. CASE l < p
      BY <2>2, <2>4, <3>1, <3>2
    <3>3. CASE l = p
      BY <2>2, <2>4, <3>1, <3>3
    <3>4. CASE l > p
      BY <2>2, <2>4, <3>1, <3>4
    <3> QED
      BY <3>1, <3>2, <3>3, <3>4
  <2>6. after = longer
    BY <1>3, <2>2, <2>4, <2>5, SameView
  <2>7. p \in 1 .. Len(items) + 1
    BY <1>2
  <2>8. longer = Abstract!InsertAt(items, p, Abstract!Slot(x))
    BY DEF longer, slot, InsertAt, Abstract!InsertAt, Abstract!Slot
  <2>9. PageView' = Abstract!AddItemAt(PageView, p, x, SizeOf[x])
    BY <1>4, <1>5, <2>2, <2>6, <2>8 DEF Abstract!AddItemAt, Abstract!LocSize
  <2>10. Abstract!HasRoom(PageView, SizeOf[x])
    BY <1>4, <2>2 DEF Abstract!HasRoom, Abstract!LocSize
  <2>11. p \in 1 .. Abstract!NumItems(PageView) + 1
    BY <1>4, <2>7 DEF Abstract!NumItems
  <2>12. Reserve > 0
    BY <1>8 DEF PageAddItemAt
  <2> QED
    BY <2>9, <2>10, <2>11, <2>12 DEF Abstract!AddAt
<1>9. ASSUME NEW m \in Id, PageDeleteItem(m) PROVE Abstract!Delete
  <2>1. /\ Reserve = 0
        /\ locs' = [locs EXCEPT ![m].dead = TRUE]
        /\ mem' = mem
        /\ span' = span
    BY <1>9 DEF PageDeleteItem
  <2>2. locs \in Seq(Locs) /\ Len(locs') = Len(locs) /\ m \in 1 .. Len(locs)
    BY <1>2, <2>1 DEF IInv, TypeOK, Id
  <2> DEFINE marked == [items EXCEPT ![m] = Abstract!Tombstone(items[m])]
  <2>3. marked \in Seq(ViewItem) /\ Len(marked) = Len(items)
    <3>1. Abstract!Tombstone(items[m]) \in ViewItem
      <4>1. items[m] \in ViewItem
        BY <1>2, <2>2
      <4> QED
        BY <4>1 DEF ViewItem, Abstract!Tombstone
    <3> QED
      BY <1>2, <2>2, <3>1, ExceptSeq
  <2>4. ASSUME NEW l \in 1 .. Len(after)
        PROVE  after[l] = marked[l]
    <3>1. /\ l \in 1 .. Len(locs)
          /\ l \in DOMAIN locs
          /\ l \in DOMAIN items
          /\ locs[l] \in Locs
      BY <1>2, <1>3, <2>2
    <3>2. locs'[l] = IF l = m THEN [locs[l] EXCEPT !.dead = TRUE] ELSE locs[l]
      BY <2>1, <3>1
    <3>3. marked[l] = IF l = m THEN Abstract!Tombstone(items[l]) ELSE items[l]
      BY <3>1
    <3>4. items[l] = [item |-> mem[locs[l].offset].of, dead |-> locs[l].dead]
      BY <1>2, <3>1
    <3>5. after[l] = [item |-> mem[locs'[l].offset].of, dead |-> locs'[l].dead]
      BY <1>3, <2>1
    <3>6. CASE l = m
      <4>1. locs'[l].offset = locs[l].offset /\ locs'[l].dead = TRUE
        BY <3>1, <3>2, <3>6 DEF Locs
      <4>2. Abstract!Tombstone(items[l]) =
                [item |-> mem[locs[l].offset].of, dead |-> TRUE]
        BY <3>4 DEF Abstract!Tombstone
      <4> QED
        BY <3>3, <3>5, <3>6, <4>1, <4>2, <2>1
    <3>7. CASE l # m
      BY <3>2, <3>3, <3>4, <3>5, <3>7
    <3> QED
      BY <3>6, <3>7
  <2>5. after = marked
    BY <1>2, <1>3, <2>2, <2>3, <2>4, SameView
  <2>6. PageView' = Abstract!DeleteItem(PageView, m)
    BY <1>4, <1>5, <2>1, <2>5 DEF Abstract!DeleteItem
  <2>7. m \in 1 .. Abstract!NumItems(PageView)
    BY <1>2, <1>4, <2>2 DEF Abstract!NumItems
  <2> QED
    BY <2>1, <2>6, <2>7 DEF Abstract!Delete
<1>10. ASSUME NEW m \in Id, PageRemoveLoc(m) PROVE Abstract!Drop
  <2> DEFINE shorter == RemoveAt(items, m)
             x == items[m].item
  <2>1. /\ Len(locs') = Len(locs) - 1
        /\ span' = span + (locs[m].length + LocSize)
        /\ \A l \in 1 .. Len(locs) - 1 :
              /\ mem'[locs'[l].offset] = mem[locs[Before(l, m)].offset]
              /\ locs'[l].dead = locs[Before(l, m)].dead
    BY <1>10, RemoveEffect
  <2>2. m \in 1 .. Len(items) /\ m \in 1 .. Len(locs)
    BY <1>2 DEF Id
  <2>3. /\ shorter \in Seq(ViewItem)
        /\ Len(shorter) = Len(items) - 1
        /\ \A l \in 1 .. Len(items) - 1 : shorter[l] = items[Before(l, m)]
    BY <1>2, <2>2, ViewRemove
  <2> HIDE DEF shorter
  <2>4. ASSUME NEW l \in 1 .. Len(after)
        PROVE  after[l] = shorter[l]
    <3>1. Before(l, m) \in 1 .. Len(locs) /\ l \in 1 .. Len(locs) - 1
      BY <1>2, <1>3, <2>1, <2>2 DEF Before
    <3>2. items[Before(l, m)] = [item |-> mem[locs[Before(l, m)].offset].of,
                                 dead |-> locs[Before(l, m)].dead]
      BY <1>2, <3>1
    <3>3. after[l] = [item |-> mem'[locs'[l].offset].of, dead |-> locs'[l].dead]
      BY <1>3
    <3>4. /\ mem'[locs'[l].offset] = mem[locs[Before(l, m)].offset]
          /\ locs'[l].dead = locs[Before(l, m)].dead
      BY <2>1, <3>1
    <3>5. shorter[l] = items[Before(l, m)]
      BY <1>2, <2>3, <3>1
    <3> QED
      BY <3>2, <3>3, <3>4, <3>5
  <2>5. after = shorter
    BY <1>2, <1>3, <2>1, <2>3, <2>4, SameView
  <2>6. locs[m].length = SizeOf[x]
    <3>1. PICK y \in Items :
              /\ locs[m].length = SizeOf[y]
              /\ \A k \in 0 .. SizeOf[y] - 1 :
                     mem[locs[m].offset + k] = ItemByte(y, k)
      BY DEF IInv, IntactUnlessWrapped, PageSound, PageIntact, ItemBytesIntact
    <3>2. 0 \in 0 .. SizeOf[y] - 1
      BY SizeAssumption, PageSizeAssumption
    <3>3. locs[m].offset + 0 = locs[m].offset
      <4>1. locs[m] \in Locs
        BY DEF IInv, TypeOK, Id
      <4> QED
        BY <4>1, U16Facts DEF Locs, UInt16
    <3>4. mem[locs[m].offset + 0] = ItemByte(y, 0)
      BY <3>1, <3>2
    <3>5. mem[locs[m].offset].of = y
      BY <3>3, <3>4 DEF ItemByte
    <3>6. x = y
      <4>1. items[m] = [item |-> mem[locs[m].offset].of, dead |-> locs[m].dead]
        BY <1>2, <2>2
      <4> QED
        BY <3>5, <4>1
    <3> QED
      BY <3>1, <3>6
  <2> QED
    <3>1. shorter = Abstract!RemoveAt(items, m)
      BY DEF shorter, RemoveAt, Abstract!RemoveAt
    <3>2. PageView' = Abstract!RemoveLoc(PageView, m, SizeOf[x])
      BY <1>4, <1>5, <2>1, <2>5, <2>6, <3>1
      DEF Abstract!RemoveLoc, Abstract!LocSize
    <3>3. m \in 1 .. Abstract!NumItems(PageView)
      BY <1>4, <2>2 DEF Abstract!NumItems
    <3>4. Reserve > 0 /\ PageView.items = items
      BY <1>4, <1>10 DEF PageRemoveLoc
    <3> QED
      BY <3>2, <3>3, <3>4 DEF Abstract!Drop
<1>11. CASE UNCHANGED vars
  BY <1>11 DEF vars, PageView, Id, PageGetItem
<1>12. ASSUME NEW x \in Items, PageRejects(x) PROVE UNCHANGED vars
  BY <1>12 DEF PageRejects
<1> QED
  BY <1>7, <1>8, <1>9, <1>10, <1>11, <1>12 DEF Next, Abstract!Next

\* A page whose free space never wraps behaves as an array of items.
THEOREM Refinement == Spec /\ [](~wrapped) => ImplementsPageSpec
<1>1. PageInit => Abstract!Init
  BY InitRefines
<1>2. /\ IInv /\ IInv'
      /\ ~wrapped /\ (~wrapped)'
      /\ [Next]_vars
      => [Abstract!Next]_PageView
  BY StepRefines
<1> QED
  BY <1>1, <1>2, Inductive, PTL DEF Spec, ImplementsPageSpec, Abstract!Spec

-----------------------------------------------------------------------------
\* Pages that cannot wrap.  The sizes come in a granule g when every item with
\* its loc takes a multiple of g bytes and the first span leaves a remainder
\* of at least LocSize: a table of rows of one width is the usual case, with g
\* the width and a loc.  (One INT column, no NULLs: 45 + 6 bytes, and 8183, the
\* first span of a heap page of 8192 bytes, leaves 23.)
FirstSpan == Special - 1 - HeaderSize
Granular(g) ==
    /\ g \in Nat \ {0}
    /\ \A x \in Items : \E k \in Nat : SizeOf[x] + LocSize = g * k
    /\ \E k \in Nat, r \in LocSize .. g - 1 : FirstSpan = g * k + r

\* The spans of such a page.
SpanOf(g, r) == \E k \in Nat : freeUpper - freeLower = g * k + r

\* The inductive invariant: a page that never wrapped, whose span keeps the
\* remainder of the first one.
GranuleInv(g, r) == IInv /\ ~wrapped /\ SpanOf(g, r)

\* Multiples of g stay multiples when they are added or, if they fit in a
\* multiple and a remainder, subtracted.
LEMMA GranuleArithmetic ==
    ASSUME NEW g \in Nat, NEW k \in Nat, NEW q \in Nat, NEW r \in 0 .. g - 1
    PROVE  /\ g * q + r \in Nat
           /\ g * q + r + g * k = g * (q + k) + r
           /\ g * k <= g * q + r => /\ k <= q
                                    /\ g * q + r - g * k = g * (q - k) + r
<1>1. g * q \in Nat /\ g * k \in Nat
  OBVIOUS
<1>2. g * (q + k) = g * q + g * k
  OBVIOUS
<1>3. g * (q - k) = g * q - g * k
  OBVIOUS
<1>4. ASSUME k > q PROVE g * k > g * q + r
  <2> DEFINE d == k - q
  <2>1. d \in Nat /\ d >= 1 /\ k = q + d
    BY <1>4
  <2> HIDE DEF d
  <2>2. g * k = g * q + g * d
    BY <2>1
  <2>3. g * d >= g
    BY <2>1
  <2>4. g * d \in Nat /\ r < g
    BY <2>1
  <2> QED
    BY <1>1, <2>2, <2>3, <2>4
<1> QED
  BY <1>1, <1>2, <1>3, <1>4

\* A page with a remainder of at least LocSize cannot wrap.
LEMMA NeverWraps ==
    ASSUME NEW g \in Nat, NEW r \in LocSize .. g - 1, SpanOf(g, r)
    PROVE  ~Wraps
<1>1. PICK k \in Nat : freeUpper - freeLower = g * k + r
  BY DEF SpanOf
<1>2. g * k \in Nat
  BY <1>1
<1> QED
  BY <1>1, <1>2 DEF Wraps

\* Every step keeps the remainder of the span.
LEMMA StepKeepsGranule ==
    ASSUME NEW g \in Nat \ {0}, NEW r \in LocSize .. g - 1, Granular(g),
           GranuleInv(g, r), [Next]_vars
    PROVE  GranuleInv(g, r)'
<1> USE DEF GranuleInv
<1>1. IInv'
  BY StepKeepsIInv
<1>2. PICK q \in Nat : freeUpper - freeLower = g * q + r
  BY DEF SpanOf
<1>3. ~Wraps
  BY NeverWraps
<1>4. r \in 0 .. g - 1
  OBVIOUS
<1>5. ASSUME NEW x \in Items, NEW p \in 1 .. Len(locs) + 1, NEW newLocs,
             OneMore(newLocs, p, NewLoc(SizeOf[x])), PlaceItem(x, newLocs)
      PROVE  ~wrapped' /\ SpanOf(g, r)'
  <2>1. ~wrapped'
    BY <1>3, <1>5 DEF PlaceItem
  <2>2. /\ SizeOf[x] + LocSize <= freeUpper - freeLower
        /\ freeUpper' - freeLower' = (freeUpper - freeLower) - (SizeOf[x] + LocSize)
    BY <1>5, <2>1, PlaceItemEffect
  <2>3. PICK k \in Nat : SizeOf[x] + LocSize = g * k
    BY DEF Granular
  <2>4. k <= q /\ g * q + r - g * k = g * (q - k) + r
    BY <1>2, <1>4, <2>2, <2>3, GranuleArithmetic
  <2>5. q - k \in Nat /\ freeUpper' - freeLower' = g * (q - k) + r
    BY <1>2, <2>2, <2>3, <2>4
  <2> QED
    BY <2>1, <2>5 DEF SpanOf
<1>6. ASSUME NEW x \in Items, PageAddItem(x)
      PROVE  ~wrapped' /\ SpanOf(g, r)'
  <2> DEFINE n == Len(locs) + 1
             newLocs == Append(locs, NewLoc(SizeOf[x]))
  <2>1. OneMore(newLocs, n, NewLoc(SizeOf[x])) /\ PlaceItem(x, newLocs)
    BY <1>6, AddsOneMore DEF PageAddItem
  <2>2. n \in 1 .. Len(locs) + 1
    BY DEF IInv, TypeOK
  <2> HIDE DEF newLocs, n
  <2> QED
    BY <1>5, <2>1, <2>2
<1>7. ASSUME NEW x \in Items, NEW p \in 1 .. Len(locs) + 1, PageAddItemAt(x, p)
      PROVE  ~wrapped' /\ SpanOf(g, r)'
  <2> DEFINE newLocs == InsertAt(locs, p, NewLoc(SizeOf[x]))
  <2>1. OneMore(newLocs, p, NewLoc(SizeOf[x])) /\ PlaceItem(x, newLocs)
    BY <1>7, AddsOneMore DEF PageAddItemAt
  <2> HIDE DEF newLocs
  <2> QED
    BY <1>5, <2>1
<1>8. ASSUME NEW l \in Id, PageRemoveLoc(l)
      PROVE  ~wrapped' /\ SpanOf(g, r)'
  <2>1. /\ freeUpper' - freeLower' =
              (freeUpper - freeLower) + (locs[l].length + LocSize)
        /\ wrapped' = wrapped
    BY <1>8, RemoveEffect DEF PageRemoveLoc
  <2>2. PICK x \in Items : locs[l].length = SizeOf[x]
    BY DEF IInv, IntactUnlessWrapped, PageSound, PageIntact, ItemBytesIntact
  <2>3. PICK k \in Nat : SizeOf[x] + LocSize = g * k
    BY DEF Granular
  <2>4. g * q + r + g * k = g * (q + k) + r
    BY <1>4, GranuleArithmetic
  <2>5. q + k \in Nat /\ freeUpper' - freeLower' = g * (q + k) + r
    BY <1>2, <2>1, <2>2, <2>3, <2>4
  <2> QED
    BY <2>1, <2>5 DEF SpanOf
<1>9. ASSUME UNCHANGED <<freeLower, freeUpper, wrapped>>
      PROVE  ~wrapped' /\ SpanOf(g, r)'
  BY <1>2, <1>9 DEF SpanOf
<1>10. ASSUME NEW l \in Id, PageDeleteItem(l)
       PROVE  ~wrapped' /\ SpanOf(g, r)'
  BY <1>9, <1>10 DEF PageDeleteItem
<1>11. ASSUME NEW x \in Items, PageRejects(x)
       PROVE  ~wrapped' /\ SpanOf(g, r)'
  BY <1>9, <1>11 DEF PageRejects, vars
<1> QED
  BY <1>1, <1>6, <1>7, <1>8, <1>9, <1>10, <1>11 DEF Next, vars

\* A page whose sizes come in a granule never wraps.
LEMMA GranularNeverWraps ==
    ASSUME NEW CONSTANT g, Granular(g)
    PROVE  Spec => [](IInv /\ ~wrapped)
<1>1. PICK r \in LocSize .. g - 1 : \E k \in Nat : FirstSpan = g * k + r
  BY DEF Granular
<1>2. PageInit => GranuleInv(g, r)
  <2> SUFFICES ASSUME PageInit PROVE ~wrapped /\ SpanOf(g, r)
    BY InitEstablishesIInv DEF GranuleInv
  <2>1. freeUpper - freeLower = FirstSpan /\ ~wrapped
    BY DEF PageInit, FirstSpan
  <2> QED
    BY <1>1, <2>1 DEF SpanOf
<1>3. GranuleInv(g, r) /\ [Next]_vars => GranuleInv(g, r)'
  BY <1>1, StepKeepsGranule DEF Granular
<1>4. GranuleInv(g, r) => IInv /\ ~wrapped
  BY DEF GranuleInv
<1> QED
  BY <1>2, <1>3, <1>4, PTL DEF Spec

\* Rows of one width (or of any widths that come in a granule): locs and items
\* never overlap, every item is read back byte for byte and no space is lost, with no
\* condition on the behaviour of the page any more.
THEOREM GranularSound ==
    ASSUME NEW CONSTANT g, Granular(g)
    PROVE  Spec => []PageSound
<1>1. IInv /\ ~wrapped => PageSound
  BY DEF IInv, IntactUnlessWrapped
<1> QED
  BY <1>1, GranularNeverWraps, PTL

\* ... and is an array of items to its users.
THEOREM GranularRefinement ==
    ASSUME NEW CONSTANT g, Granular(g)
    PROVE  Spec => ImplementsPageSpec
<1>1. Spec => [](~wrapped)
  BY GranularNeverWraps, PTL
<1> QED
  BY <1>1, Refinement, PTL
=============================================================================
