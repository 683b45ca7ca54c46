---------------------------- MODULE HeapFileProofs ----------------------------
(***************************************************************************)
(* Proofs about HeapFile, for every set of rows, every sizes of the rows   *)
(* and of a page, and files of any length.                                 *)
(***************************************************************************)
EXTENDS HeapFile, SequenceLemmas

USE DEF HeaderSize, LocSize

Tids == (Nat \ {0}) \X (Nat \ {0})
Tuples == [row : Rows, tid : Tids]
Slots == [item : Tuples, dead : BOOLEAN]
HeapPages == [items : Seq(Slots), span : 0 .. PageSpan]
Versions == [row : Rows, tid : Tids]

Insert == [kind |-> "insert"]
Updates == [kind : {"update"}, where : SUBSET Rows, set : [Rows -> Rows]]
Deletes == [kind : {"delete"}, where : SUBSET Rows]

DiskOK == disk \in Seq(HeapPages) /\ Len(disk) >= 1

\* What the local variables of each statement may be.
NoneOK == stmt = NoStatement /\ cursor = Start /\ pending = <<>> /\ phase = "scan"
InsertOK == stmt = Insert /\ pending \in Seq(Rows) /\ phase = "scan"
DeleteOK == stmt \in Deletes /\ pending = <<>> /\ phase = "scan"
UpdateOK ==
    /\ stmt \in Updates /\ pending \in Seq(Versions)
    /\ phase \in {"scan", "delete", "place"}
    /\ phase = "place" => pending # <<>>

\* The list that UpdateScan makes: the new versions and the ids of the old ones, each
\* old one once, behind the scan, and there until its turn comes.
ListOK ==
    stmt.kind = "update" =>
        /\ \A i \in DOMAIN pending :
              /\ pending[i].tid \in Positions
              /\ pending[i].row = stmt.set[TupleAt(pending[i].tid).row]
              /\ phase = "scan" => Before(pending[i].tid, cursor)
              /\ phase # "place" \/ i # 1 => pending[i].tid \in Live
        /\ \A i, j \in DOMAIN pending : i # j => pending[i].tid # pending[j].tid

StateOK ==
    /\ DiskOK
    /\ cursor \in Tids
    /\ NoneOK \/ InsertOK \/ DeleteOK \/ UpdateOK

\* Every row carries the id of its own position.
AtHome == \A pos \in Positions : TupleAt(pos).tid = pos

\* Every page behind the first has a row, and no row's id names a page that 16 bits
\* cannot name.
PagesInUse ==
    /\ \A p \in 2 .. Len(disk) : <<p, 1>> \in Positions
    /\ \A pos \in Positions : TupleAt(pos).tid[1] <= TidPages

FlagOK == wrapped \in BOOLEAN

IInv ==
    /\ StateOK
    /\ FlagOK
    /\ IsFiniteSet(Positions)
    /\ PagesInUse
    /\ Numbered => AtHome /\ ListOK

-----------------------------------------------------------------------------
\* Where the tuples of a file are.
LEMMA PositionsAre ==
    ASSUME NEW d
    PROVE  \A pos : pos \in UNION {{<<p, l>> : l \in 1 .. NumItems(d[p])} : p \in DOMAIN d}
                    <=> \E p \in DOMAIN d : \E l \in 1 .. Len(d[p].items) : pos = <<p, l>>
BY DEF NumItems

\* The page that takes a row: one with room for it, or the one behind the last.
LEMMA TargetPageIs ==
    ASSUME DiskOK, NEW p \in Nat \ {0}, NEW row \in Rows
    PROVE  /\ TargetPage(row, p) \in 1 .. Len(disk) + 1
           /\ TargetPage(row, p) <= Len(disk) => Fits(disk[TargetPage(row, p)], SizeOf[row])
<1> DEFINE fits == {q \in p .. Len(disk) : Fits(disk[q], SizeOf[row])}
<1>1. Len(disk) \in Nat /\ fits \in SUBSET Nat
  BY DEF DiskOK
<1>2. CASE fits = {}
  BY <1>1, <1>2 DEF TargetPage, FirstFit
<1>3. CASE fits # {}
  <2>1. Min(fits) \in fits
    BY <1>1, <1>3, MinIs
  <2>2. TargetPage(row, p) = Min(fits)
    BY <1>3 DEF TargetPage, FirstFit
  <2> QED
    BY <1>1, <2>1, <2>2
<1> QED
  BY <1>2, <1>3

\* What a WritePage with one more tuple does to the file.
LEMMA PlaceWrites ==
    ASSUME DiskOK, NEW row \in Rows, NEW p \in 1 .. Len(disk) + 1,
           p <= Len(disk) => Fits(disk[p], SizeOf[row]), PlaceRow(row, p)
    PROVE  /\ DiskOK'
           /\ Len(disk') = IF p <= Len(disk) THEN Len(disk) ELSE Len(disk) + 1
           /\ \A q \in 1 .. Len(disk) : q # p => disk'[q] = disk[q]
           /\ NextLoc(p) \in Nat \ {0}
           /\ SelfTid(p, NextLoc(p)) \in Tids
           /\ disk'[p].items =
                 Append(IF p <= Len(disk) THEN disk[p].items ELSE <<>>,
                        Slot([row |-> row, tid |-> SelfTid(p, NextLoc(p))]))
           /\ p <= Len(disk) => NextLoc(p) = Len(disk[p].items) + 1
           /\ p > Len(disk) => NextLoc(p) = 1
<1> DEFINE x == [row |-> row, tid |-> SelfTid(p, NextLoc(p))]
           size == SizeOf[row]
<1>1. /\ Len(disk) \in Nat /\ p \in Nat \ {0} /\ size \in Nat \ {0}
      /\ PageSpan \in Nat /\ TidPages \in Nat \ {0}
  BY SizeOfAssumption, BoundAssumption DEF DiskOK
<1>2. \A q \in 1 .. Len(disk) : /\ disk[q] \in HeapPages
                                /\ disk[q].items \in Seq(Slots)
                                /\ disk[q].span \in 0 .. PageSpan
                                /\ Len(disk[q].items) \in Nat
  <2> TAKE q \in 1 .. Len(disk)
  <2>1. disk[q] \in HeapPages
    BY ElementOfSeq, Zenon DEF DiskOK
  <2> QED
    BY <2>1 DEF HeapPages
<1>3. /\ NextLoc(p) \in Nat \ {0}
      /\ p <= Len(disk) => NextLoc(p) = Len(disk[p].items) + 1
      /\ p > Len(disk) => NextLoc(p) = 1
  BY <1>1, <1>2 DEF NextLoc, NumItems
<1>4. SelfTid(p, NextLoc(p)) \in Tids
  <2>1. (p - 1) % TidPages \in Nat
    BY <1>1
  <2> QED
    BY <1>3, <2>1 DEF SelfTid, Tids
<1>5. x \in Tuples /\ Slot(x) \in Slots
  BY <1>4 DEF Tuples, Slots, Slot
<1> HIDE DEF x
<1>6. /\ disk' = PutItem(disk, p, x, size, PageSpan)
      /\ p <= Len(disk) => HasRoom(disk[p], size)
      /\ p > Len(disk) => HasRoom(NewPage, size)
  BY <1>1 DEF PlaceRow, Fits, x
<1>7. ASSUME NEW page, page.items \in Seq(Slots), page.span \in 0 .. PageSpan, HasRoom(page, size)
      PROVE  /\ AddItem(page, x, size) \in HeapPages
             /\ AddItem(page, x, size).items = Append(page.items, Slot(x))
  <2>1. Append(page.items, Slot(x)) \in Seq(Slots)
    BY <1>5, <1>7
  <2>2. page.span - (size + LocSize) \in 0 .. PageSpan
    BY <1>1, <1>7 DEF HasRoom
  <2> QED
    BY <2>1, <2>2 DEF AddItem, HeapPages
<1>8. CASE p <= Len(disk)
  <2>1. p \in 1 .. Len(disk)
    BY <1>1, <1>8
  <2>2. disk' = [disk EXCEPT ![p] = AddItem(disk[p], x, size)]
    BY <1>6, <1>8 DEF PutItem
  <2>3. /\ AddItem(disk[p], x, size) \in HeapPages
        /\ AddItem(disk[p], x, size).items = Append(disk[p].items, Slot(x))
    BY <1>2, <1>6, <1>7, <1>8, <2>1
  <2>4. /\ disk' \in Seq(HeapPages) /\ Len(disk') = Len(disk)
        /\ \A q \in 1 .. Len(disk) : disk'[q] = IF q = p THEN AddItem(disk[p], x, size) ELSE disk[q]
    BY <2>1, <2>2, <2>3, ExceptSeq DEF DiskOK
  <2> QED
    BY <1>1, <1>3, <1>4, <1>8, <2>1, <2>3, <2>4 DEF DiskOK, x
<1>9. CASE p > Len(disk)
  <2>1. p = Len(disk) + 1
    BY <1>1, <1>9
  <2>2. disk' = Append(disk, AddItem(NewPage, x, size))
    BY <1>1, <1>6, <1>9 DEF PutItem, NewPage
  <2>3. /\ NewPage.items = <<>> /\ NewPage.items \in Seq(Slots)
        /\ NewPage.span = PageSpan /\ NewPage.span \in 0 .. PageSpan
        /\ HasRoom(NewPage, size)
    BY <1>1, <1>6, <1>9 DEF NewPage, EmptyPage
  <2>4. /\ AddItem(NewPage, x, size) \in HeapPages
        /\ AddItem(NewPage, x, size).items = Append(<<>>, Slot(x))
    BY <1>7, <2>3
  <2>5. /\ disk' \in Seq(HeapPages) /\ Len(disk') = Len(disk) + 1
        /\ \A q \in 1 .. Len(disk) : disk'[q] = disk[q]
        /\ disk'[Len(disk) + 1] = AddItem(NewPage, x, size)
    BY <2>2, <2>4, AppendProperties, SMTT(30) DEF DiskOK
  <2>6. disk'[p].items = Append(<<>>, Slot(x))
    BY <2>1, <2>4, <2>5
  <2>7. DiskOK'
    BY <1>1, <2>5 DEF DiskOK
  <2>8. ~(p <= Len(disk))
    BY <1>1, <1>9
  <2> QED
    BY <1>3, <1>4, <1>9, <2>5, <2>6, <2>7, <2>8, Zenon DEF x
<1> QED
  BY <1>1, <1>8, <1>9

\* The positions of a file, before and after a step, and the tuples there.
LEMMA PositionsType ==
    ASSUME DiskOK
    PROVE  /\ \A pos : pos \in Positions <=> \E p \in 1 .. Len(disk) :
                           \E l \in 1 .. Len(disk[p].items) : pos = <<p, l>>
           /\ \A pos \in Positions :
                 /\ pos \in Tids
                 /\ pos[1] \in 1 .. Len(disk) /\ pos[2] \in 1 .. Len(disk[pos[1]].items)
                 /\ pos = <<pos[1], pos[2]>>
                 /\ disk[pos[1]].items[pos[2]] \in Slots
                 /\ TupleAt(pos) \in Tuples
<1>1. DOMAIN disk = 1 .. Len(disk) /\ Len(disk) \in Nat
  BY DEF DiskOK
<1>2. \A pos : pos \in Positions <=> \E p \in 1 .. Len(disk) :
          \E l \in 1 .. Len(disk[p].items) : pos = <<p, l>>
  BY <1>1, PositionsAre, SMTT(30), ZenonT(30) DEF Positions
<1>3. ASSUME NEW pos \in Positions
      PROVE  /\ pos \in Tids
             /\ pos[1] \in 1 .. Len(disk) /\ pos[2] \in 1 .. Len(disk[pos[1]].items)
             /\ pos = <<pos[1], pos[2]>>
             /\ disk[pos[1]].items[pos[2]] \in Slots
             /\ TupleAt(pos) \in Tuples
  <2>0. PICK p \in 1 .. Len(disk) : \E l \in 1 .. Len(disk[p].items) : pos = <<p, l>>
    BY <1>2, <1>3
  <2>1. PICK l \in 1 .. Len(disk[p].items) : pos = <<p, l>>
    BY <2>0
  <2>2. disk[p] \in HeapPages
    BY ElementOfSeq, Zenon DEF DiskOK
  <2>3. disk[p].items \in Seq(Slots) /\ Len(disk[p].items) \in Nat
    BY <2>2 DEF HeapPages
  <2>4. disk[p].items[l] \in Slots
    BY <2>3, ElementOfSeq, Zenon
  <2>5. disk[p].items[l].item \in Tuples
    BY <2>4 DEF Slots
  <2>6. p \in Nat \ {0} /\ l \in Nat \ {0}
    BY <1>1, <2>3
  <2> QED
    BY <2>1, <2>4, <2>5, <2>6 DEF Tids, TupleAt
<1> QED
  BY <1>2, <1>3

\* A row that is placed on page p takes a position that no row had, with its own id in
\* it, and no other position changes.
LEMMA PlaceEffect ==
    ASSUME DiskOK, NEW row \in Rows, NEW p \in 1 .. Len(disk) + 1,
           p <= Len(disk) => Fits(disk[p], SizeOf[row]), PlaceRow(row, p)
    PROVE  /\ <<p, NextLoc(p)>> \in Tids
           /\ <<p, NextLoc(p)>> \notin Positions
           /\ Positions' = Positions \cup {<<p, NextLoc(p)>>}
           /\ Live' = Live \cup {<<p, NextLoc(p)>>}
           /\ \A pos \in Positions : TupleAt(pos)' = TupleAt(pos)
           /\ disk'[p].items[NextLoc(p)].item = [row |-> row, tid |-> SelfTid(p, NextLoc(p))]
<1> DEFINE l == NextLoc(p)
           x == [row |-> row, tid |-> SelfTid(p, NextLoc(p))]
           old == IF p <= Len(disk) THEN disk[p].items ELSE <<>>
           locs(d) == {<<q, k>> : q \in DOMAIN d, k \in Nat}
<1>1. /\ DiskOK' /\ Len(disk') = IF p <= Len(disk) THEN Len(disk) ELSE Len(disk) + 1
      /\ \A q \in 1 .. Len(disk) : q # p => disk'[q] = disk[q]
      /\ l \in Nat \ {0}
      /\ disk'[p].items = Append(old, Slot(x))
      /\ p <= Len(disk) => l = Len(disk[p].items) + 1
      /\ p > Len(disk) => l = 1
  BY PlaceWrites
<1>2. Len(disk) \in Nat /\ p \in Nat \ {0}
  BY DEF DiskOK
<1>3. old \in Seq(Slots)
  <2>1. CASE p <= Len(disk)
    <3>0. p \in 1 .. Len(disk)
      BY <1>2, <2>1
    <3>1. disk[p] \in HeapPages
      BY <3>0, ElementOfSeq, Zenon DEF DiskOK
    <3> QED
      BY <2>1, <3>1 DEF HeapPages
  <2> QED
    BY <1>2, <2>1
<1>4. l = Len(old) + 1
  BY <1>1, <1>2
<1> HIDE DEF old, x, l
<1>5. /\ Len(disk'[p].items) = l
      /\ \A k \in 1 .. l - 1 : disk'[p].items[k] = old[k]
      /\ disk'[p].items[l] = Slot(x)
  BY <1>1, <1>3, <1>4
<1>6. \A pos : pos \in Positions' <=> \E q \in 1 .. Len(disk') :
          \E k \in 1 .. Len(disk'[q].items) : pos = <<q, k>>
  <2>1. DOMAIN disk' = 1 .. Len(disk')
    BY <1>1 DEF DiskOK
  <2> QED
    BY <2>1, PositionsAre, SMTT(30), ZenonT(30) DEF Positions
<1>7. \A pos : pos \in Positions <=> \E q \in 1 .. Len(disk) :
          \E k \in 1 .. Len(disk[q].items) : pos = <<q, k>>
  BY PositionsType
<1>8. ASSUME NEW q \in 1 .. Len(disk), NEW k \in 1 .. Len(disk[q].items)
      PROVE  /\ q \in 1 .. Len(disk') /\ k \in 1 .. Len(disk'[q].items)
             /\ <<q, k>> # <<p, l>>
             /\ disk'[q].items[k] = disk[q].items[k]
  <2>1. q \in 1 .. Len(disk')
    BY <1>1, <1>2
  <2>2. CASE q = p
    <3>1. p <= Len(disk) /\ old = disk[p].items
      BY <1>2, <2>2 DEF old
    <3> QED
      BY <1>3, <1>4, <1>5, <2>1, <2>2, <3>1
  <2>3. CASE q # p
    BY <1>1, <2>1, <2>3
  <2> QED
    BY <2>2, <2>3
<1>9. p \in 1 .. Len(disk') /\ l \in 1 .. Len(disk'[p].items)
  BY <1>1, <1>2, <1>5
<1>10. ASSUME NEW q \in 1 .. Len(disk'), NEW k \in 1 .. Len(disk'[q].items), <<q, k>> # <<p, l>>
       PROVE  q \in 1 .. Len(disk) /\ k \in 1 .. Len(disk[q].items)
  <2>1. CASE q = p
    <3>1. k \in 1 .. l - 1 /\ l - 1 >= 1
      BY <1>1, <1>5, <1>10, <2>1
    <3>2. p <= Len(disk)
      BY <1>1, <1>2, <3>1
    <3> QED
      BY <1>1, <1>2, <2>1, <3>1, <3>2
  <2>2. CASE q # p
    BY <1>1, <1>2, <2>2
  <2> QED
    BY <2>1, <2>2
<1>11. <<p, l>> \notin Positions
  BY <1>7, <1>8
<1>12. Positions' = Positions \cup {<<p, l>>}
  <2>1. \A pos \in Positions : pos \in Positions'
    BY <1>6, <1>7, <1>8, SMTT(30), ZenonT(30)
  <2>2. <<p, l>> \in Positions'
    BY <1>6, <1>9
  <2>3. \A pos \in Positions' : pos # <<p, l>> => pos \in Positions
    BY <1>6, <1>7, <1>10
  <2> QED
    BY <2>1, <2>2, <2>3
<1>13. \A pos \in Positions : disk'[pos[1]].items[pos[2]] = disk[pos[1]].items[pos[2]]
  BY <1>7, <1>8
<1>14. Live' = Live \cup {<<p, l>>}
  <2>2. ~disk'[p].items[l].dead
    BY <1>5 DEF Slot
  <2>3. \A pos : pos \in Live' <=> pos \in Positions' /\ ~disk'[pos[1]].items[pos[2]].dead
    BY DEF Live, IsLive
  <2>4. \A pos : pos \in Live <=> pos \in Positions /\ ~disk[pos[1]].items[pos[2]].dead
    BY DEF Live, IsLive
  <2>5. <<p, l>>[1] = p /\ <<p, l>>[2] = l
    OBVIOUS
  <2>6. <<p, l>> \in Live'
    BY <1>12, <2>2, <2>3, <2>5
  <2> QED
    BY <1>12, <1>13, <2>3, <2>4, <2>6
<1>15. disk'[p].items[l].item = x
  BY <1>5 DEF Slot
<1>16. \A pos \in Positions : TupleAt(pos)' = TupleAt(pos)
  BY <1>13 DEF TupleAt
<1> QED
  BY <1>1, <1>2, <1>11, <1>12, <1>14, <1>15, <1>16 DEF x, l, Tids

\* PageDeleteItem keeps the tuple and its position.
LEMMA DeleteEffect ==
    ASSUME DiskOK, NEW tid, DeleteByTid(tid)
    PROVE  /\ tid \in Positions
           /\ DiskOK' /\ Len(disk') = Len(disk)
           /\ Positions' = Positions
           /\ Live' = Live \ {tid}
           /\ \A pos \in Positions : TupleAt(pos)' = TupleAt(pos)
<1>1. tid \in Positions /\ disk' = [disk EXCEPT ![tid[1]] = DeleteItem(disk[tid[1]], tid[2])]
  BY DEF DeleteByTid
<1> DEFINE q == tid[1]  k == tid[2]  page == disk[q]
           new == DeleteItem(page, k)
<1>2. q \in 1 .. Len(disk) /\ k \in 1 .. Len(page.items) /\ tid = <<q, k>>
  BY <1>1, PositionsType
<1>3. page \in HeapPages
  BY <1>2, ElementOfSeq, Zenon DEF DiskOK
<1>4. /\ page.items \in Seq(Slots) /\ page.span \in 0 .. PageSpan
      /\ Len(page.items) \in Nat
  BY <1>3 DEF HeapPages
<1>5. page.items[k] \in Slots
  BY <1>2, <1>4, ElementOfSeq, Zenon
<1>6. Tombstone(page.items[k]) \in Slots /\ Tombstone(page.items[k]).dead
      /\ Tombstone(page.items[k]).item = page.items[k].item
  BY <1>5 DEF Tombstone, Slots
<1>7. /\ new.items = [page.items EXCEPT ![k] = Tombstone(page.items[k])]
      /\ new.span = page.span
      /\ new = [items |-> new.items, span |-> new.span]
  BY DEF DeleteItem
<1>8. /\ new.items \in Seq(Slots) /\ Len(new.items) = Len(page.items)
      /\ \A j \in 1 .. Len(page.items) :
            new.items[j] = IF j = k THEN Tombstone(page.items[k]) ELSE page.items[j]
  BY <1>2, <1>4, <1>6, <1>7, ExceptSeq
<1>9. new \in HeapPages
  BY <1>4, <1>7, <1>8 DEF HeapPages
<1> HIDE DEF new, page, q, k
<1>10. /\ disk' \in Seq(HeapPages) /\ Len(disk') = Len(disk)
       /\ \A p \in 1 .. Len(disk) : disk'[p] = IF p = q THEN new ELSE disk[p]
  BY <1>1, <1>2, <1>9, ExceptSeq DEF DiskOK, new, page, q, k
<1>11. DiskOK'
  BY <1>10 DEF DiskOK
<1>12. \A pos : pos \in Positions' <=> \E p \in 1 .. Len(disk') :
           \E l \in 1 .. Len(disk'[p].items) : pos = <<p, l>>
  <2>1. DOMAIN disk' = 1 .. Len(disk')
    BY <1>10
  <2> QED
    BY <2>1, PositionsAre DEF Positions
<1>13. \A p \in 1 .. Len(disk) : Len(disk'[p].items) = Len(disk[p].items)
  BY <1>8, <1>10 DEF page
<1>14. Positions' = Positions
  BY <1>10, <1>12, <1>13, PositionsType, ZenonT(30)
<1>15. ASSUME NEW pos \in Positions
       PROVE  /\ disk'[pos[1]].items[pos[2]] =
                    IF pos = tid THEN Tombstone(disk[pos[1]].items[pos[2]])
                    ELSE disk[pos[1]].items[pos[2]]
              /\ disk'[pos[1]].items[pos[2]].item = disk[pos[1]].items[pos[2]].item
  <2>1. pos[1] \in 1 .. Len(disk) /\ pos[2] \in 1 .. Len(disk[pos[1]].items)
        /\ pos = <<pos[1], pos[2]>>
    BY PositionsType
  <2>2. CASE pos[1] = q
    BY <1>2, <1>6, <1>8, <1>10, <2>1, <2>2, SMTT(30), ZenonT(30) DEF page
  <2>3. CASE pos[1] # q
    BY <1>2, <1>10, <2>1, <2>3
  <2> QED
    BY <2>2, <2>3
<1>16. Live' = Live \ {tid}
  <2>1. \A pos : pos \in Live' <=> pos \in Positions' /\ ~disk'[pos[1]].items[pos[2]].dead
    BY DEF Live, IsLive
  <2>2. \A pos : pos \in Live <=> pos \in Positions /\ ~disk[pos[1]].items[pos[2]].dead
    BY DEF Live, IsLive
  <2>3. Tombstone(disk[tid[1]].items[tid[2]]).dead
    BY <1>6 DEF page, q, k
  <2> QED
    BY <1>1, <1>14, <1>15, <2>1, <2>2, <2>3
<1>17. \A pos \in Positions : TupleAt(pos)' = TupleAt(pos)
  BY <1>15 DEF TupleAt
<1> QED
  BY <1>1, <1>10, <1>11, <1>14, <1>16, <1>17

-----------------------------------------------------------------------------
\* Between statements there is nothing to know but that.
LEMMA RestIsNone == Rest => NoneOK'
BY DEF Rest, NoneOK

\* The position from which a scan starts.
LEMMA StartType == Start \in Tids
BY DEF Start, Tids

\* A step after which no statement runs need only keep the disk in order.
LEMMA NoneKeepsStateOK == ASSUME DiskOK', NoneOK' PROVE StateOK'
BY StartType DEF StateOK, NoneOK

\* The first state: one empty page.
LEMMA InitStateOK == Init => StateOK
<1> SUFFICES ASSUME Init PROVE StateOK
  OBVIOUS
<1>1. NewPage \in HeapPages
  BY BoundAssumption DEF NewPage, EmptyPage, HeapPages
<1>2. DiskOK
  BY <1>1 DEF Init, DiskOK
<1> QED
  BY <1>2, StartType DEF Init, StateOK, NoneOK

\* Which statement runs, from its kind.
LEMMA KindIs ==
    ASSUME StateOK
    PROVE  /\ stmt.kind = "none" <=> NoneOK
           /\ stmt = NoStatement <=> NoneOK
           /\ stmt.kind = "insert" <=> InsertOK
           /\ stmt.kind = "update" <=> UpdateOK
           /\ stmt.kind = "delete" <=> DeleteOK
<1>1. NoneOK => stmt.kind = "none" /\ stmt = NoStatement
  BY DEF NoneOK, NoStatement
<1>2. InsertOK => stmt.kind = "insert" /\ stmt # NoStatement
  BY DEF InsertOK, Insert, NoStatement
<1>3. UpdateOK => stmt.kind = "update" /\ stmt # NoStatement
  BY DEF UpdateOK, Updates, NoStatement
<1>4. DeleteOK => stmt.kind = "delete" /\ stmt # NoStatement
  BY DEF DeleteOK, Deletes, NoStatement
<1>5. NoneOK \/ InsertOK \/ DeleteOK \/ UpdateOK
  BY DEF StateOK
<1> QED
  BY <1>1, <1>2, <1>3, <1>4, <1>5

\* The begin of a statement leaves the disk alone and sets up the cursor.
LEMMA BeginKeepsStateOK ==
    ASSUME StateOK, BeginInsert \/ BeginUpdate \/ BeginDelete
    PROVE  StateOK'
<1>1. DiskOK /\ cursor \in Tids
  BY DEF StateOK
<1>2. DiskOK /\ UNCHANGED <<disk, cursor, phase>> => DiskOK' /\ cursor' \in Tids
  BY <1>1 DEF DiskOK
<1>3. stmt = NoStatement => phase = "scan"
  BY KindIs DEF NoneOK
<1>4. CASE BeginInsert
  <2>0. PICK rows \in {<<r>> : r \in Rows} \cup {<<r, t>> : r, t \in Rows} :
            Begin([kind |-> "insert"], rows)
    BY <1>4 DEF BeginInsert
  <2>1. rows \in Seq(Rows)
    <3>1. (\E r \in Rows : rows = <<r>>) \/ (\E r \in Rows : \E t \in Rows : rows = <<r, t>>)
      BY SMT
    <3>2. ASSUME NEW r \in Rows, rows = <<r>> PROVE rows \in Seq(Rows)
      BY <3>2
    <3>3. ASSUME NEW r \in Rows, NEW t \in Rows, rows = <<r, t>> PROVE rows \in Seq(Rows)
      BY <3>3
    <3> QED
      BY <3>1, <3>2, <3>3
  <2>2. InsertOK'
    BY <1>3, <2>0, <2>1 DEF Begin, InsertOK, Insert
  <2> QED
    BY <1>1, <1>2, <1>4, <2>2 DEF BeginInsert, Begin, StateOK
<1>5. CASE BeginUpdate
  <2>1. UpdateOK'
    BY <1>3, <1>5 DEF BeginUpdate, Begin, UpdateOK, Updates
  <2> QED
    BY <1>1, <1>2, <1>5, <2>1 DEF BeginUpdate, Begin, StateOK
<1>6. CASE BeginDelete
  <2>1. DeleteOK'
    BY <1>3, <1>6 DEF BeginDelete, Begin, DeleteOK, Deletes
  <2> QED
    BY <1>1, <1>2, <1>6, <2>1 DEF BeginDelete, Begin, StateOK
<1> QED
  BY <1>4, <1>5, <1>6

\* The place of a row, for an INSERT and for the second half of an update.
LEMMA InsertTupleIs ==
    ASSUME StateOK, InsertTuple
    PROVE  /\ InsertOK /\ pending # <<>> /\ Head(pending) \in Rows
           /\ \E p \in 1 .. Len(disk) + 1 :
                 /\ p <= Len(disk) => Fits(disk[p], SizeOf[Head(pending)])
                 /\ PlaceRow(Head(pending), p)
                 /\ cursor' = <<p, cursor[2]>>
           /\ InsertOK'
           /\ pending' = Tail(pending) /\ UNCHANGED <<stmt, phase>>
<1>1. InsertOK /\ pending # <<>>
  BY KindIs DEF InsertTuple
<1>2. Head(pending) \in Rows /\ Tail(pending) \in Seq(Rows)
  BY <1>1, HeadTailProperties DEF InsertOK
<1>3. cursor[1] \in Nat \ {0}
  BY DEF StateOK, Tids
<1>4. DiskOK
  BY DEF StateOK
<1>5. pending' = Tail(pending) /\ UNCHANGED <<stmt, phase>>
  BY DEF InsertTuple
<1>6. InsertOK'
  BY <1>1, <1>2, <1>5 DEF InsertOK
<1> DEFINE p == TargetPage(Head(pending), cursor[1])
<1>7. p \in 1 .. Len(disk) + 1 /\ (p <= Len(disk) => Fits(disk[p], SizeOf[Head(pending)]))
  BY <1>2, <1>3, <1>4, TargetPageIs
<1>8. PlaceRow(Head(pending), p) /\ cursor' = <<p, cursor[2]>>
  BY DEF InsertTuple
<1> QED
  BY <1>1, <1>2, <1>5, <1>6, <1>7, <1>8

\* The step that writes a new version puts it on a page with room, or a new one.
LEMMA PlaceNewVersionIs ==
    ASSUME StateOK, PlaceNewVersion
    PROVE  /\ UpdateOK /\ phase = "place" /\ pending # <<>> /\ Head(pending) \in Versions
           /\ \E p \in 1 .. Len(disk) + 1 :
                 /\ p <= Len(disk) => Fits(disk[p], SizeOf[Head(pending).row])
                 /\ PlaceRow(Head(pending).row, p)
           /\ UpdateOK'
           /\ pending' = Tail(pending) /\ phase' = "delete" /\ UNCHANGED <<stmt, cursor>>
<1>1. UpdateOK /\ phase = "place" /\ pending # <<>>
  BY KindIs DEF PlaceNewVersion, UpdateOK
<1>2. Head(pending) \in Versions /\ Tail(pending) \in Seq(Versions)
  BY <1>1, HeadTailProperties DEF UpdateOK
<1>3. Head(pending).row \in Rows /\ Head(pending).tid[1] \in Nat \ {0}
  BY <1>2 DEF Versions, Tids
<1>4. DiskOK
  BY DEF StateOK
<1>5. pending' = Tail(pending) /\ phase' = "delete" /\ UNCHANGED <<stmt, cursor>>
  BY DEF PlaceNewVersion
<1>6. UpdateOK'
  BY <1>1, <1>2, <1>5 DEF UpdateOK
<1> DEFINE p == TargetPage(Head(pending).row, Head(pending).tid[1])
<1>7. p \in 1 .. Len(disk) + 1 /\ (p <= Len(disk) => Fits(disk[p], SizeOf[Head(pending).row]))
  BY <1>3, <1>4, TargetPageIs
<1>8. PlaceRow(Head(pending).row, p)
  BY DEF PlaceNewVersion
<1> QED
  BY <1>1, <1>2, <1>5, <1>6, <1>7, <1>8

\* What an UPDATE puts on its list is a new version of a live row.
LEMMA CollectUpdateIs ==
    ASSUME StateOK, NEW pos \in Live, stmt.kind = "update",
           pending' = Append(pending, [row |-> stmt.set[TupleAt(pos).row],
                                       tid |-> TupleAt(pos).tid])
    PROVE  /\ pos \in Positions
           /\ [row |-> stmt.set[TupleAt(pos).row], tid |-> TupleAt(pos).tid] \in Versions
           /\ pending \in Seq(Versions) /\ pending' \in Seq(Versions)
<1>1. UpdateOK
  BY KindIs
<1>2. pos \in Positions
  BY DEF Live
<1>3. TupleAt(pos) \in Tuples
  BY <1>2, PositionsType DEF StateOK
<1>4. TupleAt(pos).row \in Rows /\ TupleAt(pos).tid \in Tids
  BY <1>3 DEF Tuples
<1>5. stmt.set \in [Rows -> Rows]
  BY <1>1 DEF UpdateOK, Updates
<1>6. [row |-> stmt.set[TupleAt(pos).row], tid |-> TupleAt(pos).tid] \in Versions
  BY <1>4, <1>5 DEF Versions
<1> QED
  BY <1>1, <1>2, <1>6, AppendProperties DEF UpdateOK

\* The cursor goes one slot further on its page.
LEMMA NextSlotType ==
    ASSUME NEW pos \in Tids
    PROVE  <<pos[1], pos[2] + 1>> \in Tids
BY DEF Tids

\* Every step keeps the types.
LEMMA StepKeepsStateOK == StateOK /\ [Next]_vars => StateOK'
<1> SUFFICES ASSUME StateOK, [Next]_vars PROVE StateOK'
  OBVIOUS
<1>1. DiskOK /\ cursor \in Tids
  BY DEF StateOK
<1>2. CASE BeginInsert \/ BeginUpdate \/ BeginDelete
  BY <1>2, BeginKeepsStateOK
<1>3. CASE InsertTuple
  <2>1. PICK p \in 1 .. Len(disk) + 1 :
            /\ p <= Len(disk) => Fits(disk[p], SizeOf[Head(pending)])
            /\ PlaceRow(Head(pending), p)
            /\ cursor' = <<p, cursor[2]>>
    BY <1>3, InsertTupleIs
  <2>2. Head(pending) \in Rows /\ InsertOK'
    BY <1>3, InsertTupleIs
  <2>3. DiskOK'
    BY <1>1, <2>1, <2>2, PlaceWrites
  <2>4. cursor' \in Tids
    BY <1>1, <2>1 DEF Tids, DiskOK
  <2> QED
    BY <2>2, <2>3, <2>4 DEF StateOK
<1>4. CASE DeleteTuple
  <2>1. PICK pos \in Live : /\ DeleteByTid(TupleAt(pos).tid)
                            /\ cursor' = <<pos[1], pos[2] + 1>>
    BY <1>4 DEF DeleteTuple
  <2>2. DiskOK'
    BY <1>1, <2>1, DeleteEffect
  <2>3. pos \in Tids
    BY <1>1, PositionsType DEF Live
  <2>4. cursor' \in Tids
    BY <2>1, <2>3, NextSlotType
  <2>5. DeleteOK'
    BY <1>4, KindIs DEF DeleteTuple, DeleteOK
  <2> QED
    BY <2>2, <2>4, <2>5 DEF StateOK
<1>5. CASE CollectUpdate
  <2>1. PICK pos \in Live :
            /\ pending' = Append(pending, [row |-> stmt.set[TupleAt(pos).row],
                                           tid |-> TupleAt(pos).tid])
            /\ cursor' = <<pos[1], pos[2] + 1>>
    BY <1>5 DEF CollectUpdate
  <2>2. stmt.kind = "update" /\ phase = "scan" /\ UNCHANGED <<disk, stmt, phase>>
    BY <1>5 DEF CollectUpdate
  <2>3. pending' \in Seq(Versions)
    BY <2>1, <2>2, CollectUpdateIs
  <2>4. UpdateOK'
    BY <2>2, <2>3, KindIs DEF UpdateOK
  <2>5. pos \in Tids
    BY <1>1, PositionsType DEF Live
  <2>6. cursor' \in Tids
    BY <2>1, <2>5, NextSlotType
  <2> QED
    BY <1>1, <2>2, <2>4, <2>6 DEF StateOK, DiskOK
<1>6. CASE UpdateScanEnds
  <2>1. UpdateOK'
    BY <1>6, KindIs DEF UpdateScanEnds, UpdateOK
  <2> QED
    BY <1>1, <1>6, <2>1 DEF UpdateScanEnds, StateOK, DiskOK
<1>7. CASE DeleteOldVersion
  <2>1. DiskOK'
    BY <1>1, <1>7, DeleteEffect DEF DeleteOldVersion
  <2>2. UpdateOK'
    BY <1>7, KindIs DEF DeleteOldVersion, UpdateOK
  <2> QED
    BY <1>1, <1>7, <2>1, <2>2 DEF DeleteOldVersion, StateOK
<1>8. CASE PlaceNewVersion
  <2>1. PICK p \in 1 .. Len(disk) + 1 :
            /\ p <= Len(disk) => Fits(disk[p], SizeOf[Head(pending).row])
            /\ PlaceRow(Head(pending).row, p)
    BY <1>8, PlaceNewVersionIs
  <2>2. Head(pending).row \in Rows /\ UpdateOK' /\ UNCHANGED cursor
    BY <1>8, PlaceNewVersionIs DEF Versions
  <2>3. DiskOK'
    BY <1>1, <2>1, <2>2, PlaceWrites
  <2> QED
    BY <1>1, <2>2, <2>3 DEF StateOK
<1>9. CASE StatementEnds \/ RowTooLarge \/ RowOverruns \/ IdMissing \/ Crash
  <2>1. Rest /\ UNCHANGED disk
    BY <1>9 DEF StatementEnds, RowTooLarge, RowOverruns, IdMissing, Crash
  <2> QED
    BY <1>1, <2>1, RestIsNone, NoneKeepsStateOK DEF DiskOK
<1>10. CASE UNCHANGED vars
  BY <1>1, <1>10 DEF vars, StateOK, DiskOK, NoneOK, InsertOK, DeleteOK, UpdateOK
<1> QED
  BY <1>2, <1>3, <1>4, <1>5, <1>6, <1>7, <1>8, <1>9, <1>10 DEF Next, Work, Overwritten

\* History: wrapped is a flag.
LEMMA StepKeepsFlag == FlagOK /\ [Next]_vars => FlagOK'
<1> SUFFICES ASSUME FlagOK, [Next]_vars PROVE FlagOK'
  OBVIOUS
<1>1. CASE RowOverruns
  BY <1>1 DEF RowOverruns, FlagOK
<1>2. CASE UNCHANGED wrapped
  BY <1>2 DEF FlagOK
<1> QED
  BY <1>1, <1>2
  DEF Next, Work, vars, BeginInsert, BeginUpdate, BeginDelete, Begin, InsertTuple,
      DeleteTuple, CollectUpdate, UpdateScanEnds, DeleteOldVersion, PlaceNewVersion,
      StatementEnds, RowTooLarge, IdMissing, Crash, Overwritten

\* The rows on disk, the statement's variables and the free space of every page
\* keep their types, on a file of any length and with rows of any size, as long
\* as no row was written to a page without room for it.
THEOREM TypeCorrect == Spec => []TypeOK
<1>1. Init => StateOK /\ FlagOK
  BY InitStateOK DEF Init, FlagOK
<1>2. StateOK /\ FlagOK /\ [Next]_vars => StateOK' /\ FlagOK'
  BY StepKeepsStateOK, StepKeepsFlag
<1>3. StateOK /\ FlagOK => TypeOK
  <2> SUFFICES ASSUME StateOK, FlagOK PROVE TypeOK
    OBVIOUS
  <2>1. ASSUME NEW p \in DOMAIN disk
        PROVE  /\ disk[p].span \in 0 .. PageSpan
               /\ \A l \in 1 .. NumItems(disk[p]) : disk[p].items[l].item.row \in Rows
    <3>1. p \in 1 .. Len(disk) /\ disk \in Seq(HeapPages)
      BY <2>1 DEF StateOK, DiskOK
    <3>2. disk[p] \in HeapPages
      BY <3>1, ElementOfSeq, Zenon
    <3>3. disk[p].span \in 0 .. PageSpan /\ disk[p].items \in Seq(Slots)
      BY <3>2 DEF HeapPages
    <3>4. \A l \in 1 .. Len(disk[p].items) : disk[p].items[l] \in Slots
      BY <3>3, ElementOfSeq
    <3> QED
      BY <3>3, <3>4 DEF NumItems, Slots, Tuples
  <2>2. stmt.kind \in {"none", "insert", "update", "delete"}
    BY KindIs DEF StateOK
  <2>3. phase \in {"scan", "delete", "place"}
    BY DEF StateOK, NoneOK, InsertOK, DeleteOK, UpdateOK
  <2> QED
    BY <2>1, <2>2, <2>3 DEF TypeOK, FlagOK
<1> QED
  BY <1>1, <1>2, <1>3, PTL DEF Spec

-----------------------------------------------------------------------------
\* The id of a position is the position, as long as the page's number fits into 16 bits.
LEMMA SelfTidIs ==
    ASSUME NEW p \in Nat \ {0}, p <= TidPages, NEW l
    PROVE  SelfTid(p, l) = <<p, l>>
<1>1. p - 1 \in Nat /\ TidPages \in Nat \ {0} /\ p - 1 < TidPages
  BY BoundAssumption
<1>2. (p - 1) % TidPages = p - 1
  BY <1>1
<1>3. ((p - 1) % TidPages) + 1 = p
  BY <1>1, <1>2
<1> QED
  BY <1>3, Zenon DEF SelfTid

\* A new tuple carries its own id, and every other keeps it.
LEMMA PlaceKeepsHome ==
    ASSUME DiskOK, NEW row \in Rows, NEW p \in 1 .. Len(disk) + 1,
           p <= Len(disk) => Fits(disk[p], SizeOf[row]), PlaceRow(row, p),
           Numbered'
    PROVE  /\ Numbered
           /\ AtHome => AtHome'
           /\ disk'[p].items[NextLoc(p)].item = [row |-> row, tid |-> <<p, NextLoc(p)>>]
<1>1. Len(disk) \in Nat /\ TidPages \in Nat \ {0}
  BY BoundAssumption DEF DiskOK
<1>2. Len(disk') = IF p <= Len(disk) THEN Len(disk) ELSE Len(disk) + 1
  BY PlaceWrites
<1>3. Numbered /\ p <= TidPages
  BY <1>1, <1>2 DEF Numbered
<1>4. SelfTid(p, NextLoc(p)) = <<p, NextLoc(p)>>
  BY <1>3, SelfTidIs
<1>5. disk'[p].items[NextLoc(p)].item = [row |-> row, tid |-> <<p, NextLoc(p)>>]
  BY <1>4, PlaceEffect
<1>6. ASSUME AtHome PROVE AtHome'
  <2>1. ASSUME NEW pos \in Positions' PROVE disk'[pos[1]].items[pos[2]].item.tid = pos
    <3>1. CASE pos = <<p, NextLoc(p)>>
      <4>1. pos[1] = p /\ pos[2] = NextLoc(p)
        BY <3>1
      <4>2. disk'[pos[1]].items[pos[2]].item.tid = <<p, NextLoc(p)>>
        BY <4>1, <1>5
      <4> QED
        BY <3>1, <4>2
    <3>2. CASE pos # <<p, NextLoc(p)>>
      <4>0. Positions' = Positions \cup {<<p, NextLoc(p)>>}
        BY PlaceEffect
      <4>1. pos \in Positions
        BY <2>1, <3>2, <4>0
      <4>2. TupleAt(pos)' = TupleAt(pos)
        BY <4>1, PlaceEffect
      <4> QED
        BY <1>6, <4>1, <4>2 DEF AtHome, TupleAt
    <3> QED
      BY <3>1, <3>2
  <2> QED
    BY <2>1 DEF AtHome, TupleAt
<1> QED
  BY <1>3, <1>5, <1>6

\* A row that dies keeps its position and its id.
LEMMA DeleteKeepsHome ==
    ASSUME DiskOK, NEW tid, DeleteByTid(tid), Numbered'
    PROVE  Numbered /\ (AtHome => AtHome')
<1>1. /\ Len(disk') = Len(disk) /\ Positions' = Positions
      /\ \A pos \in Positions : TupleAt(pos)' = TupleAt(pos)
  BY DeleteEffect
<1> QED
  BY <1>1 DEF Numbered, AtHome

\* Positions of pages: one comes after all those that the scan has left behind.
LEMMA BeforeFacts ==
    ASSUME NEW a \in Tids, NEW b \in Tids
    PROVE  /\ ~Before(a, a)
           /\ Before(a, b) => ~Before(b, a)
           /\ a = b \/ Before(a, b) \/ Before(b, a)
           /\ Before(a, <<b[1], b[2] + 1>>) <=> a = b \/ Before(a, b)
           /\ \A c \in Tids : Before(a, b) /\ Before(b, c) => Before(a, c)
<1>1. /\ a[1] \in Nat /\ a[2] \in Nat /\ a = <<a[1], a[2]>>
      /\ b[1] \in Nat /\ b[2] \in Nat /\ b = <<b[1], b[2]>>
      /\ \A c \in Tids : c[1] \in Nat /\ c[2] \in Nat
  BY DEF Tids
<1>2. a = b <=> a[1] = b[1] /\ a[2] = b[2]
  BY <1>1
<1>3. \A x, y : <<x, y>>[1] = x /\ <<x, y>>[2] = y
  OBVIOUS
<1> QED
  BY <1>1, <1>2, <1>3 DEF Before

-----------------------------------------------------------------------------
\* The next match is the first of all live rows ahead that satisfy the WHERE clause.
LEMMA NextMatchIs ==
    ASSUME StateOK, NEW pos, IsNextMatch(pos)
    PROVE  /\ pos \in MatchesAhead /\ pos \in Live /\ pos \in Positions /\ pos \in Tids
           /\ Ahead(pos) /\ TupleAt(pos).row \in stmt.where
           /\ \A other \in MatchesAhead : other = pos \/ Before(pos, other)
<1>1. pos \in MatchesAhead /\ \A other \in MatchesAhead : other = pos \/ Before(pos, other)
  BY DEF IsNextMatch
<1>2. pos \in Live /\ Ahead(pos) /\ TupleAt(pos).row \in stmt.where
  BY <1>1 DEF MatchesAhead
<1>3. pos \in Positions
  BY <1>2, SMTT(30), ZenonT(30) DEF Live
<1> QED
  BY <1>1, <1>2, <1>3, PositionsType DEF StateOK

\* The scan adds to the list a position that is behind the new cursor and not in it.
LEMMA CollectKeepsList ==
    ASSUME StateOK, AtHome, ListOK, CollectUpdate
    PROVE  ListOK'
<1>1. PICK pos \in Live :
          /\ IsNextMatch(pos)
          /\ pending' = Append(pending, [row |-> stmt.set[TupleAt(pos).row],
                                         tid |-> TupleAt(pos).tid])
          /\ cursor' = <<pos[1], pos[2] + 1>>
  BY DEF CollectUpdate
<1>2. stmt.kind = "update" /\ phase = "scan" /\ UNCHANGED <<disk, stmt, phase>>
  BY DEF CollectUpdate
<1> DEFINE new == [row |-> stmt.set[TupleAt(pos).row], tid |-> TupleAt(pos).tid]
<1>3. pos \in Positions /\ pos \in Tids /\ Ahead(pos)
  BY <1>1, NextMatchIs
<1>4. pending \in Seq(Versions) /\ new \in Versions
  BY <1>1, <1>2, CollectUpdateIs
<1>5. new.tid = pos /\ new.row = stmt.set[TupleAt(pos).row]
  BY <1>3 DEF AtHome
<1> HIDE DEF new
<1>6. /\ Len(pending) \in Nat /\ DOMAIN pending = 1 .. Len(pending)
      /\ DOMAIN pending' = 1 .. Len(pending) + 1
      /\ pending'[Len(pending) + 1] = new
      /\ \A i \in 1 .. Len(pending) : pending'[i] = pending[i]
  BY <1>1, <1>4, AppendProperties, SMT DEF new
<1>7. ASSUME NEW i \in 1 .. Len(pending)
      PROVE  /\ pending[i].tid \in Positions /\ pending[i].tid \in Live
             /\ pending[i].row = stmt.set[TupleAt(pending[i].tid).row]
             /\ Before(pending[i].tid, pos)
             /\ Before(pending[i].tid, cursor')
  <2>1. /\ pending[i].tid \in Positions /\ pending[i].tid \in Live
        /\ pending[i].row = stmt.set[TupleAt(pending[i].tid).row]
        /\ Before(pending[i].tid, cursor)
    BY <1>2, <1>6 DEF ListOK
  <2>2. pending[i].tid \in Tids /\ cursor \in Tids
    BY <2>1, PositionsType DEF StateOK
  <2>3. Before(pending[i].tid, pos)
    BY <1>3, <2>1, <2>2, BeforeFacts DEF Ahead
  <2> QED
    BY <1>1, <1>3, <2>1, <2>2, <2>3, BeforeFacts
<1>8. Before(pos, cursor')
  BY <1>1, <1>3, BeforeFacts
<1>9. /\ Positions' = Positions /\ Live' = Live
      /\ \A q : TupleAt(q)' = TupleAt(q)
  BY <1>2 DEF Positions, Live, TupleAt
<1>10. ASSUME NEW i \in DOMAIN pending'
       PROVE  /\ pending'[i].tid \in Positions' /\ pending'[i].tid \in Live'
              /\ pending'[i].row = stmt.set[TupleAt(pending'[i].tid).row]
              /\ Before(pending'[i].tid, cursor')
  <2>1. CASE i = Len(pending) + 1
    BY <1>1, <1>3, <1>5, <1>6, <1>8, <1>9, <2>1
  <2>2. CASE i \in 1 .. Len(pending)
    BY <1>6, <1>7, <1>9, <2>2
  <2> QED
    BY <1>6, <2>1, <2>2
<1>11. ASSUME NEW i \in DOMAIN pending', NEW j \in DOMAIN pending', i # j
       PROVE  pending'[i].tid # pending'[j].tid
  <2>1. \A k \in 1 .. Len(pending) : pending[k].tid # pos
    BY <1>3, <1>7, BeforeFacts, ZenonT(30)
  <2>2. CASE i \in 1 .. Len(pending) /\ j \in 1 .. Len(pending)
    BY <1>2, <1>6, <1>11, <2>2 DEF ListOK
  <2>3. CASE i = Len(pending) + 1
    BY <1>5, <1>6, <1>11, <2>1, <2>3
  <2>4. CASE j = Len(pending) + 1
    BY <1>5, <1>6, <1>11, <2>1, <2>4, SMTT(30), ZenonT(30)
  <2> QED
    BY <1>6, <2>2, <2>3, <2>4
<1> QED
  BY <1>2, <1>9, <1>10, <1>11, ZenonT(30) DEF ListOK, TupleAt

\* The first half of an update kills the old version at the head of the list only.
LEMMA DeleteOldKeepsList ==
    ASSUME StateOK, ListOK, DeleteOldVersion
    PROVE  ListOK'
<1>1. /\ stmt.kind = "update" /\ phase = "delete" /\ pending # <<>>
      /\ DeleteByTid(Head(pending).tid)
      /\ phase' = "place" /\ UNCHANGED <<stmt, cursor, pending>>
  BY DEF DeleteOldVersion
<1>2. pending \in Seq(Versions)
  BY <1>1, KindIs DEF UpdateOK
<1>3. 1 \in DOMAIN pending /\ Head(pending) = pending[1]
  BY <1>1, <1>2
<1>4. /\ Positions' = Positions /\ Live' = Live \ {pending[1].tid}
      /\ \A pos \in Positions : TupleAt(pos)' = TupleAt(pos)
  BY <1>1, <1>3, DeleteEffect DEF StateOK
<1>5. ASSUME NEW i \in DOMAIN pending
      PROVE  /\ pending[i].tid \in Positions /\ pending[i].tid \in Live
             /\ pending[i].row = stmt.set[TupleAt(pending[i].tid).row]
             /\ i # 1 => pending[i].tid # pending[1].tid
  BY <1>1, <1>3 DEF ListOK
<1>6. ASSUME NEW i \in DOMAIN pending
      PROVE  pending[i].row = stmt.set[disk'[pending[i].tid[1]].items[pending[i].tid[2]].item.row]
  BY <1>4, <1>5, ZenonT(30) DEF TupleAt
<1>7. \A i, j \in DOMAIN pending : i # j => pending[i].tid # pending[j].tid
  BY <1>1, SMTT(30), ZenonT(30) DEF ListOK
<1> QED
  BY <1>1, <1>4, <1>5, <1>6, <1>7, ZenonT(30) DEF ListOK, TupleAt

\* Placing a new version moves and kills no tuple, and takes the head off the list.
LEMMA PlaceNewKeepsList ==
    ASSUME StateOK, ListOK, PlaceNewVersion
    PROVE  ListOK'
<1>1. /\ UpdateOK /\ phase = "place" /\ pending # <<>> /\ Head(pending) \in Versions
      /\ pending' = Tail(pending) /\ phase' = "delete" /\ UNCHANGED <<stmt, cursor>>
  BY PlaceNewVersionIs
<1>2. PICK p \in 1 .. Len(disk) + 1 :
          /\ p <= Len(disk) => Fits(disk[p], SizeOf[Head(pending).row])
          /\ PlaceRow(Head(pending).row, p)
  BY PlaceNewVersionIs
<1>3. /\ Positions' = Positions \cup {<<p, NextLoc(p)>>}
      /\ Live' = Live \cup {<<p, NextLoc(p)>>}
      /\ \A pos \in Positions : TupleAt(pos)' = TupleAt(pos)
  BY <1>1, <1>2, PlaceEffect, ZenonT(30) DEF StateOK, Versions
<1>4. /\ pending \in Seq(Versions) /\ Len(pending) \in Nat
      /\ DOMAIN pending = 1 .. Len(pending)
      /\ DOMAIN pending' = 1 .. Len(pending) - 1
      /\ \A i \in 1 .. Len(pending) - 1 : pending'[i] = pending[i + 1]
  BY <1>1, HeadTailProperties, SMT DEF UpdateOK
<1>5. stmt.kind = "update"
  BY <1>1 DEF UpdateOK, Updates
<1>6. ASSUME NEW i \in DOMAIN pending'
      PROVE  /\ pending'[i].tid \in Positions' /\ pending'[i].tid \in Live'
             /\ pending'[i].row = stmt.set[disk'[pending'[i].tid[1]].items[pending'[i].tid[2]].item.row]
  <2>1. i + 1 \in DOMAIN pending /\ i + 1 # 1 /\ pending'[i] = pending[i + 1]
    BY <1>4
  <2>2. /\ pending'[i].tid \in Positions /\ pending'[i].tid \in Live
        /\ pending'[i].row = stmt.set[TupleAt(pending'[i].tid).row]
    BY <1>5, <2>1 DEF ListOK
  <2> QED
    BY <1>3, <2>2, ZenonT(30) DEF TupleAt
<1>7. ASSUME NEW i \in DOMAIN pending', NEW j \in DOMAIN pending', i # j
      PROVE  pending'[i].tid # pending'[j].tid
  <2>1. /\ i + 1 \in DOMAIN pending /\ j + 1 \in DOMAIN pending /\ i + 1 # j + 1
        /\ pending'[i] = pending[i + 1] /\ pending'[j] = pending[j + 1]
    BY <1>4, <1>7
  <2> QED
    BY <1>5, <2>1 DEF ListOK
<1> QED
  BY <1>1, <1>6, <1>7, ZenonT(30) DEF ListOK, TupleAt

\* A step adds at most one position, so the file stays finite.
LEMMA StepKeepsFinite ==
    ASSUME StateOK, IsFiniteSet(Positions), [Next]_vars
    PROVE  IsFiniteSet(Positions')
<1>1. ASSUME NEW row \in Rows, NEW p \in 1 .. Len(disk) + 1,
             p <= Len(disk) => Fits(disk[p], SizeOf[row]), PlaceRow(row, p)
      PROVE  IsFiniteSet(Positions')
  <2>1. Positions' = Positions \cup {<<p, NextLoc(p)>>}
    BY <1>1, PlaceEffect DEF StateOK
  <2> QED
    BY <2>1, FS_AddElement
<1>2. CASE InsertTuple
  BY <1>1, <1>2, InsertTupleIs
<1>3. CASE PlaceNewVersion
  BY <1>1, <1>3, PlaceNewVersionIs DEF Versions
<1>4. CASE \E tid : DeleteByTid(tid)
  BY <1>4, DeleteEffect DEF StateOK
<1>5. CASE UNCHANGED disk
  BY <1>5 DEF Positions
<1> QED
  BY <1>2, <1>3, <1>4, <1>5
  DEF Next, Work, vars, BeginInsert, BeginUpdate, BeginDelete, Begin, DeleteTuple,
      CollectUpdate, UpdateScanEnds, DeleteOldVersion, StatementEnds, RowTooLarge,
      RowOverruns, IdMissing, Crash, Overwritten

\* A page is added with its first row, and pages and rows stay.
LEMMA StepKeepsInUse ==
    ASSUME StateOK, PagesInUse, [Next]_vars
    PROVE  PagesInUse'
<1>1. DiskOK /\ Len(disk) \in Nat /\ TidPages \in Nat \ {0}
  BY BoundAssumption DEF StateOK, DiskOK
<1>2. ASSUME NEW row \in Rows, NEW p \in 1 .. Len(disk) + 1,
             p <= Len(disk) => Fits(disk[p], SizeOf[row]), PlaceRow(row, p)
      PROVE  PagesInUse'
  <2> DEFINE new == <<p, NextLoc(p)>>
  <2>1. /\ Positions' = Positions \cup {new}
        /\ \A pos \in Positions : TupleAt(pos)' = TupleAt(pos)
        /\ disk'[p].items[NextLoc(p)].item = [row |-> row, tid |-> SelfTid(p, NextLoc(p))]
    BY <1>1, <1>2, PlaceEffect
  <2>2. /\ Len(disk') = IF p <= Len(disk) THEN Len(disk) ELSE Len(disk) + 1
        /\ p > Len(disk) => NextLoc(p) = 1
    BY <1>1, <1>2, PlaceWrites
  <2>3. ASSUME NEW q \in 2 .. Len(disk')
        PROVE  <<q, 1>> \in Positions'
    <3>1. CASE q <= Len(disk)
      BY <1>1, <2>1, <3>1 DEF PagesInUse
    <3>2. CASE q > Len(disk)
      <4>1. q = p /\ NextLoc(p) = 1
        BY <1>1, <2>2, <2>3, <3>2
      <4> QED
        BY <2>1, <4>1
    <3> QED
      BY <1>1, <2>2, <3>1, <3>2
  <2>4. ASSUME NEW pos \in Positions'
        PROVE  disk'[pos[1]].items[pos[2]].item.tid[1] <= TidPages
    <3>1. CASE pos = new
      <4>1. (p - 1) % TidPages \in 0 .. TidPages - 1
        BY <1>1
      <4>2. SelfTid(p, NextLoc(p))[1] = ((p - 1) % TidPages) + 1
        BY DEF SelfTid
      <4>3. pos[1] = p /\ pos[2] = NextLoc(p)
        BY <3>1
      <4>4. disk'[pos[1]].items[pos[2]].item.tid = SelfTid(p, NextLoc(p))
        BY <2>1, <4>3
      <4> QED
        BY <1>1, <4>1, <4>2, <4>4
    <3>2. CASE pos # new
      <4>1. pos \in Positions
        BY <2>1, <2>4, <3>2
      <4>2. TupleAt(pos).tid[1] <= TidPages /\ TupleAt(pos)' = TupleAt(pos)
        BY <2>1, <4>1 DEF PagesInUse
      <4> QED
        BY <4>2 DEF TupleAt
    <3> QED
      BY <3>1, <3>2
  <2> QED
    BY <2>3, <2>4 DEF PagesInUse, TupleAt
<1>3. CASE InsertTuple
  BY <1>2, <1>3, InsertTupleIs
<1>4. CASE PlaceNewVersion
  BY <1>2, <1>4, PlaceNewVersionIs DEF Versions
<1>5. CASE \E tid : DeleteByTid(tid)
  <2>1. /\ Len(disk') = Len(disk) /\ Positions' = Positions
        /\ \A pos \in Positions : TupleAt(pos)' = TupleAt(pos)
    BY <1>1, <1>5, DeleteEffect
  <2> QED
    BY <2>1 DEF PagesInUse
<1>6. CASE UNCHANGED disk
  BY <1>6 DEF PagesInUse, Positions, TupleAt
<1> QED
  BY <1>3, <1>4, <1>5, <1>6
  DEF Next, Work, vars, BeginInsert, BeginUpdate, BeginDelete, Begin, DeleteTuple,
      CollectUpdate, UpdateScanEnds, DeleteOldVersion, StatementEnds, RowTooLarge,
      RowOverruns, IdMissing, Crash, Overwritten

\* A file whose pages 16 bits cannot number has a row that does not carry its own id.
LEMMA SomeRowAway ==
    ASSUME StateOK, PagesInUse, AtHome
    PROVE  Numbered
<1>1. Len(disk) \in Nat /\ Len(disk) >= 1 /\ TidPages \in Nat \ {0}
  BY BoundAssumption DEF StateOK, DiskOK
<1>2. SUFFICES ASSUME Len(disk) > TidPages PROVE FALSE
  BY <1>1 DEF Numbered
<1>3. Len(disk) \in 2 .. Len(disk)
  BY <1>1, <1>2
<1> DEFINE pos == <<Len(disk), 1>>
<1>4. pos \in Positions /\ pos[1] = Len(disk)
  BY <1>3 DEF PagesInUse
<1>5. TupleAt(pos).tid = pos /\ TupleAt(pos).tid[1] <= TidPages
  BY <1>4 DEF AtHome, PagesInUse
<1> QED
  BY <1>1, <1>2, <1>4, <1>5

\* Pages are only added: a file whose pages can be numbered always was one. As
\* long as it is, rows are at home and the list of an UPDATE stays good.
LEMMA StepKeepsLists ==
    ASSUME StateOK, [Next]_vars, Numbered', Numbered => AtHome /\ ListOK
    PROVE  Numbered /\ AtHome' /\ ListOK'
<1>1. DiskOK
  BY DEF StateOK
<1>2. CASE InsertTuple
  <2>1. PICK p \in 1 .. Len(disk) + 1 :
            /\ p <= Len(disk) => Fits(disk[p], SizeOf[Head(pending)])
            /\ PlaceRow(Head(pending), p)
    BY <1>2, InsertTupleIs
  <2>2. Numbered /\ (AtHome => AtHome')
    BY <1>1, <1>2, <2>1, InsertTupleIs, PlaceKeepsHome
  <2>3. stmt'.kind # "update"
    BY <1>2 DEF InsertTuple
  <2> QED
    BY <2>2, <2>3 DEF ListOK
<1>3. CASE DeleteTuple
  <2>1. Numbered /\ (AtHome => AtHome')
    BY <1>1, <1>3, DeleteKeepsHome DEF DeleteTuple
  <2>2. stmt'.kind # "update"
    BY <1>3 DEF DeleteTuple
  <2> QED
    BY <2>1, <2>2 DEF ListOK
<1>4. CASE DeleteOldVersion
  <2>1. Numbered /\ (AtHome => AtHome')
    BY <1>1, <1>4, DeleteKeepsHome DEF DeleteOldVersion
  <2> QED
    BY <1>4, <2>1, DeleteOldKeepsList
<1>5. CASE PlaceNewVersion
  <2>1. PICK p \in 1 .. Len(disk) + 1 :
            /\ p <= Len(disk) => Fits(disk[p], SizeOf[Head(pending).row])
            /\ PlaceRow(Head(pending).row, p)
    BY <1>5, PlaceNewVersionIs
  <2>2. Head(pending).row \in Rows
    BY <1>5, PlaceNewVersionIs DEF Versions
  <2>3. Numbered /\ (AtHome => AtHome')
    BY <1>1, <2>1, <2>2, PlaceKeepsHome
  <2> QED
    BY <1>5, <2>3, PlaceNewKeepsList
<1>6. CASE UNCHANGED disk
  <2>1. Numbered /\ AtHome /\ ListOK /\ AtHome'
    BY <1>6 DEF Numbered, AtHome, Positions, TupleAt
  <2>2. CASE CollectUpdate
    BY <2>1, <2>2, CollectKeepsList
  <2>3. /\ Positions' = Positions /\ Live' = Live
        /\ \A pos : TupleAt(pos)' = TupleAt(pos)
    BY <1>6, SMTT(30), ZenonT(30) DEF Positions, Live, TupleAt
  <2>4. CASE UpdateScanEnds
    <3>1. phase = "scan" /\ phase' = "delete" /\ UNCHANGED <<stmt, pending>>
          /\ stmt.kind = "update"
      BY <2>4 DEF UpdateScanEnds
    <3> QED
      BY <2>1, <2>3, <3>1, ZenonT(30) DEF ListOK, TupleAt
  <2>5. CASE BeginInsert \/ BeginDelete
    <3>1. stmt'.kind # "update"
      BY <2>5 DEF BeginInsert, BeginDelete, Begin
    <3> QED
      BY <2>1, <3>1 DEF ListOK
  <2>6. CASE BeginUpdate
    <3>1. pending' = <<>>
      BY <2>6 DEF BeginUpdate, Begin
    <3> QED
      BY <2>1, <3>1 DEF ListOK
  <2>7. CASE Rest
    <3>1. stmt'.kind # "update"
      BY <2>7 DEF Rest, NoStatement
    <3> QED
      BY <2>1, <3>1 DEF ListOK
  <2>8. CASE UNCHANGED vars
    <3>1. UNCHANGED <<stmt, pending, phase, cursor>>
      BY <2>8 DEF vars
    <3> QED
      BY <2>1, <2>3, <3>1, ZenonT(30) DEF ListOK, TupleAt
  <2> QED
    BY <1>2, <1>3, <1>4, <1>5, <2>1, <2>2, <2>4, <2>5, <2>6, <2>7, <2>8
    DEF Next, Work, StatementEnds, RowTooLarge, RowOverruns, IdMissing, Crash, Overwritten
<1> QED
  BY <1>2, <1>3, <1>4, <1>5, <1>6
  DEF Next, Work, vars, BeginInsert, BeginUpdate, BeginDelete, Begin,
      CollectUpdate, UpdateScanEnds, StatementEnds, RowTooLarge, RowOverruns, IdMissing, Crash,
      Overwritten

\* The invariant holds of an empty table.
LEMMA InitIInv == Init => IInv
<1> SUFFICES ASSUME Init PROVE IInv
  OBVIOUS
<1>1. StateOK /\ FlagOK
  BY InitStateOK DEF Init, FlagOK
<1>2. Len(disk) = 1 /\ disk[1].items = <<>>
  BY DEF Init, NewPage, EmptyPage
<1>3. Positions = {}
  BY <1>1, <1>2, PositionsType DEF StateOK
<1>4. PagesInUse
  BY <1>2, <1>3 DEF PagesInUse
<1> QED
  BY <1>1, <1>3, <1>4, FS_EmptySet DEF IInv, AtHome, ListOK, Init, NoStatement

\* The invariant that the theorems below rest on.
LEMMA Inductive == Spec => []IInv
<1>1. Init => IInv
  BY InitIInv
<1>2. IInv /\ [Next]_vars => IInv'
  <2> SUFFICES ASSUME IInv, [Next]_vars PROVE IInv'
    OBVIOUS
  <2>1. StateOK' /\ IsFiniteSet(Positions') /\ FlagOK' /\ PagesInUse'
    BY StepKeepsStateOK, StepKeepsFinite, StepKeepsFlag, StepKeepsInUse DEF IInv
  <2>2. Numbered' => AtHome' /\ ListOK'
    BY StepKeepsLists DEF IInv
  <2> QED
    BY <2>1, <2>2 DEF IInv
<1> QED
  BY <1>1, <1>2, PTL DEF Spec

\* The ids stored in rows name the rows that carry them, dead versions included, for
\* exactly as long as the page numbers fit their 16 bits: till then UPDATE and DELETE,
\* which delete by that id, hit the tuple they read.
THEOREM IdsAreHome == Spec => []SelfTidIsHome
<1>1. IInv => SelfTidIsHome
  BY SomeRowAway DEF IInv, AtHome, SelfTidIsHome
<1> QED
  BY <1>1, Inductive, PTL

\* As long as page numbers fit, what UpdateScan has listed is there, once, live when its
\* turn comes, and still the row that its new version was made from, wherever the other
\* new versions have gone.
THEOREM ListedStillThere == Spec => []PendingStillThere
<1>1. IInv => PendingStillThere
  BY DEF IInv, ListOK, PendingStillThere
<1> QED
  BY <1>1, Inductive, PTL

-----------------------------------------------------------------------------
\* The table as a multiset: how many members of a set carry each row.
CountBy(S, f) == [r \in Rows |-> Cardinality({s \in S : f[s] = r})]
RowAt == [pos \in Positions |-> TupleAt(pos).row]

\* The rows that an UPDATE has still to take out.
Listed == {pending[i].tid : i \in DOMAIN pending \ (IF phase = "place" THEN {1} ELSE {})}
UpdateTodo == Listed \cup (IF phase = "scan" THEN MatchesAhead ELSE {})

\* Counts depend on the rows of the set's members only.
LEMMA CountSame ==
    ASSUME NEW S, NEW f, NEW g, \A s \in S : g[s] = f[s]
    PROVE  CountBy(S, g) = CountBy(S, f)
<1>1. \A r : {s \in S : g[s] = r} = {s \in S : f[s] = r}
  OBVIOUS
<1> QED
  BY <1>1 DEF CountBy

\* The empty set has none of any row.
LEMMA CountNone ==
    ASSUME NEW f
    PROVE  CountBy({}, f) = [r \in Rows |-> 0]
<1>1. \A r : {s \in {} : f[s] = r} = {}
  OBVIOUS
<1> QED
  BY <1>1, FS_EmptySet, Zenon DEF CountBy

\* Counts are numbers.
LEMMA CountType ==
    ASSUME NEW S, IsFiniteSet(S), NEW f
    PROVE  CountBy(S, f) \in [Rows -> Nat]
<1>1. \A r \in Rows : Cardinality({s \in S : f[s] = r}) \in Nat
  BY FS_Subset, FS_CardinalityType
<1> QED
  BY <1>1 DEF CountBy

\* One member more is one more of its row.
LEMMA CountMore ==
    ASSUME NEW S, IsFiniteSet(S), NEW x, x \notin S, NEW f, NEW g,
           \A s \in S : g[s] = f[s], NEW row \in Rows, g[x] = row
    PROVE  CountBy(S \cup {x}, g) = [CountBy(S, f) EXCEPT ![row] = @ + 1]
<1>1. ASSUME NEW r \in Rows
      PROVE  Cardinality({s \in S \cup {x} : g[s] = r}) =
                 Cardinality({s \in S : f[s] = r}) + (IF r = g[x] THEN 1 ELSE 0)
  <2>1. IsFiniteSet({s \in S : f[s] = r}) /\ Cardinality({s \in S : f[s] = r}) \in Nat
    BY FS_Subset, FS_CardinalityType
  <2>2. CASE r = g[x]
    <3>1. {s \in S \cup {x} : g[s] = r} = {s \in S : f[s] = r} \cup {x}
      BY <2>2
    <3> QED
      BY <2>1, <2>2, <3>1, FS_AddElement
  <2>3. CASE r # g[x]
    <3>1. {s \in S \cup {x} : g[s] = r} = {s \in S : f[s] = r}
      BY <2>3
    <3> QED
      BY <2>1, <2>3, <3>1
  <2> QED
    BY <2>2, <2>3
<1>2. \A r \in Rows : Cardinality({s \in S : f[s] = r}) \in Nat
  BY FS_Subset, FS_CardinalityType
<1> QED
  BY <1>1, <1>2 DEF CountBy

\* One member less is one less of its row, of which there was one.
LEMMA CountLess ==
    ASSUME NEW S, IsFiniteSet(S), NEW x \in S, NEW f, NEW g,
           \A s \in S : g[s] = f[s], f[x] \in Rows
    PROVE  /\ CountBy(S \ {x}, g) = [CountBy(S, f) EXCEPT ![f[x]] = @ - 1]
           /\ CountBy(S, f)[f[x]] > 0
<1>1. ASSUME NEW r \in Rows
      PROVE  /\ Cardinality({s \in S \ {x} : g[s] = r}) =
                    Cardinality({s \in S : f[s] = r}) - (IF r = f[x] THEN 1 ELSE 0)
             /\ r = f[x] => Cardinality({s \in S : f[s] = r}) > 0
  <2>1. IsFiniteSet({s \in S : f[s] = r}) /\ Cardinality({s \in S : f[s] = r}) \in Nat
    BY FS_Subset, FS_CardinalityType
  <2>2. CASE r = f[x]
    <3>1. {s \in S \ {x} : g[s] = r} = {s \in S : f[s] = r} \ {x}
      BY <2>2
    <3>2. x \in {s \in S : f[s] = r}
      BY <2>2
    <3>3. Cardinality({s \in S : f[s] = r}) # 0
      BY <2>1, <3>2, FS_EmptySet
    <3>4. Cardinality({s \in S : f[s] = r} \ {x}) = Cardinality({s \in S : f[s] = r}) - 1
      BY <2>1, <3>2, FS_RemoveElement
    <3> QED
      BY <2>1, <2>2, <3>1, <3>3, <3>4
  <2>3. CASE r # f[x]
    <3>1. {s \in S \ {x} : g[s] = r} = {s \in S : f[s] = r}
      BY <2>3
    <3> QED
      BY <2>1, <2>3, <3>1
  <2> QED
    BY <2>2, <2>3
<1>2. \A r \in Rows : Cardinality({s \in S : f[s] = r}) \in Nat
  BY FS_Subset, FS_CardinalityType
<1> QED
  BY <1>1, <1>2 DEF CountBy

\* Taking the head off a list is one less of its row.
LEMMA CountTail ==
    ASSUME NEW list \in Seq(Rows), list # <<>>
    PROVE  /\ CountBy(DOMAIN Tail(list), Tail(list)) =
                  [CountBy(DOMAIN list, list) EXCEPT ![Head(list)] = @ - 1]
           /\ CountBy(DOMAIN list, list)[Head(list)] > 0
<1> DEFINE n == Len(list)
           rest == 2 .. n
<1>1. /\ n \in Nat /\ DOMAIN list = 1 .. n /\ n >= 1
      /\ Head(list) = list[1] /\ Head(list) \in Rows
      /\ DOMAIN Tail(list) = 1 .. n - 1
      /\ \A i \in 1 .. n - 1 : Tail(list)[i] = list[i + 1]
  BY HeadTailProperties, SMT
<1>2. /\ CountBy((1 .. n) \ {1}, list) = [CountBy(1 .. n, list) EXCEPT ![list[1]] = @ - 1]
      /\ CountBy(1 .. n, list)[list[1]] > 0
  <2>1. IsFiniteSet(1 .. n) /\ 1 \in 1 .. n
    BY <1>1, FS_Interval
  <2> QED
    BY <1>1, <2>1, CountLess
<1>3. (1 .. n) \ {1} = rest
  BY <1>1
<1>4. ASSUME NEW r \in Rows
      PROVE  Cardinality({i \in 1 .. n - 1 : Tail(list)[i] = r}) =
                 Cardinality({i \in rest : list[i] = r})
  <2> DEFINE A == {i \in 1 .. n - 1 : Tail(list)[i] = r}
             B == {i \in rest : list[i] = r}
             shift == [i \in A |-> i + 1]
  <2>1. IsFiniteSet(1 .. n - 1)
    BY <1>1, FS_Interval
  <2>2. IsFiniteSet(A)
    BY <2>1, FS_Subset
  <2>3. \A i \in A : i + 1 \in B
    BY <1>1
  <2>4. \A j \in B : j - 1 \in A /\ (j - 1) + 1 = j
    BY <1>1
  <2>5. \A i, j \in A : i + 1 = j + 1 => i = j
    BY <1>1
  <2>6. shift \in Bijection(A, B)
    BY <2>3, <2>4, <2>5, Fun_IsBij, Zenon
  <2> HIDE DEF A, B, shift
  <2>7. ExistsBijection(A, B)
    BY <2>6 DEF ExistsBijection
  <2>8. Cardinality(B) = Cardinality(A)
    BY <2>2, <2>7, FS_Bijection
  <2> QED
    BY <2>8 DEF A, B
<1>5. CountBy(1 .. n - 1, Tail(list)) = CountBy(rest, list)
  BY <1>4 DEF CountBy
<1> QED
  BY <1>1, <1>2, <1>3, <1>5

-----------------------------------------------------------------------------
\* The multiset of the refinement mapping is a count of positions.
LEMMA CountsAre ==
    ASSUME NEW S \in SUBSET Positions
    PROVE  CountsAt(S) = CountBy(S, RowAt)
<1>1. \A r : {pos \in S : TupleAt(pos).row = r} = {pos \in S : RowAt[pos] = r}
  BY DEF RowAt
<1> QED
  BY <1>1 DEF CountsAt, CountBy

\* So is that of the live rows, which lie at positions of the file.
LEMMA LiveCounts == CountsAt(Live) = CountBy(Live, RowAt) /\ Live \subseteq Positions
<1>1. Live \subseteq Positions
  BY DEF Live
<1> QED
  BY <1>1, CountsAre

\* What a statement has still to do, by the kind of the statement.
LEMMA TodoIs ==
    /\ stmt.kind = "none" => Todo = [r \in Rows |-> 0]
    /\ stmt.kind = "insert" => Todo = CountBy(DOMAIN pending, pending)
    /\ stmt.kind = "delete" => Todo = CountBy(MatchesAhead, RowAt)
    /\ stmt.kind = "update" /\ Listed \subseteq Positions => Todo = CountBy(UpdateTodo, RowAt)
<1>1. MatchesAhead \subseteq Positions
  BY DEF MatchesAhead, Live
<1>2. stmt.kind = "none" => Todo = [r \in Rows |-> 0]
  BY CountsAre, CountNone, Zenon DEF Todo
<1>3. stmt.kind = "insert" => Todo = CountBy(DOMAIN pending, pending)
  BY Zenon DEF Todo, CountBy
<1>4. stmt.kind = "delete" => Todo = CountBy(MatchesAhead, RowAt)
  BY <1>1, CountsAre, Zenon DEF Todo
<1>5. ASSUME stmt.kind = "update", Listed \subseteq Positions
      PROVE  Todo = CountBy(UpdateTodo, RowAt)
  <2>1. UpdateTodo \subseteq Positions
    BY <1>1, <1>5 DEF UpdateTodo
  <2>2. Todo = CountsAt(UpdateTodo)
    BY <1>5, Zenon DEF Todo, UpdateTodo, Listed
  <2> QED
    BY <2>1, <2>2, CountsAre
<1> QED
  BY <1>2, <1>3, <1>4, <1>5

\* The same of the state after a step.
LEMMA TodoAfter ==
    /\ stmt'.kind = "none" => Todo' = [r \in Rows |-> 0]
    /\ stmt'.kind = "insert" => Todo' = CountBy(DOMAIN pending', pending')
    /\ stmt'.kind = "delete" => Todo' = CountBy(MatchesAhead', RowAt')
    /\ stmt'.kind = "update" /\ Listed' \subseteq Positions' =>
           Todo' = CountBy(UpdateTodo', RowAt')
<1>1. (/\ stmt.kind = "none" => Todo = [r \in Rows |-> 0]
       /\ stmt.kind = "insert" => Todo = CountBy(DOMAIN pending, pending)
       /\ stmt.kind = "delete" => Todo = CountBy(MatchesAhead, RowAt)
       /\ stmt.kind = "update" /\ Listed \subseteq Positions =>
              Todo = CountBy(UpdateTodo, RowAt))'
  BY TodoIs, PTL
<1> QED
  BY <1>1

\* A page write adds its row to the table, or takes it away.
LEMMA PlaceCounts ==
    ASSUME StateOK, IsFiniteSet(Positions), NEW row \in Rows, NEW p \in 1 .. Len(disk) + 1,
           p <= Len(disk) => Fits(disk[p], SizeOf[row]), PlaceRow(row, p)
    PROVE  /\ CountsAt(Live)' = [CountsAt(Live) EXCEPT ![row] = @ + 1]
           /\ Positions \subseteq Positions'
           /\ \A pos \in Positions : RowAt'[pos] = RowAt[pos]
<1> DEFINE x == <<p, NextLoc(p)>>
<1>1. /\ x \notin Positions
      /\ Positions' = Positions \cup {x} /\ Live' = Live \cup {x}
      /\ \A pos \in Positions : TupleAt(pos)' = TupleAt(pos)
      /\ disk'[p].items[NextLoc(p)].item = [row |-> row, tid |-> SelfTid(p, NextLoc(p))]
  BY PlaceEffect, Zenon DEF StateOK
<1>2. x[1] = p /\ x[2] = NextLoc(p) /\ disk'[p].items[NextLoc(p)].item.row = row
  BY <1>1
<1> HIDE DEF x
<1>3. \A pos \in Positions : RowAt'[pos] = RowAt[pos]
  BY <1>1 DEF RowAt
<1>4. RowAt'[x] = row
  BY <1>1, <1>2 DEF RowAt, TupleAt
<1>5. IsFiniteSet(Live) /\ x \notin Live /\ Live \subseteq Positions
  BY <1>1, FS_Subset DEF Live
<1>6. CountsAt(Live)' = CountBy(Live', RowAt')
  <2>1. (CountsAt(Live) = CountBy(Live, RowAt))'
    BY LiveCounts, PTL
  <2> QED
    BY <2>1
<1>7. CountBy(Live \cup {x}, RowAt') = [CountBy(Live, RowAt) EXCEPT ![row] = @ + 1]
  <2>1. \A pos \in Live : RowAt'[pos] = RowAt[pos]
    BY <1>3, <1>5
  <2> QED
    BY <1>4, <1>5, <2>1, CountMore
<1> QED
  BY <1>1, <1>3, <1>4, <1>6, <1>7, LiveCounts

\* A tuple that dies is one less of its row.
LEMMA DeleteCounts ==
    ASSUME StateOK, IsFiniteSet(Positions), NEW tid \in Live, DeleteByTid(tid)
    PROVE  /\ RowAt[tid] \in Rows
           /\ CountsAt(Live)' = [CountsAt(Live) EXCEPT ![RowAt[tid]] = @ - 1]
           /\ RowAt' = RowAt
<1>1. /\ tid \in Positions /\ Positions' = Positions /\ Live' = Live \ {tid}
      /\ \A pos \in Positions : TupleAt(pos)' = TupleAt(pos)
  BY DeleteEffect DEF StateOK
<1>2. RowAt' = RowAt
  BY <1>1 DEF RowAt
<1>3. RowAt[tid] \in Rows
  <2>1. TupleAt(tid) \in Tuples
    BY <1>1, PositionsType DEF StateOK
  <2> QED
    BY <1>1, <2>1 DEF RowAt, Tuples
<1>4. IsFiniteSet(Live)
  BY FS_Subset DEF Live
<1>5. CountBy(Live \ {tid}, RowAt) = [CountBy(Live, RowAt) EXCEPT ![RowAt[tid]] = @ - 1]
  BY <1>3, <1>4, CountLess
<1>6. CountsAt(Live)' = CountBy(Live', RowAt')
  <2>1. (CountsAt(Live) = CountBy(Live, RowAt))'
    BY LiveCounts, PTL
  <2> QED
    BY <2>1
<1> QED
  BY <1>1, <1>2, <1>3, <1>5, <1>6, LiveCounts

-----------------------------------------------------------------------------
\* A scan from the start of the file meets every live tuple that matches.
LEMMA FromStart ==
    StateOK /\ cursor = Start =>
        CountBy(MatchesAhead, RowAt) =
            [r \in Rows |-> IF r \in stmt.where THEN CountsAt(Live)[r] ELSE 0]
<1> SUFFICES ASSUME StateOK, cursor = Start
             PROVE  CountBy(MatchesAhead, RowAt) =
                        [r \in Rows |-> IF r \in stmt.where THEN CountsAt(Live)[r] ELSE 0]
  OBVIOUS
<1>1. ASSUME NEW pos \in Live
      PROVE  Ahead(pos) /\ RowAt[pos] = TupleAt(pos).row
  <2>1. pos \in Positions
    BY DEF Live
  <2>2. pos \in Tids
    BY <2>1, PositionsType DEF StateOK
  <2>3. /\ pos[1] \in Nat \ {0} /\ pos[2] \in Nat \ {0} /\ pos = <<pos[1], pos[2]>>
        /\ cursor = <<1, 1>> /\ cursor[1] = 1 /\ cursor[2] = 1
    BY <2>2 DEF Tids, Start
  <2>4. pos[1] = 1 /\ pos[2] = 1 => cursor = pos
    BY <2>3
  <2> QED
    BY <2>1, <2>3, <2>4 DEF Ahead, Before, RowAt
<1>2. \A pos : pos \in MatchesAhead <=> pos \in Live /\ RowAt[pos] \in stmt.where
  BY <1>1 DEF MatchesAhead
<1>3. \A r \in stmt.where :
          {pos \in MatchesAhead : RowAt[pos] = r} = {pos \in Live : RowAt[pos] = r}
  BY <1>2
<1>4. \A r : r \notin stmt.where => {pos \in MatchesAhead : RowAt[pos] = r} = {}
  BY <1>2
<1>5. Cardinality({}) = 0
  BY FS_EmptySet
<1>6. \A r \in Rows : CountsAt(Live)[r] = Cardinality({pos \in Live : RowAt[pos] = r})
  BY LiveCounts DEF CountBy
<1> QED
  BY <1>3, <1>4, <1>5, <1>6 DEF CountBy

\* The beginning of a statement is a beginning of the promised one.
LEMMA BeginRefines ==
    ASSUME IInv, IInv', Numbered, Numbered', BeginInsert \/ BeginUpdate \/ BeginDelete
    PROVE  Abstract!Next
<1>1. /\ stmt = NoStatement /\ stmt.kind = "none" /\ phase = "scan" /\ cursor = Start
      /\ UNCHANGED <<disk, cursor, phase>>
  BY KindIs DEF BeginInsert, BeginUpdate, BeginDelete, Begin, NoneOK, IInv
<1>2. CountsAt(Live)' = CountsAt(Live)
  BY <1>1 DEF CountsAt, Live, Positions, TupleAt
<1>3. stmt'.kind \in {"update", "delete"} =>
          (CountBy(MatchesAhead, RowAt))' =
              [r \in Rows |-> IF r \in stmt'.where THEN CountsAt(Live)[r] ELSE 0]
  <2>1. (StateOK /\ cursor = Start =>
            CountBy(MatchesAhead, RowAt) =
                [r \in Rows |-> IF r \in stmt.where THEN CountsAt(Live)[r] ELSE 0])'
    BY FromStart, PTL
  <2>2. StateOK' /\ cursor' = Start
    BY <1>1 DEF IInv
  <2> QED
    BY <1>2, <2>1, <2>2 DEF Start
<1>4. CASE BeginInsert
  <2>1. PICK rows \in {<<r>> : r \in Rows} \cup {<<r, t>> : r, t \in Rows} :
            Begin([kind |-> "insert"], rows)
    BY <1>4 DEF BeginInsert
  <2>2. rows \in Seq(Rows) /\ Len(rows) \in 1 .. 2
    <3>1. (\E r \in Rows : rows = <<r>>) \/ (\E r \in Rows : \E t \in Rows : rows = <<r, t>>)
      BY SMT
    <3>2. ASSUME NEW r \in Rows, rows = <<r>> PROVE rows \in Seq(Rows) /\ Len(rows) \in 1 .. 2
      BY <3>2
    <3>3. ASSUME NEW r \in Rows, NEW t \in Rows, rows = <<r, t>>
          PROVE  rows \in Seq(Rows) /\ Len(rows) \in 1 .. 2
      BY <3>3
    <3> QED
      BY <3>1, <3>2, <3>3
  <2>3. stmt'.kind = "insert" /\ pending' = rows
    BY <2>1 DEF Begin
  <2>4. Todo' = CountBy(DOMAIN rows, rows)
    BY <2>3, TodoAfter
  <2>5. CountBy(DOMAIN rows, rows) \in [Rows -> 0 .. 2]
    <3>1. ASSUME NEW r \in Rows
          PROVE  Cardinality({i \in DOMAIN rows : rows[i] = r}) \in 0 .. 2
      <4>1. IsFiniteSet(DOMAIN rows) /\ Cardinality(DOMAIN rows) <= 2
            /\ Cardinality(DOMAIN rows) \in Nat
        <5>1. DOMAIN rows = 1 .. 1 \/ DOMAIN rows = 1 .. 2
          BY <2>2
        <5>2. \A n \in {1, 2} : IsFiniteSet(1 .. n) /\ Cardinality(1 .. n) = n
          BY FS_Interval
        <5> QED
          BY <5>1, <5>2
      <4>2. {i \in DOMAIN rows : rows[i] = r} \in SUBSET DOMAIN rows
        OBVIOUS
      <4>3. /\ IsFiniteSet({i \in DOMAIN rows : rows[i] = r})
            /\ Cardinality({i \in DOMAIN rows : rows[i] = r}) <= Cardinality(DOMAIN rows)
        BY <4>1, <4>2, FS_Subset
      <4>4. Cardinality({i \in DOMAIN rows : rows[i] = r}) \in Nat
        BY <4>3, FS_CardinalityType
      <4> QED
        BY <4>1, <4>3, <4>4
    <3> QED
      BY <3>1 DEF CountBy
  <2>6. Abstract!BeginInsert
    BY <1>1, <1>2, <2>3, <2>4, <2>5 DEF Abstract!BeginInsert
  <2> QED
    BY <2>6 DEF Abstract!Next
<1>5. CASE BeginUpdate
  <2>1. PICK where \in SUBSET Rows : \E set \in [Rows -> Rows] :
            Begin([kind |-> "update", where |-> where, set |-> set], <<>>)
    BY <1>5 DEF BeginUpdate
  <2>2. PICK set \in [Rows -> Rows] :
            Begin([kind |-> "update", where |-> where, set |-> set], <<>>)
    BY <2>1
  <2>3. stmt'.kind = "update" /\ stmt'.where = where /\ stmt'.set = set /\ pending' = <<>>
    BY <2>2 DEF Begin
  <2>4. Listed' = {} /\ UpdateTodo' = MatchesAhead'
    BY <1>1, <2>3 DEF Listed, UpdateTodo
  <2>5. Todo' = [r \in Rows |-> IF r \in where THEN CountsAt(Live)[r] ELSE 0]
    BY <1>3, <2>3, <2>4, TodoAfter
  <2>6. Abstract!BeginUpdate
    BY <1>1, <1>2, <2>3, <2>5 DEF Abstract!BeginUpdate, Abstract!Matching
  <2> QED
    BY <2>6 DEF Abstract!Next
<1>6. CASE BeginDelete
  <2>1. PICK where \in SUBSET Rows : Begin([kind |-> "delete", where |-> where], <<>>)
    BY <1>6 DEF BeginDelete
  <2>2. stmt'.kind = "delete" /\ stmt'.where = where
    BY <2>1 DEF Begin
  <2>3. Todo' = [r \in Rows |-> IF r \in where THEN CountsAt(Live)[r] ELSE 0]
    BY <1>3, <2>2, TodoAfter
  <2>4. Abstract!BeginDelete
    BY <1>1, <1>2, <2>2, <2>3 DEF Abstract!BeginDelete, Abstract!Matching
  <2> QED
    BY <2>4 DEF Abstract!Next
<1> QED
  BY <1>4, <1>5, <1>6

\* INSERT puts one of its rows into the table.
LEMMA InsertRefines ==
    ASSUME IInv, IInv', InsertTuple
    PROVE  Abstract!Next
<1>1. /\ InsertOK /\ pending # <<>> /\ Head(pending) \in Rows
      /\ pending' = Tail(pending) /\ UNCHANGED <<stmt, phase>>
      /\ \E p \in 1 .. Len(disk) + 1 :
            /\ p <= Len(disk) => Fits(disk[p], SizeOf[Head(pending)])
            /\ PlaceRow(Head(pending), p)
  BY InsertTupleIs DEF IInv
<1>2. stmt.kind = "insert" /\ stmt'.kind = "insert" /\ phase = "scan" /\ pending \in Seq(Rows)
  BY <1>1 DEF InsertOK, Insert
<1>3. CountsAt(Live)' = [CountsAt(Live) EXCEPT ![Head(pending)] = @ + 1]
  BY <1>1, PlaceCounts DEF IInv
<1>4. Todo = CountBy(DOMAIN pending, pending) /\ Todo' = CountBy(DOMAIN pending', pending')
  BY <1>2, TodoIs, TodoAfter
<1>5. Todo' = [Todo EXCEPT ![Head(pending)] = @ - 1] /\ Todo[Head(pending)] > 0
  BY <1>1, <1>2, <1>4, CountTail
<1>6. Abstract!Insert(Head(pending))
  BY <1>1, <1>2, <1>3, <1>5 DEF Abstract!Insert, Abstract!PlusRow, Abstract!MinusRow
<1> QED
  BY <1>1, <1>6 DEF Abstract!Next

\* The rest of a scan: all that was ahead but the match that was taken.
LEMMA AheadOfMatch ==
    ASSUME StateOK, NEW pos, IsNextMatch(pos), cursor' = <<pos[1], pos[2] + 1>>,
           UNCHANGED stmt, Positions' = Positions,
           \A q \in Positions : TupleAt(q)' = TupleAt(q),
           Live' = Live \/ Live' = Live \ {pos}
    PROVE  MatchesAhead' = MatchesAhead \ {pos}
<1>1. /\ pos \in MatchesAhead /\ pos \in Live /\ pos \in Positions /\ pos \in Tids /\ Ahead(pos)
      /\ \A other \in MatchesAhead : other = pos \/ Before(pos, other)
  BY NextMatchIs
<1>2. \A q : q \in MatchesAhead <=> q \in Live /\ Ahead(q) /\ TupleAt(q).row \in stmt.where
  BY DEF MatchesAhead
<1>3. \A q : q \in MatchesAhead' <=> q \in Live' /\ Ahead(q)' /\ TupleAt(q)'.row \in stmt.where
  BY DEF MatchesAhead
<1>4. cursor \in Tids /\ cursor' \in Tids
  BY <1>1, NextSlotType DEF StateOK
<1>5. ASSUME NEW q \in Live
      PROVE  /\ q \in Positions /\ q \in Tids /\ TupleAt(q)' = TupleAt(q)
             /\ Ahead(q) <=> ~Before(q, cursor)
             /\ Ahead(q)' <=> ~Before(q, cursor')
  <2>1. q \in Positions /\ q \in Tids
    BY PositionsType DEF Live, StateOK
  <2> QED
    BY <1>4, <2>1, BeforeFacts DEF Ahead
<1>6. ~Ahead(pos)'
  BY <1>1, <1>5, BeforeFacts
<1>7. ASSUME NEW q \in MatchesAhead, q # pos
      PROVE  q \in MatchesAhead'
  <2>1. q \in Live /\ q \in Tids /\ Before(pos, q) /\ TupleAt(q).row \in stmt.where
    BY <1>1, <1>2, <1>5, <1>7
  <2>2. ~Before(q, cursor')
    BY <1>1, <1>7, <2>1, BeforeFacts
  <2> QED
    BY <1>3, <1>5, <1>7, <2>1, <2>2
<1>8. ASSUME NEW q \in MatchesAhead'
      PROVE  q \in MatchesAhead /\ q # pos
  <2>1. q \in Live /\ q # pos /\ TupleAt(q).row \in stmt.where /\ ~Before(q, cursor')
    BY <1>3, <1>5, <1>6, <1>8
  <2>2. q \in Tids
    BY <1>5, <2>1
  <2>3. q # pos /\ ~Before(q, pos)
    BY <1>1, <2>1, <2>2, BeforeFacts
  <2>4. Before(pos, q)
    BY <1>1, <2>2, <2>3, BeforeFacts
  <2>5. Before(cursor, q)
    BY <1>1, <1>4, <2>2, <2>4, BeforeFacts DEF Ahead
  <2> QED
    BY <1>2, <2>1, <2>5 DEF Ahead
<1> QED
  BY <1>1, <1>6, <1>7, <1>8

\* DELETE takes one matching row out of the table.
LEMMA DeleteRefines ==
    ASSUME IInv, IInv', AtHome, DeleteTuple
    PROVE  Abstract!Next
<1>1. PICK pos \in Live : /\ IsNextMatch(pos) /\ DeleteByTid(TupleAt(pos).tid)
                          /\ cursor' = <<pos[1], pos[2] + 1>>
  BY DEF DeleteTuple
<1>2. /\ stmt.kind = "delete" /\ stmt'.kind = "delete" /\ UNCHANGED <<stmt, pending, phase>>
      /\ phase = "scan"
  BY KindIs DEF DeleteTuple, DeleteOK, IInv
<1>3. pos \in Positions /\ TupleAt(pos).tid = pos
  BY DEF AtHome, Live
<1>4. /\ Positions' = Positions /\ Live' = Live \ {pos}
      /\ \A q \in Positions : TupleAt(q)' = TupleAt(q)
  BY <1>1, <1>3, DeleteEffect DEF IInv, StateOK
<1>5. /\ RowAt[pos] \in Rows /\ RowAt' = RowAt
      /\ CountsAt(Live)' = [CountsAt(Live) EXCEPT ![RowAt[pos]] = @ - 1]
  BY <1>1, <1>3, DeleteCounts DEF IInv
<1>6. MatchesAhead' = MatchesAhead \ {pos} /\ pos \in MatchesAhead
  BY <1>1, <1>2, <1>4, AheadOfMatch, NextMatchIs DEF IInv
<1>7. IsFiniteSet(MatchesAhead)
  BY FS_Subset DEF MatchesAhead, Live, IInv
<1>8. Todo = CountBy(MatchesAhead, RowAt) /\ Todo' = CountBy(MatchesAhead \ {pos}, RowAt)
  BY <1>2, <1>5, <1>6, TodoIs, TodoAfter
<1>9. Todo' = [Todo EXCEPT ![RowAt[pos]] = @ - 1] /\ Todo[RowAt[pos]] > 0
  BY <1>5, <1>6, <1>7, <1>8, CountLess
<1>10. Abstract!Delete(RowAt[pos])
  BY <1>2, <1>5, <1>9 DEF Abstract!Delete, Abstract!MinusRow
<1> QED
  BY <1>5, <1>10 DEF Abstract!Next

\* What UPDATE has listed and not yet taken out is in the table.
LEMMA ListedLive ==
    stmt.kind = "update" /\ ListOK => Listed \subseteq Live /\ Listed \subseteq Positions
BY DEF Listed, ListOK, Live

\* What an UPDATE has still to take out is a count of live positions, before and after
\* a step.
LEMMA UpdateTodoIs ==
    ASSUME ListOK, ListOK', stmt.kind = "update", UNCHANGED stmt
    PROVE  /\ Todo = CountBy(UpdateTodo, RowAt)
           /\ Todo' = CountBy(UpdateTodo', RowAt')
           /\ UpdateTodo \subseteq Live
<1>1. (stmt.kind = "update" /\ ListOK => Listed \subseteq Live /\ Listed \subseteq Positions)'
  BY ListedLive, PTL
<1>2. Listed' \subseteq Positions'
  BY <1>1
<1>3. Listed \subseteq Positions /\ UpdateTodo \subseteq Live
  BY ListedLive DEF UpdateTodo, MatchesAhead
<1> QED
  BY <1>2, <1>3, TodoIs, TodoAfter

\* Collecting a match changes nothing of what is promised: it moves a row that
\* the scan had still to meet to the list.
LEMMA CollectRefines ==
    ASSUME IInv, IInv', AtHome, ListOK, ListOK', CollectUpdate
    PROVE  UNCHANGED Abstract!vars
<1>1. PICK pos \in Live :
          /\ IsNextMatch(pos)
          /\ pending' = Append(pending, [row |-> stmt.set[TupleAt(pos).row],
                                         tid |-> TupleAt(pos).tid])
          /\ cursor' = <<pos[1], pos[2] + 1>>
  BY DEF CollectUpdate
<1>2. /\ stmt.kind = "update" /\ phase = "scan" /\ phase' = "scan"
      /\ UNCHANGED <<disk, stmt, phase>>
  BY DEF CollectUpdate
<1>3. /\ Positions' = Positions /\ Live' = Live /\ RowAt' = RowAt
      /\ CountsAt(Live)' = CountsAt(Live)
      /\ \A q \in Positions : TupleAt(q)' = TupleAt(q)
  BY <1>2 DEF Positions, Live, RowAt, CountsAt, TupleAt
<1>4. MatchesAhead' = MatchesAhead \ {pos} /\ pos \in MatchesAhead
  BY <1>1, <1>2, <1>3, AheadOfMatch, NextMatchIs DEF IInv
<1> DEFINE new == [row |-> stmt.set[TupleAt(pos).row], tid |-> TupleAt(pos).tid]
<1>5. new.tid = pos
  BY DEF AtHome, Live
<1>6. pending \in Seq(Versions) /\ new \in Versions
  BY <1>1, <1>2, CollectUpdateIs DEF IInv
<1> HIDE DEF new
<1>7. /\ Len(pending) \in Nat /\ DOMAIN pending = 1 .. Len(pending)
      /\ DOMAIN pending' = 1 .. Len(pending) + 1
      /\ pending'[Len(pending) + 1] = new
      /\ \A i \in 1 .. Len(pending) : pending'[i] = pending[i]
  BY <1>1, <1>6, AppendProperties, SMT DEF new
<1>8. Listed' = Listed \cup {pos}
  <2>1. \A q : q \in Listed <=> \E i \in DOMAIN pending : q = pending[i].tid
    BY <1>2 DEF Listed
  <2>2. \A q : q \in Listed' <=> \E i \in DOMAIN pending' : q = pending'[i].tid
    BY <1>2 DEF Listed
  <2>3. Len(pending) + 1 \in DOMAIN pending' /\ \A i \in DOMAIN pending : i \in DOMAIN pending'
    BY <1>7
  <2>4. \A i \in DOMAIN pending' : i = Len(pending) + 1 \/ i \in DOMAIN pending
    BY <1>7
  <2> QED
    BY <1>5, <1>7, <2>1, <2>2, <2>3, <2>4
<1>9. UpdateTodo' = UpdateTodo
  BY <1>2, <1>4, <1>8 DEF UpdateTodo
<1>10. Todo' = Todo
  BY <1>2, <1>3, <1>9, UpdateTodoIs
<1> QED
  BY <1>2, <1>3, <1>10 DEF Abstract!vars

\* The end of an UPDATE's scan is a stutter of the abstract statement.
LEMMA ScanEndRefines ==
    ASSUME IInv, IInv', ListOK, ListOK', UpdateScanEnds
    PROVE  UNCHANGED Abstract!vars
<1>1. /\ stmt.kind = "update" /\ phase = "scan" /\ phase' = "delete" /\ MatchesAhead = {}
      /\ UNCHANGED <<disk, stmt, cursor, pending>>
  BY DEF UpdateScanEnds
<1>2. RowAt' = RowAt /\ CountsAt(Live)' = CountsAt(Live)
  BY <1>1 DEF Positions, Live, RowAt, CountsAt, TupleAt
<1>3. UpdateTodo' = UpdateTodo
  BY <1>1 DEF UpdateTodo, Listed
<1>4. Todo' = Todo
  BY <1>1, <1>2, <1>3, UpdateTodoIs
<1> QED
  BY <1>1, <1>2, <1>4 DEF Abstract!vars

\* The first half of an update takes the old version out of the table.
LEMMA TakeOutRefines ==
    ASSUME IInv, IInv', ListOK, ListOK', DeleteOldVersion
    PROVE  Abstract!Next
<1>1. /\ stmt.kind = "update" /\ phase = "delete" /\ phase' = "place" /\ pending # <<>>
      /\ DeleteByTid(Head(pending).tid) /\ UNCHANGED <<stmt, cursor, pending>>
  BY DEF DeleteOldVersion
<1>2. pending \in Seq(Versions)
  BY <1>1, KindIs DEF UpdateOK, IInv
<1>3. 1 \in DOMAIN pending /\ Head(pending) = pending[1]
  BY <1>1, <1>2
<1> DEFINE old == pending[1].tid
<1>4. old \in Live /\ old \in Positions /\ pending[1].row = stmt.set[TupleAt(old).row]
  BY <1>1, <1>3 DEF ListOK
<1>5. /\ RowAt[old] \in Rows /\ RowAt' = RowAt /\ RowAt[old] = TupleAt(old).row
      /\ CountsAt(Live)' = [CountsAt(Live) EXCEPT ![RowAt[old]] = @ - 1]
  BY <1>1, <1>3, <1>4, DeleteCounts DEF IInv, RowAt
<1>6. Listed' = Listed \ {old} /\ old \in Listed
  <2>1. \A q : q \in Listed <=> \E i \in DOMAIN pending : q = pending[i].tid
    BY <1>1 DEF Listed
  <2>2. \A q : q \in Listed' <=> \E i \in DOMAIN pending : i # 1 /\ q = pending[i].tid
    BY <1>1 DEF Listed
  <2>3. \A i \in DOMAIN pending : i # 1 => pending[i].tid # old
    BY <1>1, <1>3 DEF ListOK
  <2> QED
    BY <1>3, <2>1, <2>2, <2>3
<1>7. UpdateTodo' = UpdateTodo \ {old} /\ old \in UpdateTodo
  BY <1>1, <1>6 DEF UpdateTodo
<1>8. /\ Todo = CountBy(UpdateTodo, RowAt) /\ Todo' = CountBy(UpdateTodo \ {old}, RowAt)
      /\ UpdateTodo \subseteq Live
  BY <1>1, <1>5, <1>7, UpdateTodoIs
<1>9. IsFiniteSet(UpdateTodo)
  BY <1>8, FS_Subset DEF Live, IInv
<1>10. Todo' = [Todo EXCEPT ![RowAt[old]] = @ - 1] /\ Todo[RowAt[old]] > 0
  BY <1>5, <1>7, <1>8, <1>9, CountLess
<1>11. Head(pending)' = Head(pending) /\ Head(pending).row = stmt.set[RowAt[old]]
  BY <1>1, <1>3, <1>4, <1>5
<1>12. Abstract!TakeOut(RowAt[old])
  BY <1>1, <1>5, <1>10, <1>11 DEF Abstract!TakeOut, Abstract!MinusRow
<1> QED
  BY <1>5, <1>12 DEF Abstract!Next

\* The second half puts the new version into the table.
LEMMA PutBackRefines ==
    ASSUME IInv, IInv', ListOK, ListOK', PlaceNewVersion
    PROVE  Abstract!Next
<1>1. /\ UpdateOK /\ phase = "place" /\ pending # <<>> /\ Head(pending) \in Versions
      /\ pending' = Tail(pending) /\ phase' = "delete" /\ UNCHANGED <<stmt, cursor>>
      /\ \E p \in 1 .. Len(disk) + 1 :
            /\ p <= Len(disk) => Fits(disk[p], SizeOf[Head(pending).row])
            /\ PlaceRow(Head(pending).row, p)
  BY PlaceNewVersionIs DEF IInv
<1>2. stmt.kind = "update" /\ Head(pending).row \in Rows
  BY <1>1 DEF UpdateOK, Updates, Versions
<1>3. /\ CountsAt(Live)' = [CountsAt(Live) EXCEPT ![Head(pending).row] = @ + 1]
      /\ \A pos \in Positions : RowAt'[pos] = RowAt[pos]
  BY <1>1, <1>2, PlaceCounts DEF IInv
<1>4. /\ pending \in Seq(Versions) /\ Len(pending) \in Nat
      /\ DOMAIN pending = 1 .. Len(pending)
      /\ DOMAIN pending' = 1 .. Len(pending) - 1
      /\ \A i \in 1 .. Len(pending) - 1 : pending'[i] = pending[i + 1]
  BY <1>1, HeadTailProperties, SMT DEF UpdateOK
<1>5. Listed' = Listed
  <2>1. \A q : q \in Listed <=> \E i \in DOMAIN pending : i # 1 /\ q = pending[i].tid
    BY <1>1 DEF Listed
  <2>2. \A q : q \in Listed' <=> \E i \in DOMAIN pending' : q = pending'[i].tid
    BY <1>1 DEF Listed
  <2>3. ASSUME NEW q \in Listed PROVE q \in Listed'
    <3>1. PICK i \in DOMAIN pending : i # 1 /\ q = pending[i].tid
      BY <2>1, <2>3
    <3>2. i - 1 \in DOMAIN pending' /\ pending'[i - 1] = pending[i]
      BY <1>4, <3>1
    <3> QED
      BY <2>2, <3>1, <3>2
  <2>4. ASSUME NEW q \in Listed' PROVE q \in Listed
    <3>1. PICK i \in DOMAIN pending' : q = pending'[i].tid
      BY <2>2, <2>4
    <3>2. i + 1 \in DOMAIN pending /\ i + 1 # 1 /\ pending'[i] = pending[i + 1]
      BY <1>4
    <3> QED
      BY <2>1, <3>1, <3>2
  <2> QED
    BY <2>3, <2>4
<1>6. UpdateTodo' = UpdateTodo
  BY <1>1, <1>5 DEF UpdateTodo
<1>7. /\ Todo = CountBy(UpdateTodo, RowAt) /\ Todo' = CountBy(UpdateTodo, RowAt')
      /\ UpdateTodo \subseteq Live
  BY <1>1, <1>2, <1>6, UpdateTodoIs
<1>8. \A pos \in UpdateTodo : RowAt'[pos] = RowAt[pos]
  BY <1>3, <1>7 DEF Live
<1>9. Todo' = Todo
  BY <1>7, <1>8, CountSame
<1>10. Abstract!PutBack
  BY <1>1, <1>2, <1>3, <1>9 DEF Abstract!PutBack, Abstract!PlusRow
<1> QED
  BY <1>10 DEF Abstract!Next

\* A statement that reaches its end has nothing left to do.
LEMMA EndRefines ==
    ASSUME IInv, ListOK, StatementEnds
    PROVE  Abstract!Finish
<1>1. Rest /\ UNCHANGED disk
  BY DEF StatementEnds
<1>2. \/ stmt.kind = "insert" /\ pending = <<>>
      \/ stmt.kind = "update" /\ phase = "delete" /\ pending = <<>>
      \/ stmt.kind = "delete" /\ MatchesAhead = {}
  BY DEF StatementEnds
<1>3. stmt'.kind = "none" /\ phase' = "scan" /\ phase # "place"
  <2>1. stmt.kind # "update" => phase = "scan"
    BY <1>2, KindIs DEF IInv, InsertOK, DeleteOK
  <2> QED
    BY <1>1, <1>2, <2>1 DEF Rest, NoStatement
<1>4. CountsAt(Live)' = CountsAt(Live)
  BY <1>1 DEF CountsAt, Live, Positions, TupleAt
<1>5. Todo' = [r \in Rows |-> 0]
  BY <1>3, TodoAfter
<1>6. Todo = [r \in Rows |-> 0]
  <2>1. DOMAIN <<>> = {}
    OBVIOUS
  <2>2. CASE stmt.kind = "insert" /\ pending = <<>>
    BY <2>1, <2>2, TodoIs, CountNone
  <2>3. CASE stmt.kind = "delete" /\ MatchesAhead = {}
    BY <2>3, TodoIs, CountNone
  <2>4. CASE stmt.kind = "update" /\ phase = "delete" /\ pending = <<>>
    <3>1. Listed = {} /\ UpdateTodo = {}
      BY <2>1, <2>4 DEF Listed, UpdateTodo
    <3> QED
      BY <2>4, <3>1, TodoIs, CountNone
  <2> QED
    BY <1>2, <2>2, <2>3, <2>4
<1> QED
  BY <1>2, <1>3, <1>4, <1>5, <1>6
  DEF Abstract!Finish, Abstract!Idle, Abstract!NoRows, Abstract!KeepRow

\* The end of a statement, an oversized row and a crash leave the table as it is.
LEMMA RestRefines ==
    ASSUME IInv, StatementEnds \/ RowTooLarge \/ RowOverruns \/ IdMissing \/ Crash
    PROVE  Abstract!Next
<1>1. Rest /\ UNCHANGED disk
  BY DEF StatementEnds, RowTooLarge, RowOverruns, IdMissing, Crash
<1>2. stmt.kind # "none" /\ stmt.kind \in {"insert", "update", "delete"}
  BY KindIs
  DEF IInv, StateOK, StatementEnds, RowTooLarge, RowOverruns, IdMissing, Writes, Crash
<1>3. stmt'.kind = "none" /\ phase' = "scan"
  BY <1>1 DEF Rest, NoStatement
<1>4. CountsAt(Live)' = CountsAt(Live)
  BY <1>1 DEF CountsAt, Live, Positions, TupleAt
<1>5. Todo' = [r \in Rows |-> 0]
  BY <1>3, TodoAfter
<1>6. Abstract!Crash
  BY <1>2, <1>3, <1>4, <1>5
  DEF Abstract!Crash, Abstract!Idle, Abstract!NoRows, Abstract!KeepRow
<1> QED
  BY <1>6 DEF Abstract!Next

\* The empty file is the empty bag of rows.
LEMMA InitRefines == Init => Abstract!Init
<1> SUFFICES ASSUME Init PROVE Abstract!Init
  OBVIOUS
<1>1. stmt.kind = "none" /\ phase = "scan"
  BY DEF Init, NoStatement
<1>2. Len(disk) = 1 /\ disk[1].items = <<>>
  BY DEF Init, NewPage, EmptyPage
<1>3. Positions = {}
  BY <1>2, InitStateOK, PositionsType DEF StateOK
<1>4. Live = {}
  BY <1>3 DEF Live
<1>5. CountsAt(Live) = [r \in Rows |-> 0]
  BY <1>4, LiveCounts, CountNone
<1>6. Todo = [r \in Rows |-> 0]
  BY <1>1, TodoIs
<1> QED
  BY <1>1, <1>5, <1>6 DEF Abstract!Init, Abstract!NoRows, Abstract!KeepRow

\* Every step of the heap file is a step of the abstract statements or a stutter.
LEMMA StepRefines ==
    ASSUME IInv, IInv', Numbered, Numbered', [Next]_vars
    PROVE  [Abstract!Next]_(Abstract!vars)
<1>1. AtHome /\ ListOK /\ ListOK'
  BY DEF IInv
<1>2. CASE UNCHANGED vars
  <2>1. UNCHANGED <<disk, stmt, cursor, pending, phase>>
    BY <1>2 DEF vars
  <2>2. /\ CountsAt(Live)' = CountsAt(Live) /\ MatchesAhead' = MatchesAhead
        /\ RowAt' = RowAt /\ Listed' = Listed /\ UpdateTodo' = UpdateTodo
    BY <2>1 DEF CountsAt, Live, Positions, TupleAt, MatchesAhead, Ahead, Before, RowAt,
                Listed, UpdateTodo
  <2>3. Todo' = Todo
    <3>1. stmt.kind \in {"none", "insert", "delete", "update"}
      BY KindIs DEF IInv, StateOK
    <3>2. stmt.kind = "update" => Todo' = Todo
      BY <1>1, <2>1, <2>2, UpdateTodoIs
    <3> QED
      BY <2>1, <2>2, <3>1, <3>2, TodoIs, TodoAfter
  <2> QED
    BY <2>1, <2>2, <2>3 DEF Abstract!vars
<1>3. CASE BeginInsert \/ BeginUpdate \/ BeginDelete
  BY <1>3, BeginRefines
<1>4. CASE InsertTuple
  BY <1>4, InsertRefines
<1>5. CASE DeleteTuple
  BY <1>1, <1>5, DeleteRefines
<1>6. CASE CollectUpdate
  BY <1>1, <1>6, CollectRefines
<1>7. CASE UpdateScanEnds
  BY <1>1, <1>7, ScanEndRefines
<1>8. CASE DeleteOldVersion
  BY <1>1, <1>8, TakeOutRefines
<1>9. CASE PlaceNewVersion
  BY <1>1, <1>9, PutBackRefines
<1>10. CASE StatementEnds \/ RowTooLarge \/ RowOverruns \/ IdMissing \/ Crash
  BY <1>10, RestRefines
<1> QED
  BY <1>2, <1>3, <1>4, <1>5, <1>6, <1>7, <1>8, <1>9, <1>10 DEF Next, Work, Overwritten

\* A file whose pages can be numbered always was one.
LEMMA WasNumbered ==
    ASSUME IInv, [Next]_vars, Numbered'
    PROVE  Numbered
BY StepKeepsLists DEF IInv

\* The statements keep what RowStore promises: each row that a statement should change
\* is changed once, wherever its writes land, a crash loses at most the one row that an
\* UPDATE had taken out, and a statement that reaches its end is complete. With no
\* premise on sizes: the promise ends with the write that goes to a page without room
\* or to a page whose number does not fit into an id.
THEOREM Refinement == Spec => ImplementsRowStore
<1>1. Init => Abstract!Init
  BY InitRefines
<1>2. IInv /\ IInv' /\ [Next]_vars => [KeepsPromise]_vars
  <2> SUFFICES ASSUME IInv, IInv', [Next]_vars, Intact'
               PROVE  /\ Abstract!Next \/ UNCHANGED Abstract!vars
                      /\ StatementEnds => Abstract!Finish
    BY DEF KeepsPromise
  <2>1. Numbered /\ Numbered'
    BY WasNumbered DEF Intact
  <2>2. Abstract!Next \/ UNCHANGED Abstract!vars
    BY <2>1, StepRefines
  <2>3. StatementEnds => Abstract!Finish
    BY <2>1, EndRefines DEF IInv
  <2> QED
    BY <2>2, <2>3
<1> QED
  BY <1>1, <1>2, Inductive, PTL DEF Spec, ImplementsRowStore
=============================================================================
