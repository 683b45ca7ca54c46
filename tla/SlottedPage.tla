----------------------------- MODULE SlottedPage -----------------------------
(***************************************************************************)
(* The byte layout of one page of storage.c: a header, an array of item    *)
(* locs that grows up, free space, item data that grows down, and reserved *)
(* bytes at the end (PageInit, PageAddItem, PageAddItemAt, PageGetItem,    *)
(* PageDeleteItem, PageRemoveLoc).                                         *)
(*                                                                         *)
(* A byte records what was stored there: Free, Slot bytes of the loc       *)
(* array, or byte k of an item.  The locs are kept decoded; item data that *)
(* lands on their bytes shows up in mem and ends the behaviour, because    *)
(* from then on the code reads garbage locs (SlotsIntact is what breaks).  *)
(***************************************************************************)
EXTENDS Integers, Sequences, SequencesExt

CONSTANTS Items,      \* the items that callers store
          SizeOf,     \* [Items -> size in bytes]
          PageSize,   \* PAGE_SIZE
          Reserve,    \* reserve_size: 0 on a heap page, > 0 on an index page
          NoItem      \* marks the bytes that belong to no item

HeaderSize == 8       \* sizeof(PageHeader)
LocSize == 6          \* sizeof(ItemLoc)
Max16 == 65535        \* the largest uint16_t

ASSUME PageSizeAssumption == PageSize \in Nat /\ PageSize <= Max16

ASSUME ReserveAssumption ==
    /\ Reserve \in Nat
    /\ Reserve = 0 \/ Reserve >= LocSize
    /\ PageSize >= Reserve + HeaderSize + 1

ASSUME SizeAssumption ==
    SizeOf \in [Items -> 1 .. PageSize - 1]

ASSUME NoItemAssumption == NoItem \notin Items

VARIABLES freeLower,  \* free_lower_offset
          freeUpper,  \* free_upper_offset
          locs,       \* item_locs[0 .. num_locs - 1], as a sequence
          mem,        \* the page's bytes
          wrapped     \* history: an item was accepted without room for its loc

vars == <<freeLower, freeUpper, locs, mem, wrapped>>

Addr == 0 .. PageSize - 1
Special == PageSize - Reserve
U16Unbounded(n) == n
U16(n) == n % (Max16 + 1)

FreeByte == [of |-> NoItem, at |-> 0]
SlotByte == [of |-> NoItem, at |-> 1]
ItemByte(x, k) == [of |-> x, at |-> k]
Bytes == [of : Items \cup {NoItem}, at : Nat]
UInt16 == 0 .. Max16
Locs == [offset : UInt16, length : UInt16, dead : BOOLEAN]

Id == 1 .. Len(locs)

\* What PageGetItem's caller finds at the offset of loc l.
PageGetItem(l) == mem[locs[l].offset].of

-----------------------------------------------------------------------------
PageInit ==
    /\ freeLower = HeaderSize
    /\ freeUpper = Special - 1
    /\ locs = <<>>
    /\ mem = [a \in Addr |-> FreeByte]
    /\ wrapped = FALSE

\* The subtraction that PageAddItem and PageGetFreeSpace do is unsigned: below
\* LocSize it wraps to a size_t above every length.
Wraps == freeUpper - freeLower < LocSize

HasSpaceNoLoc(size) == Wraps \/ freeUpper - freeLower >= size
HasSpace(size) == Wraps \/ freeUpper - freeLower - LocSize >= size

NewLocOffByOne(size) ==
    [offset |-> U16(freeUpper - size), length |-> size, dead |-> FALSE]
NewLoc(size) ==
    [offset |-> U16(freeUpper - size + 1), length |-> size, dead |-> FALSE]

LocBytes(loc) == loc.offset .. loc.offset + loc.length - 1

\* The loc is written first, the item's bytes second, on top of it if they meet.
Store(x, loc) ==
    [a \in Addr |->
        IF a \in LocBytes(loc) THEN ItemByte(x, a - loc.offset)
        ELSE IF a \in freeLower .. freeLower + LocSize - 1 THEN SlotByte
        ELSE mem[a]]

\* PageAddItem up to the position of the new loc in the array.
PlaceItem(x, newLocs) ==
    LET loc == NewLoc(SizeOf[x])
    IN  /\ ~wrapped
        /\ HasSpace(SizeOf[x])
        /\ locs' = newLocs
        /\ mem' = Store(x, loc)
        /\ freeLower' = U16(freeLower + LocSize)
        /\ freeUpper' = U16(loc.offset - 1)
        /\ wrapped' = Wraps

PageAddItem(x) == PlaceItem(x, Append(locs, NewLoc(SizeOf[x])))

\* PageAddItem, then the loc is moved from the end of the array to position l.
PageAddItemAt(x, l) ==
    /\ Reserve > 0
    /\ PlaceItem(x, InsertAt(locs, l, NewLoc(SizeOf[x])))

\* Both return false and leave the page alone.
PageRejects(x) ==
    /\ ~wrapped
    /\ ~HasSpace(SizeOf[x])
    /\ UNCHANGED vars

PageDeleteItemRemoves(l) ==
    /\ Reserve = 0
    /\ ~wrapped
    /\ locs' = RemoveAt(locs, l)
    /\ UNCHANGED <<freeLower, freeUpper, mem, wrapped>>
\* Only heap pages have dead items.
PageDeleteItem(l) ==
    /\ Reserve = 0
    /\ ~wrapped
    /\ locs' = [locs EXCEPT ![l].dead = TRUE]
    /\ UNCHANGED <<freeLower, freeUpper, mem, wrapped>>

\* The last loc's bytes take a copy of the LocSize bytes behind the array; the
\* data from free_upper_offset up to the removed item moves up by its length.
CloseGap(loc) ==
    [a \in Addr |->
        IF a \in freeLower - LocSize .. freeLower - 1 THEN mem[a + LocSize]
        ELSE IF a \in freeUpper + loc.length .. loc.offset + loc.length - 1
             THEN mem[a - loc.length]
        ELSE mem[a]]

ShiftLocAbove(loc, removed) ==
    IF loc.offset >= removed.offset
    THEN [loc EXCEPT !.offset = U16(@ + removed.length)]
    ELSE loc
ShiftLoc(loc, removed) ==
    IF loc.offset <= removed.offset
    THEN [loc EXCEPT !.offset = U16(@ + removed.length)]
    ELSE loc

GrownUpper(removed) == U16(freeUpper + removed.length)

PageRemoveLoc(l) ==
    LET removed == locs[l]
        kept    == RemoveAt(locs, l)
    IN  /\ Reserve > 0
        /\ ~wrapped
        /\ locs' = [m \in 1 .. Len(locs) - 1 |-> ShiftLoc(kept[m], removed)]
        /\ mem' = CloseGap(removed)
        /\ freeLower' = U16(freeLower - LocSize)
        /\ freeUpper' = GrownUpper(removed)
        /\ UNCHANGED wrapped

Next ==
    \/ \E x \in Items : PageAddItem(x)
    \/ \E x \in Items, l \in 1 .. Len(locs) + 1 : PageAddItemAt(x, l)
    \/ \E x \in Items : PageRejects(x)
    \/ \E l \in Id : PageDeleteItem(l)
    \/ \E l \in Id : PageRemoveLoc(l)

Spec == PageInit /\ [][Next]_vars

-----------------------------------------------------------------------------
\* Every variable keeps its type, whatever the arithmetic does.
TypeOK ==
    /\ freeLower \in UInt16
    /\ freeUpper \in UInt16
    /\ locs \in Seq(Locs)
    /\ mem \in [Addr -> Bytes]
    /\ wrapped \in BOOLEAN

\* The parts of a sound layout.
LocArrayFits ==
    /\ freeLower = HeaderSize + LocSize * Len(locs)
    /\ freeLower <= freeUpper
    /\ freeUpper < Special

ItemsInDataArea ==
    \A l \in Id : /\ freeUpper < locs[l].offset
                  /\ locs[l].length > 0
                  /\ locs[l].offset + locs[l].length <= Special

ItemsDisjoint ==
    \A l, m \in Id :
        l # m => \/ locs[l].offset + locs[l].length <= locs[m].offset
                 \/ locs[m].offset + locs[m].length <= locs[l].offset

ItemBytesIntact ==
    \A l \in Id :
        \E x \in Items :
            /\ locs[l].length = SizeOf[x]
            /\ \A k \in 0 .. SizeOf[x] - 1 :
                   mem[locs[l].offset + k] = ItemByte(x, k)

SlotsIntact == \A a \in HeaderSize .. freeLower - 1 : mem[a] = SlotByte

\* No hole is left in the data area: every byte above free_upper_offset belongs to an
\* item (PageRemoveLoc's memmove and its correction of the offsets).
NoSpaceLeak ==
    \A a \in freeUpper + 1 .. Special - 1 : \E l \in Id : a \in LocBytes(locs[l])

PageIntact ==
    /\ LocArrayFits
    /\ ItemsInDataArea
    /\ ItemsDisjoint
    /\ ItemBytesIntact
    /\ SlotsIntact

\* Locs and items never overlap, every item is read back byte for byte after any
\* sequence of adds, inserts, deletes and removals, and no space is ever lost.
PageSound == PageIntact /\ NoSpaceLeak

\* Whatever goes wrong in a page starts with the unsigned wrap of the free
\* space: a page that never accepted an item in fewer than LocSize free bytes
\* is intact and has lost no space.
IntactUnlessWrapped == ~wrapped => PageSound

\* The comment on PageGetFreeSpace (storage.h:103): it calculates the free
\* space for inserting a new item less the size of a new item loc.  PageAddItem
\* accepts an item only if the item and its loc fit in the free space.
AcceptsOnlyWhatFits ==
    [][\A x \in Items :
           PageAddItem(x) => SizeOf[x] + LocSize <= freeUpper + 1 - freeLower]_vars

\* A tuple id handed out by a heap page (PageAddItem's loc number, stored in
\* self_tid) names the same item for ever, dead or alive, and the dead stay
\* dead: the executor reads a tuple, then deletes it by that id later.
TupleIdsStable ==
    [][Reserve = 0 /\ ~wrapped' =>
          \A l \in Id : /\ l \in Id'
                        /\ PageGetItem(l)' = PageGetItem(l)
                        /\ locs[l].dead => locs[l].dead']_vars

-----------------------------------------------------------------------------
\* The page as its users see it.
PageView ==
    [items |-> [l \in Id |-> [item |-> PageGetItem(l), dead |-> locs[l].dead]],
     span  |-> freeUpper - freeLower]

Abstract == INSTANCE PageSpec WITH page <- PageView

\* The bytes implement the abstract page: every operation of storage.c on the
\* bytes is the operation of the same name on an array of items.
ImplementsPageSpec == Abstract!Spec
=============================================================================
