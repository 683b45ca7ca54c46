-------------------------------- MODULE BTree --------------------------------
(***************************************************************************)
(* The build of an index: CREATE INDEX reads the rows of the table in scan *)
(* order and calls BTreeIndexInsert for each.  The tree is one level of    *)
(* leaf pages linked to the right; page 1 is the root for ever, because a  *)
(* split makes no parent.  Slot 1 of a page (the code's HIGH_KEY, 0) is    *)
(* its high key, the keys begin at slot 2.  Each WritePage is a step, and  *)
(* the process may end between two of them.                                *)
(***************************************************************************)
EXTENDS ItemPage, FiniteSets

CONSTANTS Keys,       \* the values of the indexed column, positive integers
          SizeOf,     \* [Keys \cup {0} -> IndexTupleGetSize]
          LeafSpan,   \* the free span of a page with reserved BTreePageInfo
          MaxRows     \* a bound on the rows of the table

NoKey == 0            \* the key of the empty tuple that BTreePageInit stores

ASSUME TreeAssumption ==
    /\ Keys \subseteq Nat \ {NoKey}
    /\ SizeOf \in [Keys \cup {NoKey} -> Nat \ {0}]
    /\ LeafSpan \in Nat /\ MaxRows \in Nat

\* BTreePageInit's high key is a tuple without columns: no entry is smaller, and
\* an empty page takes it.
ASSUME EmptyKeyAssumption ==
    /\ SizeOf[NoKey] + LocSize <= LeafSpan
    /\ \A k \in Keys : SizeOf[NoKey] <= SizeOf[k]

\* No page is ever left with fewer free bytes than a loc takes: what
\* SlottedPage shows to go wrong then is kept apart from the tree.
ASSUME SliverAssumption ==
    LET Granule == LocSize + 2
    IN  /\ LeafSpan % Granule >= LocSize
        /\ \A k \in Keys \cup {NoKey} : (SizeOf[k] + LocSize) % Granule = 0

VARIABLES leaves,     \* pages 1, 2, ... of the index file
          root,       \* root_page_id of the meta page, 0 for none
          pending,    \* <<>>, or <<page>>: a split's new page, not yet written
          rows,       \* the keys of the rows given to the index so far
          phase,      \* of CREATE INDEX: "build", "done" or "cut"
          misplaced   \* history: a split stored its tuple in the high key slot

treeVars == <<leaves, root, pending, rows, phase, misplaced>>

HighKey == 1
FirstKey == 2

Entry(key, row) == [key |-> key, row |-> row]
Size(entry) == SizeOf[entry.key]

Leaf(body, right) == [body |-> body, right |-> right]
EmptyHighKey == Entry(NoKey, 0)

\* BTreePageInit and, for a heap page's worth of items, PageAddItem, which says
\* no to an item without room: the splits do not look at the answer.
NewBody == AddItem(EmptyPage(LeafSpan), EmptyHighKey, Size(EmptyHighKey))

AddIfFits(body, entry) ==
    IF Fits(body, Size(entry)) THEN AddItem(body, entry, Size(entry)) ELSE body

AddAll(body, entries) == FoldLeft(AddIfFits, body, entries)

ItemsOf(body) == [l \in 1 .. NumItems(body) |-> body.items[l].item]

WithoutHighKey(body) == RemoveLoc(body, HighKey, Size(ItemsOf(body)[HighKey]))
WithHighKey(body, entry) == AddItemAt(body, HighKey, entry, Size(entry))

-----------------------------------------------------------------------------
\* The first key that the search key is not greater than; behind the last key
\* otherwise, unless the high key of a page with a right neighbour is less too.
GetInsertionIdxNoSearch(key, leaf) == NumItems(leaf.body) + 1
GetInsertionIdx(key, leaf) ==
    LET items == ItemsOf(leaf.body)
        found == {l \in FirstKey .. Len(items) : key <= items[l].key}
    IN  IF found # {} THEN Min(found)
        ELSE IF leaf.right # 0 /\ key > items[HighKey].key THEN HighKey
        ELSE Len(items) + 1

\* Move right from the root until the key belongs to the page.
MoveRight(key) ==
    LET walk[p \in DOMAIN leaves] ==
            IF GetInsertionIdx(key, leaves[p]) = HighKey
            THEN walk[leaves[p].right] ELSE p
    IN  walk[root]

-----------------------------------------------------------------------------
\* The split of page leaf for an entry that would go to slot at.
SizesWith(leaf, entry, at) ==
    LET items == ItemsOf(leaf.body)
    IN  InsertAt([l \in DOMAIN items |-> Size(items[l])], at, Size(entry))

SpaceOf(sizes) == FoldLeft(+, 0, [l \in DOMAIN sizes |-> sizes[l] + LocSize])

\* The space left on both pages when the slots behind s have moved.
LeftSpace(leaf, entry, at, s) ==
    LET sizes == SizesWith(leaf, entry, at)
    IN  leaf.body.span + sizes[HighKey] - Size(entry)
            + SpaceOf(SubSeq(sizes, s + 1, Len(sizes)))

RightSpace(leaf, entry, at, s) ==
    LET sizes == SizesWith(leaf, entry, at)
        first == ItemsOf(leaf.body)[FirstKey]
    IN  LeafSpan - (Size(first) + LocSize)
            - SpaceOf(SubSeq(sizes, s + 1, Len(sizes)))

\* The last slot to stay, counting the new entry: the loop moves slots from the
\* right until the left page has room for its high key, the last slot moved.
SplitSlots(leaf, entry, at) ==
    LET sizes == SizesWith(leaf, entry, at)
    IN  {s \in FirstKey .. NumItems(leaf.body) :
            LeftSpace(leaf, entry, at, s) >= sizes[s + 1] + LocSize}

\* Not counting it.
LastKept(leaf, entry, at) ==
    LET s == Max(SplitSlots(leaf, entry, at)) IN IF at <= s THEN s - 1 ELSE s

KeptItemsOneLess(leaf, entry, at) ==
    SubSeq(ItemsOf(leaf.body), FirstKey, LastKept(leaf, entry, at) - 1)
KeptItems(leaf, entry, at) ==
    SubSeq(ItemsOf(leaf.body), FirstKey, LastKept(leaf, entry, at))

MovedItemsOneMore(leaf, entry, at) ==
    SubSeq(ItemsOf(leaf.body), LastKept(leaf, entry, at), NumItems(leaf.body))
MovedItems(leaf, entry, at) ==
    SubSeq(ItemsOf(leaf.body), LastKept(leaf, entry, at) + 1, NumItems(leaf.body))

\* The new page: its high key is the old page's first key.
RightHalf(leaf, entry, at) ==
    AddAll(WithHighKey(WithoutHighKey(NewBody), ItemsOf(leaf.body)[FirstKey]),
           MovedItems(leaf, entry, at))

LeftHalf(leaf, entry, at) == AddAll(NewBody, KeptItems(leaf, entry, at))

GoesRight(leaf, entry, at) == at > LastKept(leaf, entry, at)

\* Where the entry goes in the half that takes it; both halves have the old
\* page's right neighbour at this point.
SlotInHalf(leaf, entry, at) ==
    LET half == IF GoesRight(leaf, entry, at) THEN RightHalf(leaf, entry, at)
                ELSE LeftHalf(leaf, entry, at)
    IN  GetInsertionIdx(entry.key, Leaf(half, leaf.right))

Halves(leaf, entry, at) ==
    LET slot == SlotInHalf(leaf, entry, at)
        l    == LeftHalf(leaf, entry, at)
        r    == RightHalf(leaf, entry, at)
    IN  IF GoesRight(leaf, entry, at)
        THEN <<l, AddItemAt(r, slot, entry, Size(entry))>>
        ELSE <<AddItemAt(l, slot, entry, Size(entry)), r>>

\* The asserts of the split hold, and there is a first key to make a high key.
SplitSucceeds(leaf, entry, at) ==
    /\ NumItems(leaf.body) >= FirstKey
    /\ SplitSlots(leaf, entry, at) # {}
    /\ RightSpace(leaf, entry, at, Max(SplitSlots(leaf, entry, at))) >= 0
    /\ \A half \in {1, 2} : Halves(leaf, entry, at)[half].span >= 0
    /\ LET first == ItemsOf(Halves(leaf, entry, at)[2])[FirstKey]
       IN  Fits(WithoutHighKey(Halves(leaf, entry, at)[1]), Size(first))

-----------------------------------------------------------------------------
TreeInit ==
    /\ leaves = <<>> /\ root = 0 /\ pending = <<>>
    /\ rows = <<>>
    /\ phase = "build"
    /\ misplaced = FALSE

\* BTreeReadOrCreateRootPageId: the root page, then the meta page.
WriteRootPage ==
    /\ root = 0 /\ leaves = <<>>
    /\ leaves' = <<Leaf(NewBody, 0)>>
    /\ UNCHANGED <<root, pending, rows, phase, misplaced>>

WriteMetaPage ==
    /\ root = 0 /\ leaves # <<>>
    /\ root' = 1
    /\ UNCHANGED <<leaves, pending, rows, phase, misplaced>>

ReadOrCreateRoot == phase = "build" /\ Len(rows) < MaxRows /\ (WriteRootPage \/ WriteMetaPage)

\* The next row of the table, its page and its slot.
Next1 == Len(rows) + 1
CanInsert == phase = "build" /\ root # 0 /\ pending = <<>> /\ Len(rows) < MaxRows

InsertEntry(key) ==
    /\ CanInsert
    /\ LET p  == MoveRight(key)
           at == GetInsertionIdx(key, leaves[p])
       IN  /\ Fits(leaves[p].body, SizeOf[key])
           /\ leaves' = [leaves EXCEPT
                 ![p].body = AddItemAt(@, at, Entry(key, Next1), SizeOf[key])]
    /\ rows' = Append(rows, key)
    /\ UNCHANGED <<root, pending, phase, misplaced>>

\* SMNumPages: the pages of the file with its meta page.
NewPageId == Len(leaves) + 1

NewRightOfLast(leaf) == 0
NewRight(leaf) == leaf.right

\* The first WritePage of a split: the left half, linked to the new page.
Split(key) ==
    /\ CanInsert
    /\ LET p     == MoveRight(key)
           leaf  == leaves[p]
           entry == Entry(key, Next1)
           at    == GetInsertionIdx(key, leaf)
       IN  /\ ~Fits(leaf.body, SizeOf[key])
           /\ SplitSucceeds(leaf, entry, at)
           /\ LET halves == Halves(leaf, entry, at)
                  first  == ItemsOf(halves[2])[FirstKey]
                  left   == WithHighKey(WithoutHighKey(halves[1]), first)
              IN  /\ leaves' = [leaves EXCEPT ![p] = Leaf(left, NewPageId)]
                  /\ pending' = <<Leaf(halves[2], NewRight(leaf))>>
           /\ misplaced' = (misplaced \/ SlotInHalf(leaf, entry, at) = HighKey)
    /\ rows' = Append(rows, key)
    /\ UNCHANGED <<root, phase>>

\* The second.
WriteNewPage ==
    /\ phase = "build" /\ pending # <<>>
    /\ leaves' = leaves \o pending
    /\ pending' = <<>>
    /\ UNCHANGED <<root, rows, phase, misplaced>>

EndOfBuild(how) ==
    /\ phase' = how
    /\ pending' = <<>>
    /\ UNCHANGED <<leaves, root, rows, misplaced>>

\* One of the asserts of the split, or the read of a first key that a page with
\* no keys has not got.
SplitAborts(key) ==
    /\ CanInsert
    /\ LET p == MoveRight(key)
       IN  /\ ~Fits(leaves[p].body, SizeOf[key])
           /\ ~SplitSucceeds(leaves[p], Entry(key, Next1),
                             GetInsertionIdx(key, leaves[p]))
    /\ EndOfBuild("cut")

\* The process ends.  It does so by itself when the key is NULL (TypeToCmpFunc
\* panics), and when it compares the second row's key if the indexed column has
\* another type than the first column of the table, whose type the search key
\* takes.
Cut == phase = "build" /\ EndOfBuild("cut")

BuildEndsInMidSplit == phase = "build" /\ EndOfBuild("done")
BuildEnds == phase = "build" /\ pending = <<>> /\ EndOfBuild("done")

Build ==
    \/ ReadOrCreateRoot
    \/ \E k \in Keys : InsertEntry(k) \/ Split(k) \/ SplitAborts(k)
    \/ WriteNewPage \/ BuildEnds \/ Cut

TreeSpec == TreeInit /\ [][Build]_treeVars

-----------------------------------------------------------------------------
Pages == leaves \o pending

\* The pages from the root to the right, and their entries without high keys.
Chain ==
    LET from[p \in Nat] ==
            IF p = 0 \/ p > Len(Pages) THEN <<>> ELSE <<p>> \o from[Pages[p].right]
    IN  from[root]

Entries ==
    LET chain == Chain
    IN  FlattenSeq([i \in DOMAIN chain |->
            LET items == ItemsOf(Pages[chain[i]].body)
            IN  SubSeq(items, FirstKey, Len(items))])

TreeTypeOK ==
    /\ \A p \in DOMAIN Pages :
          /\ Pages[p].body.span \in LocSize .. LeafSpan
          /\ LET items == ItemsOf(Pages[p].body)
             IN  Pages[p].body.span =
                    LeafSpan - SpaceOf([l \in DOMAIN items |-> Size(items[l])])
          /\ Pages[p].right \in 0 .. Len(leaves) + 1
    /\ root \in {0, 1}
    /\ phase \in {"build", "done", "cut"}

\* The keys along the chain are in order and every entry is the entry of one
\* row, whatever splits have happened, in mid-split and after a crash too; no
\* row is missing unless the build was cut short.  It holds until a split stores
\* its new tuple in the high key slot.
EntriesSound ==
    ~misplaced =>
        LET entries == Entries
        IN  /\ \A i, j \in DOMAIN entries :
                  i < j => /\ entries[i].key <= entries[j].key
                           /\ entries[i].row # entries[j].row
            /\ \A i \in DOMAIN entries :
                  /\ entries[i].row \in DOMAIN rows
                  /\ rows[entries[i].row] = entries[i].key
            /\ phase # "cut" => Len(entries) = Len(rows)

\* Every page of the file is in the chain, once, so that a scan to the right
\* that starts at the root meets all of them; in a build cut between the two
\* writes of a split the pages to the right of the split are out of reach.
ChainCoversFile ==
    phase # "cut" /\ root # 0 =>
        LET chain == Chain
        IN  Len(chain) = Len(Pages) /\ ToSet(chain) = DOMAIN Pages

\* A split or an insert puts one entry into the sequence of entries and leaves
\* the others where they are.
InsertsOneEntry ==
    [][rows' # rows /\ ~misplaced' =>
          \E i \in 1 .. Len(Entries) + 1 :
              Entries' = InsertAt(Entries, i, Entry(rows'[Next1], Next1))]_treeVars

\* The comment on the end of a split (storage.c:1106): it gets the new insertion
\* point on the page that takes the new item and inserts the item there, so that
\* every row has its place among the keys of the index.
EveryRowIndexed ==
    phase # "cut" => \A r \in DOMAIN rows : Entry(rows[r], r) \in ToSet(Entries)
=============================================================================
