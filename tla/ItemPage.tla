------------------------------- MODULE ItemPage -------------------------------
(***************************************************************************)
(* A slotted page seen through its promise: a sequence of items, each dead *)
(* or not, and the span of the free space between the slot array and the   *)
(* data, free_upper_offset - free_lower_offset.  SlottedPage shows that    *)
(* the byte layout of storage.c keeps this promise; HeapFile, Catalog and  *)
(* BTree work on pages of this kind.  Item ids are positions: the code's   *)
(* item id l is position l + 1.                                            *)
(***************************************************************************)
EXTENDS Integers, Sequences, SequencesExt

\* sizeof(PageHeader), four uint16_t, and sizeof(ItemLoc), two and a bool.
HeaderSize == 8
LocSize == 6

Slot(x) == [item |-> x, dead |-> FALSE]

EmptyPage(span) == [items |-> <<>>, span |-> span]

\* Room for an item and its loc, which is what AddItem needs.
HasRoom(page, size) == size + LocSize <= page.span

\* PageAddItem's comparison: span - sizeof(ItemLoc) is unsigned, so a page with
\* less than a loc free lets any item in, and the item overwrites the page.
Sliver(page) == page.span < LocSize
Fits(page, size) == Sliver(page) \/ HasRoom(page, size)

AddItem(page, x, size) ==
    [items |-> Append(page.items, Slot(x)),
     span  |-> page.span - (size + LocSize)]

AddItemAt(page, id, x, size) ==
    [items |-> InsertAt(page.items, id, Slot(x)),
     span  |-> page.span - (size + LocSize)]

Tombstone(slot) == [item |-> slot.item, dead |-> TRUE]

DeleteItem(page, id) ==
    [items |-> [page.items EXCEPT ![id] = Tombstone(@)],
     span  |-> page.span]

RemoveLocKeepsLoc(page, id, size) ==
    [items |-> RemoveAt(page.items, id),
     span  |-> page.span + size]
RemoveLoc(page, id, size) ==
    [items |-> RemoveAt(page.items, id),
     span  |-> page.span + (size + LocSize)]

\* A file of pages: the first page from page p on with room for an item, or the
\* page behind the last one, and the item on that page.
FirstFit(pages, p, size) ==
    LET fits == {q \in p .. Len(pages) : Fits(pages[q], size)}
    IN  IF fits = {} THEN Len(pages) + 1 ELSE Min(fits)

PutItem(pages, p, x, size, span) ==
    IF p <= Len(pages)
    THEN [pages EXCEPT ![p] = AddItem(@, x, size)]
    ELSE Append(pages, AddItem(EmptyPage(span), x, size))

NumItems(page) == Len(page.items)
IsLive(page, id) == ~page.items[id].dead
=============================================================================
