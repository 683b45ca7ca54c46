------------------------------- MODULE PageSpec -------------------------------
(***************************************************************************)
(* The abstract specification of one page: an array of items that accepts  *)
(* an item exactly when its free space holds the item and one more slot.   *)
(* A heap page (Reserve = 0) only appends items and marks them dead; an    *)
(* index page (Reserve > 0 bytes for BTreePageInfo) also inserts at a      *)
(* position and removes.                                                   *)
(***************************************************************************)
EXTENDS ItemPage

CONSTANTS Items,      \* the items that callers store
          SizeOf,     \* [Items -> size in bytes]
          PageSize,
          Reserve

VARIABLE page

Init == page = EmptyPage(PageSize - Reserve - 1 - HeaderSize)

Add(x) ==
    /\ HasRoom(page, SizeOf[x])
    /\ page' = AddItem(page, x, SizeOf[x])

AddAt(x) ==
    /\ Reserve > 0
    /\ HasRoom(page, SizeOf[x])
    /\ \E id \in 1 .. NumItems(page) + 1 :
           page' = AddItemAt(page, id, x, SizeOf[x])

Delete ==
    /\ Reserve = 0
    /\ \E id \in 1 .. NumItems(page) : page' = DeleteItem(page, id)

Drop ==
    /\ Reserve > 0
    /\ \E id \in 1 .. NumItems(page) :
           page' = RemoveLoc(page, id, SizeOf[page.items[id].item])

Next == (\E x \in Items : Add(x) \/ AddAt(x)) \/ Delete \/ Drop

Spec == Init /\ [][Next]_page
=============================================================================
