---------------------------- MODULE MCSlottedPage ----------------------------
(***************************************************************************)
(* Instances of SlottedPage.  The index instance has item sizes with       *)
(* size + LocSize a multiple of 8 on a page whose first span is 7 modulo   *)
(* 8, so its free span never falls below LocSize: the rows of a table of   *)
(* fixed width.  The heap instances have sizes that leave slivers, and an  *)
(* item that only the wrapped comparison can accept.                       *)
(***************************************************************************)
EXTENDS SlottedPage

CONSTANTS s, m, b     \* a small, a middle and a big item

RowItems == {s, b}
RowSizes == (s :> 2 @@ b :> 10)

SliverItems == {s, m, b}
SliverSizes == (s :> 3 @@ m :> 5 @@ b :> 37)
=============================================================================
