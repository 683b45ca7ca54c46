------------------------------ MODULE MCHeapFile ------------------------------
(***************************************************************************)
(* Instances of HeapFile: a short row, a long row and one that no page     *)
(* holds.  Three short rows leave a page no room for more, one of each     *)
(* leaves it a sliver; a file with a third page has more pages than ids    *)
(* can tell apart.                                                         *)
(***************************************************************************)
EXTENDS HeapFile

CONSTANTS short, long, huge

ThreeRows == {short, long, huge}
ThreeSizes == (short :> 2 @@ long :> 12 @@ huge :> 45)
=============================================================================
