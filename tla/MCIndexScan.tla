----------------------------- MODULE MCIndexScan -----------------------------
(***************************************************************************)
(* An instance of BTree and IndexScan with keys of three sizes: a short    *)
(* one, a longer one, and one that takes half a page with its loc.         *)
(***************************************************************************)
EXTENDS IndexScan

KeySizes == [k \in Keys \cup {NoKey} |-> CASE k = 2 -> 26 [] k = 3 -> 10 [] OTHER -> 2]

FewKeys == 1 .. 3
=============================================================================
