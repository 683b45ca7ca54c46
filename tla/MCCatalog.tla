------------------------------ MODULE MCCatalog ------------------------------
(***************************************************************************)
(* Instances of Catalog: one user table t, and a user table with the name  *)
(* that the index on foo would get.                                        *)
(***************************************************************************)
EXTENDS Catalog

CONSTANTS fooIndex, bIndex, t, tIndex, iIndex

User == {t, fooIndex}
IndexNames == (Foo :> fooIndex @@ B :> bIndex @@ t :> tIndex @@ fooIndex :> iIndex)

\* A page takes the rows of the bootstrap and one or two rows more, and leaves 7
\* bytes free, or 5, less than a loc.
Sizes ==
    [n \in Names |-> CASE n \in {fooIndex, tIndex} -> 10 [] n = bIndex -> 4 [] OTHER -> 2]

\* All but b and the catalogs have the same column.
Columns ==
    [n \in Tables |-> IF n = B THEN {B, bIndex}
                      ELSE (Tables \cup Range(IndexName)) \ {B, bIndex}]
=============================================================================
