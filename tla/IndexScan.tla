------------------------------ MODULE IndexScan ------------------------------
(***************************************************************************)
(* SELECT with an index: PlanJoin chooses an index scan when the WHERE     *)
(* clause compares the indexed column with a value, and IdxScan calls      *)
(* BTreeFirst and BTreeGetNext until there are no more tuples.  After      *)
(* CREATE INDEX nothing maintains the index: INSERT and DELETE change the  *)
(* table only, and an UPDATE is a DELETE and an INSERT.  An index whose    *)
(* build was cut short is in the catalog too: after the restart queries    *)
(* use what there is of it.                                                *)
(*                                                                         *)
(* The slot numbers are those of BTree, one more than the code's.          *)
(***************************************************************************)
EXTENDS BTree

VARIABLES query,    \* the WHERE clause: an operator and a value
          scan,     \* the scan: "none", "first", "next", "end" or "crash"
          page,     \* cursor->page_id
          slot,     \* cursor->tuple_id
          out,      \* the rows returned so far
          later,    \* the keys of the rows inserted after CREATE INDEX
          dead      \* the rows that have died since

scanVars == <<query, scan, page, slot, out, later, dead>>
vars == <<treeVars, scanVars>>

Ops == {"=", "!=", ">", ">=", "<", "<="}
NoQuery == [op |-> "=", value |-> NoKey]

\* The WHERE clause of the query, as IdxScan evaluates it on the table's tuple.
Selects(key) ==
    CASE query.op = "="  -> key = query.value
      [] query.op = "!=" -> key # query.value
      [] query.op = ">"  -> key > query.value
      [] query.op = ">=" -> key >= query.value
      [] query.op = "<"  -> key < query.value
      [] query.op = "<=" -> key <= query.value

\* PlanJoin's choice of the direction.
Backwards == query.op \in {"<", "<="}

-----------------------------------------------------------------------------
Init ==
    /\ TreeInit
    /\ query = NoQuery /\ scan = "none" /\ page = 0 /\ slot = 0 /\ out = <<>>
    /\ later = <<>> /\ dead = {}

\* CreateBTreeIndex enters the index into the catalogs before its first row.
Indexed == phase \in {"done", "cut"}
NoScan == scan \in {"none", "end", "crash"}

\* The table changes at most once in each of the two ways, before the first query
\* and under a finished index: bounds, for no action reads later or dead.
InsertRow(key) ==
    /\ phase = "done" /\ scan = "none" /\ later = <<>>
    /\ later' = <<key>>
    /\ UNCHANGED <<treeVars, query, scan, page, slot, out, dead>>

DeleteRow(r) ==
    /\ phase = "done" /\ scan = "none" /\ dead = {}
    /\ dead' = {r}
    /\ UNCHANGED <<treeVars, query, scan, page, slot, out, later>>

\* IdxScanInit; the scan of an earlier query leaves nothing behind.
IndexCursorInit(op, value) ==
    /\ Indexed /\ NoScan
    /\ query' = [op |-> op, value |-> value]
    /\ scan' = "first" /\ page' = 0 /\ slot' = 0 /\ out' = <<>>
    /\ UNCHANGED <<treeVars, later, dead>>

\* The tuple that the index entry points to, dead or not, if it satisfies the
\* WHERE clause.
Return(entry) == out' = IF Selects(entry.key) THEN Append(out, entry.row) ELSE out

EndScan == scan' = "end" /\ UNCHANGED <<page, slot, out>>

EntryAt(p, l) == ItemsOf(leaves[p].body)[l]

CreateRootForScanNoMeta ==
    /\ scan = "first"
    /\ WriteRootPage
    /\ UNCHANGED scanVars
\* BTreeFirst creates the root of an index on an empty table.
CreateRootForScan ==
    /\ scan = "first"
    /\ WriteRootPage \/ WriteMetaPage
    /\ UNCHANGED scanVars

StartSlotAnyLeaf(value) == GetInsertionIdx(value, leaves[MoveRight(value)])
\* BTreeFirst looks on the root page only.
StartSlot(value) == GetInsertionIdx(value, leaves[root])

BTreeFirst ==
    /\ scan = "first" /\ root # 0
    /\ LET l == StartSlot(query.value)
       IN  IF l = HighKey \/ l = NumItems(leaves[root].body) + 1
           THEN EndScan
           ELSE /\ scan' = "next"
                /\ page' = root /\ slot' = l
                /\ Return(EntryAt(root, l))
    /\ UNCHANGED <<treeVars, query, later, dead>>

NextPageNever(p) == 0
NextPage(p) == leaves[p].right

\* ReadPage has no page to return: the file ends before it.
Written(p) == p \in {0} \cup DOMAIN leaves

\* SCAN_FORWARD: at the end of a page the first key of its right neighbour; at
\* the end of the last, slot 1 or 2 of the meta page, which has no items.  The
\* neighbour is read without a look whether it is there.
GetNextForward ==
    /\ scan = "next" /\ ~Backwards
    /\ IF slot + 1 <= NumItems(leaves[page].body)
       THEN /\ slot' = slot + 1
            /\ Return(EntryAt(page, slot + 1))
            /\ UNCHANGED <<scan, page>>
       ELSE IF ~Written(NextPage(page)) THEN scan' = "crash" /\ UNCHANGED <<page, slot, out>>
       ELSE IF NextPage(page) = 0 THEN EndScan
       ELSE IF NumItems(leaves[NextPage(page)].body) < FirstKey THEN EndScan
       ELSE /\ page' = NextPage(page) /\ slot' = FirstKey
            /\ Return(EntryAt(NextPage(page), FirstKey))
            /\ UNCHANGED scan
    /\ UNCHANGED <<treeVars, query, later, dead>>

\* SCAN_BACKWARDS: never to another page, and the first key is not returned.
GetNextBackward ==
    /\ scan = "next" /\ Backwards
    /\ IF slot - 1 <= FirstKey THEN EndScan
       ELSE /\ slot' = slot - 1
            /\ Return(EntryAt(page, slot - 1))
            /\ UNCHANGED <<scan, page>>
    /\ UNCHANGED <<treeVars, query, later, dead>>

Next ==
    \/ Build /\ UNCHANGED scanVars
    \/ \E k \in Keys : InsertRow(k)
    \/ \E r \in DOMAIN rows : DeleteRow(r)
    \/ \E op \in Ops, k \in Keys : IndexCursorInit(op, k)
    \/ CreateRootForScan \/ BTreeFirst \/ GetNextForward \/ GetNextBackward

\* ExecPlan calls for the next tuple until there is none.
Scan == CreateRootForScan \/ BTreeFirst \/ GetNextForward \/ GetNextBackward

Spec == Init /\ [][Next]_vars /\ WF_vars(Scan)

-----------------------------------------------------------------------------
\* The rows of which IdxScan should return each once.
Selected(table) == {r \in DOMAIN table : Selects(table[r])}

\* A key of the root page is at or behind the value: the boundary is in reach.
BoundaryOnRoot ==
    \/ Len(leaves) = 1
    \/ \E l \in FirstKey .. NumItems(leaves[root].body) : EntryAt(root, l).key >= query.value

\* A split that keeps nothing but the new entry, and then puts it on the new page
\* after all, leaves a page without keys: a scan to the right ends before it.
NoKeylessPage == \A p \in DOMAIN leaves \ {root} : NumItems(leaves[p].body) >= FirstKey

\* A scan for =, > or >= whose boundary is on the root page returns each row that
\* was in the table when the index was made and satisfies the WHERE clause, across
\* all the splits of the build as long as none left a page without keys; dead rows
\* too, and no row that came later.
ForwardScanComplete ==
    /\ scan = "end" /\ phase = "done" /\ query.op \in {"=", ">", ">="}
    /\ BoundaryOnRoot /\ NoKeylessPage /\ ~misplaced
    => ToSet(out) = Selected(rows)

\* Whatever a scan has returned, over an index whose build was cut short at any
\* write too, is a row of the table with the entry's key, no row twice, and in
\* the order of the keys: an incomplete index loses rows and does nothing worse.
ScanSound ==
    ~misplaced =>
        \A i \in DOMAIN out :
            /\ out[i] \in Selected(rows)
            /\ \A j \in 1 .. i - 1 :
                  /\ out[j] # out[i]
                  /\ IF Backwards THEN rows[out[j]] >= rows[out[i]]
                     ELSE rows[out[j]] <= rows[out[i]]

\* A scan runs into a page that was never written only where the build was cut
\* between the two writes of a split: no link of a finished index leads out of
\* its file.
CrashExplained ==
    scan = "crash" =>
        /\ phase = "cut"
        /\ page \in DOMAIN leaves /\ leaves[page].right = Len(leaves) + 1

\* A scan in any direction, on any index, ends: with its last row, or for want
\* of the page that a cut split has not written.
ScanEnds == (scan = "first") ~> (scan \in {"end", "crash"})
=============================================================================
