------------------------------- MODULE HeapFile -------------------------------
(***************************************************************************)
(* One table: a file of heap pages, and the INSERT, UPDATE and DELETE      *)
(* statements that run on it one at a time (InsertScan, UpdateScan and     *)
(* DeleteScan of plan.c over the cursor functions of storage.c).  The      *)
(* program is a single thread; what interleaves with a statement is the    *)
(* end of the process, between any two page writes.  Every WritePage is    *)
(* followed by fsync, so it is one step and what it wrote survives.        *)
(*                                                                         *)
(* Free space that is smaller than a loc takes any row (ItemPage's Sliver) *)
(* and the row overwrites other rows or what lies behind the page: such a  *)
(* write is the last step that is modelled.                                *)
(*                                                                         *)
(* A position is <<page, loc>>, both counted from 1; page p is the code's  *)
(* page_index p - 1, loc l its loc_num l - 1.                              *)
(***************************************************************************)
EXTENDS ItemPage, FiniteSets, FiniteSetsExt

CONSTANTS Rows,      \* the row values
          SizeOf,    \* [Rows -> tuple->length]
          PageSpan,  \* the free span of an empty page
          TidPages,  \* the page numbers TupleId.page_num can hold: 2^16
          MaxPages   \* a bound: only DELETE begins on a longer file

ASSUME SizeOfAssumption == SizeOf \in [Rows -> Nat \ {0}]
ASSUME BoundAssumption ==
    /\ PageSpan \in Nat /\ PageSpan >= LocSize
    /\ TidPages \in Nat \ {0}
    /\ MaxPages \in Nat \ {0}

VARIABLES disk,     \* the pages of the file
          stmt,     \* the statement that runs
          cursor,   \* cursor->page_index and tuple_index, as a position
          pending,  \* insert_tuples still to insert, or updated_tuples
          phase,    \* where UpdateScan is: "scan", "delete" or "place"
          wrapped   \* history: a row was written to a page without room for it

vars == <<disk, stmt, cursor, pending, phase, wrapped>>

NewPage == EmptyPage(PageSpan)
PageSize == PageSpan + HeaderSize + 1

\* self_tid = {page_index, loc_num}: page_num keeps 16 bits of page_index.
SelfTidStartsAtOne(p, l) == <<((p - 1) % TidPages) + 1, l + 1>>
SelfTid(p, l) == <<((p - 1) % TidPages) + 1, l>>

Positions ==
    UNION {{<<p, l>> : l \in 1 .. NumItems(disk[p])} : p \in DOMAIN disk}
TupleAt(pos) == disk[pos[1]].items[pos[2]].item
Live == {pos \in Positions : IsLive(disk[pos[1]], pos[2])}

Before(a, b) == a[1] < b[1] \/ (a[1] = b[1] /\ a[2] < b[2])

-----------------------------------------------------------------------------
\* The positions that CursorSeekNext still visits, and of these the ones whose
\* rows the WHERE clause keeps.
Ahead(pos) == Before(cursor, pos) \/ cursor = pos

MatchesAhead == {pos \in Live : Ahead(pos) /\ TupleAt(pos).row \in stmt.where}

\* CursorSeekNext, called until the WHERE clause holds.
IsNextMatch(pos) ==
    /\ pos \in MatchesAhead
    /\ \A other \in MatchesAhead : other = pos \/ Before(pos, other)

\* The first page from page p on with room for the row, or a new page behind
\* the last one.
TargetPageLast(row, p) ==
    LET fits == {q \in p .. Len(disk) : Fits(disk[q], SizeOf[row])}
    IN  IF fits = {} THEN Len(disk) ELSE Min(fits)
TargetPage(row, p) == FirstFit(disk, p, SizeOf[row])

\* The append, common to CursorInsertTuple and CursorUpdateTupleById: one
\* WritePage.  loc_num is the number of locs of the page, 0 on a new one.
NextLoc(p) == IF p <= Len(disk) THEN NumItems(disk[p]) + 1 ELSE 1

PlaceRow(row, p) ==
    /\ IF p <= Len(disk) THEN ~Sliver(disk[p]) ELSE HasRoom(NewPage, SizeOf[row])
    /\ disk' = PutItem(disk, p, [row |-> row, tid |-> SelfTid(p, NextLoc(p))],
                       SizeOf[row], PageSpan)

\* PageDeleteItem on the page that a tuple id names: one WritePage.
DeleteByTidCompacts(tid) ==
    /\ tid \in Positions
    /\ disk' = [disk EXCEPT ![tid[1]] =
                   RemoveLoc(@, tid[2], SizeOf[TupleAt(tid).row])]
DeleteByTid(tid) ==
    /\ tid \in Positions
    /\ disk' = [disk EXCEPT ![tid[1]] = DeleteItem(@, tid[2])]

-----------------------------------------------------------------------------
NoStatement == [kind |-> "none"]
Start == <<1, 1>>

Rest == stmt' = NoStatement /\ cursor' = Start /\ pending' = <<>> /\ phase' = "scan"

\* SMCreate writes one empty page into the new file.
Init ==
    /\ disk = <<NewPage>>
    /\ stmt = NoStatement /\ cursor = Start /\ pending = <<>> /\ phase = "scan"
    /\ wrapped = FALSE

Begin(s, rows) ==
    /\ ~wrapped /\ stmt = NoStatement
    /\ s.kind = "delete" \/ Len(disk) <= MaxPages
    /\ stmt' = s
    /\ pending' = rows
    /\ UNCHANGED <<disk, cursor, phase, wrapped>>

BeginInsert ==
    \E rows \in {<<r>> : r \in Rows} \cup {<<r, t>> : r, t \in Rows} :
        Begin([kind |-> "insert"], rows)

BeginUpdate ==
    \E where \in SUBSET Rows, set \in [Rows -> Rows] :
        Begin([kind |-> "update", where |-> where, set |-> set], <<>>)

BeginDelete ==
    \E where \in SUBSET Rows :
        Begin([kind |-> "delete", where |-> where], <<>>)

\* InsertScan's loop body: the cursor stays on the page that took the row.
InsertTuple ==
    /\ stmt.kind = "insert" /\ pending # <<>>
    /\ LET p == TargetPage(Head(pending), cursor[1])
       IN  /\ PlaceRow(Head(pending), p)
           /\ cursor' = <<p, cursor[2]>>
    /\ pending' = Tail(pending)
    /\ UNCHANGED <<stmt, phase, wrapped>>

\* DeleteScan's loop body: the tuple is deleted by the id stored in it.
DeleteTuple ==
    /\ stmt.kind = "delete"
    /\ \E pos \in Live :
           /\ IsNextMatch(pos)
           /\ DeleteByTid(TupleAt(pos).tid)
           /\ cursor' = <<pos[1], pos[2] + 1>>
    /\ UNCHANGED <<stmt, pending, phase, wrapped>>

CollectUpdateStopsAtFirst ==
    /\ stmt.kind = "update" /\ phase = "scan"
    /\ \E pos \in Live :
           /\ IsNextMatch(pos)
           /\ pending' = Append(pending, [row |-> stmt.set[TupleAt(pos).row],
                                          tid |-> TupleAt(pos).tid])
    /\ phase' = "delete"
    /\ UNCHANGED <<disk, stmt, cursor, wrapped>>
\* UpdateScan's first loop: the new version keeps the old self_tid.
CollectUpdate ==
    /\ stmt.kind = "update" /\ phase = "scan"
    /\ \E pos \in Live :
           /\ IsNextMatch(pos)
           /\ pending' = Append(pending, [row |-> stmt.set[TupleAt(pos).row],
                                          tid |-> TupleAt(pos).tid])
           /\ cursor' = <<pos[1], pos[2] + 1>>
    /\ UNCHANGED <<disk, stmt, phase, wrapped>>

UpdateScanEndsWithWork ==
    /\ stmt.kind = "update" /\ phase = "scan" /\ MatchesAhead = {}
    /\ pending # <<>>
    /\ phase' = "delete"
    /\ UNCHANGED <<disk, stmt, cursor, pending, wrapped>>
UpdateScanEnds ==
    /\ stmt.kind = "update" /\ phase = "scan" /\ MatchesAhead = {}
    /\ phase' = "delete"
    /\ UNCHANGED <<disk, stmt, cursor, pending, wrapped>>

\* CursorUpdateTupleById, its first WritePage: the old version dies.
DeleteOldVersion ==
    /\ stmt.kind = "update" /\ phase = "delete" /\ pending # <<>>
    /\ DeleteByTid(Head(pending).tid)
    /\ phase' = "place"
    /\ UNCHANGED <<stmt, cursor, pending, wrapped>>

\* CursorUpdateTupleById, its second WritePage: the new version goes to the
\* first page from the old version's on that takes it.
PlaceNewVersion ==
    /\ stmt.kind = "update" /\ phase = "place"
    /\ LET new == Head(pending)
       IN  PlaceRow(new.row, TargetPage(new.row, new.tid[1]))
    /\ pending' = Tail(pending)
    /\ phase' = "delete"
    /\ UNCHANGED <<stmt, cursor, wrapped>>

StatementEnds ==
    /\ \/ stmt.kind = "insert" /\ pending = <<>>
       \/ stmt.kind = "update" /\ phase = "delete" /\ pending = <<>>
       \/ stmt.kind = "delete" /\ MatchesAhead = {}
    /\ Rest
    /\ UNCHANGED <<disk, wrapped>>

\* The row that is written next, and the page that PageAddItem accepts it on.
Writes(row, p) ==
    \/ /\ stmt.kind = "insert" /\ pending # <<>>
       /\ row = Head(pending) /\ p = TargetPage(row, cursor[1])
    \/ /\ stmt.kind = "update" /\ phase = "place"
       /\ row = Head(pending).row /\ p = TargetPage(row, Head(pending).tid[1])

\* The asserts on the size of the row, and on its being added to a new page.
RowTooLarge ==
    /\ \E row \in Rows, p \in 1 .. Len(disk) + 1 :
          /\ Writes(row, p)
          /\ \/ SizeOf[row] >= PageSize
             \/ p > Len(disk) /\ ~HasRoom(NewPage, SizeOf[row])
    /\ Rest
    /\ UNCHANGED <<disk, wrapped>>

\* PageAddItem writes the row over others, or over what lies behind the page: no
\* statement begins after that.
RowOverruns ==
    /\ \E row \in Rows, p \in 1 .. Len(disk) :
          Writes(row, p) /\ SizeOf[row] < PageSize /\ Sliver(disk[p])
    /\ wrapped' = TRUE
    /\ Rest
    /\ UNCHANGED disk

\* assert(tid.loc_num < num_locs): the id names a loc that its page has not got.
IdMissing ==
    /\ \/ /\ stmt.kind = "delete"
          /\ \E pos \in Live : IsNextMatch(pos) /\ TupleAt(pos).tid \notin Positions
       \/ /\ stmt.kind = "update" /\ phase = "delete" /\ pending # <<>>
          /\ Head(pending).tid \notin Positions
    /\ Rest
    /\ UNCHANGED <<disk, wrapped>>

\* The process ends and is started again; only the file is left.
Crash ==
    /\ stmt # NoStatement
    /\ Rest
    /\ UNCHANGED <<disk, wrapped>>

Work ==
    \/ InsertTuple \/ DeleteTuple
    \/ CollectUpdate \/ UpdateScanEnds \/ DeleteOldVersion \/ PlaceNewVersion
    \/ StatementEnds \/ RowTooLarge \/ RowOverruns \/ IdMissing

\* What the program does on an overwritten page is not modelled.
Overwritten == wrapped /\ UNCHANGED vars

Next ==
    \/ BeginInsert \/ BeginUpdate \/ BeginDelete
    \/ Work \/ Crash \/ Overwritten

\* ExecPlan calls get_next_func until the statement ends: nothing else runs.
Spec == Init /\ [][Next]_vars /\ WF_vars(Work)

-----------------------------------------------------------------------------
TypeOK ==
    /\ ~wrapped =>
          \A p \in DOMAIN disk :
             /\ disk[p].span \in 0 .. PageSpan
             /\ \A l \in 1 .. NumItems(disk[p]) :
                   disk[p].items[l].item.row \in Rows
    /\ stmt.kind \in {"none", "insert", "update", "delete"}
    /\ phase \in {"scan", "delete", "place"}
    /\ wrapped \in BOOLEAN

\* The file has no more pages than a tuple id can number.
Numbered == Len(disk) <= TidPages

\* UpdateScan and DeleteScan delete a row by the self_tid stored in it.  The id
\* names the loc that carries it, and still does so in a dead old version of
\* an updated row (storage.h:47 has it point to the next version there), until
\* the file has more pages than the 16 bits of page_num tell apart; from then on
\* some row carries the id of another loc.
SelfTidIsHome ==
    ~wrapped => (Numbered <=> \A pos \in Positions : TupleAt(pos).tid = pos)

\* What UpdateScan collected stays valid until it is written: placing new
\* versions never moves, changes or kills an old version that is still to be
\* replaced, although the new versions go into the pages that were scanned.
\* Each listed row is what SET makes of the live row that its id names.
PendingStillThere ==
    (~wrapped /\ Numbered /\ stmt.kind = "update" /\ phase # "place") =>
        /\ \A i \in DOMAIN pending :
              /\ pending[i].tid \in Live
              /\ pending[i].row = stmt.set[TupleAt(pending[i].tid).row]
        /\ \A i, j \in DOMAIN pending : i # j => pending[i].tid # pending[j].tid

\* Every statement comes to an end, wrapped ids or not: an UPDATE whose new
\* versions land ahead of its own scan does not chase them.  Excused is the
\* one that overwrites a page.
StatementsEnd == (stmt # NoStatement) ~> (stmt = NoStatement \/ wrapped)

-----------------------------------------------------------------------------
\* The rows at a set of positions, as a multiset.
CountsAt(positions) ==
    [r \in Rows |-> Cardinality({pos \in positions : TupleAt(pos).row = r})]

\* The rows that the running statement has still to take out or to insert.
Todo ==
    CASE stmt.kind = "none" -> CountsAt({})
      [] stmt.kind = "insert" ->
            [r \in Rows |-> Cardinality({i \in DOMAIN pending : pending[i] = r})]
      [] stmt.kind = "delete" -> CountsAt(MatchesAhead)
      [] stmt.kind = "update" ->
            LET replaced == IF phase = "place" THEN {1} ELSE {}
                listed   == {pending[i].tid : i \in DOMAIN pending \ replaced}
            IN  CountsAt(listed \cup (IF phase = "scan" THEN MatchesAhead ELSE {}))

Abstract ==
    INSTANCE RowStore WITH
        counts <- CountsAt(Live),
        job    <- IF stmt.kind = "none" THEN "idle" ELSE stmt.kind,
        todo   <- Todo,
        set    <- IF stmt.kind = "update" THEN stmt.set ELSE [r \in Rows |-> r],
        hand   <- IF phase = "place" THEN <<Head(pending).row>> ELSE <<>>

\* Up to the step that writes to a page without room, or to a page that no id can
\* number, the file takes the steps of the row store.
Intact == ~wrapped /\ Numbered

KeepsPromise ==
    Intact' => /\ Abstract!Next \/ UNCHANGED Abstract!vars
               /\ StatementEnds => Abstract!Finish

\* A statement changes exactly the rows it should, each once, whatever pages
\* its own writes fill on the way; a crash between two page writes loses at
\* most the row that an UPDATE had deleted and not yet written again. A statement
\* that comes to its own end has nothing left to do.
ImplementsRowStore == Abstract!Init /\ [][KeepsPromise]_vars
=============================================================================
