# btdb: models, checks and proofs

btdb is a small relational database in C: one process, one thread, one SQL statement at a
time, tables and indexes in files of 8 KiB pages under `data_dir`. There is no log and no
transaction; every page write is followed by `fsync` and is seen after a restart. This
directory holds TLA+ modules of its storage, its statements, its types and its executor, TLC
configurations that check them, and proofs for TLAPS. Source references are to `src/` of the
repository.

## 1. Inventory

| component | code | state | operations |
|---|---|---|---|
| Slotted page | `storage.c` 359-480, `storage.h` 77-109 | header (lower, upper, special offsets), loc array, item bytes | `PageInit`, `PageAddItem`, `PageAddItemAt`, `PageGetItem`, `PageDeleteItem`, `PageRemoveLoc` |
| Heap file | `storage.c` 482-598 | the pages of a table, a cursor | `CursorInit`, `CursorSeekNext`, `CursorInsertTuple`, `CursorDeleteTupleById`, `CursorUpdateTupleById` |
| Row statements | `plan.c` 148-246 | insert list, collected new versions | `InsertScan`, `UpdateScan`, `DeleteScan` |
| Storage manager | `storage.c` 600-702 | open files by relation id | `SMOpen`, `SMCreate`, `SMRead`, `SMWrite`, `SMNumPages` |
| System catalog | `storage.c` 51-152, 192-245, 344-357, 708-852 | `TableDefs`, `IndexDefs`, the catalogs `reltabledef` and `indexcatalogtabledef` | `InitSystemTables`, `CreateTable`, `CreateBTreeIndex`, serialisation |
| B-tree | `storage.c` 854-1171 | meta page, chain of leaf pages with high keys and right links | `BTreeReadOrCreateRootPageId`, `GetInsertionIdx`, `BTreeIndexInsert` |
| Index scan | `storage.c` 1173-1248, `plan.c` 110-146 | page and slot of the cursor, search key | `IndexCursorInit`, `BTreeFirst`, `BTreeGetNext`, `IdxScan` |
| Executor of SELECT | `plan.c` 67-108, 248-407, `apps/btdb.c` 22-42 | a tree of iterators | `SequentialScan`, `NestedLoopScan`, `SortScan`, `GetResult`, `ExecPlan` |
| Planner | `plan.c` 409-649 | none | `PlanJoin`, `PlanQuery` |
| Analyzer | `analyzer.c` | none; it annotates the parse tree with `op_func`s and a flat list of definitions | name resolution, `CheckType`, `AnalyzeJoinList`, a check per statement |
| Expressions, data types | `plan.c` 12-65, `types.c` | none | `EvalExpr`, comparisons, `int32_t` arithmetic |
| Tuples | `storage.c` 28-49, 192-357, 772-846 | length, `self_tid`, NULL bytes, `DataLoc`s and data in one block | `MakeTuple`, `SetCol`, `GetCol`, `GetColByIdx`, `CopyTuple`; text forms of definitions |
| Parser, parse tree, shell | `parser.y`, `scanner.l`, `node.c`, `apps/` | none that lasts | a parse tree per statement; the read-evaluate-print loop |

How they interact. `main` reads a statement, the analyzer checks it against `TableDefs`, and
either `ExecuteUtilityStmt` runs it (CREATE TABLE, CREATE INDEX) or `PlanQuery` makes a plan
tree that `ExecPlan` pulls tuples from. All plan nodes reach the disk through cursors, which
read and write whole pages by a relation id; `SMOpen` turns the id into a file name through
the position in `TableDefs`. An index is a file of the same kind, made through `CreateTable`,
whose entries point into the table by tuple id (page and loc number).

What is hard here. Nothing runs concurrently; what interleaves with a statement is the end of
the process (a crash, or one of the many asserts) between two page writes, and a restart on
what is left. The rest are long sequences of legal calls: statements that scan what they
write; ids that must not change while others point to them; arithmetic on offsets in 16 bits;
splits whose bookkeeping depends on the sizes of all items; iterators that are started again;
and checks made on one structure for what is later done on another: the analyzer looks a
column up in a list of definitions, the executor by its name in the tuple at hand.

What makes each component correct:

* page: items never overlap, survive every operation on their neighbours, no free space gets
  lost; ids are stable under deletes;
* heap file: the id stored in a row names the row; each statement changes the rows it found
  at its start, each once, and ends; a crash loses no more than one row in flight;
* catalog: rows number the tables; what was created is found again after any restart;
* B-tree: entries in order along the chain, each row one entry, every page in reach;
* index scan: the rows that a sequential scan would return, in the order of the keys;
* executor: the tuples that SQL means, each once, in the order asked for, with an index or
  without;
* analyzer and expressions: a well-typed statement succeeds, whatever is let through leaves
  typed rows, and what is printed is what was asked for;
* tuples: a column reads as the value it was last given, and no copy leaves its block.

## 2. Modules

| module | contents |
|---|---|
| `SlottedPage` | a page as an array of bytes with `uint16_t` header and locs; one action per page function, with the unsigned arithmetic of the code |
| `PageSpec` | the promise of a page: a sequence of items, dead or not |
| `SlottedPageProofs` | the proofs about `SlottedPage` |
| `SequenceLemmas` | lemmas on sequences, folds and least elements, for all proofs |
| `ItemPage` | the same promise as operators (`AddItem`, `AddItemAt`, `DeleteItem`, `RemoveLoc`, `FirstFit`, ...), used by the modules that work on many pages |
| `HeapFile` | one table and its INSERT, UPDATE and DELETE, write by write |
| `RowStore` | the promise of a table: a multiset of rows, changed row by row |
| `HeapFileProofs` | the proofs about `HeapFile` |
| `Catalog` | the catalogs, their bootstrap and load, CREATE TABLE, CREATE INDEX |
| `CatalogProofs` | the proofs about `Catalog` |
| `BTree` | the build of an index, split by split and write by write |
| `IndexScan` | `EXTENDS BTree`: later inserts and deletes, and SELECTs that use the index, finished or cut short |
| `IndexScanProofs` | the proofs about `BTree` and `IndexScan`: one leaf (its span, where a key goes, what a split makes of it), the chain of leaves, the steps of the build, the scans |
| `Select` | scans, index scans, nested loops, sort and result of a SELECT, call by call, and `ExecPlan` |
| `SelectProofs` | the proofs about `Select` |
| `Types` | data, operators, two's complement arithmetic up to a given `IntMax`, evaluations that end the process |
| `Analyzer` | `EXTENDS Types`: `CheckType` and the checks of every statement, in the order in which they fail |
| `Session` | `EXTENDS Analyzer`: `EvalExpr`, the effect of every statement on rows and output, the end of the process and its restart |
| `SessionProofs` | the proofs about `Session`, with `Types` and `Analyzer` |
| `TupleSpec` | the promise of a tuple: a row of values and an id |
| `TupleLayout` | a tuple as a block of bytes, `SetCol`'s loop column by column |
| `TupleLayoutProofs` | the proofs about `TupleLayout` |
| `MC*` | the instances for TLC |

`SlottedPage` is shown to implement `PageSpec` (`INSTANCE PageSpec WITH ...`), `HeapFile` to
implement `RowStore`, `TupleLayout` to implement `TupleSpec`. `ImplementsRowStore` also says
that a statement that ends, and is not cut short, has had its whole effect (`Finish`).
`HeapFile`, `Catalog` and `BTree` stand on `ItemPage`, which is the abstraction that the first
refinement justifies as long as no item is accepted on a page without room for it. A page with
fewer than `LocSize` bytes free, a *sliver*, accepts every item (`ItemPage!Fits`, finding 1), and
what the bytes are then is for `SlottedPage` to say. `HeapFile` and `Catalog` reach slivers in their
instances: the step that accepts a row on one is `RowOverruns` or `CatalogOverruns`, sets
`wrapped` and is the last step that is modelled, and the properties are about all that comes before
it. `BTree` assumes sizes that leave no slivers (`SliverAssumption`); `Catalog` only counts the rows of
a default table and the entries of an index, and thus assumes the same of their pages.

### State and actions against the code

*SlottedPage.* `freeLower`, `freeUpper`, `locs` and `mem` are the header and the contents of
one page; `mem[k]` says what byte k holds (nothing, part of the loc array, which byte of which
item) rather than its value. `PageSize` and `Reserve` are `PAGE_SIZE` and the argument of
`PageInit`. `PageAddItem`, `PageAddItemAt`, `PageDeleteItem` and `PageRemoveLoc` are the
functions; `PageRejects` is the return of `false`. The history variable `wrapped` says whether
an item was accepted while fewer than `LocSize` bytes were free.

*HeapFile.* `disk` is the file. `cursor`, `pending` and `phase` are the local state of the
statement: the cursor position, the rows still to insert or the collected new versions, and
where `UpdateScan` is. Each `WritePage` is a step: UPDATE is `CollectUpdate` per row, then
`DeleteOldVersion` and `PlaceNewVersion` per row. `RowTooLarge` is the failing
`assert(size < PAGE_SIZE)` or `assert(PageAddItem(...))` on a fresh page, `IdMissing` the failing
assert on a `loc_num` that its page has not got, which takes an id that has wrapped, and `Crash` the
end of the process anywhere. `RowOverruns` is the write to a page with a sliver of free space.
`TidPages` is how many pages the bits of `TupleId.page_num` can number, 65536 in the code.

*Catalog.* `files` says for every name what its file is (none, empty, heap, index) and how
many rows it has; `relRows` and `indexRows` are the catalogs on disk, `tableDefs` and
`indexDefs` what the process has in memory. A statement is the sequence of its effects on
disk (`todo`), so that `Stop` can come between any two. `FileExists` is `O_EXCL`,
`LoadAborts` the assert on a catalog that has fewer rows than the load needs.
`ParentIndexes` is the read of `table_def->index` through a pointer into an array that
`arrpush` may have reallocated: any value, when it has. `Parent` is used as the code uses it, as a
position: the loop that fills an index reads the file that the table at this position opens
(`Source`) with that table's columns, and `FillIndexAborts` is `GetCol`'s assert if it has not got
the column. `WithColumn` says which tables and indexes have it; an index has the columns of its table.
An index on an index is possible (the analyzer asks only that the name is known); reading an index as
a table finds its high keys beside its entries, so that more entries may be made than there were
(`KeysLeft`). `CatalogOverruns` is a row written to a page of `reltabledef` that has a sliver;
the pages of `indexcatalogtabledef` are not modelled, so that each row of it may be one that does.

*BTree and IndexScan.* `leaves` is the index file without its meta page, `root` the page id
there, `pending` the second page of a split. `rows` are the keys of the table in scan order,
and a row is its position. `Split` computes the split index as the loop of the code does,
from the sizes; `SplitAborts` is any of its asserts failing. `misplaced` remembers that a
split has put its tuple in the high key slot. A NULL key, a key of another type than the
table's first column, and a crash all end the build: `Cut`. In `IndexScan` `page`, `slot` are
the index cursor and `out` the rows returned. A cut index is in the catalog as any other, so
queries run on both; `scan = "crash"` is the step to a page that the split did not come to
write.

*Select.* A plan node is named by the part of the FROM clause that it was made from; the sort and
the result node have names of their own. `cur`, `needNew` and `noResult` hold the fields of each
nested loop, `pos` the cursor of each scan, `results`, `isSorted` and `next` the fields of the sort.
`step` is where the control is: a node is called, a node returns a tuple or NULL to its parent, or
the insertion sort compares two places. One action is what a node does between two such points
(`NestedLoopScan` is the call of the function of that name; `LeftReturns`, `RightReturns` and
`RightEnds` are what it does with the results of its children; `SortCollects`, `SortCompares` and
`SortEnds` are the parts of `SortScan`). `RestartRight` is the `init_func` of the right child: it
sets the cursors back and leaves the fields of the loops as they are (`InitChildren`). `out` is what `ExecPlan` has collected. A tuple names for each column the row it
came from, so that two tuples with the same values are still told apart and "each once" can be
said with sets; the values are looked up when an expression is evaluated. `indexed` says
whether there is an index on the column of the WHERE clause; `PlanJoin` then makes an `IdxScan`
of that table, wherever in the join tree it is. The index has one page here, with the order of
`GetInsertionIdx` and the ends of `BTreeGetNext`.

*Types, Analyzer, Session.* A datum is a type and a number; a text is its rank in the order of
`strcmp`. `Exprs` and `FromClauses` are the parse trees of a session with all their parts; the
parser makes a node of nodes it has made before, so that a tree has a `Height` and `CheckType`,
`EvalExpr`, `AnalyzeJoinList` and `ScanFrom` are recursive functions on these sets. `CheckType` gives a type, `"unknown"` (the statement is rejected) or `"panic"`;
`OpFunc` is the function that `CheckType` has chosen, called on what `EvalExpr` brings, so that
a wrong choice shows as the end of the process. `tables` are `TableDefs` with their rows. One
action is one statement: it is rejected, done, or has died with the rows it had written by
then (`ExecInsert`, `ExecDelete`; `ExecUpdate` collects first). The order of rows after an
UPDATE is that of a table of one page. `Prompt` is the next turn of `main`'s loop, `Restart` a new
process. `lucky` stands for what lies behind the array that `AnalyzeInsertStmt` reads when there
are more values than columns.

*TupleLayout.* `tuple` and `new` are blocks: `length`, `tid`, `nulls`, `locs` and `data`, a
function on offsets. `DataStart` is what `GetDataPtr` adds. `BeginSetCol` is `SetCol` up to its
loop, `CopyColumn` a turn of it, with `i` and `curOffset` its variables, `EndSetCol` the return
and the assignment at the caller. `CopyTuple` cuts the block to its `length`, as writing to a
page and reading back does.

## 3. Runs

| run | shows |
|---|---|
| `HeapPage` | `TypeOK`, `IntactUnlessWrapped`, `TupleIdsStable` of a heap page with sizes that leave slivers of free space |
| `IndexPage` | `PageSound`, `ImplementsPageSpec` of an index page (with reserved space), for every order of adds, inserts at a position and removals |
| `SliverPage` | *violation*: `PageAddItem` accepts an item without room for it when fewer than 6 bytes are free |
| `HeapFile` | `SelfTidIsHome`, `PendingStillThere`, `ImplementsRowStore`, `StatementsEnd` |
| `Catalog` | `RowsNumbered`, `MadeTablesOpen`, `IndexHasTable`, `IndexNamesItsParent`, `IndexWithinTable`, with restarts anywhere |
| `CatalogOrder` | *violation*: catalog rows are not in index order |
| `BTree` | `EntriesSound`, `ChainCoversFile`, `InsertsOneEntry` of the build, `ForwardScanComplete`, `ScanSound`, `CrashExplained`, `ScanEnds` of the scans, on finished and on cut indexes |
| `BTreeLost` | *violation*: a split makes a row disappear from the index |
| `Joins` | `ResultsSound`, `ResultsComplete`, `SortedOutput`, `AbortsExplained`, `IndexHarmless`, `QueryEnds` of every join tree of up to three tables, with and without an index |
| `JoinAborts` | *violation*: a join as the right child of a join is not restarted properly |
| `Session` | `PrintedTyped`, `PrintedIsEvaluated`, `StrictStatementsSucceed`, `UpdateSimultaneous`, `EffectsOfDeath` of sessions of all statements but CREATE INDEX |
| `TupleLayout` | `LayoutSound`, `CopyInBlock`, `ImplementsTupleSpec` for every sequence of changes to a tuple of three columns |

Bounds and why they are enough.

* Pages: a page of a few items' worth of bytes, with items of two and three sizes. That makes
  every alignment of item against free space occur, including exact fits and slivers of 1 to
  5 bytes. The proofs cover the real sizes.
* `HeapFile`: three rows (short, long, larger than a page), statements with every WHERE (a set
  of row values) and SET (a function on rows), INSERTs of one or two rows. `MaxPages` bounds
  the length at which a statement other than DELETE may begin, so that updates spill to new
  pages and new versions land behind, on and before the page of the scan. `TidPages = 2`: a
  file with a third page has ids that wrap, on which UPDATE and DELETE go on. A page of 31 free
  bytes with a short and a long row (2 and 12 bytes) has 5 bytes left, a sliver.
* `Catalog`: a page of `reltabledef` (47 bytes) takes the four default rows (2 bytes and a loc each)
  and one or two more, so that a new page, a back fill and an overrun happen: what is left over
  is 7 or 5 bytes, according to the rows. `MaxDefs = 7` passes the reallocation of `TableDefs` at
  four entries; a user table has the name an index would get. All tables but `b` and the catalogs
  have the indexed column, so that an index can be filled from a wrong table and can fail to be.
  `MaxMisread = 3` bounds the entries made from an index that is read as a table.
* `BTree`: keys 1 to 3 of three sizes (2, 26 and 10 bytes on pages of 63, so that one of them
  takes half a page with its loc), six rows: up to three leaves, splits of the root, of a
  middle and of the last leaf, each with the new key on either side, splits that leave a page
  without keys, and splits that fail. `IndexScan` lets one row come and one go after
  CREATE INDEX: no action of a scan reads either, so more would show nothing else.
* `Select`: tables with none to two rows, equal values and a NULL: with a second row of its left
  child a nested loop starts its right child again; all trees the grammar
  builds from three tables (`MCSelect` explains which), with and without an ORDER BY on either
  end, without a WHERE or with one for each direction of an index scan, on the first and on the
  last table.
* `Session`: ints from -4 to `IntMax = 3`, so that sums and products overflow, the least int is divided
  by -1 and a comparison of wrapped values differs; the tables of the bootstrap and one or none
  that the session makes; no INSERT on a table with more than `MaxRows = 1` rows, so that tables
  have up to three. The statements are chosen so that each check of the analyzer fails for
  one of them and each clause is met with operands of equal, of different and of no type.
* `TupleLayout`: three columns (a first, a middle and a last one), values of one, two and three
  bytes and NULL. The proofs cover every number of columns and every value.

Deadlock is checked in `HeapFile`, `Catalog`, `Session` and `TupleLayout`, where there is always
a next statement (`Overwritten` is the stutter of a file that a row has overwritten), and not where the system may rest: a page that wrapped is not used any further, an index whose
build was cut and a query that has ended stay as they are.

Fairness. `HeapFile` assumes weak fairness of `Work`, `IndexScan` of `Scan`, `Select` of `Next`. They
stand for the loop in `ExecPlan` and `main`, which run one statement to its end without waiting for anyone.
Nothing is assumed of the user, of crashes, or of the build of an index.

Conditions in properties. `IntactUnlessWrapped` is about pages that have not accepted an item
without room; what happens otherwise is `SliverPage`. The properties of `HeapFile` and `Catalog`
end with the row that does so (`wrapped`). `SelfTidIsHome` has no condition on ids: it says that they
are right if and only if the file is `Numbered`; `PendingStillThere` and `ImplementsRowStore` are about
such files, `StatementsEnd` about all of them. `MadeTablesOpen` and `IndexWithinTable`
end with the first back filled catalog row, which is `CatalogOrder`; `MadeTablesOpen` also says which
crash makes every later start fail: one before a second table was made. `IndexWithinTable` leaves
out an index that was pushed when `TableDefs` moved, which is filled from any table that has the column,
and an index on an index. `EntriesSound` and the scan property end
with the first misplaced tuple, which is `BTreeLost`. `ForwardScanComplete` is about `=`, `>`
and `>=` with a boundary that the root page decides; the other scans return fewer rows than
they should (section 4), and for them `ScanSound` says that they return nothing wrong. It also
asks that no page but the root was left without keys (`NoKeylessPage`, section 4).
`ResultsComplete` and `IndexHarmless` leave out backward scans for the same reason, and
`IndexHarmless` outer joins, for which it does not hold. `IndexNamesItsParent` leaves out an index
whose own entry made `TableDefs` move, and is about positions until the first back filled row. `StrictStatementsSucceed` is about statements that a
stricter analyzer would let through (`Strict`): operands of one type, names that the tuple at
hand has, no NULLs, no division, and no join as the right child of a join.

## 4. Findings

Each has a run that shows it and the line that says otherwise quoted in `PROJECT.json`.

1. `SliverPage`: `PageAddItem` with fewer than 6 free bytes: an unsigned difference wraps, and the
   item overwrites the loc array or the header (`storage.c:384`, and the TODO at
   `storage.h:105`).
2. `CatalogOrder`: the catalogs are loaded by position and written first-fit (`storage.c:123` and
   `516`).
3. `BTreeLost`: a split can store its tuple in the high key slot of the new page
   (`storage.c:1053`, `1111`).
4. `JoinAborts`: `a join b ... right join c ...` ends the process as soon as `c` has two rows and
   `a` and `b` one (`plan.c:67-75`, `299-305`).
5. `HeapFile`, `SelfTidIsHome`: the comment at `storage.h:47` (and the TODO at `storage.c:881`) has the
   `self_tid` of an updated tuple point to its next version. The code writes it once, when the tuple
   is placed, and it is always the place of that tuple, in dead old versions too (`storage.c:559`).
6. `HeapFile`, `SelfTidIsHome`: tuple ids have 16 bits for the page number, page ids 64. Ids wrap on
   page 65536 (`storage.c:523`), and from there on some row carries the id of another place, against
   the same comment; UPDATE and DELETE kill what lies there.

Seen in the code while modelling it, part of the models, and without a run of their own since
no line of the repository says otherwise:

* Index scans return fewer rows than sequential scans: `<` and `<=` skip the first key of the
  page and never leave it, `!=` starts at the value, no scan starts behind the root page
  (`storage.c:1189`, `1224`, `plan.c:455-472`), and an index is not maintained after CREATE INDEX.
* A split whose left half is to keep nothing but the new entry, and which puts that entry on the
  new page after all, leaves a page with no more than its high key (`storage.c:1087-1110`). A
  forward scan that comes to that page ends there and loses the rows behind it
  (`storage.c:1206-1222`). It showed when the proof of `ForwardScanComplete` failed without
  `NoKeylessPage`; the third key size of the instance makes it happen.
* `PlanJoin` uses an index below outer joins too: rows whose matches the WHERE clause removes are
  then extended with NULLs, and the WHERE clause ends the process on them (`plan.c:485`).
* An ON clause is checked against all definitions so far and evaluated on the tuple of its own
  join (`analyzer.c:414` says so): a column outside of it ends the process.
* A WHERE clause that is a bare column passes the analyzer and fails the assert at
  `plan.c:444`; a condition that is NULL fails those on its value.
* Both operands of an operator are not compared in type: the assert is in the operator
  (`analyzer.c`, `CheckType`).
* The column list of an INSERT is checked for existing names and otherwise ignored; the values
  go to the columns of the table in their order.
* CREATE TABLE takes two columns with one name, of which only the first is ever used
  (`analyzer.c:631`). If their types differ, a value of the second type passes the check of its
  place and is stored in the first column: `create table t (n int, n text)` and an INSERT of an
  int and a text put the bytes of the text where `GetCol` reads an int.
* A bootstrap or a CREATE TABLE that was cut short blocks later starts (`storage.c:126`) or later
  statements (`storage.c:627`); `table_def->index` is read through a pointer into an array that
  may have moved (`storage.c:754`).
* The parent of an index is its table's index to the planner (`plan.c:481`) and a position in
  `TableDefs` to CREATE INDEX (`storage.c:851`): when the two differ, the index is filled from
  another table if that one has a column of the name, and the process ends if not.
* CREATE INDEX takes the name of an index as that of a table, and reads its pages as rows.

## 5. Proofs

### Slotted pages

`SlottedPageProofs` is about `SlottedPage` for every page size up to 65535, every reserve and
every set of items with positive sizes:

* `TypeCorrect`: `Spec => []TypeOK`;
* `LayoutSound`: `Spec => []IntactUnlessWrapped`;
* `TupleIdsKept`: `Spec => TupleIdsStable`, the action property of heap pages;
* `Refinement`: as long as no item is accepted without room, every behaviour of the page is
  one of `PageSpec`.

The inductive invariant is `TypeOK /\ IntactUnlessWrapped`. `IntactUnlessWrapped` says of an
unwrapped page that the loc array ends where the free space begins (`LocArrayFits`), that all
items lie in the data area, are disjoint and have their own bytes, that the loc array's bytes
are its own, and that the sizes of the items add up to the data area (`NoSpaceLeak`). None of
these is inductive alone: that `PageAddItem` keeps the items needs the free space to be free,
which needs the locs and the items to be inside their areas, and `PageRemoveLoc`, which moves
all bytes below the removed item and corrects the offsets below it, keeps the areas only
because there is no gap and no overlap. The proof has a lemma per page function and per
conjunct; the one on `PageRemoveLoc` is the longest. The sum of the sizes is kept as an equation
between offsets, so that no induction over sequences is needed.

### Tuples

`TupleLayoutProofs` is about `TupleLayout` for every number of columns, every size of the header
and every set of values:

* `TypeCorrect`: `Spec => []TypeOK`, which includes that each `DataLoc` lies inside of the block;
* `LayoutAlwaysSound`: `Spec => []LayoutSound`, the data are contiguous and counted by `length`;
* `CopyStaysInBlock`: `Spec => []CopyInBlock`;
* `Refinement`: `Spec => ImplementsTupleSpec`, without a condition.

Its inductive invariant `IInv` adds three facts to `TypeOK /\ LayoutSound`. `Ordered` says of any
two columns, not only of neighbours, that the data of the first end before those of the second
begin; it follows from `LayoutSound` by induction over the columns, and is an invariant of its
own because its steps are simpler than that induction. Outside of `SetCol` the loop's variables are at their start.
Inside, `Copying` says that `curOffset` is where the next column goes (`NewOffset`: the old offset,
and behind the changed column the growth of the data on top), that the new block is as long as
the old one and the growth, and that the columns before `i` are in the new block already. That
a turn of the loop keeps the columns written before it needs that it writes behind them, and
that it stays in the block needs that `NewOffset` of the end is the new size: both are in the
lemma `NewOffsets`.

### `HeapFile`

`HeapFileProofs` is about every set of rows, all row and page sizes, slivers included, and every
bound, without a premise:

* `TypeCorrect`: `Spec => []TypeOK`, no page is overfull until a row is written without room for it;
* `IdsAreHome`: `Spec => []SelfTidIsHome`;
* `ListedStillThere`: `Spec => []PendingStillThere`;
* `Refinement`: `Spec => ImplementsRowStore`.

What limits them is said in the properties. `Numbered`, that the file has no more pages than a
tuple id can number, is a condition of `PendingStillThere` and of the refinement because beyond
`self_tid` takes the low bits of the page id (`storage.c:523`) and an UPDATE deletes another row; that
it is exactly the condition is `SelfTidIsHome`, whose proof from right to left needs that every page of
the file but the first has an item (`PagesInUse`), so that an unnumbered page has a row with a wrong id.
`ImplementsRowStore` says that every step is a step of the row store, or none for it, if it leads
to a file that is `Intact` (numbered, and no row written without room); pages are never removed, so
all steps before it were such too.

`PendingStillThere` alone is not inductive. `ListOK` says of every id on an UPDATE's list that
it is a position of the file, behind the scan (while the scan lasts), live until its turn
comes, that the version listed for it is what SET makes of the row that lies there now, and that
no id is listed twice. That is what makes placing a version of one row harmless to the ones still
listed. The refinement counts rows: the table is the bag of its live rows, and each step changes
the number of positions with a given row by one or by none, from cardinalities of finite sets
(`IsFiniteSet(Positions)` is part of the invariant for that).

### `Catalog`

`CatalogProofs` has the run's six invariants as theorems, without a further hypothesis, for every
set of tables, all row and page sizes, every choice of the tables that have the indexed column, every
length of `TableDefs` and every bound; the names of different tables and indexes need not even differ:

* `TypeCorrect`: `Spec => []TypeOK`;
* `RowsAreNumbered`, `IndexesHaveTables`, `IndexesNameTheirParents`, `MadeTablesAreThere`:
  `Spec => []P` of `RowsNumbered`, `IndexHasTable`, `IndexNamesItsParent`, `MadeTablesOpen`;
* `IndexesStayWithin`: `Spec => []IndexWithinTable`.

All but `TypeOK` are about the states before a row has overwritten a page (`wrapped`), and after that
step the model stands still.
The invariant relates three copies of one
list: the pages of `reltabledef`, `TableDefs`, and the rest of the statement that runs
(`todo`), because a table is in `TableDefs` before its row is on disk, and only `todo` tells
whether the row is still to come (`RowPending`). `StatementOK` says which step may
follow which (a file is created, gets its first page, and then its row; an index has its row
before the index catalog names it) and what is on disk before each. `DiskOK` and `IndexesOK`
are what is left of this when the process stops, and thus what the next load starts from.
That a load which fails can only follow a bootstrap cut short before its second table
(`MadeTablesOpen`) is `FirstOK`: the first row ever written is that of `reltabledef`, so that with
fewer than two rows no other table was made.

`IndexWithinTable` is not inductive on its own. The loop of CREATE INDEX adds an entry for each
row that it finds at the position which `indexDefs` names, so it stays within the table only if that
position is the table of the index (`LastIndexIs`: the row in `IndexDefs` that the loop goes by is
the one of its step; `AtItsPosition`: without a back filled row an index is a position), and if the
file had nothing in it when the loop began.
`EmptyOK` says that a file without its first page has no rows; `FreshOK` that the file of the
statement that runs has none before its loop, that the rows of the default tables go to a heap
file and those of the loop to an index. `Within` says it of all indexes but the `Excused`.

### Slotted pages that cannot wrap

`GranularSound` and `GranularRefinement` are the theorems on
`SlottedPage` without the condition on wrapping, for pages on which every item with its loc takes
a multiple of some `g` bytes and the first span leaves a remainder of at least a loc (`Granular`).
Rows of one width are such a case: a row of one INT takes 45 + 6 bytes, and 51 leaves 23 of the
8183 bytes of a heap page. `BTree` states the same premise as `SliverAssumption`; `HeapFile` and
`Catalog` do without it, and end with the first item on a sliver.

### The index

`IndexScanProofs` is about `IndexScan` (build, later changes of the table, scans) for every set
of keys, all entry sizes and every number of rows, under the three assumptions of `BTree`: the
types of the constants, the empty high key of a new page fits and is not larger than any key
(`EmptyKeyAssumption`), and no page is left with a sliver (`SliverAssumption`).

* `TreeTyped`: `Spec => []TreeTypeOK`;
* `ChainCovers`: `Spec => []ChainCoversFile`;
* `EntriesAreSound`: `Spec => []EntriesSound`;
* `OneEntryMore`: `Spec => InsertsOneEntry`, an action property;
* `OnlyMisplacedLose`: `Spec => [](~misplaced => EveryRowIndexed)`: finding 3 is the only way
  in which a finished build loses a row;
* `CrashesExplained`: `Spec => []CrashExplained`;
* `ScansAreSound`: `Spec => []ScanSound`, forwards and backwards, finished index or cut;
* `ForwardScansComplete`: `Spec => []ForwardScanComplete`.

There are three layers of invariants, and each was checked by TLC on the instance before it was
proved.

1. `TreeInv`: all pages are sound, and there is an `Order` of them, a permutation that begins
   at the root and in which each is linked to the next. During a split its new page counts as
   written; after a cut one page at some place `z` may be missing. The permutation is named by an
   existential quantifier: a split puts one page number into it, and what the chain is as
   the recursive function that follows the links is a lemma.
2. `EntriesInv`: unless a split misplaced its entry, the entries along the chain are sorted, of one
   row each, complete unless the build was cut, and `HighsFit`: the high key of a page is no
   greater than the keys of all pages behind it. `EntriesSound` is not inductive without
   `HighsFit`. The descent stops at the first page whose last key or high key is not less than
   the new key, and that its place there is its place among all entries needs the bound on
   what comes behind.
3. `ScanInv`: the rows returned are of selected entries at strictly rising (or falling) places
   (`Returned`), and the cursor stands at a place up to which a forward scan has left out none of
   them but those less than the boundary (`Reached`). `Layout` gives the number of entries
   before each page, so that a page and a slot are a place.

Sums, flattened sequences and chains are folds and recursive functions, and statements about them
for every length need an induction. It is done without an operator as a parameter: `NatMin` gives
the least element of a set of numbers, `InductionFrom` derives induction over a set from it, and
a fold is given as an explicit function that satisfies its equations (`FoldExists`, `FlattenIs`,
`SpaceIs`).

### Statements, values and types

`SessionProofs` proves all six properties of the run `Session`, for all tables of the bootstrap,
all statements, and ints of any width:

* `TypeCorrect`: `Spec => []TypeOK`;
* `PrintedTypes`: `Spec => []PrintedTyped`;
* `PrintedEvaluated`: `Spec => []PrintedIsEvaluated`;
* `StrictSucceed`: `Spec => StrictStatementsSucceed`;
* `UpdateCorrect`: `Spec => UpdateSimultaneous`;
* `DeathExplained`: `Spec => EffectsOfDeath`.

They have one hypothesis, `OneTypeAName`: no CREATE TABLE of the session gives two of its columns
one name and different types. The code does not check it (section 4), and without it `TypeOK` is
false. The assumptions of the modules are the types of the constants, that parse trees are finite
(`ParseTreesAssumption`), and that the tables of the bootstrap are typed.

`TypeOK` is not inductive. That a value which `CheckType` accepted has the type of its column
needs that the two look-ups agree: `CheckType` takes the last definition of the join list that has
the name, `EvalExpr` the tuple's own. `TablesOK` is the invariant that makes it so: columns of one
name have one type in all tables (what `AnalyzeCreateTableStmt` enforces for new names), and each
row is typed by its table. From it `SameTypes` holds between all definitions of a join list, and
the main lemma is by induction over an expression: if `CheckType` gives it a type then `EvalExpr`,
on a typed tuple, gives NULL, the end of the process, or a datum of that type (`Typed`). The
same induction over a FROM clause gives typed rows to every tree of joins. Both inductions are
`TreeRecursion` in `SequenceLemmas`, which gives the value of a function that recurs along a
height, and `NatMin` for the least tree that would be wrong.

`PrintedTyped` and `PrintedIsEvaluated` are about the last statement only, so that the step that
answers a SELECT establishes them (`OutputOK`) and every other step ends or keeps the answer.
What has to be shown is that values which travel by the names of columns arrive: targets with equal
names are equal targets, because an invented name has a `?` and a number of its own
(`InventedName` counts, so two of them differ) and a named column is its expression.

`UpdateSimultaneous` counts: the rows after an UPDATE are those it left and then those it changed,
and `Where` splits a sequence into two without losing an element; `Occurrences` of each row in the
two parts together are its occurrences in the sequence of meant rows. That the assignments of one
row take effect at once is the lemma on `SetCols`: the last assignment to a column decides.

`StrictStatementsSucceed` needs the reverse of `TypeOK`: not only that values have their types,
but that they are there. By induction over a clause that the strict types accept, every definition
of its join list that has a name gives it the type of the tuple's own definition (`Agrees`), no
tuple holds NULL (`NoNulls`), and nothing dies on the way.

### SELECT

`SelectProofs` is about `Select` for every number of tables, every contents of them, every FROM
clause that joins each table once, nested in any way, every WHERE and ORDER BY, and any choice
of indexes:

* `TypeCorrect`: `Spec => []TypeOK`;
* `Sound`: `Spec => []ResultsSound`;
* `Complete`: `Spec => []ResultsComplete`;
* `Ordered`: `Spec => []SortedOutput`.

The assumptions are those of the module: what FROM clauses the parser builds, and that a query names
columns of its own tables. The inductive invariant has four parts.

1. `TypeInv` types the variables: the tuple that a nested loop holds has the columns of its left
   child.
2. `ControlInv` says where the control is: at each node above the one that is called or returns,
   inside of the child which `need_new_left_tuple` says the node waits for; and a right
   child which its loop does not want has no left tuples below it that are not NULL (`Quiet`).
3. `Accounted`: there is a function `D` that gives for each node what it has yet to return in its
   present run (`DueInv`): for a scan the rows ahead of its cursor, for a nested loop what
   the rest of its right child makes of the present left tuple, the extension with NULLs if the
   present tuple had no match so far, and what all of the right child makes of the left tuples
   to come. A step of a node leaves `D` of all nodes as it is; when a parent takes a tuple it
   leaves `D` of that child (`Flight`), and a right child that is started again has all of its tuples
   due. On top of it `Account` says that every tuple which the WHERE clause keeps has been
   returned, is on its way or is pending, and in one of these places only. `ResultsSound` says
   no more than that nothing wrong was returned; it is not inductive, as it does not say that
   what is still to come is new. `no_result_for_cur_left_tuple` is reset by every call
   and not only by a new left tuple; that this does no harm is the part of `DueInv` on the extension.
4. `SortInv`: what the insertion sort has passed is in order, and during the pass for `i` the
   first `j - 1` places do not come after the tuple at `i`. Each exchange keeps the set and the
   number of the tuples (`Account` needs it).

That what a root gives in a run is what its FROM clause stands for is then a statement on
operators, by induction over FROM clauses (`FromInduction`, from `NatMin` over the number of
columns): without an index `All` of a plan is `Joined` of its clause (`PlanIsFrom`), and with
one, what the WHERE clause keeps of the one is what it keeps of the other (`KeptLoops`), below left
and right joins too, if no scan goes backwards. That is not so for single rows: a left join
over an index scan gives rows that the FROM clause does not stand for, and it is the
WHERE clause which removes them, since the column of the index is NULL in them.

### Only model-checked

* Liveness (`StatementsEnd`, `ScanEnds`, `QueryEnds`, and whatever asks that something is ENABLED): neither
  fairness nor ENABLED is in the prover's reach.
* `AbortsExplained` and `IndexHarmless`: they need, on top of `DueInv`, a count of the runs of every
  node of the plan.

## 6. What is not modelled

* The text forms of definitions in the catalogs: pure conversions, of names that hold no comma.
  The swapped arguments at `storage.c:827` give an index wrong `col_idxs` after a restart, which
  nothing reads.
* Splits and stale indexes below joins: the index in `Select` has one page and all rows,
  `IndexScan` is about the others. CREATE INDEX in a `Session`. Outer joins with values and
  types: `Session` has inner joins, `Select` all of them, on columns of one type.
* A crash between the catalog row of an index and its meta page, followed by a query on that
  index: `BTreeReadMetaPage` then reads the special area of a page that has none, and what it
  finds there is nowhere determined by the code.
* INSERT, UPDATE and DELETE on the catalogs, which the analyzer lets through.
* `StrCat`, `BoolNot` and `IntCmp`,
  which no statement reaches.
* Torn pages, I/O errors, files of 2 GiB (`storage.c:654` keeps an offset in an `int`).
* Builds with `NDEBUG`, in which `assert(PageAddItem(...))` inserts nothing.
* Scanner, parser actions, constructors of parse nodes, and the format of the output: they
  keep no state that a statement leaves behind.

## 7. Plan

1. Theorems about `IndexScan`: what a backward scan does return, which is all but the first of the
   keys of the root page that satisfy the WHERE clause.
2. `AbortsExplained`, with a count of the runs of each plan node as an existentially quantified
   function next to `D`, and `IndexHarmless` from it.
3. Which rows the statements of `HeapFile` can harm once ids wrap (`~Numbered`): the model has these
   steps, `TypeOK` and `StatementsEnd` cover them, and `SelfTidIsHome` only says that some id is wrong.
