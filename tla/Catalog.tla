------------------------------- MODULE Catalog -------------------------------
(***************************************************************************)
(* The system catalogs: reltabledef has a row for every table and index,   *)
(* indexcatalogtabledef one for every index.  Modelled are the bootstrap   *)
(* and the loading of the catalogs (InitSystemTables), CREATE TABLE and    *)
(* CREATE INDEX, as the sequence of their effects on disk, and the end of  *)
(* the process between any two of them.                                    *)
(*                                                                         *)
(* In memory a table is known by its position in TableDefs, and SMOpen     *)
(* opens the file named by the entry at that position.  On disk its index  *)
(* is a column of its row, and the row is wherever the first page with     *)
(* room was.  A page with less than a loc free takes any row (ItemPage's   *)
(* Sliver) and is overwritten: such a write is the last step modelled.     *)
(***************************************************************************)
EXTENDS ItemPage, FiniteSets, Functions

CONSTANTS RelTableDef, IndexTableDef,  \* the names of the two catalogs
          Foo, B,      \* the names of the default tables
          UserTables,  \* the names that CREATE TABLE is given
          IndexName,   \* [tables -> the name of an index on the table]
          SizeOf,      \* [Names -> size of the name's row in reltabledef]
          PageSpan,    \* the free span of an empty page
          WithColumn,  \* [tables -> the names of the tables and indexes that have
                       \* the column that an index on the table is made on]
          MaxDefs,     \* a bound on the length of TableDefs
          MaxMisread   \* a bound on the entries made from the items of an index

Tables == {Foo, B} \cup UserTables
Names == {RelTableDef, IndexTableDef} \cup Tables \cup Range(IndexName)

ASSUME NamesAssumption ==
    /\ DOMAIN IndexName = Tables
    /\ SizeOf \in [Names -> Nat \ {0}]
    /\ PageSpan \in Nat /\ \A n \in Names : SizeOf[n] + LocSize <= PageSpan
    /\ WithColumn \in [Tables -> SUBSET Names]
    /\ \A t \in Tables : {t, IndexName[t]} \subseteq WithColumn[t]
    /\ MaxDefs \in Nat /\ MaxMisread \in Nat

VARIABLES files,       \* what the file of each name holds
          relRows,     \* the pages of reltabledef
          indexRows,   \* the rows of indexcatalogtabledef
          tableDefs,   \* TableDefs
          indexDefs,   \* IndexDefs
          todo,        \* what is left to do of the statement or the bootstrap
          up,          \* the process runs
          made,        \* history: the names for which CreateTable() returned
          backfilled,  \* history: a row went to a page before the last
          wrapped      \* history: a row was written to a page without room for it

disk == <<files, relRows, indexRows>>
memory == <<tableDefs, indexDefs>>
vars == <<files, relRows, indexRows, tableDefs, indexDefs, todo, up, made, backfilled, wrapped>>

\* A file exists once it is opened with O_CREAT; SMCreate writes its first page,
\* BTreeMetaPageInit makes it an index.  rows counts the rows stored in it.
NoFile == [kind |-> "none", rows |-> 0]
FileKinds == {"none", "blank", "heap", "index"}

Row(name, index) == [name |-> name, index |-> index]
IndexRowSwapped(parent, table) == [parent |-> table, table |-> parent]
IndexRow(parent, table) == [parent |-> parent, table |-> table]

\* The rows of a file in the order in which CursorSeekNext finds them.
Scan(pages) == FlattenSeq([p \in DOMAIN pages |->
                              [l \in DOMAIN pages[p].items |-> pages[p].items[l].item]])

Defined(name) == \E i \in DOMAIN tableDefs : tableDefs[i].name = name
PositionOf(name) == CHOOSE i \in DOMAIN tableDefs : tableDefs[i].name = name
FindTableDef(name) == tableDefs[PositionOf(name)]

\* SMOpen(rel_id): the name of the file that it opens.
SMOpen(index) == tableDefs[index + 1].name

-----------------------------------------------------------------------------
\* The steps of the statements, one for each write that a crash can follow.
CreateTableStepsRowEarly(name) ==
    << [op |-> "create", name |-> name],
       [op |-> "tableRow", name |-> name],
       [op |-> "firstPage", name |-> name] >>
CreateTableSteps(name) ==
    << [op |-> "create", name |-> name],
       [op |-> "firstPage", name |-> name],
       [op |-> "tableRow", name |-> name] >>

CreateIndexStepsRowFirst(table) ==
    << [op |-> "indexRow", name |-> IndexName[table], of |-> table] >>
    \o CreateTableSteps(IndexName[table])
    \o << [op |-> "meta", name |-> IndexName[table]],
          [op |-> "fill", name |-> IndexName[table], of |-> table] >>
CreateIndexSteps(table) ==
    CreateTableSteps(IndexName[table]) \o
    << [op |-> "indexRow", name |-> IndexName[table], of |-> table],
       [op |-> "meta", name |-> IndexName[table]],
       [op |-> "fill", name |-> IndexName[table], of |-> table] >>

DefaultTableSteps(name) ==
    CreateTableSteps(name) \o
    << [op |-> "insert", name |-> name], [op |-> "insert", name |-> name] >>

BootstrapSteps ==
    CreateTableSteps(RelTableDef) \o CreateTableSteps(IndexTableDef) \o
    DefaultTableSteps(Foo) \o DefaultTableSteps(B)

-----------------------------------------------------------------------------
Init ==
    /\ files = [n \in Names |-> NoFile]
    /\ relRows = <<>> /\ indexRows = <<>>
    /\ tableDefs = <<>> /\ indexDefs = <<>>
    /\ todo = <<>> /\ up = FALSE
    /\ made = {} /\ backfilled = FALSE /\ wrapped = FALSE

Down ==
    /\ up' = FALSE
    /\ tableDefs' = <<>> /\ indexDefs' = <<>> /\ todo' = <<>>
    /\ UNCHANGED <<files, relRows, indexRows, made, backfilled>>

\* InitSystemTables without a reltabledef file.
Bootstrap ==
    /\ ~up /\ ~wrapped /\ files[RelTableDef].kind = "none"
    /\ up' = TRUE
    /\ todo' = BootstrapSteps
    /\ UNCHANGED <<disk, memory, made, backfilled, wrapped>>

\* InitSystemTables with one: it needs the first two rows.
CanLoad == Len(Scan(relRows)) >= 2

Load ==
    /\ ~up /\ ~wrapped /\ files[RelTableDef].kind # "none" /\ CanLoad
    /\ up' = TRUE
    /\ tableDefs' = Scan(relRows)
    /\ indexDefs' = indexRows
    /\ UNCHANGED <<disk, todo, made, backfilled, wrapped>>

\* The assert on the missing tuple, or the read of an entry that is not there.
LoadAborts ==
    /\ ~up /\ ~wrapped /\ files[RelTableDef].kind # "none" /\ ~CanLoad
    /\ UNCHANGED vars

Idle == up /\ todo = <<>>

\* AnalyzeCreateTableStmt refuses a name that is known.
CreateTable(name) ==
    /\ Idle /\ Len(tableDefs) < MaxDefs
    /\ ~Defined(name)
    /\ todo' = CreateTableSteps(name)
    /\ UNCHANGED <<disk, memory, up, made, backfilled, wrapped>>

\* AnalyzeCreateIndexStmt asks for the table only.
CreateIndex(table) ==
    /\ Idle /\ Len(tableDefs) < MaxDefs
    /\ Defined(table)
    /\ todo' = CreateIndexSteps(table)
    /\ UNCHANGED <<disk, memory, up, made, backfilled, wrapped>>

-----------------------------------------------------------------------------
IsNext(op) == up /\ todo # <<>> /\ Head(todo).op = op
Name == Head(todo).name
StepDone ==
    /\ todo' = Tail(todo)
    /\ UNCHANGED up

\* table_def->index = arrlenu(TableDefs), before the arrpush.
NewIndexOfLast == Len(tableDefs) - 1
NewIndex == Len(tableDefs)

CreateFileNotExclusive ==
    /\ IsNext("create")
    /\ tableDefs' = Append(tableDefs, Row(Name, NewIndex))
    /\ files' = [files EXCEPT ![Name] = [kind |-> "blank", rows |-> 0]]
    /\ StepDone
    /\ UNCHANGED <<relRows, indexRows, indexDefs, made, backfilled, wrapped>>
\* CreateTable as far as the open() in SMCreate.
CreateFile ==
    /\ IsNext("create")
    /\ files[Name].kind = "none"
    /\ tableDefs' = Append(tableDefs, Row(Name, NewIndex))
    /\ files' = [files EXCEPT ![Name].kind = "blank"]
    /\ StepDone
    /\ UNCHANGED <<relRows, indexRows, indexDefs, made, backfilled, wrapped>>

\* O_EXCL: the file is there already, an assert ends the process.
FileExists ==
    /\ IsNext("create")
    /\ files[Name].kind # "none"
    /\ Down /\ UNCHANGED wrapped

WriteFirstPage ==
    /\ IsNext("firstPage")
    /\ files' = [files EXCEPT ![Name].kind = "heap"]
    /\ relRows' = IF Name = RelTableDef THEN <<EmptyPage(PageSpan)>> ELSE relRows
    /\ StepDone
    /\ UNCHANGED <<indexRows, memory, made, backfilled, wrapped>>

\* CursorInsertTuple on reltabledef, from its first page on.
RowPage == FirstFit(relRows, 1, SizeOf[Name])
RowPageIsSliver == RowPage <= Len(relRows) /\ Sliver(relRows[RowPage])

InsertTableRow ==
    /\ IsNext("tableRow") /\ ~RowPageIsSliver
    /\ LET row == Row(Name, FindTableDef(Name).index)
       IN  relRows' = PutItem(relRows, RowPage, row, SizeOf[Name], PageSpan)
    /\ backfilled' = (backfilled \/ RowPage < Len(relRows))
    /\ made' = made \cup {Name}
    /\ StepDone
    /\ UNCHANGED <<files, indexRows, memory, wrapped>>

\* PageAddItem overwrites a page of a catalog.  The pages of the index catalog are
\* not modelled: any row may be the one that does.
CatalogOverruns ==
    /\ \/ IsNext("tableRow") /\ RowPageIsSliver
       \/ IsNext("indexRow")
    /\ wrapped' = TRUE
    /\ Down

\* A row of a default table.
InsertRow ==
    /\ IsNext("insert")
    /\ files' = [files EXCEPT ![SMOpen(FindTableDef(Name).index)].rows = @ + 1]
    /\ StepDone
    /\ UNCHANGED <<relRows, indexRows, memory, made, backfilled, wrapped>>

\* The arrpush in CreateTable reallocates TableDefs when it is full: at 4, 8,
\* 16... entries (stb_ds.h).  CreateBTreeIndex still reads table_def->index
\* from the old block, which may hold anything by then.
Full(length) == \E k \in 2 .. length : length = 2 ^ k

ParentIndexes(table) ==
    IF Full(Len(tableDefs) - 1) THEN 0 .. MaxDefs - 1 ELSE {FindTableDef(table).index}

InsertIndexRow ==
    /\ IsNext("indexRow")
    /\ \E parent \in ParentIndexes(Head(todo).of) :
           LET row == IndexRow(parent, Len(tableDefs) - 1)
           IN  /\ indexDefs' = Append(indexDefs, row)
               /\ indexRows' = Append(indexRows, row)
    /\ StepDone
    /\ UNCHANGED <<files, relRows, tableDefs, made, backfilled, wrapped>>

\* BTreeMetaPageInit replaces the first page.
WriteMetaPage ==
    /\ IsNext("meta")
    /\ files' = [files EXCEPT ![Name].kind = "index"]
    /\ StepDone
    /\ UNCHANGED <<relRows, indexRows, memory, made, backfilled, wrapped>>

\* ExecuteUtilityStmt's loop over the rows of IndexDefGetParentTableDef, which is
\* a position in TableDefs: the rows are read with the columns of the table at
\* that position, from the file that its index opens.
Parent == indexDefs[Len(indexDefs)].parent
ParentTable == tableDefs[Parent + 1].name
Source == SMOpen(tableDefs[Parent + 1].index)

RowsOf(name) ==
    CASE name = RelTableDef -> Len(Scan(relRows))
      [] name = IndexTableDef -> Len(indexRows)
      [] OTHER -> files[name].rows

RowsLeftOneMore == files[Name].rows <= RowsOf(Source)
RowsLeft == files[Name].rows < RowsOf(Source)

\* An index that is read as a table has high keys beside its entries.
KeysLeft ==
    /\ files[Source].kind = "index" /\ files[Source].rows > 0
    /\ files[Name].rows < MaxMisread

Filling == IsNext("fill") /\ Parent < Len(tableDefs)

FillIndex ==
    /\ Filling /\ (RowsLeft \/ KeysLeft)
    /\ ParentTable \in WithColumn[Head(todo).of]
    /\ files' = [files EXCEPT ![Name].rows = @ + 1]
    /\ UNCHANGED <<relRows, indexRows, memory, todo, up, made, backfilled, wrapped>>

FillIndexEnds ==
    /\ Filling /\ ~RowsLeft
    /\ StepDone
    /\ UNCHANGED <<disk, memory, made, backfilled, wrapped>>

\* A read behind the end of TableDefs, or GetCol's assert: the table at the
\* parent's position has not got the column.
FillIndexAborts ==
    /\ IsNext("fill")
    /\ \/ Parent >= Len(tableDefs)
       \/ /\ Filling /\ (RowsLeft \/ KeysLeft)
          /\ ParentTable \notin WithColumn[Head(todo).of]
    /\ Down /\ UNCHANGED wrapped

\* The user leaves, or the process ends in the middle of a statement.
Stop == up /\ Down /\ UNCHANGED wrapped

\* What the program does with an overwritten catalog is not modelled.
Overwritten == wrapped /\ UNCHANGED vars

Next ==
    \/ Bootstrap \/ Load \/ LoadAborts
    \/ \E n \in UserTables : CreateTable(n)
    \/ \E t \in Tables : CreateIndex(t)
    \/ CreateFile \/ FileExists \/ WriteFirstPage \/ InsertTableRow \/ InsertRow
    \/ CatalogOverruns \/ InsertIndexRow \/ WriteMetaPage
    \/ FillIndex \/ FillIndexEnds \/ FillIndexAborts
    \/ Stop \/ Overwritten

Spec == Init /\ [][Next]_vars

-----------------------------------------------------------------------------
TypeOK ==
    /\ files \in [Names -> [kind : FileKinds, rows : Nat]]
    /\ \A i \in DOMAIN Scan(relRows) : Scan(relRows)[i] \in [name : Names, index : Nat]
    /\ indexRows \in Seq([parent : Nat, table : Nat])
    /\ tableDefs \in Seq([name : Names, index : Nat])
    /\ up \in BOOLEAN /\ backfilled \in BOOLEAN /\ wrapped \in BOOLEAN
    /\ made \subseteq Names

\* No two rows of reltabledef have the same name, and their indexes number
\* them without gaps, although an index is a count of memory entries, a name is
\* checked against memory, and memory is rebuilt from a disk that the process
\* may have left half written; until a row overwrites a page.
EachRowOnce ==
    LET rows == Scan(relRows)
    IN  /\ \A i, j \in DOMAIN rows : i # j => rows[i].name # rows[j].name
        /\ {rows[i].index : i \in DOMAIN rows} = 0 .. Len(rows) - 1

RowsNumbered == ~wrapped => EachRowOnce

\* A table whose CreateTable() returned is there after every restart, and its
\* index opens its own file, which has a first page to read; until a catalog
\* row has gone to a page before the last one, or overwritten one.  There is such
\* a restart: InitSystemTables fails for ever (storage.c:126) only if the process
\* ended before any CreateTable() but that of reltabledef itself had returned.
MadeTablesOpen ==
    ~wrapped =>
        /\ up /\ ~backfilled =>
              \A n \in made :
                  /\ Defined(n)
                  /\ SMOpen(FindTableDef(n).index) = n
                  /\ files[n].kind \in {"heap", "index"}
        /\ ~up /\ ~CanLoad => made \subseteq {RelTableDef}

\* Whenever the process ends, an index that the index catalog names has its
\* own row in reltabledef: InitSystemTables never loads an index without table.
IndexHasTable ==
    ~wrapped =>
        \A i \in DOMAIN indexRows :
            \E j \in DOMAIN Scan(relRows) :
                /\ Scan(relRows)[j].index = indexRows[i].table
                /\ Scan(relRows)[j].name \in Range(IndexName)

\* The index of this name was pushed when TableDefs moved.
MadeOnMove(name) ==
    \E i \in DOMAIN Scan(relRows) : Scan(relRows)[i].name = name /\ Full(Scan(relRows)[i].index)

\* An index has no more entries than its own table has rows, wherever the process
\* ended and whatever column names the tables share.  Excused is an index whose
\* parent was read from the freed block, which is filled from any table that has
\* the column, an index on an index, which AnalyzeCreateIndexStmt does not refuse,
\* and what follows after a catalog row has gone to a page before the last one,
\* when the table at a position has another index.
IndexWithinTable ==
    ~wrapped /\ ~backfilled =>
        \A n \in Names : files[n].kind = "index" /\ ~MadeOnMove(n) =>
            \E t \in Tables :
                /\ n = IndexName[t]
                /\ files[t].kind = "index" \/ files[n].rows <= RowsOf(t)

\* The comment in InitSystemTables (storage.c:124): reltabledef stores the table
\* defs in sorted index/creation order.
SortedCatalog ==
    \A i \in DOMAIN Scan(relRows) : Scan(relRows)[i].index = i - 1

\* IndexDef.table_def_idx is the parent table def of the index (storage.h:181), in
\* memory and after every restart, whatever tables and indexes were made in
\* between: it is the parent's index, which the planner compares (plan.c:481),
\* and its position, which IndexDefGetParentTableDef uses, as long as positions
\* are indexes.  Excused is an index that was pushed when TableDefs moved: its
\* parent's index was read from the freed block.
IndexNamesItsParent ==
    ~wrapped =>
        \A i \in DOMAIN indexDefs :
            ~Full(indexDefs[i].table) =>
                \E t \in Tables :
                    /\ Row(IndexName[t], indexDefs[i].table) \in ToSet(tableDefs)
                    /\ Row(t, indexDefs[i].parent) \in ToSet(tableDefs)
                    /\ ~backfilled =>
                          /\ tableDefs[indexDefs[i].table + 1].name = IndexName[t]
                          /\ tableDefs[indexDefs[i].parent + 1].name = t
=============================================================================
