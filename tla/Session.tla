-------------------------------- MODULE Session --------------------------------
(***************************************************************************)
(* main(): one statement after the other is analyzed, planned, executed    *)
(* and answered, or ends the process, which is then started again on the   *)
(* rows that were written.  This module is about values and types: what a  *)
(* statement that the analyzer lets through evaluates, stores and prints.  *)
(*                                                                         *)
(* A tuple is the sequence of the data of its columns.  Rows are in the    *)
(* order of a sequential scan of a table of one page, where a new row      *)
(* comes last.  Joins are inner joins and no table has an index: Select    *)
(* and IndexScan are about the others.                                     *)
(***************************************************************************)
EXTENDS Analyzer, FiniteSets

CONSTANTS Bootstrap,    \* the tables that InitSystemTables makes
          Selects, Inserts, Updates, Deletes, CreateTables,  \* parse trees
          MaxRows       \* a bound: no INSERT begins on a longer table

ASSUME MaxRowsAssumption == MaxRows \in Nat

\* Columns of one name have one type.
SameTypes(def1, def2) ==
    \A i \in DOMAIN def1, j \in DOMAIN def2 :
        def1[i].name = def2[j].name => def1[i].type = def2[j].type

\* A tuple holds NULL or a value of the column's type in every column.
IsTupleOf(tuple, def) ==
    /\ tuple \in Seq(Data) /\ DOMAIN tuple = DOMAIN def
    /\ \A i \in DOMAIN def : tuple[i].type \in {def[i].type, "null"}

ASSUME BootstrapAssumption ==
    /\ Bootstrap \in Seq([name : STRING, cols : Defs, rows : Seq(Seq(Data))])
    /\ \A t, u \in DOMAIN Bootstrap : SameTypes(Bootstrap[t].cols, Bootstrap[u].cols)
    /\ \A t \in DOMAIN Bootstrap : \A row \in ToSet(Bootstrap[t].rows) :
          IsTupleOf(row, Bootstrap[t].cols)

\* What the parser makes of a statement.
Clauses == Exprs \cup {Absent}
ASSUME StatementsAssumption ==
    /\ Selects \subseteq [kind : {"select"}, targets : Seq(Exprs),
                          from : FromClauses \cup {Absent}, where : Clauses, sort : Clauses]
    /\ Inserts \subseteq [kind : {"insert"}, table : STRING, columns : Seq(STRING),
                          values : Seq(Seq(Exprs))]
    /\ Updates \subseteq [kind : {"update"}, table : STRING,
                          assigns : Seq([column : STRING, value : Exprs]), where : Clauses]
    /\ Deletes \subseteq [kind : {"delete"}, table : STRING, where : Clauses]
    /\ CreateTables \subseteq [kind : {"create"}, table : STRING,
                               columns : Seq([name : STRING, type : STRING])]

VARIABLES status,   \* "prompt", or how the last statement ended
          stmt,     \* the last statement
          printed   \* what PrintResults printed, as a set of rows

vars == <<tables, status, stmt, printed>>

NoStatement == [kind |-> "none"]

-----------------------------------------------------------------------------
NoTuple == <<>>
MakeTuple(def) == [i \in DOMAIN def |-> Null]

\* A column is found by its name in a definition; asserts that there is a tuple
\* and that there is such a column.  A tuple holds data of its columns' types, see
\* TypeOK, so that the type put on the bytes is the one they had.
GetCol(tuple, name, def) ==
    IF tuple = NoTuple \/ GetColIdx(def, name) = 0 THEN Death("GetCol")
    ELSE tuple[GetColIdx(def, name)]

GetCols(tuple, def) == [i \in DOMAIN def |-> GetCol(tuple, def[i].name, def)]

SetCol(tuple, name, datum, def) == [tuple EXCEPT ![GetColIdx(def, name)] = datum]

\* Of columns with one name only the first is ever written.
SetCols(tuple, names, values, def) ==
    FoldLeft(LAMBDA t, j : SetCol(t, names[j], values[j], def), tuple,
             [j \in DOMAIN names |-> j])

Names(def) == [i \in DOMAIN def |-> def[i].name]

\* EvalExpr.  op_func is the one that CheckType has set with this join list.
EvalBin(type, op, lhs, rhs) ==
    IF IsDeath(lhs) THEN lhs
    ELSE IF IsDeath(rhs) THEN rhs
    ELSE IF Null \in {lhs, rhs} THEN Null
    ELSE OpFunc(type, op, lhs, rhs)

EvalExpr(expr, tuple, def, joinList) ==
    LET eval[e \in Exprs] ==
            IF e.type = "lit" THEN e.datum
            ELSE IF e.type = "id" THEN GetCol(tuple, e.name, def)
            ELSE EvalBin(OperandType(CheckType(e.lhs, joinList), CheckType(e.rhs, joinList)),
                         e.op, eval[e.lhs], eval[e.rhs])
    IN  eval[expr]

\* A condition: the assert that its value is a bool fails for NULL.
Truth(result) ==
    IF IsDeath(result) THEN "died"
    ELSE IF result.type # "bool" THEN "died"
    ELSE IF result.val = 1 THEN "yes" ELSE "no"

Test(cond, tuple, def, joinList) ==
    IF cond = Absent THEN "yes" ELSE Truth(EvalExpr(cond, tuple, def, joinList))

Tests(cond, rows, def, joinList) ==
    [i \in DOMAIN rows |-> Test(cond, rows[i], def, joinList)]

\* The elements of a sequence at the places where another has a value.
Where(seq, marks, mark) ==
    FoldLeft(LAMBDA kept, i : IF marks[i] = mark THEN Append(kept, seq[i]) ELSE kept, <<>>,
             [i \in DOMAIN seq |-> i])

-----------------------------------------------------------------------------
\* NestedLoopScan of an inner join, all its tuples at once.  Nothing is printed
\* before the last, so it does not matter which evaluation ends the process first.
JoinedTuple(l, ldef, r, rdef) ==
    LET def == JoinedDef(ldef, rdef)
    IN  SetCols(SetCols(MakeTuple(def), Names(ldef), GetCols(l, ldef), def),
                Names(rdef), GetCols(r, rdef), def)

Pairs(ls, rs) ==
    [k \in 1 .. Len(ls) * Len(rs) |->
        <<ls[((k - 1) \div Len(rs)) + 1], rs[((k - 1) % Len(rs)) + 1]>>]

\* A scan, and whether one of its first n runs ends the process.  The analyzer has
\* rejected a FROM clause with a table that does not exist.
SeqScan(name) ==
    LET t == FindTableDef(name)
    IN  IF t = 0 THEN [def |-> <<>>, rows |-> <<>>, diesBy |-> [n \in Nat |-> FALSE]]
        ELSE [def |-> tables[t].cols, rows |-> tables[t].rows, diesBy |-> [n \in Nat |-> FALSE]]

\* The right child is run once for each left tuple, and once more at the start of each
\* run but the first: the last left tuple, which was NULL, has not been forgotten, and
\* the next right tuple ends the process.
NestedLoopScan(l, r, on, joinList) ==
    LET def   == JoinedDef(l.def, r.def)
        pairs == Pairs(l.rows, r.rows)
        rows  == [k \in DOMAIN pairs |-> JoinedTuple(pairs[k][1], l.def, pairs[k][2], r.def)]
        tests == Tests(on, rows, def, joinList)
    IN  [def    |-> def,
         rows   |-> Where(rows, tests, "yes"),
         diesBy |-> [n \in Nat |->
            n > 0 /\ \/ l.diesBy[n]
                     \/ r.diesBy[n * (Len(l.rows) + 1) - 1]
                     \/ n > 1 /\ r.rows # <<>>
                     \/ "died" \in ToSet(tests)]]

ScanFrom(from, joinList) ==
    LET scan[f \in FromClauses] ==
            IF f.type = "table" THEN SeqScan(f.table)
            ELSE NestedLoopScan(scan[f.left], scan[f.right], f.on, joinList)
    IN  scan[from]

\* SortScan compares when there are two tuples, and asserts that neither is NULL.
SortDies(sort, rows, def) ==
    /\ sort # Absent /\ Len(rows) > 1
    /\ \E i \in DOMAIN rows : GetCol(rows[i], sort.name, def) = Null

\* GetResult's projection: each value goes to the column of its target's name.
Project(values, output) == SetCols(MakeTuple(output), Names(output), values, output)

\* PrintResults reads the columns by their names.
PrintedRow(tuple, output) == GetCols(tuple, output)

\* SortScan and GetResult above the scan.  The plan is made of seq scans, for which
\* PlanJoin asserts that the WHERE clause is a binary expression.
ResultOf(s, scan, joinList) ==
    LET output == OutputDef(s.targets, joinList)
        tests  == Tests(s.where, scan.rows, scan.def, joinList)
        kept   == Where(scan.rows, tests, "yes")
        values == [k \in DOMAIN kept |-> [i \in DOMAIN s.targets |->
                      EvalExpr(s.targets[i], kept[k], scan.def, joinList)]]
    IN  IF \/ s.where.type \notin {"absent", "bin"}
           \/ scan.diesBy[1]
           \/ SortDies(s.sort, scan.rows, scan.def)
           \/ "died" \in ToSet(tests)
           \/ \E k \in DOMAIN values : \E i \in DOMAIN s.targets : IsDeath(values[k][i])
        THEN [died |-> TRUE, printed |-> {}]
        ELSE [died |-> FALSE,
              printed |-> {PrintedRow(Project(values[k], output), output) : k \in DOMAIN kept}]

ExecSelect(s) ==
    LET joinList == AnalyzeJoinList(s.from, <<>>).list
    IN  ResultOf(s, ScanFrom(s.from, joinList), joinList)

-----------------------------------------------------------------------------
\* What a statement leaves: the rows and whether it ended the process.
Effect(rows, died) == [rows |-> rows, died |-> died]

\* InsertScan: values are evaluated without a tuple and go to the columns of the
\* table in their order; the tuples before one that dies have been written.
ExecInsert(s, table) ==
    LET names == Names(table.cols)
        values == [k \in DOMAIN s.values |-> [j \in DOMAIN s.values[k] |->
                      EvalExpr(s.values[k][j], NoTuple, <<>>, <<table.cols>>)]]
        dies(k) == \/ Len(values[k]) # Len(names)
                   \/ \E j \in DOMAIN values[k] : IsDeath(values[k][j])
        dead == {k \in DOMAIN values : dies(k)}
        last == IF dead = {} THEN Len(values) ELSE Min(dead) - 1
    IN  Effect(table.rows \o [k \in 1 .. last |->
                   SetCols(MakeTuple(table.cols), names, values[k], table.cols)],
               dead # {})

\* "Eval on cur_tpl to prevent seeing own updates."
NewVersionSeesItself(assigns, row, def) ==
    FoldLeft(LAMBDA t, a : SetCol(t, a.column, EvalExpr(a.value, t, def, <<def>>), def),
             row, assigns)
NewVersion(assigns, row, def) ==
    SetCols(row, [k \in DOMAIN assigns |-> assigns[k].column],
            [k \in DOMAIN assigns |-> EvalExpr(assigns[k].value, row, def, <<def>>)], def)

\* UpdateScan: all new versions are made before the first is written, each in the
\* place of a deleted row but behind the rows that stay.
ExecUpdateWritesAsItScans(s, table) ==
    LET def   == table.cols
        tests == Tests(s.where, table.rows, def, <<def>>)
        dies(i) == \/ tests[i] = "died"
                   \/ tests[i] = "yes" /\ \E a \in ToSet(s.assigns) :
                          IsDeath(EvalExpr(a.value, table.rows[i], def, <<def>>))
        dead  == {i \in DOMAIN table.rows : dies(i)}
        upTo  == IF dead = {} THEN Len(tests) ELSE Min(dead) - 1
        marks == [i \in DOMAIN tests |-> IF i > upTo THEN "no" ELSE tests[i]]
        hit   == Where(table.rows, marks, "yes")
    IN  Effect(Where(table.rows, marks, "no")
                   \o [k \in DOMAIN hit |-> NewVersion(s.assigns, hit[k], def)],
               dead # {})
ExecUpdate(s, table) ==
    LET def   == table.cols
        tests == Tests(s.where, table.rows, def, <<def>>)
        hit   == Where(table.rows, tests, "yes")
        dies  == \/ "died" \in ToSet(tests)
                 \/ \E k \in DOMAIN hit, a \in ToSet(s.assigns) :
                       IsDeath(EvalExpr(a.value, hit[k], def, <<def>>))
    IN  IF dies THEN Effect(table.rows, TRUE)
        ELSE Effect(Where(table.rows, tests, "no")
                        \o [k \in DOMAIN hit |-> NewVersion(s.assigns, hit[k], def)], FALSE)

\* DeleteScan: the rows before one that dies have been deleted.
ExecDelete(s, table) ==
    LET tests == Tests(s.where, table.rows, table.cols, <<table.cols>>)
        dead  == {i \in DOMAIN tests : tests[i] = "died"}
        marks == [i \in DOMAIN tests |->
                     IF dead # {} /\ i >= Min(dead) THEN "no" ELSE tests[i]]
    IN  Effect(Where(table.rows, marks, "no"), dead # {})

-----------------------------------------------------------------------------
Init ==
    /\ tables = Bootstrap
    /\ status = "prompt" /\ stmt = NoStatement /\ printed = {}

Answer(s, how, result) == stmt' = s /\ status' = how /\ printed' = result

\* "Query not valid", or an assert or a panic of the analyzer.
NotRun(s, check) ==
    /\ check # "ok"
    /\ Answer(s, check, {})
    /\ UNCHANGED tables

Select ==
    /\ status = "prompt"
    /\ \E s \in Selects :
          LET check == AnalyzeSelectStmt(s)
          IN  \/ NotRun(s, check)
              \/ /\ check = "ok"
                 /\ LET result == ExecSelect(s)
                    IN  Answer(s, IF result.died THEN "died" ELSE "done", result.printed)
                 /\ UNCHANGED tables

\* A statement that changes the rows of one table.
Modify(s, check, Exec(_, _)) ==
    \/ NotRun(s, check)
    \/ /\ check = "ok"
       /\ LET t      == FindTableDef(s.table)
              effect == Exec(s, tables[t])
          IN  /\ tables' = [tables EXCEPT ![t].rows = effect.rows]
              /\ Answer(s, IF effect.died THEN "died" ELSE "done", {})

Insert ==
    /\ status = "prompt"
    /\ \E s \in Inserts, lucky \in BOOLEAN :
          /\ \A t \in TablesNamed(s.table) : Len(tables[t].rows) < MaxRows
          /\ Modify(s, AnalyzeInsertStmt(s, lucky), ExecInsert)

Update ==
    /\ status = "prompt"
    /\ \E s \in Updates : Modify(s, AnalyzeUpdateStmt(s), ExecUpdate)

Delete ==
    /\ status = "prompt"
    /\ \E s \in Deletes : Modify(s, AnalyzeDeleteStmt(s), ExecDelete)

CreateTable ==
    /\ status = "prompt"
    /\ \E s \in CreateTables :
          LET check == AnalyzeCreateTableStmt(s)
          IN  \/ NotRun(s, check)
              \/ /\ check = "ok"
                 /\ tables' = Append(tables, [name |-> s.table, cols |-> s.columns, rows |-> <<>>])
                 /\ Answer(s, "done", {})

\* The next prompt.
Prompt ==
    /\ status \in {"done", "rejected"}
    /\ Answer(NoStatement, "prompt", {})
    /\ UNCHANGED tables

\* A new process finds the definitions in the catalog and the rows in the files.
Restart ==
    /\ status = "died"
    /\ Answer(NoStatement, "prompt", {})
    /\ UNCHANGED tables

Next == Select \/ Insert \/ Update \/ Delete \/ CreateTable \/ Prompt \/ Restart

Spec == Init /\ [][Next]_vars
-----------------------------------------------------------------------------
\* The types that a stricter analyzer would give: names are those of one definition,
\* the operands of an operator have one type, and NULL and division, which end the
\* process for some values, have none.
StrictBin(lhs, op, rhs) ==
    IF lhs = rhs /\ Supports(lhs, op) /\ lhs # "unknown" /\ op # "/"
    THEN ReturnType(lhs, op) ELSE "unknown"

StrictType(expr, def) ==
    LET strict[e \in Exprs] ==
            IF e.type = "lit" THEN (IF e.datum = Null THEN "unknown" ELSE e.datum.type)
            ELSE IF e.type = "id" THEN ColType(e.name, <<def>>)
            ELSE StrictBin(strict[e.lhs], e.op, strict[e.rhs])
    IN  strict[expr]

StrictCondition(cond, def) == cond = Absent \/ StrictType(cond, def) = "bool"

HasNoNull(t) == \A row \in ToSet(tables[t].rows) : Null \notin ToSet(row)

TableCols(name) == IF FindTableDef(name) = 0 THEN <<>> ELSE tables[FindTableDef(name)].cols

FromDef(from) ==
    LET def[f \in FromClauses] ==
            IF f.type = "table" THEN TableCols(f.table) ELSE def[f.left] \o def[f.right]
    IN  def[from]

StrictFrom(from) ==
    LET strict[f \in FromClauses] ==
            IF f.type = "table"
            THEN FindTableDef(f.table) # 0 /\ HasNoNull(FindTableDef(f.table))
            ELSE /\ strict[f.left] /\ strict[f.right]
                 /\ f.right.type = "table"
                 /\ StrictCondition(f.on, FromDef(f))
    IN  from # Absent /\ strict[from]

StrictInsert(s, def) ==
    /\ \A i \in DOMAIN s.columns : GetColIdx(def, s.columns[i]) # 0
    /\ \A k \in DOMAIN s.values :
          /\ Len(s.values[k]) = Len(def) /\ Len(s.columns) = Len(def)
          /\ \A j \in DOMAIN def : StrictType(s.values[k][j], <<>>) = def[j].type

StrictUpdate(s, def) ==
    /\ StrictCondition(s.where, def)
    /\ \A a \in ToSet(s.assigns) :
          /\ GetColIdx(def, a.column) # 0
          /\ StrictType(a.value, def) = ColType(a.column, <<def>>)

Strict(s) ==
    CASE s.kind = "select" ->
            /\ StrictFrom(s.from)
            /\ \A i \in DOMAIN s.targets : StrictType(s.targets[i], FromDef(s.from)) # "unknown"
            /\ StrictCondition(s.where, FromDef(s.from)) /\ s.where.type \in {"absent", "bin"}
            /\ s.sort # Absent => /\ s.sort.type = "id"
                                  /\ StrictType(s.sort, FromDef(s.from)) # "unknown"
      [] s.kind = "create" -> AnalyzeCreateTableStmt(s) = "ok"
      [] OTHER ->
            LET t == FindTableDef(s.table)
            IN  /\ t # 0
                /\ CASE s.kind = "insert" -> StrictInsert(s, tables[t].cols)
                     [] s.kind = "update" -> StrictUpdate(s, tables[t].cols) /\ HasNoNull(t)
                     [] s.kind = "delete" -> StrictCondition(s.where, tables[t].cols) /\ HasNoNull(t)

-----------------------------------------------------------------------------
\* Whatever was inserted and updated, through NULLs, sums that overflow and column
\* lists in any order, a row holds NULL or a value of the column's type in every
\* column; GetCol puts that type on the bytes without looking.
TypeOK ==
    /\ status \in {"prompt", "done", "rejected", "died"}
    /\ \A t \in DOMAIN tables : \A row \in ToSet(tables[t].rows) :
          IsTupleOf(row, tables[t].cols)

\* A statement whose types a stricter analyzer would accept is neither rejected nor
\* ends the process: what CheckType finds in the join list, EvalExpr finds in the
\* definition of the tuple at hand, also above two joins.
StrictStatementsSucceed ==
    [][status = "prompt" /\ Strict(stmt') => status' = "done"]_vars

\* A printed value is NULL or has the type that the analyzer gave to the column of
\* the output, which is how PrintResults reads its bytes; an int fits its width.
PrintedTyped ==
    status = "done" /\ stmt.kind = "select" =>
        LET joinList == AnalyzeJoinList(stmt.from, <<>>).list
        IN  \A row \in printed : \A i \in DOMAIN row :
                /\ row[i] \in Data
                /\ row[i].type \in {CheckType(stmt.targets[i], joinList), "null"}

\* Each printed cell is its own target's value, although cells travel by the names
\* of their columns and unnamed expressions get theirs from a counter.
PrintedIsEvaluated ==
    status = "done" /\ stmt.kind = "select" =>
        LET joinList == AnalyzeJoinList(stmt.from, <<>>).list
            scan     == ScanFrom(stmt.from, joinList)
            kept     == {row \in ToSet(scan.rows) :
                            Test(stmt.where, row, scan.def, joinList) = "yes"}
        IN  printed = {[i \in DOMAIN stmt.targets |->
                           EvalExpr(stmt.targets[i], row, scan.def, joinList)] : row \in kept}

\* The row that an UPDATE means: its assignments take effect at once, all on the
\* values that the row had, the last one to a column deciding.
Meant(s, row, def) ==
    IF Test(s.where, row, def, <<def>>) # "yes" THEN row
    ELSE [c \in DOMAIN row |->
            LET to == {k \in DOMAIN s.assigns : GetColIdx(def, s.assigns[k].column) = c}
            IN  IF to = {} THEN row[c]
                ELSE EvalExpr(s.assigns[Max(to)].value, row, def, <<def>>)]

Occurrences(rows, r) == Cardinality({i \in DOMAIN rows : rows[i] = r})

\* An UPDATE that ends well has replaced each row by the one meant, so that columns
\* can change places, and no row is updated twice.
UpdatesAtOnce ==
    LET t     == FindTableDef(stmt'.table)
        meant == [i \in DOMAIN tables[t].rows |->
                     Meant(stmt', tables[t].rows[i], tables[t].cols)]
    IN  \A r \in ToSet(meant) \cup ToSet(tables'[t].rows) :
            Occurrences(tables'[t].rows, r) = Occurrences(meant, r)

UpdateSimultaneous ==
    [][status = "prompt" /\ stmt'.kind = "update" /\ status' = "done" => UpdatesAtOnce]_vars

\* A statement that is rejected changes nothing, and neither does a SELECT or an
\* UPDATE in which an evaluation ends the process; an INSERT leaves the rows before
\* the failing one, a DELETE has deleted only rows before it.
LeavesOfDeath ==
    \/ tables' = tables
    \/ /\ status' = "died" /\ stmt'.kind \in {"insert", "delete"}
       /\ LET t    == FindTableDef(stmt'.table)
              old  == tables[t].rows
              new  == tables'[t].rows
          IN  /\ tables' = [tables EXCEPT ![t].rows = new]
              /\ stmt'.kind = "insert" => IsPrefix(old, new) /\ Len(new) - Len(old) < Len(stmt'.values)
              /\ stmt'.kind = "delete" => Len(new) < Len(old) /\ IsSuffix(<<Last(old)>>, new)

EffectsOfDeath == [][status' \in {"rejected", "died"} => LeavesOfDeath]_vars
=============================================================================
