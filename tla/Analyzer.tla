------------------------------- MODULE Analyzer -------------------------------
(***************************************************************************)
(* The analyzer: which statements are run.  A statement is rejected        *)
(* ("Query not valid"), ends the process by an assert or a panic, or goes  *)
(* on to the planner.  CheckType looks names up in the join list, which    *)
(* holds the definitions of all tables and all joins met so far, while     *)
(* EvalExpr looks them up in the definition of the tuple at hand.          *)
(***************************************************************************)
EXTENDS Types, Sequences, SequencesExt

CONSTANTS Exprs,         \* the expressions and the FROM clauses that the parser
          FromClauses,   \* builds, with all their parts,
          Height         \* and the height of each of these trees

VARIABLE tables    \* TableDefs and the rows of the tables, in creation order

Column(name, type) == [name |-> name, type |-> type]
Defs == Seq([name : STRING, type : ColTypes])

\* Parse trees.
Lit(datum)       == [type |-> "lit", datum |-> datum]
Id(name)         == [type |-> "id", name |-> name]
Bin(lhs, op, rhs) == [type |-> "bin", lhs |-> lhs, op |-> op, rhs |-> rhs]
Absent           == [type |-> "absent"]  \* a clause that is not there
RangeVar(table)  == [type |-> "table", table |-> table]
Join(left, right, on) == [type |-> "join", left |-> left, right |-> right, on |-> on]

\* The parser makes a node of nodes that it has made before.
ASSUME ParseTreesAssumption ==
    /\ Height \in [Exprs \cup FromClauses -> Nat]
    /\ \A e \in Exprs :
          \/ e \in [type : {"lit"}, datum : Data]
          \/ e \in [type : {"id"}, name : STRING]
          \/ /\ e \in [type : {"bin"}, lhs : Exprs, op : Operators, rhs : Exprs]
             /\ Height[e.lhs] < Height[e] /\ Height[e.rhs] < Height[e]
    /\ \A f \in FromClauses :
          \/ f \in [type : {"table"}, table : STRING]
          \/ /\ f \in [type : {"join"}, left : FromClauses, right : FromClauses,
                      on : Exprs \cup {Absent}]
             /\ Height[f.left] < Height[f] /\ Height[f.right] < Height[f]

-----------------------------------------------------------------------------
\* GetColIdx: the first column of that name, 0 for none.
Places(def, name) == {i \in DOMAIN def : def[i].name = name}
GetColIdx(def, name) == IF Places(def, name) = {} THEN 0 ELSE Min(Places(def, name))

TablesNamed(name) == {t \in DOMAIN tables : tables[t].name = name}
FindTableDef(name) == IF TablesNamed(name) = {} THEN 0 ELSE Min(TablesNamed(name))

\* A name has the type of the last definition that has it.
ColType(name, joinList) ==
    LET having == {d \in DOMAIN joinList : Places(joinList[d], name) # {}}
    IN  IF having = {} THEN "unknown"
        ELSE LET def == joinList[Max(having)] IN def[GetColIdx(def, name)].type

\* The type that chooses op_func: NULL takes the type of the other operand.  That
\* both operands have it is not checked.
OperandType(lhs, rhs) == IF lhs = "null" THEN rhs ELSE lhs

\* "panic" where the code calls Panic, which exits.
TypeOfBin(lhs, op, rhs) ==
    LET type == OperandType(lhs, rhs)
    IN  IF "panic" \in {lhs, rhs} THEN "panic"
        ELSE IF "unknown" \in {lhs, rhs} \/ type = "null" THEN "unknown"
        ELSE IF Supports(type, op) THEN ReturnType(type, op)
        ELSE "panic"

CheckType(expr, joinList) ==
    LET check[e \in Exprs] ==
            IF e.type = "lit" THEN e.datum.type
            ELSE IF e.type = "id" THEN ColType(e.name, joinList)
            ELSE TypeOfBin(check[e.lhs], e.op, check[e.rhs])
    IN  check[expr]

-----------------------------------------------------------------------------
\* What becomes of a check: "ok", "rejected" or "died".
Verdict(type, good) ==
    CASE type = "panic" -> "died" [] type \in good -> "ok" [] OTHER -> "rejected"

\* The first check that is not passed decides.
FirstFailure(verdicts) ==
    LET failures == {i \in DOMAIN verdicts : verdicts[i] # "ok"}
    IN  IF failures = {} THEN "ok" ELSE verdicts[Min(failures)]

CheckCondition(cond, joinList) ==
    IF cond = Absent THEN "ok" ELSE Verdict(CheckType(cond, joinList), {"bool"})

JoinedDefLeftOnly(left, right) == left
JoinedDef(left, right) == left \o right

\* The join list in the order in which it grows, its last definition that of the
\* whole clause.  An ON clause is checked against all of it.
AnalyzeTable(name, joinList) ==
    LET t == FindTableDef(name)
    IN  IF t = 0 THEN [list |-> joinList, verdict |-> "rejected"]
        ELSE [list |-> Append(joinList, tables[t].cols), verdict |-> "ok"]

AnalyzeJoin(left, right, on) ==
    IF left.verdict # "ok" THEN left
    ELSE IF right.verdict # "ok" THEN right
    ELSE LET list == Append(right.list, JoinedDef(Last(left.list), Last(right.list)))
         IN  [list |-> list, verdict |-> CheckCondition(on, list)]

AnalyzeJoinList(from, joinList) ==
    LET analyze[f \in FromClauses] ==
            [before \in Seq(Defs) |->
                IF f.type = "table" THEN AnalyzeTable(f.table, before)
                ELSE LET left == analyze[f.left][before]
                     IN  AnalyzeJoin(left, analyze[f.right][left.list], f.on)]
    IN  analyze[from][joinList]

\* The names of the result's columns: the number in an invented name is the count
\* of invented names before it.
IsNamed(target, joinList) ==
    target.type = "id" /\ ColType(target.name, joinList) # "unknown"

InventedNameAlwaysZero(targets, i) == <<"?column", 0>>
InventedName(targets, i) ==
    <<"?column", Cardinality({j \in 1 .. i - 1 : targets[j].type # "id"})>>

TargetName(targets, i, joinList) ==
    IF IsNamed(targets[i], joinList) THEN <<targets[i].name>> ELSE InventedName(targets, i)

OutputDef(targets, joinList) ==
    [i \in DOMAIN targets |->
        Column(TargetName(targets, i, joinList), CheckType(targets[i], joinList))]

CheckTargets(targets, joinList) ==
    FirstFailure([i \in DOMAIN targets |->
        Verdict(CheckType(targets[i], joinList), BTypes \ {"unknown"})])

CheckSort(sort, joinList) ==
    CASE sort.type = "absent" -> "ok"
      [] sort.type = "id"     -> IF ColType(sort.name, joinList) = "unknown"
                                 THEN "rejected" ELSE "ok"
      [] OTHER                -> "died"

\* The WHERE clause is checked with the output definition at the end of the join
\* list; its names are columns of a definition before it or have a "?".
AnalyzeSelectStmt(s) ==
    IF s.from = Absent THEN "died"
    ELSE LET from == AnalyzeJoinList(s.from, <<>>)
         IN  IF from.verdict # "ok" THEN from.verdict
             ELSE FirstFailure(<<CheckTargets(s.targets, from.list),
                                 CheckCondition(s.where, from.list),
                                 CheckSort(s.sort, from.list)>>)

-----------------------------------------------------------------------------
\* A value must have the type of the column at its place in the table; a value
\* behind the last column is compared with what happens to lie there.
CheckValuesAnyType(values, def, lucky) ==
    FirstFailure([j \in DOMAIN values |-> Verdict(CheckType(values[j], <<def>>),
                                                  BTypes \ {"unknown"})])
CheckValues(values, def, lucky) ==
    FirstFailure([j \in DOMAIN values |->
        Verdict(CheckType(values[j], <<def>>),
                {"null"} \cup (IF j \in DOMAIN def THEN {def[j].type}
                               ELSE IF lucky THEN ColTypes ELSE {}))])

AnalyzeInsertStmt(s, lucky) ==
    LET t   == FindTableDef(s.table)
        def == tables[t].cols
    IN  IF t = 0 THEN "rejected"
        ELSE IF \E i \in DOMAIN s.columns : GetColIdx(def, s.columns[i]) = 0 THEN "rejected"
        ELSE FirstFailure([i \in DOMAIN s.values |->
                IF Len(s.values[i]) # Len(s.columns) THEN "rejected"
                ELSE CheckValues(s.values[i], def, lucky)])

AnalyzeDeleteStmt(s) ==
    LET t == FindTableDef(s.table)
    IN  IF t = 0 THEN "rejected" ELSE CheckCondition(s.where, <<tables[t].cols>>)

CheckAssignment(assign, def) ==
    LET i == GetColIdx(def, assign.column)
    IN  IF i = 0 THEN "rejected"
        ELSE Verdict(CheckType(assign.value, <<def>>), {def[i].type, "null"})

AnalyzeUpdateStmt(s) ==
    LET t   == FindTableDef(s.table)
        def == tables[t].cols
    IN  IF t = 0 THEN "rejected"
        ELSE FirstFailure(Append([i \in DOMAIN s.assigns |-> CheckAssignment(s.assigns[i], def)],
                                 CheckCondition(s.where, <<def>>)))

\* The names of a new table's columns must be new among all tables, but are not
\* compared with one another.
AnalyzeCreateTableStmt(s) ==
    IF \/ FindTableDef(s.table) # 0
       \/ \E i \in DOMAIN s.columns :
             \/ s.columns[i].type \notin ColTypes
             \/ \E t \in DOMAIN tables : GetColIdx(tables[t].cols, s.columns[i].name) # 0
    THEN "rejected" ELSE "ok"
=============================================================================
