-------------------------------- MODULE Select --------------------------------
(***************************************************************************)
(* The run of a SELECT: PlanJoin and PlanQuery make a tree of plan nodes   *)
(* from the FROM clause, and ExecPlan calls get_next_func of the root      *)
(* until it returns NULL.  The nodes are SequentialScan, IdxScan,          *)
(* NestedLoopScan, SortScan and GetResult; each but the last two is named  *)
(* by the part of the FROM clause that it was made from.  A step is what a *)
(* node does between two calls: it is called, or one of its children       *)
(* returns, and it calls a child or returns itself.  An index has one page *)
(* and every row of its table; splits and rows that came later are the     *)
(* matter of IndexScan.                                                    *)
(*                                                                         *)
(* A table has one column, called like the table.  A tuple says for each   *)
(* column which row of the table it came from, 0 for a column that the     *)
(* join has set to NULL, so that no two rows of a table look the same.     *)
(***************************************************************************)
EXTENDS Integers, Sequences, FiniteSets, Functions, SequencesExt, TLC

CONSTANTS Tables,      \* the names of the tables and of their columns
          Null,        \* NULL, in a table or as the value of an expression
          None,        \* no WHERE clause, no ORDER BY, no ON
          Contents,    \* what a table may hold: sequences of integers and Null
          FromClauses, \* the FROM clauses that the parser builds, with all their parts
          Queries      \* the SELECTs

NoTuple == <<>>

\* A leaf and an inner node of a FROM clause; a comma is an inner join without ON.
RangeVar(table) == [type |-> "table", table |-> table, columns |-> {table}]
Join(left, method, right, on) ==
    [type |-> "join", method |-> method, left |-> left, right |-> right, on |-> on,
     columns |-> left.columns \cup right.columns]

\* A comparison between a column and a column or a literal.
Conditions == [lhs : Tables \cup Int, op : {"=", "<", ">"}, rhs : Tables \cup Int]
ColumnsOf(cond) == IF cond = None THEN {} ELSE {cond.lhs, cond.rhs} \cap Tables

ASSUME ValuesAssumption ==
    /\ IsFiniteSet(Tables) /\ Tables \cap Int = {}
    /\ Null \notin Int /\ Null \notin BOOLEAN /\ None \notin Conditions
    /\ Contents \subseteq Seq(Int \cup {Null})

\* No table is named twice, and an ON clause names columns of its own join: what comes
\* of others is in Session.
ASSUME FromAssumption ==
    \A f \in FromClauses :
        /\ f.columns # {} /\ f.columns \subseteq Tables
        /\ \/ \E t \in Tables : f = RangeVar(t)
           \/ /\ f.method \in {"inner", "left", "right", "outer"}
              /\ f.on \in Conditions \cup {None} /\ ColumnsOf(f.on) \subseteq f.columns
              /\ \E l, r \in FromClauses :
                    f = Join(l, f.method, r, f.on) /\ l.columns \cap r.columns = {}

ASSUME QueriesAssumption ==
    \A q \in Queries :
        /\ q.from \in FromClauses
        /\ q.where \in Conditions \cup {None} /\ ColumnsOf(q.where) \subseteq q.from.columns
        /\ q.sort # None => q.sort.col \in q.from.columns /\ q.sort.desc \in BOOLEAN

VARIABLES tables,    \* the live rows of the tables in scan order
          indexed,   \* the tables that have an index
          query,     \* the query: from, where and sort
          pos,       \* where the cursor of each table's scan is
          cur,       \* cur_left_tuple of each nested loop,
          needNew,   \* its need_new_left_tuple
          noResult,  \* and, in a call of it, no_result_for_cur_left_tuple
          results,   \* the results of SortScan,
          isSorted,  \* its is_sorted
          next,      \* and its next_index, from 1
          step,      \* the node that is called or that returns, or a step of the sort
          out,       \* results.tuples of ExecPlan
          status     \* "running", "done", or the assert that ended the process

input == <<tables, indexed, query>>
loops == <<cur, needNew, noResult>>
sort == <<results, isSorted, next>>
vars == <<input, pos, loops, sort, step, out, status>>

\* The tuple of a row, and the one that has the columns of two tuples.
Row(table, r) == [c \in {table} |-> r]
JoinTuples(s, t) ==
    [c \in DOMAIN s \cup DOMAIN t |-> IF c \in DOMAIN s THEN s[c] ELSE t[c]]

\* GetCol: the value of a column in a tuple.
GetCol(tuple, col) == IF tuple[col] = 0 THEN Null ELSE tables[col][tuple[col]]

\* EvalExpr of a condition.
Term(tuple, term) == IF term \in Tables THEN GetCol(tuple, term) ELSE term
EvalExpr(cond, tuple) ==
    LET lhs == Term(tuple, cond.lhs)
        rhs == Term(tuple, cond.rhs)
    IN  IF lhs = Null \/ rhs = Null THEN Null
        ELSE \/ cond.op = "=" /\ lhs = rhs
             \/ cond.op = "<" /\ lhs < rhs
             \/ cond.op = ">" /\ lhs > rhs

Keeps(cond, tuple) == cond # None => EvalExpr(cond, tuple) = TRUE
IsNull(cond, tuple) == cond # None /\ EvalExpr(cond, tuple) = Null

-----------------------------------------------------------------------------
\* PlanJoin: a right join changes its children.
LeftPlan(f) == IF f.method = "right" THEN f.right ELSE f.left
RightPlan(f) == IF f.method = "right" THEN f.left ELSE f.right

JoinsOf(from) ==
    LET joins[f \in FromClauses] ==
            IF f.type = "table" THEN {} ELSE {f} \cup joins[f.left] \cup joins[f.right]
    IN  joins[from]

\* A column against a value: the scan begins at the value, and goes backwards for
\* a column that is less.
IsBoundary(where, table) == where # None /\ ColumnsOf(where) = {table} /\ where.lhs # where.rhs
BoundaryValue(where) == IF where.lhs \in Tables THEN where.rhs ELSE where.lhs
Backwards(where) == where.op = (IF where.lhs \in Tables THEN "<" ELSE ">")

\* The WHERE clause goes down to every table, the nullable ones of an outer join too.
UsesIndex(table, indexes) == table \in indexes /\ IsBoundary(query.where, table)

\* PlanQuery puts a sort and a result node on top.
SortNode == [type |-> "sort"]
ResultNode == [type |-> "result"]
LeftOfResult == IF query.sort = None THEN query.from ELSE SortNode

NeedNewLeftTupleForgotten == FALSE
NeedNewLeftTuple == TRUE

-----------------------------------------------------------------------------
Call(node) == [does |-> "call", node |-> node]
Return(node, tuple) == [does |-> "return", node |-> node, tuple |-> tuple]
Compare(i, j) == [does |-> "compare", i |-> i, j |-> j]

Continue(next_step) == step' = next_step /\ UNCHANGED <<input, out, status>>
Abort(error) == status' = error /\ UNCHANGED <<input, pos, loops, sort, step, out>>

\* The rows of a table as its index has them: by key, a new key before its equals.
Precedes(table, r, s) ==
    \/ tables[table][r] < tables[table][s]
    \/ tables[table][r] = tables[table][s] /\ r > s
Least(table, rows) == {r \in rows : \A s \in rows : s = r \/ Precedes(table, r, s)}

StartRowsBehind(table) ==
    {r \in DOMAIN tables[table] : tables[table][r] > BoundaryValue(query.where)}
\* The rows that BTreeFirst may start from, at the least of them.
StartRows(table) ==
    {r \in DOMAIN tables[table] : tables[table][r] >= BoundaryValue(query.where)}

\* The rows that an index cursor comes by: backwards, the first of the page only if
\* the scan starts there.
Visited(table) ==
    LET rows  == DOMAIN tables[table]
        start == StartRows(table)
    IN  IF start = {} THEN {}
        ELSE IF ~Backwards(query.where) THEN start
        ELSE Least(table, start)
             \cup ({r \in rows : \A s \in start : Precedes(table, r, s)} \ Least(table, rows))

\* The order in which it does.
Before(table, r, s) ==
    IF Backwards(query.where) THEN Precedes(table, s, r) ELSE Precedes(table, r, s)

SequentialScan(table) ==
    /\ step = Call(RangeVar(table)) /\ ~UsesIndex(table, indexed)
    /\ \/ /\ pos[table] < Len(tables[table])
          /\ pos' = [pos EXCEPT ![table] = @ + 1]
          /\ Continue(Return(RangeVar(table), Row(table, pos[table] + 1)))
       \/ /\ pos[table] >= Len(tables[table])
          /\ Continue(Return(RangeVar(table), NoTuple))
          /\ UNCHANGED pos
    /\ UNCHANGED <<loops, sort>>

\* The WHERE clause is evaluated here too.
KeptRows(table) == {r \in Visited(table) : Keeps(query.where, Row(table, r))}
Ahead(table) == {r \in KeptRows(table) : pos[table] # 0 => Before(table, pos[table], r)}

IdxScan(table) ==
    /\ step = Call(RangeVar(table)) /\ UsesIndex(table, indexed)
    /\ \/ \E r \in Ahead(table) :
             /\ \A s \in Ahead(table) : s = r \/ Before(table, r, s)
             /\ pos' = [pos EXCEPT ![table] = r]
             /\ Continue(Return(RangeVar(table), Row(table, r)))
       \/ /\ Ahead(table) = {}
          /\ Continue(Return(RangeVar(table), NoTuple))
          /\ UNCHANGED pos
    /\ UNCHANGED <<loops, sort>>

-----------------------------------------------------------------------------
\* The rest of a left tuple's columns are NULL.
NullExtendedShort(f, tuple) == tuple
NullExtended(f, tuple) == [c \in f.columns |-> IF c \in DOMAIN tuple THEN tuple[c] ELSE 0]

ExtendsAlways(f, lonely) == f.method \in {"left", "right"}
Extends(f, lonely) == f.method \in {"left", "right"} /\ lonely

\* The right child's init_func: the cursors of its scans start again, its nested loops
\* keep cur_left_tuple and need_new_left_tuple.
RestartRightForgotten(f) == pos
RestartAll(f) == [t \in DOMAIN pos |-> 0]
RestartRight(f) == [t \in DOMAIN pos |-> IF t \in RightPlan(f).columns THEN 0 ELSE pos[t]]

\* A call of NestedLoopScan.
NestedLoopScan(f) ==
    /\ step = Call(f)
    /\ noResult' = [noResult EXCEPT ![f] = FALSE]
    /\ Continue(Call(IF needNew[f] THEN LeftPlan(f) ELSE RightPlan(f)))
    /\ UNCHANGED <<pos, cur, needNew, sort>>

LeftReturns(f) ==
    /\ step.does = "return" /\ step.node = LeftPlan(f)
    /\ cur' = [cur EXCEPT ![f] = step.tuple]
    /\ needNew' = [needNew EXCEPT ![f] = FALSE]
    /\ \/ /\ step.tuple = NoTuple
          /\ Continue(Return(f, NoTuple))
          /\ UNCHANGED <<pos, noResult>>
       \/ /\ step.tuple # NoTuple
          /\ pos' = RestartRight(f)
          /\ noResult' = [noResult EXCEPT ![f] = TRUE]
          /\ Continue(Call(RightPlan(f)))
    /\ UNCHANGED sort

\* The right child has come to its end: on to the next left tuple.
RightEnds(f) ==
    /\ step = Return(RightPlan(f), NoTuple)
    /\ \/ /\ f.method = "outer"
          /\ Abort("unknown join method")
       \/ /\ f.method # "outer"
          /\ needNew' = [needNew EXCEPT ![f] = TRUE]
          /\ Continue(IF Extends(f, noResult[f]) THEN Return(f, NullExtended(f, cur[f]))
                      ELSE Call(LeftPlan(f)))
          /\ UNCHANGED <<pos, cur, noResult, sort>>

RightReturns(f) ==
    /\ step.does = "return" /\ step.node = RightPlan(f) /\ step.tuple # NoTuple
    /\ LET tuple == JoinTuples(cur[f], step.tuple)
       IN  \/ /\ cur[f] = NoTuple
              /\ Abort("no left tuple")
           \/ /\ cur[f] # NoTuple /\ IsNull(f.on, tuple)
              /\ Abort("condition is NULL")
           \/ /\ cur[f] # NoTuple /\ Keeps(f.on, tuple)
              /\ noResult' = [noResult EXCEPT ![f] = FALSE]
              /\ Continue(Return(f, tuple))
              /\ UNCHANGED <<pos, cur, needNew, sort>>
           \/ /\ cur[f] # NoTuple /\ ~IsNull(f.on, tuple) /\ ~Keeps(f.on, tuple)
              /\ Continue(Call(RightPlan(f)))
              /\ UNCHANGED <<pos, loops, sort>>

-----------------------------------------------------------------------------
\* SortScan's insertion sort: results[i], the tuple to insert, changes places with
\* each results[j] that it is to come before, j < i.
ComesBefore(by, s, t) ==
    IF by.desc THEN GetCol(s, by.col) > GetCol(t, by.col)
    ELSE GetCol(s, by.col) < GetCol(t, by.col)

ExchangeNeighbours(by, tuples, i, j) ==
    IF ComesBefore(by, tuples[i], tuples[j]) /\ j = i - 1
    THEN [tuples EXCEPT ![i] = tuples[j], ![j] = tuples[i]] ELSE tuples
Exchange(by, tuples, i, j) ==
    IF ComesBefore(by, tuples[i], tuples[j])
    THEN [tuples EXCEPT ![i] = tuples[j], ![j] = tuples[i]] ELSE tuples

\* The end of SortScan.
NextResult ==
    \/ /\ next > Len(results)
       /\ Continue(Return(SortNode, NoTuple))
       /\ UNCHANGED next
    \/ /\ next <= Len(results)
       /\ next' = next + 1
       /\ Continue(Return(SortNode, results[next]))

SortScan ==
    /\ step = Call(SortNode)
    /\ \/ isSorted /\ NextResult
       \/ ~isSorted /\ Continue(Call(query.from)) /\ UNCHANGED next
    /\ UNCHANGED <<pos, loops, results, isSorted>>

SortCollects ==
    /\ query.sort # None
    /\ step.does = "return" /\ step.node = query.from
    /\ \/ /\ step.tuple # NoTuple
          /\ results' = Append(results, step.tuple)
          /\ Continue(Call(query.from))
       \/ /\ step.tuple = NoTuple
          /\ Continue(Compare(1, 1))
          /\ UNCHANGED results
    /\ UNCHANGED <<pos, loops, isSorted, next>>

\* The comparison asserts that neither value is NULL.
SortCompares ==
    /\ step.does = "compare" /\ step.i <= Len(results)
    /\ LET i    == step.i
           j    == step.j
           null == \E k \in {i, j} : GetCol(results[k], query.sort.col) = Null
       IN  \/ /\ j = i
              /\ Continue(Compare(i + 1, 1))
              /\ UNCHANGED <<pos, loops, sort>>
           \/ /\ j < i /\ null
              /\ Abort("compares NULL")
           \/ /\ j < i /\ ~null
              /\ results' = Exchange(query.sort, results, i, j)
              /\ Continue(Compare(i, j + 1))
              /\ UNCHANGED <<pos, loops, isSorted, next>>

SortEnds ==
    /\ step.does = "compare" /\ step.i > Len(results)
    /\ isSorted' = TRUE
    /\ NextResult
    /\ UNCHANGED <<pos, loops, results>>

\* A call of GetResult, and what it makes of a tuple: the WHERE clause is evaluated here,
\* the target list is the columns themselves.
GetResult ==
    /\ step = Call(ResultNode)
    /\ Continue(Call(LeftOfResult))
    /\ UNCHANGED <<pos, loops, sort>>

ResultReceives ==
    /\ step.does = "return" /\ step.node = LeftOfResult
    /\ \/ /\ step.tuple # NoTuple => Keeps(query.where, step.tuple)
          /\ Continue(Return(ResultNode, step.tuple))
          /\ UNCHANGED <<pos, loops, sort>>
       \/ /\ step.tuple # NoTuple /\ IsNull(query.where, step.tuple)
          /\ Abort("condition is NULL")
       \/ /\ step.tuple # NoTuple
          /\ ~Keeps(query.where, step.tuple) /\ ~IsNull(query.where, step.tuple)
          /\ Continue(Call(LeftOfResult))
          /\ UNCHANGED <<pos, loops, sort>>

\* ExecPlan's loop.
ExecPlan ==
    /\ step.does = "return" /\ step.node = ResultNode
    /\ \/ /\ step.tuple # NoTuple
          /\ out' = Append(out, step.tuple) /\ step' = Call(ResultNode)
          /\ UNCHANGED status
       \/ /\ step.tuple = NoTuple
          /\ status' = "done" /\ UNCHANGED <<step, out>>
    /\ UNCHANGED <<input, pos, loops, sort>>

-----------------------------------------------------------------------------
\* An index that covers the column of the WHERE clause or none; CREATE INDEX panics
\* at a NULL.
Init ==
    /\ query \in Queries
    /\ tables \in [query.from.columns -> Contents]
    /\ indexed \in SUBSET {t \in ColumnsOf(query.where) : Null \notin ToSet(tables[t])}
    /\ pos = [t \in query.from.columns |-> 0]
    /\ cur = [f \in JoinsOf(query.from) |-> NoTuple]
    /\ needNew = [f \in JoinsOf(query.from) |-> NeedNewLeftTuple]
    /\ noResult = [f \in JoinsOf(query.from) |-> FALSE]
    /\ results = <<>> /\ isSorted = FALSE /\ next = 1
    /\ step = Call(ResultNode)
    /\ out = <<>>
    /\ status = "running"

Next ==
    /\ status = "running"
    /\ \/ \E t \in DOMAIN pos : SequentialScan(t) \/ IdxScan(t)
       \/ \E f \in DOMAIN cur :
             NestedLoopScan(f) \/ LeftReturns(f) \/ RightEnds(f) \/ RightReturns(f)
       \/ SortScan \/ SortCollects \/ SortCompares \/ SortEnds
       \/ GetResult \/ ResultReceives
       \/ ExecPlan

Spec == Init /\ [][Next]_vars /\ WF_vars(Next)

-----------------------------------------------------------------------------
\* What the FROM clause stands for in SQL: a set, for no two tuples are alike.
Nulls(columns) == [c \in columns |-> 0]

Matching(ls, rs, on) == {p \in ls \X rs : Keeps(on, JoinTuples(p[1], p[2]))}

JoinedRows(f, ls, rs) ==
    LET pairs   == Matching(ls, rs, f.on)
        lonelyL == {l \in ls : \A p \in pairs : p[1] # l}
        lonelyR == {r \in rs : \A p \in pairs : p[2] # r}
    IN  {JoinTuples(p[1], p[2]) : p \in pairs}
        \cup (IF f.method \in {"left", "outer"}
              THEN {JoinTuples(l, Nulls(f.right.columns)) : l \in lonelyL} ELSE {})
        \cup (IF f.method \in {"right", "outer"}
              THEN {JoinTuples(r, Nulls(f.left.columns)) : r \in lonelyR} ELSE {})

Joined(from) ==
    LET joined[f \in FromClauses] ==
            IF f.type = "table" THEN {Row(f.table, i) : i \in DOMAIN tables[f.table]}
            ELSE JoinedRows(f, joined[f.left], joined[f.right])
    IN  joined[from]

Selected == {t \in Joined(query.from) : Keeps(query.where, t)}

Methods == {f.method : f \in JoinsOf(query.from)}

\* NestedLoopScan panics for a full outer join, if there is a left tuple.
NoFullOuter == "outer" \notin Methods

Errors == {"no left tuple", "condition is NULL", "compares NULL", "unknown join method"}

TypeOK ==
    /\ \A i \in DOMAIN out :
          /\ DOMAIN out[i] = query.from.columns
          /\ \A c \in DOMAIN out[i] : out[i][c] \in 0 .. Len(tables[c])
    /\ status \in {"running", "done"} \cup Errors

\* However the joins are nested and whether or not the query is going to abort,
\* each tuple returned is one that the FROM and WHERE clauses stand for, and none
\* is returned twice: an outer join does not extend a tuple that had a match in
\* an earlier call.
ResultsSound ==
    NoFullOuter =>
        LET selected == Selected
        IN  /\ \A i \in DOMAIN out : out[i] \in selected
            /\ \A i, j \in DOMAIN out : i # j => out[i] # out[j]

\* No scan on an index goes backwards.
NoBackwardScan == query.where # None /\ indexed # {} => ~Backwards(query.where)

\* A query that comes to its end has returned all of them: no left tuple and no
\* right tuple is skipped when the loop goes on to the next left tuple, and an index
\* below an outer join takes no match away; unless its scan goes backwards.
ResultsComplete ==
    status = "done" /\ NoFullOuter /\ NoBackwardScan => Selected \subseteq ToSet(out)

\* ORDER BY: the tuples come in the order of the sort column at every prefix.
SortedOutput ==
    query.sort # None =>
        \A i, j \in DOMAIN out : i < j => ~ComesBefore(query.sort, out[j], out[i])

\* Every query comes to an end, though joins start their right children again and again.
QueryEnds == <>(status # "running")

-----------------------------------------------------------------------------
\* What a plan node gives from its start to its end.
ScanRows(table, indexes) ==
    {Row(table, i) : i \in IF UsesIndex(table, indexes) THEN KeptRows(table)
                           ELSE DOMAIN tables[table]}

LoopRows(f, ls, rs) ==
    {JoinTuples(p[1], p[2]) : p \in Matching(ls, rs, f.on)}
    \cup (IF f.method \in {"left", "right"}
          THEN {NullExtended(f, l) : l \in {k \in ls : \A r \in rs : ~Keeps(f.on, JoinTuples(k, r))}}
          ELSE {})

Rows(from, indexes) ==
    LET rows[f \in FromClauses] ==
            IF f.type = "table" THEN ScanRows(f.table, indexes)
            ELSE LoopRows(f, rows[LeftPlan(f)], rows[RightPlan(f)])
    IN  rows[from]

\* Whether one of the first n runs of a nested loop ends the process.  Its right child
\* runs for each left tuple, and once more at the start of each run but the first, when
\* the last left tuple, which was NULL, has not been forgotten.
RightRuns(ls, n) == n * (Cardinality(ls) + 1) - 1

LoopDies(f, indexes, leftDies, rightDies, n) ==
    LET ls == Rows(LeftPlan(f), indexes)
        rs == Rows(RightPlan(f), indexes)
    IN  \/ leftDies[n]
        \/ rightDies[RightRuns(ls, n)]
        \/ n > 1 /\ rs # {}
        \/ f.method = "outer" /\ (n > 1 \/ ls # {})
        \/ \E l \in ls, r \in rs : IsNull(f.on, JoinTuples(l, r))

DiesBy(from, indexes) ==
    LET dies[f \in FromClauses] ==
            [n \in Nat |->
                /\ f.type = "join" /\ n > 0
                /\ LoopDies(f, indexes, dies[LeftPlan(f)], dies[RightPlan(f)], n)]
    IN  dies[from]

QueryDies(indexes) ==
    LET rows == Rows(query.from, indexes)
    IN  \/ DiesBy(query.from, indexes)[1]
        \/ query.sort # None /\ \E s, t \in rows : s # t /\ GetCol(s, query.sort.col) = Null
        \/ \E t \in rows : IsNull(query.where, t)

\* A query aborts in these cases and no others: a NULL, stored or made by an outer join,
\* meets a comparison; a full outer join has a left tuple; a join that is the right child
\* of another is started again, without forgetting its last left tuple, and meets a right
\* tuple, or one below it does.
AbortsExplained == status # "running" => (status = "done" <=> ~QueryDies(indexed))

\* An index makes no difference to inner joins: a query that would succeed with
\* sequential scans succeeds, with the same tuples.  (It does to outer joins, which
\* then extend tuples whose matches the index scan left out, and die in the WHERE.)
IndexHarmless ==
    status # "running" /\ NoBackwardScan /\ Methods \subseteq {"inner"} /\ ~QueryDies({}) =>
        /\ status = "done"
        /\ ToSet(out) = {t \in Rows(query.from, {}) : Keeps(query.where, t)}

\* The assertion in GetCol (storage.c:263): the tuple is not NULL.  NestedLoopScan
\* calls it for the columns of its left tuple.
LeftTupleThere == status # "no left tuple"
=============================================================================
