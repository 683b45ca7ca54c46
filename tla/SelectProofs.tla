------------------------------ MODULE SelectProofs ------------------------------
(***************************************************************************)
(* What Select's runs check on a few tables, for every number of them and  *)
(* every nesting of the joins: the tuples returned are the ones that the   *)
(* FROM and WHERE clauses stand for, each once, and in order.              *)
(***************************************************************************)
EXTENDS Select, SequenceLemmas

-----------------------------------------------------------------------------
\* The FROM clauses and the plan trees made from them.
IsTable(f) == f.type = "table"

\* A FROM clause is a table or a join of two others that have no table in common.
LEMMA Shape ==
    ASSUME NEW f \in FromClauses
    PROVE  /\ f.columns # {} /\ f.columns \subseteq Tables /\ IsFiniteSet(f.columns)
           /\ \/ IsTable(f) /\ \E t \in Tables : f = RangeVar(t) /\ f.columns = {t} /\ f.table = t
              \/ /\ ~IsTable(f) /\ f.type = "join"
                 /\ f.method \in {"inner", "left", "right", "outer"}
                 /\ f.on \in Conditions \cup {None} /\ ColumnsOf(f.on) \subseteq f.columns
                 /\ f.left \in FromClauses /\ f.right \in FromClauses
                 /\ f.columns = f.left.columns \cup f.right.columns
                 /\ f.left.columns \cap f.right.columns = {}
<1>1. f.columns # {} /\ f.columns \subseteq Tables /\ IsFiniteSet(f.columns)
  BY FromAssumption, ValuesAssumption, FS_Subset
<1>2. CASE \E t \in Tables : f = RangeVar(t)
  <2>1. PICK t \in Tables : f = RangeVar(t)
    BY <1>2
  <2>2. f.columns = {t} /\ f.type = "table" /\ f.table = t
    BY <2>1 DEF RangeVar
  <2> QED
    BY <1>1, <2>1, <2>2 DEF IsTable
<1>3. CASE ~\E t \in Tables : f = RangeVar(t)
  <2>1. /\ f.method \in {"inner", "left", "right", "outer"}
        /\ f.on \in Conditions \cup {None} /\ ColumnsOf(f.on) \subseteq f.columns
        /\ \E l, r \in FromClauses :
              f = Join(l, f.method, r, f.on) /\ l.columns \cap r.columns = {}
    BY <1>3, FromAssumption
  <2>2. PICK l \in FromClauses, r \in FromClauses :
            f = Join(l, f.method, r, f.on) /\ l.columns \cap r.columns = {}
    BY <2>1
  <2>3. f.type = "join" /\ f.left = l /\ f.right = r /\ f.columns = l.columns \cup r.columns
    BY <2>2 DEF Join
  <2> QED
    BY <1>1, <2>1, <2>2, <2>3 DEF IsTable
<1> QED
  BY <1>2, <1>3

LEMMA PartsAreFromClauses ==
    \A f \in FromClauses : /\ ~IsTable(f) => f.left \in FromClauses /\ f.right \in FromClauses
                           /\ IsTable(f) => f.table \in Tables
BY Shape

\* A part of a join has fewer columns.
LEMMA PartsAreSmaller ==
    ASSUME NEW f \in FromClauses, ~IsTable(f)
    PROVE  /\ Cardinality(f.left.columns) < Cardinality(f.columns)
           /\ Cardinality(f.right.columns) < Cardinality(f.columns)
<1>1. /\ f.left \in FromClauses /\ f.right \in FromClauses
      /\ f.columns = f.left.columns \cup f.right.columns
      /\ f.left.columns \cap f.right.columns = {} /\ IsFiniteSet(f.columns)
  BY Shape
<1>2. f.left.columns # {} /\ f.right.columns # {}
  BY <1>1, Shape
<1>3. /\ f.left.columns \in SUBSET f.columns /\ f.left.columns # f.columns
      /\ f.right.columns \in SUBSET f.columns /\ f.right.columns # f.columns
  BY <1>1, <1>2
<1> QED
  BY <1>1, <1>3, FS_Subset, FS_CardinalityType

\* Induction over the FROM clauses, the property given as a set of them.
LEMMA FromInduction ==
    ASSUME NEW S,
           \A f \in FromClauses : IsTable(f) => f \in S,
           \A f \in FromClauses : ~IsTable(f) /\ f.left \in S /\ f.right \in S => f \in S
    PROVE  FromClauses \subseteq S
<1> DEFINE P == {n \in Nat : \A f \in FromClauses : Cardinality(f.columns) <= n => f \in S}
<1>0. \A f \in FromClauses : Cardinality(f.columns) \in Nat /\ Cardinality(f.columns) # 0
  BY Shape, FS_CardinalityType, FS_EmptySet
<1>1. 0 \in P
  BY <1>0
<1>2. ASSUME NEW n \in Nat, n \in P PROVE n + 1 \in P
  <2> SUFFICES ASSUME NEW f \in FromClauses, Cardinality(f.columns) <= n + 1 PROVE f \in S
    OBVIOUS
  <2>1. CASE ~IsTable(f)
    <3>1. f.left \in FromClauses /\ f.right \in FromClauses
      BY <2>1, Shape
    <3>2. Cardinality(f.left.columns) <= n /\ Cardinality(f.right.columns) <= n
      BY <1>0, <2>1, <3>1, PartsAreSmaller
    <3> QED
      BY <1>2, <2>1, <3>1, <3>2
  <2> QED
    BY <2>1
<1>3. \A n \in Nat : n \in P
  <2> HIDE DEF P
  <2>1. \A n \in Nat : n >= 0 => n \in P
    BY <1>1, <1>2, InductionFrom
  <2> QED
    BY <2>1
<1> QED
  BY <1>0, <1>3

\* A function on FROM clauses that looks at the values of their parts.
Rule(D, S) ==
    /\ S # {}
    /\ \A f \in FromClauses, g \in [FromClauses -> S] : D[<<f, g>>] \in S
    /\ \A f \in FromClauses, g, h \in [FromClauses -> S] :
          (~IsTable(f) => g[f.left] = h[f.left] /\ g[f.right] = h[f.right]) =>
             D[<<f, g>>] = D[<<f, h>>]

LEMMA FromRecursion ==
    ASSUME NEW S, NEW D, Rule(D, S)
    PROVE  \E g \in [FromClauses -> S] : \A f \in FromClauses : g[f] = D[<<f, g>>]
<1> DEFINE h == [f \in FromClauses |-> Cardinality(f.columns)]
           C == [q \in FromClauses \X [FromClauses -> S] |-> D[<<q[1], q[2]>>]]
<1>1. h \in [FromClauses -> Nat]
  BY Shape, FS_CardinalityType
<1>2. \A f \in FromClauses, g \in [FromClauses -> S] : C[<<f, g>>] = D[<<f, g>>]
  OBVIOUS
<1>3. C \in [FromClauses \X [FromClauses -> S] -> S]
  BY DEF Rule
<1>4. ASSUME NEW f \in FromClauses, NEW g \in [FromClauses -> S], NEW k \in [FromClauses -> S],
             \A d \in FromClauses : h[d] < h[f] => g[d] = k[d]
      PROVE  C[<<f, g>>] = C[<<f, k>>]
  <2>1. ~IsTable(f) => g[f.left] = k[f.left] /\ g[f.right] = k[f.right]
    BY <1>4, PartsAreSmaller, Shape
  <2> QED
    BY <1>2, <2>1 DEF Rule
<1> HIDE DEF h, C
<1>5. Recurses(C, FromClauses, S, h)
  BY <1>1, <1>3, <1>4 DEF Recurses, Rule
<1>6. PICK g : Solves(g, C, FromClauses, S)
  BY <1>5, TreeRecursion
<1> QED
  BY <1>2, <1>6 DEF Solves

-----------------------------------------------------------------------------
\* What the recursive functions of Select return, clause by clause.
LEMMA JoinsOfIs ==
    ASSUME NEW f \in FromClauses
    PROVE  JoinsOf(f) = IF IsTable(f) THEN {} ELSE {f} \cup JoinsOf(f.left) \cup JoinsOf(f.right)
<1> DEFINE rule(e, g) == IF e.type = "table" THEN {} ELSE {e} \cup g[e.left] \cup g[e.right]
           D == [w \in FromClauses \X [FromClauses -> SUBSET FromClauses] |-> rule(w[1], w[2])]
           Defines(g) == g = [e \in FromClauses |-> rule(e, g)]
           joins == CHOOSE g : Defines(g)
<1>1. \A e \in FromClauses, g \in [FromClauses -> SUBSET FromClauses] : D[<<e, g>>] = rule(e, g)
  OBVIOUS
<1>2. Rule(D, SUBSET FromClauses)
  <2> HIDE DEF D
  <2>1. \A e \in FromClauses, g \in [FromClauses -> SUBSET FromClauses] :
           rule(e, g) \in SUBSET FromClauses
    BY PartsAreFromClauses DEF IsTable
  <2>2. \A e \in FromClauses, g, h \in [FromClauses -> SUBSET FromClauses] :
           (~IsTable(e) => g[e.left] = h[e.left] /\ g[e.right] = h[e.right]) =>
              rule(e, g) = rule(e, h)
    BY DEF IsTable
  <2> HIDE DEF rule
  <2> QED
    BY <1>1, <2>1, <2>2 DEF Rule
<1>3. PICK g \in [FromClauses -> SUBSET FromClauses] : \A e \in FromClauses : g[e] = D[<<e, g>>]
  <2> HIDE DEF D
  <2> QED
    BY <1>2, FromRecursion
<1>4. Defines(g)
  BY <1>1, <1>3
<1>5. Defines(joins)
  <2> HIDE DEF Defines
  <2> QED
    BY <1>4
<1>6. \A e \in FromClauses : joins[e] = rule(e, joins)
  <2> HIDE DEF joins, rule
  <2> QED
    BY <1>5
<1>7. \A e \in FromClauses : JoinsOf(e) = joins[e]
  BY DEF JoinsOf
<1> HIDE DEF joins
<1> QED
  BY <1>6, <1>7, PartsAreFromClauses DEF IsTable

\* Tuples of any tables, in a world of any rows.
SomeTuples ==
    UNION {[C -> Nat \cup UNION {DOMAIN tables[t] : t \in Tables}] : C \in SUBSET Tables}

LEMMA SomeTuplesClosed ==
    /\ \A t \in Tables : \A r \in DOMAIN tables[t] : Row(t, r) \in SomeTuples
    /\ \A s, t \in SomeTuples : JoinTuples(s, t) \in SomeTuples
    /\ \A f \in FromClauses, t \in SomeTuples : NullExtended(f, t) \in SomeTuples
    /\ \A f \in FromClauses : Nulls(f.columns) \in SomeTuples
<1> DEFINE V == Nat \cup UNION {DOMAIN tables[t] : t \in Tables}
<1>1. \A C \in SUBSET Tables : \A t \in [C -> V] : t \in SomeTuples
  BY DEF SomeTuples
<1>2. \A t \in SomeTuples : \E C \in SUBSET Tables : t \in [C -> V]
  BY DEF SomeTuples
<1>3. 0 \in V
  OBVIOUS
<1>4. ASSUME NEW t \in Tables, NEW r \in DOMAIN tables[t] PROVE Row(t, r) \in SomeTuples
  <2>1. r \in V
    OBVIOUS
  <2> HIDE DEF V
  <2>2. Row(t, r) \in [{t} -> V]
    BY <2>1 DEF Row
  <2> QED
    BY <1>1, <2>2
<1> HIDE DEF V
<1>5. ASSUME NEW s \in SomeTuples, NEW t \in SomeTuples PROVE JoinTuples(s, t) \in SomeTuples
  <2>1. PICK C \in SUBSET Tables, E \in SUBSET Tables : s \in [C -> V] /\ t \in [E -> V]
    BY <1>2
  <2>2. JoinTuples(s, t) \in [C \cup E -> V]
    BY <2>1 DEF JoinTuples
  <2> QED
    BY <1>1, <2>2
<1>6. ASSUME NEW f \in FromClauses, NEW t \in SomeTuples PROVE NullExtended(f, t) \in SomeTuples
  <2>1. PICK C \in SUBSET Tables : t \in [C -> V]
    BY <1>2
  <2>2. NullExtended(f, t) \in [f.columns -> V]
    BY <1>3, <2>1 DEF NullExtended
  <2> QED
    BY <1>1, <2>2, Shape
<1>7. \A f \in FromClauses : Nulls(f.columns) \in [f.columns -> V]
  BY <1>3 DEF Nulls
<1> QED
  BY <1>1, <1>4, <1>5, <1>6, <1>7, Shape

LEMMA PlansAreParts ==
    ASSUME NEW f \in FromClauses, ~IsTable(f)
    PROVE  \/ LeftPlan(f) = f.left /\ RightPlan(f) = f.right
           \/ LeftPlan(f) = f.right /\ RightPlan(f) = f.left
BY DEF LeftPlan, RightPlan

LEMMA VisitedRows == \A t : Visited(t) \subseteq DOMAIN tables[t]
BY DEF Visited, StartRows, Least

LEMMA RowsIs ==
    ASSUME NEW I, NEW f \in FromClauses
    PROVE  Rows(f, I) = IF IsTable(f) THEN ScanRows(f.table, I)
                        ELSE LoopRows(f, Rows(LeftPlan(f), I), Rows(RightPlan(f), I))
<1> DEFINE rule(e, g) == IF e.type = "table" THEN ScanRows(e.table, I)
                         ELSE LoopRows(e, g[LeftPlan(e)], g[RightPlan(e)])
           S == SUBSET SomeTuples
           D == [w \in FromClauses \X [FromClauses -> S] |-> rule(w[1], w[2])]
           Defines(g) == g = [e \in FromClauses |-> rule(e, g)]
           rows == CHOOSE g : Defines(g)
<1>1. \A e \in FromClauses, g \in [FromClauses -> S] : D[<<e, g>>] = rule(e, g)
  OBVIOUS
<1>2. Rule(D, S)
  <2>1. ASSUME NEW t \in Tables PROVE ScanRows(t, I) \in S
    BY SomeTuplesClosed, VisitedRows DEF ScanRows, KeptRows
  <2>2. ASSUME NEW e \in FromClauses, NEW ls \in S, NEW rs \in S PROVE LoopRows(e, ls, rs) \in S
    <3>1. \A p \in Matching(ls, rs, e.on) : JoinTuples(p[1], p[2]) \in SomeTuples
      BY SomeTuplesClosed DEF Matching
    <3>2. \A l \in ls : NullExtended(e, l) \in SomeTuples
      BY SomeTuplesClosed
    <3> QED
      BY <3>1, <3>2 DEF LoopRows
  <2> HIDE DEF S
  <2>3. \A e \in FromClauses, g \in [FromClauses -> S] : rule(e, g) \in S
    BY <2>1, <2>2, Shape, PlansAreParts DEF IsTable
  <2>4. \A e \in FromClauses, g, h \in [FromClauses -> S] :
           (~IsTable(e) => g[e.left] = h[e.left] /\ g[e.right] = h[e.right]) =>
              rule(e, g) = rule(e, h)
    BY PlansAreParts DEF IsTable
  <2>5. S # {}
    BY DEF S
  <2> HIDE DEF D, rule
  <2> QED
    BY <1>1, <2>3, <2>4, <2>5 DEF Rule
<1> HIDE DEF S
<1>3. PICK g \in [FromClauses -> S] : \A e \in FromClauses : g[e] = D[<<e, g>>]
  <2> HIDE DEF D
  <2> QED
    BY <1>2, FromRecursion
<1>4. Defines(g)
  <2> HIDE DEF D, rule
  <2> QED
    BY <1>1, <1>3
<1>5. Defines(rows)
  <2> HIDE DEF Defines
  <2> QED
    BY <1>4
<1>6. \A e \in FromClauses : rows[e] = rule(e, rows)
  <2> HIDE DEF rows, rule
  <2> QED
    BY <1>5
<1>7. \A e \in FromClauses : Rows(e, I) = rows[e]
  BY DEF Rows
<1> HIDE DEF rows
<1> QED
  BY <1>6, <1>7, Shape, PlansAreParts DEF IsTable

LEMMA JoinedIs ==
    ASSUME NEW f \in FromClauses
    PROVE  Joined(f) = IF IsTable(f) THEN {Row(f.table, i) : i \in DOMAIN tables[f.table]}
                       ELSE JoinedRows(f, Joined(f.left), Joined(f.right))
<1> DEFINE rule(e, g) == IF e.type = "table" THEN {Row(e.table, i) : i \in DOMAIN tables[e.table]}
                         ELSE JoinedRows(e, g[e.left], g[e.right])
           S == SUBSET SomeTuples
           D == [w \in FromClauses \X [FromClauses -> S] |-> rule(w[1], w[2])]
           Defines(g) == g = [e \in FromClauses |-> rule(e, g)]
           joined == CHOOSE g : Defines(g)
<1>1. \A e \in FromClauses, g \in [FromClauses -> S] : D[<<e, g>>] = rule(e, g)
  OBVIOUS
<1>2. Rule(D, S)
  <2>1. ASSUME NEW t \in Tables PROVE {Row(t, i) : i \in DOMAIN tables[t]} \in S
    BY SomeTuplesClosed
  <2>2. ASSUME NEW e \in FromClauses, ~IsTable(e), NEW ls \in S, NEW rs \in S
        PROVE  JoinedRows(e, ls, rs) \in S
    <3>1. \A p \in Matching(ls, rs, e.on) : JoinTuples(p[1], p[2]) \in SomeTuples
      BY SomeTuplesClosed DEF Matching
    <3>2. /\ \A l \in ls : JoinTuples(l, Nulls(e.right.columns)) \in SomeTuples
          /\ \A r \in rs : JoinTuples(r, Nulls(e.left.columns)) \in SomeTuples
      BY <2>2, SomeTuplesClosed, Shape
    <3> QED
      BY <3>1, <3>2 DEF JoinedRows
  <2> HIDE DEF S
  <2>3. \A e \in FromClauses, g \in [FromClauses -> S] : rule(e, g) \in S
    BY <2>1, <2>2, Shape DEF IsTable
  <2>4. \A e \in FromClauses, g, h \in [FromClauses -> S] :
           (~IsTable(e) => g[e.left] = h[e.left] /\ g[e.right] = h[e.right]) =>
              rule(e, g) = rule(e, h)
    BY DEF IsTable
  <2>5. S # {}
    BY DEF S
  <2> HIDE DEF D, rule
  <2> QED
    BY <1>1, <2>3, <2>4, <2>5 DEF Rule
<1> HIDE DEF S
<1>3. PICK g \in [FromClauses -> S] : \A e \in FromClauses : g[e] = D[<<e, g>>]
  <2> HIDE DEF D
  <2> QED
    BY <1>2, FromRecursion
<1>4. Defines(g)
  <2> HIDE DEF D, rule
  <2> QED
    BY <1>1, <1>3
<1>5. Defines(joined)
  <2> HIDE DEF Defines
  <2> QED
    BY <1>4
<1>6. \A e \in FromClauses : joined[e] = rule(e, joined)
  <2> HIDE DEF joined, rule
  <2> QED
    BY <1>5
<1>7. \A e \in FromClauses : Joined(e) = joined[e]
  BY DEF Joined
<1> HIDE DEF joined
<1> QED
  BY <1>6, <1>7, PartsAreFromClauses DEF IsTable

-----------------------------------------------------------------------------
\* The parts of a FROM clause are a tree, ordered by their columns.
Parts(from) == JoinsOf(from) \cup {RangeVar(t) : t \in from.columns}
Under(x, y) == x.columns \subseteq y.columns

Tree(P, from) ==
    /\ P \subseteq FromClauses /\ from \in P
    /\ \A x \in P : Under(x, from)
    /\ \A x \in P : ~IsTable(x) => x.left \in P /\ x.right \in P
    /\ \A x, y \in P : x.columns = y.columns => x = y
    /\ \A x, g \in P : ~IsTable(g) /\ Under(x, g) => x = g \/ Under(x, g.left) \/ Under(x, g.right)
    /\ \A g, y \in P : ~IsTable(g) =>
          /\ Under(g.left, y) => y = g.left \/ Under(g, y)
          /\ Under(g.right, y) => y = g.right \/ Under(g, y)

LEMMA TreeOfTable ==
    ASSUME NEW f \in FromClauses, IsTable(f)
    PROVE  Tree({f}, f)
BY DEF Tree, Under

LEMMA TreeOfJoin ==
    ASSUME NEW f \in FromClauses, ~IsTable(f), NEW P, NEW Q, Tree(P, f.left), Tree(Q, f.right)
    PROVE  Tree({f} \cup P \cup Q, f)
<1> DEFINE T == {f} \cup P \cup Q
<1>1. /\ f.left \in FromClauses /\ f.right \in FromClauses
      /\ f.columns = f.left.columns \cup f.right.columns
      /\ f.left.columns \cap f.right.columns = {}
      /\ f.left.columns # {} /\ f.right.columns # {}
  BY Shape
<1>2. T \subseteq FromClauses /\ f \in T /\ f.left \in T /\ f.right \in T
  BY DEF Tree
<1>3. \A x \in P : x \in FromClauses /\ x.columns # {} /\ Under(x, f.left)
  BY Shape DEF Tree
<1>4. \A x \in Q : x \in FromClauses /\ x.columns # {} /\ Under(x, f.right)
  BY Shape DEF Tree
<1>5. /\ \A x \in P : Under(x, f) /\ ~Under(f, x) /\ ~Under(x, f.right) /\ ~Under(f.right, x)
      /\ \A x \in Q : Under(x, f) /\ ~Under(f, x) /\ ~Under(x, f.left) /\ ~Under(f.left, x)
      /\ \A x \in P, y \in Q : ~Under(x, y) /\ ~Under(y, x)
  BY <1>1, <1>3, <1>4 DEF Under
<1>6. \A x \in P : ~IsTable(x) => x.left \in P /\ x.right \in P
  BY DEF Tree
<1>7. \A x \in Q : ~IsTable(x) => x.left \in Q /\ x.right \in Q
  BY DEF Tree
<1>8. \A x \in T : Under(x, f)
  BY <1>5 DEF Under
<1>9. ASSUME NEW x \in T, NEW y \in T, x.columns = y.columns PROVE x = y
  <2>1. Under(x, y) /\ Under(y, x)
    BY <1>9 DEF Under
  <2> QED
    BY <1>5, <1>9, <2>1 DEF Tree
<1>10. ASSUME NEW x \in T, NEW g \in T, ~IsTable(g), Under(x, g)
       PROVE  x = g \/ Under(x, g.left) \/ Under(x, g.right)
  <2>1. CASE g = f
    BY <1>3, <1>4, <2>1
  <2>2. CASE g \in P
    <3>1. x \in P
      BY <1>5, <1>10, <2>2
    <3> QED
      BY <1>10, <2>2, <3>1 DEF Tree
  <2>3. CASE g \in Q
    <3>1. x \in Q
      BY <1>5, <1>10, <2>3
    <3> QED
      BY <1>10, <2>3, <3>1 DEF Tree
  <2> QED
    BY <2>1, <2>2, <2>3
<1>11. ASSUME NEW g \in T, NEW y \in T, ~IsTable(g)
       PROVE  /\ Under(g.left, y) => y = g.left \/ Under(g, y)
              /\ Under(g.right, y) => y = g.right \/ Under(g, y)
  <2>1. CASE y = f
    BY <1>8, <2>1
  <2>2. CASE g \in P /\ y # f
    <3>1. CASE y \in P
      BY <1>11, <2>2, <3>1 DEF Tree
    <3>2. CASE y \in Q
      BY <1>5, <1>6, <1>11, <2>2, <3>2
    <3> QED
      BY <2>2, <3>1, <3>2
  <2>3. CASE g \in Q /\ y # f
    <3>1. CASE y \in Q
      BY <1>11, <2>3, <3>1 DEF Tree
    <3>2. CASE y \in P
      BY <1>5, <1>7, <1>11, <2>3, <3>2
    <3> QED
      BY <2>3, <3>1, <3>2
  <2>4. CASE g = f /\ y # f
    <3>1. f.left \in P /\ f.right \in Q
      BY DEF Tree
    <3>2. ASSUME Under(f.left, y) PROVE y = f.left
      <4>1. y \in P
        BY <1>5, <2>4, <3>1, <3>2
      <4>2. y.columns = f.left.columns
        BY <1>3, <3>2, <4>1 DEF Under
      <4> QED
        BY <3>1, <4>1, <4>2 DEF Tree
    <3>3. ASSUME Under(f.right, y) PROVE y = f.right
      <4>1. y \in Q
        BY <1>5, <2>4, <3>1, <3>3
      <4>2. y.columns = f.right.columns
        BY <1>4, <3>3, <4>1 DEF Under
      <4> QED
        BY <3>1, <4>1, <4>2 DEF Tree
    <3> QED
      BY <2>4, <3>2, <3>3
  <2> QED
    BY <2>1, <2>2, <2>3, <2>4
<1> HIDE DEF T
<1> QED
  BY <1>2, <1>6, <1>7, <1>8, <1>9, <1>10, <1>11 DEF Tree, T

LEMMA PartsAreTree == \A f \in FromClauses : Tree(Parts(f), f)
<1> DEFINE S == {f \in FromClauses : Tree(Parts(f), f)}
<1>1. ASSUME NEW f \in FromClauses, IsTable(f) PROVE f \in S
  <2>1. \E t \in Tables : f = RangeVar(t) /\ f.columns = {t}
    BY <1>1, Shape
  <2>2. Parts(f) = {f}
    BY <1>1, <2>1, JoinsOfIs DEF Parts
  <2> QED
    BY <1>1, <2>2, TreeOfTable
<1>2. ASSUME NEW f \in FromClauses, ~IsTable(f), f.left \in S, f.right \in S PROVE f \in S
  <2>1. f.columns = f.left.columns \cup f.right.columns
    BY <1>2, Shape
  <2>2. Parts(f) = {f} \cup Parts(f.left) \cup Parts(f.right)
    BY <1>2, <2>1, JoinsOfIs DEF Parts
  <2> QED
    BY <1>2, <2>2, TreeOfJoin
<1> HIDE DEF S
<1>3. FromClauses \subseteq S
  BY <1>1, <1>2, FromInduction
<1> QED
  BY <1>3 DEF S

-----------------------------------------------------------------------------
\* The tuples that the columns of a plan node allow.
Tuples(columns) == {t \in [columns -> Nat] : \A c \in columns : t[c] <= Len(tables[c])}

\* What a query is about: rows for its tables, and indexes that its WHERE clause may use.
World ==
    /\ query \in Queries
    /\ tables \in [query.from.columns -> Contents]
    /\ indexed \in SUBSET {t \in ColumnsOf(query.where) : Null \notin ToSet(tables[t])}

LEMMA WorldIs ==
    ASSUME World
    PROVE  /\ query.from \in FromClauses
           /\ \A c \in query.from.columns : tables[c] \in Seq(Int \cup {Null})
           /\ \A c \in query.from.columns : Len(tables[c]) \in Nat
BY QueriesAssumption, ValuesAssumption DEF World

\* The children of a plan node share its columns among them.
LEMMA PlanShape ==
    ASSUME NEW f \in FromClauses, ~IsTable(f)
    PROVE  /\ LeftPlan(f) \in FromClauses /\ RightPlan(f) \in FromClauses
           /\ f.columns = LeftPlan(f).columns \cup RightPlan(f).columns
           /\ LeftPlan(f).columns \cap RightPlan(f).columns = {}
           /\ LeftPlan(f).columns # {} /\ RightPlan(f).columns # {} /\ f.columns # {}
BY Shape, PlansAreParts

LEMMA TuplesAreNotNull ==
    \A C : C # {} => NoTuple \notin Tuples(C)
BY DEF Tuples, NoTuple

\* A tuple of a nested loop holds one of each child, and tells which they were.
LEMMA JoinTuplesAre ==
    ASSUME World, NEW f \in FromClauses, ~IsTable(f), f.columns \subseteq query.from.columns,
           NEW l \in Tuples(LeftPlan(f).columns), NEW r \in Tuples(RightPlan(f).columns)
    PROVE  /\ JoinTuples(l, r) \in Tuples(f.columns)
           /\ \A c \in LeftPlan(f).columns : JoinTuples(l, r)[c] = l[c]
           /\ \A c \in RightPlan(f).columns : JoinTuples(l, r)[c] = r[c]
<1>1. l \in [LeftPlan(f).columns -> Nat] /\ r \in [RightPlan(f).columns -> Nat]
  BY DEF Tuples
<1>2. JoinTuples(l, r) = [c \in f.columns |-> IF c \in LeftPlan(f).columns THEN l[c] ELSE r[c]]
  BY <1>1, PlanShape DEF JoinTuples
<1> QED
  BY <1>1, <1>2, PlanShape DEF Tuples

LEMMA JoinTuplesTell ==
    ASSUME World, NEW f \in FromClauses, ~IsTable(f), f.columns \subseteq query.from.columns,
           NEW l \in Tuples(LeftPlan(f).columns), NEW r \in Tuples(RightPlan(f).columns),
           NEW k \in Tuples(LeftPlan(f).columns), NEW s \in Tuples(RightPlan(f).columns),
           JoinTuples(l, r) = JoinTuples(k, s)
    PROVE  l = k /\ r = s
<1>1. /\ l \in [LeftPlan(f).columns -> Nat] /\ r \in [RightPlan(f).columns -> Nat]
      /\ k \in [LeftPlan(f).columns -> Nat] /\ s \in [RightPlan(f).columns -> Nat]
  BY DEF Tuples
<1>2. /\ \A c \in LeftPlan(f).columns : l[c] = k[c]
      /\ \A c \in RightPlan(f).columns : r[c] = s[c]
  BY JoinTuplesAre
<1> QED
  BY <1>1, <1>2

LEMMA NullExtendedIs ==
    ASSUME World, NEW f \in FromClauses, ~IsTable(f), f.columns \subseteq query.from.columns,
           NEW l \in Tuples(LeftPlan(f).columns)
    PROVE  /\ Nulls(RightPlan(f).columns) \in Tuples(RightPlan(f).columns)
           /\ NullExtended(f, l) = JoinTuples(l, Nulls(RightPlan(f).columns))
<1>1. \A c \in RightPlan(f).columns : Len(tables[c]) \in Nat
  BY PlanShape, WorldIs
<1>2. Nulls(RightPlan(f).columns) \in Tuples(RightPlan(f).columns)
  BY <1>1 DEF Nulls, Tuples
<1>3. l \in [LeftPlan(f).columns -> Nat]
  BY DEF Tuples
<1>4. JoinTuples(l, Nulls(RightPlan(f).columns)) =
         [c \in f.columns |-> IF c \in LeftPlan(f).columns THEN l[c] ELSE 0]
  BY <1>3, PlanShape DEF JoinTuples, Nulls
<1> QED
  BY <1>2, <1>3, <1>4 DEF NullExtended

-----------------------------------------------------------------------------
\* What a nested loop gives for one left tuple, if the right child gives rs and lonely says
\* whether none has matched before.
Matches(f, l, rs) == {r \in rs : Keeps(f.on, JoinTuples(l, r))}
Current(f, l, rs, lonely) ==
    {JoinTuples(l, r) : r \in Matches(f, l, rs)}
    \cup (IF Extends(f, lonely) /\ Matches(f, l, rs) = {} THEN {NullExtended(f, l)} ELSE {})

LEMMA LoopRowsIs ==
    ASSUME NEW f, NEW ls, NEW rs
    PROVE  LoopRows(f, ls, rs) = UNION {Current(f, l, rs, TRUE) : l \in ls}
<1> DEFINE left == UNION {Current(f, l, rs, TRUE) : l \in ls}
<1>1. ASSUME NEW t \in LoopRows(f, ls, rs) PROVE t \in left
  <2>1. CASE \E p \in Matching(ls, rs, f.on) : t = JoinTuples(p[1], p[2])
    <3>1. PICK l \in ls, r \in rs : Keeps(f.on, JoinTuples(l, r)) /\ t = JoinTuples(l, r)
      BY <2>1 DEF Matching
    <3>2. t \in Current(f, l, rs, TRUE)
      BY <3>1 DEF Current, Matches
    <3> QED
      BY <3>2
  <2>2. CASE ~\E p \in Matching(ls, rs, f.on) : t = JoinTuples(p[1], p[2])
    <3>1. /\ f.method \in {"left", "right"}
          /\ \E l \in ls : t = NullExtended(f, l) /\ \A r \in rs : ~Keeps(f.on, JoinTuples(l, r))
      BY <2>2 DEF LoopRows
    <3>2. PICK l \in ls : t = NullExtended(f, l) /\ \A r \in rs : ~Keeps(f.on, JoinTuples(l, r))
      BY <3>1
    <3>3. t \in Current(f, l, rs, TRUE)
      BY <3>1, <3>2 DEF Current, Extends, Matches
    <3> QED
      BY <3>3
  <2> QED
    BY <2>1, <2>2
<1>2. ASSUME NEW l \in ls, NEW t \in Current(f, l, rs, TRUE) PROVE t \in LoopRows(f, ls, rs)
  <2>1. CASE \E r \in Matches(f, l, rs) : t = JoinTuples(l, r)
    <3>1. PICK r \in rs : Keeps(f.on, JoinTuples(l, r)) /\ t = JoinTuples(l, r)
      BY <2>1 DEF Matches
    <3>2. <<l, r>> \in Matching(ls, rs, f.on) /\ <<l, r>>[1] = l /\ <<l, r>>[2] = r
      BY <3>1 DEF Matching
    <3> HIDE DEF left
    <3> QED
      BY <3>1, <3>2 DEF LoopRows
  <2>2. CASE ~\E r \in Matches(f, l, rs) : t = JoinTuples(l, r)
    <3>1. t = NullExtended(f, l) /\ Extends(f, TRUE) /\ Matches(f, l, rs) = {}
      BY <2>2 DEF Current
    <3>2. \A r \in rs : ~Keeps(f.on, JoinTuples(l, r))
      BY <3>1 DEF Matches
    <3> HIDE DEF left
    <3> QED
      BY <3>1, <3>2 DEF LoopRows, Extends
  <2> QED
    BY <2>1, <2>2
<1> QED
  BY <1>1, <1>2

LEMMA CurrentType ==
    ASSUME World, NEW f \in FromClauses, ~IsTable(f), f.columns \subseteq query.from.columns,
           NEW l \in Tuples(LeftPlan(f).columns), NEW rs \in SUBSET Tuples(RightPlan(f).columns),
           NEW lonely \in BOOLEAN, NEW t \in Current(f, l, rs, lonely)
    PROVE  \E r \in Tuples(RightPlan(f).columns) : t = JoinTuples(l, r)
BY NullExtendedIs DEF Current, Matches

LEMMA LoopRowsType ==
    ASSUME World, NEW f \in FromClauses, ~IsTable(f), f.columns \subseteq query.from.columns,
           NEW ls \in SUBSET Tuples(LeftPlan(f).columns),
           NEW rs \in SUBSET Tuples(RightPlan(f).columns), NEW t \in LoopRows(f, ls, rs)
    PROVE  \E l \in ls, r \in Tuples(RightPlan(f).columns) : t = JoinTuples(l, r)
<1>1. PICK l \in ls : t \in Current(f, l, rs, TRUE)
  BY LoopRowsIs
<1>2. l \in Tuples(LeftPlan(f).columns)
  OBVIOUS
<1>3. \E r \in Tuples(RightPlan(f).columns) : t = JoinTuples(l, r)
  BY <1>1, <1>2, CurrentType
<1> QED
  BY <1>3

All(f) == Rows(f, indexed)

LEMMA RowTuple ==
    ASSUME World, NEW t \in query.from.columns, NEW r \in DOMAIN tables[t]
    PROVE  Row(t, r) \in Tuples({t})
<1>1. r \in Nat /\ r <= Len(tables[t])
  BY WorldIs
<1> QED
  BY <1>1 DEF Row, Tuples

LEMMA RowsType ==
    ASSUME World, NEW I
    PROVE  \A f \in FromClauses : f.columns \subseteq query.from.columns =>
              Rows(f, I) \subseteq Tuples(f.columns)
<1> DEFINE S == {f \in FromClauses : f.columns \subseteq query.from.columns =>
                                         Rows(f, I) \subseteq Tuples(f.columns)}
<1>1. ASSUME NEW f \in FromClauses, IsTable(f) PROVE f \in S
  <2>1. f.table \in Tables /\ f.columns = {f.table}
    BY <1>1, Shape
  <2>2. Rows(f, I) \subseteq {Row(f.table, r) : r \in DOMAIN tables[f.table]}
    <3>1. Rows(f, I) = ScanRows(f.table, I)
      BY <1>1, RowsIs
    <3>2. KeptRows(f.table) \subseteq DOMAIN tables[f.table]
      BY VisitedRows DEF KeptRows
    <3> QED
      BY <3>1, <3>2 DEF ScanRows
  <2> QED
    BY <2>1, <2>2, RowTuple
<1>2. ASSUME NEW f \in FromClauses, ~IsTable(f), f.left \in S, f.right \in S PROVE f \in S
  <2> SUFFICES ASSUME f.columns \subseteq query.from.columns, NEW t \in Rows(f, I)
               PROVE  t \in Tuples(f.columns)
    OBVIOUS
  <2>1. /\ Rows(LeftPlan(f), I) \in SUBSET Tuples(LeftPlan(f).columns)
        /\ Rows(RightPlan(f), I) \in SUBSET Tuples(RightPlan(f).columns)
    BY <1>2, PlansAreParts, PlanShape
  <2>2. t \in LoopRows(f, Rows(LeftPlan(f), I), Rows(RightPlan(f), I))
    BY <1>2, RowsIs
  <2> QED
    BY <1>2, <2>1, <2>2, LoopRowsType, JoinTuplesAre
<1> HIDE DEF S
<1>3. FromClauses \subseteq S
  BY <1>1, <1>2, FromInduction
<1> QED
  BY <1>3 DEF S

-----------------------------------------------------------------------------
\* No step changes the rows, the indexes or the query, nor what depends on them alone.
LEMMA ConditionFrame ==
    ASSUME UNCHANGED input
    PROVE  /\ \A t, c : GetCol(t, c)' = GetCol(t, c)
           /\ \A cond, t : Keeps(cond, t)' <=> Keeps(cond, t)
           /\ \A cond, t : IsNull(cond, t)' <=> IsNull(cond, t)
BY DEF input, GetCol, Keeps, IsNull, EvalExpr, Term

LEMMA LoopFrame ==
    ASSUME UNCHANGED input
    PROVE  /\ \A f, l, rs : Matches(f, l, rs)' = Matches(f, l, rs)
           /\ \A f, l, rs, lonely : Current(f, l, rs, lonely)' = Current(f, l, rs, lonely)
           /\ \A f, ls, rs : LoopRows(f, ls, rs)' = LoopRows(f, ls, rs)
<1>1. \A f, l, rs : Matches(f, l, rs)' = Matches(f, l, rs)
  BY ConditionFrame DEF Matches
<1>2. \A f, l, rs, lonely : Current(f, l, rs, lonely)' = Current(f, l, rs, lonely)
  BY <1>1 DEF Current, NullExtended
<1>3. \A ls, rs, on : Matching(ls, rs, on)' = Matching(ls, rs, on)
  BY ConditionFrame DEF Matching
<1>4. \A f, ls, rs : LoopRows(f, ls, rs)' = LoopRows(f, ls, rs)
  BY <1>3, ConditionFrame DEF LoopRows, NullExtended
<1> QED
  BY <1>1, <1>2, <1>4

LEMMA IndexFrame ==
    ASSUME UNCHANGED input
    PROVE  /\ \A t, r, s : Precedes(t, r, s)' <=> Precedes(t, r, s)
           /\ \A t, r, s : Before(t, r, s)' <=> Before(t, r, s)
           /\ \A t, I : UsesIndex(t, I)' <=> UsesIndex(t, I)
           /\ \A t : Visited(t)' = Visited(t)
           /\ \A t : KeptRows(t)' = KeptRows(t)
<1>1. \A t, r, s : Precedes(t, r, s)' <=> Precedes(t, r, s)
  BY DEF input, Precedes
<1>2. \A t, r, s : Before(t, r, s)' <=> Before(t, r, s)
  BY <1>1 DEF input, Before
<1>3. \A t, I : UsesIndex(t, I)' <=> UsesIndex(t, I)
  BY DEF input, UsesIndex
<1>4. \A t, rows : Least(t, rows)' = Least(t, rows)
  BY <1>1 DEF Least
<1>5. \A t : StartRows(t)' = StartRows(t)
  BY DEF input, StartRows
<1>6. \A t : Visited(t)' = Visited(t)
  BY <1>1, <1>4, <1>5 DEF input, Visited
<1>7. \A t : KeptRows(t)' = KeptRows(t)
  BY <1>6, ConditionFrame DEF input, KeptRows
<1> QED
  BY <1>1, <1>2, <1>3, <1>6, <1>7

\* RowsIs in the state after a step.
RowsAre ==
    \A I : \A f \in FromClauses :
        Rows(f, I) = IF IsTable(f) THEN ScanRows(f.table, I)
                     ELSE LoopRows(f, Rows(LeftPlan(f), I), Rows(RightPlan(f), I))

LEMMA RowsAreAlways == RowsAre
BY RowsIs DEF RowsAre

LEMMA RowsFrame ==
    ASSUME UNCHANGED input, NEW I
    PROVE  \A f \in FromClauses : Rows(f, I)' = Rows(f, I)
<1> DEFINE S == {f \in FromClauses : Rows(f, I)' = Rows(f, I)}
<1>1. \A t : ScanRows(t, I)' = ScanRows(t, I)
  BY IndexFrame DEF input, ScanRows
<1>2. RowsAre'
  BY RowsAreAlways, PTL
<1>3. ASSUME NEW f \in FromClauses, IsTable(f) PROVE f \in S
  <2>1. Rows(f, I)' = ScanRows(f.table, I)'
    BY <1>2, <1>3 DEF RowsAre
  <2> QED
    BY <1>1, <1>3, <2>1, RowsIs
<1>4. ASSUME NEW f \in FromClauses, ~IsTable(f), f.left \in S, f.right \in S PROVE f \in S
  <2>1. Rows(LeftPlan(f), I)' = Rows(LeftPlan(f), I) /\ Rows(RightPlan(f), I)' = Rows(RightPlan(f), I)
    BY <1>4, PlansAreParts
  <2>2. Rows(f, I)' = LoopRows(f, Rows(LeftPlan(f), I), Rows(RightPlan(f), I))'
    BY <1>2, <1>4 DEF RowsAre
  <2> QED
    BY <1>4, <2>1, <2>2, LoopFrame, RowsIs
<1> HIDE DEF S
<1>5. FromClauses \subseteq S
  BY <1>3, <1>4, FromInduction
<1> QED
  BY <1>5 DEF S

LEMMA InputFrame ==
    ASSUME UNCHANGED input
    PROVE  /\ query' = query /\ tables' = tables /\ indexed' = indexed
           /\ \A f \in FromClauses : All(f)' = All(f)
           /\ \A C : Tuples(C)' = Tuples(C)
           /\ World => World'
<1>1. query' = query /\ tables' = tables /\ indexed' = indexed
  BY DEF input
<1>2. \A f \in FromClauses : All(f)' = All(f)
  BY <1>1, RowsFrame DEF All
<1> QED
  BY <1>1, <1>2 DEF Tuples, World

-----------------------------------------------------------------------------
\* The plan of the query: its nodes, and those that join.
Plan == Parts(query.from)
Inner == {f \in Plan : ~IsTable(f)}

LEMMA InnerIs ==
    ASSUME World
    PROVE  JoinsOf(query.from) = Inner
<1> DEFINE S == {f \in FromClauses : \A g \in JoinsOf(f) : ~IsTable(g)}
<1>1. ASSUME NEW f \in FromClauses, IsTable(f) PROVE f \in S
  BY <1>1, JoinsOfIs
<1>2. ASSUME NEW f \in FromClauses, ~IsTable(f), f.left \in S, f.right \in S PROVE f \in S
  BY <1>2, JoinsOfIs
<1> HIDE DEF S
<1>3. FromClauses \subseteq S
  BY <1>1, <1>2, FromInduction
<1>4. \A t : IsTable(RangeVar(t))
  BY DEF IsTable, RangeVar
<1> QED
  BY <1>3, <1>4, WorldIs DEF S, Inner, Plan, Parts

LEMMA UnderIs ==
    /\ \A x : Under(x, x)
    /\ \A x, y, z : Under(x, y) /\ Under(y, z) => Under(x, z)
BY DEF Under

\* The plan as a tree: every node but the root has one parent.
PlanTree ==
    /\ Plan \subseteq FromClauses /\ query.from \in Plan
    /\ \A x \in Plan : Under(x, query.from) /\ x.columns \subseteq query.from.columns
    /\ \A g \in Inner : /\ LeftPlan(g) \in Plan /\ RightPlan(g) \in Plan
                        /\ Under(LeftPlan(g), g) /\ ~Under(g, LeftPlan(g))
                        /\ Under(RightPlan(g), g) /\ ~Under(g, RightPlan(g))
    /\ \A x \in Plan, g \in Inner :
          /\ Under(x, g) => x = g \/ Under(x, LeftPlan(g)) \/ Under(x, RightPlan(g))
          /\ ~(Under(x, LeftPlan(g)) /\ Under(x, RightPlan(g)))
    /\ \A g \in Inner, y \in Plan :
          /\ Under(LeftPlan(g), y) <=> y = LeftPlan(g) \/ Under(g, y)
          /\ Under(RightPlan(g), y) <=> y = RightPlan(g) \/ Under(g, y)
    /\ \A g, h \in Inner : /\ LeftPlan(g) = LeftPlan(h) => g = h
                           /\ RightPlan(g) = RightPlan(h) => g = h
                           /\ LeftPlan(g) # RightPlan(h)
    /\ \A g \in Inner : LeftPlan(g) # query.from /\ RightPlan(g) # query.from
    /\ \A t \in query.from.columns : RangeVar(t) \in Plan
    /\ \A x \in Plan : IsTable(x) => /\ x.table \in query.from.columns
                                     /\ x = RangeVar(x.table) /\ x.columns = {x.table}
                                     /\ \A g \in Inner : ~Under(g, x)

LEMMA PlanIsTree ==
    ASSUME World
    PROVE  PlanTree
<1> DEFINE P == Plan
<1>0. query.from \in FromClauses
  BY WorldIs
<1>1. Tree(P, query.from)
  BY <1>0, PartsAreTree DEF Plan
<1>2. \A t \in query.from.columns : RangeVar(t) \in P
  BY DEF Plan, Parts
<1>3. \A g \in Inner : g \in P /\ g \in FromClauses /\ ~IsTable(g)
  BY <1>1 DEF Inner, Tree
<1> HIDE DEF P
<1>4. ASSUME NEW x \in P
      PROVE  x \in FromClauses /\ Under(x, query.from) /\ x.columns \subseteq query.from.columns
  BY <1>1 DEF Tree, Under
<1>5. ASSUME NEW g \in Inner
      PROVE  /\ LeftPlan(g) \in P /\ RightPlan(g) \in P
             /\ Under(LeftPlan(g), g) /\ ~Under(g, LeftPlan(g))
             /\ Under(RightPlan(g), g) /\ ~Under(g, RightPlan(g))
  <2>1. LeftPlan(g) \in P /\ RightPlan(g) \in P
    BY <1>1, <1>3, PlansAreParts DEF Tree
  <2> QED
    BY <1>3, <2>1, PlanShape DEF Under
<1>6. ASSUME NEW x \in P, NEW g \in Inner
      PROVE  /\ Under(x, g) => x = g \/ Under(x, LeftPlan(g)) \/ Under(x, RightPlan(g))
             /\ ~(Under(x, LeftPlan(g)) /\ Under(x, RightPlan(g)))
  <2>1. Under(x, g) => x = g \/ Under(x, LeftPlan(g)) \/ Under(x, RightPlan(g))
    BY <1>1, <1>3, PlansAreParts DEF Tree
  <2>2. x.columns # {}
    BY <1>4, Shape
  <2> QED
    BY <1>3, <2>1, <2>2, PlanShape DEF Under
<1>7. ASSUME NEW g \in Inner, NEW y \in P
      PROVE  /\ Under(LeftPlan(g), y) <=> y = LeftPlan(g) \/ Under(g, y)
             /\ Under(RightPlan(g), y) <=> y = RightPlan(g) \/ Under(g, y)
  <2>1. /\ Under(LeftPlan(g), y) => y = LeftPlan(g) \/ Under(g, y)
        /\ Under(RightPlan(g), y) => y = RightPlan(g) \/ Under(g, y)
    BY <1>1, <1>3, PlansAreParts DEF Tree
  <2> QED
    BY <1>5, <2>1, UnderIs
<1>8. ASSUME NEW g \in Inner, NEW h \in Inner, NEW c \in {LeftPlan(g), RightPlan(g)},
             c \in {LeftPlan(h), RightPlan(h)}
      PROVE  g = h
  <2>1. c \in P /\ Under(c, g) /\ Under(c, h) /\ c # h /\ c # g
    BY <1>5, <1>8, UnderIs
  <2>2. Under(g, h) /\ Under(h, g)
    BY <1>3, <1>7, <1>8, <2>1
  <2>3. g.columns = h.columns
    BY <2>2 DEF Under
  <2> QED
    BY <1>1, <1>3, <2>3 DEF Tree
<1>9. \A g \in Inner : LeftPlan(g) # RightPlan(g)
  BY <1>3, PlanShape
<1>10. \A g \in Inner : LeftPlan(g) # query.from /\ RightPlan(g) # query.from
  BY <1>3, <1>4, <1>5
<1>11. ASSUME NEW x \in P, IsTable(x)
       PROVE  /\ x.table \in query.from.columns /\ x = RangeVar(x.table) /\ x.columns = {x.table}
              /\ \A g \in Inner : ~Under(g, x)
  <2>1. x.table \in query.from.columns /\ x = RangeVar(x.table) /\ x.columns = {x.table}
    BY <1>4, <1>11, Shape
  <2>2. ASSUME NEW g \in Inner, Under(g, x) PROVE FALSE
    <3>1. g.columns = x.columns
      BY <1>3, <2>1, <2>2, PlanShape DEF Under
    <3> QED
      BY <1>1, <1>3, <1>11, <3>1 DEF Tree
  <2> QED
    BY <2>1, <2>2
<1>12. query.from \in P
  BY <1>1 DEF Tree
<1>13. \A g, h \in Inner : /\ LeftPlan(g) = LeftPlan(h) => g = h
                           /\ RightPlan(g) = RightPlan(h) => g = h
                           /\ LeftPlan(g) # RightPlan(h)
  BY <1>8, <1>9
<1> QED
  BY <1>2, <1>4, <1>5, <1>6, <1>7, <1>10, <1>11, <1>12, <1>13 DEF PlanTree, P

-----------------------------------------------------------------------------
\* What is always true of the variables' values.
Nodes == Plan \cup {ResultNode} \cup (IF query.sort = None THEN {} ELSE {SortNode})
Gives(node) == IF node \in Plan THEN node.columns ELSE query.from.columns
OrNoTuple(S) == S \cup {NoTuple}

StepOK ==
    \/ \E n \in Nodes : step = Call(n)
    \/ \E n \in Nodes : \E t \in OrNoTuple(Tuples(Gives(n))) : step = Return(n, t)
    \/ /\ query.sort # None
       /\ \E i \in 1 .. Len(results) + 1 : \E j \in 1 .. i : step = Compare(i, j)

PosOK ==
    /\ pos \in [query.from.columns -> Nat]
    /\ \A t \in query.from.columns : pos[t] # 0 => pos[t] \in DOMAIN tables[t]

LoopsOK ==
    /\ cur \in [Inner -> OrNoTuple(UNION {Tuples(C) : C \in SUBSET Tables})]
    /\ \A f \in Inner : cur[f] \in OrNoTuple(Tuples(LeftPlan(f).columns))
    /\ needNew \in [Inner -> BOOLEAN] /\ noResult \in [Inner -> BOOLEAN]

TypeInv ==
    /\ World
    /\ PosOK /\ LoopsOK
    /\ results \in Seq(Tuples(query.from.columns)) /\ isSorted \in BOOLEAN /\ next \in Nat \ {0}
    /\ out \in Seq(Tuples(query.from.columns))
    /\ StepOK
    /\ status \in {"running", "done"} \cup Errors

LEMMA StepsAre ==
    /\ \A n : Call(n).does = "call" /\ Call(n).node = n
    /\ \A n, t : /\ Return(n, t).does = "return" /\ Return(n, t).node = n
                 /\ Return(n, t).tuple = t
    /\ \A i, j : Compare(i, j).does = "compare" /\ Compare(i, j).i = i /\ Compare(i, j).j = j
BY DEF Call, Return, Compare

\* Which step is which.
LEMMA StepIs ==
    ASSUME StepOK
    PROVE  /\ step.does = "call" => step.node \in Nodes /\ step = Call(step.node)
           /\ step.does = "return" =>
                 /\ step.node \in Nodes /\ step = Return(step.node, step.tuple)
                 /\ step.tuple \in OrNoTuple(Tuples(Gives(step.node)))
           /\ step.does = "compare" =>
                 /\ query.sort # None /\ step.i \in 1 .. Len(results) + 1 /\ step.j \in 1 .. step.i
                 /\ step = Compare(step.i, step.j)
BY StepsAre DEF StepOK

LEMMA TopNodes ==
    ASSUME World
    PROVE  /\ SortNode \notin Plan /\ ResultNode \notin Plan /\ SortNode # ResultNode
           /\ query.from \in Plan /\ query.from # SortNode /\ query.from # ResultNode
           /\ LeftOfResult \in Nodes /\ Gives(LeftOfResult) = query.from.columns
           /\ LeftOfResult # ResultNode
<1>1. SortNode.type = "sort" /\ ResultNode.type = "result"
  BY DEF SortNode, ResultNode
<1>2. \A f \in Plan : f.type = "table" \/ f.type = "join"
  BY PlanIsTree, Shape DEF PlanTree, IsTable
<1>3. query.from \in Plan
  BY PlanIsTree DEF PlanTree
<1> QED
  BY <1>1, <1>2, <1>3 DEF LeftOfResult, Nodes, Gives

-----------------------------------------------------------------------------
\* The rows that a scan has yet to come to.
ScanAhead(t) ==
    IF UsesIndex(t, indexed) THEN Ahead(t) ELSE {r \in DOMAIN tables[t] : r > pos[t]}

LEMMA RowsInOrder ==
    ASSUME World, NEW t \in query.from.columns, UsesIndex(t, indexed),
           NEW r \in DOMAIN tables[t], NEW s \in DOMAIN tables[t], NEW u \in DOMAIN tables[t]
    PROVE  ~Before(t, r, r) /\ (Before(t, r, s) /\ Before(t, s, u) => Before(t, r, u))
<1>1. tables[t] \in Seq(Int \cup {Null}) /\ Null \notin ToSet(tables[t])
  BY WorldIs DEF UsesIndex, World
<1>2. /\ r \in Nat /\ s \in Nat /\ u \in Nat
      /\ tables[t][r] \in Int /\ tables[t][s] \in Int /\ tables[t][u] \in Int
  BY <1>1 DEF ToSet
<1> QED
  BY <1>2 DEF Before, Precedes

\* A scan gives one of the rows ahead, which is then behind, or there is none.
ScanGives(t, r) ==
    /\ r \in ScanAhead(t) /\ r \in DOMAIN tables[t]
    /\ pos' = [pos EXCEPT ![t] = r]
    /\ ScanAhead(t)' = ScanAhead(t) \ {r}
    /\ step' = Return(RangeVar(t), Row(t, r))
ScanEnds(t) ==
    /\ ScanAhead(t) = {} /\ UNCHANGED pos
    /\ step' = Return(RangeVar(t), NoTuple)

LEMMA ScanSteps ==
    ASSUME World, NEW t \in query.from.columns, PosOK, SequentialScan(t) \/ IdxScan(t)
    PROVE  /\ UNCHANGED <<input, loops, sort, out, status>>
           /\ step = Call(RangeVar(t))
           /\ (\E r : ScanGives(t, r)) \/ ScanEnds(t)
<1>1. UNCHANGED <<input, loops, sort, out, status>> /\ step = Call(RangeVar(t))
  BY DEF SequentialScan, IdxScan, Continue
<1>2. /\ tables[t] \in Seq(Int \cup {Null})
      /\ pos \in [query.from.columns -> Nat] /\ (pos[t] # 0 => pos[t] \in DOMAIN tables[t])
  BY WorldIs DEF PosOK
<1>3. /\ UsesIndex(t, indexed)' <=> UsesIndex(t, indexed)
      /\ KeptRows(t)' = KeptRows(t) /\ tables' = tables
      /\ \A r, s : Before(t, r, s)' <=> Before(t, r, s)
  BY <1>1, IndexFrame, InputFrame
<1>4. CASE SequentialScan(t)
  <2>1. ScanAhead(t) = {r \in DOMAIN tables[t] : r > pos[t]}
    BY <1>4 DEF ScanAhead, SequentialScan
  <2>2. ScanAhead(t)' = {r \in DOMAIN tables[t] : r > pos'[t]}
    BY <1>3, <1>4 DEF ScanAhead, SequentialScan
  <2>3. CASE pos[t] < Len(tables[t]) /\ pos' = [pos EXCEPT ![t] = @ + 1]
    <3>1. pos[t] + 1 \in ScanAhead(t) /\ pos[t] + 1 \in DOMAIN tables[t] /\ pos'[t] = pos[t] + 1
      BY <1>2, <2>1, <2>3
    <3>2. ScanAhead(t)' = ScanAhead(t) \ {pos[t] + 1}
      BY <1>2, <2>1, <2>2, <3>1
    <3>3. step' = Return(RangeVar(t), Row(t, pos[t] + 1))
      BY <1>2, <1>4, <2>3 DEF SequentialScan, Continue
    <3>4. ScanGives(t, pos[t] + 1)
      BY <2>3, <3>1, <3>2, <3>3 DEF ScanGives
    <3> QED
      BY <1>1, <3>4
  <2>4. CASE pos[t] >= Len(tables[t]) /\ UNCHANGED pos
    <3>1. ScanAhead(t) = {}
      BY <1>2, <2>1, <2>4
    <3>2. step' = Return(RangeVar(t), NoTuple)
      BY <1>2, <1>4, <2>4 DEF SequentialScan, Continue
    <3> QED
      BY <1>1, <2>4, <3>1, <3>2 DEF ScanEnds
  <2> QED
    BY <1>4, <2>3, <2>4 DEF SequentialScan
<1>5. CASE IdxScan(t)
  <2>1. ScanAhead(t) = Ahead(t) /\ UsesIndex(t, indexed)
    BY <1>5 DEF ScanAhead, IdxScan
  <2>2. KeptRows(t) \subseteq DOMAIN tables[t]
    BY VisitedRows DEF KeptRows
  <2>3. CASE \E r \in Ahead(t) : /\ \A s \in Ahead(t) : s = r \/ Before(t, r, s)
                                 /\ pos' = [pos EXCEPT ![t] = r]
                                 /\ Continue(Return(RangeVar(t), Row(t, r)))
    <3>1. PICK r \in Ahead(t) : /\ \A s \in Ahead(t) : s = r \/ Before(t, r, s)
                                /\ pos' = [pos EXCEPT ![t] = r]
                                /\ Continue(Return(RangeVar(t), Row(t, r)))
      BY <2>3
    <3>2. r \in KeptRows(t) /\ r \in DOMAIN tables[t] /\ r \in Nat /\ r # 0
      BY <1>2, <2>2 DEF Ahead
    <3>3. pos'[t] = r
      BY <1>2, <3>1
    <3>4. ScanAhead(t)' = {s \in KeptRows(t) : Before(t, r, s)}
      BY <1>3, <2>1, <3>2, <3>3 DEF ScanAhead, Ahead
    <3>5. ASSUME NEW s \in KeptRows(t), Before(t, r, s) PROVE s \in Ahead(t) /\ s # r
      <4>1. s \in DOMAIN tables[t] /\ s # r
        BY <2>1, <2>2, <3>2, <3>5, RowsInOrder
      <4>2. CASE pos[t] = 0
        BY <4>1, <4>2 DEF Ahead
      <4>3. CASE pos[t] # 0
        <5>1. Before(t, pos[t], r)
          BY <4>3 DEF Ahead
        <5> QED
          BY <1>2, <2>1, <3>2, <3>5, <4>1, <4>3, <5>1, RowsInOrder DEF Ahead
      <4> QED
        BY <4>2, <4>3
    <3>6. ScanAhead(t)' = ScanAhead(t) \ {r}
      BY <2>1, <3>1, <3>4, <3>5 DEF Ahead
    <3>7. ScanGives(t, r)
      BY <2>1, <3>1, <3>2, <3>6 DEF ScanGives, Continue
    <3> QED
      BY <1>1, <3>7
  <2>4. CASE Ahead(t) = {} /\ Continue(Return(RangeVar(t), NoTuple)) /\ UNCHANGED pos
    BY <1>1, <2>1, <2>4 DEF ScanEnds, Continue
  <2> QED
    BY <1>5, <2>3, <2>4 DEF IdxScan
<1> QED
  BY <1>4, <1>5

-----------------------------------------------------------------------------
\* The types are kept: the cases are the actions.
LEMMA TypeFrame ==
    ASSUME TypeInv, UNCHANGED input
    PROVE  /\ World' /\ Nodes' = Nodes /\ Plan' = Plan /\ Inner' = Inner
           /\ \A n : Gives(n)' = Gives(n)
           /\ \A C : Tuples(C)' = Tuples(C)
           /\ DOMAIN cur = Inner /\ DOMAIN pos = query.from.columns
BY InputFrame DEF TypeInv, PosOK, LoopsOK, Nodes, Plan, Inner, Gives

LEMMA ContinueOK ==
    ASSUME TypeInv, NEW n \in Nodes, UNCHANGED input,
           step' = Call(n) \/ \E t \in OrNoTuple(Tuples(Gives(n))) : step' = Return(n, t)
    PROVE  StepOK'
<1>1. Nodes' = Nodes /\ Gives(n)' = Gives(n) /\ Tuples(Gives(n))' = Tuples(Gives(n))
  BY TypeFrame
<1>2. CASE step' = Call(n)
  BY <1>1, <1>2 DEF StepOK
<1>3. CASE \E t \in OrNoTuple(Tuples(Gives(n))) : step' = Return(n, t)
  <2>1. PICK t \in OrNoTuple(Tuples(Gives(n))) : step' = Return(n, t)
    BY <1>3
  <2>2. t \in OrNoTuple(Tuples(Gives(n)))'
    BY <1>1, <2>1 DEF OrNoTuple
  <2> QED
    BY <1>1, <2>1, <2>2 DEF StepOK
<1> QED
  BY <1>2, <1>3

LEMMA PlanNodes ==
    ASSUME World
    PROVE  /\ \A g \in Inner : /\ g \in Nodes /\ Gives(g) = g.columns
                               /\ g \in FromClauses /\ ~IsTable(g) /\ g.columns \subseteq query.from.columns
                               /\ LeftPlan(g) \in Nodes /\ Gives(LeftPlan(g)) = LeftPlan(g).columns
                               /\ RightPlan(g) \in Nodes /\ Gives(RightPlan(g)) = RightPlan(g).columns
                               /\ LeftPlan(g).columns \in SUBSET Tables
           /\ \A t \in query.from.columns : /\ RangeVar(t) \in Nodes /\ Gives(RangeVar(t)) = {t}
                                            /\ RangeVar(t) \in Plan
<1>1. PlanTree
  BY PlanIsTree
<1>2. \A g \in Inner : g \in Plan /\ ~IsTable(g) /\ g \in FromClauses /\ LeftPlan(g) \in FromClauses
  BY <1>1 DEF Inner, PlanTree
<1>3. \A g \in FromClauses : g.columns \in SUBSET Tables
  BY Shape
<1>4. \A t : RangeVar(t).columns = {t}
  BY DEF RangeVar
<1> QED
  BY <1>1, <1>2, <1>3, <1>4 DEF PlanTree, Nodes, Gives

LEMMA TypeScans ==
    ASSUME TypeInv, NEW t \in DOMAIN pos, SequentialScan(t) \/ IdxScan(t)
    PROVE  TypeInv'
<1>1. World /\ PosOK /\ t \in query.from.columns /\ pos \in [query.from.columns -> Nat]
  BY DEF TypeInv, PosOK
<1>2. /\ UNCHANGED <<input, loops, sort, out, status>>
      /\ (\E r : ScanGives(t, r)) \/ ScanEnds(t)
  BY <1>1, ScanSteps
<1>3. /\ World' /\ Plan' = Plan /\ Inner' = Inner /\ query' = query /\ tables' = tables
      /\ \A C : Tuples(C)' = Tuples(C)
  BY <1>2, TypeFrame, InputFrame
<1>4. /\ RangeVar(t) \in Nodes /\ Gives(RangeVar(t)) = {t}
  BY <1>1, PlanNodes
<1>5. PosOK' /\ StepOK'
  <2>1. CASE ScanEnds(t)
    BY <1>1, <1>2, <1>3, <1>4, <2>1, ContinueOK DEF ScanEnds, OrNoTuple, PosOK
  <2>2. CASE \E r : ScanGives(t, r)
    <3>1. PICK r : ScanGives(t, r)
      BY <2>2
    <3>2. r \in DOMAIN tables[t] /\ r \in Nat /\ pos' = [pos EXCEPT ![t] = r]
      BY <1>1, <3>1, WorldIs DEF ScanGives
    <3>3. Row(t, r) \in OrNoTuple(Tuples(Gives(RangeVar(t))))
      BY <1>1, <1>4, <3>2, RowTuple DEF OrNoTuple
    <3>4. StepOK'
      BY <1>2, <1>4, <3>1, <3>3, ContinueOK DEF ScanGives
    <3> QED
      BY <1>1, <1>3, <3>2, <3>4 DEF PosOK
  <2> QED
    BY <1>2, <2>1, <2>2
<1>6. LoopsOK'
  BY <1>2, <1>3 DEF TypeInv, LoopsOK, loops, OrNoTuple
<1> QED
  BY <1>2, <1>3, <1>5, <1>6 DEF TypeInv, sort

\* A tuple in the types that are declared for the step.
LEMMA ReturnedTuple ==
    ASSUME TypeInv, NEW n \in Nodes, step.does = "return", step.node = n
    PROVE  step = Return(n, step.tuple) /\ step.tuple \in OrNoTuple(Tuples(Gives(n)))
BY StepIs DEF TypeInv

LEMMA TypeLoops ==
    ASSUME TypeInv, NEW f \in DOMAIN cur,
           NestedLoopScan(f) \/ LeftReturns(f) \/ RightEnds(f) \/ RightReturns(f)
    PROVE  TypeInv'
<1>0. f \in Inner /\ World /\ PosOK /\ LoopsOK
  BY DEF TypeInv, LoopsOK
<1>1. UNCHANGED <<input, sort, out>>
  BY DEF NestedLoopScan, LeftReturns, RightEnds, RightReturns, Continue, Abort
<1>2. /\ World' /\ Plan' = Plan /\ Inner' = Inner /\ query' = query /\ tables' = tables
      /\ \A C : Tuples(C)' = Tuples(C)
  BY <1>1, TypeFrame, InputFrame
<1> DEFINE L == LeftPlan(f)
           R == RightPlan(f)
<1>3. /\ f \in Nodes /\ Gives(f) = f.columns /\ f \in FromClauses /\ ~IsTable(f)
      /\ f.columns \subseteq query.from.columns
      /\ L \in Nodes /\ Gives(L) = L.columns /\ R \in Nodes /\ Gives(R) = R.columns
      /\ L.columns \in SUBSET Tables
  BY <1>0, PlanNodes
<1> HIDE DEF L, R
<1>4. /\ cur[f] \in OrNoTuple(Tuples(L.columns))
      /\ cur \in [Inner -> OrNoTuple(UNION {Tuples(C) : C \in SUBSET Tables})]
      /\ \A g \in Inner : cur[g] \in OrNoTuple(Tuples(LeftPlan(g).columns))
      /\ needNew \in [Inner -> BOOLEAN] /\ noResult \in [Inner -> BOOLEAN]
  BY <1>0 DEF LoopsOK, L
<1>5. /\ pos \in [query.from.columns -> Nat]
      /\ \A t \in query.from.columns : pos[t] # 0 => pos[t] \in DOMAIN tables[t]
  BY <1>0 DEF PosOK
<1>6. \A t \in OrNoTuple(Tuples(L.columns)) : t # NoTuple => t \in Tuples(L.columns)
  BY DEF OrNoTuple
<1>7. status' \in {"running", "done"} \cup Errors
  BY DEF NestedLoopScan, LeftReturns, RightEnds, RightReturns, Continue, Abort, Errors, TypeInv
<1>8. CASE NestedLoopScan(f)
  <2>1. PosOK' /\ LoopsOK'
    BY <1>2, <1>4, <1>5, <1>8 DEF NestedLoopScan, PosOK, LoopsOK, OrNoTuple
  <2>2. \E n \in {L, R} : step' = Call(n)
    BY <1>8 DEF NestedLoopScan, Continue, L, R
  <2>3. StepOK'
    BY <1>1, <1>3, <2>2, ContinueOK
  <2> QED
    BY <1>1, <1>2, <1>7, <2>1, <2>3 DEF TypeInv, sort
<1>9. CASE LeftReturns(f)
  <2>1. step.tuple \in OrNoTuple(Tuples(L.columns))
    BY <1>3, <1>9, ReturnedTuple DEF LeftReturns, L
  <2>2. /\ cur' = [cur EXCEPT ![f] = step.tuple]
        /\ needNew' = [needNew EXCEPT ![f] = FALSE]
        /\ noResult' \in [Inner -> BOOLEAN]
    BY <1>4, <1>9 DEF LeftReturns
  <2>3. step.tuple \in OrNoTuple(UNION {Tuples(C) : C \in SUBSET Tables})
    BY <1>3, <2>1 DEF OrNoTuple
  <2>4. LoopsOK'
    <3>1. cur' \in [Inner -> OrNoTuple(UNION {Tuples(C) : C \in SUBSET Tables})]
      BY <1>4, <2>2, <2>3
    <3>2. \A g \in Inner : cur'[g] \in OrNoTuple(Tuples(LeftPlan(g).columns))
      BY <1>0, <1>4, <2>1, <2>2 DEF L
    <3>3. needNew' \in [Inner -> BOOLEAN]
      BY <1>4, <2>2
    <3> QED
      BY <1>2, <2>2, <3>1, <3>2, <3>3 DEF LoopsOK, OrNoTuple
  <2>5. PosOK'
    BY <1>2, <1>5, <1>9 DEF LeftReturns, RestartRight, PosOK
  <2>6. step' = Return(f, NoTuple) \/ step' = Call(R)
    BY <1>9 DEF LeftReturns, Continue, R
  <2>7. StepOK'
    BY <1>1, <1>3, <2>6, ContinueOK DEF OrNoTuple
  <2> QED
    BY <1>1, <1>2, <1>7, <2>4, <2>5, <2>7 DEF TypeInv, sort
<1>10. CASE RightEnds(f)
  <2>1. PosOK' /\ LoopsOK'
    <3>1. pos' = pos /\ cur' = cur /\ noResult' = noResult
      BY <1>10 DEF RightEnds, Abort, loops
    <3>2. needNew' = needNew \/ needNew' = [needNew EXCEPT ![f] = TRUE]
      BY <1>10 DEF RightEnds, Abort, loops
    <3>3. needNew' \in [Inner -> BOOLEAN]
      BY <1>4, <3>2
    <3> QED
      BY <1>2, <1>4, <1>5, <3>1, <3>3 DEF PosOK, LoopsOK, OrNoTuple
  <2>2. step' = step \/ step' = Call(L) \/ step' = Return(f, NullExtended(f, cur[f]))
    BY <1>10 DEF RightEnds, Continue, Abort, L
  <2>3. StepOK'
    <3>1. CASE step' = step
      BY <1>1, <1>2, <3>1, TypeFrame DEF TypeInv, StepOK, sort, OrNoTuple
    <3>2. CASE step' = Call(L)
      BY <1>1, <1>3, <3>2, ContinueOK
    <3>3. CASE step' = Return(f, NullExtended(f, cur[f]))
      <4>1. NullExtended(f, cur[f]) \in Tuples(f.columns)
        <5>1. cur[f] \in [DOMAIN cur[f] -> Nat] /\ \A c \in DOMAIN cur[f] : cur[f][c] <= Len(tables[c])
          <6>1. CASE cur[f] = NoTuple
            BY <6>1 DEF NoTuple
          <6> QED
            BY <1>4, <6>1 DEF OrNoTuple, Tuples
        <5>2. \A c \in f.columns : Len(tables[c]) \in Nat
          BY <1>0, <1>3, WorldIs
        <5> QED
          BY <5>1, <5>2 DEF NullExtended, Tuples
      <4> QED
        BY <1>1, <1>3, <3>3, <4>1, ContinueOK DEF OrNoTuple
    <3> QED
      BY <2>2, <3>1, <3>2, <3>3
  <2> QED
    BY <1>1, <1>2, <1>7, <2>1, <2>3 DEF TypeInv, sort
<1>11. CASE RightReturns(f)
  <2>1. PosOK' /\ LoopsOK'
    BY <1>2, <1>4, <1>5, <1>11 DEF RightReturns, Abort, PosOK, LoopsOK, OrNoTuple, loops
  <2>2. \/ step' = step \/ step' = Call(R)
        \/ cur[f] # NoTuple /\ step' = Return(f, JoinTuples(cur[f], step.tuple))
    BY <1>11 DEF RightReturns, Continue, Abort, R
  <2>3. StepOK'
    <3>1. CASE step' = step
      BY <1>1, <1>2, <3>1, TypeFrame DEF TypeInv, StepOK, sort, OrNoTuple
    <3>2. CASE step' = Call(R)
      BY <1>1, <1>3, <3>2, ContinueOK
    <3>3. CASE cur[f] # NoTuple /\ step' = Return(f, JoinTuples(cur[f], step.tuple))
      <4>1. step.tuple \in Tuples(R.columns)
        BY <1>3, <1>11, ReturnedTuple DEF RightReturns, R, OrNoTuple
      <4>2. JoinTuples(cur[f], step.tuple) \in Tuples(f.columns)
        BY <1>0, <1>3, <1>4, <1>6, <3>3, <4>1, JoinTuplesAre DEF L, R
      <4> QED
        BY <1>1, <1>3, <3>3, <4>2, ContinueOK DEF OrNoTuple
    <3> QED
      BY <2>2, <3>1, <3>2, <3>3
  <2> QED
    BY <1>1, <1>2, <1>7, <2>1, <2>3 DEF TypeInv, sort
<1> QED
  BY <1>8, <1>9, <1>10, <1>11

TopStep ==
    \/ SortScan \/ SortCollects \/ SortCompares \/ SortEnds
    \/ GetResult \/ ResultReceives \/ ExecPlan

LEMMA ExchangeIs ==
    ASSUME NEW S, NEW tuples \in Seq(S), NEW i \in 1 .. Len(tuples), NEW j \in 1 .. Len(tuples), NEW by
    PROVE  /\ Exchange(by, tuples, i, j) \in Seq(S)
           /\ Len(Exchange(by, tuples, i, j)) = Len(tuples)
BY DEF Exchange

LEMMA TypeSort ==
    ASSUME TypeInv, SortScan \/ SortCollects \/ SortCompares \/ SortEnds
    PROVE  TypeInv'
<1>1. UNCHANGED <<input, pos, loops, out>>
  BY DEF SortScan, SortCollects, SortCompares, SortEnds, NextResult, Continue, Abort
<1>2. /\ World' /\ Plan' = Plan /\ Inner' = Inner /\ query' = query /\ tables' = tables
      /\ Nodes' = Nodes /\ (\A n : Gives(n)' = Gives(n)) /\ \A C : Tuples(C)' = Tuples(C)
  BY <1>1, TypeFrame, InputFrame
<1>3. PosOK' /\ LoopsOK'
  BY <1>1, <1>2 DEF TypeInv, PosOK, LoopsOK, loops, OrNoTuple
<1>4. status' \in {"running", "done"} \cup Errors
  BY DEF SortScan, SortCollects, SortCompares, SortEnds, NextResult, Continue, Abort, Errors, TypeInv
<1>5. World /\ StepOK
  BY DEF TypeInv
<1> DEFINE C == query.from.columns
<1>6. /\ query.from \in Nodes /\ Gives(query.from) = C /\ Gives(SortNode) = C
      /\ (query.sort # None => SortNode \in Nodes)
  BY <1>5, TopNodes DEF Nodes, Gives
<1> HIDE DEF C
<1>7. /\ results \in Seq(Tuples(C)) /\ isSorted \in BOOLEAN /\ next \in Nat \ {0}
      /\ out \in Seq(Tuples(C)) /\ C = query.from.columns
  BY DEF TypeInv, C
<1>8. \A n : step = Call(n) => n \in Nodes
  BY <1>5, StepIs, StepsAre
<1>9. SortNode \in Nodes => query.sort # None
  BY <1>5, TopNodes DEF Nodes
<1>10. \A x, y \in Tuples(C) : x \in OrNoTuple(Tuples(C)) /\ NoTuple \in OrNoTuple(Tuples(C))
  BY DEF OrNoTuple
<1>11. ASSUME NextResult, query.sort # None
       PROVE  next' \in Nat \ {0} /\ StepOK'
  <2>1. next' \in Nat \ {0}
    BY <1>7, <1>11 DEF NextResult
  <2>2. \E t \in OrNoTuple(Tuples(C)) : step' = Return(SortNode, t)
    <3>1. CASE next > Len(results) /\ Continue(Return(SortNode, NoTuple))
      BY <3>1 DEF Continue, OrNoTuple
    <3>2. CASE next <= Len(results) /\ Continue(Return(SortNode, results[next]))
      <4>1. results[next] \in Tuples(C)
        BY <1>7, <3>2
      <4> QED
        BY <3>2, <4>1 DEF Continue, OrNoTuple
    <3> QED
      BY <1>11, <3>1, <3>2 DEF NextResult
  <2> QED
    BY <1>1, <1>6, <1>11, <2>1, <2>2, ContinueOK
<1>12. CASE SortScan
  <2>1. query.sort # None /\ UNCHANGED <<results, isSorted>>
    BY <1>8, <1>9, <1>12 DEF SortScan
  <2>2. next' \in Nat \ {0} /\ StepOK'
    <3>1. CASE ~isSorted /\ Continue(Call(query.from)) /\ UNCHANGED next
      <4>1. step' = Call(query.from)
        BY <3>1 DEF Continue
      <4> QED
        BY <1>1, <1>6, <1>7, <3>1, <4>1, ContinueOK
    <3> QED
      BY <1>11, <1>12, <2>1, <3>1 DEF SortScan
  <2> QED
    BY <1>1, <1>2, <1>3, <1>4, <1>7, <2>1, <2>2 DEF TypeInv
<1>13. CASE SortCollects
  <2>1. step.tuple \in OrNoTuple(Tuples(C)) /\ query.sort # None /\ UNCHANGED <<isSorted, next>>
    BY <1>6, <1>13, ReturnedTuple DEF SortCollects
  <2>2. results' \in Seq(Tuples(C)) /\ StepOK'
    <3>1. CASE step.tuple # NoTuple /\ results' = Append(results, step.tuple) /\ Continue(Call(query.from))
      <4>1. step' = Call(query.from) /\ step.tuple \in Tuples(C)
        BY <2>1, <3>1 DEF Continue, OrNoTuple
      <4> QED
        BY <1>1, <1>6, <1>7, <3>1, <4>1, ContinueOK
    <3>2. CASE step.tuple = NoTuple /\ Continue(Compare(1, 1)) /\ UNCHANGED results
      <4>1. step' = Compare(1, 1) /\ 1 \in 1 .. Len(results) + 1 /\ 1 \in 1 .. 1
        BY <1>7, <3>2 DEF Continue
      <4>2. step' = Compare(1, 1) /\ 1 \in 1 .. Len(results') + 1 /\ 1 \in 1 .. 1 /\ query'.sort # None
        BY <1>2, <2>1, <3>2, <4>1
      <4> QED
        BY <1>7, <3>2, <4>2 DEF StepOK
    <3> QED
      BY <1>13, <3>1, <3>2 DEF SortCollects
  <2> QED
    BY <1>1, <1>2, <1>3, <1>4, <1>7, <2>1, <2>2 DEF TypeInv
<1>14. CASE SortCompares
  <2> DEFINE i == step.i
             j == step.j
  <2>1. /\ query.sort # None /\ i \in 1 .. Len(results) + 1 /\ j \in 1 .. i /\ i <= Len(results)
        /\ step = Compare(i, j)
    BY <1>5, <1>14, StepIs DEF SortCompares
  <2>2. i \in 1 .. Len(results) /\ j \in 1 .. Len(results) /\ i \in Nat /\ j \in Nat
    BY <1>7, <2>1
  <2>3. /\ results' \in Seq(Tuples(C)) /\ Len(results') = Len(results)
        /\ isSorted' = isSorted /\ next' = next
        /\ \/ step' = step
           \/ step' = Compare(i + 1, 1)
           \/ j < i /\ step' = Compare(i, j + 1)
    <3> HIDE DEF i, j
    <3>1. CASE UNCHANGED sort
      BY <1>7, <1>14, <3>1 DEF SortCompares, sort, Continue, Abort, i, j
    <3>2. CASE ~UNCHANGED sort
      <4>1. /\ results' = Exchange(query.sort, results, i, j) /\ j < i
            /\ isSorted' = isSorted /\ next' = next /\ step' = Compare(i, j + 1)
        BY <1>14, <3>2 DEF SortCompares, Continue, Abort, i, j
      <4> QED
        BY <1>7, <2>2, <4>1, ExchangeIs
    <3> QED
      BY <3>1, <3>2
  <2> HIDE DEF i, j
  <2>4. StepOK'
    <3>1. CASE step' = step
      <4>1. step' = Compare(i, j) /\ i \in 1 .. Len(results') + 1 /\ j \in 1 .. i /\ query'.sort # None
        BY <1>2, <2>1, <2>3, <3>1
      <4> QED
        BY <4>1 DEF StepOK
    <3>2. CASE step' = Compare(i + 1, 1)
      <4>1. i + 1 \in 1 .. Len(results') + 1 /\ 1 \in 1 .. i + 1 /\ query'.sort # None
        BY <1>2, <1>7, <2>1, <2>2, <2>3
      <4> QED
        BY <3>2, <4>1 DEF StepOK
    <3>3. CASE j < i /\ step' = Compare(i, j + 1)
      <4>1. i \in 1 .. Len(results') + 1 /\ j + 1 \in 1 .. i /\ query'.sort # None
        BY <1>2, <1>7, <2>1, <2>2, <2>3, <3>3
      <4> QED
        BY <3>3, <4>1 DEF StepOK
    <3> QED
      BY <2>3, <3>1, <3>2, <3>3
  <2> QED
    BY <1>1, <1>2, <1>3, <1>4, <1>7, <2>3, <2>4 DEF TypeInv
<1>15. CASE SortEnds
  <2>1. query.sort # None /\ UNCHANGED results /\ isSorted' = TRUE
    BY <1>5, <1>15, StepIs DEF SortEnds
  <2>2. next' \in Nat \ {0} /\ StepOK'
    BY <1>11, <1>15, <2>1 DEF SortEnds
  <2> QED
    BY <1>1, <1>2, <1>3, <1>4, <1>7, <2>1, <2>2 DEF TypeInv
<1> QED
  BY <1>12, <1>13, <1>14, <1>15

LEMMA TypeResult ==
    ASSUME TypeInv, GetResult \/ ResultReceives \/ ExecPlan
    PROVE  TypeInv'
<1>1. UNCHANGED <<input, pos, loops, sort>>
  BY DEF GetResult, ResultReceives, ExecPlan, Continue, Abort
<1>2. /\ World' /\ Plan' = Plan /\ Inner' = Inner /\ query' = query /\ tables' = tables
      /\ Nodes' = Nodes /\ (\A n : Gives(n)' = Gives(n)) /\ \A C : Tuples(C)' = Tuples(C)
  BY <1>1, TypeFrame, InputFrame
<1>3. PosOK' /\ LoopsOK'
  BY <1>1, <1>2 DEF TypeInv, PosOK, LoopsOK, loops, OrNoTuple
<1>4. status' \in {"running", "done"} \cup Errors
  BY DEF GetResult, ResultReceives, ExecPlan, Continue, Abort, Errors, TypeInv
<1>5. World /\ StepOK
  BY DEF TypeInv
<1> DEFINE C == query.from.columns
<1>6. /\ LeftOfResult \in Nodes /\ Gives(LeftOfResult) = C
      /\ ResultNode \in Nodes /\ Gives(ResultNode) = C
  BY <1>5, TopNodes DEF Nodes, Gives
<1>7. step' = step => StepOK'
  BY <1>1, <1>2, <1>5 DEF StepOK, sort, OrNoTuple
<1> HIDE DEF C
<1>8. results' \in Seq(Tuples(C)) /\ isSorted' \in BOOLEAN /\ next' \in Nat \ {0} /\ C = query.from.columns
  BY <1>1 DEF TypeInv, sort, C
<1>9. out' \in Seq(Tuples(C)) /\ StepOK'
  <2>0. out \in Seq(Tuples(C))
    BY DEF TypeInv, C
  <2>1. CASE GetResult
    <3>1. step' = Call(LeftOfResult) /\ out' = out
      BY <2>1 DEF GetResult, Continue
    <3> QED
      BY <1>1, <1>6, <2>0, <3>1, ContinueOK
  <2>2. CASE ResultReceives
    <3>1. step.tuple \in OrNoTuple(Tuples(C))
      BY <1>6, <2>2, ReturnedTuple DEF ResultReceives
    <3>2. /\ out' = out
          /\ step' = step \/ step' = Return(ResultNode, step.tuple) \/ step' = Call(LeftOfResult)
      BY <2>2 DEF ResultReceives, Continue, Abort
    <3> QED
      BY <1>1, <1>6, <1>7, <2>0, <3>1, <3>2, ContinueOK
  <2>3. CASE ExecPlan
    <3>1. step.tuple \in OrNoTuple(Tuples(C))
      BY <1>6, <2>3, ReturnedTuple DEF ExecPlan
    <3>2. CASE step.tuple # NoTuple /\ out' = Append(out, step.tuple) /\ step' = Call(ResultNode)
      BY <1>1, <1>6, <2>0, <3>1, <3>2, ContinueOK DEF OrNoTuple
    <3>3. CASE step.tuple = NoTuple /\ UNCHANGED <<step, out>>
      BY <1>7, <2>0, <3>3
    <3> QED
      BY <2>3, <3>2, <3>3 DEF ExecPlan
  <2> QED
    BY <2>1, <2>2, <2>3
<1> QED
  BY <1>2, <1>3, <1>4, <1>8, <1>9 DEF TypeInv

LEMMA NextIs ==
    ASSUME Next
    PROVE  /\ status = "running"
           /\ \/ \E t \in DOMAIN pos : SequentialScan(t) \/ IdxScan(t)
              \/ \E f \in DOMAIN cur :
                    NestedLoopScan(f) \/ LeftReturns(f) \/ RightEnds(f) \/ RightReturns(f)
              \/ SortScan \/ SortCollects \/ SortCompares \/ SortEnds
              \/ GetResult \/ ResultReceives \/ ExecPlan
BY DEF Next

LEMMA TypeStep ==
    ASSUME TypeInv, Next
    PROVE  TypeInv'
BY NextIs, TypeScans, TypeLoops, TypeSort, TypeResult

LEMMA TypeUnchanged ==
    ASSUME TypeInv, UNCHANGED vars
    PROVE  TypeInv'
<1>1. UNCHANGED input
  BY DEF vars
<1>2. /\ World' /\ Nodes' = Nodes /\ Inner' = Inner /\ query' = query /\ tables' = tables
      /\ (\A n : Gives(n)' = Gives(n)) /\ \A C : Tuples(C)' = Tuples(C)
  BY <1>1, TypeFrame, InputFrame
<1>3. PosOK' /\ LoopsOK' /\ StepOK'
  BY <1>2 DEF TypeInv, PosOK, LoopsOK, StepOK, OrNoTuple, vars, loops, sort
<1> QED
  BY <1>2, <1>3 DEF TypeInv, vars, sort

LEMMA TypeStarts ==
    ASSUME Init
    PROVE  TypeInv
<1>1. World
  BY DEF Init, World
<1>2. JoinsOf(query.from) = Inner
  BY <1>1, InnerIs
<1>3. LoopsOK
  BY <1>2 DEF Init, LoopsOK, OrNoTuple, NeedNewLeftTuple
<1>4. PosOK
  BY DEF Init, PosOK
<1>5. StepOK
  BY DEF Init, StepOK, Nodes
<1>6. results = <<>> /\ isSorted = FALSE /\ next = 1 /\ out = <<>> /\ status = "running"
  BY DEF Init
<1>7. results \in Seq(Tuples(query.from.columns)) /\ out \in Seq(Tuples(query.from.columns))
  BY <1>6
<1>8. next \in Nat \ {0}
  BY <1>6
<1>10. isSorted \in BOOLEAN
  BY <1>6, Zenon
<1>9. status \in {"running", "done"} \cup Errors
  BY <1>6
<1> QED
  BY <1>1, <1>3, <1>4, <1>5, <1>7, <1>8, <1>9, <1>10 DEF TypeInv

-----------------------------------------------------------------------------
\* Where the control is: in a nested loop it is below the child that the loop wants, and a
\* right child that the loop does not want has come to its end or has not begun.
At(x) == step.does \in {"call", "return"} /\ step.node = x
Quiet(x) == \A h \in Inner : Under(h, x) => cur[h] = NoTuple

ControlInv ==
    /\ \A x \in Plan, g \in Inner :
          At(x) => /\ (Under(x, LeftPlan(g)) => needNew[g])
                   /\ (Under(x, RightPlan(g)) => ~needNew[g])
    /\ \A g \in Inner : needNew[g] => Quiet(RightPlan(g))
    /\ \A x \in Plan : step = Return(x, NoTuple) => Quiet(x)
    /\ \A g \in Inner :
          noResult[g] => \/ needNew[g] \/ cur[g] = NoTuple
                         \/ \E x \in Plan : At(x) /\ Under(x, RightPlan(g))
    /\ \A x \in Plan, g \in Inner :
          At(x) /\ Under(x, RightPlan(g)) /\ cur[g] = NoTuple => ~noResult[g]

\* The children of a node are where it is, for all other nodes.
LEMMA AroundNode ==
    ASSUME World, NEW f \in Inner
    PROVE  /\ f \in Plan /\ LeftPlan(f) \in Plan /\ RightPlan(f) \in Plan
           /\ \A g \in Inner : g # f =>
                 /\ Under(LeftPlan(f), LeftPlan(g)) <=> Under(f, LeftPlan(g))
                 /\ Under(LeftPlan(f), RightPlan(g)) <=> Under(f, RightPlan(g))
                 /\ Under(RightPlan(f), LeftPlan(g)) <=> Under(f, LeftPlan(g))
                 /\ Under(RightPlan(f), RightPlan(g)) <=> Under(f, RightPlan(g))
           /\ ~Under(f, LeftPlan(f)) /\ ~Under(f, RightPlan(f))
           /\ Under(LeftPlan(f), LeftPlan(f)) /\ ~Under(LeftPlan(f), RightPlan(f))
           /\ Under(RightPlan(f), RightPlan(f)) /\ ~Under(RightPlan(f), LeftPlan(f))
           /\ \A h \in Inner : Under(h, f) => h = f \/ Under(h, LeftPlan(f)) \/ Under(h, RightPlan(f))
<1>1. PlanTree
  BY PlanIsTree
<1>2. f \in Plan /\ LeftPlan(f) \in Plan /\ RightPlan(f) \in Plan
  BY <1>1 DEF PlanTree, Inner
<1>3. \A g \in Inner : g \in Plan /\ LeftPlan(g) \in Plan /\ RightPlan(g) \in Plan
  BY <1>1 DEF PlanTree, Inner
<1>4. \A g \in Inner : g # f =>
                 /\ Under(LeftPlan(f), LeftPlan(g)) <=> Under(f, LeftPlan(g))
                 /\ Under(LeftPlan(f), RightPlan(g)) <=> Under(f, RightPlan(g))
                 /\ Under(RightPlan(f), LeftPlan(g)) <=> Under(f, LeftPlan(g))
                 /\ Under(RightPlan(f), RightPlan(g)) <=> Under(f, RightPlan(g))
  BY <1>1, <1>3 DEF PlanTree
<1>5. /\ ~Under(f, LeftPlan(f)) /\ ~Under(f, RightPlan(f))
      /\ Under(LeftPlan(f), LeftPlan(f)) /\ Under(RightPlan(f), RightPlan(f))
  BY <1>1, UnderIs DEF PlanTree
<1>6. ~Under(LeftPlan(f), RightPlan(f)) /\ ~Under(RightPlan(f), LeftPlan(f))
  BY <1>1, <1>2, <1>5 DEF PlanTree
<1>7. \A h \in Inner : Under(h, f) => h = f \/ Under(h, LeftPlan(f)) \/ Under(h, RightPlan(f))
  BY <1>1, <1>3 DEF PlanTree
<1> QED
  BY <1>2, <1>4, <1>5, <1>6, <1>7

LEMMA RootIsUnderNone ==
    ASSUME World, NEW g \in Inner
    PROVE  ~Under(query.from, LeftPlan(g)) /\ ~Under(query.from, RightPlan(g))
<1>1. PlanTree
  BY PlanIsTree
<1>2. g \in Plan /\ Under(g, query.from) /\ ~Under(g, LeftPlan(g)) /\ ~Under(g, RightPlan(g))
  BY <1>1 DEF PlanTree, Inner
<1> QED
  BY <1>2, UnderIs

LEMMA ControlStarts ==
    ASSUME Init
    PROVE  ControlInv
<1>1. World /\ JoinsOf(query.from) = Inner
  BY InnerIs DEF Init, World
<1>2. \A x \in Plan : ~At(x) /\ step # Return(x, NoTuple)
  BY <1>1, TopNodes, StepsAre DEF Init, At
<1>3. \A g \in Inner : cur[g] = NoTuple /\ noResult[g] = FALSE
  BY <1>1 DEF Init
<1> QED
  BY <1>2, <1>3 DEF ControlInv, Quiet

\* Steps at the root of the plan, or that change nothing in it.
LEMMA ControlFrame ==
    ASSUME TypeInv, ControlInv, UNCHANGED <<input, loops>>, step' = step
    PROVE  ControlInv'
<1>1. Plan' = Plan /\ Inner' = Inner
  BY TypeFrame
<1> QED
  BY <1>1 DEF ControlInv, Quiet, At, loops

LEMMA ControlAtRoot ==
    ASSUME TypeInv, ControlInv, UNCHANGED <<input, loops>>,
           \A x \in Plan : At(x) => x = query.from, \A x \in Plan : At(x)' => x = query.from,
           \A x \in Plan : step' # Return(x, NoTuple)
    PROVE  ControlInv'
<1>1. Plan' = Plan /\ Inner' = Inner /\ World
  BY TypeFrame DEF TypeInv
<1>2. \A g \in Inner : ~Under(query.from, LeftPlan(g)) /\ ~Under(query.from, RightPlan(g))
  BY <1>1, RootIsUnderNone
<1>3. \A x \in Plan, g \in Inner :
          At(x)' => /\ (Under(x, LeftPlan(g)) => needNew'[g])
                    /\ (Under(x, RightPlan(g)) => ~needNew'[g])
  BY <1>2
<1>4. \A g \in Inner : needNew'[g] => Quiet(RightPlan(g))'
  BY <1>1 DEF ControlInv, Quiet, loops
<1>5. \A g \in Inner :
         noResult'[g] => \/ needNew'[g] \/ cur'[g] = NoTuple
                         \/ \E x \in Plan : At(x)' /\ Under(x, RightPlan(g))
  BY <1>2 DEF ControlInv, loops
<1>6. \A x \in Plan, g \in Inner :
          At(x)' /\ Under(x, RightPlan(g)) /\ cur'[g] = NoTuple => ~noResult'[g]
  BY <1>2
<1> QED
  BY <1>1, <1>3, <1>4, <1>5, <1>6 DEF ControlInv

LEMMA ControlScans ==
    ASSUME TypeInv, ControlInv, NEW t \in DOMAIN pos, SequentialScan(t) \/ IdxScan(t)
    PROVE  ControlInv'
<1>1. World /\ PosOK /\ t \in query.from.columns
  BY DEF TypeInv, PosOK
<1>2. /\ UNCHANGED <<input, loops>> /\ step = Call(RangeVar(t))
      /\ \E r : step' = Return(RangeVar(t), r)
  <2>1. /\ UNCHANGED <<input, loops, sort, out, status>> /\ step = Call(RangeVar(t))
        /\ (\E r : ScanGives(t, r)) \/ ScanEnds(t)
    BY <1>1, ScanSteps
  <2>2. \E r : step' = Return(RangeVar(t), r)
    BY <2>1 DEF ScanGives, ScanEnds
  <2> QED
    BY <2>1, <2>2
<1>3. Plan' = Plan /\ Inner' = Inner
  BY <1>2, TypeFrame
<1>4. \A x : At(x)' <=> At(x)
  BY <1>2, StepsAre DEF At
<1>5. \A x \in Plan : step' = Return(x, NoTuple) => Quiet(x)'
  <2>1. RangeVar(t) \in Plan /\ IsTable(RangeVar(t))
    BY <1>1, PlanNodes DEF IsTable, RangeVar
  <2>2. \A g \in Inner : ~Under(g, RangeVar(t))
    BY <1>1, <2>1, PlanIsTree DEF PlanTree
  <2>3. \A x : step' = Return(x, NoTuple) => x = RangeVar(t)
    <3>1. PICK r : step' = Return(RangeVar(t), r)
      BY <1>2
    <3>2. step'.node = RangeVar(t)
      BY <3>1, StepsAre
    <3> QED
      BY <3>2, StepsAre
  <2> QED
    BY <1>3, <2>2, <2>3 DEF Quiet
<1>6. \A g \in Inner : needNew'[g] => Quiet(RightPlan(g))'
  BY <1>2, <1>3 DEF ControlInv, Quiet, loops
<1> QED
  BY <1>2, <1>3, <1>4, <1>5, <1>6 DEF ControlInv, loops

LEMMA ControlLoops ==
    ASSUME TypeInv, ControlInv, NEW f \in DOMAIN cur,
           NestedLoopScan(f) \/ LeftReturns(f) \/ RightEnds(f) \/ RightReturns(f)
    PROVE  ControlInv'
<1> DEFINE L == LeftPlan(f)
           R == RightPlan(f)
<1>0. f \in Inner /\ World /\ LoopsOK
  BY DEF TypeInv, LoopsOK
<1>1. UNCHANGED input
  BY DEF NestedLoopScan, LeftReturns, RightEnds, RightReturns, Continue, Abort
<1>2. Plan' = Plan /\ Inner' = Inner
  BY <1>1, TypeFrame
<1>3. /\ f \in Plan /\ L \in Plan /\ R \in Plan
      /\ \A g \in Inner : g # f =>
                 /\ Under(L, LeftPlan(g)) <=> Under(f, LeftPlan(g))
                 /\ Under(L, RightPlan(g)) <=> Under(f, RightPlan(g))
                 /\ Under(R, LeftPlan(g)) <=> Under(f, LeftPlan(g))
                 /\ Under(R, RightPlan(g)) <=> Under(f, RightPlan(g))
      /\ ~Under(f, L) /\ ~Under(f, R)
      /\ Under(L, L) /\ ~Under(L, R)
      /\ Under(R, R) /\ ~Under(R, L)
      /\ \A h \in Inner : Under(h, f) => h = f \/ Under(h, L) \/ Under(h, R)
  BY <1>0, AroundNode
<1>4. \A g \in Inner : LeftPlan(g) \in Plan /\ RightPlan(g) \in Plan
  BY <1>0, AroundNode
<1> HIDE DEF L, R
<1>5. /\ cur \in [Inner -> OrNoTuple(UNION {Tuples(C) : C \in SUBSET Tables})]
      /\ needNew \in [Inner -> BOOLEAN] /\ noResult \in [Inner -> BOOLEAN]
  BY <1>0 DEF LoopsOK
\* What the invariant says of the node where the step is.
<1>6. ASSUME NEW c \in {f, L, R}, At(c)
      PROVE  /\ \A g \in Inner : g # f => /\ (Under(f, LeftPlan(g)) => needNew[g])
                                          /\ (Under(f, RightPlan(g)) => ~needNew[g])
                                          /\ (Under(f, RightPlan(g)) /\ cur[g] = NoTuple => ~noResult[g])
             /\ (c = L => needNew[f]) /\ (c = R => ~needNew[f] /\ (cur[f] = NoTuple => ~noResult[f]))
             /\ \A g \in Inner : g # f /\ noResult[g] =>
                                     needNew[g] \/ cur[g] = NoTuple \/ Under(f, RightPlan(g))
             /\ \A x : At(x) => x = c
  <2>1. \A x : At(x) => x = c
    BY <1>6 DEF At
  <2>2. c \in Plan
    BY <1>3
  <2>3. ASSUME NEW g \in Inner, g # f
        PROVE  /\ (Under(f, LeftPlan(g)) => needNew[g])
               /\ (Under(f, RightPlan(g)) => ~needNew[g])
               /\ (Under(f, RightPlan(g)) /\ cur[g] = NoTuple => ~noResult[g])
               /\ noResult[g] => needNew[g] \/ cur[g] = NoTuple \/ Under(f, RightPlan(g))
    <3>1. /\ Under(c, LeftPlan(g)) <=> Under(f, LeftPlan(g))
          /\ Under(c, RightPlan(g)) <=> Under(f, RightPlan(g))
      BY <1>3, <2>3
    <3> QED
      BY <1>6, <2>1, <2>2, <3>1 DEF ControlInv
  <2>4. (c = L => needNew[f]) /\ (c = R => ~needNew[f] /\ (cur[f] = NoTuple => ~noResult[f]))
    BY <1>0, <1>3, <1>6, <2>2 DEF ControlInv, L, R
  <2> QED
    BY <2>1, <2>3, <2>4
\* It is enough to look at the node itself.
<1>7. ASSUME NEW c \in {f, L, R}, At(c)', NEW d \in {f, L, R}, At(d),
             \A g \in Inner : g # f => /\ cur'[g] = cur[g] /\ needNew'[g] = needNew[g]
                                       /\ noResult'[g] = noResult[g],
             c = L => needNew'[f], c = R => ~needNew'[f] /\ (cur'[f] = NoTuple => ~noResult'[f]),
             c # R /\ noResult'[f] => needNew'[f] \/ cur'[f] = NoTuple,
             needNew'[f] => Quiet(R)',
             \A g \in Inner : g # f /\ needNew[g] => Quiet(RightPlan(g))',
             \A x \in Plan : step' = Return(x, NoTuple) => Quiet(x)'
      PROVE  ControlInv'
  <2>1. \A x : At(x)' => x = c
    BY <1>7 DEF At
  <2>2. /\ \A g \in Inner : g # f => /\ (Under(f, LeftPlan(g)) => needNew[g])
                                     /\ (Under(f, RightPlan(g)) => ~needNew[g])
                                     /\ (Under(f, RightPlan(g)) /\ cur[g] = NoTuple => ~noResult[g])
        /\ \A g \in Inner : g # f /\ noResult[g] =>
                                     needNew[g] \/ cur[g] = NoTuple \/ Under(f, RightPlan(g))
    BY <1>6, <1>7
  <2>3. \A g \in Inner : g # f => /\ Under(c, LeftPlan(g)) <=> Under(f, LeftPlan(g))
                                  /\ Under(c, RightPlan(g)) <=> Under(f, RightPlan(g))
    BY <1>3
  <2>4. /\ Under(c, L) => c = L
        /\ Under(c, R) => c = R
        /\ c = R => Under(c, R)
    BY <1>3
  <2>5. ASSUME NEW x \in Plan, NEW g \in Inner, At(x)'
        PROVE  /\ (Under(x, LeftPlan(g)) => needNew'[g])
               /\ (Under(x, RightPlan(g)) => ~needNew'[g])
               /\ (Under(x, RightPlan(g)) /\ cur'[g] = NoTuple => ~noResult'[g])
    <3>1. x = c
      BY <2>1, <2>5
    <3>2. CASE g = f
      BY <1>7, <2>4, <3>1, <3>2 DEF L, R
    <3>3. CASE g # f
      <4>1. cur'[g] = cur[g] /\ needNew'[g] = needNew[g] /\ noResult'[g] = noResult[g]
        BY <1>7, <3>3
      <4>2. /\ Under(x, LeftPlan(g)) => Under(f, LeftPlan(g))
            /\ Under(x, RightPlan(g)) => Under(f, RightPlan(g))
        BY <2>3, <3>1, <3>3, Zenon
      <4>3. /\ (Under(f, LeftPlan(g)) => needNew[g])
            /\ (Under(f, RightPlan(g)) => ~needNew[g])
            /\ (Under(f, RightPlan(g)) /\ cur[g] = NoTuple => ~noResult[g])
        BY <2>2, <3>3
      <4> QED
        BY <4>1, <4>2, <4>3
    <3> QED
      BY <3>2, <3>3
  <2>6. ASSUME NEW g \in Inner, noResult'[g]
        PROVE  needNew'[g] \/ cur'[g] = NoTuple \/ \E x \in Plan : At(x)' /\ Under(x, RightPlan(g))
    <3>0. c \in Plan
      BY <1>3
    <3>1. CASE g = f
      BY <1>7, <2>4, <2>6, <3>0, <3>1 DEF R
    <3>2. CASE g # f
      BY <1>7, <2>2, <2>3, <2>6, <3>0, <3>2
    <3> QED
      BY <3>1, <3>2
  <2>7. ASSUME NEW g \in Inner, needNew'[g] PROVE Quiet(RightPlan(g))'
    BY <1>7, <2>7 DEF R
  <2> QED
    BY <1>2, <1>7, <2>5, <2>6, <2>7 DEF ControlInv
<1>8. CASE NestedLoopScan(f)
  <2>0. PICK c \in {L, R} : c = IF needNew[f] THEN L ELSE R
    OBVIOUS
  <2>1. /\ step = Call(f) /\ step' = Call(c)
        /\ cur' = cur /\ needNew' = needNew /\ noResult' = [noResult EXCEPT ![f] = FALSE]
    BY <1>8, <2>0 DEF NestedLoopScan, Continue, L, R
  <2>2. At(f) /\ At(c)'
    BY <2>1, StepsAre DEF At
  <2>3. \A x : Quiet(x)' <=> Quiet(x)
    BY <1>2, <2>1 DEF Quiet
  <2>4. \A x : step' # Return(x, NoTuple)
    BY <2>1, StepsAre
  <2>5. /\ ~noResult'[f]
        /\ \A g \in Inner : g # f => noResult'[g] = noResult[g]
    BY <1>0, <1>5, <2>1
  <2>6. c \in {f, L, R} /\ (c = L => needNew[f]) /\ (c = R => ~needNew[f])
    BY <1>3, <2>0
  <2>7. \A g \in Inner : needNew[g] => Quiet(RightPlan(g))
    BY DEF ControlInv
  <2>8. needNew[f] => Quiet(R)
    BY <1>0, <2>7 DEF R
  <2>9. \A g \in Inner : g # f => /\ cur'[g] = cur[g] /\ needNew'[g] = needNew[g]
                                  /\ noResult'[g] = noResult[g]
    BY <2>1, <2>5
  <2>10. /\ c = L => needNew'[f]
         /\ c = R => ~needNew'[f] /\ (cur'[f] = NoTuple => ~noResult'[f])
         /\ c # R /\ noResult'[f] => needNew'[f] \/ cur'[f] = NoTuple
    BY <2>1, <2>5, <2>6
  <2>11. /\ needNew'[f] => Quiet(R)'
         /\ \A g \in Inner : g # f /\ needNew[g] => Quiet(RightPlan(g))'
    BY <2>1, <2>3, <2>7, <2>8
  <2> QED
    BY <1>7, <2>2, <2>4, <2>6, <2>9, <2>10, <2>11
<1>9. CASE LeftReturns(f)
  <2>1. step.does = "return" /\ step.node = L /\ At(L)
    BY <1>9 DEF LeftReturns, At, L
  <2>2. /\ needNew[f] /\ \A g \in Inner : g # f => (Under(f, RightPlan(g)) => ~needNew[g])
    BY <1>6, <2>1
  <2>3. /\ cur' = [cur EXCEPT ![f] = step.tuple] /\ needNew' = [needNew EXCEPT ![f] = FALSE]
        /\ cur'[f] = step.tuple /\ needNew'[f] = FALSE
        /\ \A g \in Inner : g # f => cur'[g] = cur[g] /\ needNew'[g] = needNew[g]
    BY <1>0, <1>5, <1>9 DEF LeftReturns
  <2>4. \A g \in Inner : needNew[g] => Quiet(RightPlan(g))
    BY DEF ControlInv
  <2>5. CASE step.tuple = NoTuple
    <3>1. step' = Return(f, NoTuple) /\ noResult' = noResult /\ step = Return(L, NoTuple)
      BY <1>0, <1>9, <2>1, <2>5, StepIs DEF LeftReturns, Continue, TypeInv
    <3>2. \A x : Quiet(x) => Quiet(x)'
      BY <1>2, <2>3, <2>5 DEF Quiet
    <3>3. Quiet(f)'
      <4>1. Quiet(L) /\ Quiet(R)
        BY <1>0, <1>3, <2>2, <2>4, <3>1 DEF ControlInv, R
      <4>2. cur'[f] = NoTuple
        BY <2>3, <2>5
      <4> QED
        BY <1>2, <1>3, <3>2, <4>1, <4>2 DEF Quiet
    <3>4. At(f)' /\ \A x : step' = Return(x, NoTuple) => x = f
      BY <3>1, StepsAre DEF At
    <3> QED
      BY <1>3, <1>7, <2>1, <2>3, <2>4, <2>5, <3>1, <3>2, <3>3, <3>4
  <2>6. CASE step.tuple # NoTuple
    <3>1. step' = Call(R) /\ noResult' = [noResult EXCEPT ![f] = TRUE]
      BY <1>9, <2>6 DEF LeftReturns, Continue, R
    <3>2. \A g \in Inner : g # f => noResult'[g] = noResult[g]
      BY <1>5, <3>1
    <3>3. ASSUME NEW g \in Inner, g # f, needNew[g] PROVE Quiet(RightPlan(g))'
      BY <1>2, <2>2, <2>3, <2>4, <3>3 DEF Quiet
    <3>4. At(R)' /\ \A x : step' # Return(x, NoTuple)
      BY <3>1, StepsAre DEF At
    <3>5. R # L
      BY <1>3
    <3> QED
      BY <1>3, <1>7, <2>1, <2>3, <2>6, <3>2, <3>3, <3>4, <3>5
  <2> QED
    BY <2>5, <2>6
<1>10. CASE RightEnds(f)
  <2>1. step = Return(R, NoTuple)
    BY <1>10 DEF RightEnds, R
  <2>2. At(R) /\ Quiet(R)
    BY <1>3, <2>1, StepsAre DEF At, ControlInv
  <2>3. \A g \in Inner : needNew[g] => Quiet(RightPlan(g))
    BY DEF ControlInv
  <2>4. CASE f.method = "outer"
    <3>1. step' = step /\ UNCHANGED <<input, loops>>
      BY <1>10, <2>4 DEF RightEnds, Abort
    <3> QED
      BY <3>1, ControlFrame
  <2>5. CASE f.method # "outer"
    <3>1. /\ needNew' = [needNew EXCEPT ![f] = TRUE] /\ cur' = cur /\ noResult' = noResult
          /\ step' = Return(f, NullExtended(f, cur[f])) \/ step' = Call(L)
      BY <1>10, <2>5 DEF RightEnds, Continue, L
    <3>2. needNew'[f] = TRUE /\ \A g \in Inner : g # f => needNew'[g] = needNew[g]
      BY <1>0, <1>5, <3>1
    <3>3. \A x : Quiet(x)' <=> Quiet(x)
      BY <1>2, <3>1 DEF Quiet
    <3>4. NullExtended(f, cur[f]) # NoTuple
      <4>1. DOMAIN NullExtended(f, cur[f]) = f.columns /\ DOMAIN NoTuple = {}
        BY DEF NullExtended, NoTuple
      <4> QED
        BY <1>0, <4>1, PlanNodes, PlanShape
    <3>5. \E d \in {f, L} : At(d)' /\ \A x : step' # Return(x, NoTuple)
      BY <3>1, <3>4, StepsAre DEF At
    <3>6. PICK d \in {f, L} : At(d)' /\ \A x : step' # Return(x, NoTuple)
      BY <3>5
    <3>7. d # R
      BY <1>3, <3>6
    <3> QED
      BY <1>7, <2>2, <2>3, <3>1, <3>2, <3>3, <3>6, <3>7
  <2> QED
    BY <2>4, <2>5
<1>11. CASE RightReturns(f)
  <2>1. step.does = "return" /\ step.node = R /\ At(R)
    BY <1>11 DEF RightReturns, At, R
  <2>2. ~needNew[f] /\ (cur[f] = NoTuple => ~noResult[f])
    BY <1>6, <2>1
  <2>3. \A g \in Inner : needNew[g] => Quiet(RightPlan(g))
    BY DEF ControlInv
  <2>4. CASE step' = step /\ UNCHANGED loops
    BY <1>1, <2>4, ControlFrame
  <2>5. CASE step' = Return(f, JoinTuples(cur[f], step.tuple)) /\ cur[f] # NoTuple
             /\ noResult' = [noResult EXCEPT ![f] = FALSE] /\ UNCHANGED <<cur, needNew>>
    <3>1. JoinTuples(cur[f], step.tuple) # NoTuple
      <4>1. DOMAIN JoinTuples(cur[f], step.tuple) = DOMAIN cur[f] \cup DOMAIN step.tuple
        BY DEF JoinTuples
      <4>2. cur[f] \in Tuples(L.columns) /\ L.columns # {} /\ L \in FromClauses
        BY <1>0, <2>5, PlanNodes, PlanShape DEF LoopsOK, OrNoTuple, L
      <4>3. DOMAIN cur[f] # {} /\ DOMAIN NoTuple = {}
        BY <4>2 DEF Tuples, NoTuple
      <4> QED
        BY <4>1, <4>3
    <3>2. At(f)' /\ \A x : step' # Return(x, NoTuple)
      BY <2>5, <3>1, StepsAre DEF At
    <3>3. \A x : Quiet(x)' <=> Quiet(x)
      BY <1>2, <2>5 DEF Quiet
    <3>4. noResult'[f] = FALSE /\ \A g \in Inner : g # f => noResult'[g] = noResult[g]
      BY <1>0, <1>5, <2>5
    <3>5. f # L /\ f # R
      BY <1>3
    <3> QED
      BY <1>7, <2>1, <2>2, <2>3, <2>5, <3>2, <3>3, <3>4, <3>5
  <2>6. CASE step' = Call(R) /\ UNCHANGED loops
    <3>1. At(R)' /\ \A x : step' # Return(x, NoTuple)
      BY <2>6, StepsAre DEF At
    <3>2. \A x : Quiet(x)' <=> Quiet(x)
      BY <1>2, <2>6 DEF Quiet, loops
    <3>3. R # L
      BY <1>3
    <3> QED
      BY <1>7, <2>1, <2>2, <2>3, <2>6, <3>1, <3>2, <3>3 DEF loops
  <2> QED
    BY <1>11, <2>4, <2>5, <2>6 DEF RightReturns, Continue, Abort, R
<1> QED
  BY <1>8, <1>9, <1>10, <1>11

LEMMA ControlTop ==
    ASSUME TypeInv, ControlInv, TopStep
    PROVE  ControlInv'
<1>0. World /\ StepOK
  BY DEF TypeInv
<1>1. UNCHANGED <<input, loops>>
  BY DEF TopStep, SortScan, SortCollects, SortCompares, SortEnds, NextResult, GetResult,
         ResultReceives, ExecPlan, Continue, Abort
<1>2. CASE step' = step
  BY <1>1, <1>2, ControlFrame
<1>3. CASE step' # step
  <2>1. \A x \in Plan : At(x) => x = query.from
    <3>1. \A x \in Plan : x # SortNode /\ x # ResultNode
      BY <1>0, TopNodes
    <3>2. \/ \E n \in {SortNode, ResultNode} : step = Call(n) \/ step.node = n
          \/ step.node = query.from \/ step.does = "compare"
      BY DEF TopStep, SortScan, SortCollects, SortCompares, SortEnds, GetResult,
         ResultReceives, ExecPlan, LeftOfResult
    <3> QED
      BY <3>1, <3>2, StepsAre DEF At
  <2>2. \/ \E n \in {query.from, SortNode, ResultNode} : step' = Call(n)
        \/ \E n \in {SortNode, ResultNode} : \E t : step' = Return(n, t)
        \/ \E i, j : step' = Compare(i, j)
    BY <1>3 DEF TopStep, SortScan, SortCollects, SortCompares, SortEnds, NextResult, GetResult,
                ResultReceives, ExecPlan, Continue, Abort, LeftOfResult
  <2>3. \A x \in Plan : At(x)' => x = query.from
    BY <1>0, <2>2, TopNodes, StepsAre DEF At
  <2>4. \A x \in Plan : step' # Return(x, NoTuple)
    BY <1>0, <2>2, TopNodes, StepsAre
  <2> QED
    BY <1>1, <2>1, <2>3, <2>4, ControlAtRoot
<1> QED
  BY <1>2, <1>3

LEMMA ControlStep ==
    ASSUME TypeInv, ControlInv, Next
    PROVE  ControlInv'
BY NextIs, ControlScans, ControlLoops, ControlTop DEF TopStep

-----------------------------------------------------------------------------
\* What is due from a node: D[x] is what x has yet to give in its present run, with the
\* tuple that it is just giving.  A step changes it only when the parent takes a tuple.
Flight(x) == IF At(x) /\ step.does = "return" /\ step.tuple # NoTuple THEN {step.tuple} ELSE {}

Rest(x, D) ==
    IF IsTable(x) THEN {Row(x.table, r) : r \in ScanAhead(x.table)}
    ELSE (IF ~needNew[x] /\ cur[x] # NoTuple THEN Current(x, cur[x], D[RightPlan(x)], noResult[x])
          ELSE {})
         \cup LoopRows(x, D[LeftPlan(x)], All(RightPlan(x)))

DueInv(D) ==
    /\ \A x \in Plan : D[x] \in SUBSET Tuples(x.columns)
    /\ \A x \in Plan : D[x] = Rest(x, D) \cup Flight(x)
    /\ \A x \in Plan : Flight(x) \cap Rest(x, D) = {}
    /\ \A g \in Inner : ~needNew[g] /\ cur[g] # NoTuple => cur[g] \notin D[LeftPlan(g)]
    /\ \A x \in Plan : step = Return(x, NoTuple) => D[x] = {}

\* At the start of a run, all rows are due.
LEMMA RestAtStart ==
    ASSUME World, NEW x \in Plan, NEW D,
           IsTable(x) => pos[x.table] = 0, ~IsTable(x) => cur[x] = NoTuple,
           ~IsTable(x) => D[LeftPlan(x)] = All(LeftPlan(x))
    PROVE  Rest(x, D) = All(x)
<1>1. x \in FromClauses /\ PlanTree
  BY PlanIsTree DEF PlanTree
<1>2. CASE IsTable(x)
  <2>1. tables[x.table] \in Seq(Int \cup {Null})
    BY <1>1, <1>2, WorldIs DEF PlanTree
  <2>2. ScanAhead(x.table) = IF UsesIndex(x.table, indexed) THEN KeptRows(x.table)
                             ELSE DOMAIN tables[x.table]
    <3>1. Ahead(x.table) = KeptRows(x.table)
      BY <1>2 DEF Ahead
    <3>2. {r \in DOMAIN tables[x.table] : r > pos[x.table]} = DOMAIN tables[x.table]
      BY <1>2, <2>1
    <3> QED
      BY <3>1, <3>2 DEF ScanAhead
  <2>3. All(x) = ScanRows(x.table, indexed)
    BY <1>1, <1>2, RowsIs DEF All
  <2>4. Rest(x, D) = {Row(x.table, r) : r \in ScanAhead(x.table)}
    BY <1>2 DEF Rest
  <2> QED
    BY <2>2, <2>3, <2>4 DEF ScanRows
<1>3. CASE ~IsTable(x)
  <2>1. All(x) = LoopRows(x, All(LeftPlan(x)), All(RightPlan(x)))
    BY <1>1, <1>3, RowsIs DEF All
  <2> QED
    BY <1>3, <2>1 DEF Rest
<1> QED
  BY <1>2, <1>3

LEMMA AllType ==
    ASSUME World
    PROVE  \A x \in Plan : All(x) \in SUBSET Tuples(x.columns)
BY PlanIsTree, RowsType DEF All, PlanTree

LEMMA DueStarts ==
    ASSUME Init
    PROVE  \E D : DueInv(D) /\ D[query.from] = All(query.from)
<1> DEFINE D == [x \in Plan |-> All(x)]
<1>1. World /\ JoinsOf(query.from) = Inner
  BY InnerIs DEF Init, World
<1>2. PlanTree
  BY <1>1, PlanIsTree
<1>3. \A x \in Plan : ~At(x) /\ step # Return(x, NoTuple) /\ Flight(x) = {}
  BY <1>1, TopNodes, StepsAre DEF Init, At, Flight
<1>4. \A g \in Inner : cur[g] = NoTuple
  BY <1>1 DEF Init
<1>5. \A x \in Plan : Rest(x, D) = All(x)
  <2> SUFFICES ASSUME NEW x \in Plan PROVE Rest(x, D) = All(x)
    OBVIOUS
  <2>1. IsTable(x) => pos[x.table] = 0
    BY <1>2 DEF PlanTree, Init
  <2>2. ~IsTable(x) => cur[x] = NoTuple /\ D[LeftPlan(x)] = All(LeftPlan(x))
    BY <1>2, <1>4 DEF Inner, PlanTree
  <2> QED
    BY <1>1, <2>1, <2>2, RestAtStart
<1>6. \A x \in Plan : D[x] = All(x) /\ All(x) \in SUBSET Tuples(x.columns)
  BY <1>1, AllType
<1> HIDE DEF D
<1>7. DueInv(D)
  BY <1>3, <1>4, <1>5, <1>6 DEF DueInv
<1> QED
  BY <1>2, <1>6, <1>7 DEF PlanTree

\* What a node has yet to give depends on its own state and on what its children have.
LEMMA RestFrame ==
    ASSUME TypeInv, UNCHANGED input, NEW D, NEW E, NEW x \in Plan,
           IsTable(x) => pos'[x.table] = pos[x.table],
           ~IsTable(x) => /\ cur'[x] = cur[x] /\ needNew'[x] = needNew[x]
                          /\ (~needNew[x] /\ cur[x] # NoTuple => noResult'[x] = noResult[x])
                          /\ E[LeftPlan(x)] = D[LeftPlan(x)] /\ E[RightPlan(x)] = D[RightPlan(x)]
    PROVE  Rest(x, E)' = Rest(x, D)
<1>1. World /\ PlanTree
  BY PlanIsTree DEF TypeInv
<1>2. CASE IsTable(x)
  <2>1. ScanAhead(x.table)' = ScanAhead(x.table)
    BY <1>2, IndexFrame, InputFrame DEF ScanAhead, Ahead
  <2> QED
    BY <1>2, <2>1 DEF Rest
<1>3. CASE ~IsTable(x)
  <2>1. LeftPlan(x) \in FromClauses /\ RightPlan(x) \in FromClauses
    BY <1>1, <1>3 DEF PlanTree, Inner
  <2>2. All(RightPlan(x))' = All(RightPlan(x))
    BY <2>1, InputFrame
  <2>3. Rest(x, E)' = (IF ~needNew'[x] /\ cur'[x] # NoTuple
                       THEN Current(x, cur[x], D[RightPlan(x)], noResult'[x]) ELSE {})
                      \cup LoopRows(x, D[LeftPlan(x)], All(RightPlan(x)))
    BY <1>3, <2>2, LoopFrame DEF Rest
  <2>4. CASE ~needNew[x] /\ cur[x] # NoTuple
    BY <1>3, <2>3, <2>4 DEF Rest
  <2>5. CASE ~(~needNew[x] /\ cur[x] # NoTuple)
    BY <1>3, <2>3, <2>5 DEF Rest
  <2> QED
    BY <2>4, <2>5
<1> QED
  BY <1>2, <1>3

LEMMA NoFlight ==
    \A x : step.does # "return" \/ step.node # x => Flight(x) = {}
BY DEF Flight, At

LEMMA DueFrame ==
    ASSUME TypeInv, UNCHANGED <<input, pos, loops>>, step' = step, NEW D, DueInv(D)
    PROVE  DueInv(D)'
<1>1. Plan' = Plan /\ Inner' = Inner /\ \A C : Tuples(C)' = Tuples(C)
  BY TypeFrame
<1>2. \A x \in Plan : Rest(x, D)' = Rest(x, D)
  BY RestFrame DEF loops
<1>3. \A x : Flight(x)' = Flight(x)
  BY DEF Flight, At
<1> QED
  BY <1>1, <1>2, <1>3 DEF DueInv, loops

LEMMA RowsDiffer ==
    \A t, r, s : Row(t, r) = Row(t, s) => r = s
<1> SUFFICES ASSUME NEW t, NEW r, NEW s, Row(t, r) = Row(t, s) PROVE r = s
  OBVIOUS
<1>1. Row(t, r)[t] = r /\ Row(t, s)[t] = s
  BY DEF Row
<1> QED
  BY <1>1

LEMMA DueScans ==
    ASSUME TypeInv, NEW t \in DOMAIN pos, SequentialScan(t) \/ IdxScan(t), NEW D, DueInv(D)
    PROVE  DueInv(D)'
<1>1. World /\ PosOK /\ t \in query.from.columns /\ pos \in [query.from.columns -> Nat]
  BY DEF TypeInv, PosOK
<1>2. /\ UNCHANGED <<input, loops, sort, out, status>> /\ step = Call(RangeVar(t))
      /\ (\E r : ScanGives(t, r)) \/ ScanEnds(t)
  BY <1>1, ScanSteps
<1>3. Plan' = Plan /\ Inner' = Inner /\ \A C : Tuples(C)' = Tuples(C)
  BY <1>2, TypeFrame
<1> DEFINE T == RangeVar(t)
<1>4. T \in Plan /\ IsTable(T) /\ T.table = t
  BY <1>1, PlanNodes DEF IsTable, RangeVar
<1>5. PlanTree
  BY <1>1, PlanIsTree
<1>6. ASSUME NEW x \in Plan, x # T PROVE Rest(x, D)' = Rest(x, D)
  <2>1. IsTable(x) => x.table # t /\ x.table \in query.from.columns
    BY <1>5, <1>6 DEF PlanTree
  <2>2. IsTable(x) => pos'[x.table] = pos[x.table]
    BY <1>1, <1>2, <2>1 DEF ScanGives, ScanEnds
  <2> QED
    BY <1>2, <2>2, RestFrame DEF loops
<1> HIDE DEF T
<1>7. \A x : Flight(x) = {}
  BY <1>2, StepsAre, NoFlight
<1>8. \E r : step' = Return(T, r)
  BY <1>2 DEF ScanGives, ScanEnds, T
<1>9. \A x : x # T => Flight(x)' = {} /\ step' # Return(x, NoTuple)
  BY <1>8, StepsAre DEF Flight, At
<1>10. D[T] = Rest(T, D)' \cup Flight(T)' /\ Flight(T)' \cap Rest(T, D)' = {}
       /\ (step' = Return(T, NoTuple) => D[T] = {})
  <2>1. D[T] = {Row(t, r) : r \in ScanAhead(t)}
    BY <1>4, <1>7 DEF DueInv, Rest
  <2>2. Rest(T, D)' = {Row(t, r) : r \in ScanAhead(t)'}
    BY <1>4 DEF Rest
  <2>3. CASE ScanEnds(t)
    <3>1. step' = Return(T, NoTuple) /\ Flight(T)' = {}
      BY <2>3, StepsAre DEF ScanEnds, T, Flight, At
    <3>2. ScanAhead(t)' = ScanAhead(t)
      BY <1>2, <2>3, IndexFrame, InputFrame DEF ScanEnds, ScanAhead, Ahead
    <3> QED
      BY <2>1, <2>2, <2>3, <3>1, <3>2 DEF ScanEnds
  <2>4. CASE \E r : ScanGives(t, r)
    <3>1. PICK r : ScanGives(t, r)
      BY <2>4
    <3>2. step' = Return(T, Row(t, r)) /\ Row(t, r) # NoTuple
      BY <3>1 DEF ScanGives, T, Row, NoTuple
    <3>3. Flight(T)' = {Row(t, r)} /\ step' # Return(T, NoTuple)
      BY <3>2, StepsAre DEF Flight, At
    <3>4. r \in ScanAhead(t) /\ ScanAhead(t)' = ScanAhead(t) \ {r}
      BY <3>1 DEF ScanGives
    <3> QED
      BY <2>1, <2>2, <3>3, <3>4, RowsDiffer
  <2> QED
    BY <1>2, <2>3, <2>4
<1>11. ASSUME NEW x \in Plan
       PROVE  /\ D[x] = Rest(x, D)' \cup Flight(x)' /\ Flight(x)' \cap Rest(x, D)' = {}
              /\ step' = Return(x, NoTuple) => D[x] = {}
  <2>1. CASE x = T
    BY <1>10, <2>1
  <2>2. CASE x # T
    BY <1>6, <1>7, <1>9, <2>2 DEF DueInv
  <2> QED
    BY <2>1, <2>2
<1> QED
  BY <1>2, <1>3, <1>11 DEF DueInv, loops

LEMMA DueNestedLoopScan ==
    ASSUME TypeInv, ControlInv, NEW f \in DOMAIN cur, NestedLoopScan(f), NEW D, DueInv(D)
    PROVE  DueInv(D)'
<1>0. f \in Inner /\ World /\ noResult \in [Inner -> BOOLEAN]
  BY DEF TypeInv, LoopsOK
<1>1. /\ UNCHANGED <<input, pos, cur, needNew>> /\ noResult' = [noResult EXCEPT ![f] = FALSE]
      /\ step = Call(f) /\ \E c : step' = Call(c)
  BY DEF NestedLoopScan, Continue
<1>2. Plan' = Plan /\ Inner' = Inner /\ \A C : Tuples(C)' = Tuples(C)
  BY <1>1, TypeFrame
<1>3. ~needNew[f] /\ cur[f] # NoTuple => ~noResult[f]
  <2>1. \A x \in Plan : At(x) => x = f /\ ~Under(x, RightPlan(f))
    BY <1>0, <1>1, StepsAre, AroundNode DEF At
  <2> QED
    BY <1>0, <2>1 DEF ControlInv
<1>4. ASSUME NEW x \in Plan PROVE Rest(x, D)' = Rest(x, D)
  <2>1. ~IsTable(x) => x \in Inner
    BY DEF Inner
  <2>2. ~IsTable(x) => (~needNew[x] /\ cur[x] # NoTuple => noResult'[x] = noResult[x])
    <3>1. CASE x = f
      <4>1. ~needNew[f] /\ cur[f] # NoTuple => noResult[f] = FALSE /\ noResult'[f] = FALSE
        BY <1>0, <1>1, <1>3
      <4> QED
        BY <3>1, <4>1
    <3> QED
      BY <1>0, <1>1, <2>1, <3>1
  <2> QED
    BY <1>1, <2>2, RestFrame
<1>5. \A x : Flight(x) = {} /\ Flight(x)' = {} /\ step' # Return(x, NoTuple)
  BY <1>1, StepsAre DEF Flight, At
<1> QED
  BY <1>1, <1>2, <1>4, <1>5 DEF DueInv

\* What follows from the loop's place in the plan.
LEMMA LoopPlace ==
    ASSUME World, NEW f \in Inner
    PROVE  /\ f \in FromClauses /\ ~IsTable(f) /\ f.columns \subseteq query.from.columns
           /\ LeftPlan(f) # RightPlan(f) /\ LeftPlan(f) # f /\ RightPlan(f) # f
           /\ ~Under(f, RightPlan(f)) /\ ~Under(LeftPlan(f), RightPlan(f))
           /\ LeftPlan(f) # query.from /\ RightPlan(f) # query.from
           /\ \A g \in Inner : /\ LeftPlan(g) # RightPlan(f) /\ RightPlan(g) # LeftPlan(f)
                               /\ g # f => LeftPlan(g) # LeftPlan(f) /\ RightPlan(g) # RightPlan(f)
<1>1. PlanTree
  BY PlanIsTree
<1>2. LeftPlan(f) # f /\ RightPlan(f) # f
  BY <1>1, UnderIs DEF PlanTree
<1>3. ~Under(f, RightPlan(f)) /\ ~Under(LeftPlan(f), RightPlan(f))
  BY AroundNode
<1> QED
  BY <1>1, <1>2, <1>3, PlanNodes DEF PlanTree

LEMMA DueLeftReturns ==
    ASSUME TypeInv, ControlInv, NEW f \in DOMAIN cur, LeftReturns(f), NEW D, DueInv(D)
    PROVE  \E E : DueInv(E)' /\ E[query.from] = D[query.from]
<1> DEFINE L == LeftPlan(f)
           R == RightPlan(f)
<1>0. /\ f \in Inner /\ World /\ LoopsOK /\ PosOK /\ cur \in [Inner -> OrNoTuple(UNION {Tuples(C) : C \in SUBSET Tables})]
      /\ needNew \in [Inner -> BOOLEAN] /\ noResult \in [Inner -> BOOLEAN]
  BY DEF TypeInv, LoopsOK
<1>1. /\ UNCHANGED input /\ step.does = "return" /\ step.node = L /\ At(L)
      /\ cur' = [cur EXCEPT ![f] = step.tuple] /\ needNew' = [needNew EXCEPT ![f] = FALSE]
  BY DEF LeftReturns, Continue, At
<1>2. /\ cur'[f] = step.tuple /\ ~needNew'[f]
      /\ \A g \in Inner : g # f => cur'[g] = cur[g] /\ needNew'[g] = needNew[g]
  BY <1>0, <1>1
<1>3. Plan' = Plan /\ Inner' = Inner /\ \A C : Tuples(C)' = Tuples(C)
  BY <1>1, TypeFrame
<1>4. PlanTree /\ f \in Plan /\ L \in Plan /\ R \in Plan /\ Under(L, L) /\ Under(R, R)
  BY <1>0, PlanIsTree, AroundNode
<1>5. /\ f \in FromClauses /\ ~IsTable(f) /\ L # R /\ L # f /\ R # f
      /\ ~Under(f, R) /\ ~Under(L, R) /\ L # query.from /\ R # query.from
      /\ \A g \in Inner : /\ LeftPlan(g) # R /\ RightPlan(g) # L
                          /\ g # f => LeftPlan(g) # L /\ RightPlan(g) # R
  BY <1>0, LoopPlace
<1>6. needNew[f] /\ Quiet(R)
  BY <1>0, <1>1, <1>4 DEF ControlInv
<1>7. /\ \A x \in Plan : x # L => Flight(x) = {}
      /\ D[f] = LoopRows(f, D[L], All(R))
  <2>1. \A x \in Plan : x # L => Flight(x) = {}
    BY <1>1 DEF Flight, At
  <2>2. D[f] = Rest(f, D) \cup Flight(f) /\ Flight(f) = {}
    BY <1>4, <1>5, <2>1 DEF DueInv
  <2>3. Rest(f, D) = {} \cup LoopRows(f, D[L], All(R))
    BY <1>5, <1>6 DEF Rest
  <2> QED
    BY <2>1, <2>2, <2>3
<1>8. \A g \in Inner : LeftPlan(g) \in Plan /\ RightPlan(g) \in Plan
  BY <1>4 DEF PlanTree
<1>9. CASE step.tuple = NoTuple
  <2>1. step' = Return(f, NoTuple) /\ UNCHANGED <<pos, noResult>> /\ step = Return(L, NoTuple)
    BY <1>0, <1>1, <1>9, StepIs DEF LeftReturns, Continue, TypeInv
  <2>2. D[L] = {} /\ D[f] = {}
    <3>1. D[L] = {}
      BY <1>4, <2>1 DEF DueInv
    <3> QED
      BY <1>7, <3>1, LoopRowsIs
  <2>3. Rest(f, D)' = {}
    <3>1. Rest(f, D)' = {} \cup LoopRows(f, {}, All(R))'
      BY <1>2, <1>5, <1>9, <2>2 DEF Rest
    <3>2. PICK rs : rs = All(R)'
      OBVIOUS
    <3>3. LoopRows(f, {}, rs)' = LoopRows(f, {}, rs) /\ LoopRows(f, {}, rs) = {}
      BY <1>1, LoopFrame, LoopRowsIs
    <3> QED
      BY <3>1, <3>2, <3>3
  <2>4. \A x \in Plan : x # f => Rest(x, D)' = Rest(x, D)
    BY <1>1, <1>2, <2>1, RestFrame DEF Inner
  <2>5. \A x : Flight(x) = {} /\ Flight(x)' = {} /\ (step' = Return(x, NoTuple) => x = f)
    BY <1>9, <2>1, StepsAre DEF Flight, At
  <2>6. \A x \in Plan : D[x] = Rest(x, D)' \cup Flight(x)' /\ Flight(x)' \cap Rest(x, D)' = {}
    BY <2>2, <2>3, <2>4, <2>5 DEF DueInv
  <2>7. DueInv(D)'
    BY <1>2, <1>3, <1>9, <2>2, <2>5, <2>6 DEF DueInv
  <2> QED
    BY <2>7
<1>10. CASE step.tuple # NoTuple
  <2>1. PICK t : t = step.tuple
    OBVIOUS
  <2>2. /\ step' = Call(R) /\ noResult' = [noResult EXCEPT ![f] = TRUE] /\ pos' = RestartRight(f)
    BY <1>10 DEF LeftReturns, Continue
  <2>3. PICK E : E = [x \in Plan |-> IF x = L THEN D[L] \ {t} ELSE IF Under(x, R) THEN All(x) ELSE D[x]]
    OBVIOUS
  <2>4. /\ E[L] = D[L] \ {t}
        /\ \A x \in Plan : x # L /\ Under(x, R) => E[x] = All(x)
        /\ \A x \in Plan : x # L /\ ~Under(x, R) => E[x] = D[x]
    BY <1>4, <2>3
  <2>5. \A x : Flight(x)' = {} /\ step' # Return(x, NoTuple)
    BY <2>2, StepsAre DEF Flight, At
  <2>6. D[L] = Rest(L, D) \cup {t} /\ t \notin Rest(L, D) /\ E[L] = Rest(L, D) /\ t \in D[L]
    <3>1. Flight(L) = {t}
      BY <1>1, <1>10, <2>1 DEF Flight
    <3>2. D[L] = Rest(L, D) \cup {t} /\ t \notin Rest(L, D)
      BY <1>4, <3>1 DEF DueInv
    <3> QED
      BY <2>4, <3>2
  <2>7. /\ \A c \in query.from.columns : pos'[c] = IF c \in R.columns THEN 0 ELSE pos[c]
        /\ \A x \in Plan : IsTable(x) => /\ x.table \in query.from.columns
                                         /\ Under(x, R) <=> x.table \in R.columns
    BY <1>0, <1>4, <2>2 DEF RestartRight, PosOK, PlanTree, Under
  <2>8. ASSUME NEW x \in Plan, Under(x, R) PROVE Rest(x, E)' = All(x)
    <3>1. x # f /\ x \in FromClauses
      BY <1>4, <1>5, <2>8 DEF PlanTree
    <3>2. IsTable(x) => pos'[x.table] = 0
      BY <2>7, <2>8
    <3>3. ~IsTable(x) => cur'[x] = NoTuple
      BY <1>2, <1>6, <2>8, <3>1 DEF Quiet, Inner
    <3>4. ~IsTable(x) => E[LeftPlan(x)] = All(LeftPlan(x))
      <4> SUFFICES ASSUME ~IsTable(x) PROVE E[LeftPlan(x)] = All(LeftPlan(x))
        OBVIOUS
      <4>1. x \in Inner /\ LeftPlan(x) \in Plan /\ LeftPlan(x) # L
        BY <1>5, <1>8, <3>1 DEF Inner
      <4>2. Under(LeftPlan(x), R)
        BY <1>4, <2>8, <4>1 DEF PlanTree
      <4> QED
        BY <2>4, <4>1, <4>2
    <3>5. \A y \in Plan : All(y)' = All(y)
      BY <1>1, <1>4, InputFrame DEF PlanTree
    <3>6. World'
      BY <1>0, <1>1, InputFrame
    <3>7. CASE IsTable(x)
      <4>1. tables[x.table] \in Seq(Int \cup {Null})
        BY <1>0, <2>7, <3>7, WorldIs
      <4>2. ScanAhead(x.table)' = IF UsesIndex(x.table, indexed) THEN KeptRows(x.table)
                                  ELSE DOMAIN tables[x.table]
        <5>1. Ahead(x.table)' = KeptRows(x.table)
          BY <1>1, <3>2, <3>7, IndexFrame DEF Ahead
        <5>2. {r \in DOMAIN tables[x.table] : r > pos'[x.table]} = DOMAIN tables[x.table]
          BY <3>2, <3>7, <4>1
        <5> QED
          BY <1>1, <5>1, <5>2, IndexFrame, InputFrame DEF ScanAhead
      <4>3. All(x) = ScanRows(x.table, indexed)
        BY <3>1, <3>7, RowsIs DEF All
      <4>4. Rest(x, E)' = {Row(x.table, r) : r \in ScanAhead(x.table)'}
        BY <3>7 DEF Rest
      <4> QED
        BY <4>2, <4>3, <4>4 DEF ScanRows
    <3>8. CASE ~IsTable(x)
      <4>1. x \in Inner /\ LeftPlan(x) \in Plan /\ RightPlan(x) \in Plan
        BY <1>8, <3>8 DEF Inner
      <4>2. Rest(x, E)' = {} \cup LoopRows(x, All(LeftPlan(x)), All(RightPlan(x)))'
        BY <3>3, <3>4, <3>5, <3>8, <4>1 DEF Rest
      <4>3. LoopRows(x, All(LeftPlan(x)), All(RightPlan(x)))' = LoopRows(x, All(LeftPlan(x)), All(RightPlan(x)))
        BY <1>1, <3>5, <4>1, LoopFrame
      <4>4. All(x) = LoopRows(x, All(LeftPlan(x)), All(RightPlan(x)))
        BY <3>1, <3>8, RowsIs DEF All
      <4> QED
        BY <4>2, <4>3, <4>4
    <3> QED
      BY <3>7, <3>8
  <2>9. ASSUME NEW x \in Plan, x # f, ~Under(x, R) PROVE Rest(x, E)' = Rest(x, D)
    <3>1. IsTable(x) => pos'[x.table] = pos[x.table]
      BY <2>7, <2>9
    <3>2. ~IsTable(x) => /\ E[LeftPlan(x)] = D[LeftPlan(x)] /\ E[RightPlan(x)] = D[RightPlan(x)]
      <4> SUFFICES ASSUME ~IsTable(x)
                   PROVE  E[LeftPlan(x)] = D[LeftPlan(x)] /\ E[RightPlan(x)] = D[RightPlan(x)]
        OBVIOUS
      <4>1. /\ x \in Inner /\ LeftPlan(x) \in Plan /\ RightPlan(x) \in Plan
            /\ LeftPlan(x) # L /\ RightPlan(x) # L /\ LeftPlan(x) # R /\ RightPlan(x) # R
        BY <1>5, <1>8, <2>9 DEF Inner
      <4>2. ~Under(LeftPlan(x), R) /\ ~Under(RightPlan(x), R)
        BY <1>4, <2>9, <4>1 DEF PlanTree
      <4> QED
        BY <2>4, <4>1, <4>2
    <3>3. ~IsTable(x) => /\ cur'[x] = cur[x] /\ needNew'[x] = needNew[x] /\ noResult'[x] = noResult[x]
      BY <1>0, <1>2, <2>2, <2>9 DEF Inner
    <3> QED
      BY <1>1, <3>1, <3>2, <3>3, RestFrame
  <2>10. Rest(f, E)' = D[f]
    <3>1. E[L] = D[L] \ {t} /\ E[R] = All(R)
      BY <1>4, <1>5, <2>4
    <3>2. noResult'[f] = TRUE
      BY <1>0, <2>2
    <3>3. All(R)' = All(R) /\ cur'[f] = t /\ t # NoTuple
      BY <1>1, <1>2, <1>4, <1>10, <2>1, InputFrame DEF PlanTree
    <3>4. Rest(f, E)' = Current(f, t, All(R), TRUE)' \cup LoopRows(f, D[L] \ {t}, All(R))'
      BY <1>2, <1>5, <3>1, <3>2, <3>3 DEF Rest
    <3>5. PICK rs : rs = All(R)
      OBVIOUS
    <3>6. /\ Current(f, t, rs, TRUE)' = Current(f, t, rs, TRUE)
          /\ LoopRows(f, D[L] \ {t}, rs)' = LoopRows(f, D[L] \ {t}, rs)
      BY <1>1, LoopFrame
    <3>7. Rest(f, E)' = Current(f, t, rs, TRUE) \cup LoopRows(f, D[L] \ {t}, rs)
      BY <3>3, <3>4, <3>5, <3>6
    <3>8. LoopRows(f, D[L], rs) = Current(f, t, rs, TRUE) \cup LoopRows(f, D[L] \ {t}, rs)
      <4>1. LoopRows(f, D[L], rs) = UNION {Current(f, l, rs, TRUE) : l \in D[L]}
        BY LoopRowsIs
      <4>2. LoopRows(f, D[L] \ {t}, rs) = UNION {Current(f, l, rs, TRUE) : l \in D[L] \ {t}}
        BY LoopRowsIs
      <4> QED
        BY <2>6, <4>1, <4>2
    <3> QED
      BY <1>7, <3>5, <3>7, <3>8
  <2>11. \A x \in Plan : E[x] = Rest(x, E)' /\ E[x] \in SUBSET Tuples(x.columns)
    <3> SUFFICES ASSUME NEW x \in Plan PROVE E[x] = Rest(x, E)' /\ E[x] \in SUBSET Tuples(x.columns)
      OBVIOUS
    <3>1. CASE Under(x, R)
      BY <1>0, <1>5, <2>4, <2>8, <3>1, AllType
    <3>2. CASE x = f
      BY <1>4, <1>5, <2>4, <2>10, <3>2 DEF DueInv
    <3>3. CASE x = L
      BY <1>4, <1>5, <2>4, <2>6, <2>9, <3>3 DEF DueInv
    <3>4. CASE x # L /\ x # f /\ ~Under(x, R)
      BY <1>7, <2>4, <2>9, <3>4 DEF DueInv
    <3> QED
      BY <3>1, <3>2, <3>3, <3>4
  <2>12. ASSUME NEW g \in Inner, ~needNew'[g], cur'[g] # NoTuple PROVE cur'[g] \notin E[LeftPlan(g)]
    <3>1. CASE g = f
      BY <1>2, <2>1, <2>4, <3>1
    <3>2. CASE g # f
      <4>1. LeftPlan(g) # L /\ LeftPlan(g) # R /\ LeftPlan(g) \in Plan /\ g \in Plan
        BY <1>5, <1>8, <3>2 DEF Inner
      <4>2. ~Under(g, R)
        BY <1>2, <1>6, <2>12, <3>2 DEF Quiet
      <4>3. ~Under(LeftPlan(g), R)
        BY <1>4, <4>1, <4>2 DEF PlanTree
      <4> QED
        BY <1>2, <2>4, <2>12, <3>2, <4>1, <4>3 DEF DueInv
    <3> QED
      BY <3>1, <3>2
  <2>13. DueInv(E)'
    BY <1>3, <2>5, <2>11, <2>12 DEF DueInv
  <2>14. E[query.from] = D[query.from]
    <3>1. ~Under(query.from, R) /\ query.from \in Plan
      BY <1>0, <1>4, RootIsUnderNone DEF PlanTree
    <3> QED
      BY <1>5, <2>4, <3>1
  <2> QED
    BY <2>13, <2>14
<1> QED
  BY <1>9, <1>10
\* What the present left tuple gives is not due for a left tuple to come.
LEMMA PresentIsNew ==
    ASSUME TypeInv, NEW f \in Inner, ~needNew[f], cur[f] # NoTuple, NEW D, DueInv(D),
           NEW r \in Tuples(RightPlan(f).columns)
    PROVE  /\ cur[f] \in Tuples(LeftPlan(f).columns)
           /\ JoinTuples(cur[f], r) \notin LoopRows(f, D[LeftPlan(f)], All(RightPlan(f)))
           /\ JoinTuples(cur[f], r) # NoTuple
<1> DEFINE L == LeftPlan(f)
           R == RightPlan(f)
<1>1. /\ World /\ PlanTree /\ L \in Plan /\ R \in Plan
      /\ f \in FromClauses /\ ~IsTable(f) /\ f.columns \subseteq query.from.columns
  BY PlanIsTree, PlanNodes DEF TypeInv, PlanTree
<1>2. cur[f] \in Tuples(L.columns)
  BY DEF TypeInv, LoopsOK, OrNoTuple
<1>3. /\ cur[f] \notin D[L] /\ D[L] \in SUBSET Tuples(L.columns)
      /\ All(R) \in SUBSET Tuples(R.columns)
  BY <1>1, AllType DEF DueInv
<1>4. ASSUME JoinTuples(cur[f], r) \in LoopRows(f, D[L], All(R)) PROVE FALSE
  <2>1. PICK l \in D[L], s \in Tuples(R.columns) : JoinTuples(cur[f], r) = JoinTuples(l, s)
    BY <1>1, <1>3, <1>4, LoopRowsType
  <2>2. l \in Tuples(L.columns)
    BY <1>3
  <2> QED
    BY <1>1, <1>2, <1>3, <2>1, <2>2, JoinTuplesTell
<1>5. JoinTuples(cur[f], r) # NoTuple
  BY <1>1, <1>2, JoinTuplesAre, PlanShape, TuplesAreNotNull
<1> QED
  BY <1>2, <1>4, <1>5

LEMMA DueRightEnds ==
    ASSUME TypeInv, ControlInv, NEW f \in DOMAIN cur, RightEnds(f), NEW D, DueInv(D)
    PROVE  DueInv(D)'
<1> DEFINE L == LeftPlan(f)
           R == RightPlan(f)
<1>0. f \in Inner /\ World /\ needNew \in [Inner -> BOOLEAN] /\ noResult \in [Inner -> BOOLEAN]
  BY DEF TypeInv, LoopsOK
<1>1. UNCHANGED input /\ step = Return(R, NoTuple) /\ At(R)
  BY StepsAre DEF RightEnds, Continue, Abort, At
<1>2. Plan' = Plan /\ Inner' = Inner /\ \A C : Tuples(C)' = Tuples(C)
  BY <1>1, TypeFrame
<1>3. PlanTree /\ f \in Plan /\ L \in Plan /\ R \in Plan /\ Under(R, R)
  BY <1>0, PlanIsTree, AroundNode
<1>4. /\ f \in FromClauses /\ ~IsTable(f) /\ f.columns \subseteq query.from.columns
      /\ L # R /\ L # f /\ R # f
  BY <1>0, LoopPlace
<1>5. ~needNew[f] /\ (noResult[f] => cur[f] # NoTuple)
  BY <1>0, <1>1, <1>3 DEF ControlInv
<1>6. D[R] = {}
  BY <1>1, <1>3 DEF DueInv
<1>7. \A x : Flight(x) = {}
  BY <1>1, StepsAre DEF Flight
<1>8. CASE f.method = "outer"
  <2>1. UNCHANGED <<input, pos, loops>> /\ step' = step
    BY <1>8 DEF RightEnds, Abort
  <2> QED
    BY <2>1, DueFrame
<1>9. CASE f.method # "outer"
  <2>1. /\ needNew' = [needNew EXCEPT ![f] = TRUE] /\ UNCHANGED <<pos, cur, noResult>>
        /\ step' = IF Extends(f, noResult[f]) THEN Return(f, NullExtended(f, cur[f])) ELSE Call(L)
    BY <1>9 DEF RightEnds, Continue
  <2>2. needNew'[f] /\ \A g \in Inner : g # f => needNew'[g] = needNew[g]
    BY <1>0, <2>1
  <2>3. \A x \in Plan : x # f => Rest(x, D)' = Rest(x, D)
    BY <1>1, <2>1, <2>2, RestFrame DEF Inner
  <2>4. Rest(f, D)' = LoopRows(f, D[L], All(R))
    <3>1. All(R)' = All(R)
      BY <1>1, <1>3, InputFrame DEF PlanTree
    <3>2. Rest(f, D)' = {} \cup LoopRows(f, D[L], All(R))'
      BY <1>4, <2>2 DEF Rest
    <3>3. PICK rs : rs = All(R)
      OBVIOUS
    <3>4. LoopRows(f, D[L], rs)' = LoopRows(f, D[L], rs)
      BY <1>1, LoopFrame
    <3> QED
      BY <3>1, <3>2, <3>3, <3>4
  <2>5. D[f] = (IF cur[f] # NoTuple THEN Current(f, cur[f], {}, noResult[f]) ELSE {})
               \cup LoopRows(f, D[L], All(R))
    BY <1>3, <1>4, <1>5, <1>6, <1>7 DEF DueInv, Rest
  <2>6. Matches(f, cur[f], {}) = {}
    BY DEF Matches
  <2>7. CASE Extends(f, noResult[f])
    <3>1. cur[f] # NoTuple
      BY <1>5, <2>7 DEF Extends
    <3>2. PICK n \in Tuples(R.columns) : NullExtended(f, cur[f]) = JoinTuples(cur[f], n)
      BY <1>0, <1>4, <1>5, <3>1, NullExtendedIs DEF TypeInv, LoopsOK, OrNoTuple
    <3>3. /\ NullExtended(f, cur[f]) \notin LoopRows(f, D[L], All(R))
          /\ NullExtended(f, cur[f]) # NoTuple
      BY <1>0, <1>5, <3>1, <3>2, PresentIsNew
    <3>4. /\ Flight(f)' = {NullExtended(f, cur[f])} /\ \A x : x # f => Flight(x)' = {}
          /\ \A x : step' # Return(x, NoTuple)
      BY <2>1, <2>7, <3>3, StepsAre DEF Flight, At
    <3>5. Current(f, cur[f], {}, noResult[f]) = {NullExtended(f, cur[f])}
      BY <2>6, <2>7 DEF Current
    <3>6. D[f] = Rest(f, D)' \cup Flight(f)' /\ Flight(f)' \cap Rest(f, D)' = {}
      BY <2>4, <2>5, <3>1, <3>3, <3>4, <3>5
    <3>7. \A x \in Plan : D[x] = Rest(x, D)' \cup Flight(x)' /\ Flight(x)' \cap Rest(x, D)' = {}
      BY <1>7, <2>3, <3>4, <3>6 DEF DueInv
    <3> QED
      BY <1>2, <2>1, <2>2, <3>4, <3>7 DEF DueInv
  <2>8. CASE ~Extends(f, noResult[f])
    <3>1. \A x : Flight(x)' = {} /\ step' # Return(x, NoTuple)
      BY <2>1, <2>8, StepsAre DEF Flight, At
    <3>2. Current(f, cur[f], {}, noResult[f]) = {}
      BY <2>6, <2>8 DEF Current
    <3>3. D[f] = Rest(f, D)'
      BY <2>4, <2>5, <3>2
    <3>4. \A x \in Plan : D[x] = Rest(x, D)' \cup Flight(x)' /\ Flight(x)' \cap Rest(x, D)' = {}
      BY <1>7, <2>3, <3>1, <3>3 DEF DueInv
    <3> QED
      BY <1>2, <2>1, <2>2, <3>1, <3>4 DEF DueInv
  <2> QED
    BY <2>7, <2>8
<1> QED
  BY <1>8, <1>9

LEMMA DueRightReturns ==
    ASSUME TypeInv, ControlInv, NEW f \in DOMAIN cur, RightReturns(f), NEW D, DueInv(D)
    PROVE  \E E : DueInv(E)' /\ E[query.from] = D[query.from]
<1> DEFINE L == LeftPlan(f)
           R == RightPlan(f)
<1>0. f \in Inner /\ World /\ noResult \in [Inner -> BOOLEAN]
  BY DEF TypeInv, LoopsOK
<1>1. /\ UNCHANGED input /\ step.does = "return" /\ step.node = R /\ At(R)
      /\ step.tuple # NoTuple
  BY DEF RightReturns, Continue, Abort, At
<1>2. Plan' = Plan /\ Inner' = Inner /\ \A C : Tuples(C)' = Tuples(C)
  BY <1>1, TypeFrame
<1>3. PlanTree /\ f \in Plan /\ L \in Plan /\ R \in Plan /\ Under(R, R) /\ R \in Nodes /\ Gives(R) = R.columns
  BY <1>0, PlanIsTree, AroundNode, PlanNodes
<1>4. /\ f \in FromClauses /\ ~IsTable(f) /\ f.columns \subseteq query.from.columns
      /\ L # R /\ L # f /\ R # f /\ R # query.from
      /\ \A g \in Inner : LeftPlan(g) # R /\ (g # f => RightPlan(g) # R)
  BY <1>0, LoopPlace
<1>5. ~needNew[f]
  BY <1>0, <1>1, <1>3 DEF ControlInv
<1>6. CASE cur[f] = NoTuple \/ IsNull(f.on, JoinTuples(cur[f], step.tuple))
  <2>1. UNCHANGED <<input, pos, loops>> /\ step' = step
    BY <1>6, ValuesAssumption DEF RightReturns, Abort, Keeps, IsNull
  <2> QED
    BY <2>1, DueFrame
<1>7. CASE cur[f] # NoTuple /\ ~IsNull(f.on, JoinTuples(cur[f], step.tuple))
  <2>1. PICK t : t = step.tuple
    OBVIOUS
  <2>2. t \in Tuples(R.columns)
    BY <1>1, <1>3, <2>1, ReturnedTuple DEF OrNoTuple
  <2>3. PICK E : E = [x \in Plan |-> IF x = R THEN D[R] \ {t} ELSE D[x]]
    OBVIOUS
  <2>4. E[R] = D[R] \ {t} /\ \A x \in Plan : x # R => E[x] = D[x]
    BY <1>3, <2>3
  <2>5. D[R] = Rest(R, D) \cup {t} /\ t \notin Rest(R, D) /\ E[R] = Rest(R, D) /\ t \in D[R]
    <3>1. Flight(R) = {t}
      BY <1>1, <2>1 DEF Flight
    <3> QED
      BY <1>3, <2>4, <3>1 DEF DueInv
  <2>6. \A x \in Plan : x # R => Flight(x) = {}
    BY <1>1 DEF Flight, At
  <2>7. /\ UNCHANGED <<pos, cur, needNew>>
        /\ \A g \in Inner : g # f => noResult'[g] = noResult[g]
    BY <1>0, <1>7 DEF RightReturns, loops
  <2>8. ASSUME NEW x \in Plan, x # f PROVE Rest(x, E)' = Rest(x, D)
    <3>1. ~IsTable(x) => /\ LeftPlan(x) \in Plan /\ LeftPlan(x) # R
                         /\ RightPlan(x) \in Plan /\ RightPlan(x) # R /\ x \in Inner
      BY <1>3, <1>4, <2>8 DEF PlanTree, Inner
    <3> QED
      BY <1>1, <2>4, <2>7, <2>8, <3>1, RestFrame
  <2>9. PICK rs : rs = All(R)
    OBVIOUS
  <2>10. /\ All(R)' = rs
         /\ \A lonely : Current(f, cur[f], E[R], lonely)' = Current(f, cur[f], E[R], lonely)
         /\ LoopRows(f, D[L], rs)' = LoopRows(f, D[L], rs)
    <3>1. All(R)' = rs
      BY <1>1, <1>3, <2>9, InputFrame DEF PlanTree
    <3>2. \A lonely : Current(f, cur[f], E[R], lonely)' = Current(f, cur[f], E[R], lonely)
      BY <1>1, <2>7, LoopFrame
    <3>3. LoopRows(f, D[L], rs)' = LoopRows(f, D[L], rs)
      BY <1>1, LoopFrame
    <3> QED
      BY <3>1, <3>2, <3>3
  <2>11. Rest(f, E)' = Current(f, cur[f], E[R], noResult'[f]) \cup LoopRows(f, D[L], rs)
    <3>1. Rest(f, E)' = Current(f, cur[f], E[R], noResult[f])' \cup LoopRows(f, D[L], rs)'
      BY <1>3, <1>4, <1>5, <1>7, <2>4, <2>7, <2>10 DEF Rest
    <3>2. PICK lonely : lonely = noResult'[f]
      OBVIOUS
    <3>3. Rest(f, E)' = Current(f, cur[f], E[R], lonely)' \cup LoopRows(f, D[L], rs)'
      BY <3>1, <3>2
    <3> QED
      BY <2>10, <3>2, <3>3
  <2>12. D[f] = Current(f, cur[f], D[R], noResult[f]) \cup LoopRows(f, D[L], rs)
    BY <1>3, <1>4, <1>5, <1>7, <2>6, <2>9 DEF DueInv, Rest
  <2>13. Matches(f, cur[f], E[R]) = Matches(f, cur[f], D[R]) \ {t}
    BY <2>4 DEF Matches
  <2>14. /\ D[f] = Rest(f, E)' \cup Flight(f)' /\ Flight(f)' \cap Rest(f, E)' = {}
         /\ \A x : (x # f => Flight(x)' = {}) /\ step' # Return(x, NoTuple)
    <3>1. CASE Keeps(f.on, JoinTuples(cur[f], t))
      <4>1. noResult' = [noResult EXCEPT ![f] = FALSE] /\ step' = Return(f, JoinTuples(cur[f], t))
        BY <1>7, <2>1, <3>1 DEF RightReturns, Continue
      <4>2. /\ cur[f] \in Tuples(L.columns)
            /\ JoinTuples(cur[f], t) \notin LoopRows(f, D[L], rs) /\ JoinTuples(cur[f], t) # NoTuple
        BY <1>0, <1>5, <1>7, <2>2, <2>9, PresentIsNew
      <4>3. /\ Flight(f)' = {JoinTuples(cur[f], t)} /\ \A x : x # f => Flight(x)' = {}
            /\ \A x : step' # Return(x, NoTuple)
        BY <4>1, <4>2, StepsAre DEF Flight, At
      <4>4. t \in Matches(f, cur[f], D[R])
        BY <2>5, <3>1 DEF Matches
      <4>5. Current(f, cur[f], D[R], noResult[f]) = {JoinTuples(cur[f], r) : r \in Matches(f, cur[f], D[R])}
        BY <4>4 DEF Current
      <4>6. Current(f, cur[f], E[R], FALSE) = {JoinTuples(cur[f], r) : r \in Matches(f, cur[f], D[R]) \ {t}}
        BY <2>13 DEF Current, Extends
      <4>7. \A r \in Matches(f, cur[f], D[R]) \ {t} : JoinTuples(cur[f], r) # JoinTuples(cur[f], t)
        <5>1. Matches(f, cur[f], D[R]) \subseteq Tuples(R.columns)
          BY <1>3 DEF Matches, DueInv
        <5> QED
          BY <1>0, <1>4, <2>2, <4>2, <5>1, JoinTuplesTell
      <4>8. ~noResult'[f]
        BY <1>0, <4>1
      <4>9. Current(f, cur[f], E[R], noResult'[f]) = Current(f, cur[f], E[R], FALSE)
        BY <4>8 DEF Current, Extends
      <4> QED
        BY <2>11, <2>12, <4>2, <4>3, <4>4, <4>5, <4>6, <4>7, <4>9, ZenonT(30)
    <3>2. CASE ~Keeps(f.on, JoinTuples(cur[f], t))
      <4>1. UNCHANGED loops /\ step' = Call(R)
        BY <1>7, <2>1, <3>2 DEF RightReturns, Continue
      <4>2. \A x : Flight(x)' = {} /\ step' # Return(x, NoTuple)
        BY <4>1, StepsAre DEF Flight, At
      <4>3. Matches(f, cur[f], E[R]) = Matches(f, cur[f], D[R])
        BY <2>13, <3>2 DEF Matches
      <4>4. Current(f, cur[f], E[R], noResult'[f]) = Current(f, cur[f], D[R], noResult[f])
        BY <4>1, <4>3 DEF Current, loops
      <4> QED
        BY <2>11, <2>12, <4>2, <4>4
    <3> QED
      BY <3>1, <3>2
  <2>15. \A x \in Plan : /\ E[x] = Rest(x, E)' \cup Flight(x)' /\ Flight(x)' \cap Rest(x, E)' = {}
                         /\ E[x] \in SUBSET Tuples(x.columns)
    <3> SUFFICES ASSUME NEW x \in Plan
                 PROVE  /\ E[x] = Rest(x, E)' \cup Flight(x)' /\ Flight(x)' \cap Rest(x, E)' = {}
                        /\ E[x] \in SUBSET Tuples(x.columns)
      OBVIOUS
    <3>1. CASE x = f
      BY <1>3, <1>4, <2>4, <2>14, <3>1 DEF DueInv
    <3>2. CASE x = R
      BY <1>3, <1>4, <2>4, <2>5, <2>8, <2>14, <3>2 DEF DueInv
    <3>3. CASE x # f /\ x # R
      BY <2>4, <2>6, <2>8, <2>14, <3>3 DEF DueInv
    <3> QED
      BY <3>1, <3>2, <3>3
  <2>16. \A g \in Inner : ~needNew'[g] /\ cur'[g] # NoTuple => cur'[g] \notin E[LeftPlan(g)]
    BY <1>3, <1>4, <2>4, <2>7 DEF DueInv, PlanTree
  <2>17. DueInv(E)'
    BY <1>2, <2>14, <2>15, <2>16 DEF DueInv
  <2>18. E[query.from] = D[query.from]
    BY <1>3, <1>4, <2>4 DEF PlanTree
  <2> QED
    BY <2>17, <2>18
<1> QED
  BY <1>6, <1>7

\* The caller of the root takes what the root is just giving.
LEMMA DueAtRoot ==
    ASSUME TypeInv, UNCHANGED <<input, pos, loops>>, NEW D, DueInv(D),
           \A x \in Plan : At(x) => x = query.from,
           \A x \in Plan : Flight(x)' = {} /\ step' # Return(x, NoTuple)
    PROVE  \E E : DueInv(E)' /\ E[query.from] = D[query.from] \ Flight(query.from)
<1> DEFINE root == query.from
<1>1. World /\ PlanTree /\ root \in Plan
  BY PlanIsTree DEF TypeInv, PlanTree
<1>2. Plan' = Plan /\ Inner' = Inner /\ \A C : Tuples(C)' = Tuples(C)
  BY TypeFrame
<1>3. PICK E : E = [x \in Plan |-> IF x = root THEN D[x] \ Flight(x) ELSE D[x]]
  OBVIOUS
<1>4. E[root] = D[root] \ Flight(root) /\ \A x \in Plan : x # root => E[x] = D[x]
  BY <1>1, <1>3
<1>5. \A x \in Plan : x # root => Flight(x) = {}
  BY DEF Flight
<1>6. \A g \in Inner : /\ LeftPlan(g) \in Plan /\ LeftPlan(g) # root
                       /\ RightPlan(g) \in Plan /\ RightPlan(g) # root
  BY <1>1 DEF PlanTree
<1>7. ASSUME NEW x \in Plan PROVE Rest(x, E)' = Rest(x, D)
  <2>1. ~IsTable(x) => x \in Inner
    BY DEF Inner
  <2>2. ~IsTable(x) => E[LeftPlan(x)] = D[LeftPlan(x)] /\ E[RightPlan(x)] = D[RightPlan(x)]
    BY <1>4, <1>6, <2>1
  <2> QED
    BY <2>2, RestFrame DEF loops
<1>8. \A x \in Plan : E[x] = Rest(x, E)' /\ E[x] \in SUBSET Tuples(x.columns)
  <2> SUFFICES ASSUME NEW x \in Plan PROVE E[x] = Rest(x, E)' /\ E[x] \in SUBSET Tuples(x.columns)
    OBVIOUS
  <2>1. /\ D[x] = Rest(x, D) \cup Flight(x) /\ Flight(x) \cap Rest(x, D) = {}
        /\ D[x] \in SUBSET Tuples(x.columns)
    BY DEF DueInv
  <2>2. E[x] = D[x] \ Flight(x)
    BY <1>4, <1>5
  <2> QED
    BY <1>7, <2>1, <2>2
<1>9. \A g \in Inner : ~needNew'[g] /\ cur'[g] # NoTuple => cur'[g] \notin E[LeftPlan(g)]
  BY <1>4, <1>6 DEF DueInv, loops
<1>10. DueInv(E)'
  BY <1>2, <1>8, <1>9 DEF DueInv
<1> QED
  BY <1>4, <1>10

\* The steps of the plan's nodes, and what they do to what is due from the root: nothing.
PlanStep ==
    \/ \E t \in DOMAIN pos : SequentialScan(t) \/ IdxScan(t)
    \/ \E f \in DOMAIN cur : NestedLoopScan(f) \/ LeftReturns(f) \/ RightEnds(f) \/ RightReturns(f)

LEMMA DuePlan ==
    ASSUME TypeInv, ControlInv, PlanStep, NEW D, DueInv(D)
    PROVE  \E E : DueInv(E)' /\ E[query.from] = D[query.from]
<1>1. CASE \E t \in DOMAIN pos : SequentialScan(t) \/ IdxScan(t)
  BY <1>1, DueScans
<1>2. CASE \E f \in DOMAIN cur : NestedLoopScan(f) \/ LeftReturns(f) \/ RightEnds(f) \/ RightReturns(f)
  BY <1>2, DueNestedLoopScan, DueLeftReturns, DueRightEnds, DueRightReturns
<1> QED
  BY <1>1, <1>2 DEF PlanStep

\* The steps above the root.
LEMMA TopStepIs ==
    ASSUME TypeInv, TopStep, step' # step
    PROVE  /\ UNCHANGED <<input, pos, loops>>
           /\ \A x \in Plan : At(x) => x = query.from
           /\ \A x \in Plan : Flight(x)' = {} /\ step' # Return(x, NoTuple)
<1>1. World
  BY DEF TypeInv
<1>2. UNCHANGED <<input, pos, loops>>
  BY DEF TopStep, SortScan, SortCollects, SortCompares, SortEnds, NextResult, GetResult,
         ResultReceives, ExecPlan, Continue, Abort
<1>3. \A x \in Plan : At(x) => x = query.from
  <2>1. \A x \in Plan : x # SortNode /\ x # ResultNode
    BY <1>1, TopNodes
  <2>2. \/ \E n \in {SortNode, ResultNode} : step = Call(n) \/ step.node = n
        \/ step.node = query.from \/ step.does = "compare"
    BY DEF TopStep, SortScan, SortCollects, SortCompares, SortEnds, GetResult,
       ResultReceives, ExecPlan, LeftOfResult
  <2> QED
    BY <2>1, <2>2, StepsAre DEF At
<1>4. \A x \in Plan : Flight(x)' = {} /\ step' # Return(x, NoTuple)
  <2>1. \/ \E n \in {query.from, SortNode, ResultNode} : step' = Call(n)
        \/ \E n \in {SortNode, ResultNode} : \E t : step' = Return(n, t)
        \/ \E i, j : step' = Compare(i, j)
    BY DEF TopStep, SortScan, SortCollects, SortCompares, SortEnds, NextResult, GetResult,
           ResultReceives, ExecPlan, Continue, Abort, LeftOfResult
  <2> QED
    BY <1>1, <2>1, TopNodes, StepsAre DEF Flight, At
<1> QED
  BY <1>2, <1>3, <1>4

LEMMA DueTop ==
    ASSUME TypeInv, TopStep, NEW D, DueInv(D)
    PROVE  \E E : /\ DueInv(E)'
                  /\ E[query.from] = IF step' = step THEN D[query.from]
                                     ELSE D[query.from] \ Flight(query.from)
<1>1. CASE step' = step
  <2>1. UNCHANGED <<input, pos, loops>>
    BY DEF TopStep, SortScan, SortCollects, SortCompares, SortEnds, NextResult, GetResult,
           ResultReceives, ExecPlan, Continue, Abort
  <2> QED
    BY <1>1, <2>1, DueFrame
<1>2. CASE step' # step
  BY <1>2, TopStepIs, DueAtRoot
<1> QED
  BY <1>1, <1>2

-----------------------------------------------------------------------------
\* The account of the query's tuples: each that the WHERE clause keeps has been returned, is
\* on its way from the result node, or is pending, and no tuple is in two of these places.
Kept(S) == {t \in S : Keeps(query.where, t)}
Waiting == {results[k] : k \in next .. Len(results)}
Pending(D) ==
    IF query.sort = None THEN D[query.from]
    ELSE IF isSorted THEN Waiting \cup Flight(SortNode)
    ELSE ToSet(results) \cup D[query.from]

Account(D) ==
    /\ ToSet(out) \cup Flight(ResultNode) \cup Kept(Pending(D)) = Kept(All(query.from))
    /\ ToSet(out) \cap Flight(ResultNode) = {}
    /\ (ToSet(out) \cup Flight(ResultNode)) \cap Pending(D) = {}
    /\ IsInjective(out)
    /\ step = Return(LeftOfResult, NoTuple) \/ step = Return(ResultNode, NoTuple) => Pending(D) = {}
    /\ status = "done" => step = Return(ResultNode, NoTuple)

SortAccount(D) ==
    query.sort # None =>
        /\ IsInjective(results)
        /\ isSorted => Flight(SortNode) \cap Waiting = {} /\ \A x \in Plan : ~At(x)
        /\ ~isSorted => /\ ToSet(results) \cap D[query.from] = {}
                        /\ next = 1 /\ Flight(SortNode) = {}
        /\ step.does = "compare" => ~isSorted /\ D[query.from] = {}

LEMMA AppendIs ==
    ASSUME NEW S, NEW s \in Seq(S), NEW e \in S
    PROVE  /\ ToSet(Append(s, e)) = ToSet(s) \cup {e}
           /\ IsInjective(s) /\ e \notin ToSet(s) => IsInjective(Append(s, e))
<1>1. /\ DOMAIN s = 1 .. Len(s) /\ Len(s) \in Nat
      /\ DOMAIN Append(s, e) = 1 .. Len(s) + 1
      /\ \A k \in 1 .. Len(s) + 1 : Append(s, e)[k] = IF k = Len(s) + 1 THEN e ELSE s[k]
  OBVIOUS
<1>2. ToSet(Append(s, e)) = ToSet(s) \cup {e}
  BY <1>1 DEF ToSet
<1>3. IsInjective(s) /\ e \notin ToSet(s) => IsInjective(Append(s, e))
  BY <1>1 DEF ToSet, IsInjective
<1> QED
  BY <1>2, <1>3

LEMMA AccountStarts ==
    ASSUME Init, NEW D, DueInv(D), D[query.from] = All(query.from)
    PROVE  Account(D) /\ SortAccount(D)
<1>1. World
  BY DEF Init, World
<1>2. \A x : Flight(x) = {} /\ step # Return(x, NoTuple)
  BY StepsAre DEF Init, Flight, At
<1>3. /\ out = <<>> /\ results = <<>> /\ ~isSorted /\ next = 1 /\ status = "running"
      /\ step.does # "compare"
  BY StepsAre DEF Init
<1>4. ToSet(out) = {} /\ ToSet(results) = {} /\ IsInjective(out) /\ IsInjective(results)
  BY <1>3 DEF ToSet, IsInjective
<1>5. Pending(D) = All(query.from)
  BY <1>3, <1>4 DEF Pending
<1>6. Account(D)
  BY <1>2, <1>3, <1>4, <1>5 DEF Account, Kept
<1>7. SortAccount(D)
  BY <1>2, <1>3, <1>4 DEF SortAccount
<1> QED
  BY <1>6, <1>7

\* What the account is made of does not change while the rows do not.
LEMMA KeptFrame ==
    ASSUME TypeInv, UNCHANGED input
    PROVE  /\ \A S : Kept(S)' = Kept(S)
           /\ All(query.from)' = All(query.from)
           /\ LeftOfResult' = LeftOfResult /\ query' = query /\ Plan' = Plan
<1>1. query' = query /\ query.from \in FromClauses
  BY InputFrame, WorldIs DEF TypeInv
<1>2. \A S : Kept(S)' = Kept(S)
  BY <1>1, ConditionFrame DEF Kept
<1>3. All(query.from)' = All(query.from)
  <2>1. PICK f \in FromClauses : f = query.from
    BY <1>1
  <2>2. All(f)' = All(f)
    BY InputFrame
  <2> QED
    BY <1>1, <2>1, <2>2
<1> QED
  BY <1>1, <1>2, <1>3, TypeFrame DEF LeftOfResult

\* A step that moves no tuple between these places.
LEMMA AccountFrame ==
    ASSUME TypeInv, UNCHANGED <<input, out>>, NEW D, NEW E, Account(D),
           Pending(E)' = Pending(D), Flight(ResultNode)' = Flight(ResultNode),
           step' = Return(LeftOfResult, NoTuple) \/ step' = Return(ResultNode, NoTuple) =>
               Pending(D) = {},
           status' = "done" => step' = Return(ResultNode, NoTuple)
    PROVE  Account(E)'
BY KeptFrame DEF Account

\* What the steps of the plan's nodes leave alone.
LEMMA PlanStepIs ==
    ASSUME TypeInv, PlanStep, status = "running"
    PROVE  /\ UNCHANGED <<input, sort, out>> /\ status' # "done"
           /\ \E x \in Plan : At(x)
           /\ \A x \in {SortNode, ResultNode} : Flight(x) = {} /\ Flight(x)' = {}
           /\ step' # Return(ResultNode, NoTuple) /\ step' # Return(SortNode, NoTuple)
           /\ step.does # "compare" /\ step'.does # "compare"
<1>1. World /\ query.from \in Plan
  BY TopNodes DEF TypeInv
<1>2. /\ UNCHANGED <<input, sort, out>>
      /\ status' # "done"
      /\ (\E x \in Plan : At(x)) /\ (step' = step \/ \E x \in Plan : At(x)')
  <2>1. CASE \E t \in DOMAIN pos : SequentialScan(t) \/ IdxScan(t)
    <3>1. PICK t \in DOMAIN pos : SequentialScan(t) \/ IdxScan(t)
      BY <2>1
    <3>2. t \in query.from.columns /\ PosOK
      BY DEF TypeInv, PosOK
    <3>3. /\ UNCHANGED <<input, sort, out, status>> /\ step = Call(RangeVar(t))
          /\ \E r : step' = Return(RangeVar(t), r)
      <4>1. /\ UNCHANGED <<input, loops, sort, out, status>> /\ step = Call(RangeVar(t))
            /\ (\E r : ScanGives(t, r)) \/ ScanEnds(t)
        BY <1>1, <3>1, <3>2, ScanSteps
      <4> QED
        BY <4>1 DEF ScanGives, ScanEnds
    <3>4. RangeVar(t) \in Plan
      BY <1>1, <3>2, PlanNodes
    <3> QED
      BY <3>3, <3>4, StepsAre DEF At
  <2>2. CASE \E f \in DOMAIN cur : NestedLoopScan(f) \/ LeftReturns(f) \/ RightEnds(f) \/ RightReturns(f)
    <3>1. PICK f \in DOMAIN cur : NestedLoopScan(f) \/ LeftReturns(f) \/ RightEnds(f) \/ RightReturns(f)
      BY <2>2
    <3>2. f \in Inner
      BY DEF TypeInv, LoopsOK
    <3>3. f \in Plan /\ LeftPlan(f) \in Plan /\ RightPlan(f) \in Plan
      BY <1>1, <3>2, AroundNode
    <3>4. UNCHANGED <<input, sort, out>> /\ status' # "done"
      BY <3>1 DEF NestedLoopScan, LeftReturns, RightEnds, RightReturns, Continue, Abort
    <3>5. \E x \in {f, LeftPlan(f), RightPlan(f)} :
             step = Call(x) \/ (step.does = "return" /\ step.node = x)
      <4>1. \A x : Return(x, NoTuple).does = "return" /\ Return(x, NoTuple).node = x
        BY StepsAre
      <4> QED
        BY <3>1, <4>1 DEF NestedLoopScan, LeftReturns, RightEnds, RightReturns
    <3>6. step' = step \/ \E x \in {f, LeftPlan(f), RightPlan(f)} :
                             step' = Call(x) \/ \E t : step' = Return(x, t)
      BY <3>1 DEF NestedLoopScan, LeftReturns, RightEnds, RightReturns, Continue, Abort
    <3> QED
      BY <3>3, <3>4, <3>5, <3>6, StepsAre DEF At
  <2> QED
    BY <2>1, <2>2 DEF PlanStep
<1>3. /\ \A x \in {SortNode, ResultNode} : Flight(x) = {} /\ Flight(x)' = {}
      /\ step' # Return(ResultNode, NoTuple) /\ step' # Return(SortNode, NoTuple)
      /\ step.does # "compare" /\ step'.does # "compare"
  <2>1. \A x \in Plan : x # SortNode /\ x # ResultNode
    BY <1>1, TopNodes
  <2> QED
    BY <1>2, <2>1, StepsAre DEF At, Flight
<1> QED
  BY <1>2, <1>3

LEMMA AccountPlan ==
    ASSUME TypeInv, PlanStep, NEW D, NEW E, DueInv(D), DueInv(E)', E[query.from] = D[query.from],
           Account(D), SortAccount(D), status = "running"
    PROVE  Account(E)' /\ SortAccount(E)'
<1>1. World /\ query.from \in Plan
  BY TopNodes DEF TypeInv
<1>2. /\ UNCHANGED <<input, sort, out>> /\ status' # "done"
      /\ \E x \in Plan : At(x)
  BY PlanStepIs
<1>3. /\ \A x \in {SortNode, ResultNode} : Flight(x) = {} /\ Flight(x)' = {}
      /\ step' # Return(ResultNode, NoTuple) /\ step' # Return(SortNode, NoTuple)
      /\ step.does # "compare" /\ step'.does # "compare"
  BY PlanStepIs
<1>4. query.sort # None => ~isSorted
  BY <1>2 DEF SortAccount
<1>5. query' = query /\ LeftOfResult' = LeftOfResult /\ Plan' = Plan
  BY <1>2, KeptFrame
<1>6. Pending(E)' = Pending(D)
  BY <1>2, <1>4, <1>5 DEF Pending, sort
<1>7. step' = Return(LeftOfResult, NoTuple) => Pending(D) = {}
  <2> SUFFICES ASSUME step' = Return(LeftOfResult, NoTuple) PROVE Pending(D) = {}
    OBVIOUS
  <2>1. query.sort = None /\ step' = Return(query.from, NoTuple)
    BY <1>3 DEF LeftOfResult
  <2>2. E[query.from] = {}
    BY <1>1, <1>5, <2>1 DEF DueInv
  <2> QED
    BY <2>1, <2>2 DEF Pending
<1>8. Account(E)'
  BY <1>2, <1>3, <1>6, <1>7, AccountFrame
<1>9. SortAccount(E)'
  BY <1>2, <1>3, <1>4, <1>5 DEF SortAccount, sort
<1> QED
  BY <1>8, <1>9

\* The end of SortScan takes a tuple from those waiting, or there was none.
LEMMA NextResultIs ==
    ASSUME TypeInv, UNCHANGED results, NextResult, IsInjective(results)
    PROVE  /\ Waiting = Waiting' \cup Flight(SortNode)' /\ Flight(SortNode)' \cap Waiting' = {}
           /\ step' = Return(SortNode, NoTuple) => Waiting = {}
           /\ Flight(ResultNode)' = {} /\ step' # Return(ResultNode, NoTuple)
           /\ \A x \in Plan : ~At(x)'
           /\ step'.does = "return" /\ step'.node = SortNode /\ UNCHANGED <<input, out, status>>
<1>1. World /\ results \in Seq(Tuples(query.from.columns)) /\ next \in Nat \ {0}
  BY DEF TypeInv
<1>2. \E t : step' = Return(SortNode, t)
  BY DEF NextResult, Continue
<1>3. /\ Flight(ResultNode)' = {} /\ step' # Return(ResultNode, NoTuple)
      /\ \A x \in Plan : ~At(x)'
  BY <1>1, <1>2, TopNodes, StepsAre DEF Flight, At
<1>4. CASE next > Len(results)
  <2>1. UNCHANGED next /\ step' = Return(SortNode, NoTuple)
    BY <1>1, <1>4 DEF NextResult, Continue
  <2>2. Waiting = {} /\ Waiting' = {} /\ Flight(SortNode)' = {}
    BY <1>1, <1>4, <2>1, StepsAre DEF Waiting, Flight
  <2> QED
    BY <1>2, <1>3, <2>1, <2>2, StepsAre DEF NextResult, Continue
<1>5. CASE next <= Len(results)
  <2>1. next' = next + 1 /\ step' = Return(SortNode, results[next])
    BY <1>1, <1>5 DEF NextResult, Continue
  <2>2. next \in DOMAIN results /\ results[next] # NoTuple
    <3>1. query.from.columns # {}
      BY <1>1, WorldIs, Shape
    <3> QED
      BY <1>1, <1>5, <3>1, TuplesAreNotNull
  <2>3. Flight(SortNode)' = {results[next]}
    BY <2>1, <2>2, StepsAre DEF Flight, At
  <2>4. Waiting' = {results[k] : k \in next + 1 .. Len(results)}
    BY <2>1 DEF Waiting
  <2>5. Waiting = Waiting' \cup {results[next]}
    <3>1. next .. Len(results) = {next} \cup (next + 1 .. Len(results))
      BY <1>1, <1>5
    <3> QED
      BY <2>4, <3>1 DEF Waiting
  <2>6. results[next] \notin Waiting'
    BY <1>1, <1>5, <2>4 DEF IsInjective
  <2>7. step' # Return(SortNode, NoTuple)
    BY <2>1, <2>2, StepsAre
  <2> QED
    BY <1>2, <1>3, <2>3, <2>5, <2>6, <2>7, StepsAre DEF NextResult, Continue
<1> QED
  BY <1>1, <1>4, <1>5

LEMMA SameElements ==
    ASSUME NEW s, NEW t, \A k \in DOMAIN s : \E m \in DOMAIN t : s[k] = t[m],
           \A k \in DOMAIN t : \E m \in DOMAIN s : t[k] = s[m]
    PROVE  ToSet(s) = ToSet(t)
<1>1. ASSUME NEW x \in ToSet(s) PROVE x \in ToSet(t)
  <2>1. PICK k \in DOMAIN s : x = s[k]
    BY DEF ToSet
  <2>2. PICK m \in DOMAIN t : s[k] = t[m]
    OBVIOUS
  <2> QED
    BY <2>1, <2>2 DEF ToSet
<1>2. ASSUME NEW x \in ToSet(t) PROVE x \in ToSet(s)
  <2>1. PICK k \in DOMAIN t : x = t[k]
    BY DEF ToSet
  <2>2. PICK m \in DOMAIN s : t[k] = s[m]
    OBVIOUS
  <2> QED
    BY <2>1, <2>2 DEF ToSet
<1> QED
  BY <1>1, <1>2

\* The elements of results stay the same when two of them change places.
LEMMA ExchangeKeeps ==
    ASSUME NEW S, NEW tuples \in Seq(S), NEW i \in 1 .. Len(tuples), NEW j \in 1 .. Len(tuples), NEW by,
           IsInjective(tuples)
    PROVE  /\ ToSet(Exchange(by, tuples, i, j)) = ToSet(tuples)
           /\ IsInjective(Exchange(by, tuples, i, j))
<1> DEFINE t == [tuples EXCEPT ![i] = tuples[j], ![j] = tuples[i]]
<1>1. /\ DOMAIN tuples = 1 .. Len(tuples) /\ DOMAIN t = 1 .. Len(tuples)
      /\ \A k \in 1 .. Len(tuples) : t[k] = IF k = i THEN tuples[j] ELSE IF k = j THEN tuples[i] ELSE tuples[k]
  OBVIOUS
<1> HIDE DEF t
<1>2. ToSet(t) = ToSet(tuples)
  <2>1. \A k \in DOMAIN t : \E m \in DOMAIN tuples : t[k] = tuples[m]
    BY <1>1
  <2>2. \A k \in DOMAIN tuples : \E m \in DOMAIN t : tuples[k] = t[m]
    BY <1>1
  <2> QED
    BY <2>1, <2>2, SameElements
<1>3. IsInjective(t)
  BY <1>1 DEF IsInjective
<1> QED
  BY <1>2, <1>3 DEF Exchange, t

LEMMA AccountSort ==
    ASSUME TypeInv, SortScan \/ SortCollects \/ SortCompares \/ SortEnds, NEW D, NEW E, DueInv(D),
           E[query.from] = IF step' = step THEN D[query.from] ELSE D[query.from] \ Flight(query.from),
           Account(D), SortAccount(D), status = "running"
    PROVE  Account(E)' /\ SortAccount(E)'
<1>0. World /\ StepOK
  BY DEF TypeInv
<1>1. UNCHANGED <<input, pos, loops, out>>
  BY DEF SortScan, SortCollects, SortCompares, SortEnds, NextResult, Continue, Abort
<1>2. query' = query /\ LeftOfResult' = LeftOfResult /\ Plan' = Plan
  BY <1>1, KeptFrame
<1>3. query.sort # None /\ LeftOfResult = SortNode
  <2>1. SortNode \in Nodes => query.sort # None
    BY <1>0, TopNodes DEF Nodes
  <2>2. CASE SortScan
    BY <1>0, <2>1, <2>2, StepIs, StepsAre DEF SortScan, LeftOfResult
  <2>3. CASE SortCollects
    BY <2>3 DEF SortCollects, LeftOfResult
  <2>4. CASE SortCompares \/ SortEnds
    BY <1>0, <2>4, StepIs DEF SortCompares, SortEnds, LeftOfResult
  <2> QED
    BY <2>2, <2>3, <2>4
<1>4. IsInjective(results) /\ query.from \in Plan
  BY <1>0, <1>3, TopNodes DEF SortAccount
<1>5. Flight(ResultNode) = {}
  BY <1>0, TopNodes, StepsAre DEF SortScan, SortCollects, SortCompares, SortEnds, Flight, At
<1>6. results \in Seq(Tuples(query.from.columns))
  BY DEF TypeInv
<1>7. CASE SortScan /\ isSorted
  <2>1. NextResult /\ UNCHANGED <<results, isSorted>> /\ step = Call(SortNode)
    BY <1>7 DEF SortScan
  <2>2. Flight(SortNode) = {}
    BY <2>1, StepsAre DEF Flight
  <2>3. /\ Waiting = Waiting' \cup Flight(SortNode)' /\ Flight(SortNode)' \cap Waiting' = {}
        /\ step' = Return(SortNode, NoTuple) => Waiting = {}
        /\ Flight(ResultNode)' = {} /\ step' # Return(ResultNode, NoTuple)
        /\ \A x \in Plan : ~At(x)'
        /\ step'.does = "return" /\ UNCHANGED status
    BY <1>4, <2>1, NextResultIs
  <2>4. Pending(D) = Waiting /\ Pending(E)' = Waiting' \cup Flight(SortNode)'
    BY <1>2, <1>3, <1>7, <2>1, <2>2 DEF Pending
  <2>5. Account(E)'
    BY <1>1, <1>3, <1>5, <2>3, <2>4, AccountFrame
  <2>6. SortAccount(E)'
    BY <1>2, <1>4, <1>7, <2>1, <2>3 DEF SortAccount
  <2> QED
    BY <2>5, <2>6
<1>8. CASE SortScan /\ ~isSorted
  <2>1. step = Call(SortNode) /\ step' = Call(query.from) /\ UNCHANGED <<results, isSorted, next, status>>
    BY <1>8 DEF SortScan, Continue
  <2>2. \A x : Flight(x) = {} /\ Flight(x)' = {} /\ step' # Return(x, NoTuple)
    BY <2>1, StepsAre DEF Flight
  <2>3. E[query.from] = D[query.from] /\ step'.does # "compare"
    BY <2>1, <2>2, StepsAre
  <2>4. Pending(E)' = Pending(D)
    BY <1>2, <1>3, <1>8, <2>1, <2>3 DEF Pending
  <2>5. Account(E)'
    BY <1>1, <2>1, <2>2, <2>4, AccountFrame
  <2>6. SortAccount(E)'
    BY <1>2, <1>3, <1>8, <2>1, <2>2, <2>3 DEF SortAccount
  <2> QED
    BY <2>5, <2>6
<1>9. CASE SortCollects
  <2>1. /\ step.does = "return" /\ step.node = query.from /\ At(query.from)
        /\ UNCHANGED <<isSorted, next, status>> /\ step' # step
    <3>1. step' # step
      BY <1>9, StepsAre DEF SortCollects, Continue
    <3> QED
      BY <1>9, <3>1 DEF SortCollects, Continue, At
  <2>2. ~isSorted /\ ToSet(results) \cap D[query.from] = {} /\ next = 1
    BY <1>3, <1>4, <2>1 DEF SortAccount
  <2>3. \A x : Flight(x)' = {} /\ step' # Return(x, NoTuple)
    BY <1>9, StepsAre DEF SortCollects, Continue, Flight
  <2>4. CASE step.tuple # NoTuple
    <3>1. PICK t : t = step.tuple
      OBVIOUS
    <3>2. results' = Append(results, t) /\ step'.does # "compare"
      BY <1>9, <2>4, <3>1, StepsAre DEF SortCollects, Continue
    <3>3. Flight(query.from) = {t} /\ t \in D[query.from]
      BY <1>4, <2>1, <2>4, <3>1 DEF Flight, DueInv
    <3>4. E[query.from] = D[query.from] \ {t} /\ t \in Tuples(query.from.columns)
      BY <1>4, <2>1, <3>3 DEF DueInv
    <3>5. ToSet(results') = ToSet(results) \cup {t} /\ IsInjective(results')
      BY <1>4, <1>6, <2>2, <3>2, <3>3, <3>4, AppendIs
    <3>6. Pending(E)' = Pending(D)
      BY <1>2, <1>3, <2>1, <2>2, <3>3, <3>4, <3>5 DEF Pending
    <3>7. Account(E)'
      BY <1>1, <1>5, <2>1, <2>3, <3>6, AccountFrame
    <3>8. SortAccount(E)'
      BY <1>2, <2>1, <2>2, <2>3, <3>2, <3>4, <3>5 DEF SortAccount
    <3> QED
      BY <3>7, <3>8
  <2>5. CASE step.tuple = NoTuple
    <3>1. results' = results /\ step = Return(query.from, NoTuple)
      BY <1>0, <1>9, <2>1, <2>5, StepIs DEF SortCollects
    <3>2. D[query.from] = {} /\ E[query.from] = {}
      BY <1>4, <2>1, <3>1 DEF DueInv
    <3>3. Pending(E)' = Pending(D)
      BY <1>2, <1>3, <2>1, <2>2, <3>1, <3>2 DEF Pending
    <3>4. Account(E)'
      BY <1>1, <1>5, <2>1, <2>3, <3>3, AccountFrame
    <3>5. SortAccount(E)'
      BY <1>2, <1>4, <2>1, <2>2, <2>3, <3>1, <3>2 DEF SortAccount
    <3> QED
      BY <3>4, <3>5
  <2> QED
    BY <2>4, <2>5
<1>10. CASE SortCompares
  <2>1. /\ step.does = "compare" /\ query.sort # None /\ step.i \in 1 .. Len(results) + 1
        /\ step.j \in 1 .. step.i /\ step.i <= Len(results)
    BY <1>0, <1>10, StepIs DEF SortCompares
  <2>2. ~isSorted /\ D[query.from] = {} /\ E[query.from] = {} /\ next = 1
    BY <2>1 DEF SortAccount
  <2>3. /\ step'.does = "compare" /\ UNCHANGED <<isSorted, next>> /\ status' # "done"
    <3>1. step' = step \/ \E i, j : step' = Compare(i, j)
      BY <1>10 DEF SortCompares, Continue, Abort
    <3>2. UNCHANGED <<isSorted, next>> /\ (status' = status \/ status' = "compares NULL")
      BY <1>10 DEF SortCompares, Continue, Abort, sort
    <3>3. step'.does = "compare"
      BY <2>1, <3>1, StepsAre
    <3>4. status' # "done"
      BY <3>2
    <3> QED
      BY <3>2, <3>3, <3>4
  <2>4. \A x : Flight(x) = {} /\ Flight(x)' = {} /\ step' # Return(x, NoTuple)
    BY <2>1, <2>3, StepsAre DEF Flight
  <2>5. ToSet(results') = ToSet(results) /\ IsInjective(results')
    <3>1. step.i \in 1 .. Len(results) /\ step.j \in 1 .. Len(results)
      BY <1>6, <2>1
    <3>2. results' = results \/ results' = Exchange(query.sort, results, step.i, step.j)
      BY <1>10 DEF SortCompares, Abort, sort
    <3> QED
      BY <1>4, <1>6, <3>1, <3>2, ExchangeKeeps
  <2>6. Pending(E)' = Pending(D)
    BY <1>2, <2>1, <2>2, <2>3, <2>5 DEF Pending
  <2>7. Account(E)'
    BY <1>1, <2>3, <2>4, <2>6, AccountFrame
  <2>8. SortAccount(E)'
    BY <1>2, <2>2, <2>3, <2>4, <2>5 DEF SortAccount
  <2> QED
    BY <2>7, <2>8
<1>11. CASE SortEnds
  <2>1. step.does = "compare" /\ isSorted' /\ NextResult /\ UNCHANGED results
    BY <1>11 DEF SortEnds
  <2>2. ~isSorted /\ D[query.from] = {} /\ next = 1
    BY <1>3, <2>1 DEF SortAccount
  <2>3. /\ Waiting = Waiting' \cup Flight(SortNode)' /\ Flight(SortNode)' \cap Waiting' = {}
        /\ step' = Return(SortNode, NoTuple) => Waiting = {}
        /\ Flight(ResultNode)' = {} /\ step' # Return(ResultNode, NoTuple)
        /\ \A x \in Plan : ~At(x)'
        /\ step'.does = "return" /\ UNCHANGED status
    BY <1>4, <2>1, NextResultIs
  <2>4. Waiting = ToSet(results)
    BY <1>6, <2>2 DEF Waiting, ToSet
  <2>5. Pending(D) = Waiting /\ Pending(E)' = Waiting' \cup Flight(SortNode)'
    BY <1>2, <1>3, <2>1, <2>2, <2>4 DEF Pending
  <2>6. Account(E)'
    BY <1>1, <1>3, <1>5, <2>3, <2>5, AccountFrame
  <2>7. SortAccount(E)'
    BY <1>2, <1>4, <2>1, <2>3 DEF SortAccount
  <2> QED
    BY <2>6, <2>7
<1> QED
  BY <1>7, <1>8, <1>9, <1>10, <1>11

LEMMA AccountResult ==
    ASSUME TypeInv, GetResult \/ ResultReceives \/ ExecPlan, NEW D, NEW E, DueInv(D),
           E[query.from] = IF step' = step THEN D[query.from] ELSE D[query.from] \ Flight(query.from),
           Account(D), SortAccount(D), status = "running"
    PROVE  Account(E)' /\ SortAccount(E)'
<1>0. World /\ StepOK
  BY DEF TypeInv
<1>1. UNCHANGED <<input, pos, loops, sort>>
  BY DEF GetResult, ResultReceives, ExecPlan, Continue, Abort
<1>2. /\ query' = query /\ LeftOfResult' = LeftOfResult /\ Plan' = Plan
      /\ results' = results /\ isSorted' = isSorted /\ next' = next /\ Waiting' = Waiting
  BY <1>1, KeptFrame DEF sort, Waiting
<1>3. /\ query.from \in Plan /\ LeftOfResult # ResultNode
      /\ \A x \in Plan : x # SortNode /\ x # ResultNode
      /\ LeftOfResult = IF query.sort = None THEN query.from ELSE SortNode
  BY <1>0, TopNodes DEF LeftOfResult
<1>6. CASE step' = step /\ UNCHANGED out /\ (status' = "done" => step = Return(ResultNode, NoTuple))
  <2>1. E[query.from] = D[query.from] /\ \A x : Flight(x)' = Flight(x) /\ (At(x)' <=> At(x))
    BY <1>6 DEF Flight, At
  <2>2. Pending(E)' = Pending(D)
    BY <1>2, <2>1 DEF Pending
  <2>3. Account(E)'
    <3>1. step = Return(LeftOfResult, NoTuple) \/ step = Return(ResultNode, NoTuple) => Pending(D) = {}
      BY DEF Account
    <3> QED
      BY <1>1, <1>6, <2>1, <2>2, <3>1, AccountFrame
  <2>4. SortAccount(E)'
    BY <1>2, <1>6, <2>1 DEF SortAccount
  <2> QED
    BY <2>3, <2>4
<1>7. CASE GetResult
  <2>1. step = Call(ResultNode) /\ step' = Call(LeftOfResult) /\ UNCHANGED <<out, status>>
    BY <1>7 DEF GetResult, Continue
  <2>2. \A x : Flight(x) = {} /\ Flight(x)' = {} /\ step' # Return(x, NoTuple)
    BY <2>1, StepsAre DEF Flight
  <2>3. E[query.from] = D[query.from]
    BY <2>2
  <2>4. Pending(E)' = Pending(D)
    BY <1>2, <2>2, <2>3 DEF Pending
  <2>5. Account(E)'
    BY <1>1, <2>1, <2>2, <2>4, AccountFrame
  <2>6. query.sort # None => \A x \in Plan : ~At(x)'
    BY <1>3, <2>1, StepsAre DEF At
  <2>7. step'.does # "compare"
    BY <2>1, StepsAre
  <2>8. SortAccount(E)'
    BY <1>2, <2>2, <2>3, <2>6, <2>7 DEF SortAccount
  <2> QED
    BY <2>5, <2>8
<1>8. CASE ResultReceives /\ step' # step
  <2>1. /\ step.does = "return" /\ step.node = LeftOfResult /\ UNCHANGED <<out, status>>
        /\ step' = Return(ResultNode, step.tuple) \/ step' = Call(LeftOfResult)
    BY <1>8 DEF ResultReceives, Continue, Abort
  <2>2. Flight(ResultNode) = {}
    BY <1>3, <2>1 DEF Flight, At
  <2>3. /\ Flight(query.from)' = {} /\ Flight(SortNode)' = {} /\ step' # Return(LeftOfResult, NoTuple)
        /\ step'.does # "compare" /\ (query.sort # None => \A x \in Plan : ~At(x)')
    <3>1. CASE step' = Return(ResultNode, step.tuple)
      <4>1. step'.does = "return" /\ step'.node = ResultNode
        BY <3>1, StepsAre
      <4>2. step' # Return(LeftOfResult, NoTuple)
        BY <1>3, <4>1, StepsAre
      <4>3. \A x : x # ResultNode => Flight(x)' = {} /\ ~At(x)'
        BY <4>1 DEF Flight, At
      <4>4. SortNode # ResultNode /\ query.from # ResultNode /\ \A x \in Plan : x # ResultNode
        BY <1>0, <1>3, TopNodes
      <4> QED
        BY <1>2, <4>1, <4>2, <4>3, <4>4
    <3>2. CASE step' = Call(LeftOfResult)
      BY <1>3, <3>2, StepsAre DEF Flight, At
    <3> QED
      BY <2>1, <3>1, <3>2
  <2>4. SortAccount(E)'
    <3>1. query.sort # None => Flight(query.from) = {}
      BY <1>0, <1>3, <2>1, TopNodes DEF Flight, At
    <3>2. query.sort # None => E[query.from] = D[query.from]
      BY <3>1
    <3> QED
      BY <1>2, <2>3, <3>2 DEF SortAccount
  <2>5. CASE step.tuple = NoTuple
    <3>1. step = Return(LeftOfResult, NoTuple) /\ Pending(D) = {}
      BY <1>0, <2>1, <2>5, StepIs DEF Account
    <3>2. \A x : Flight(x) = {}
      BY <2>5 DEF Flight
    <3>3. step' = Return(ResultNode, NoTuple) /\ Flight(ResultNode)' = {}
      BY <1>8, <2>5, StepsAre DEF ResultReceives, Continue, Flight
    <3>4. Pending(E)' = Pending(D)
      BY <1>2, <2>3, <3>2 DEF Pending
    <3>5. Account(E)'
      BY <1>1, <2>1, <2>2, <2>3, <3>1, <3>3, <3>4, AccountFrame
    <3> QED
      BY <2>4, <3>5
  <2>6. CASE step.tuple # NoTuple
    <3>1. PICK t : t = step.tuple
      OBVIOUS
    <3>2. Flight(LeftOfResult) = {t}
      BY <2>1, <2>6, <3>1 DEF Flight, At
    <3>3. t \in Pending(D) /\ Pending(E)' = Pending(D) \ {t}
      <4>1. CASE query.sort = None
        <5>1. t \in D[query.from]
          BY <1>3, <3>2, <4>1 DEF DueInv
        <5> QED
          BY <1>2, <1>3, <1>8, <3>2, <4>1, <5>1 DEF Pending
      <4>2. CASE query.sort # None
        <5>1. Flight(SortNode) = {t} /\ isSorted /\ t \notin Waiting
          BY <1>3, <3>2, <4>2 DEF SortAccount
        <5> QED
          BY <1>2, <2>3, <4>2, <5>1 DEF Pending
      <4> QED
        BY <4>1, <4>2
    <3>4. step' = IF Keeps(query.where, t) THEN Return(ResultNode, t) ELSE Call(LeftOfResult)
      BY <1>8, <2>6, <3>1 DEF ResultReceives, Continue, Abort
    <3>5. /\ Flight(ResultNode)' = IF Keeps(query.where, t) THEN {t} ELSE {}
          /\ step' # Return(ResultNode, NoTuple)
      <4>1. CASE Keeps(query.where, t)
        BY <2>6, <3>1, <3>4, <4>1, StepsAre DEF Flight, At
      <4>2. CASE ~Keeps(query.where, t)
        BY <3>4, <4>2, StepsAre DEF Flight, At
      <4> QED
        BY <4>1, <4>2
    <3>6. Kept(Pending(D)) = Flight(ResultNode)' \cup Kept(Pending(D) \ {t})
      BY <3>3, <3>5 DEF Kept
    <3>7. /\ ToSet(out) \cup Kept(Pending(D)) = Kept(All(query.from))
          /\ ToSet(out) \cap Pending(D) = {} /\ IsInjective(out)
      BY <2>2 DEF Account
    <3>8. Kept(Pending(E))' = Kept(Pending(D) \ {t})
      <4>1. PICK S : S = Pending(D) \ {t}
        OBVIOUS
      <4>2. Kept(Pending(E))' = Kept(S)'
        BY <3>3, <4>1
      <4> QED
        BY <1>1, <4>1, <4>2, KeptFrame
    <3>9. Account(E)'
      <4>1. Kept(All(query.from))' = Kept(All(query.from))
        BY <1>1, KeptFrame
      <4>2. ToSet(out') \cup Flight(ResultNode)' \cup Kept(Pending(E))' = Kept(All(query.from))'
        BY <2>1, <3>6, <3>7, <3>8, <4>1
      <4>3. Flight(ResultNode)' \subseteq {t} /\ t \in Pending(D)
        BY <3>3, <3>5
      <4>4. /\ ToSet(out') \cap Flight(ResultNode)' = {}
            /\ (ToSet(out') \cup Flight(ResultNode)') \cap Pending(E)' = {}
        BY <2>1, <3>3, <3>7, <4>3
      <4> QED
        BY <1>2, <2>1, <2>3, <3>5, <3>7, <4>2, <4>4 DEF Account
    <3> QED
      BY <2>4, <3>9
  <2> QED
    BY <2>5, <2>6
<1>9. CASE ExecPlan /\ step' # step
  <2>1. PICK t : t = step.tuple
    OBVIOUS
  <2>2. /\ step.does = "return" /\ step.node = ResultNode /\ t # NoTuple
        /\ out' = Append(out, t) /\ step' = Call(ResultNode) /\ UNCHANGED status
    BY <1>9, <2>1 DEF ExecPlan
  <2>3. Flight(ResultNode) = {t} /\ \A x : x # ResultNode => Flight(x) = {}
    BY <2>1, <2>2 DEF Flight, At
  <2>4. \A x : Flight(x)' = {} /\ step' # Return(x, NoTuple)
    BY <2>2, StepsAre DEF Flight
  <2>5. E[query.from] = D[query.from]
    BY <1>3, <2>3
  <2>6. Pending(E)' = Pending(D)
    BY <1>2, <2>3, <2>4, <2>5, TopNodes, <1>0 DEF Pending
  <2>7. ToSet(out') = ToSet(out) \cup {t} /\ IsInjective(out')
    <3>1. t \in Tuples(query.from.columns) /\ out \in Seq(Tuples(query.from.columns))
      <4>1. ResultNode \in Nodes /\ Gives(ResultNode) = query.from.columns
        BY <1>0, TopNodes DEF Nodes, Gives
      <4> QED
        BY <2>1, <2>2, <4>1, ReturnedTuple DEF OrNoTuple, TypeInv
    <3>2. t \notin ToSet(out) /\ IsInjective(out)
      BY <2>3 DEF Account
    <3> QED
      BY <2>2, <3>1, <3>2, AppendIs
  <2>8. Account(E)'
    <3>1. Kept(Pending(E))' = Kept(Pending(D))
      <4>1. PICK S : S = Pending(D)
        OBVIOUS
      <4> QED
        BY <1>1, <2>6, <4>1, KeptFrame
    <3>2. Kept(All(query.from))' = Kept(All(query.from))
      BY <1>1, KeptFrame
    <3> QED
      BY <2>2, <2>3, <2>4, <2>6, <2>7, <3>1, <3>2 DEF Account
  <2>9. SortAccount(E)'
    <3>1. step'.does # "compare" /\ \A x \in Plan : ~At(x)'
      BY <1>3, <2>2, StepsAre DEF At
    <3> QED
      BY <1>2, <2>4, <2>5, <3>1 DEF SortAccount
  <2> QED
    BY <2>8, <2>9
<1>10. CASE ResultReceives /\ step' = step
  <2>1. UNCHANGED out /\ status' # "done"
    BY <1>10 DEF ResultReceives, Continue, Abort
  <2> QED
    BY <1>6, <1>10, <2>1
<1>11. CASE ExecPlan /\ step' = step
  <2>1. UNCHANGED out /\ step = Return(ResultNode, NoTuple)
    <3>1. step.does = "return" /\ step.node = ResultNode /\ step.tuple = NoTuple /\ UNCHANGED out
      BY <1>11, StepsAre DEF ExecPlan
    <3> QED
      BY <1>0, <3>1, StepIs
  <2> QED
    BY <1>6, <1>11, <2>1
<1> QED
  BY <1>7, <1>8, <1>9, <1>10, <1>11

\* The inductive invariant behind ResultsSound and ResultsComplete.
Accounted == \E D : DueInv(D) /\ Account(D) /\ SortAccount(D)

LEMMA AccountedStarts ==
    ASSUME Init
    PROVE  Accounted
BY DueStarts, AccountStarts DEF Accounted

LEMMA AccountedStep ==
    ASSUME TypeInv, ControlInv, Accounted, Next
    PROVE  Accounted'
<1>1. PICK D : DueInv(D) /\ Account(D) /\ SortAccount(D)
  BY DEF Accounted
<1>2. status = "running" /\ (PlanStep \/ TopStep)
  BY NextIs DEF PlanStep, TopStep
<1>3. CASE PlanStep
  <2>1. PICK E : DueInv(E)' /\ E[query.from] = D[query.from]
    BY <1>1, <1>3, DuePlan
  <2> QED
    BY <1>1, <1>2, <1>3, <2>1, AccountPlan DEF Accounted
<1>4. CASE TopStep
  <2>1. PICK E : /\ DueInv(E)'
                 /\ E[query.from] = IF step' = step THEN D[query.from]
                                    ELSE D[query.from] \ Flight(query.from)
    BY <1>1, <1>4, DueTop
  <2>2. Account(E)' /\ SortAccount(E)'
    BY <1>1, <1>2, <1>4, <2>1, AccountSort, AccountResult DEF TopStep
  <2> QED
    BY <2>1, <2>2 DEF Accounted
<1> QED
  BY <1>2, <1>3, <1>4

LEMMA AccountedUnchanged ==
    ASSUME TypeInv, Accounted, UNCHANGED vars
    PROVE  Accounted'
<1>1. PICK D : DueInv(D) /\ Account(D) /\ SortAccount(D)
  BY DEF Accounted
<1>2. UNCHANGED <<input, pos, loops, sort, step, out, status>>
  BY DEF vars
<1>3. DueInv(D)'
  BY <1>1, <1>2, DueFrame
<1>4. /\ query' = query /\ LeftOfResult' = LeftOfResult /\ Plan' = Plan
      /\ \A x : Flight(x)' = Flight(x) /\ (At(x)' <=> At(x))
  BY <1>2, KeptFrame DEF Flight, At
<1>5. Waiting' = Waiting /\ Pending(D)' = Pending(D)
  BY <1>2, <1>4 DEF Waiting, Pending, sort
<1>6. Account(D)'
  BY <1>1, <1>2, <1>4, <1>5, AccountFrame DEF Account
<1>7. SortAccount(D)'
  BY <1>1, <1>2, <1>4, <1>5 DEF SortAccount, sort
<1> QED
  BY <1>3, <1>6, <1>7 DEF Accounted

-----------------------------------------------------------------------------
\* The order: what the insertion sort has come through is in order, what has been returned
\* is in order and does not come after what is to be returned.
NotAfter(s, t) == ~ComesBefore(query.sort, t, s)
HasKey(t) == GetCol(t, query.sort.col) # Null
InOrder(n) == \A m, k \in 1 .. n : m < k => NotAfter(results[m], results[k])
OnTheWay == Flight(SortNode) \cup Flight(ResultNode)

Inserting ==
    step.does = "compare" =>
        /\ InOrder(step.i - 1)
        /\ step.i > 2 \/ step.j > 1 => \A m \in 1 .. step.i - 1 : HasKey(results[m])
        /\ step.i <= Len(results) =>
              /\ step.j > 1 => HasKey(results[step.i])
              /\ \A m \in 1 .. step.j - 1 : NotAfter(results[m], results[step.i])

SortInv ==
    query.sort # None =>
        /\ Inserting
        /\ isSorted => InOrder(Len(results))
        /\ ~isSorted => next = 1 /\ out = <<>> /\ OnTheWay \subseteq {}
        /\ \A m, k \in DOMAIN out : m < k => NotAfter(out[m], out[k])
        /\ \A m \in DOMAIN out : \A t \in OnTheWay \cup Waiting : NotAfter(out[m], t)
        /\ \A s \in OnTheWay, t \in Waiting : NotAfter(s, t)

LEMMA OrderFrame ==
    ASSUME UNCHANGED input
    PROVE  /\ \A s, t : NotAfter(s, t)' <=> NotAfter(s, t)
           /\ \A t : HasKey(t)' <=> HasKey(t)
<1>1. query' = query /\ \A t, c : GetCol(t, c)' = GetCol(t, c)
  BY ConditionFrame DEF input
<1>2. \A by, s, t : ComesBefore(by, s, t)' <=> ComesBefore(by, s, t)
  BY <1>1 DEF ComesBefore
<1> QED
  BY <1>1, <1>2 DEF NotAfter, HasKey

LEMMA KeysInOrder ==
    ASSUME World, query.sort # None, NEW s \in Tuples(query.from.columns), HasKey(s),
           NEW t \in Tuples(query.from.columns), HasKey(t), ComesBefore(query.sort, s, t)
    PROVE  /\ NotAfter(s, t)
           /\ \A u \in Tuples(query.from.columns) : HasKey(u) /\ NotAfter(t, u) => NotAfter(s, u)
<1> DEFINE c == query.sort.col
<1>1. c \in query.from.columns /\ tables[c] \in Seq(Int \cup {Null})
  BY QueriesAssumption, WorldIs DEF World
<1>2. ASSUME NEW u \in Tuples(query.from.columns), HasKey(u) PROVE GetCol(u, c) \in Int
  <2>1. u[c] \in Nat /\ u[c] <= Len(tables[c])
    BY <1>1 DEF Tuples
  <2>2. u[c] # 0 => tables[c][u[c]] \in Int \cup {Null}
    BY <1>1, <2>1
  <2> QED
    BY <1>2, <2>2 DEF GetCol, HasKey
<1>3. GetCol(s, c) \in Int /\ GetCol(t, c) \in Int
  BY <1>2
<1> QED
  BY <1>2, <1>3 DEF NotAfter, ComesBefore

LEMMA SortInvStarts ==
    ASSUME Init
    PROVE  SortInv
<1>1. out = <<>> /\ ~isSorted /\ next = 1 /\ results = <<>> /\ step = Call(ResultNode)
  BY DEF Init
<1>2. OnTheWay = {} /\ step.does # "compare"
  BY <1>1, StepsAre DEF OnTheWay, Flight
<1> QED
  BY <1>1, <1>2 DEF SortInv, Inserting

\* A step that leaves the tuples where they are, or drops the one that is on its way.
LEMMA SortInvFrame ==
    ASSUME SortInv, UNCHANGED <<input, sort, out>>, OnTheWay' \subseteq OnTheWay,
           step' = step \/ step'.does # "compare"
    PROVE  SortInv'
<1>1. /\ query' = query /\ results' = results /\ next' = next /\ isSorted' = isSorted /\ out' = out
  BY DEF input, sort
<1>2. Waiting' = Waiting /\ (\A n : InOrder(n)' <=> InOrder(n)) /\ (Inserting => Inserting')
  BY <1>1, OrderFrame DEF Waiting, InOrder, Inserting
<1> QED
  BY <1>1, <1>2, OrderFrame DEF SortInv

LEMMA SortInvNext ==
    ASSUME TypeInv, SortInv, query.sort # None, UNCHANGED <<input, results, out>>, NextResult,
           OnTheWay = {}, InOrder(Len(results)), isSorted'
    PROVE  SortInv'
<1>1. /\ results \in Seq(Tuples(query.from.columns)) /\ next \in Nat \ {0} /\ Len(results) \in Nat
  BY DEF TypeInv
<1>2. query' = query /\ InOrder(Len(results))'
  BY OrderFrame DEF input, InOrder
<1>3. (\E t : step' = Return(SortNode, t)) /\ Flight(ResultNode)' = {} /\ step'.does # "compare"
  <2>1. \E t : step' = Return(SortNode, t)
    BY DEF NextResult, Continue
  <2> QED
    BY <2>1, TopNodes, StepsAre DEF Flight, At, TypeInv
<1>4. CASE next > Len(results)
  <2>1. UNCHANGED next /\ step' = Return(SortNode, NoTuple)
    BY <1>1, <1>4 DEF NextResult, Continue
  <2>2. OnTheWay' = {} /\ Waiting' = {}
    BY <1>1, <1>3, <1>4, <2>1, StepsAre DEF OnTheWay, Flight, Waiting
  <2> QED
    BY <1>2, <1>3, <2>2, OrderFrame DEF SortInv, Inserting
<1>5. CASE next <= Len(results)
  <2>1. next' = next + 1 /\ step' = Return(SortNode, results[next])
    BY <1>1, <1>5 DEF NextResult, Continue
  <2>2. OnTheWay' \subseteq {results[next]}
    BY <1>3, <2>1, StepsAre DEF OnTheWay, Flight
  <2>3. Waiting' = {results[k] : k \in next + 1 .. Len(results)}
    BY <2>1 DEF Waiting
  <2>4. results[next] \in Waiting /\ Waiting' \subseteq Waiting
    <3>1. next \in next .. Len(results) /\ (next + 1 .. Len(results)) \subseteq next .. Len(results)
      BY <1>1, <1>5
    <3> QED
      BY <2>3, <3>1 DEF Waiting
  <2>5. \A t \in Waiting' : NotAfter(results[next], t)
    BY <1>1, <1>5, <2>3 DEF InOrder
  <2>6. \A m, k \in DOMAIN out : m < k => NotAfter(out[m], out[k])
    BY DEF SortInv
  <2>7. \A m \in DOMAIN out : \A t \in Waiting : NotAfter(out[m], t)
    BY DEF SortInv
  <2>8. \A m \in DOMAIN out : \A t \in (OnTheWay \cup Waiting)' : NotAfter(out[m], t)
    BY <2>2, <2>4, <2>7
  <2>9. \A s \in OnTheWay', t \in Waiting' : NotAfter(s, t)
    BY <2>2, <2>5
  <2> QED
    BY <1>2, <1>3, <2>6, <2>8, <2>9, OrderFrame DEF SortInv, Inserting
<1> QED
  BY <1>1, <1>4, <1>5

\* A comparison keeps the tuples before the one to insert in order, and those that it has been
\* compared with not after it.
LEMMA InsertionStep ==
    ASSUME World, query.sort # None, results \in Seq(Tuples(query.from.columns)),
           NEW i \in 2 .. Len(results), NEW j \in 1 .. i - 1,
           InOrder(i - 1), \A m \in 1 .. j - 1 : NotAfter(results[m], results[i]),
           \A m \in 1 .. i : HasKey(results[m]), NEW r, r = Exchange(query.sort, results, i, j)
    PROVE  /\ \A m, k \in 1 .. i - 1 : m < k => NotAfter(r[m], r[k])
           /\ \A m \in 1 .. j : NotAfter(r[m], r[i])
           /\ \A m \in 1 .. i : HasKey(r[m])
<1>1. /\ i \in Nat /\ j \in Nat /\ j < i /\ Len(results) \in Nat
      /\ \A m \in 1 .. i : results[m] \in Tuples(query.from.columns)
  OBVIOUS
<1>2. CASE ComesBefore(query.sort, results[i], results[j])
  <2>1. \A m \in 1 .. i : r[m] = IF m = i THEN results[j] ELSE IF m = j THEN results[i] ELSE results[m]
    BY <1>1, <1>2 DEF Exchange
  <2>2. /\ HasKey(results[i]) /\ HasKey(results[j])
        /\ results[i] \in Tuples(query.from.columns) /\ results[j] \in Tuples(query.from.columns)
    BY <1>1
  <2>3. NotAfter(results[i], results[j])
    BY <1>2, <2>2, KeysInOrder
  <2>4. ASSUME NEW k \in j + 1 .. i - 1 PROVE NotAfter(results[i], results[k])
    <3>1. NotAfter(results[j], results[k]) /\ HasKey(results[k]) /\ results[k] \in Tuples(query.from.columns)
      BY <1>1 DEF InOrder
    <3> QED
      BY <1>2, <2>2, <3>1, KeysInOrder
  <2>5. \A m, k \in 1 .. i - 1 : m < k => NotAfter(results[m], results[k])
    BY DEF InOrder
  <2>6. ASSUME NEW m \in 1 .. i - 1, NEW k \in 1 .. i - 1, m < k PROVE NotAfter(r[m], r[k])
    <3>1. CASE m = j
      <4>1. r[m] = results[i] /\ r[k] = results[k] /\ k \in j + 1 .. i - 1
        BY <1>1, <2>1, <2>6, <3>1
      <4> QED
        BY <2>4, <4>1
    <3>2. CASE k = j
      <4>1. r[m] = results[m] /\ r[k] = results[i] /\ m \in 1 .. j - 1
        BY <1>1, <2>1, <2>6, <3>2
      <4> QED
        BY <4>1
    <3>3. CASE m # j /\ k # j
      <4>1. r[m] = results[m] /\ r[k] = results[k]
        BY <1>1, <2>1, <2>6, <3>3
      <4> QED
        BY <2>5, <2>6, <4>1
    <3> QED
      BY <3>1, <3>2, <3>3
  <2>7. ASSUME NEW m \in 1 .. j PROVE NotAfter(r[m], r[i])
    <3>1. CASE m = j
      <4>1. r[m] = results[i] /\ r[i] = results[j]
        BY <1>1, <2>1, <3>1
      <4> QED
        BY <2>3, <4>1
    <3>2. CASE m # j
      <4>1. r[m] = results[m] /\ r[i] = results[j] /\ m \in 1 .. i - 1 /\ j \in 1 .. i - 1 /\ m < j
        BY <1>1, <2>1, <3>2
      <4> QED
        BY <2>5, <4>1
    <3> QED
      BY <3>1, <3>2
  <2>8. \A m \in 1 .. i : HasKey(r[m])
    BY <1>1, <2>1
  <2> QED
    BY <2>6, <2>7, <2>8
<1>3. CASE ~ComesBefore(query.sort, results[i], results[j])
  <2>1. r = results /\ NotAfter(results[j], results[i])
    BY <1>3 DEF Exchange, NotAfter
  <2>2. \A m \in 1 .. j : m = j \/ m \in 1 .. j - 1
    BY <1>1
  <2> QED
    BY <2>1, <2>2 DEF InOrder
<1> QED
  BY <1>2, <1>3

LEMMA SortInvCompares ==
    ASSUME TypeInv, SortInv, SortCompares, ~isSorted
    PROVE  SortInv'
<1>0. PICK i, j : i = step.i /\ j = step.j
  OBVIOUS
<1>1. /\ World /\ results \in Seq(Tuples(query.from.columns)) /\ Len(results) \in Nat
      /\ query.sort # None /\ step.does = "compare" /\ step = Compare(i, j)
      /\ i \in 1 .. Len(results) /\ j \in 1 .. i
  <2>1. World /\ StepOK /\ results \in Seq(Tuples(query.from.columns)) /\ step.does = "compare"
    BY DEF TypeInv, SortCompares
  <2>2. /\ query.sort # None /\ i \in 1 .. Len(results) + 1 /\ j \in 1 .. i /\ step = Compare(i, j)
    BY <1>0, <2>1, StepIs
  <2>3. i <= Len(results)
    BY <1>0 DEF SortCompares
  <2> QED
    BY <2>1, <2>2, <2>3
<1>2. /\ InOrder(i - 1)
      /\ i > 2 \/ j > 1 => \A m \in 1 .. i - 1 : HasKey(results[m])
      /\ j > 1 => HasKey(results[i])
      /\ \A m \in 1 .. j - 1 : NotAfter(results[m], results[i])
      /\ next = 1 /\ out = <<>> /\ OnTheWay = {}
  BY <1>0, <1>1 DEF SortInv, Inserting, SortCompares
<1>3. UNCHANGED <<input, pos, loops, out, isSorted, next>>
  BY DEF SortCompares, Continue, Abort, sort
<1>4. query' = query /\ (\A s, t : NotAfter(s, t)' <=> NotAfter(s, t)) /\ \A t : HasKey(t)' <=> HasKey(t)
  BY <1>3, OrderFrame DEF input
<1>5. SUFFICES ASSUME step' # step PROVE SortInv'
  <2>1. CASE step' = step
    <3>1. UNCHANGED <<input, sort, out>> /\ OnTheWay' = OnTheWay
      <4>1. step # Compare(i + 1, 1) /\ (j < i => step # Compare(i, j + 1))
        BY <1>1, StepsAre
      <4> QED
        BY <1>0, <1>1, <2>1, <4>1 DEF SortCompares, Continue, Abort, OnTheWay, Flight, At
    <3> QED
      BY <2>1, <3>1, SortInvFrame
  <2> QED
    BY <2>1
<1>6. \/ j = i /\ step' = Compare(i + 1, 1) /\ results' = results
      \/ /\ j < i /\ HasKey(results[i]) /\ HasKey(results[j])
         /\ results' = Exchange(query.sort, results, i, j) /\ step' = Compare(i, j + 1)
  <2>1. ~Abort("compares NULL")
    BY <1>5 DEF Abort
  <2>2. \/ j = i /\ Continue(Compare(i + 1, 1)) /\ UNCHANGED sort
        \/ /\ j < i /\ ~\E k \in {i, j} : GetCol(results[k], query.sort.col) = Null
           /\ results' = Exchange(query.sort, results, i, j) /\ Continue(Compare(i, j + 1))
    BY <1>0, <2>1 DEF SortCompares
  <2> QED
    BY <2>2 DEF Continue, sort, HasKey
<1>7. Inserting' /\ step'.does = "compare"
  <2>1. CASE j = i
    <3>1. step' = Compare(i + 1, 1) /\ results' = results
      BY <1>1, <1>6, <2>1
    <3>2. step'.does = "compare" /\ step'.i = i + 1 /\ step'.j = 1
      BY <3>1, StepsAre
    <3>3. \A m, k \in 1 .. i : m < k => NotAfter(results[m], results[k])
      <4> SUFFICES ASSUME NEW m \in 1 .. i, NEW k \in 1 .. i, m < k
                   PROVE  NotAfter(results[m], results[k])
        OBVIOUS
      <4>1. CASE k = i
        BY <1>1, <1>2, <2>1, <4>1
      <4>2. CASE k # i
        <5>1. m \in 1 .. i - 1 /\ k \in 1 .. i - 1
          BY <1>1, <4>2
        <5> QED
          BY <1>2, <5>1 DEF InOrder
      <4> QED
        BY <4>1, <4>2
    <3>4. (i + 1) - 1 = i /\ (i + 1 > 2 => j > 1) /\ 1 .. 1 - 1 = {}
      BY <1>1, <2>1
    <3>5. i + 1 > 2 => \A m \in 1 .. i : HasKey(results[m])
      <4> SUFFICES ASSUME i + 1 > 2, NEW m \in 1 .. i PROVE HasKey(results[m])
        OBVIOUS
      <4>1. m = i \/ m \in 1 .. i - 1
        BY <1>1
      <4> QED
        BY <1>2, <3>4, <4>1
    <3>6. InOrder(i)'
      BY <1>4, <3>1, <3>3 DEF InOrder
    <3> QED
      BY <1>4, <3>1, <3>2, <3>4, <3>5, <3>6 DEF Inserting
  <2>2. CASE j < i
    <3>1. /\ results' = Exchange(query.sort, results, i, j) /\ step' = Compare(i, j + 1)
          /\ HasKey(results[i]) /\ HasKey(results[j])
      BY <1>1, <1>6, <2>2
    <3>2. step'.does = "compare" /\ step'.i = i /\ step'.j = j + 1
      BY <3>1, StepsAre
    <3>3. \A m \in 1 .. i : HasKey(results[m])
      <4> SUFFICES ASSUME NEW m \in 1 .. i PROVE HasKey(results[m])
        OBVIOUS
      <4>1. CASE m = i
        BY <3>1, <4>1
      <4>2. CASE m # i /\ (i > 2 \/ j > 1)
        BY <1>1, <1>2, <4>2
      <4>3. CASE m # i /\ ~(i > 2 \/ j > 1)
        <5>1. m = j
          BY <1>1, <2>2, <4>3
        <5> QED
          BY <3>1, <5>1
      <4> QED
        BY <4>1, <4>2, <4>3
    <3>4. PICK r : r = results'
      OBVIOUS
    <3>5. /\ \A m, k \in 1 .. i - 1 : m < k => NotAfter(r[m], r[k])
          /\ \A m \in 1 .. j : NotAfter(r[m], r[i])
          /\ \A m \in 1 .. i : HasKey(r[m])
      <4>1. i \in 2 .. Len(results) /\ j \in 1 .. i - 1
        BY <1>1, <2>2
      <4> QED
        BY <1>1, <1>2, <3>1, <3>3, <3>4, <4>1, InsertionStep
    <3>6. (j + 1) - 1 = j /\ i \in 1 .. i /\ \A m \in 1 .. i - 1 : m \in 1 .. i
      BY <1>1
    <3>7. InOrder(i - 1)'
      BY <1>4, <3>4, <3>5 DEF InOrder
    <3> QED
      BY <1>4, <3>2, <3>4, <3>5, <3>6, <3>7 DEF Inserting
  <2> QED
    BY <1>1, <2>1, <2>2
<1>8. OnTheWay' = {}
  BY <1>7 DEF OnTheWay, Flight
<1> QED
  BY <1>2, <1>3, <1>7, <1>8 DEF SortInv

LEMMA SortInvStep ==
    ASSUME TypeInv, Accounted, SortInv, Next
    PROVE  SortInv'
<1>1. status = "running" /\ (PlanStep \/ TopStep)
  BY NextIs DEF PlanStep, TopStep
<1>2. World /\ StepOK
  BY DEF TypeInv
<1>3. SUFFICES ASSUME query.sort # None PROVE SortInv'
  <2>1. UNCHANGED input
    BY <1>1, PlanStepIs DEF TopStep, SortScan, SortCollects, SortCompares, SortEnds, NextResult,
                          GetResult, ResultReceives, ExecPlan, Continue, Abort
  <2> QED
    BY <2>1 DEF input, SortInv
<1>4. /\ step.does = "compare" => ~isSorted
      /\ \A x \in Plan : At(x) => ~isSorted
      /\ ~isSorted => Flight(SortNode) = {}
      /\ Flight(ResultNode) # {} => isSorted
  <2>1. PICK D : SortAccount(D)
    BY DEF Accounted
  <2> QED
    BY <1>3, <2>1 DEF SortAccount, SortInv, OnTheWay
<1>5. LeftOfResult = SortNode /\ SortNode # ResultNode /\ query.from \in Plan
  BY <1>2, <1>3, TopNodes DEF LeftOfResult
<1>6. CASE PlanStep
  <2>1. OnTheWay' = {}
    BY <1>1, <1>6, PlanStepIs DEF OnTheWay
  <2> QED
    BY <1>1, <1>6, <2>1, PlanStepIs, SortInvFrame
<1>7. CASE SortScan
  <2>1. step = Call(SortNode) /\ OnTheWay = {} /\ UNCHANGED <<results, isSorted>>
    BY <1>7, StepsAre DEF SortScan, OnTheWay, Flight
  <2>2. CASE isSorted /\ NextResult
    <3>1. UNCHANGED <<input, results, out>> /\ isSorted' /\ InOrder(Len(results))
      BY <1>3, <2>1, <2>2 DEF NextResult, Continue, SortInv
    <3> QED
      BY <1>3, <2>1, <2>2, <3>1, SortInvNext
  <2>3. CASE ~isSorted /\ Continue(Call(query.from)) /\ UNCHANGED next
    <3>1. UNCHANGED <<input, sort, out>> /\ step' = Call(query.from)
      BY <2>1, <2>3 DEF Continue, sort
    <3>2. OnTheWay' = {} /\ step'.does # "compare"
      BY <3>1, StepsAre DEF OnTheWay, Flight
    <3> QED
      BY <3>1, <3>2, SortInvFrame
  <2> QED
    BY <1>7, <2>2, <2>3 DEF SortScan
<1>8. CASE SortCollects
  <2>1. /\ At(query.from) /\ UNCHANGED <<input, isSorted, next, out>>
        /\ step' = Call(query.from) \/ step' = Compare(1, 1)
    BY <1>8 DEF SortCollects, Continue, At
  <2>2. ~isSorted /\ ~isSorted' /\ out = <<>> /\ next = 1
    BY <1>3, <1>4, <1>5, <2>1 DEF SortInv
  <2>3. OnTheWay' = {}
    BY <2>1, StepsAre DEF OnTheWay, Flight
  <2>4. Inserting'
    <3>1. CASE step' = Call(query.from)
      BY <3>1, StepsAre DEF Inserting
    <3>2. CASE step' = Compare(1, 1)
      <4>1. step'.i = 1 /\ step'.j = 1
        BY <3>2, StepsAre
      <4> QED
        BY <4>1 DEF Inserting, InOrder
    <3> QED
      BY <2>1, <3>1, <3>2
  <2> QED
    BY <2>1, <2>2, <2>3, <2>4 DEF SortInv
<1>9. CASE SortCompares
  BY <1>4, <1>9, SortInvCompares DEF SortCompares
<1>10. CASE SortEnds
  <2>1. step.does = "compare" /\ step.i > Len(results) /\ isSorted' /\ NextResult /\ UNCHANGED results
    BY <1>10 DEF SortEnds
  <2>2. step.i \in 1 .. Len(results) + 1 /\ results \in Seq(Tuples(query.from.columns))
    BY <1>2, <2>1, StepIs DEF TypeInv
  <2>3. step.i - 1 = Len(results)
    BY <2>1, <2>2
  <2>4. InOrder(Len(results)) /\ OnTheWay = {}
    BY <1>3, <2>1, <2>3 DEF SortInv, Inserting, OnTheWay, Flight
  <2>5. UNCHANGED <<input, out>>
    BY <2>1 DEF NextResult, Continue
  <2> QED
    BY <1>3, <2>1, <2>4, <2>5, SortInvNext
<1>11. CASE GetResult
  <2>1. UNCHANGED <<input, sort, out>> /\ step' = Call(LeftOfResult)
    BY <1>11 DEF GetResult, Continue
  <2>2. OnTheWay' = {} /\ step'.does # "compare"
    BY <2>1, StepsAre DEF OnTheWay, Flight
  <2> QED
    BY <2>1, <2>2, SortInvFrame
<1>12. CASE ResultReceives
  <2>1. /\ UNCHANGED <<input, sort, out>> /\ step.does = "return" /\ step.node = SortNode
        /\ step' = step \/ step' = Return(ResultNode, step.tuple) \/ step' = Call(LeftOfResult)
    BY <1>5, <1>12 DEF ResultReceives, Continue, Abort
  <2>2. OnTheWay' \subseteq OnTheWay /\ (step' = step \/ step'.does # "compare")
    <3>1. CASE step' = step
      BY <3>1 DEF OnTheWay, Flight, At
    <3>2. CASE step' = Return(ResultNode, step.tuple)
      <4>1. step'.does = "return" /\ step'.node = ResultNode /\ step'.tuple = step.tuple
        BY <3>2, StepsAre
      <4> QED
        BY <1>5, <2>1, <4>1 DEF OnTheWay, Flight, At
    <3>3. CASE step' = Call(LeftOfResult)
      BY <3>3, StepsAre DEF OnTheWay, Flight
    <3> QED
      BY <2>1, <3>1, <3>2, <3>3
  <2> QED
    BY <2>1, <2>2, SortInvFrame
<1>13. CASE ExecPlan /\ UNCHANGED <<step, out>>
  <2>1. UNCHANGED <<input, sort>> /\ OnTheWay' = OnTheWay
    BY <1>13 DEF ExecPlan, OnTheWay, Flight, At
  <2> QED
    BY <1>13, <2>1, SortInvFrame
<1>14. CASE ExecPlan /\ ~UNCHANGED <<step, out>>
  <2>1. PICK t : t = step.tuple
    OBVIOUS
  <2>2. /\ step.does = "return" /\ step.node = ResultNode /\ t # NoTuple /\ out' = Append(out, t)
        /\ step' = Call(ResultNode) /\ UNCHANGED <<input, sort>>
    BY <1>14, <2>1 DEF ExecPlan
  <2>3. OnTheWay' = {} /\ t \in OnTheWay /\ step'.does # "compare" /\ isSorted
    <3>1. t \in Flight(ResultNode)
      BY <2>1, <2>2 DEF Flight, At
    <3> QED
      BY <1>4, <2>2, <3>1, StepsAre DEF OnTheWay, Flight
  <2>4. /\ query' = query /\ results' = results /\ isSorted' = isSorted /\ Waiting' = Waiting
        /\ InOrder(Len(results))'
    <3>1. query' = query /\ results' = results /\ isSorted' = isSorted /\ next' = next
      BY <2>2 DEF input, sort
    <3>2. InOrder(Len(results))
      BY <1>3, <2>3 DEF SortInv
    <3> QED
      BY <2>2, <3>1, <3>2, OrderFrame DEF Waiting, InOrder
  <2>5. /\ \A m, k \in DOMAIN out : m < k => NotAfter(out[m], out[k])
        /\ \A m \in DOMAIN out : \A u \in OnTheWay \cup Waiting : NotAfter(out[m], u)
        /\ \A u \in Waiting : NotAfter(t, u)
    BY <1>3, <2>3 DEF SortInv
  <2>6. /\ out \in Seq(Tuples(query.from.columns)) /\ Len(out) \in Nat /\ DOMAIN out = 1 .. Len(out)
        /\ DOMAIN out' = 1 .. Len(out) + 1
        /\ \A m \in 1 .. Len(out) + 1 : out'[m] = IF m = Len(out) + 1 THEN t ELSE out[m]
    BY <2>2 DEF TypeInv
  <2>7. \A m, k \in DOMAIN out' : m < k => NotAfter(out'[m], out'[k])
    <3> SUFFICES ASSUME NEW m \in DOMAIN out', NEW k \in DOMAIN out', m < k
                 PROVE  NotAfter(out'[m], out'[k])
      OBVIOUS
    <3>1. m \in DOMAIN out /\ out'[m] = out[m]
      BY <2>6
    <3>2. CASE k = Len(out) + 1
      BY <2>3, <2>5, <2>6, <3>1, <3>2
    <3>3. CASE k # Len(out) + 1
      BY <2>5, <2>6, <3>1, <3>3
    <3> QED
      BY <3>2, <3>3
  <2>8. \A m \in DOMAIN out' : \A u \in Waiting : NotAfter(out'[m], u)
    BY <2>5, <2>6
  <2> QED
    BY <2>2, <2>3, <2>4, <2>7, <2>8, OrderFrame DEF SortInv, Inserting
<1> QED
  BY <1>1, <1>6, <1>7, <1>8, <1>9, <1>10, <1>11, <1>12, <1>13, <1>14 DEF TopStep

LEMMA SortInvUnchanged ==
    ASSUME SortInv, UNCHANGED vars
    PROVE  SortInv'
<1>1. UNCHANGED <<input, sort, out>> /\ step' = step
  BY DEF vars
<1>2. OnTheWay' = OnTheWay
  BY <1>1 DEF OnTheWay, Flight, At
<1> QED
  BY <1>1, <1>2, SortInvFrame

-----------------------------------------------------------------------------
\* What the plan gives, and what the FROM clause stands for.
LEMMA LoopRowsAre ==
    ASSUME NEW f, NEW ls, NEW rs, NEW t
    PROVE  t \in LoopRows(f, ls, rs) <=>
              \/ \E l \in ls, r \in rs : Keeps(f.on, JoinTuples(l, r)) /\ t = JoinTuples(l, r)
              \/ /\ f.method \in {"left", "right"}
                 /\ \E l \in ls : t = NullExtended(f, l) /\ \A r \in rs : ~Keeps(f.on, JoinTuples(l, r))
<1>1. (\E p \in Matching(ls, rs, f.on) : t = JoinTuples(p[1], p[2])) <=>
         \E l \in ls, r \in rs : Keeps(f.on, JoinTuples(l, r)) /\ t = JoinTuples(l, r)
  <2>1. ASSUME NEW p \in Matching(ls, rs, f.on), t = JoinTuples(p[1], p[2])
        PROVE  \E l \in ls, r \in rs : Keeps(f.on, JoinTuples(l, r)) /\ t = JoinTuples(l, r)
    BY <2>1 DEF Matching
  <2>2. ASSUME NEW l \in ls, NEW r \in rs, Keeps(f.on, JoinTuples(l, r)), t = JoinTuples(l, r)
        PROVE  \E p \in Matching(ls, rs, f.on) : t = JoinTuples(p[1], p[2])
    <3>1. <<l, r>> \in Matching(ls, rs, f.on) /\ <<l, r>>[1] = l /\ <<l, r>>[2] = r
      BY <2>2 DEF Matching
    <3> QED
      BY <2>2, <3>1
  <2> QED
    BY <2>1, <2>2
<1> QED
  BY <1>1 DEF LoopRows

LEMMA JoinedRowsAre ==
    ASSUME NEW f, f.method # "outer", NEW ls, NEW rs, NEW t
    PROVE  t \in JoinedRows(f, ls, rs) <=>
              \/ \E l \in ls, r \in rs : Keeps(f.on, JoinTuples(l, r)) /\ t = JoinTuples(l, r)
              \/ /\ f.method = "left"
                 /\ \E l \in ls : /\ t = JoinTuples(l, Nulls(f.right.columns))
                                  /\ \A r \in rs : ~Keeps(f.on, JoinTuples(l, r))
              \/ /\ f.method = "right"
                 /\ \E r \in rs : /\ t = JoinTuples(r, Nulls(f.left.columns))
                                  /\ \A l \in ls : ~Keeps(f.on, JoinTuples(l, r))
<1> DEFINE pairs == Matching(ls, rs, f.on)
<1>1. /\ \A p \in pairs : p[1] \in ls /\ p[2] \in rs /\ Keeps(f.on, JoinTuples(p[1], p[2]))
      /\ \A l \in ls, r \in rs : Keeps(f.on, JoinTuples(l, r)) =>
            \E p \in pairs : p[1] = l /\ p[2] = r
  <2>1. ASSUME NEW l \in ls, NEW r \in rs, Keeps(f.on, JoinTuples(l, r))
        PROVE  \E p \in pairs : p[1] = l /\ p[2] = r
    <3>1. <<l, r>> \in pairs /\ <<l, r>>[1] = l /\ <<l, r>>[2] = r
      BY <2>1 DEF Matching
    <3> QED
      BY <3>1
  <2> QED
    BY <2>1 DEF Matching
<1> HIDE DEF pairs
<1>2. (\E p \in pairs : t = JoinTuples(p[1], p[2])) <=>
         \E l \in ls, r \in rs : Keeps(f.on, JoinTuples(l, r)) /\ t = JoinTuples(l, r)
  BY <1>1
<1>3. \A l \in ls : (\A p \in pairs : p[1] # l) <=> \A r \in rs : ~Keeps(f.on, JoinTuples(l, r))
  BY <1>1
<1>4. \A r \in rs : (\A p \in pairs : p[2] # r) <=> \A l \in ls : ~Keeps(f.on, JoinTuples(l, r))
  BY <1>1
<1>5. t \in JoinedRows(f, ls, rs) <=>
         \/ \E p \in pairs : t = JoinTuples(p[1], p[2])
         \/ f.method = "left" /\ \E l \in ls : /\ t = JoinTuples(l, Nulls(f.right.columns))
                                               /\ \A p \in pairs : p[1] # l
         \/ f.method = "right" /\ \E r \in rs : /\ t = JoinTuples(r, Nulls(f.left.columns))
                                                /\ \A p \in pairs : p[2] # r
  BY DEF JoinedRows, pairs
<1> QED
  BY <1>2, <1>3, <1>4, <1>5

\* The tables of a join may come in either order.
LEMMA JoinTuplesCommute ==
    ASSUME NEW C, NEW E, C \cap E = {}, NEW s \in Tuples(C), NEW t \in Tuples(E)
    PROVE  JoinTuples(s, t) = JoinTuples(t, s)
<1>1. DOMAIN s = C /\ DOMAIN t = E
  BY DEF Tuples
<1>2. \A c \in C \cup E : (IF c \in C THEN s[c] ELSE t[c]) = (IF c \in E THEN t[c] ELSE s[c])
  OBVIOUS
<1>3. C \cup E = E \cup C
  OBVIOUS
<1> QED
  BY <1>1, <1>2, <1>3 DEF JoinTuples

\* PlanJoin's change of a right join's children makes no difference.
LEMMA JoinedRowsIsLoopRows ==
    ASSUME World, NEW f \in FromClauses, ~IsTable(f), f.columns \subseteq query.from.columns,
           f.method # "outer", NEW S \in SUBSET Tuples(f.left.columns),
           NEW T \in SUBSET Tuples(f.right.columns)
    PROVE  JoinedRows(f, S, T) = IF f.method = "right" THEN LoopRows(f, T, S) ELSE LoopRows(f, S, T)
<1>1. /\ f.method \in {"inner", "left", "right"} /\ f.left.columns \cap f.right.columns = {}
  BY Shape
<1>2. \A s \in S, t \in T : JoinTuples(s, t) = JoinTuples(t, s)
  BY <1>1, JoinTuplesCommute
<1>3. CASE f.method = "right"
  <2>1. LeftPlan(f) = f.right /\ RightPlan(f) = f.left
    BY <1>3 DEF LeftPlan, RightPlan
  <2>2. \A t \in T : NullExtended(f, t) = JoinTuples(t, Nulls(f.left.columns))
    BY <2>1, NullExtendedIs
  <2>3. ASSUME NEW x PROVE x \in JoinedRows(f, S, T) <=> x \in LoopRows(f, T, S)
    <3>1. x \in JoinedRows(f, S, T) <=>
             \/ \E l \in S, r \in T : Keeps(f.on, JoinTuples(l, r)) /\ x = JoinTuples(l, r)
             \/ \E r \in T : /\ x = JoinTuples(r, Nulls(f.left.columns))
                             /\ \A l \in S : ~Keeps(f.on, JoinTuples(l, r))
      BY <1>3, JoinedRowsAre
    <3>2. x \in LoopRows(f, T, S) <=>
             \/ \E l \in T, r \in S : Keeps(f.on, JoinTuples(l, r)) /\ x = JoinTuples(l, r)
             \/ \E l \in T : x = NullExtended(f, l) /\ \A r \in S : ~Keeps(f.on, JoinTuples(l, r))
      BY <1>3, LoopRowsAre
    <3> QED
      BY <1>2, <2>2, <3>1, <3>2
  <2> QED
    BY <1>3, <2>3
<1>4. CASE f.method # "right"
  <2>1. LeftPlan(f) = f.left /\ RightPlan(f) = f.right
    BY <1>4 DEF LeftPlan, RightPlan
  <2>2. \A s \in S : NullExtended(f, s) = JoinTuples(s, Nulls(f.right.columns))
    BY <2>1, NullExtendedIs
  <2>3. ASSUME NEW x PROVE x \in JoinedRows(f, S, T) <=> x \in LoopRows(f, S, T)
    <3>1. x \in JoinedRows(f, S, T) <=>
             \/ \E l \in S, r \in T : Keeps(f.on, JoinTuples(l, r)) /\ x = JoinTuples(l, r)
             \/ f.method = "left" /\ \E l \in S : /\ x = JoinTuples(l, Nulls(f.right.columns))
                                                  /\ \A r \in T : ~Keeps(f.on, JoinTuples(l, r))
      BY <1>1, <1>4, JoinedRowsAre
    <3>2. x \in LoopRows(f, S, T) <=>
             \/ \E l \in S, r \in T : Keeps(f.on, JoinTuples(l, r)) /\ x = JoinTuples(l, r)
             \/ f.method = "left" /\ \E l \in S : /\ x = NullExtended(f, l)
                                                  /\ \A r \in T : ~Keeps(f.on, JoinTuples(l, r))
      BY <1>1, <1>4, LoopRowsAre
    <3> QED
      BY <2>2, <3>1, <3>2
  <2> QED
    BY <1>4, <2>3
<1> QED
  BY <1>3, <1>4

\* The joins below f, none of them a full outer join.
NoOuterIn(f) == \A g \in JoinsOf(f) : g.method # "outer"

LEMMA NoOuterParts ==
    ASSUME NEW f \in FromClauses, ~IsTable(f), NoOuterIn(f)
    PROVE  f.method # "outer" /\ NoOuterIn(f.left) /\ NoOuterIn(f.right)
BY JoinsOfIs DEF NoOuterIn

LEMMA JoinedType ==
    ASSUME World
    PROVE  \A f \in FromClauses : f.columns \subseteq query.from.columns /\ NoOuterIn(f) =>
              Joined(f) \in SUBSET Tuples(f.columns)
<1> DEFINE S == {f \in FromClauses : f.columns \subseteq query.from.columns /\ NoOuterIn(f) =>
                                         Joined(f) \in SUBSET Tuples(f.columns)}
<1>1. ASSUME NEW f \in FromClauses, IsTable(f) PROVE f \in S
  <2>1. f.table \in Tables /\ f.columns = {f.table}
    BY <1>1, Shape
  <2>2. Joined(f) = {Row(f.table, r) : r \in DOMAIN tables[f.table]}
    BY <1>1, JoinedIs
  <2> QED
    BY <2>1, <2>2, RowTuple
<1>2. ASSUME NEW f \in FromClauses, ~IsTable(f), f.left \in S, f.right \in S PROVE f \in S
  <2> SUFFICES ASSUME f.columns \subseteq query.from.columns, NoOuterIn(f), NEW t \in Joined(f)
               PROVE  t \in Tuples(f.columns)
    OBVIOUS
  <2>1. /\ Joined(f.left) \in SUBSET Tuples(f.left.columns)
        /\ Joined(f.right) \in SUBSET Tuples(f.right.columns)
    BY <1>2, NoOuterParts, Shape
  <2>2. t \in JoinedRows(f, Joined(f.left), Joined(f.right)) /\ f.method # "outer"
    BY <1>2, JoinedIs, NoOuterParts
  <2>3. CASE f.method = "right"
    <3>1. LeftPlan(f) = f.right /\ RightPlan(f) = f.left
      BY <2>3 DEF LeftPlan, RightPlan
    <3>2. t \in LoopRows(f, Joined(f.right), Joined(f.left))
      BY <1>2, <2>1, <2>2, <2>3, JoinedRowsIsLoopRows
    <3> QED
      BY <1>2, <2>1, <3>1, <3>2, LoopRowsType, JoinTuplesAre
  <2>4. CASE f.method # "right"
    <3>1. LeftPlan(f) = f.left /\ RightPlan(f) = f.right
      BY <2>4 DEF LeftPlan, RightPlan
    <3>2. t \in LoopRows(f, Joined(f.left), Joined(f.right))
      BY <1>2, <2>1, <2>2, <2>4, JoinedRowsIsLoopRows
    <3> QED
      BY <1>2, <2>1, <3>1, <3>2, LoopRowsType, JoinTuplesAre
  <2> QED
    BY <2>3, <2>4
<1> HIDE DEF S
<1>3. FromClauses \subseteq S
  BY <1>1, <1>2, FromInduction
<1> QED
  BY <1>3 DEF S

LEMMA JoinedIsLoopRows ==
    ASSUME World, NEW f \in FromClauses, ~IsTable(f), f.columns \subseteq query.from.columns,
           NoOuterIn(f)
    PROVE  /\ Joined(f) = LoopRows(f, Joined(LeftPlan(f)), Joined(RightPlan(f)))
           /\ Joined(LeftPlan(f)) \in SUBSET Tuples(LeftPlan(f).columns)
           /\ Joined(RightPlan(f)) \in SUBSET Tuples(RightPlan(f).columns)
<1>1. /\ Joined(f.left) \in SUBSET Tuples(f.left.columns)
      /\ Joined(f.right) \in SUBSET Tuples(f.right.columns)
  BY JoinedType, NoOuterParts, Shape
<1>2. Joined(f) = JoinedRows(f, Joined(f.left), Joined(f.right)) /\ f.method # "outer"
  BY JoinedIs, NoOuterParts
<1>3. CASE f.method = "right"
  <2>1. LeftPlan(f) = f.right /\ RightPlan(f) = f.left
    BY <1>3 DEF LeftPlan, RightPlan
  <2> QED
    BY <1>1, <1>2, <1>3, <2>1, JoinedRowsIsLoopRows
<1>4. CASE f.method # "right"
  <2>1. LeftPlan(f) = f.left /\ RightPlan(f) = f.right
    BY <1>4 DEF LeftPlan, RightPlan
  <2> QED
    BY <1>1, <1>2, <1>4, <2>1, JoinedRowsIsLoopRows
<1> QED
  BY <1>3, <1>4

-----------------------------------------------------------------------------
\* The WHERE clause of a query that uses an index says something about one column.
WhereIs(u) == query.where \in Conditions /\ query.where # None /\ ColumnsOf(query.where) = {u}

LEMMA IndexedWhere ==
    ASSUME World, NEW u, UsesIndex(u, indexed)
    PROVE  WhereIs(u) /\ IsBoundary(query.where, u) /\ u \in indexed
           /\ \A v : UsesIndex(v, indexed) => v = u
BY QueriesAssumption DEF World, WhereIs, UsesIndex, IsBoundary

LEMMA WhereOfColumn ==
    ASSUME NEW u, WhereIs(u), NEW s, NEW t
    PROVE  /\ s[u] = t[u] => (Keeps(query.where, s) <=> Keeps(query.where, t))
           /\ s[u] = 0 => ~Keeps(query.where, s)
<1>1. /\ query.where # None
      /\ \A term \in {query.where.lhs, query.where.rhs} : term \in Tables => term = u
      /\ query.where.lhs = u \/ query.where.rhs = u
      /\ u \in Tables
  BY DEF WhereIs, ColumnsOf, Conditions
<1>2. ASSUME s[u] = t[u] PROVE Keeps(query.where, s) <=> Keeps(query.where, t)
  <2>1. \A term \in {query.where.lhs, query.where.rhs} : Term(s, term) = Term(t, term)
    BY <1>1, <1>2 DEF Term, GetCol
  <2>2. EvalExpr(query.where, s) = EvalExpr(query.where, t)
    BY <2>1 DEF EvalExpr
  <2> QED
    BY <1>1, <2>2 DEF Keeps
<1>3. ASSUME s[u] = 0 PROVE ~Keeps(query.where, s)
  <2>1. Term(s, u) = Null
    BY <1>1, <1>3 DEF Term, GetCol
  <2>2. EvalExpr(query.where, s) = Null
    BY <1>1, <2>1 DEF EvalExpr
  <2> QED
    BY <1>1, <2>2, ValuesAssumption DEF Keeps
<1> QED
  BY <1>2, <1>3

\* Rows that the WHERE clause drops make no difference to what it keeps of a loop's rows.
LEMMA KeptLoops ==
    ASSUME World, NEW f \in FromClauses, ~IsTable(f), f.columns \subseteq query.from.columns,
           NEW u, WhereIs(u),
           NEW ls \in SUBSET Tuples(LeftPlan(f).columns), NEW rs \in SUBSET Tuples(RightPlan(f).columns),
           NEW ks, NEW ss,
           \/ u \in LeftPlan(f).columns /\ Kept(ls) \subseteq ks /\ rs = ss
           \/ u \in RightPlan(f).columns /\ ls = ks /\ Kept(rs) \subseteq ss
    PROVE  Kept(LoopRows(f, ls, rs)) \subseteq LoopRows(f, ks, ss)
<1> SUFFICES ASSUME NEW t \in LoopRows(f, ls, rs), Keeps(query.where, t)
             PROVE  t \in LoopRows(f, ks, ss)
  BY DEF Kept
<1>1. ASSUME NEW l \in Tuples(LeftPlan(f).columns), NEW r \in Tuples(RightPlan(f).columns)
      PROVE  /\ u \in LeftPlan(f).columns => JoinTuples(l, r)[u] = l[u]
             /\ u \in RightPlan(f).columns => JoinTuples(l, r)[u] = r[u]
  BY JoinTuplesAre
<1>2. CASE \E l \in ls, r \in rs : Keeps(f.on, JoinTuples(l, r)) /\ t = JoinTuples(l, r)
  <2>1. PICK l \in ls, r \in rs : Keeps(f.on, JoinTuples(l, r)) /\ t = JoinTuples(l, r)
    BY <1>2
  <2>2. CASE u \in LeftPlan(f).columns /\ Kept(ls) \subseteq ks /\ rs = ss
    <3>1. Keeps(query.where, l)
      BY <1>1, <2>1, <2>2, WhereOfColumn
    <3>2. l \in ks /\ r \in ss
      BY <2>2, <3>1 DEF Kept
    <3> QED
      BY <2>1, <3>2, LoopRowsAre
  <2>3. CASE u \in RightPlan(f).columns /\ ls = ks /\ Kept(rs) \subseteq ss
    <3>1. Keeps(query.where, r)
      BY <1>1, <2>1, <2>3, WhereOfColumn
    <3>2. l \in ks /\ r \in ss
      BY <2>3, <3>1 DEF Kept
    <3> QED
      BY <2>1, <3>2, LoopRowsAre
  <2> QED
    BY <2>2, <2>3
<1>3. CASE /\ f.method \in {"left", "right"}
           /\ \E l \in ls : t = NullExtended(f, l) /\ \A r \in rs : ~Keeps(f.on, JoinTuples(l, r))
  <2>1. PICK l \in ls : t = NullExtended(f, l) /\ \A r \in rs : ~Keeps(f.on, JoinTuples(l, r))
    BY <1>3
  <2>2. /\ t = JoinTuples(l, Nulls(RightPlan(f).columns)) /\ l \in Tuples(LeftPlan(f).columns)
        /\ Nulls(RightPlan(f).columns) \in Tuples(RightPlan(f).columns)
    BY <2>1, NullExtendedIs
  <2>3. u \in RightPlan(f).columns => t[u] = 0
    BY <1>1, <2>2 DEF Nulls
  <2>4. u \notin RightPlan(f).columns
    BY <2>3, WhereOfColumn
  <2>5. Keeps(query.where, l) /\ rs = ss
    BY <1>1, <2>2, <2>4, WhereOfColumn
  <2>6. l \in ks
    BY <2>4, <2>5 DEF Kept
  <2> QED
    BY <1>3, <2>1, <2>5, <2>6, LoopRowsAre
<1> QED
  BY <1>2, <1>3, LoopRowsAre

\* A forward scan comes by every row that the WHERE clause keeps.
LEMMA ForwardScan ==
    ASSUME World, NEW u, UsesIndex(u, indexed), ~Backwards(query.where), NEW r \in DOMAIN tables[u],
           Keeps(query.where, Row(u, r))
    PROVE  r \in KeptRows(u)
<1> DEFINE w == query.where
<1>1. /\ WhereIs(u) /\ IsBoundary(w, u) /\ u \in indexed
  BY IndexedWhere
<1>2. u \in query.from.columns /\ Null \notin ToSet(tables[u]) /\ u \in Tables
  <2>1. query.from \in FromClauses /\ ColumnsOf(w) \subseteq query.from.columns
    BY <1>1, QueriesAssumption DEF World, WhereIs
  <2> QED
    BY <1>1, <2>1, Shape DEF World, WhereIs
<1>3. r \in Nat /\ r # 0 /\ tables[u][r] \in Int
  <2>1. tables[u] \in Seq(Int \cup {Null})
    BY <1>2, WorldIs
  <2> QED
    BY <1>2, <2>1 DEF ToSet
<1>4. /\ w \in Conditions /\ w # None /\ {w.lhs, w.rhs} \cap Tables = {u} /\ w.lhs # w.rhs
      /\ w.op \in {"=", "<", ">"} /\ w.lhs \in Tables \cup Int /\ w.rhs \in Tables \cup Int
  BY <1>1 DEF WhereIs, IsBoundary, ColumnsOf, Conditions
<1>5. Term(Row(u, r), u) = tables[u][r]
  BY <1>2, <1>3 DEF Term, GetCol, Row
<1>6. EvalExpr(w, Row(u, r)) = TRUE
  BY <1>4 DEF Keeps
<1>7. tables[u][r] >= BoundaryValue(w)
  <2>1. CASE w.lhs \in Tables
    <3>1. w.lhs = u /\ w.rhs \notin Tables /\ w.rhs \in Int
      BY <1>4, <2>1
    <3>2. Term(Row(u, r), w.lhs) = tables[u][r] /\ Term(Row(u, r), w.rhs) = w.rhs
      BY <1>5, <3>1 DEF Term
    <3>3. tables[u][r] # Null /\ w.rhs # Null
      BY <1>3, <3>1, ValuesAssumption
    <3>4. w.op # "<"
      BY <2>1 DEF Backwards
    <3>5. (w.op = "=" /\ tables[u][r] = w.rhs) \/ (w.op = ">" /\ tables[u][r] > w.rhs)
      BY <1>4, <1>6, <3>2, <3>3, <3>4 DEF EvalExpr
    <3> QED
      BY <1>3, <2>1, <3>1, <3>5 DEF BoundaryValue
  <2>2. CASE w.lhs \notin Tables
    <3>1. w.rhs = u /\ w.lhs \in Int
      BY <1>4, <2>2
    <3>2. Term(Row(u, r), w.rhs) = tables[u][r] /\ Term(Row(u, r), w.lhs) = w.lhs
      BY <1>5, <2>2, <3>1 DEF Term
    <3>3. tables[u][r] # Null /\ w.lhs # Null
      BY <1>3, <3>1, ValuesAssumption
    <3>4. w.op # ">"
      BY <2>2 DEF Backwards
    <3>5. (w.op = "=" /\ tables[u][r] = w.lhs) \/ (w.op = "<" /\ w.lhs < tables[u][r])
      BY <1>4, <1>6, <3>2, <3>3, <3>4 DEF EvalExpr
    <3> QED
      BY <1>3, <2>2, <3>1, <3>5 DEF BoundaryValue
  <2> QED
    BY <2>1, <2>2
<1>8. r \in StartRows(u)
  BY <1>7 DEF StartRows
<1> QED
  BY <1>8 DEF KeptRows, Visited

\* What the plan gives and the FROM clause stands for: the same without an index; with one,
\* what the WHERE clause keeps of the one is of the other.
SameWithout(f) == (\A u \in f.columns : ~UsesIndex(u, indexed)) => All(f) = Joined(f)
SameKept(f) ==
    \A u \in f.columns : UsesIndex(u, indexed) =>
        /\ Kept(All(f)) \subseteq Joined(f)
        /\ ~Backwards(query.where) => Kept(Joined(f)) \subseteq All(f)

LEMMA PlanIsFrom ==
    ASSUME World
    PROVE  \A f \in FromClauses : f.columns \subseteq query.from.columns /\ NoOuterIn(f) =>
              SameWithout(f) /\ SameKept(f)
<1> DEFINE S == {f \in FromClauses : f.columns \subseteq query.from.columns /\ NoOuterIn(f) =>
                                         SameWithout(f) /\ SameKept(f)}
<1>1. ASSUME NEW f \in FromClauses, IsTable(f) PROVE f \in S
  <2> SUFFICES ASSUME f.columns \subseteq query.from.columns PROVE SameWithout(f) /\ SameKept(f)
    OBVIOUS
  <2>1. f.columns = {f.table}
    BY <1>1, Shape
  <2>2. All(f) = ScanRows(f.table, indexed)
    BY <1>1, RowsIs DEF All
  <2>3. Joined(f) = {Row(f.table, r) : r \in DOMAIN tables[f.table]}
    BY <1>1, JoinedIs
  <2>4. SameWithout(f)
    BY <2>1, <2>2, <2>3 DEF SameWithout, ScanRows
  <2>5. SameKept(f)
    <3> SUFFICES ASSUME UsesIndex(f.table, indexed)
                 PROVE  /\ Kept(All(f)) \subseteq Joined(f)
                        /\ ~Backwards(query.where) => Kept(Joined(f)) \subseteq All(f)
      BY <2>1 DEF SameKept
    <3>1. All(f) = {Row(f.table, r) : r \in KeptRows(f.table)}
      BY <2>2 DEF ScanRows
    <3>2. KeptRows(f.table) \subseteq DOMAIN tables[f.table]
      BY VisitedRows DEF KeptRows
    <3>3. ~Backwards(query.where) =>
             \A r \in DOMAIN tables[f.table] :
                Keeps(query.where, Row(f.table, r)) => r \in KeptRows(f.table)
      <4>1. PICK u : u = f.table
        OBVIOUS
      <4> QED
        BY <4>1, ForwardScan
    <3> QED
      BY <2>3, <3>1, <3>2, <3>3 DEF Kept
  <2> QED
    BY <2>4, <2>5
<1>2. ASSUME NEW f \in FromClauses, ~IsTable(f), f.left \in S, f.right \in S PROVE f \in S
  <2> SUFFICES ASSUME f.columns \subseteq query.from.columns, NoOuterIn(f)
               PROVE  SameWithout(f) /\ SameKept(f)
    OBVIOUS
  <2> DEFINE L == LeftPlan(f)
             R == RightPlan(f)
  <2>1. /\ SameWithout(L) /\ SameKept(L) /\ SameWithout(R) /\ SameKept(R)
        /\ f.columns = L.columns \cup R.columns /\ L.columns \cap R.columns = {}
        /\ L \in FromClauses /\ R \in FromClauses
    BY <1>2, PlansAreParts, PlanShape, NoOuterParts
  <2>2. All(f) = LoopRows(f, All(L), All(R))
    BY <1>2, RowsIs DEF All
  <2>3. /\ Joined(f) = LoopRows(f, Joined(L), Joined(R))
        /\ Joined(L) \in SUBSET Tuples(L.columns) /\ Joined(R) \in SUBSET Tuples(R.columns)
    BY <1>2, JoinedIsLoopRows
  <2>4. All(L) \in SUBSET Tuples(L.columns) /\ All(R) \in SUBSET Tuples(R.columns)
    BY <2>1, RowsType DEF All
  <2> HIDE DEF L, R
  <2>5. SameWithout(f)
    <3> SUFFICES ASSUME \A u \in f.columns : ~UsesIndex(u, indexed) PROVE All(f) = Joined(f)
      BY DEF SameWithout
    <3>1. All(L) = Joined(L) /\ All(R) = Joined(R)
      BY <2>1 DEF SameWithout
    <3> QED
      BY <2>2, <2>3, <3>1
  <2>6. ASSUME NEW u \in f.columns, UsesIndex(u, indexed)
        PROVE  /\ Kept(All(f)) \subseteq Joined(f)
               /\ ~Backwards(query.where) => Kept(Joined(f)) \subseteq All(f)
    <3>1. WhereIs(u) /\ \A v : UsesIndex(v, indexed) => v = u
      BY <2>6, IndexedWhere
    <3>2. CASE u \in L.columns
      <4>1. Kept(All(L)) \subseteq Joined(L) /\ (~Backwards(query.where) => Kept(Joined(L)) \subseteq All(L))
        BY <2>1, <2>6, <3>2 DEF SameKept
      <4>2. All(R) = Joined(R)
        BY <2>1, <3>1, <3>2 DEF SameWithout
      <4>3. Kept(All(f)) \subseteq Joined(f)
        BY <1>2, <2>2, <2>3, <2>4, <3>1, <3>2, <4>1, <4>2, KeptLoops DEF L, R
      <4>4. ~Backwards(query.where) => Kept(Joined(f)) \subseteq All(f)
        BY <1>2, <2>2, <2>3, <2>4, <3>1, <3>2, <4>1, <4>2, KeptLoops DEF L, R
      <4> QED
        BY <4>3, <4>4
    <3>3. CASE u \in R.columns
      <4>1. Kept(All(R)) \subseteq Joined(R) /\ (~Backwards(query.where) => Kept(Joined(R)) \subseteq All(R))
        BY <2>1, <2>6, <3>3 DEF SameKept
      <4>2. All(L) = Joined(L)
        BY <2>1, <3>1, <3>3 DEF SameWithout
      <4>3. Kept(All(f)) \subseteq Joined(f)
        BY <1>2, <2>2, <2>3, <2>4, <3>1, <3>3, <4>1, <4>2, KeptLoops DEF L, R
      <4>4. ~Backwards(query.where) => Kept(Joined(f)) \subseteq All(f)
        <5> SUFFICES ASSUME ~Backwards(query.where)
                     PROVE  Kept(LoopRows(f, Joined(L), Joined(R))) \subseteq LoopRows(f, All(L), All(R))
          BY <2>2, <2>3
        <5>1. Joined(L) = All(L) /\ Kept(Joined(R)) \subseteq All(R)
          BY <4>1, <4>2
        <5> QED
          BY <1>2, <2>3, <3>1, <3>3, <5>1, KeptLoops DEF L, R
      <4> QED
        BY <4>3, <4>4
    <3> QED
      BY <2>1, <3>2, <3>3
  <2> QED
    BY <2>5, <2>6 DEF SameKept
<1> HIDE DEF S
<1>3. FromClauses \subseteq S
  BY <1>1, <1>2, FromInduction
<1> QED
  BY <1>3 DEF S

\* What the query's plan gives, after the WHERE clause, is what the query selects.
LEMMA KeptIsSelected ==
    ASSUME World, NoFullOuter
    PROVE  /\ Kept(All(query.from)) \subseteq Selected
           /\ NoBackwardScan => Selected = Kept(All(query.from))
<1>1. query.from \in FromClauses /\ NoOuterIn(query.from)
  BY WorldIs DEF NoFullOuter, Methods, NoOuterIn
<1>2. SameWithout(query.from) /\ SameKept(query.from)
  BY <1>1, PlanIsFrom
<1>3. Selected = Kept(Joined(query.from))
  BY DEF Selected, Kept
<1>4. CASE \A u \in query.from.columns : ~UsesIndex(u, indexed)
  BY <1>2, <1>3, <1>4 DEF SameWithout, Kept
<1>5. CASE \E u \in query.from.columns : UsesIndex(u, indexed)
  <2>1. PICK u \in query.from.columns : UsesIndex(u, indexed)
    BY <1>5
  <2>2. NoBackwardScan => ~Backwards(query.where)
    BY <2>1, IndexedWhere DEF NoBackwardScan, WhereIs
  <2> QED
    BY <1>2, <1>3, <2>1, <2>2 DEF SameKept, Kept
<1> QED
  BY <1>4, <1>5

-----------------------------------------------------------------------------
\* The theorems.
IInv == TypeInv /\ ControlInv /\ Accounted /\ SortInv

LEMMA Inductive ==
    Spec => []IInv
<1>1. Init => IInv
  BY TypeStarts, ControlStarts, AccountedStarts, SortInvStarts DEF IInv
<1>2. IInv /\ [Next]_vars => IInv'
  <2> SUFFICES ASSUME IInv, [Next]_vars PROVE IInv'
    OBVIOUS
  <2>1. CASE Next
    BY <2>1, TypeStep, ControlStep, AccountedStep, SortInvStep DEF IInv
  <2>2. CASE UNCHANGED vars
    <3>1. ControlInv'
      <4>1. UNCHANGED <<input, loops>> /\ step' = step
        BY <2>2 DEF vars
      <4> QED
        BY <4>1, ControlFrame DEF IInv
    <3> QED
      BY <2>2, <3>1, TypeUnchanged, AccountedUnchanged, SortInvUnchanged DEF IInv
  <2> QED
    BY <2>1, <2>2
<1> QED
  BY <1>1, <1>2, PTL DEF Spec

\* The tuples that a query returns have the columns of its FROM clause, and say of each which
\* row of its table it came from, if any.
THEOREM TypeCorrect == Spec => []TypeOK
<1>1. IInv => TypeOK
  <2> SUFFICES ASSUME TypeInv PROVE TypeOK
    BY DEF IInv
  <2>1. \A i \in DOMAIN out : out[i] \in Tuples(query.from.columns)
    BY DEF TypeInv
  <2>2. \A c \in query.from.columns : Len(tables[c]) \in Nat
    BY WorldIs DEF TypeInv
  <2> QED
    BY <2>1, <2>2 DEF TypeOK, Tuples, TypeInv
<1> QED
  BY <1>1, Inductive, PTL

\* However the joins are nested, each tuple that a query returns is one that its FROM and WHERE
\* clauses stand for, and none is returned twice.
THEOREM Sound == Spec => []ResultsSound
<1>1. IInv => ResultsSound
  <2> SUFFICES ASSUME IInv, NoFullOuter
               PROVE  /\ \A i \in DOMAIN out : out[i] \in Selected
                      /\ \A i, j \in DOMAIN out : i # j => out[i] # out[j]
    BY DEF ResultsSound
  <2>1. PICK D : Account(D)
    BY DEF IInv, Accounted
  <2>2. ToSet(out) \subseteq Kept(All(query.from)) /\ IsInjective(out)
    BY <2>1 DEF Account
  <2>3. Kept(All(query.from)) \subseteq Selected
    BY KeptIsSelected DEF IInv, TypeInv
  <2> QED
    BY <2>2, <2>3 DEF ToSet, IsInjective
<1> QED
  BY <1>1, Inductive, PTL

\* A query that comes to its end has returned all of them, unless an index scan goes backwards.
THEOREM Complete == Spec => []ResultsComplete
<1>1. IInv => ResultsComplete
  <2> SUFFICES ASSUME IInv, status = "done", NoFullOuter, NoBackwardScan
               PROVE  Selected \subseteq ToSet(out)
    BY DEF ResultsComplete
  <2>1. PICK D : Account(D)
    BY DEF IInv, Accounted
  <2>2. step = Return(ResultNode, NoTuple) /\ Pending(D) = {}
    BY <2>1 DEF Account
  <2>3. Flight(ResultNode) = {}
    BY <2>2, StepsAre DEF Flight
  <2>4. ToSet(out) = Kept(All(query.from))
    BY <2>1, <2>2, <2>3 DEF Account, Kept
  <2> QED
    BY <2>4, KeptIsSelected DEF IInv, TypeInv
<1> QED
  BY <1>1, Inductive, PTL

\* The tuples come in the order of the sort column.
THEOREM Ordered == Spec => []SortedOutput
<1>1. IInv => SortedOutput
  BY DEF IInv, SortInv, SortedOutput, NotAfter
<1> QED
  BY <1>1, Inductive, PTL
=============================================================================
