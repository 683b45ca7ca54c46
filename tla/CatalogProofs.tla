---------------------------- MODULE CatalogProofs ----------------------------
(***************************************************************************)
(* What Catalog's run checks on an instance, for every set of tables, all  *)
(* sizes of rows and pages and every bound, up to the row that overwrites  *)
(* a page: the rows of reltabledef number the tables, every index of the   *)
(* index catalog has its own row and names its parent, and a table whose   *)
(* CreateTable() returned opens its own file.  The names need not even be  *)
(* different from each other.                                              *)
(*                                                                         *)
(* The invariant relates three copies of the same list, the pages of       *)
(* reltabledef, TableDefs, and what the statement that runs has still to   *)
(* do, because a step reads one of them and writes another.                *)
(***************************************************************************)
EXTENDS Catalog, SequenceLemmas

\* The rows of reltabledef.
RowSet == [name : Names, index : Nat]
Pages == [items : Seq([item : RowSet, dead : BOOLEAN]), span : Int]
Rows == Scan(relRows)
NamesOf(s) == {s[i].name : i \in DOMAIN s}

\* The steps of the statements, and which step may follow which: a file is
\* created, gets its first page, and then its row; an index has its own row
\* before the index catalog names it.
Steps ==
    [op : {"create", "firstPage", "tableRow", "insert", "meta"}, name : Names]
    \cup {[op |-> o, name |-> IndexName[t], of |-> t] : o \in {"indexRow", "fill"}, t \in Tables}

Link(a, b) ==
    /\ a.op = "create" <=> b.op = "firstPage"
    /\ a.op = "firstPage" <=> b.op = "tableRow"
    /\ a.op \in {"create", "firstPage"} => a.name = b.name
    /\ b.op = "indexRow" => a.op = "tableRow" /\ a.name = b.name
    /\ b.op = "meta" => a.op = "indexRow" /\ a.name = b.name
    /\ b.op = "insert" => a.op \in {"tableRow", "insert"} /\ a.name = b.name
    /\ b.op = "fill" => a.op = "meta" /\ a.name = b.name

WellFormed(s) ==
    /\ s \in Seq(Steps)
    /\ \A i \in 1 .. Len(s) - 1 : Link(s[i], s[i + 1])
    /\ \A i \in DOMAIN s : i = Len(s) => s[i].op \notin {"create", "firstPage"}

\* The table is in TableDefs, its row not in reltabledef yet.
RowPending == todo # <<>> /\ Head(todo).op \in {"firstPage", "tableRow"}

StateOK ==
    /\ files \in [Names -> [kind : FileKinds, rows : Nat]]
    /\ relRows \in Seq(Pages)
    /\ indexRows \in Seq([parent : Nat, table : Nat])
    /\ tableDefs \in Seq(RowSet)
    /\ indexDefs \in Seq([parent : Nat, table : Nat])
    /\ up \in BOOLEAN /\ backfilled \in BOOLEAN
    /\ WellFormed(todo)

\* What is on disk, the process up or not.
DiskOK ==
    /\ EachRowOnce
    /\ made = NamesOf(Rows)
    /\ \A n \in NamesOf(Rows) : files[n].kind \in {"heap", "index"}
    /\ files[RelTableDef].kind \in {"none", "blank"} => relRows = <<>>
    /\ ~backfilled => \A i \in DOMAIN Rows : Rows[i].index = i - 1

IndexesOK ==
    \A i \in DOMAIN indexRows :
        /\ \E r \in ToSet(Rows) :
              r.index = indexRows[i].table /\ r.name \in Range(IndexName)
        /\ ~Full(indexRows[i].table) =>
              \E t \in Tables : /\ Row(IndexName[t], indexRows[i].table) \in ToSet(Rows)
                                /\ Row(t, indexRows[i].parent) \in ToSet(Rows)

\* What the process knows of it.
TablesKnown ==
    /\ Len(tableDefs) = Len(Rows) + (IF RowPending THEN 1 ELSE 0)
    /\ ToSet(tableDefs) =
          ToSet(Rows) \cup (IF RowPending THEN {Row(Name, Len(Rows))} ELSE {})
    /\ ~backfilled => \A i \in DOMAIN tableDefs : tableDefs[i].index = i - 1
    /\ indexDefs = indexRows

StatementOK ==
    /\ RowPending =>
          /\ Name \notin NamesOf(Rows)
          /\ files[Name].kind = IF Head(todo).op = "firstPage" THEN "blank" ELSE "heap"
    /\ files[RelTableDef].kind \in {"none", "blank"} =>
          todo # <<>> /\ Name = RelTableDef /\ Head(todo).op \in {"create", "firstPage"}
    /\ todo # <<>> /\ Head(todo).op = "indexRow" => Row(Name, Len(Rows) - 1) \in ToSet(Rows)
    /\ \A i \in DOMAIN todo : todo[i].op = "indexRow" => todo[i].of \in NamesOf(Rows)

IInv ==
    /\ StateOK /\ DiskOK /\ IndexesOK
    /\ up => TablesKnown /\ StatementOK
    /\ ~up => tableDefs = <<>> /\ indexDefs = <<>> /\ todo = <<>>

-----------------------------------------------------------------------------
\* A step names a file that the module knows; the row of an index is for a table
\* with that index.
LEMMA StepNames ==
    ASSUME NEW s \in Steps
    PROVE  /\ s.name \in Names
           /\ s.op \in {"indexRow", "fill"} =>
                 s.of \in Tables /\ s.name = IndexName[s.of] /\ s.name \in Range(IndexName)
<1>1. \A x \in Tables : IndexName[x] \in Range(IndexName) /\ IndexName[x] \in Names
  BY NamesAssumption DEF Range, Names
<1>2. CASE s \in [op : {"create", "firstPage", "tableRow", "insert", "meta"}, name : Names]
  BY <1>2
<1>3. CASE \E o \in {"indexRow", "fill"}, x \in Tables :
              s = [op |-> o, name |-> IndexName[x], of |-> x]
  BY <1>1, <1>3
<1> QED
  BY <1>2, <1>3 DEF Steps

\* After a step of a well-formed list the rest is well formed, and it begins with
\* a step that may follow.
LEMMA TailWellFormed ==
    ASSUME NEW s \in Seq(Steps), WellFormed(s), s # <<>>
    PROVE  /\ WellFormed(Tail(s)) /\ Head(s) \in Steps /\ Head(s) = s[1]
           /\ \A i \in DOMAIN Tail(s) : i + 1 \in DOMAIN s /\ Tail(s)[i] = s[i + 1]
           /\ Head(s).op \in {"create", "firstPage"} => Tail(s) # <<>>
           /\ Tail(s) # <<>> => Link(Head(s), Head(Tail(s)))
<1> DEFINE u == Tail(s)
<1>1. s \in Seq(Steps) /\ Len(s) \in Nat /\ Len(s) >= 1 /\ DOMAIN s = 1 .. Len(s)
  BY DEF WellFormed
<1>2. u \in Seq(Steps) /\ Len(u) = Len(s) - 1 /\ \A i \in 1 .. Len(s) - 1 : u[i] = s[i + 1]
  BY <1>1
<1>3. Head(s) = s[1] /\ s[1] \in Steps
  BY <1>1
<1> HIDE DEF u
<1>4. \A i \in 1 .. Len(u) - 1 : Link(u[i], u[i + 1])
  <2> SUFFICES ASSUME NEW i \in 1 .. Len(u) - 1 PROVE Link(u[i], u[i + 1])
    OBVIOUS
  <2>1. i + 1 \in 1 .. Len(s) - 1 /\ i \in 1 .. Len(s) - 1 /\ u[i] = s[i + 1]
    BY <1>1, <1>2
  <2>2. u[i + 1] = s[(i + 1) + 1]
    BY <1>2, <2>1
  <2>3. Link(s[i + 1], s[(i + 1) + 1])
    BY <2>1 DEF WellFormed
  <2> QED
    BY <2>1, <2>2, <2>3
<1>5. \A i \in DOMAIN u : i = Len(u) => u[i].op \notin {"create", "firstPage"}
  <2> SUFFICES ASSUME NEW i \in DOMAIN u, i = Len(u) PROVE u[i].op \notin {"create", "firstPage"}
    OBVIOUS
  <2>1. i + 1 = Len(s) /\ i + 1 \in DOMAIN s /\ u[i] = s[i + 1]
    BY <1>1, <1>2
  <2> QED
    BY <2>1 DEF WellFormed
<1>6. s[1].op \in {"create", "firstPage"} => u # <<>>
  <2> SUFFICES ASSUME s[1].op \in {"create", "firstPage"} PROVE u # <<>>
    OBVIOUS
  <2>1. 1 \in DOMAIN s /\ Len(s) # 1
    BY <1>1 DEF WellFormed
  <2>2. Len(u) >= 1
    BY <1>1, <1>2, <2>1
  <2> QED
    BY <2>2, EmptySeq
<1>7. u # <<>> => Link(s[1], Head(u))
  <2> SUFFICES ASSUME u # <<>> PROVE Link(s[1], Head(u))
    OBVIOUS
  <2>1. Head(u) = u[1] /\ 1 \in 1 .. Len(s) - 1 /\ u[1] = s[1 + 1]
    BY <1>1, <1>2
  <2> QED
    BY <2>1 DEF WellFormed
<1>8. \A i \in DOMAIN u : i + 1 \in DOMAIN s /\ u[i] = s[i + 1]
  BY <1>1, <1>2
<1>9. WellFormed(u)
  BY <1>2, <1>4, <1>5 DEF WellFormed
<1> QED
  BY <1>3, <1>6, <1>7, <1>8, <1>9 DEF u

\* The steps of a whole statement, which makes indexes on tables of T.
Statement(s, T) ==
    /\ WellFormed(s) /\ s # <<>>
    /\ s[1].op = "create"
    /\ \A i \in DOMAIN s : s[i].op = "indexRow" => s[i].of \in T

\* Steps that may follow the last step of a statement continue it.
LEMMA StatementGrows ==
    ASSUME NEW T, NEW s \in Seq(Steps), NEW u \in Seq(Steps), Statement(s, T), WellFormed(u), u # <<>>,
           Link(s[Len(s)], u[1]),
           \A i \in DOMAIN u : u[i].op = "indexRow" => u[i].of \in T
    PROVE  /\ Statement(s \o u, T)
           /\ (s \o u)[1] = s[1] /\ (s \o u)[Len(s \o u)] = u[Len(u)]
<1> DEFINE w == s \o u
           m == Len(s)
           n == Len(u)
<1>1. s \in Seq(Steps) /\ u \in Seq(Steps) /\ m \in Nat /\ n \in Nat /\ m >= 1 /\ n >= 1
      /\ DOMAIN s = 1 .. m /\ DOMAIN u = 1 .. n
  BY DEF WellFormed, Statement
<1>0. m \in Nat /\ n \in Nat /\ m >= 1 /\ n >= 1
  BY <1>1
<1>2. /\ w \in Seq(Steps) /\ Len(w) = m + n /\ DOMAIN w = 1 .. m + n
      /\ \A i \in 1 .. m : w[i] = s[i]
      /\ \A i \in m + 1 .. m + n : w[i] = u[i - m]
  BY <1>1
<1> HIDE DEF w, m, n
<1>3. w[1] = s[1] /\ w[m + n] = u[n] /\ w # <<>>
  BY <1>1, <1>2
<1>4. \A i \in 1 .. Len(w) - 1 : Link(w[i], w[i + 1])
  <2> SUFFICES ASSUME NEW i \in 1 .. (m + n) - 1 PROVE Link(w[i], w[i + 1])
    BY <1>1, <1>2
  <2>0. i \in Nat /\ i >= 1 /\ i + 1 <= m + n
    BY <1>0
  <2>1. CASE i < m
    <3>1. i \in 1 .. m - 1 /\ w[i] = s[i] /\ w[i + 1] = s[i + 1]
      BY <1>1, <1>2, <2>1
    <3> QED
      BY <3>1 DEF Statement, WellFormed, m
  <2>2. CASE i = m
    <3>1. w[i] = s[m] /\ w[i + 1] = u[1]
      BY <1>1, <1>2, <2>2
    <3> QED
      BY <3>1 DEF m
  <2>3. CASE i > m
    <3>1. /\ i \in m + 1 .. m + n /\ i + 1 \in m + 1 .. m + n /\ i - m \in 1 .. n - 1
          /\ (i + 1) - m = (i - m) + 1
      BY <1>0, <2>0, <2>3
    <3>2. w[i] = u[i - m] /\ w[i + 1] = u[(i + 1) - m]
      BY <1>0, <1>2, <2>0, <3>1
    <3>3. Link(u[i - m], u[(i - m) + 1])
      BY <3>1 DEF WellFormed, n
    <3> QED
      BY <3>1, <3>2, <3>3
  <2> QED
    BY <1>0, <2>0, <2>1, <2>2, <2>3
<1>5. \A i \in DOMAIN w : i = Len(w) => w[i].op \notin {"create", "firstPage"}
  <2>1. u[n].op \notin {"create", "firstPage"}
    BY <1>1 DEF WellFormed
  <2> QED
    BY <1>2, <1>3, <2>1
<1>6. \A i \in DOMAIN w : w[i].op = "indexRow" => w[i].of \in T
  <2> SUFFICES ASSUME NEW i \in 1 .. m + n, w[i].op = "indexRow" PROVE w[i].of \in T
    BY <1>2
  <2>1. CASE i <= m
    BY <1>1, <1>2, <2>1 DEF Statement
  <2>2. CASE i > m
    <3>1. i - m \in 1 .. n /\ i \in m + 1 .. m + n
      BY <1>0, <2>2
    <3>2. i - m \in DOMAIN u /\ w[i] = u[i - m]
      BY <1>1, <1>2, <3>1
    <3> QED
      BY <3>2
  <2> QED
    BY <1>1, <2>1, <2>2
<1> QED
  BY <1>1, <1>2, <1>3, <1>4, <1>5, <1>6, SMTT(30), ZenonT(30) DEF Statement, WellFormed, w

\* CreateTable is a statement.
LEMMA CreateTableIs ==
    ASSUME NEW n \in Names, NEW T
    PROVE  /\ Statement(CreateTableSteps(n), T)
           /\ CreateTableSteps(n)[1].name = n
           /\ CreateTableSteps(n)[Len(CreateTableSteps(n))].op = "tableRow"
           /\ CreateTableSteps(n)[Len(CreateTableSteps(n))].name = n
<1> DEFINE s == CreateTableSteps(n)
<1>1. /\ Len(s) = 3 /\ DOMAIN s = 1 .. 3
      /\ s[1] = [op |-> "create", name |-> n]
      /\ s[2] = [op |-> "firstPage", name |-> n]
      /\ s[3] = [op |-> "tableRow", name |-> n]
  BY DEF CreateTableSteps
<1>2. s \in Seq(Steps)
  BY DEF CreateTableSteps, Steps
<1> HIDE DEF s
<1>3. \A i \in 1 .. 2 : i = 1 \/ i = 2
  OBVIOUS
<1>4. Link(s[1], s[1 + 1]) /\ Link(s[2], s[2 + 1])
  BY <1>1 DEF Link
<1>5. \A i \in DOMAIN s : i = 1 \/ i = 2 \/ i = 3
  BY <1>1
<1>6. \A i \in DOMAIN s : i = 3 => s[i].op \notin {"create", "firstPage"}
  BY <1>1
<1>7. \A i \in DOMAIN s : s[i].op # "indexRow"
  BY <1>1, <1>5
<1>8. WellFormed(s)
  BY <1>1, <1>2, <1>3, <1>4, <1>6 DEF WellFormed
<1>9. s # <<>> /\ s[1].op = "create" /\ s[1].name = n
  BY <1>1
<1> QED
  BY <1>1, <1>7, <1>8, <1>9 DEF Statement, s

\* One statement after another.
LEMMA StatementsInARow ==
    ASSUME NEW T, NEW s \in Seq(Steps), NEW u \in Seq(Steps), Statement(s, T), Statement(u, T),
           s[Len(s)].op \in {"tableRow", "insert"}
    PROVE  /\ Statement(s \o u, T)
           /\ (s \o u)[1] = s[1] /\ (s \o u)[Len(s \o u)] = u[Len(u)]
<1>1. Link(s[Len(s)], u[1])
  BY DEF Link, Statement
<1> QED
  BY <1>1, StatementGrows, ZenonT(30) DEF Statement

\* The table of InitSystemTables with its two rows is a statement.
LEMMA DefaultTableIs ==
    ASSUME NEW n \in Names, NEW T
    PROVE  /\ Statement(DefaultTableSteps(n), T)
           /\ DefaultTableSteps(n)[1].name = n
           /\ DefaultTableSteps(n)[Len(DefaultTableSteps(n))].op = "insert"
<1> DEFINE s == CreateTableSteps(n)
           u == << [op |-> "insert", name |-> n], [op |-> "insert", name |-> n] >>
<1>1. Statement(s, T) /\ s[1].name = n /\ s[Len(s)].op = "tableRow" /\ s[Len(s)].name = n
  BY CreateTableIs
<1>2. u \in Seq(Steps) /\ Len(u) = 2 /\ \A i \in DOMAIN u : u[i].op = "insert" /\ u[i].name = n
  BY DEF Steps
<1>3. DOMAIN u = 1 .. 2 /\ u # <<>>
  OBVIOUS
<1> HIDE DEF u, s
<1>4. u[1].op = "insert" /\ u[2].op = "insert" /\ u[1].name = n /\ u[2].name = n
  BY <1>2, <1>3
<1>5. Link(u[1], u[1 + 1])
  BY <1>4 DEF Link
<1>6. WellFormed(u)
  <2>1. \A i \in 1 .. 1 : i = 1
    OBVIOUS
  <2>2. \A i \in 1 .. Len(u) - 1 : Link(u[i], u[i + 1])
    BY <1>2, <1>5, <2>1
  <2> QED
    BY <1>2, <2>2 DEF WellFormed
<1>7. Link(s[Len(s)], u[1])
  BY <1>1, <1>4 DEF Link
<1>8. s \in Seq(Steps)
  BY <1>1 DEF Statement, WellFormed
<1>9. Statement(s \o u, T) /\ (s \o u)[1] = s[1] /\ (s \o u)[Len(s \o u)] = u[Len(u)]
  BY <1>1, <1>2, <1>3, <1>6, <1>7, <1>8, StatementGrows
<1> QED
  BY <1>1, <1>2, <1>4, <1>9 DEF DefaultTableSteps, s, u

\* InitSystemTables without a file makes the catalog of tables first.
LEMMA BootstrapIs ==
    ASSUME NEW T
    PROVE  Statement(BootstrapSteps, T) /\ BootstrapSteps[1].name = RelTableDef
<1> DEFINE r == CreateTableSteps(RelTableDef)
           i == CreateTableSteps(IndexTableDef)
           f == DefaultTableSteps(Foo)
           b == DefaultTableSteps(B)
<1>1. RelTableDef \in Names /\ IndexTableDef \in Names /\ Foo \in Names /\ B \in Names
  BY DEF Names, Tables
<1>2. /\ Statement(r, T) /\ r[1].name = RelTableDef /\ r[Len(r)].op = "tableRow"
      /\ Statement(i, T) /\ i[Len(i)].op = "tableRow"
  <2>1. Statement(r, T) /\ r[1].name = RelTableDef /\ r[Len(r)].op = "tableRow"
    BY <1>1, CreateTableIs
  <2>2. Statement(i, T) /\ i[Len(i)].op = "tableRow"
    BY <1>1, CreateTableIs
  <2> QED
    BY <2>1, <2>2
<1>3. Statement(f, T) /\ f[Len(f)].op = "insert" /\ Statement(b, T)
  BY <1>1, DefaultTableIs
<1> HIDE DEF r, i, f, b
<1>4. r \in Seq(Steps) /\ i \in Seq(Steps) /\ f \in Seq(Steps) /\ b \in Seq(Steps)
  BY <1>2, <1>3 DEF Statement, WellFormed
<1>5. Statement(r \o i, T) /\ (r \o i)[1] = r[1] /\ (r \o i)[Len(r \o i)] = i[Len(i)]
  BY <1>2, <1>4, StatementsInARow
<1> DEFINE ri == r \o i
<1> HIDE DEF ri
<1>6. Statement(ri, T) /\ ri[1] = r[1] /\ ri[Len(ri)] = i[Len(i)] /\ ri \in Seq(Steps)
  BY <1>5 DEF ri, Statement, WellFormed
<1>7. Statement(ri \o f, T) /\ (ri \o f)[1] = ri[1] /\ (ri \o f)[Len(ri \o f)] = f[Len(f)]
  BY <1>2, <1>3, <1>4, <1>6, StatementsInARow, SMTT(30), ZenonT(30)
<1> DEFINE rif == ri \o f
<1> HIDE DEF rif
<1>8. Statement(rif, T) /\ rif[1] = ri[1] /\ rif[Len(rif)] = f[Len(f)] /\ rif \in Seq(Steps)
  BY <1>7 DEF rif, Statement, WellFormed
<1>9. Statement(rif \o b, T) /\ (rif \o b)[1] = rif[1]
  <2>1. rif[Len(rif)].op \in {"tableRow", "insert"}
    BY <1>3, <1>8
  <2> QED
    BY <1>3, <1>4, <1>8, <2>1, StatementsInARow
<1>10. BootstrapSteps = rif \o b
  BY DEF BootstrapSteps, rif, ri, r, i, f, b
<1> QED
  BY <1>2, <1>6, <1>8, <1>9, <1>10

\* CREATE INDEX is a statement; the only index it makes is on its table.
LEMMA CreateIndexIs ==
    ASSUME NEW t \in Tables
    PROVE  Statement(CreateIndexSteps(t), {t})
<1> DEFINE n == IndexName[t]
           s == CreateTableSteps(n)
           u == << [op |-> "indexRow", name |-> n, of |-> t],
                   [op |-> "meta", name |-> n],
                   [op |-> "fill", name |-> n, of |-> t] >>
<1>1. n \in Names
  BY NamesAssumption DEF Names, Range
<1>2. Statement(s, {t}) /\ s[Len(s)].op = "tableRow" /\ s[Len(s)].name = n
  BY <1>1, CreateTableIs
<1>3. /\ Len(u) = 3 /\ DOMAIN u = 1 .. 3 /\ u # <<>>
      /\ u[1] = [op |-> "indexRow", name |-> n, of |-> t]
      /\ u[2] = [op |-> "meta", name |-> n]
      /\ u[3] = [op |-> "fill", name |-> n, of |-> t]
  OBVIOUS
<1>4. /\ [op |-> "indexRow", name |-> n, of |-> t] \in Steps
      /\ [op |-> "meta", name |-> n] \in Steps
      /\ [op |-> "fill", name |-> n, of |-> t] \in Steps
  BY <1>1 DEF Steps
<1>5. u \in Seq(Steps)
  BY <1>4
<1> HIDE DEF u, s, n
<1>6. Link(u[1], u[1 + 1]) /\ Link(u[2], u[2 + 1]) /\ Link(s[Len(s)], u[1])
  BY <1>2, <1>3 DEF Link
<1>7. WellFormed(u)
  <2>1. \A i \in 1 .. 2 : i = 1 \/ i = 2
    OBVIOUS
  <2>2. \A i \in 1 .. Len(u) - 1 : Link(u[i], u[i + 1])
    BY <1>3, <1>6, <2>1
  <2> QED
    BY <1>3, <1>5, <2>2 DEF WellFormed
<1>8. \A i \in DOMAIN u : u[i].op = "indexRow" => u[i].of \in {t}
  <2>1. \A i \in 1 .. 3 : i = 1 \/ i = 2 \/ i = 3
    OBVIOUS
  <2> QED
    BY <1>3, <2>1
<1>9. s \in Seq(Steps)
  BY <1>2 DEF Statement, WellFormed
<1>10. Statement(s \o u, {t})
  BY <1>2, <1>3, <1>5, <1>6, <1>7, <1>8, <1>9, StatementGrows
<1> QED
  BY <1>10 DEF CreateIndexSteps, s, u, n

-----------------------------------------------------------------------------
\* The items of each page of a file.
ItemsOf(pages) == [p \in DOMAIN pages |->
                      [l \in DOMAIN pages[p].items |-> pages[p].items[l].item]]

\* A page of reltabledef is read as a sequence of rows.
LEMMA ItemsType ==
    ASSUME NEW pages \in Seq(Pages)
    PROVE  /\ ItemsOf(pages) \in Seq(Seq(RowSet)) /\ Len(ItemsOf(pages)) = Len(pages)
           /\ Scan(pages) = FlattenSeq(ItemsOf(pages)) /\ Scan(pages) \in Seq(RowSet)
<1>1. \A p \in DOMAIN pages :
         [l \in DOMAIN pages[p].items |-> pages[p].items[l].item] \in Seq(RowSet)
  <2> SUFFICES ASSUME NEW p \in DOMAIN pages
               PROVE  [l \in DOMAIN pages[p].items |-> pages[p].items[l].item] \in Seq(RowSet)
    OBVIOUS
  <2>0. pages[p] \in Pages
    BY ElementOfSeq
  <2>1. pages[p].items \in Seq([item : RowSet, dead : BOOLEAN])
    BY <2>0 DEF Pages
  <2> DEFINE s == pages[p].items
  <2> HIDE DEF s
  <2>2. s \in Seq([item : RowSet, dead : BOOLEAN])
    BY <2>1 DEF s
  <2>3. Len(s) \in Nat /\ DOMAIN s = 1 .. Len(s)
    BY <2>2
  <2>4. \A l \in 1 .. Len(s) : s[l].item \in RowSet
    <3>1. \A l \in 1 .. Len(s) : s[l] \in [item : RowSet, dead : BOOLEAN]
      BY <2>2, ElementOfSeq
    <3> QED
      BY <3>1
  <2>5. [l \in 1 .. Len(s) |-> s[l].item] \in Seq(RowSet)
    BY <2>3, <2>4
  <2>6. [l \in DOMAIN s |-> s[l].item] \in Seq(RowSet)
    BY <2>3, <2>5
  <2> QED
    BY <2>6 DEF s
<1>2. DOMAIN pages = 1 .. Len(pages) /\ Len(pages) \in Nat
  OBVIOUS
<1>3. ItemsOf(pages) \in Seq(Seq(RowSet)) /\ Len(ItemsOf(pages)) = Len(pages)
  BY <1>1, <1>2 DEF ItemsOf
<1>4. Scan(pages) = FlattenSeq(ItemsOf(pages))
  BY DEF Scan, ItemsOf
<1> QED
  BY <1>3, <1>4, FlattenType

\* u is s with x inserted at position m.
Inserted(s, u, x, m) ==
    /\ u \in Seq(RowSet) /\ Len(u) = Len(s) + 1
    /\ m \in 1 .. Len(s) + 1 /\ u[m] = x
    /\ \A k \in 1 .. Len(s) : u[k] = s[k] \/ k >= m
    /\ \A k \in 1 .. Len(s) : u[k + 1] = s[k] \/ k < m

\* One element more between two sequences.
LEMMA InsertBetween ==
    ASSUME NEW a \in Seq(RowSet), NEW b \in Seq(RowSet), NEW x \in RowSet
    PROVE  Inserted(a \o b, a \o <<x>> \o b, x, Len(a) + 1)
<1> DEFINE s == a \o b
           c == a \o <<x>>
           u == c \o b
           i == Len(a)
           j == Len(b)
<1>1. i \in Nat /\ j \in Nat
  OBVIOUS
<1>2. s \in Seq(RowSet) /\ Len(s) = i + j
      /\ (\A k \in 1 .. i : s[k] = a[k]) /\ (\A k \in i + 1 .. i + j : s[k] = b[k - i])
  OBVIOUS
<1>3. c \in Seq(RowSet) /\ Len(c) = i + 1 /\ c[i + 1] = x /\ \A k \in 1 .. i : c[k] = a[k]
  OBVIOUS
<1> HIDE DEF c
<1>4. u \in Seq(RowSet) /\ Len(u) = (i + 1) + j
      /\ (\A k \in 1 .. i + 1 : u[k] = c[k])
      /\ (\A k \in (i + 1) + 1 .. (i + 1) + j : u[k] = b[k - (i + 1)])
  BY <1>1, <1>3
<1> HIDE DEF s, u, i, j
<1>5. u[i + 1] = x /\ \A k \in 1 .. i : u[k] = a[k]
  BY <1>1, <1>3, <1>4
<1>6. ASSUME NEW k \in 1 .. Len(s), k < i + 1
      PROVE  u[k] = s[k]
  <2>1. k \in 1 .. i
    BY <1>1, <1>2, <1>6
  <2> QED
    BY <1>2, <1>5, <2>1
<1>7. ASSUME NEW k \in 1 .. Len(s), k >= i + 1
      PROVE  u[k + 1] = s[k]
  <2>1. k \in i + 1 .. i + j /\ k + 1 \in (i + 1) + 1 .. (i + 1) + j /\ (k + 1) - (i + 1) = k - i
    BY <1>1, <1>2, <1>7
  <2> QED
    BY <1>2, <1>4, <2>1
<1>8. \A k \in 1 .. Len(s) : k < i + 1 \/ k >= i + 1
  BY <1>1, <1>2
<1>9. Len(u) = Len(s) + 1 /\ i + 1 \in 1 .. Len(s) + 1
  BY <1>1, <1>2, <1>4
<1>10. Inserted(s, u, x, i + 1)
  BY <1>4, <1>5, <1>6, <1>7, <1>8, <1>9 DEF Inserted
<1> QED
  BY <1>10 DEF s, u, c, i

\* The page on which CursorInsertTuple puts a row is one of the file's, or the
\* next one.
LEMMA FirstFitIs ==
    ASSUME NEW pages \in Seq(Pages), NEW size \in Int
    PROVE  FirstFit(pages, 1, size) \in 1 .. Len(pages) + 1
<1> DEFINE fits == {q \in 1 .. Len(pages) : Fits(pages[q], size)}
<1>1. Len(pages) \in Nat
  OBVIOUS
<1>2. CASE fits = {}
  BY <1>1, <1>2 DEF FirstFit
<1>3. CASE fits # {}
  <2>1. fits \subseteq Nat
    OBVIOUS
  <2>2. Min(fits) \in fits
    BY <1>3, <2>1, MinIs
  <2>3. FirstFit(pages, 1, size) = Min(fits)
    BY <1>3 DEF FirstFit
  <2> QED
    BY <1>1, <2>2, <2>3
<1> QED
  BY <1>2, <1>3

\* A row that goes to reltabledef is one more row of the scan, and it comes last
\* if it went to the last page or to a new one.
LEMMA ScanPut ==
    ASSUME NEW pages \in Seq(Pages), NEW x \in RowSet, NEW size \in Int,
           NEW p \in 1 .. Len(pages) + 1, PageSpan \in Int
    PROVE  /\ PutItem(pages, p, x, size, PageSpan) \in Seq(Pages)
           /\ PutItem(pages, p, x, size, PageSpan) # <<>>
           /\ \E m \in Nat :
                 /\ Inserted(Scan(pages), Scan(PutItem(pages, p, x, size, PageSpan)), x, m)
                 /\ p >= Len(pages) => m = Len(Scan(pages)) + 1
<1> DEFINE put == PutItem(pages, p, x, size, PageSpan)
           n == Len(pages)
           ss == ItemsOf(pages)
           tt == ItemsOf(put)
<1>1. n \in Nat /\ DOMAIN pages = 1 .. n /\ \A q \in 1 .. n : pages[q] \in Pages
  BY ElementOfSeq
<1>2. ss \in Seq(Seq(RowSet)) /\ Len(ss) = n /\ Scan(pages) = FlattenSeq(ss)
      /\ Scan(pages) \in Seq(RowSet)
  BY ItemsType
<1>3. LocSize \in Int
  BY DEF LocSize
<1>4. ASSUME NEW page \in Pages
      PROVE  /\ AddItem(page, x, size) \in Pages
             /\ AddItem(page, x, size).items = Append(page.items, Slot(x))
  <2>1. page.items \in Seq([item : RowSet, dead : BOOLEAN]) /\ page.span \in Int
    BY DEF Pages
  <2>2. Slot(x) \in [item : RowSet, dead : BOOLEAN]
    BY DEF Slot
  <2>3. Append(page.items, Slot(x)) \in Seq([item : RowSet, dead : BOOLEAN])
    BY <2>1, <2>2, AppendProperties
  <2> QED
    BY <1>3, <2>1, <2>3 DEF AddItem, Pages
<1>5. EmptyPage(PageSpan) \in Pages /\ EmptyPage(PageSpan).items = <<>>
  BY DEF EmptyPage, Pages
<1>6. CASE p <= n
  <2>1. p \in 1 .. n /\ pages[p] \in Pages
    BY <1>1, <1>6
  <2>2. put = [pages EXCEPT ![p] = AddItem(pages[p], x, size)]
    BY <1>6 DEF PutItem
  <2>3. put \in Seq(Pages) /\ Len(put) = n
    BY <1>1, <1>4, <2>1, <2>2, ExceptSeq
  <2>4. /\ DOMAIN put = 1 .. n /\ put[p] = AddItem(pages[p], x, size)
        /\ \A q \in 1 .. n : q # p => put[q] = pages[q]
    BY <1>1, <2>1, <2>2
  <2> HIDE DEF put
  <2>5. tt \in Seq(Seq(RowSet)) /\ Len(tt) = n /\ Scan(put) = FlattenSeq(tt)
        /\ Scan(put) \in Seq(RowSet)
    BY <2>3, ItemsType
  <2>6. tt[p] = Append(ss[p], x)
    <3> DEFINE s == pages[p].items
    <3>1. s \in Seq([item : RowSet, dead : BOOLEAN])
      BY <2>1 DEF Pages
    <3>2. put[p].items = Append(s, Slot(x))
      BY <1>4, <2>1, <2>4
    <3> HIDE DEF s
    <3>3. ss[p] = [l \in DOMAIN s |-> s[l].item]
      BY <1>1, <2>1 DEF ItemsOf, s
    <3>4. tt[p] = [l \in DOMAIN Append(s, Slot(x)) |-> Append(s, Slot(x))[l].item]
      BY <2>1, <2>4, <3>2 DEF ItemsOf
    <3>5. Slot(x).item = x
      BY DEF Slot
    <3>6. [l \in DOMAIN Append(s, Slot(x)) |-> Append(s, Slot(x))[l].item] =
              Append([l \in DOMAIN s |-> s[l].item], x)
      BY <3>1, <3>5
    <3> QED
      BY <3>3, <3>4, <3>6
  <2>7. \A q \in 1 .. n : q # p => tt[q] = ss[q]
    BY <1>1, <2>4 DEF ItemsOf
  <2> HIDE DEF ss, tt, n
  <2>8. PICK a \in Seq(RowSet), b \in Seq(RowSet) :
              /\ FlattenSeq(ss) = a \o b
              /\ FlattenSeq(tt) = a \o <<x>> \o b
              /\ p = Len(ss) => b = <<>>
    <3>1. Len(ss) <= Len(tt) /\ Len(ss) = n /\ n \in Nat
      BY <1>1, <1>2, <2>5
    <3>2. PutSplits(ss, tt, RowSet)
      BY <1>2, <2>5, <3>1, FlattenPut, Zenon
    <3>3. p \in 1 .. Len(ss) /\ Len(tt) = Len(ss)
      BY <1>2, <2>1, <2>5
    <3>4. \A i \in 1 .. Len(ss) : i # p => tt[i] = ss[i]
      BY <2>7, <3>1
    <3>5. x \in RowSet
      OBVIOUS
    <3> QED
      BY <2>6, <3>2, <3>3, <3>4, <3>5, Zenon DEF PutSplits
  <2>9. Inserted(Scan(pages), Scan(put), x, Len(a) + 1) /\ Len(a) + 1 \in Nat
    BY <1>2, <2>5, <2>8, InsertBetween
  <2>10. p >= n => Len(a) + 1 = Len(Scan(pages)) + 1
    <3> SUFFICES ASSUME p >= n PROVE Len(a) = Len(a \o b)
      BY <1>2, <2>8
    <3>1. b = <<>>
      BY <1>1, <1>2, <1>6, <2>8
    <3> QED
      BY <3>1, ConcatEmptySeq
  <2>11. put # <<>>
    BY <1>1, <2>1, <2>3
  <2> QED
    BY <2>3, <2>9, <2>10, <2>11 DEF put, n
<1>7. CASE p > n
  <2> DEFINE new == AddItem(EmptyPage(PageSpan), x, size)
  <2>1. new \in Pages /\ new.items = Append(<<>>, Slot(x))
    BY <1>4, <1>5
  <2>2. put = Append(pages, new)
    <3>1. ~(p <= Len(pages))
      BY <1>1, <1>7
    <3> QED
      BY <3>1, Zenon DEF PutItem
  <2>3. put \in Seq(Pages) /\ Len(put) = n + 1 /\ put[n + 1] = new
        /\ \A q \in 1 .. n : put[q] = pages[q]
    BY <1>1, <2>1, <2>2, AppendProperties
  <2> HIDE DEF put, new
  <2>4. tt = Append(ss, <<x>>)
    <3>1. <<x>> \in Seq(RowSet) /\ DOMAIN put = 1 .. n + 1 /\ DOMAIN tt = 1 .. n + 1
      BY <1>1, <2>3 DEF ItemsOf
    <3>2. \A q \in 1 .. n : tt[q] = ss[q]
      BY <1>1, <2>3, <3>1, SMTT(30), ZenonT(30) DEF ItemsOf
    <3>3. tt[n + 1] = <<x>>
      <4>1. new.items = <<Slot(x)>> /\ Slot(x).item = x
        BY <2>1 DEF Slot
      <4>2. tt[n + 1] = [l \in DOMAIN new.items |-> new.items[l].item]
        <5>1. n + 1 \in DOMAIN put
          BY <1>1, <3>1
        <5> QED
          BY <2>3, <5>1 DEF ItemsOf
      <4>3. [l \in DOMAIN <<Slot(x)>> |-> <<Slot(x)>>[l].item] = <<x>>
        BY <4>1
      <4> QED
        BY <4>1, <4>2, <4>3
    <3>4. tt \in Seq(Seq(RowSet)) /\ Len(tt) = n + 1
      BY <2>3, ItemsType
    <3> QED
      BY <1>1, <1>2, <3>1, <3>2, <3>3, <3>4
  <2>5. Scan(put) = FlattenSeq(tt)
    BY <2>3, ItemsType
  <2> HIDE DEF ss, tt
  <2>6. <<x>> \in Seq(RowSet)
    OBVIOUS
  <2>7. Scan(put) = Scan(pages) \o <<x>>
    BY <1>2, <2>4, <2>5, <2>6, FlattenAppend
  <2> DEFINE s == Scan(pages)
  <2> HIDE DEF s
  <2>8. s \in Seq(RowSet) /\ <<>> \in Seq(RowSet)
    BY <1>2 DEF s
  <2>9. Inserted(s \o <<>>, s \o <<x>> \o <<>>, x, Len(s) + 1)
    BY <2>8, InsertBetween
  <2>10. s \o <<>> = s /\ s \o <<x>> \o <<>> = s \o <<x>> /\ Len(s) + 1 \in Nat
    BY <2>6, <2>8, ConcatEmptySeq, ConcatProperties
  <2>11. Inserted(Scan(pages), Scan(put), x, Len(s) + 1)
    BY <2>7, <2>9, <2>10 DEF s
  <2>12. put # <<>>
    BY <1>1, <2>3
  <2> QED
    BY <2>3, <2>10, <2>11, <2>12 DEF put, s
<1> QED
  BY <1>1, <1>6, <1>7

\* Rows with different names, rows in the order of their indexes, and their indexes.
Distinct(s) == \A i, j \in DOMAIN s : i # j => s[i].name # s[j].name
Numbered(s) == \A i \in DOMAIN s : s[i].index = i - 1
IndexesOf(s) == {s[i].index : i \in DOMAIN s}

\* What one more row does to the rows, wherever it is.
LEMMA InsertedIs ==
    ASSUME NEW s \in Seq(RowSet), NEW u, NEW x \in RowSet, NEW m \in Nat, Inserted(s, u, x, m)
    PROVE  /\ u \in Seq(RowSet) /\ Len(u) = Len(s) + 1
           /\ ToSet(u) = ToSet(s) \cup {x}
           /\ NamesOf(u) = NamesOf(s) \cup {x.name}
           /\ IndexesOf(u) = IndexesOf(s) \cup {x.index}
           /\ Distinct(s) /\ x.name \notin NamesOf(s) => Distinct(u)
           /\ m = Len(s) + 1 /\ Numbered(s) /\ x.index = Len(s) => Numbered(u)
<1> DEFINE n == Len(s)
<1>1. n \in Nat /\ DOMAIN s = 1 .. n /\ u \in Seq(RowSet) /\ Len(u) = n + 1
      /\ DOMAIN u = 1 .. n + 1 /\ m \in 1 .. n + 1 /\ u[m] = x
  BY DEF Inserted
<1>2. \A k \in 1 .. n : k < m => u[k] = s[k]
  BY <1>1 DEF Inserted
<1>3. \A k \in 1 .. n : k >= m => u[k + 1] = s[k]
  BY <1>1 DEF Inserted
<1>4. \A k \in 1 .. n : \E i \in 1 .. n + 1 : u[i] = s[k] /\ i # m
  <2> SUFFICES ASSUME NEW k \in 1 .. n PROVE \E i \in 1 .. n + 1 : u[i] = s[k] /\ i # m
    OBVIOUS
  <2>1. k \in 1 .. n + 1 /\ k + 1 \in 1 .. n + 1 /\ (k < m \/ k >= m)
    BY <1>1
  <2> QED
    BY <1>1, <1>2, <1>3, <2>1
<1>5. \A i \in 1 .. n + 1 : i # m =>
         \E k \in 1 .. n : u[i] = s[k] /\ k = IF i < m THEN i ELSE i - 1
  <2> SUFFICES ASSUME NEW i \in 1 .. n + 1, i # m
               PROVE  \E k \in 1 .. n : u[i] = s[k] /\ k = IF i < m THEN i ELSE i - 1
    OBVIOUS
  <2>1. CASE i < m
    <3>1. i \in 1 .. n
      BY <1>1, <2>1
    <3> QED
      BY <1>2, <2>1, <3>1
  <2>2. CASE i > m
    <3>1. i - 1 \in 1 .. n /\ i - 1 >= m /\ (i - 1) + 1 = i /\ ~(i < m)
      BY <1>1, <2>2
    <3>2. u[i] = s[i - 1]
      BY <1>3, <3>1
    <3> QED
      BY <3>1, <3>2
  <2> QED
    BY <1>1, <2>1, <2>2
<1> HIDE DEF n
<1>6. ToSet(u) = ToSet(s) \cup {x}
  <2>1. ToSet(s) \cup {x} \subseteq ToSet(u)
    BY <1>1, <1>4 DEF ToSet
  <2>2. ToSet(u) \subseteq ToSet(s) \cup {x}
    BY <1>1, <1>5 DEF ToSet
  <2> QED
    BY <2>1, <2>2
<1>7. NamesOf(u) = NamesOf(s) \cup {x.name}
  <2>1. NamesOf(s) \cup {x.name} \subseteq NamesOf(u)
    BY <1>1, <1>4 DEF NamesOf
  <2>2. NamesOf(u) \subseteq NamesOf(s) \cup {x.name}
    BY <1>1, <1>5 DEF NamesOf
  <2> QED
    BY <2>1, <2>2
<1>8. IndexesOf(u) = IndexesOf(s) \cup {x.index}
  <2>1. IndexesOf(s) \cup {x.index} \subseteq IndexesOf(u)
    BY <1>1, <1>4 DEF IndexesOf
  <2>2. IndexesOf(u) \subseteq IndexesOf(s) \cup {x.index}
    BY <1>1, <1>5 DEF IndexesOf
  <2> QED
    BY <2>1, <2>2
<1>9. ASSUME Distinct(s), x.name \notin NamesOf(s)
      PROVE  Distinct(u)
  <2> SUFFICES ASSUME NEW i \in 1 .. n + 1, NEW j \in 1 .. n + 1, i # j
               PROVE  u[i].name # u[j].name
    BY <1>1 DEF Distinct
  <2>1. \A k \in 1 .. n : s[k].name # x.name
    BY <1>1, <1>9 DEF NamesOf
  <2>2. CASE i = m
    BY <1>1, <1>5, <2>1, <2>2
  <2>3. CASE j = m
    BY <1>1, <1>5, <2>1, <2>3
  <2>4. CASE i # m /\ j # m
    <3>1. PICK k \in 1 .. n : u[i] = s[k] /\ k = IF i < m THEN i ELSE i - 1
      BY <1>5, <2>4
    <3>2. PICK l \in 1 .. n : u[j] = s[l] /\ l = IF j < m THEN j ELSE j - 1
      BY <1>5, <2>4
    <3>3. k # l
      BY <1>1, <2>4, <3>1, <3>2
    <3> QED
      BY <1>1, <1>9, <3>1, <3>2, <3>3 DEF Distinct
  <2> QED
    BY <2>2, <2>3, <2>4
<1>10. ASSUME m = n + 1, Numbered(s), x.index = n
       PROVE  Numbered(u)
  <2> SUFFICES ASSUME NEW i \in 1 .. n + 1 PROVE u[i].index = i - 1
    BY <1>1 DEF Numbered
  <2>1. CASE i = m
    BY <1>1, <1>10, <2>1
  <2>2. CASE i # m
    <3>1. i \in 1 .. n /\ i < m
      BY <1>1, <1>10, <2>2
    <3> QED
      BY <1>1, <1>2, <1>10, <3>1 DEF Numbered
  <2> QED
    BY <2>1, <2>2
<1> QED
  BY <1>1, <1>6, <1>7, <1>8, <1>9, <1>10 DEF n

-----------------------------------------------------------------------------
\* A file of no page, and of one empty page, has no rows.
LEMMA NoRows ==
    ASSUME PageSpan \in Int
    PROVE  /\ Scan(<<>>) = <<>> /\ <<>> \in Seq(Pages)
           /\ Scan(<<EmptyPage(PageSpan)>>) = <<>>
           /\ <<EmptyPage(PageSpan)>> \in Seq(Pages)
<1>1. ItemsOf(<<>>) = <<>>
  BY DEF ItemsOf
<1>2. Scan(<<>>) = <<>>
  BY <1>1, FlattenEmpty DEF Scan, ItemsOf
<1>3. EmptyPage(PageSpan).items = <<>> /\ EmptyPage(PageSpan) \in Pages
  BY DEF EmptyPage, Pages
<1> DEFINE e == EmptyPage(PageSpan)
<1> HIDE DEF e
<1>4. e.items = <<>> /\ e \in Pages
  BY <1>3 DEF e
<1>5. Scan(<<e>>) = FlattenSeq(<< <<>> >>)
  <2>1. [l \in DOMAIN e.items |-> e.items[l].item] = <<>>
    BY <1>4
  <2>2. Scan(<<e>>) = FlattenSeq([p \in {1} |-> [l \in DOMAIN e.items |-> e.items[l].item]])
    BY DEF Scan
  <2>3. [p \in {1} |-> <<>>] = << <<>> >>
    OBVIOUS
  <2> QED
    BY <2>1, <2>2, <2>3
<1>6. FlattenSeq(<< <<>> >>) = <<>>
  <2>1. <<>> \in Seq(Seq(RowSet)) /\ <<>> \in Seq(RowSet)
    OBVIOUS
  <2>2. FlattenSeq(Append(<<>>, <<>>)) = FlattenSeq(<<>>) \o <<>>
    BY <2>1, FlattenAppend
  <2>3. Append(<<>>, <<>>) = << <<>> >> /\ <<>> \o <<>> = <<>>
    OBVIOUS
  <2> QED
    BY <2>2, <2>3, FlattenEmpty
<1>7. <<>> \in Seq(Pages) /\ <<e>> \in Seq(Pages)
  BY <1>4
<1> QED
  BY <1>2, <1>5, <1>6, <1>7 DEF e

\* The rows are rows, with the names of the module.
LEMMA RowsType ==
    StateOK => /\ Rows \in Seq(RowSet) /\ NamesOf(Rows) \subseteq Names
               /\ Len(Rows) \in Nat /\ PageSpan \in Int
               /\ RelTableDef \in Names
<1> SUFFICES ASSUME StateOK
             PROVE  /\ Rows \in Seq(RowSet) /\ NamesOf(Rows) \subseteq Names
                    /\ Len(Rows) \in Nat /\ PageSpan \in Int
                    /\ RelTableDef \in Names
  OBVIOUS
<1>1. Rows \in Seq(RowSet)
  BY ItemsType DEF StateOK, Rows
<1>2. NamesOf(Rows) \subseteq Names
  <2>1. \A i \in DOMAIN Rows : Rows[i] \in RowSet
    BY <1>1, ElementOfSeq
  <2> QED
    BY <2>1 DEF NamesOf, RowSet
<1> QED
  BY <1>1, <1>2, NamesAssumption DEF Names

\* Nothing to do is well formed.
LEMMA NothingTodo == WellFormed(<<>>)
<1>1. <<>> \in Seq(Steps) /\ Len(<<>>) = 0 /\ DOMAIN <<>> = {}
  OBVIOUS
<1> QED
  BY <1>1 DEF WellFormed

\* The initial state.
LEMMA InitIInv == Init => IInv
<1> SUFFICES ASSUME Init PROVE IInv
  OBVIOUS
<1>1. PageSpan \in Int
  BY NamesAssumption
<1>2. Rows = <<>>
  BY <1>1, NoRows DEF Init, Rows
<1>3. StateOK
  BY NothingTodo, EmptySeq DEF Init, StateOK, NoFile, FileKinds
<1>4. DiskOK
  BY <1>2 DEF Init, DiskOK, EachRowOnce, Rows, NamesOf
<1>5. IndexesOK
  BY DEF Init, IndexesOK
<1> QED
  BY <1>3, <1>4, <1>5 DEF Init, IInv

\* The disk's part of the invariant depends on the kinds of the files alone.
LEMMA KeepsDisk ==
    ASSUME StateOK, DiskOK, relRows' = relRows, made' = made, backfilled' = backfilled,
           \A n \in Names : files'[n].kind = files[n].kind
    PROVE  DiskOK' /\ Rows' = Rows
<1>1. Rows' = Rows
  BY DEF Rows
<1>2. NamesOf(Rows) \subseteq Names /\ RelTableDef \in Names
  BY RowsType
<1>3. EachRowOnce'
  BY <1>1 DEF DiskOK, EachRowOnce, Rows
<1> QED
  BY <1>1, <1>2, <1>3 DEF DiskOK

\* The end of the process.
LEMMA DownKeeps ==
    ASSUME IInv, Down
    PROVE  IInv'
<1>1. StateOK /\ DiskOK /\ IndexesOK
  BY DEF IInv
<1>2. StateOK'
  BY <1>1, NothingTodo, EmptySeq DEF StateOK, Down
<1>3. DiskOK' /\ Rows' = Rows
  BY <1>1, KeepsDisk DEF Down
<1>4. IndexesOK'
  BY <1>1, <1>3 DEF IndexesOK, Down
<1> QED
  BY <1>2, <1>3, <1>4 DEF IInv, Down

\* The part of the invariant that a statement which begins has to establish.
LEMMA BeginKeeps ==
    ASSUME IInv, up', Statement(todo', NamesOf(Rows)), UNCHANGED <<disk, made, backfilled>>,
           Len(tableDefs') = Len(Rows), ToSet(tableDefs') = ToSet(Rows),
           tableDefs' \in Seq(RowSet), indexDefs' = indexRows,
           ~backfilled => Numbered(tableDefs'),
           files[RelTableDef].kind \in {"none", "blank"} => todo'[1].name = RelTableDef
    PROVE  IInv'
<1>1. StateOK /\ DiskOK /\ IndexesOK
  BY DEF IInv
<1>2. StateOK'
  BY <1>1 DEF StateOK, Statement, disk
<1>3. DiskOK' /\ Rows' = Rows
  BY <1>1, KeepsDisk DEF disk
<1>4. IndexesOK'
  BY <1>1, <1>3 DEF IndexesOK, disk
<1>5. todo' # <<>> /\ Head(todo') = todo'[1] /\ Head(todo').op = "create"
  BY DEF Statement, WellFormed
<1>6. ~RowPending'
  BY <1>5 DEF RowPending
<1>7. TablesKnown'
  BY <1>3, <1>6 DEF TablesKnown, disk, Numbered
<1>8. StatementOK'
  <2>1. \A i \in DOMAIN todo' : todo'[i].op = "indexRow" => todo'[i].of \in NamesOf(Rows)
    BY DEF Statement
  <2> QED
    BY <1>3, <1>5, <1>6, <2>1 DEF StatementOK, disk, Name
<1> QED
  BY <1>2, <1>3, <1>4, <1>7, <1>8 DEF IInv

\* The bootstrap.
LEMMA BootstrapKeeps ==
    ASSUME IInv, Bootstrap
    PROVE  IInv'
<1>1. relRows = <<>> /\ tableDefs = <<>> /\ indexDefs = <<>>
  BY DEF IInv, DiskOK, Bootstrap
<1>2. Rows = <<>>
  BY <1>1, NoRows, NamesAssumption DEF Rows
<1>3. indexRows = <<>>
  <2>1. ToSet(Rows) = {}
    BY <1>2 DEF ToSet
  <2>2. \A i \in DOMAIN indexRows : FALSE
    BY <2>1 DEF IInv, IndexesOK
  <2>3. indexRows \in Seq([parent : Nat, table : Nat])
    BY DEF IInv, StateOK
  <2>4. Len(indexRows) = 0
    <3>1. Len(indexRows) \in Nat /\ DOMAIN indexRows = 1 .. Len(indexRows)
      BY <2>3
    <3>2. 1 \notin 1 .. Len(indexRows)
      BY <2>2, <3>1
    <3> QED
      BY <3>1, <3>2
  <2> QED
    BY <2>3, <2>4, EmptySeq
<1>4. Statement(BootstrapSteps, NamesOf(Rows)) /\ BootstrapSteps[1].name = RelTableDef
  BY BootstrapIs
<1>5. tableDefs' = <<>> /\ indexDefs' = indexRows /\ todo' = BootstrapSteps
  BY <1>1, <1>3 DEF Bootstrap, memory
<1>6. Numbered(<<>>) /\ <<>> \in Seq(RowSet)
  BY DEF Numbered
<1>7. UNCHANGED <<disk, made, backfilled>> /\ up'
  BY DEF Bootstrap
<1> QED
  BY <1>2, <1>4, <1>5, <1>6, <1>7, BeginKeeps

\* A statement of the user.
LEMMA StatementKeeps ==
    ASSUME IInv, Idle, Statement(todo', NamesOf(Rows)),
           UNCHANGED <<disk, memory, up, made, backfilled>>
    PROVE  IInv'
<1>1. up /\ up' /\ ~RowPending /\ TablesKnown /\ StatementOK
  BY DEF IInv, Idle, RowPending
<1>2. files[RelTableDef].kind \notin {"none", "blank"}
  BY <1>1 DEF StatementOK, Idle
<1>3. tableDefs' = tableDefs /\ indexDefs' = indexDefs /\ UNCHANGED <<disk, made, backfilled>>
  BY DEF memory
<1>4. tableDefs \in Seq(RowSet) /\ PageSpan \in Int /\ Len(Rows) \in Nat
  BY RowsType DEF IInv, StateOK
<1>5. Len(tableDefs) = Len(Rows) /\ ToSet(tableDefs) = ToSet(Rows) /\ indexDefs = indexRows
      /\ (~backfilled => Numbered(tableDefs))
  BY <1>1, <1>4 DEF TablesKnown, Numbered
<1> QED
  BY <1>1, <1>2, <1>3, <1>4, <1>5, BeginKeeps

\* CREATE TABLE sets out on the steps of a table whose name is not in the catalog.
LEMMA CreateTableKeeps ==
    ASSUME IInv, NEW n \in UserTables, CreateTable(n)
    PROVE  IInv'
<1>1. n \in Names
  BY DEF Names, Tables
<1>2. Statement(todo', NamesOf(Rows))
  BY <1>1, CreateTableIs DEF CreateTable
<1> QED
  BY <1>2, StatementKeeps DEF CreateTable

\* CREATE INDEX sets out on the steps of an index of a table that is in the catalog.
LEMMA CreateIndexKeeps ==
    ASSUME IInv, NEW t \in Tables, CreateIndex(t)
    PROVE  IInv'
<1>1. t \in NamesOf(Rows)
  <2>1. ToSet(tableDefs) = ToSet(Rows)
    BY DEF IInv, CreateIndex, Idle, TablesKnown, RowPending
  <2>2. PICK i \in DOMAIN tableDefs : tableDefs[i].name = t
    BY DEF CreateIndex, Defined
  <2>3. tableDefs[i] \in ToSet(Rows)
    BY <2>1 DEF ToSet
  <2> QED
    BY <2>2, <2>3 DEF ToSet, NamesOf
<1>2. Statement(CreateIndexSteps(t), {t})
  BY CreateIndexIs
<1>3. Statement(todo', NamesOf(Rows))
  BY <1>1, <1>2 DEF CreateIndex, Statement
<1> QED
  BY <1>3, StatementKeeps DEF CreateIndex

\* The catalogs are loaded.
LEMMA LoadKeeps ==
    ASSUME IInv, Load
    PROVE  IInv'
<1>1. StateOK /\ DiskOK /\ IndexesOK /\ todo = <<>>
  BY DEF IInv, Load
<1>2. Rows \in Seq(RowSet) /\ Len(Rows) \in Nat
  BY <1>1, RowsType
<1>3. relRows # <<>>
  <2>1. Len(Rows) >= 2
    BY DEF Load, CanLoad, Rows
  <2>2. Len(<<>>) = 0
    OBVIOUS
  <2> QED
    BY <2>1, <2>2, NoRows, NamesAssumption DEF Rows
<1>4. files[RelTableDef].kind \notin {"none", "blank"}
  BY <1>1, <1>3 DEF DiskOK
<1>5. StateOK'
  BY <1>1, <1>2 DEF StateOK, Load, disk, Rows
<1>6. DiskOK' /\ Rows' = Rows
  BY <1>1, KeepsDisk DEF Load, disk
<1>7. IndexesOK'
  BY <1>1, <1>6 DEF IndexesOK, Load, disk
<1>8. ~RowPending' /\ todo' = <<>>
  BY <1>1 DEF RowPending, Load
<1>9. tableDefs' = Rows /\ indexDefs' = indexRows /\ up'
  BY DEF Load, Rows
<1>10. TablesKnown'
  BY <1>1, <1>2, <1>6, <1>8, <1>9 DEF TablesKnown, DiskOK, Load, disk
<1>11. StatementOK'
  BY <1>4, <1>8 DEF StatementOK, Load, disk
<1> QED
  BY <1>5, <1>6, <1>7, <1>9, <1>10, <1>11 DEF IInv

-----------------------------------------------------------------------------
\* What the step behind the one that is done may be.
LEMMA StepDoneIs ==
    ASSUME IInv, up, todo # <<>>, StepDone
    PROVE  /\ WellFormed(todo') /\ up' /\ Head(todo) \in Steps /\ Name \in Names
           /\ Head(todo) = todo[1] /\ 1 \in DOMAIN todo
           /\ Head(todo).op \in {"create", "firstPage"} => todo' # <<>>
           /\ todo' # <<>> => Link(Head(todo), Head(todo'))
           /\ RowPending' <=> Head(todo).op \in {"create", "firstPage"}
           /\ RowPending' => Name' = Name
           /\ \A i \in DOMAIN todo' : i + 1 \in DOMAIN todo /\ todo'[i] = todo[i + 1]
<1>1. WellFormed(todo) /\ todo \in Seq(Steps)
  BY DEF IInv, StateOK, WellFormed
<1>2. todo' = Tail(todo) /\ up'
  BY DEF StepDone
<1>3. /\ WellFormed(todo') /\ Head(todo) \in Steps /\ Head(todo) = todo[1]
      /\ \A i \in DOMAIN todo' : i + 1 \in DOMAIN todo /\ todo'[i] = todo[i + 1]
      /\ Head(todo).op \in {"create", "firstPage"} => todo' # <<>>
      /\ todo' # <<>> => Link(Head(todo), Head(todo'))
  BY <1>1, <1>2, TailWellFormed
<1>4. Name \in Names
  BY <1>3, StepNames DEF Name
<1>5. RowPending' <=> Head(todo).op \in {"create", "firstPage"}
  BY <1>3 DEF RowPending, Link
<1>6. RowPending' => Name' = Name
  BY <1>3, <1>5 DEF Name, RowPending, Link
<1>7. 1 \in DOMAIN todo
  BY <1>1
<1> QED
  BY <1>2, <1>3, <1>4, <1>5, <1>6, <1>7

\* What a step changes in the files, and nothing else in them.
KindBecomes(name, kind) ==
    /\ files' \in [Names -> [kind : FileKinds, rows : Nat]]
    /\ files'[name].kind = kind
    /\ \A n \in Names \ {name} : files'[n].kind = files[n].kind

\* The entry that FindTableDef finds.
LEMMA FindTableDefIs ==
    ASSUME NEW n, n \in NamesOf(tableDefs)
    PROVE  /\ FindTableDef(n) \in ToSet(tableDefs) /\ FindTableDef(n).name = n
           /\ Defined(n)
           /\ PositionOf(n) \in DOMAIN tableDefs /\ FindTableDef(n) = tableDefs[PositionOf(n)]
<1>1. \E i \in DOMAIN tableDefs : tableDefs[i].name = n
  BY DEF NamesOf
<1>2. PositionOf(n) \in DOMAIN tableDefs /\ tableDefs[PositionOf(n)].name = n
  BY <1>1 DEF PositionOf
<1> QED
  BY <1>1, <1>2 DEF FindTableDef, Defined, ToSet

\* One table more in TableDefs.
LEMMA TableDefsGrow ==
    ASSUME NEW s \in Seq(RowSet), NEW x \in RowSet
    PROVE  /\ Append(s, x) \in Seq(RowSet) /\ Len(Append(s, x)) = Len(s) + 1
           /\ ToSet(Append(s, x)) = ToSet(s) \cup {x}
           /\ Numbered(s) /\ x.index = Len(s) => Numbered(Append(s, x))
<1> DEFINE u == Append(s, x)
           n == Len(s)
<1>1. n \in Nat /\ DOMAIN s = 1 .. n
  OBVIOUS
<1>2. u \in Seq(RowSet) /\ Len(u) = n + 1 /\ DOMAIN u = 1 .. n + 1 /\ u[n + 1] = x
      /\ \A i \in 1 .. n : u[i] = s[i]
  BY AppendProperties
<1> HIDE DEF u, n
<1>3. \A i \in 1 .. n + 1 : i \in 1 .. n \/ i = n + 1
  BY <1>1
<1>4. ToSet(u) = ToSet(s) \cup {x}
  <2>1. ToSet(s) \cup {x} \subseteq ToSet(u)
    <3>1. \A i \in 1 .. n : i \in 1 .. n + 1
      BY <1>1
    <3>2. n + 1 \in 1 .. n + 1
      BY <1>1
    <3> QED
      BY <1>1, <1>2, <3>1, <3>2 DEF ToSet
  <2>2. ToSet(u) \subseteq ToSet(s) \cup {x}
    BY <1>1, <1>2, <1>3 DEF ToSet
  <2> QED
    BY <2>1, <2>2
<1>5. Numbered(s) /\ x.index = n => Numbered(u)
  BY <1>1, <1>2, <1>3 DEF Numbered
<1> QED
  BY <1>2, <1>4, <1>5 DEF u, n

\* A file is made and TableDefs gets an entry that reltabledef has not got yet.
LEMMA CreateFileKeeps ==
    ASSUME IInv, CreateFile
    PROVE  IInv'
<1> DEFINE r == Row(Name, Len(Rows))
<1>1. /\ StateOK /\ DiskOK /\ IndexesOK /\ TablesKnown /\ StatementOK
      /\ up /\ todo # <<>> /\ Head(todo).op = "create" /\ StepDone
  BY DEF IInv, CreateFile, IsNext
<1>2. /\ WellFormed(todo') /\ up' /\ Name \in Names /\ todo' # <<>> /\ RowPending'
      /\ Name' = Name /\ Link(Head(todo), Head(todo'))
      /\ \A i \in DOMAIN todo' : i + 1 \in DOMAIN todo /\ todo'[i] = todo[i + 1]
  BY <1>1, StepDoneIs
<1>3. Rows \in Seq(RowSet) /\ NamesOf(Rows) \subseteq Names /\ Len(Rows) \in Nat
      /\ RelTableDef \in Names
  BY <1>1, RowsType
<1>4. ~RowPending
  BY <1>1 DEF RowPending
<1>5. Len(tableDefs) = Len(Rows) /\ ToSet(tableDefs) = ToSet(Rows) /\ indexDefs = indexRows
      /\ (~backfilled => Numbered(tableDefs)) /\ tableDefs \in Seq(RowSet)
  BY <1>1, <1>3, <1>4 DEF TablesKnown, Numbered, StateOK
<1>6. tableDefs' = Append(tableDefs, r) /\ r \in RowSet /\ r.index = Len(Rows)
  BY <1>2, <1>3, <1>5 DEF CreateFile, NewIndex, Row, RowSet
<1>7. /\ tableDefs' \in Seq(RowSet) /\ Len(tableDefs') = Len(Rows) + 1
      /\ ToSet(tableDefs') = ToSet(Rows) \cup {r}
      /\ ~backfilled => Numbered(tableDefs')
  BY <1>5, <1>6, TableDefsGrow
<1>8. files[Name].kind = "none" /\ KindBecomes(Name, "blank")
  BY <1>1, <1>2 DEF CreateFile, KindBecomes, StateOK, FileKinds
<1>9. Name \notin NamesOf(Rows)
  BY <1>1, <1>8 DEF DiskOK
<1>10. Rows' = Rows /\ UNCHANGED <<relRows, indexRows, indexDefs, made, backfilled>>
  BY DEF CreateFile, Rows
<1>11. StateOK'
  BY <1>1, <1>2, <1>7, <1>8, <1>10 DEF StateOK, KindBecomes
<1>12. DiskOK'
  <2>1. EachRowOnce'
    BY <1>1, <1>10 DEF DiskOK, EachRowOnce, Rows
  <2>2. \A n \in NamesOf(Rows) : files'[n].kind \in {"heap", "index"}
    BY <1>1, <1>3, <1>8, <1>9 DEF DiskOK, KindBecomes
  <2>3. files'[RelTableDef].kind \in {"none", "blank"} => relRows = <<>>
    BY <1>1, <1>3, <1>8 DEF DiskOK, KindBecomes
  <2> QED
    BY <1>1, <1>10, <2>1, <2>2, <2>3 DEF DiskOK
<1>13. IndexesOK'
  BY <1>1, <1>10 DEF IndexesOK
<1>14. TablesKnown'
  BY <1>2, <1>5, <1>7, <1>10 DEF TablesKnown, Numbered
<1>15. StatementOK'
  <2>1. Head(todo').op = "firstPage"
    BY <1>1, <1>2 DEF Link
  <2>2. files'[RelTableDef].kind \in {"none", "blank"} => Name = RelTableDef
    BY <1>1, <1>3, <1>8 DEF StatementOK, KindBecomes
  <2>3. \A i \in DOMAIN todo' : todo'[i].op = "indexRow" => todo'[i].of \in NamesOf(Rows)
    BY <1>1, <1>2 DEF StatementOK
  <2> QED
    BY <1>2, <1>8, <1>9, <1>10, <2>1, <2>2, <2>3 DEF StatementOK, KindBecomes
<1> QED
  BY <1>2, <1>11, <1>12, <1>13, <1>14, <1>15 DEF IInv

\* The file gets its first page, which is where reltabledef itself comes from.
LEMMA WriteFirstPageKeeps ==
    ASSUME IInv, WriteFirstPage
    PROVE  IInv'
<1>1. /\ StateOK /\ DiskOK /\ IndexesOK /\ TablesKnown /\ StatementOK
      /\ up /\ todo # <<>> /\ Head(todo).op = "firstPage" /\ StepDone /\ RowPending
  BY DEF IInv, WriteFirstPage, IsNext, RowPending
<1>2. /\ WellFormed(todo') /\ up' /\ Name \in Names /\ todo' # <<>> /\ RowPending'
      /\ Name' = Name /\ Link(Head(todo), Head(todo'))
      /\ \A i \in DOMAIN todo' : i + 1 \in DOMAIN todo /\ todo'[i] = todo[i + 1]
  BY <1>1, StepDoneIs
<1>3. Rows \in Seq(RowSet) /\ NamesOf(Rows) \subseteq Names /\ Len(Rows) \in Nat
      /\ RelTableDef \in Names /\ PageSpan \in Int
  BY <1>1, RowsType
<1>4. files[Name].kind = "blank" /\ KindBecomes(Name, "heap") /\ Name \notin NamesOf(Rows)
  BY <1>1, <1>2 DEF WriteFirstPage, KindBecomes, StateOK, FileKinds, StatementOK
<1>5. Rows' = Rows /\ relRows' \in Seq(Pages) /\ (Name # RelTableDef => relRows' = relRows)
  <2>1. CASE Name = RelTableDef
    <3>1. relRows = <<>> /\ relRows' = <<EmptyPage(PageSpan)>>
      BY <1>1, <1>4, <2>1 DEF DiskOK, WriteFirstPage
    <3> QED
      BY <1>3, <2>1, <3>1, NoRows DEF Rows
  <2>2. CASE Name # RelTableDef
    BY <1>1, <2>2 DEF WriteFirstPage, Rows, StateOK
  <2> QED
    BY <2>1, <2>2
<1>6. UNCHANGED <<indexRows, tableDefs, indexDefs, made, backfilled>>
  BY DEF WriteFirstPage, memory
<1>7. StateOK'
  BY <1>1, <1>2, <1>4, <1>5, <1>6 DEF StateOK, KindBecomes
<1>8. DiskOK'
  <2>1. EachRowOnce'
    BY <1>1, <1>5 DEF DiskOK, EachRowOnce, Rows
  <2>2. \A n \in NamesOf(Rows) : files'[n].kind \in {"heap", "index"}
    BY <1>1, <1>3, <1>4 DEF DiskOK, KindBecomes
  <2>3. files'[RelTableDef].kind \in {"none", "blank"} => relRows' = <<>>
    BY <1>1, <1>3, <1>4, <1>5 DEF DiskOK, KindBecomes
  <2> QED
    BY <1>1, <1>5, <1>6, <2>1, <2>2, <2>3 DEF DiskOK
<1>9. IndexesOK'
  BY <1>1, <1>5, <1>6 DEF IndexesOK
<1>10. TablesKnown'
  BY <1>1, <1>2, <1>5, <1>6 DEF TablesKnown
<1>11. StatementOK'
  <2>1. Head(todo').op = "tableRow"
    BY <1>1, <1>2 DEF Link
  <2>2. files'[RelTableDef].kind \notin {"none", "blank"}
    BY <1>1, <1>3, <1>4 DEF StatementOK, KindBecomes
  <2>3. \A i \in DOMAIN todo' : todo'[i].op = "indexRow" => todo'[i].of \in NamesOf(Rows)
    BY <1>1, <1>2 DEF StatementOK
  <2> QED
    BY <1>2, <1>4, <1>5, <2>1, <2>2, <2>3 DEF StatementOK, KindBecomes
<1> QED
  BY <1>2, <1>7, <1>8, <1>9, <1>10, <1>11 DEF IInv

\* The row of the table that CreateTable() has just pushed: its index is the number
\* of the rows there are.
LEMMA InsertTableRowKeeps ==
    ASSUME IInv, InsertTableRow
    PROVE  IInv'
<1> DEFINE r == Row(Name, Len(Rows))
           p == RowPage
<1>1. /\ StateOK /\ DiskOK /\ IndexesOK /\ TablesKnown /\ StatementOK
      /\ up /\ todo # <<>> /\ Head(todo).op = "tableRow" /\ StepDone /\ RowPending
  BY DEF IInv, InsertTableRow, IsNext, RowPending
<1>2. /\ WellFormed(todo') /\ up' /\ Name \in Names /\ ~RowPending'
      /\ todo' # <<>> => Link(Head(todo), Head(todo'))
      /\ \A i \in DOMAIN todo' : i + 1 \in DOMAIN todo /\ todo'[i] = todo[i + 1]
  BY <1>1, StepDoneIs
<1>3. Rows \in Seq(RowSet) /\ NamesOf(Rows) \subseteq Names /\ Len(Rows) \in Nat
      /\ RelTableDef \in Names /\ PageSpan \in Int
  BY <1>1, RowsType
<1>4. r \in RowSet /\ r.name = Name /\ r.index = Len(Rows)
  BY <1>2, <1>3 DEF Row, RowSet
<1>5. Name \notin NamesOf(Rows) /\ files[Name].kind = "heap"
  BY <1>1 DEF StatementOK
<1>6. Row(Name, FindTableDef(Name).index) = r
  <2>1. ToSet(tableDefs) = ToSet(Rows) \cup {r}
    BY <1>1 DEF TablesKnown
  <2>2. Name \in NamesOf(tableDefs)
    <3>1. r \in ToSet(tableDefs)
      BY <2>1
    <3> QED
      BY <1>4, <3>1 DEF ToSet, NamesOf
  <2>3. FindTableDef(Name) \in ToSet(tableDefs) /\ FindTableDef(Name).name = Name
    BY <2>2, FindTableDefIs
  <2>4. FindTableDef(Name) \notin ToSet(Rows)
    BY <1>5, <2>3 DEF ToSet, NamesOf
  <2>5. FindTableDef(Name) = r
    BY <2>1, <2>3, <2>4
  <2> QED
    BY <1>4, <2>5
<1>7. /\ relRows' = PutItem(relRows, p, r, SizeOf[Name], PageSpan)
      /\ backfilled' = (backfilled \/ p < Len(relRows))
  BY <1>6 DEF InsertTableRow
<1>8. relRows \in Seq(Pages) /\ SizeOf[Name] \in Int
  BY <1>1, <1>2, NamesAssumption DEF StateOK
<1>9. p \in 1 .. Len(relRows) + 1
  BY <1>8, FirstFitIs DEF RowPage
<1> HIDE DEF p, r
<1>10. relRows' \in Seq(Pages)
  BY <1>3, <1>4, <1>7, <1>8, <1>9, ScanPut
<1>11. PICK m \in Nat : Inserted(Rows, Rows', r, m) /\ (p >= Len(relRows) => m = Len(Rows) + 1)
  BY <1>3, <1>4, <1>7, <1>8, <1>9, ScanPut DEF Rows
<1>12. /\ Rows' \in Seq(RowSet) /\ Len(Rows') = Len(Rows) + 1
       /\ ToSet(Rows') = ToSet(Rows) \cup {r}
       /\ NamesOf(Rows') = NamesOf(Rows) \cup {Name}
       /\ IndexesOf(Rows') = IndexesOf(Rows) \cup {Len(Rows)}
       /\ Distinct(Rows) => Distinct(Rows')
       /\ m = Len(Rows) + 1 /\ Numbered(Rows) => Numbered(Rows')
  BY <1>3, <1>4, <1>5, <1>11, InsertedIs
<1>13. UNCHANGED <<files, indexRows, tableDefs, indexDefs>> /\ made' = made \cup {Name}
  BY DEF InsertTableRow, memory
<1>14. backfilled' \in BOOLEAN /\ (~backfilled' => ~backfilled /\ p >= Len(relRows))
  <2>1. ~(p < Len(relRows)) => p >= Len(relRows)
    BY <1>8, <1>9
  <2>2. backfilled' \in BOOLEAN /\ (~backfilled' => ~backfilled /\ ~(p < Len(relRows)))
    BY <1>1, <1>7, Zenon DEF StateOK
  <2> QED
    BY <2>1, <2>2, Zenon
<1>15. StateOK'
  BY <1>1, <1>2, <1>10, <1>13, <1>14 DEF StateOK
<1>16. DiskOK'
  <2>1. Distinct(Rows) /\ IndexesOf(Rows) = 0 .. Len(Rows) - 1
    BY <1>1 DEF DiskOK, EachRowOnce, Rows, Distinct, IndexesOf
  <2>2. IndexesOf(Rows') = 0 .. Len(Rows') - 1
    BY <1>3, <1>12, <2>1
  <2>3. EachRowOnce'
    BY <1>12, <2>1, <2>2 DEF EachRowOnce, Rows, Distinct, IndexesOf
  <2>4. files[RelTableDef].kind \notin {"none", "blank"}
    BY <1>1 DEF StatementOK
  <2>5. ~backfilled' => Numbered(Rows')
    BY <1>1, <1>11, <1>12, <1>14 DEF DiskOK, Numbered
  <2> QED
    BY <1>1, <1>5, <1>12, <1>13, <2>3, <2>4, <2>5 DEF DiskOK, Numbered
<1>17. IndexesOK'
  BY <1>1, <1>12, <1>13 DEF IndexesOK
<1>18. TablesKnown'
  BY <1>1, <1>2, <1>12, <1>13, <1>14 DEF TablesKnown, r
<1>19. StatementOK'
  <2>1. files[RelTableDef].kind \notin {"none", "blank"}
    BY <1>1 DEF StatementOK
  <2>2. todo' # <<>> /\ Head(todo').op = "indexRow" => Name' = Name
    BY <1>2 DEF Link, Name
  <2>3. Row(Name, Len(Rows') - 1) \in ToSet(Rows')
    BY <1>3, <1>12 DEF r
  <2>4. \A i \in DOMAIN todo' : todo'[i].op = "indexRow" => todo'[i].of \in NamesOf(Rows')
    BY <1>1, <1>2, <1>12 DEF StatementOK
  <2> QED
    BY <1>2, <1>13, <2>1, <2>2, <2>3, <2>4 DEF StatementOK
<1> QED
  BY <1>2, <1>15, <1>16, <1>17, <1>18, <1>19 DEF IInv

\* The row of the index catalog: the index has the last row of reltabledef, and
\* its table is the one that the entry names, if it could be read.
LEMMA InsertIndexRowKeeps ==
    ASSUME IInv, InsertIndexRow
    PROVE  IInv'
<1> DEFINE t == Head(todo).of
           k == Len(Rows) - 1
<1>1. /\ StateOK /\ DiskOK /\ IndexesOK /\ TablesKnown /\ StatementOK
      /\ up /\ todo # <<>> /\ Head(todo).op = "indexRow" /\ StepDone /\ ~RowPending
  BY DEF IInv, InsertIndexRow, IsNext, RowPending
<1>2. /\ WellFormed(todo') /\ up' /\ Head(todo) \in Steps /\ ~RowPending'
      /\ Head(todo) = todo[1] /\ 1 \in DOMAIN todo
      /\ todo' # <<>> => Link(Head(todo), Head(todo'))
      /\ \A i \in DOMAIN todo' : i + 1 \in DOMAIN todo /\ todo'[i] = todo[i + 1]
  BY <1>1, StepDoneIs
<1>3. t \in Tables /\ Name = IndexName[t] /\ Name \in Range(IndexName)
  BY <1>1, <1>2, StepNames DEF Name
<1>4. Rows \in Seq(RowSet) /\ Len(Rows) \in Nat
  BY <1>1, RowsType
<1>5. Len(tableDefs) = Len(Rows) /\ ToSet(tableDefs) = ToSet(Rows) /\ indexDefs = indexRows
  BY <1>1, <1>4 DEF TablesKnown
<1>6. Row(Name, k) \in ToSet(Rows) /\ k \in Nat
  <2>1. Row(Name, k) \in ToSet(Rows)
    BY <1>1 DEF StatementOK
  <2>2. \A i \in DOMAIN Rows : Rows[i] \in RowSet
    BY <1>4, ElementOfSeq
  <2>3. Row(Name, k) \in RowSet
    BY <2>1, <2>2 DEF ToSet
  <2> QED
    BY <2>1, <2>3 DEF RowSet, Row
<1>7. /\ FindTableDef(t) \in ToSet(Rows) /\ FindTableDef(t) \in RowSet
      /\ FindTableDef(t).name = t
  <2>1. t \in NamesOf(Rows)
    BY <1>1, <1>2 DEF StatementOK
  <2>2. t \in NamesOf(tableDefs)
    <3>1. PICK i \in DOMAIN Rows : Rows[i].name = t
      BY <2>1 DEF NamesOf
    <3>2. Rows[i] \in ToSet(tableDefs)
      BY <1>5 DEF ToSet
    <3> QED
      BY <3>1, <3>2 DEF ToSet, NamesOf
  <2>3. FindTableDef(t) \in ToSet(Rows) /\ FindTableDef(t).name = t
    BY <1>5, <2>2, FindTableDefIs
  <2>4. \A i \in DOMAIN Rows : Rows[i] \in RowSet
    BY <1>4, ElementOfSeq
  <2> QED
    BY <2>3, <2>4 DEF ToSet
<1>8. PICK parent \in ParentIndexes(t) :
         /\ indexRows' = Append(indexRows, IndexRow(parent, k))
         /\ indexDefs' = Append(indexDefs, IndexRow(parent, k))
  BY <1>5 DEF InsertIndexRow
<1>9. parent \in Nat /\ (~Full(k) => Row(t, parent) \in ToSet(Rows))
  <2>1. CASE Full(k)
    <3>1. ParentIndexes(t) = 0 .. MaxDefs - 1
      BY <1>5, <2>1 DEF ParentIndexes
    <3>2. parent \in Nat
      BY <3>1, NamesAssumption
    <3> QED
      BY <2>1, <3>2
  <2>2. CASE ~Full(k)
    <3>1. parent = FindTableDef(t).index
      BY <1>5, <1>8, <2>2 DEF ParentIndexes
    <3>2. parent \in Nat /\ Row(t, parent) = FindTableDef(t)
      BY <1>7, <3>1 DEF Row, RowSet
    <3> QED
      BY <1>7, <3>2
  <2> QED
    BY <2>1, <2>2
<1> DEFINE x == IndexRow(parent, k)
           I == [parent : Nat, table : Nat]
<1>10. x \in I /\ x.parent = parent /\ x.table = k
  BY <1>6, <1>9 DEF IndexRow
<1>11. indexRows \in Seq(I) /\ indexRows' = Append(indexRows, x) /\ indexDefs' = indexRows'
  BY <1>1, <1>5, <1>8 DEF StateOK
<1> HIDE DEF x, I
<1>12. /\ indexRows' \in Seq(I)
       /\ \A i \in DOMAIN indexRows' :
             indexRows'[i] = x \/ (i \in DOMAIN indexRows /\ indexRows'[i] = indexRows[i])
  BY <1>10, <1>11, AppendProperties
<1>13. Rows' = Rows /\ UNCHANGED <<files, relRows, tableDefs, made, backfilled>>
  BY DEF InsertIndexRow, Rows
<1>14. StateOK'
  BY <1>1, <1>2, <1>11, <1>12, <1>13 DEF StateOK, I
<1>15. DiskOK'
  BY <1>1, <1>13, KeepsDisk
<1>16. IndexesOK'
  <2>1. /\ \E r \in ToSet(Rows) : r.index = x.table /\ r.name \in Range(IndexName)
        /\ ~Full(x.table) => \E u \in Tables : /\ Row(IndexName[u], x.table) \in ToSet(Rows)
                                               /\ Row(u, x.parent) \in ToSet(Rows)
    <3>1. Row(Name, k).index = k /\ Row(Name, k).name = Name
      BY DEF Row
    <3> QED
      BY <1>3, <1>6, <1>9, <1>10, <3>1
  <2> QED
    BY <1>1, <1>12, <1>13, <2>1 DEF IndexesOK
<1>17. TablesKnown'
  BY <1>1, <1>2, <1>5, <1>11, <1>13 DEF TablesKnown, RowPending
<1>18. StatementOK'
  <2>1. files[RelTableDef].kind \notin {"none", "blank"}
    BY <1>1 DEF StatementOK
  <2>2. ~(todo' # <<>> /\ Head(todo').op = "indexRow")
    BY <1>1, <1>2 DEF Link
  <2>3. \A i \in DOMAIN todo' : todo'[i].op = "indexRow" => todo'[i].of \in NamesOf(Rows)
    BY <1>1, <1>2 DEF StatementOK
  <2> QED
    BY <1>2, <1>13, <2>1, <2>2, <2>3 DEF StatementOK
<1> QED
  BY <1>2, <1>14, <1>15, <1>16, <1>17, <1>18 DEF IInv

\* The steps that change how much a file holds, or make an index of it, and no
\* catalog.
LEMMA RowsKeep ==
    ASSUME IInv, up, todo # <<>>, up', UNCHANGED <<relRows, indexRows, memory, made, backfilled>>,
           files' \in [Names -> [kind : FileKinds, rows : Nat]],
           \A n \in Names : files'[n].kind = files[n].kind \/ files'[n].kind = "index",
           Head(todo).op \in {"insert", "meta", "fill"},
           \/ todo' = todo
           \/ StepDone
    PROVE  IInv'
<1>1. StateOK /\ DiskOK /\ IndexesOK /\ TablesKnown /\ StatementOK /\ ~RowPending
  BY DEF IInv, RowPending
<1>2. /\ WellFormed(todo') /\ ~RowPending'
      /\ ~(todo' # <<>> /\ Head(todo').op = "indexRow")
      /\ \A i \in DOMAIN todo' : \E j \in DOMAIN todo : todo'[i] = todo[j]
  <2>1. CASE todo' = todo
    BY <1>1, <2>1 DEF StateOK, RowPending
  <2>2. CASE StepDone
    BY <2>2, StepDoneIs DEF Link
  <2> QED
    BY <2>1, <2>2
<1>3. NamesOf(Rows) \subseteq Names /\ RelTableDef \in Names
  BY <1>1, RowsType
<1>4. Rows' = Rows
  BY DEF Rows
<1>5. StateOK'
  BY <1>1, <1>2 DEF StateOK, memory
<1>6. files[RelTableDef].kind \notin {"none", "blank"}
      /\ files'[RelTableDef].kind \notin {"none", "blank"}
  BY <1>1, <1>3 DEF StatementOK
<1>7. DiskOK'
  <2>1. EachRowOnce'
    BY <1>1, <1>4 DEF DiskOK, EachRowOnce, Rows
  <2>2. \A n \in NamesOf(Rows) : files'[n].kind \in {"heap", "index"}
    BY <1>1, <1>3 DEF DiskOK
  <2> QED
    BY <1>1, <1>4, <1>6, <2>1, <2>2 DEF DiskOK
<1>8. IndexesOK'
  BY <1>1, <1>4 DEF IndexesOK
<1>9. TablesKnown'
  BY <1>1, <1>2, <1>4 DEF TablesKnown, memory
<1>10. StatementOK'
  BY <1>1, <1>2, <1>4, <1>6 DEF StatementOK
<1> QED
  BY <1>5, <1>7, <1>8, <1>9, <1>10 DEF IInv

\* One row more in a file, or none if the name is no file's.
LEMMA OneRowMore ==
    ASSUME StateOK, NEW n, files' = [files EXCEPT ![n].rows = @ + 1]
    PROVE  /\ files' \in [Names -> [kind : FileKinds, rows : Nat]]
           /\ \A m \in Names : files'[m].kind = files[m].kind
<1>1. files \in [Names -> [kind : FileKinds, rows : Nat]]
  BY DEF StateOK
<1>2. ASSUME NEW m \in Names
      PROVE  files'[m] \in [kind : FileKinds, rows : Nat] /\ files'[m].kind = files[m].kind
  <2>1. files[m] \in [kind : FileKinds, rows : Nat]
    BY <1>1
  <2>2. CASE m = n
    BY <1>1, <2>1, <2>2
  <2>3. CASE m # n
    BY <1>1, <2>1, <2>3
  <2> QED
    BY <2>2, <2>3
<1>3. DOMAIN files' = Names /\ files' = [m \in Names |-> files'[m]]
  BY <1>1
<1> QED
  BY <1>2, <1>3

\* The steps that leave the catalogs alone.
LEMMA StatementStepKeeps ==
    ASSUME IInv, InsertRow \/ WriteMetaPage \/ FillIndex \/ FillIndexEnds
    PROVE  IInv'
<1>1. StateOK
  BY DEF IInv
<1>2. CASE InsertRow
  <2>1. /\ files' \in [Names -> [kind : FileKinds, rows : Nat]]
        /\ \A m \in Names : files'[m].kind = files[m].kind
    BY <1>1, <1>2, OneRowMore DEF InsertRow
  <2> QED
    BY <1>2, <2>1, RowsKeep DEF InsertRow, IsNext, StepDone
<1>3. CASE WriteMetaPage
  <2>1. /\ files' \in [Names -> [kind : FileKinds, rows : Nat]]
        /\ \A m \in Names : files'[m].kind = files[m].kind \/ files'[m].kind = "index"
    BY <1>1, <1>3 DEF WriteMetaPage, StateOK, FileKinds
  <2> QED
    BY <1>3, <2>1, RowsKeep DEF WriteMetaPage, IsNext, StepDone
<1>4. CASE FillIndex
  <2>1. /\ files' \in [Names -> [kind : FileKinds, rows : Nat]]
        /\ \A m \in Names : files'[m].kind = files[m].kind
    BY <1>1, <1>4, OneRowMore DEF FillIndex
  <2> QED
    BY <1>4, <2>1, RowsKeep DEF FillIndex, Filling, IsNext
<1>5. CASE FillIndexEnds
  BY <1>1, <1>5, RowsKeep DEF FillIndexEnds, Filling, IsNext, StepDone, StateOK, disk
<1> QED
  BY <1>2, <1>3, <1>4, <1>5

\* A step that changes nothing.
LEMMA StutterKeeps ==
    ASSUME IInv, UNCHANGED vars
    PROVE  IInv'
BY DEF IInv, StateOK, DiskOK, IndexesOK, TablesKnown, StatementOK, EachRowOnce, RowPending,
       Rows, Name, vars

\* Every step keeps the invariant.
LEMMA NextKeeps ==
    ASSUME IInv, [Next]_vars
    PROVE  IInv'
<1>1. CASE Bootstrap
  BY <1>1, BootstrapKeeps
<1>2. CASE Load
  BY <1>2, LoadKeeps
<1>3. CASE LoadAborts \/ Overwritten
  BY <1>3, StutterKeeps DEF LoadAborts, Overwritten
<1>4. CASE \E n \in UserTables : CreateTable(n)
  BY <1>4, CreateTableKeeps
<1>5. CASE \E t \in Tables : CreateIndex(t)
  BY <1>5, CreateIndexKeeps
<1>6. CASE CreateFile
  BY <1>6, CreateFileKeeps
<1>7. CASE WriteFirstPage
  BY <1>7, WriteFirstPageKeeps
<1>8. CASE InsertTableRow
  BY <1>8, InsertTableRowKeeps
<1>9. CASE InsertIndexRow
  BY <1>9, InsertIndexRowKeeps
<1>10. CASE InsertRow \/ WriteMetaPage \/ FillIndex \/ FillIndexEnds
  BY <1>10, StatementStepKeeps
<1>11. CASE FileExists \/ CatalogOverruns \/ FillIndexAborts \/ Stop
  BY <1>11, DownKeeps DEF FileExists, CatalogOverruns, FillIndexAborts, Stop
<1>12. CASE UNCHANGED vars
  BY <1>12, StutterKeeps
<1> QED
  BY <1>1, <1>2, <1>3, <1>4, <1>5, <1>6, <1>7, <1>8, <1>9, <1>10, <1>11, <1>12 DEF Next

\* The inductive invariant.
LEMMA Inductive == Spec => []IInv
<1>1. Init => IInv
  BY InitIInv
<1>2. IInv /\ [Next]_vars => IInv'
  BY NextKeeps
<1> QED
  BY <1>1, <1>2, PTL DEF Spec

-----------------------------------------------------------------------------
\* The rows of reltabledef have different names, and their indexes number them
\* from 0 on, whatever was left half done by any process before, until a row
\* overwrites a page.
THEOREM RowsAreNumbered == Spec => []RowsNumbered
<1>1. IInv => RowsNumbered
  BY DEF IInv, DiskOK, RowsNumbered
<1> QED
  BY <1>1, Inductive, PTL

\* Every index that the index catalog names has its own row in reltabledef, until a
\* row overwrites a page.
THEOREM IndexesHaveTables == Spec => []IndexHasTable
<1>1. IInv => IndexHasTable
  <2> SUFFICES ASSUME IInv, NEW i \in DOMAIN indexRows
               PROVE  \E j \in DOMAIN Scan(relRows) :
                         /\ Scan(relRows)[j].index = indexRows[i].table
                         /\ Scan(relRows)[j].name \in Range(IndexName)
    BY DEF IndexHasTable
  <2>1. PICK r \in ToSet(Rows) : r.index = indexRows[i].table /\ r.name \in Range(IndexName)
    BY DEF IInv, IndexesOK
  <2> QED
    BY <2>1 DEF ToSet, Rows
<1> QED
  BY <1>1, Inductive, PTL

\* An entry of TableDefs is at the position that its index says, until a row of the
\* catalog has gone to a page before the last one.
LEMMA AtItsPosition ==
    ASSUME TablesKnown, tableDefs \in Seq(RowSet), ~backfilled, NEW r, r \in ToSet(tableDefs)
    PROVE  tableDefs[r.index + 1] = r
<1>1. PICK i \in DOMAIN tableDefs : tableDefs[i] = r
  BY DEF ToSet
<1>2. i \in Nat /\ r.index = i - 1
  BY <1>1 DEF TablesKnown
<1>3. r.index + 1 = i
  BY <1>2
<1> QED
  BY <1>1, <1>3

\* An index names its parent, in memory and after every restart, by its index and, as
\* long as positions are indexes, by its position, unless its entry was made when
\* TableDefs had just moved.
THEOREM IndexesNameTheirParents == Spec => []IndexNamesItsParent
<1>1. IInv => IndexNamesItsParent
  <2> DEFINE Names2(i, t) ==
                 /\ Row(IndexName[t], indexDefs[i].table) \in ToSet(tableDefs)
                 /\ Row(t, indexDefs[i].parent) \in ToSet(tableDefs)
                 /\ ~backfilled =>
                       /\ tableDefs[indexDefs[i].table + 1].name = IndexName[t]
                       /\ tableDefs[indexDefs[i].parent + 1].name = t
  <2> SUFFICES ASSUME IInv, NEW i \in DOMAIN indexDefs, ~Full(indexDefs[i].table)
               PROVE  \E t \in Tables : Names2(i, t)
    BY DEF IndexNamesItsParent
  <2>1. CASE up
    <3>1. /\ indexDefs = indexRows /\ ToSet(Rows) \subseteq ToSet(tableDefs)
          /\ TablesKnown /\ tableDefs \in Seq(RowSet)
      BY <2>1 DEF IInv, TablesKnown, StateOK
    <3>2. PICK t \in Tables : /\ Row(IndexName[t], indexDefs[i].table) \in ToSet(tableDefs)
                              /\ Row(t, indexDefs[i].parent) \in ToSet(tableDefs)
      BY <3>1 DEF IInv, IndexesOK
    <3>3. \A n, k : Row(n, k).name = n /\ Row(n, k).index = k
      BY DEF Row
    <3>4. ~backfilled => /\ tableDefs[indexDefs[i].table + 1] = Row(IndexName[t], indexDefs[i].table)
                         /\ tableDefs[indexDefs[i].parent + 1] = Row(t, indexDefs[i].parent)
      BY <3>1, <3>2, <3>3, AtItsPosition
    <3>5. Names2(i, t)
      BY <3>2, <3>3, <3>4
    <3> QED
      BY <3>5
  <2>2. CASE ~up
    BY <2>2 DEF IInv
  <2> QED
    BY <2>1, <2>2
<1> QED
  BY <1>1, Inductive, PTL

\* The first row of reltabledef is its own, so that its second makes it complete.
FirstOK ==
    /\ Rows # <<>> => RelTableDef \in NamesOf(Rows)
    /\ up /\ Rows = <<>> =>
          /\ todo # <<>> /\ Name = RelTableDef
          /\ Head(todo).op \in {"create", "firstPage", "tableRow"}

\* Steps that change no row.
LEMMA FirstKept ==
    ASSUME FirstOK, Rows' = Rows,
           up' /\ Rows = <<>> =>
               /\ todo' # <<>> /\ Name' = RelTableDef
               /\ Head(todo').op \in {"create", "firstPage", "tableRow"}
    PROVE  FirstOK'
BY DEF FirstOK

LEMMA NextFirst ==
    ASSUME IInv, FirstOK, [Next]_vars
    PROVE  FirstOK'
<1>1. CASE Bootstrap
  <2>1. Rows' = Rows /\ todo' = BootstrapSteps
    BY <1>1 DEF Bootstrap, disk, Rows
  <2>2. Statement(BootstrapSteps, {}) /\ BootstrapSteps[1].name = RelTableDef
    BY BootstrapIs
  <2>3. todo' # <<>> /\ Head(todo').op = "create" /\ Name' = RelTableDef
    BY <2>1, <2>2 DEF Statement, Name
  <2> QED
    BY <2>1, <2>3, FirstKept
<1>2. CASE Load
  <2>1. Rows' = Rows /\ Len(Rows) >= 2
    BY <1>2 DEF Load, disk, Rows, CanLoad
  <2>2. Rows # <<>>
    BY <2>1
  <2> QED
    BY <2>1, <2>2, FirstKept
<1>3. CASE FileExists \/ CatalogOverruns \/ FillIndexAborts \/ Stop
  <2>1. Rows' = Rows /\ ~up'
    BY <1>3 DEF FileExists, CatalogOverruns, FillIndexAborts, Stop, Down, Rows
  <2> QED
    BY <2>1, FirstKept
<1>4. CASE LoadAborts \/ Overwritten \/ UNCHANGED vars
  <2>1. Rows' = Rows /\ todo' = todo /\ up' = up /\ Name' = Name
    BY <1>4 DEF LoadAborts, Overwritten, vars, Rows, Name
  <2> QED
    BY <2>1, FirstKept DEF FirstOK
<1>5. CASE (\E n \in UserTables : CreateTable(n)) \/ (\E t \in Tables : CreateIndex(t))
  <2>1. Rows' = Rows /\ todo = <<>> /\ up
    BY <1>5 DEF CreateTable, CreateIndex, Idle, disk, Rows
  <2>2. Rows # <<>>
    BY <2>1 DEF FirstOK
  <2> QED
    BY <2>1, <2>2, FirstKept
<1>6. CASE CreateFile \/ WriteFirstPage
  <2>1. up /\ todo # <<>> /\ StepDone /\ Head(todo).op \in {"create", "firstPage"}
    BY <1>6 DEF CreateFile, WriteFirstPage, IsNext
  <2>2. todo' # <<>> /\ Link(Head(todo), Head(todo')) /\ RowPending' /\ Name' = Name
    BY <2>1, StepDoneIs
  <2>3. Rows' = Rows
    <3>1. CASE CreateFile
      BY <3>1 DEF CreateFile, Rows
    <3>2. CASE WriteFirstPage /\ Name = RelTableDef
      <4>1. files[RelTableDef].kind = "blank"
        BY <3>2 DEF IInv, StatementOK, RowPending, WriteFirstPage, IsNext
      <4>2. relRows = <<>> /\ relRows' = <<EmptyPage(PageSpan)>> /\ PageSpan \in Int
        BY <3>2, <4>1, NamesAssumption DEF IInv, DiskOK, WriteFirstPage
      <4> QED
        BY <4>2, NoRows DEF Rows
    <3>3. CASE WriteFirstPage /\ Name # RelTableDef
      BY <3>3 DEF WriteFirstPage, Rows
    <3> QED
      BY <1>6, <3>1, <3>2, <3>3
  <2>4. Head(todo').op \in {"firstPage", "tableRow"}
    BY <2>2 DEF RowPending
  <2>5. Rows = <<>> => Name' = RelTableDef
    BY <2>1, <2>2 DEF FirstOK
  <2> QED
    BY <2>2, <2>3, <2>4, <2>5, FirstKept
<1>7. CASE InsertTableRow
  <2>1. up /\ todo # <<>> /\ RowPending /\ Head(todo).op = "tableRow"
    BY <1>7 DEF InsertTableRow, IsNext, RowPending
  <2>2. made' = made \cup {Name} /\ DiskOK /\ DiskOK'
    <3>1. IInv'
      BY <1>7, InsertTableRowKeeps
    <3> QED
      BY <1>7, <3>1 DEF InsertTableRow, IInv
  <2>3. NamesOf(Rows') = NamesOf(Rows) \cup {Name}
    BY <2>2 DEF DiskOK
  <2>4. RelTableDef \in NamesOf(Rows')
    BY <2>1, <2>3 DEF FirstOK
  <2>5. Rows' # <<>>
    BY <2>4 DEF NamesOf
  <2> QED
    BY <2>4, <2>5 DEF FirstOK
<1>8. CASE InsertRow \/ InsertIndexRow \/ WriteMetaPage \/ FillIndex \/ FillIndexEnds
  <2>1. Rows' = Rows
    BY <1>8 DEF InsertRow, InsertIndexRow, WriteMetaPage, FillIndex, FillIndexEnds, disk, Rows
  <2>2. up /\ Head(todo).op \in {"insert", "indexRow", "meta", "fill"}
    BY <1>8 DEF InsertRow, InsertIndexRow, WriteMetaPage, FillIndex, FillIndexEnds, Filling, IsNext
  <2>3. Rows # <<>>
    BY <2>2 DEF FirstOK
  <2> QED
    BY <2>1, <2>3, FirstKept
<1> QED
  BY <1>1, <1>2, <1>3, <1>4, <1>5, <1>6, <1>7, <1>8 DEF Next

LEMMA FirstInductive == Spec => []FirstOK
<1>1. Init => FirstOK
  <2> SUFFICES ASSUME Init PROVE FirstOK
    OBVIOUS
  <2>1. Rows = <<>> /\ ~up
    BY NoRows, NamesAssumption DEF Init, Rows
  <2> QED
    BY <2>1 DEF FirstOK
<1>2. IInv /\ FirstOK /\ [Next]_vars => FirstOK'
  BY NextFirst
<1> QED
  BY <1>1, <1>2, Inductive, PTL DEF Spec

\* A table whose CreateTable() returned is there after every restart, and its index
\* opens its own file, until a row of the catalog has gone to a page before the
\* last one; and the catalogs can be loaded again once a second table is made.
THEOREM MadeTablesAreThere == Spec => []MadeTablesOpen
<1>1. IInv /\ FirstOK => MadeTablesOpen
  <2> SUFFICES ASSUME IInv, FirstOK PROVE MadeTablesOpen
    OBVIOUS
  <2>1. StateOK /\ DiskOK
    BY DEF IInv
  <2>2. ASSUME up, ~backfilled, NEW n \in made
        PROVE  /\ Defined(n)
               /\ SMOpen(FindTableDef(n).index) = n
               /\ files[n].kind \in {"heap", "index"}
    <3>1. TablesKnown
      BY <2>2 DEF IInv
    <3>2. n \in NamesOf(Rows) /\ files[n].kind \in {"heap", "index"}
      BY <2>1, <2>2 DEF DiskOK
    <3>3. n \in NamesOf(tableDefs)
      <4>1. PICK i \in DOMAIN Rows : Rows[i].name = n
        BY <3>2 DEF NamesOf
      <4>2. Rows[i] \in ToSet(tableDefs)
        BY <3>1 DEF TablesKnown, ToSet
      <4> QED
        BY <4>1, <4>2 DEF ToSet, NamesOf
    <3>4. /\ Defined(n) /\ FindTableDef(n) \in ToSet(tableDefs)
          /\ FindTableDef(n).name = n
      BY <3>3, FindTableDefIs
    <3>5. tableDefs[FindTableDef(n).index + 1] = FindTableDef(n)
      BY <2>1, <2>2, <3>1, <3>4, AtItsPosition DEF StateOK
    <3> QED
      BY <3>2, <3>4, <3>5 DEF SMOpen
  <2>3. ASSUME ~CanLoad
        PROVE  made \subseteq {RelTableDef}
    <3>1. made = NamesOf(Rows) /\ Rows \in Seq(RowSet) /\ Len(Rows) \in Nat /\ ~(Len(Rows) >= 2)
      BY <2>1, <2>3, RowsType DEF DiskOK, CanLoad, Rows
    <3>2. \A i, j \in DOMAIN Rows : i = j
      BY <3>1
    <3>3. \A n \in NamesOf(Rows) : n = RelTableDef
      <4> SUFFICES ASSUME NEW n \in NamesOf(Rows) PROVE n = RelTableDef
        OBVIOUS
      <4>1. PICK i \in DOMAIN Rows : Rows[i].name = n
        BY DEF NamesOf
      <4>2. Rows # <<>>
        BY <4>1
      <4>3. PICK j \in DOMAIN Rows : Rows[j].name = RelTableDef
        BY <4>2 DEF FirstOK, NamesOf
      <4> QED
        BY <3>2, <4>1, <4>3
    <3> QED
      BY <3>1, <3>3
  <2> QED
    BY <2>2, <2>3 DEF MadeTablesOpen
<1> QED
  BY <1>1, Inductive, FirstInductive, PTL

-----------------------------------------------------------------------------
\* How many entries an index gets.  A file that has no page has no rows, the file of
\* a statement has none until its index is filled, and the rows of a default table
\* go to a file that is no index.
EmptyOK == \A n \in Names : files[n].kind \in {"none", "blank"} => files[n].rows = 0

LastIndexIs(name) ==
    indexDefs # <<>> /\ Row(name, indexDefs[Len(indexDefs)].table) \in ToSet(Rows)

FreshOK ==
    todo # <<>> =>
        /\ Head(todo).op \in {"firstPage", "tableRow", "indexRow", "meta"} => files[Name].rows = 0
        /\ Head(todo).op \in {"indexRow", "meta"} => \E t \in Tables : Name = IndexName[t]
        /\ Head(todo).op = "insert" => files[Name].kind = "heap" /\ Name \in made
        /\ Head(todo).op = "fill" => files[Name].kind = "index"
        /\ Head(todo).op \in {"meta", "fill"} => LastIndexIs(Name)

\* The entries of an index are rows of its table, as long as the rows of reltabledef
\* are in the order in which the tables were made.
Excused(n) == MadeOnMove(n) \/ \E t \in Tables : n = IndexName[t] /\ files[t].kind = "index"

Within ==
    ~backfilled =>
        \A n \in Names : files[n].kind = "index" =>
            Excused(n) \/ \E t \in Tables : n = IndexName[t] /\ files[n].rows <= RowsOf(t)

FillInv == EmptyOK /\ FreshOK /\ Within

\* The numbers of rows.
Counts ==
    /\ \A n \in Names : files[n].kind \in FileKinds /\ files[n].rows \in Nat
    /\ Len(Rows) \in Nat /\ Len(indexRows) \in Nat
    /\ Tables \subseteq Names /\ \A t \in Tables : RowsOf(t) \in Nat

LEMMA CountsType == IInv => Counts
<1> SUFFICES ASSUME IInv PROVE Counts
  OBVIOUS
<1>1. StateOK
  BY DEF IInv
<1>2. \A n \in Names : files[n].kind \in FileKinds /\ files[n].rows \in Nat
  BY <1>1 DEF StateOK
<1>3. Len(Rows) \in Nat
  BY <1>1, RowsType
<1>4. Len(indexRows) \in Nat
  BY <1>1 DEF StateOK
<1>5. Tables \subseteq Names
  BY DEF Names
<1>6. \A t \in Tables : RowsOf(t) \in Nat
  BY <1>2, <1>3, <1>4, <1>5 DEF RowsOf, Rows
<1> QED
  BY <1>2, <1>3, <1>4, <1>5, <1>6 DEF Counts

LEMMA CountsTypeNext ==
    ASSUME IInv, IInv'
    PROVE  Counts /\ Counts'
BY CountsType, PTL

\* Nothing is ever taken out of a file.
LEMMA RowsOfGrow ==
    ASSUME IInv, IInv', Len(Rows) <= Len(Rows'), Len(indexRows) <= Len(indexRows'),
           \A n \in Names : files[n].rows <= files'[n].rows
    PROVE  \A t \in Tables : /\ RowsOf(t) \in Nat /\ RowsOf(t)' \in Nat
                             /\ RowsOf(t) <= RowsOf(t)'
<1> TAKE t \in Tables
<1>1. RowsOf(t) \in Nat /\ RowsOf(t)' \in Nat /\ t \in Names
  BY CountsTypeNext DEF Counts
<1>2. files[t].rows <= files'[t].rows
  BY <1>1
<1> QED
  BY <1>1, <1>2 DEF RowsOf, Rows

\* The indexes that a step leaves alone.
LEMMA WithinKeeps ==
    ASSUME IInv, IInv', Within, backfilled => backfilled',
           ToSet(Rows) \subseteq ToSet(Rows'),
           Len(Rows) <= Len(Rows'), Len(indexRows) <= Len(indexRows'),
           \A n \in Names : files[n].rows <= files'[n].rows,
           \A n \in Names : files[n].kind = "index" => files'[n].kind = "index",
           ~backfilled => \A n \in Names : files'[n].kind = "index" =>
               \/ files[n].kind = "index" /\ files'[n].rows = files[n].rows
               \/ Excused(n)
               \/ \E t \in Tables : n = IndexName[t] /\ files'[n].rows <= RowsOf(t)
    PROVE  Within'
<1> SUFFICES ASSUME ~backfilled, NEW n \in Names, files'[n].kind = "index", ~Excused(n)
             PROVE  \E t \in Tables : n = IndexName[t] /\ files'[n].rows <= RowsOf(t)'
  <2>1. ASSUME NEW n \in Names, Excused(n) PROVE Excused(n)'
    <3>1. CASE MadeOnMove(n)
      <4>1. PICK r \in ToSet(Rows) : r.name = n /\ Full(r.index)
        BY <3>1 DEF MadeOnMove, ToSet, Rows
      <4>2. r \in ToSet(Rows')
        BY <4>1
      <4>3. MadeOnMove(n)'
        BY <4>1, <4>2 DEF MadeOnMove, ToSet, Rows
      <4> QED
        BY <4>3 DEF Excused
    <3>2. CASE \E t \in Tables : n = IndexName[t] /\ files[t].kind = "index"
      BY <3>2 DEF Excused, Names
    <3> QED
      BY <2>1, <3>1, <3>2 DEF Excused
  <2> QED
    BY <2>1 DEF Within
<1>1. \E t \in Tables : n = IndexName[t] /\ files'[n].rows <= RowsOf(t)
  BY DEF Within
<1>2. PICK t \in Tables : n = IndexName[t] /\ files'[n].rows <= RowsOf(t)
  BY <1>1
<1>3. RowsOf(t) \in Nat /\ RowsOf(t)' \in Nat /\ RowsOf(t) <= RowsOf(t)'
  BY RowsOfGrow
<1>4. files'[n].rows \in Nat
  BY CountsTypeNext DEF Counts
<1>5. files'[n].rows <= RowsOf(t)'
  <2> DEFINE a == files'[n].rows
             b == RowsOf(t)
             c == RowsOf(t)'
  <2>1. a \in Nat /\ b \in Nat /\ c \in Nat /\ a <= b /\ b <= c
    BY <1>2, <1>3, <1>4
  <2> HIDE DEF a, b, c
  <2>2. a <= c
    BY <2>1
  <2> QED
    BY <2>2 DEF a, c
<1> QED
  BY <1>2, <1>5

\* Steps that change no file and no catalog row, and have nothing to do afterwards or
\* a whole statement.
LEMMA BeginsFill ==
    ASSUME IInv, IInv', FillInv, UNCHANGED <<files, relRows, indexRows, made, backfilled>>,
           \/ todo' = <<>>
           \/ Head(todo').op = "create"
           \/ todo' = todo /\ indexDefs' = indexDefs
    PROVE  FillInv'
<1>1. EmptyOK'
  BY DEF FillInv, EmptyOK
<1>2. FreshOK'
  <2>1. CASE todo' = todo /\ indexDefs' = indexDefs
    BY <2>1 DEF FillInv, FreshOK, Name, LastIndexIs, Rows
  <2>2. CASE todo' = <<>> \/ Head(todo').op = "create"
    BY <2>2 DEF FreshOK
  <2> QED
    BY <2>1, <2>2
<1>3. Within'
  BY DEF FillInv, Within, RowsOf, Excused, MadeOnMove
<1> QED
  BY <1>1, <1>2, <1>3 DEF FillInv

\* What the next step of the statement finds.
LEMMA AfterStep ==
    ASSUME IInv, FreshOK, up, todo # <<>>, StepDone,
           Head(todo).op \in {"create", "firstPage", "tableRow", "indexRow"} => files'[Name].rows = 0,
           Head(todo).op \in {"tableRow", "insert"} => files'[Name].kind = "heap" /\ Name \in made',
           Head(todo).op = "meta" => files'[Name].kind = "index",
           Head(todo).op \in {"indexRow", "meta"} =>
               indexDefs' # <<>> /\ Row(Name, indexDefs'[Len(indexDefs')].table) \in ToSet(Rows')
    PROVE  FreshOK'
<1> SUFFICES ASSUME todo' # <<>>
             PROVE  /\ Head(todo').op \in {"firstPage", "tableRow", "indexRow", "meta"} =>
                          files'[Name'].rows = 0
                    /\ Head(todo').op \in {"indexRow", "meta"} => \E t \in Tables : Name' = IndexName[t]
                    /\ Head(todo').op = "insert" => files'[Name'].kind = "heap" /\ Name' \in made'
                    /\ Head(todo').op = "fill" => files'[Name'].kind = "index"
                    /\ Head(todo').op \in {"meta", "fill"} =>
                          /\ indexDefs' # <<>>
                          /\ Row(Name', indexDefs'[Len(indexDefs')].table) \in ToSet(Rows')
  BY DEF FreshOK, LastIndexIs
<1>1. Link(Head(todo), Head(todo')) /\ WellFormed(todo')
  BY StepDoneIs
<1>2. Head(todo') \in Steps
  BY <1>1 DEF WellFormed
<1>3. Head(todo').op = "indexRow" => \E t \in Tables : Name' = IndexName[t]
  BY <1>2, StepNames DEF Name
<1>4. Head(todo').op = "meta" => \E t \in Tables : Name' = IndexName[t]
  BY <1>1 DEF Link, FreshOK, Name
<1>5. Head(todo').op \in {"firstPage", "tableRow", "indexRow", "meta"} => files'[Name'].rows = 0
  BY <1>1 DEF Link, Name
<1>6. Head(todo').op = "insert" => files'[Name'].kind = "heap" /\ Name' \in made'
  BY <1>1 DEF Link, Name
<1>7. /\ Head(todo').op = "fill" => files'[Name'].kind = "index"
      /\ Head(todo').op \in {"meta", "fill"} =>
            /\ indexDefs' # <<>>
            /\ Row(Name', indexDefs'[Len(indexDefs')].table) \in ToSet(Rows')
  BY <1>1 DEF Link, Name
<1> QED
  BY <1>3, <1>4, <1>5, <1>6, <1>7

\* A step that begins a statement, or ends it, the process or nothing.
LEMMA BeginStepsFill ==
    ASSUME IInv, IInv', FillInv,
           \/ Bootstrap \/ Load \/ LoadAborts \/ FileExists \/ CatalogOverruns \/ FillIndexAborts
           \/ Stop \/ Overwritten
           \/ \E n \in UserTables : CreateTable(n)
           \/ \E t \in Tables : CreateIndex(t)
           \/ UNCHANGED vars
    PROVE  FillInv'
<1>1. \A s, T : Statement(s, T) => Head(s).op = "create"
  BY DEF Statement
<1>2. CASE Bootstrap
  BY <1>1, <1>2, BootstrapIs, BeginsFill DEF Bootstrap, disk
<1>3. CASE Load
  BY <1>3, BeginsFill DEF Load, IInv, disk
<1>7. CASE LoadAborts \/ Overwritten \/ UNCHANGED vars
  BY <1>7, BeginsFill DEF LoadAborts, Overwritten, vars
<1>4. CASE FileExists \/ CatalogOverruns \/ FillIndexAborts \/ Stop
  BY <1>4, BeginsFill DEF FileExists, CatalogOverruns, FillIndexAborts, Stop, Down
<1>5. CASE \E n \in UserTables : CreateTable(n)
  <2>1. PICK n \in UserTables : CreateTable(n)
    BY <1>5
  <2>2. n \in Names
    BY DEF Names, Tables
  <2>3. Head(todo').op = "create"
    BY <1>1, <2>1, <2>2, CreateTableIs DEF CreateTable
  <2> QED
    BY <2>1, <2>3, BeginsFill DEF CreateTable, disk
<1>6. CASE \E t \in Tables : CreateIndex(t)
  <2>1. PICK t \in Tables : CreateIndex(t)
    BY <1>6
  <2>2. Head(todo').op = "create"
    BY <1>1, <2>1, CreateIndexIs DEF CreateIndex
  <2> QED
    BY <2>1, <2>2, BeginsFill DEF CreateIndex, disk
<1> QED
  BY <1>2, <1>3, <1>4, <1>5, <1>6, <1>7

\* A statement that runs.
LEMMA RunningIs ==
    ASSUME IInv, FillInv, up, todo # <<>>, StepDone
    PROVE  /\ StateOK /\ DiskOK /\ TablesKnown /\ StatementOK /\ EmptyOK /\ FreshOK
           /\ Within /\ Name \in Names /\ Head(todo) \in Steps
           /\ files \in [Names -> [kind : FileKinds, rows : Nat]]
BY StepDoneIs DEF IInv, FillInv, StateOK

\* The file of a new table.
LEMMA CreateFileFill ==
    ASSUME IInv, IInv', FillInv, CreateFile
    PROVE  FillInv'
<1>1. up /\ todo # <<>> /\ StepDone /\ Head(todo).op = "create" /\ files[Name].kind = "none"
  BY DEF CreateFile, IsNext
<1>2. /\ EmptyOK /\ FreshOK /\ Within /\ Name \in Names
      /\ files \in [Names -> [kind : FileKinds, rows : Nat]]
  BY <1>1, RunningIs
<1>3. files' = [files EXCEPT ![Name].kind = "blank"]
  BY DEF CreateFile
<1> DEFINE name == Name
<1> HIDE DEF name
<1>4. files[name].rows = 0 /\ name \in Names
  BY <1>1, <1>2 DEF EmptyOK, name
<1>5. /\ files'[name].kind = "blank" /\ files'[name].rows = 0
      /\ \A n \in Names \ {name} : files'[n] = files[n]
  BY <1>2, <1>3, <1>4 DEF name
<1>6. EmptyOK'
  BY <1>2, <1>4, <1>5 DEF EmptyOK
<1>7. FreshOK'
  BY <1>1, <1>2, <1>5, AfterStep DEF name
<1>8. Within'
  <2>1. Rows' = Rows /\ indexRows' = indexRows /\ backfilled' = backfilled
    BY DEF CreateFile, Rows
  <2>2. \A n \in Names : files[n].rows <= files'[n].rows
    BY <1>4, <1>5, CountsType DEF Counts
  <2>3. \A n \in Names : files'[n].kind = "index" =>
           files[n].kind = "index" /\ files'[n].rows = files[n].rows
    BY <1>5
  <2>4. Len(Rows) <= Len(Rows') /\ Len(indexRows) <= Len(indexRows')
    BY <2>1, CountsType DEF Counts
  <2>5. \A n \in Names : files[n].kind = "index" => files'[n].kind = "index"
    BY <1>1, <1>5 DEF name
  <2> QED
    BY <1>2, <2>1, <2>2, <2>3, <2>4, <2>5, WithinKeeps
<1> QED
  BY <1>6, <1>7, <1>8 DEF FillInv

\* Its first page; that of reltabledef has no rows.
LEMMA WriteFirstPageFill ==
    ASSUME IInv, IInv', FillInv, WriteFirstPage
    PROVE  FillInv'
<1>1. up /\ todo # <<>> /\ StepDone /\ Head(todo).op = "firstPage"
  BY DEF WriteFirstPage, IsNext
<1>2. /\ DiskOK /\ StatementOK /\ EmptyOK /\ FreshOK /\ Within /\ Name \in Names
      /\ files \in [Names -> [kind : FileKinds, rows : Nat]]
  BY <1>1, RunningIs
<1>3. files' = [files EXCEPT ![Name].kind = "heap"]
  BY DEF WriteFirstPage
<1> DEFINE name == Name
<1> HIDE DEF name
<1>4. files[name].rows = 0 /\ name \in Names
  BY <1>1, <1>2 DEF FreshOK, name
<1>5. /\ files'[name].kind = "heap" /\ files'[name].rows = 0
      /\ \A n \in Names \ {name} : files'[n] = files[n]
  BY <1>2, <1>3, <1>4 DEF name
<1>6. EmptyOK'
  BY <1>2, <1>4, <1>5 DEF EmptyOK
<1>7. FreshOK'
  BY <1>1, <1>2, <1>5, AfterStep DEF name
<1>8. Within'
  <2>1. indexRows' = indexRows /\ backfilled' = backfilled
    BY DEF WriteFirstPage
  <2>2. \A n \in Names : files[n].rows <= files'[n].rows
    BY <1>4, <1>5, CountsType DEF Counts
  <2>3. \A n \in Names : files'[n].kind = "index" =>
           files[n].kind = "index" /\ files'[n].rows = files[n].rows
    BY <1>5
  <2>4. Len(indexRows) <= Len(indexRows')
    BY <2>1, CountsType DEF Counts
  <2>5. Len(Rows) <= Len(Rows') /\ ToSet(Rows) \subseteq ToSet(Rows')
    <3>1. CASE Name = RelTableDef
      <4>1. files[RelTableDef].kind = "blank"
        BY <1>1, <1>2, <3>1 DEF StatementOK, RowPending
      <4>2. relRows = <<>> /\ relRows' = <<EmptyPage(PageSpan)>>
        BY <1>2, <3>1, <4>1 DEF DiskOK, WriteFirstPage
      <4>3. PageSpan \in Int
        BY NamesAssumption
      <4>4. Rows' = Rows
        BY <4>2, <4>3, NoRows DEF Rows
      <4> QED
        BY <4>4, CountsType DEF Counts
    <3>2. CASE Name # RelTableDef
      BY <3>2, CountsType DEF WriteFirstPage, Rows, Counts
    <3> QED
      BY <3>1, <3>2
  <2>6. \A n \in Names : files[n].kind = "index" => files'[n].kind = "index"
    <3>1. files[name].kind = "blank"
      BY <1>1, <1>2 DEF StatementOK, RowPending, name
    <3> QED
      BY <1>5, <3>1
  <2> QED
    BY <1>2, <2>1, <2>2, <2>3, <2>4, <2>5, <2>6, WithinKeeps
<1> QED
  BY <1>6, <1>7, <1>8 DEF FillInv

\* Its row.
LEMMA InsertTableRowFill ==
    ASSUME IInv, IInv', FillInv, InsertTableRow
    PROVE  FillInv'
<1>1. up /\ todo # <<>> /\ StepDone /\ Head(todo).op = "tableRow"
  BY DEF InsertTableRow, IsNext
<1>2. /\ StateOK /\ StatementOK /\ EmptyOK /\ FreshOK /\ Within /\ Name \in Names
  BY <1>1, RunningIs
<1>3. files' = files /\ indexRows' = indexRows /\ made' = made \cup {Name}
      /\ (backfilled => backfilled')
  BY DEF InsertTableRow
<1>4. EmptyOK'
  BY <1>2, <1>3 DEF EmptyOK
<1>5. files[Name].rows = 0 /\ files[Name].kind = "heap"
  BY <1>1, <1>2 DEF FreshOK, StatementOK, RowPending
<1>6. FreshOK'
  BY <1>1, <1>2, <1>3, <1>5, AfterStep
<1>7. Len(Rows) <= Len(Rows') /\ ToSet(Rows) \subseteq ToSet(Rows')
  <2> DEFINE row == Row(Name, FindTableDef(Name).index)
             p == RowPage
  <2>1. relRows \in Seq(Pages) /\ SizeOf[Name] \in Int /\ PageSpan \in Int
    BY <1>2, NamesAssumption DEF StateOK
  <2>2. p \in 1 .. Len(relRows) + 1
    BY <2>1, FirstFitIs DEF RowPage
  <2>3. row \in RowSet
    <3>1. Name \in NamesOf(tableDefs)
      <4>1. Row(Name, Len(Rows)) \in ToSet(tableDefs)
        BY <1>1, RunningIs DEF TablesKnown, RowPending
      <4> QED
        BY <4>1 DEF ToSet, NamesOf, Row
    <3>2. tableDefs \in Seq(RowSet)
      BY <1>2 DEF StateOK
    <3>3. FindTableDef(Name) \in RowSet
      BY <3>1, <3>2, FindTableDefIs, ElementOfSeq DEF ToSet
    <3> QED
      BY <1>2, <3>3 DEF Row, RowSet
  <2>4. relRows' = PutItem(relRows, p, row, SizeOf[Name], PageSpan)
    BY DEF InsertTableRow
  <2> HIDE DEF p, row
  <2>5. PICK m \in Nat : Inserted(Scan(relRows), Scan(relRows'), row, m)
    BY <2>1, <2>2, <2>3, <2>4, ScanPut
  <2>6. Len(Rows') = Len(Rows) + 1 /\ ToSet(Rows') = ToSet(Rows) \cup {row}
    <3>1. Scan(relRows) \in Seq(RowSet)
      BY <2>1, ItemsType
    <3> QED
      BY <2>3, <2>5, <3>1, InsertedIs DEF Rows
  <2> QED
    BY <2>6, CountsType DEF Counts
<1>8. Within'
  BY <1>2, <1>3, <1>7, WithinKeeps, CountsType DEF Counts
<1> QED
  BY <1>4, <1>6, <1>8 DEF FillInv

\* The row of an index.
LEMMA InsertIndexRowFill ==
    ASSUME IInv, IInv', FillInv, InsertIndexRow
    PROVE  FillInv'
<1>1. up /\ todo # <<>> /\ StepDone /\ Head(todo).op = "indexRow"
  BY DEF InsertIndexRow, IsNext
<1>2. /\ StateOK /\ EmptyOK /\ FreshOK /\ Within
  BY <1>1, RunningIs
<1>3. files' = files /\ Rows' = Rows /\ made' = made /\ backfilled' = backfilled
  BY DEF InsertIndexRow, Rows
<1>4. EmptyOK'
  BY <1>2, <1>3 DEF EmptyOK
<1>5. FreshOK'
  <2>1. PICK p : indexDefs' = Append(indexDefs, IndexRow(p, Len(tableDefs) - 1))
    BY DEF InsertIndexRow
  <2>2. Len(indexDefs') = Len(indexDefs) + 1 /\ Len(indexDefs) \in Nat
    BY <1>2, <2>1 DEF StateOK
  <2>3. indexDefs' # <<>>
    BY <2>2
  <2>4. indexDefs'[Len(indexDefs')] = IndexRow(p, Len(tableDefs) - 1)
    BY <1>2, <2>1, <2>2, AppendProperties DEF StateOK
  <2>5. Row(Name, Len(Rows) - 1) \in ToSet(Rows) /\ Len(tableDefs) = Len(Rows)
    <3>1. StatementOK /\ TablesKnown /\ ~RowPending
      BY <1>1, RunningIs DEF RowPending
    <3>2. Row(Name, Len(Rows) - 1) \in ToSet(Rows)
      BY <1>1, <3>1 DEF StatementOK
    <3> QED
      BY <3>1, <3>2, CountsType DEF TablesKnown, Counts
  <2>6. Row(Name, indexDefs'[Len(indexDefs')].table) \in ToSet(Rows')
    BY <1>3, <2>4, <2>5 DEF IndexRow
  <2> QED
    BY <1>1, <1>2, <1>3, <2>3, <2>6, AfterStep DEF FreshOK
<1>6. Len(indexRows) <= Len(indexRows')
  <2>1. PICK x : indexRows' = Append(indexRows, x)
    BY DEF InsertIndexRow
  <2>2. Len(indexRows') = Len(indexRows) + 1
    BY <1>2, <2>1 DEF StateOK
  <2> QED
    BY <2>2, CountsType DEF Counts
<1>7. Within'
  BY <1>2, <1>3, <1>6, WithinKeeps, CountsType DEF Counts
<1> QED
  BY <1>4, <1>5, <1>7 DEF FillInv

\* As long as the rows are in order, an entry of TableDefs opens its own file.
LEMMA OpensItself ==
    ASSUME TablesKnown, ~backfilled, NEW i \in DOMAIN tableDefs, i \in Int
    PROVE  SMOpen(tableDefs[i].index) = tableDefs[i].name
<1>1. tableDefs[i].index = i - 1
  BY DEF TablesKnown
<1>2. tableDefs[i].index + 1 = i
  BY <1>1
<1> QED
  BY <1>2 DEF SMOpen

\* A row of a default table goes to the file of a table in the catalog.
LEMMA InsertRowFill ==
    ASSUME IInv, IInv', FillInv, InsertRow
    PROVE  FillInv'
<1>1. up /\ todo # <<>> /\ StepDone /\ Head(todo).op = "insert" /\ ~RowPending
  BY DEF InsertRow, IsNext, RowPending
<1>2. /\ StateOK /\ DiskOK /\ TablesKnown /\ EmptyOK /\ FreshOK /\ Within /\ Name \in Names
      /\ files \in [Names -> [kind : FileKinds, rows : Nat]]
  BY <1>1, RunningIs
<1>3. /\ Rows' = Rows /\ indexRows' = indexRows /\ made' = made /\ backfilled' = backfilled
  BY DEF InsertRow, Rows
<1> DEFINE def == FindTableDef(Name)
           name == SMOpen(def.index)
<1>4. /\ ToSet(tableDefs) = ToSet(Rows) /\ Len(tableDefs) = Len(Rows) /\ Rows \in Seq(RowSet)
      /\ tableDefs \in Seq(RowSet) /\ NamesOf(Rows) \subseteq Names
  BY <1>1, <1>2, RowsType DEF TablesKnown, StateOK
<1>5. Name \in NamesOf(tableDefs)
  <2>1. Name \in NamesOf(Rows)
    BY <1>1, <1>2 DEF FreshOK, DiskOK
  <2>2. PICK i \in DOMAIN Rows : Rows[i].name = Name
    BY <2>1 DEF NamesOf
  <2>3. Rows[i] \in ToSet(tableDefs)
    BY <1>4 DEF ToSet
  <2> QED
    BY <2>2, <2>3 DEF ToSet, NamesOf
<1>6. /\ PositionOf(Name) \in DOMAIN tableDefs /\ def = tableDefs[PositionOf(Name)]
      /\ def.name = Name /\ def \in ToSet(Rows)
  BY <1>4, <1>5, FindTableDefIs
<1>7. name \in NamesOf(Rows)
  <2>1. def.index \in 0 .. Len(Rows) - 1
    BY <1>2, <1>6 DEF DiskOK, EachRowOnce, Rows, ToSet
  <2>2. def.index + 1 \in DOMAIN tableDefs
    BY <1>4, <2>1
  <2>3. tableDefs[def.index + 1] \in ToSet(Rows)
    BY <1>4, <2>2 DEF ToSet
  <2> QED
    BY <2>3 DEF SMOpen, ToSet, NamesOf
<1>8. ~backfilled => name = Name
  <2>1. PositionOf(Name) \in Int
    BY <1>4, <1>6
  <2> QED
    BY <1>2, <1>6, <2>1, OpensItself
<1>9. files' = [files EXCEPT ![name].rows = @ + 1]
  BY DEF InsertRow
<1> HIDE DEF def, name
<1>10. name \in Names /\ files[name].kind \in {"heap", "index"} /\ files[name].rows \in Nat
  BY <1>2, <1>4, <1>7, CountsType DEF DiskOK, Counts
<1>11. /\ files'[name].kind = files[name].kind /\ files'[name].rows = files[name].rows + 1
       /\ \A n \in Names \ {name} : files'[n] = files[n]
  BY <1>2, <1>9, <1>10
<1>12. EmptyOK'
  BY <1>2, <1>10, <1>11 DEF EmptyOK
<1>13. files'[Name].kind = "heap" /\ Name \in made
  <2>1. files[Name].kind = "heap" /\ Name \in made
    BY <1>1, <1>2 DEF FreshOK
  <2>2. files'[Name].kind = files[Name].kind
    BY <1>2, <1>11
  <2> QED
    BY <2>1, <2>2
<1>14. FreshOK'
  BY <1>1, <1>2, <1>3, <1>13, AfterStep
<1>15. Within'
  <2>1. \A n \in Names : files[n].rows <= files'[n].rows
    BY <1>10, <1>11, CountsType DEF Counts
  <2>2. ~backfilled => \A n \in Names : files'[n].kind = "index" =>
           files[n].kind = "index" /\ files'[n].rows = files[n].rows
    BY <1>8, <1>11, <1>13
  <2>3. \A n \in Names : files[n].kind = "index" => files'[n].kind = "index"
    BY <1>11
  <2> QED
    BY <1>2, <1>3, <2>1, <2>2, <2>3, WithinKeeps, CountsType DEF Counts
<1> QED
  BY <1>12, <1>14, <1>15 DEF FillInv

\* The meta page makes an empty index of the file.
LEMMA WriteMetaPageFill ==
    ASSUME IInv, IInv', FillInv, WriteMetaPage
    PROVE  FillInv'
<1>1. up /\ todo # <<>> /\ StepDone /\ Head(todo).op = "meta"
  BY DEF WriteMetaPage, IsNext
<1>2. /\ EmptyOK /\ FreshOK /\ Within /\ Name \in Names
      /\ files \in [Names -> [kind : FileKinds, rows : Nat]]
  BY <1>1, RunningIs
<1>3. Rows' = Rows /\ indexRows' = indexRows /\ made' = made /\ backfilled' = backfilled
  BY DEF WriteMetaPage, Rows
<1>4. files' = [files EXCEPT ![Name].kind = "index"]
  BY DEF WriteMetaPage
<1> DEFINE name == Name
<1> HIDE DEF name
<1>5. files[name].rows = 0 /\ name \in Names /\ \E t \in Tables : name = IndexName[t]
  BY <1>1, <1>2 DEF FreshOK, name
<1>6. /\ files'[name].kind = "index" /\ files'[name].rows = 0
      /\ \A n \in Names \ {name} : files'[n] = files[n]
  BY <1>2, <1>4, <1>5 DEF name
<1>7. EmptyOK'
  BY <1>2, <1>6 DEF EmptyOK
<1>8. FreshOK'
  <2>1. indexDefs' # <<>> /\ Row(Name, indexDefs'[Len(indexDefs')].table) \in ToSet(Rows')
    BY <1>1, <1>2, <1>3 DEF FreshOK, LastIndexIs, WriteMetaPage, memory
  <2> QED
    BY <1>1, <1>2, <1>6, <2>1, AfterStep DEF name
<1>9. Within'
  <2>1. \A n \in Names : files[n].rows <= files'[n].rows
    BY <1>5, <1>6, CountsType DEF Counts
  <2>2. \E t \in Tables : name = IndexName[t] /\ files'[name].rows <= RowsOf(t)
    <3>1. PICK t \in Tables : name = IndexName[t]
      BY <1>5
    <3>2. RowsOf(t) \in Nat
      BY CountsType DEF Counts
    <3>3. 0 <= RowsOf(t)
      BY <3>2
    <3> QED
      BY <1>6, <3>1, <3>3
  <2>3. \A n \in Names : files'[n].kind = "index" =>
           \/ files[n].kind = "index" /\ files'[n].rows = files[n].rows
           \/ \E t \in Tables : n = IndexName[t] /\ files'[n].rows <= RowsOf(t)
    BY <1>6, <2>2
  <2>4. \A n \in Names : files[n].kind = "index" => files'[n].kind = "index"
    BY <1>6
  <2> QED
    BY <1>2, <1>3, <2>1, <2>3, <2>4, WithinKeeps, CountsType DEF Counts
<1> QED
  BY <1>7, <1>8, <1>9 DEF FillInv

\* An entry for one row of the table more, as long as there is one.
LEMMA FillIndexFill ==
    ASSUME IInv, IInv', FillInv, FillIndex
    PROVE  FillInv'
<1>1. up /\ todo # <<>> /\ Head(todo).op = "fill" /\ todo' = todo /\ ~RowPending
  BY DEF FillIndex, Filling, IsNext, RowPending
<1>2. /\ StateOK /\ DiskOK /\ TablesKnown /\ EmptyOK /\ FreshOK /\ Within
      /\ files \in [Names -> [kind : FileKinds, rows : Nat]]
  BY <1>1 DEF IInv, FillInv, StateOK
<1>3. Head(todo).of \in Tables /\ Name = IndexName[Head(todo).of] /\ Name \in Names
  <2>1. Head(todo) \in Steps
    BY <1>1, <1>2 DEF StateOK, WellFormed
  <2> QED
    BY <1>1, <2>1, StepNames DEF Name
<1>4. Rows' = Rows /\ indexRows' = indexRows /\ made' = made /\ backfilled' = backfilled
  BY DEF FillIndex, Rows
<1> DEFINE name == Name
<1>5. files' = [files EXCEPT ![name].rows = @ + 1]
  BY DEF FillIndex
<1>6. ~backfilled /\ ~Excused(name) => \E t \in Tables : name = IndexName[t] /\ files[name].rows < RowsOf(t)
  <2> SUFFICES ASSUME ~backfilled, ~Excused(name)
               PROVE  \E t \in Tables : name = IndexName[t] /\ files[name].rows < RowsOf(t)
    OBVIOUS
  <2> DEFINE last == indexDefs[Len(indexDefs)]
             I == [parent : Nat, table : Nat]
  <2>1. Row(name, last.table) \in ToSet(Rows) /\ last \in ToSet(indexRows) /\ last \in I
    <3>1. indexDefs \in Seq(I) /\ indexDefs = indexRows
      BY <1>2 DEF StateOK, TablesKnown
    <3>2. indexDefs # <<>> /\ Row(name, last.table) \in ToSet(Rows)
      BY <1>1, <1>2 DEF FreshOK, LastIndexIs
    <3> HIDE DEF I
    <3>3. Len(indexDefs) \in DOMAIN indexDefs
      BY <3>1, <3>2
    <3> QED
      BY <3>1, <3>2, <3>3, ElementOfSeq DEF ToSet
  <2> HIDE DEF last
  <2>2. last.parent \in Nat /\ last.table \in Nat /\ Parent = last.parent
    BY <2>1 DEF Parent, last
  <2>3. ~Full(last.table)
    <3>1. Row(name, last.table).name = name /\ Row(name, last.table).index = last.table
      BY DEF Row
    <3>2. Full(last.table) => MadeOnMove(name)
      BY <2>1, <3>1 DEF MadeOnMove, ToSet, Rows
    <3> QED
      BY <3>2 DEF Excused
  <2>4. PICK t \in Tables : Row(IndexName[t], last.table) \in ToSet(Rows) /\ Row(t, last.parent) \in ToSet(Rows)
    BY <1>1, <2>1, <2>3 DEF IInv, IndexesOK, ToSet
  <2>5. /\ ToSet(Rows) \subseteq ToSet(tableDefs) /\ tableDefs \in Seq(RowSet)
        /\ \A n, k : Row(n, k).name = n /\ Row(n, k).index = k
    BY <1>2 DEF TablesKnown, StateOK, Row
  <2>6. \A n, k : Row(n, k) \in ToSet(tableDefs) => tableDefs[k + 1] = Row(n, k)
    BY <1>2, <2>5, AtItsPosition
  <2>7. name = IndexName[t]
    BY <2>1, <2>4, <2>5, <2>6
  <2>8. tableDefs[Parent + 1] = Row(t, Parent)
    BY <2>2, <2>4, <2>5, <2>6
  <2>9. Source = t
    BY <2>5, <2>8 DEF Source, SMOpen
  <2>10. files[t].kind # "index"
    BY <2>7 DEF Excused
  <2>11. files[name].rows < RowsOf(t)
    BY <2>9, <2>10 DEF FillIndex, RowsLeft, KeysLeft
  <2> QED
    BY <2>7, <2>11
<1> HIDE DEF name
<1>7. name \in Names /\ files[name].kind = "index" /\ files[name].rows \in Nat
  BY <1>1, <1>2, <1>3, CountsType DEF FreshOK, Counts, name
<1>8. /\ files'[name].kind = "index" /\ files'[name].rows = files[name].rows + 1
      /\ \A n \in Names \ {name} : files'[n] = files[n]
  BY <1>2, <1>5, <1>7
<1>9. EmptyOK'
  BY <1>2, <1>7, <1>8 DEF EmptyOK
<1>10. FreshOK'
  <2>1. indexDefs' # <<>> /\ Row(Name, indexDefs'[Len(indexDefs')].table) \in ToSet(Rows')
    BY <1>1, <1>2, <1>4 DEF FreshOK, LastIndexIs, FillIndex, memory
  <2> QED
    BY <1>1, <1>8, <2>1 DEF FreshOK, LastIndexIs, Name, name
<1>11. Within'
  <2>1. \A n \in Names : files[n].rows <= files'[n].rows
    BY <1>7, <1>8, CountsType DEF Counts
  <2>2. ~backfilled /\ ~Excused(name) =>
           \E t \in Tables : name = IndexName[t] /\ files'[name].rows <= RowsOf(t)
    <3> SUFFICES ASSUME NEW t \in Tables, name = IndexName[t], files[name].rows < RowsOf(t)
                 PROVE  files'[name].rows <= RowsOf(t)
      BY <1>6
    <3> DEFINE a == files[name].rows
               b == RowsOf(t)
    <3>1. a \in Nat /\ b \in Nat /\ a < b /\ files'[name].rows = a + 1
      BY <1>7, <1>8, CountsType DEF Counts
    <3> HIDE DEF a, b
    <3>2. a + 1 <= b
      BY <3>1
    <3> QED
      BY <3>1, <3>2 DEF b
  <2>3. \A n \in Names : files[n].kind = "index" => files'[n].kind = "index"
    BY <1>8
  <2>4. ~backfilled => \A n \in Names : files'[n].kind = "index" =>
           \/ files[n].kind = "index" /\ files'[n].rows = files[n].rows
           \/ Excused(n)
           \/ \E t \in Tables : n = IndexName[t] /\ files'[n].rows <= RowsOf(t)
    BY <1>8, <2>2
  <2> QED
    BY <1>2, <1>4, <2>1, <2>3, <2>4, WithinKeeps, CountsType DEF Counts
<1> QED
  BY <1>9, <1>10, <1>11 DEF FillInv

LEMMA FillIndexEndsFill ==
    ASSUME IInv, IInv', FillInv, FillIndexEnds
    PROVE  FillInv'
<1>1. up /\ todo # <<>> /\ StepDone /\ Head(todo).op = "fill"
  BY DEF FillIndexEnds, Filling, IsNext
<1>2. UNCHANGED <<files, relRows, indexRows, made, backfilled>>
  BY DEF FillIndexEnds, disk
<1>3. EmptyOK'
  BY <1>2 DEF FillInv, EmptyOK
<1>4. FreshOK'
  BY <1>1, AfterStep DEF FillInv
<1>5. Within'
  BY <1>2 DEF FillInv, Within, RowsOf, Excused, MadeOnMove
<1> QED
  BY <1>3, <1>4, <1>5 DEF FillInv

LEMMA NextFill ==
    ASSUME IInv, IInv', FillInv, [Next]_vars
    PROVE  FillInv'
<1>1. CASE \/ Bootstrap \/ Load \/ LoadAborts \/ FileExists \/ CatalogOverruns \/ FillIndexAborts
           \/ Stop \/ Overwritten
           \/ \E n \in UserTables : CreateTable(n)
           \/ \E t \in Tables : CreateIndex(t)
           \/ UNCHANGED vars
  BY <1>1, BeginStepsFill
<1>2. CASE CreateFile
  BY <1>2, CreateFileFill
<1>3. CASE WriteFirstPage
  BY <1>3, WriteFirstPageFill
<1>4. CASE InsertTableRow
  BY <1>4, InsertTableRowFill
<1>5. CASE InsertRow
  BY <1>5, InsertRowFill
<1>6. CASE InsertIndexRow
  BY <1>6, InsertIndexRowFill
<1>7. CASE WriteMetaPage
  BY <1>7, WriteMetaPageFill
<1>8. CASE FillIndex
  BY <1>8, FillIndexFill
<1>9. CASE FillIndexEnds
  BY <1>9, FillIndexEndsFill
<1> QED
  BY <1>1, <1>2, <1>3, <1>4, <1>5, <1>6, <1>7, <1>8, <1>9 DEF Next

\* An index has no more entries than its table has rows, wherever the process ended
\* and whatever column names the tables share, as long as the rows of reltabledef are
\* in the order in which the tables were made; indexes pushed when TableDefs moved and
\* indexes on indexes excused.
THEOREM IndexesStayWithin == Spec => []IndexWithinTable
<1>1. Init => FillInv
  BY DEF Init, FillInv, EmptyOK, FreshOK, Within, NoFile
<1>2. IInv /\ IInv' /\ FillInv /\ [Next]_vars => FillInv'
  BY NextFill
<1>3. FillInv => IndexWithinTable
  <2> SUFFICES ASSUME FillInv, ~backfilled, NEW n \in Names, files[n].kind = "index", ~MadeOnMove(n)
               PROVE  \E t \in Tables : /\ n = IndexName[t]
                                        /\ files[t].kind = "index" \/ files[n].rows <= RowsOf(t)
    BY DEF IndexWithinTable
  <2> QED
    BY DEF FillInv, Within, Excused
<1> QED
  BY <1>1, <1>2, <1>3, Inductive, PTL DEF Spec

\* Whether a page is overwritten is a truth value.
FlagOK == wrapped \in BOOLEAN

LEMMA FlagKept == Spec => []FlagOK
<1>1. Init => FlagOK
  BY DEF Init, FlagOK
<1>2. FlagOK /\ [Next]_vars => FlagOK'
  <2> SUFFICES ASSUME [Next]_vars PROVE wrapped' = wrapped \/ wrapped' = TRUE
    BY DEF FlagOK
  <2>1. CASE Bootstrap \/ Load \/ LoadAborts \/ FileExists \/ FillIndexAborts \/ Stop \/ Overwritten
    BY <2>1 DEF Bootstrap, Load, LoadAborts, FileExists, FillIndexAborts, Stop, Overwritten, vars
  <2>2. CASE (\E n \in UserTables : CreateTable(n)) \/ (\E t \in Tables : CreateIndex(t))
    BY <2>2 DEF CreateTable, CreateIndex
  <2>3. CASE CreateFile \/ WriteFirstPage \/ InsertTableRow \/ InsertRow
    BY <2>3 DEF CreateFile, WriteFirstPage, InsertTableRow, InsertRow
  <2>4. CASE CatalogOverruns \/ InsertIndexRow \/ WriteMetaPage \/ FillIndex \/ FillIndexEnds
    BY <2>4 DEF CatalogOverruns, InsertIndexRow, WriteMetaPage, FillIndex, FillIndexEnds
  <2>5. CASE UNCHANGED vars
    BY <2>5 DEF vars
  <2> QED
    BY <2>1, <2>2, <2>3, <2>4, <2>5 DEF Next
<1> QED
  BY <1>1, <1>2, PTL DEF Spec

\* Files, rows and definitions keep their types, for every number of tables.
THEOREM TypeCorrect == Spec => []TypeOK
<1>1. IInv /\ FlagOK => TypeOK
  <2> SUFFICES ASSUME IInv, FlagOK PROVE TypeOK
    OBVIOUS
  <2>1. StateOK /\ made = NamesOf(Rows)
    BY DEF IInv, DiskOK
  <2>2. Rows \in Seq(RowSet) /\ NamesOf(Rows) \subseteq Names
    BY <2>1, RowsType
  <2>3. \A i \in DOMAIN Rows : Rows[i] \in RowSet
    BY <2>2, ElementOfSeq
  <2> QED
    BY <2>1, <2>2, <2>3 DEF TypeOK, StateOK, Rows, RowSet, FlagOK
<1> QED
  BY <1>1, Inductive, FlagKept, PTL

=============================================================================
