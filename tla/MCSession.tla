------------------------------- MODULE MCSession -------------------------------
(***************************************************************************)
(* An instance of Session: the tables of the bootstrap, a table of ints    *)
(* that a session may create, and statements over them, right and wrong    *)
(* ones.  The grammar has no parentheses: the right operand of a           *)
(* comparison is never a comparison, that of AND and OR never AND or OR.   *)
(***************************************************************************)
EXTENDS Session

Text(rank) == Datum("text", rank)   \* asdf, cab, hello, world
Number(i) == Datum("int", i)

BootTables ==
    <<[name |-> "foo", cols |-> <<Column("bar", "text"), Column("baz", "bool")>>,
       rows |-> <<<<Text(3), Bool(TRUE)>>, <<Text(4), Bool(FALSE)>>>>],
      [name |-> "b", cols |-> <<Column("a", "text")>>,
       rows |-> <<<<Text(1)>>, <<Text(2)>>>>]>>

Eq(l, r) == Bin(l, "=", r)
TheText(rank) == Lit(Text(rank))
TheInt(i) == Lit(Number(i))
True == Lit(Bool(TRUE))
NoValue == Lit(Null)

bar == Id("bar")
baz == Id("baz")
a == Id("a")
n == Id("n")
m == Id("m")
ghost == Id("ghost")

Foo == RangeVar("foo")
B == RangeVar("b")
T == RangeVar("t")

\* The expressions.
Atoms ==
    {Lit(datum) : datum \in {Null, Bool(TRUE)} \cup {Text(rank) : rank \in 2 .. 4}
                            \cup {Number(i) : i \in {-4, -1, 0, 1, 3}}}
    \cup {bar, baz, a, n, m, ghost}
OfAtoms ==
    {Bin(n, op, m) : op \in Operators \ {"and", "or", "<", "<=", "!="}}
    \cup {Eq(n, NoValue), Eq(m, TheInt(1)), Bin(TheInt(1), "/", n)}
    \cup {Bin(n, "+", TheInt(1)), Bin(TheInt(1), "+", TheInt(1)), Bin(TheInt(0), "/", TheInt(0))}
    \cup {Eq(baz, bar), Bin(baz, "or", bar), Bin(baz, "and", True)}
    \cup {Eq(bar, TheText(3)), Eq(bar, NoValue), Bin(bar, "<", TheText(4)), Bin(bar, "+", bar)}
    \cup {Bin(a, "<", bar), Eq(a, bar), Eq(a, baz), Eq(NoValue, NoValue)}
QuotientIsOne == Eq(Bin(n, "/", m), TheInt(1))
Successor == Bin(Bin(n, "+", TheInt(1)), ">", m)
Either == Bin(Eq(n, m), "or", Eq(m, TheInt(1)))
SomeExprs == Atoms \cup OfAtoms \cup {QuotientIsOne, Successor, Either}

\* The FROM clauses.  Joins: without a condition, with one that compares, or that is
\* of another type, and three tables to the left and to the right; some ON clauses
\* name columns of a table outside their join.  Twice the same table.
FooB == Join(Foo, B, Bin(a, "<", bar))
FooBOutside == Join(Foo, B, Eq(n, m))
Joins ==
    {FooB, FooBOutside, Join(Foo, B, Absent)}
    \cup {Join(B, Foo, on) : on \in {baz, a, Eq(a, baz)}}
    \cup {Join(FooB, T, Eq(n, m)), Join(FooBOutside, T, Absent)}
    \cup {Join(T, f, baz) : f \in {FooB, FooBOutside}}
SelfJoins == {Join(Foo, Foo, on) : on \in {Absent, baz}}
SomeFromClauses == {RangeVar(t) : t \in {"foo", "b", "t", "ghost"}} \cup Joins \cup SelfJoins

RECURSIVE HeightOf(_)
HeightOf(tree) ==
    CASE tree.type = "bin"  -> 1 + Max({HeightOf(tree.lhs), HeightOf(tree.rhs)})
      [] tree.type = "join" -> 1 + Max({HeightOf(tree.left), HeightOf(tree.right)})
      [] OTHER              -> 0
SomeHeights == [tree \in SomeExprs \cup SomeFromClauses |-> HeightOf(tree)]

-----------------------------------------------------------------------------
\* CREATE TABLE: t of two ints, of two columns with one name, or of a type that does
\* not exist; names that exist.
Creating(table, columns) == [kind |-> "create", table |-> table, columns |-> columns]
SomeCreateTables ==
    {Creating("t", <<Column("n", "int"), Column("m", "int")>>),
     Creating("t", <<Column("n", "int"), Column("n", "int")>>),
     Creating("t", <<Column("n", "float")>>),
     Creating("u", <<Column("bar", "int")>>),
     Creating("foo", <<Column("k", "int")>>)}

Inserting(table, columns, values) ==
    [kind |-> "insert", table |-> table, columns |-> columns, values |-> values]
nm == <<"n", "m">>
SomeInserts ==
    {Inserting("t", nm, v) :
        v \in {<<<<TheInt(3), TheInt(-1)>>>>,
               <<<<TheInt(0), TheInt(1)>>, <<NoValue, TheInt(1)>>>>,
               <<<<Bin(TheInt(1), "+", TheInt(1)), TheInt(-4)>>>>,
               <<<<TheInt(1), TheInt(1)>>, <<TheInt(0), Bin(TheInt(0), "/", TheInt(0))>>>>,
               <<<<TheInt(1), n>>>>,
               <<<<TheInt(1), True>>>>}}
    \cup {Inserting("t", c, v) :
            c \in {<<"n">>, <<"n", "n">>, <<"n", "n", "n">>, <<"n", "ghost">>},
            v \in {<<<<TheInt(1)>>>>, <<<<TheInt(1), TheInt(0)>>>>,
                   <<<<TheInt(1), TheInt(0), TheInt(0)>>>>}}
    \cup {Inserting("foo", c, <<<<TheText(2), True>>>>) :
            c \in {<<"bar", "baz">>, <<"baz", "bar">>}}
    \cup {Inserting("ghost", <<"n">>, <<<<TheInt(1)>>>>)}

Assign(column, value) == [column |-> column, value |-> value]
Updating(table, assigns, where) ==
    [kind |-> "update", table |-> table, assigns |-> assigns, where |-> where]
SomeUpdates ==
    {Updating("t", s, w) :
        s \in {<<Assign("n", m), Assign("m", n)>>,
               <<Assign("n", Bin(n, "+", m))>>,
               <<Assign("n", TheInt(0)), Assign("n", Bin(n, "*", m))>>,
               <<Assign("m", Bin(TheInt(1), "/", n))>>},
        w \in {Absent, Eq(m, TheInt(1))}}
    \cup {Updating("foo", s, Absent) :
        s \in {<<Assign("baz", Eq(bar, TheText(3)))>>,
               <<Assign("bar", True)>>, <<Assign("ghost", True)>>,
               <<Assign("baz", Eq(baz, bar))>>}}
    \cup {Updating("ghost", <<Assign("bar", True)>>, Absent)}

Deleting(table, where) == [kind |-> "delete", table |-> table, where |-> where]
SomeDeletes ==
    {Deleting("t", w) : w \in {Absent, Eq(m, TheInt(1)), Bin(n, ">", m), QuotientIsOne}}
    \cup {Deleting("foo", w) : w \in {baz, Eq(bar, NoValue), bar}}
    \cup {Deleting("ghost", Absent)}

-----------------------------------------------------------------------------
Selecting(targets, from, where, sort) ==
    [kind |-> "select", targets |-> targets, from |-> from, where |-> where, sort |-> sort]

\* Of one table.
OfFoo ==
    {Selecting(t, Foo, w, o) :
        t \in {<<bar, baz>>, <<Eq(bar, TheText(3)), Bin(baz, "and", True), bar>>,
               <<bar, bar, NoValue>>},
        w \in {Absent, Bin(bar, "<", TheText(4)), baz, Bin(baz, "or", bar)},
        o \in {Absent, baz}}
    \cup {Selecting(t, Foo, Absent, Absent) :
            t \in {<<ghost>>, <<Bin(bar, "+", bar)>>, <<Eq(baz, bar)>>, <<Eq(NoValue, NoValue)>>}}
    \cup {Selecting(<<bar>>, Foo, Absent, o) : o \in {ghost, True}}
    \cup {Selecting(<<bar>>, f, Absent, Absent) : f \in {Absent, RangeVar("ghost")}}
OfT ==
    {Selecting(t, T, w, o) :
        t \in {<<Bin(n, "+", m), Bin(n, "-", m)>>,
               <<Bin(n, "*", m), Successor>>, <<Bin(n, "/", m)>>},
        w \in {Absent, Bin(n, ">=", m), Eq(n, NoValue), Either},
        o \in {Absent, n}}

OfJoins ==
    {Selecting(t, f, Absent, Absent) :
        t \in {<<bar, a>>, <<Eq(a, bar), Eq(bar, TheText(3))>>}, f \in Joins}
    \cup {Selecting(<<bar, baz>>, f, Absent, Absent) : f \in SelfJoins}

SomeSelects == OfFoo \cup OfT \cup OfJoins

=============================================================================
