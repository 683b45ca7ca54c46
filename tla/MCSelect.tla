------------------------------- MODULE MCSelect -------------------------------
(***************************************************************************)
(* An instance of Select: joins of up to three tables, in every shape and  *)
(* with every method that the grammar gives.  A join with ON nests to the  *)
(* left, or to the right when its ON clauses are stacked; a comma binds    *)
(* tighter than another comma or JOIN behind it, but LEFT, RIGHT and OUTER *)
(* have no precedence, and the parser shifts them.                         *)
(***************************************************************************)
EXTENDS Select

CONSTANTS a, b, c

ThreeTables == {a, b, c}
FewContents == {<<>>, <<2, 1>>, <<2, 2>>, <<1, Null>>}

Equal(l, r) == [lhs |-> l, op |-> "=", rhs |-> r]

\* How two tables may be joined: the method and the ON clause.
Comma == <<"inner", None>>
On(methods, l, r) == methods \X {Equal(l, r)}
Methods3 == {"inner", "left", "right"}

\* a w1 b w2 c, joined from the left or from the right.
Pair(l, w, r) == Join(RangeVar(l), w[1], RangeVar(r), w[2])
Leftmost(w1, w2) == Join(Pair(a, w1, b), w2[1], RangeVar(c), w2[2])
Rightmost(w1, w2) == Join(RangeVar(a), w1[1], Pair(b, w2, c), w1[2])

Outer == <<"outer", Equal(b, c)>>
Ones == {RangeVar(t) : t \in ThreeTables}
Pairs ==
    {Pair(a, w, b) : w \in {Comma, <<"outer", Equal(a, b)>>} \cup On(Methods3, a, b)}
    \cup {Pair(b, w, c) : w \in {Comma, Outer} \cup On(Methods3, b, c)}
LeftDeep ==
    {Leftmost(w1, w2) : w1 \in On(Methods3, a, b), w2 \in {Comma, Outer} \cup On(Methods3, b, c)}
    \cup {Leftmost(Comma, w2) : w2 \in {Comma} \cup On({"inner"}, b, c)}
RightDeep ==
    {Rightmost(w1, w2) : w1 \in On(Methods3, a, b), w2 \in {Comma, Outer} \cup On(Methods3, b, c)}
    \cup {Rightmost(Comma, w2) : w2 \in {Outer} \cup On({"left", "right"}, b, c)}
SomeFromClauses == Ones \cup Pairs \cup LeftDeep \cup RightDeep

LastColumn(from) == CASE c \in from.columns -> c
                      [] c \notin from.columns /\ b \in from.columns -> b
                      [] OTHER -> a
Wheres(from) ==
    {None, [lhs |-> LastColumn(from), op |-> "<", rhs |-> 3],
     [lhs |-> 2, op |-> "=", rhs |-> LastColumn(from)]}
    \cup {[lhs |-> column, op |-> ">", rhs |-> 1] : column \in {a} \cap from.columns}
Sorts(from) == {None, [col |-> LastColumn(from), desc |-> TRUE]}
                   \cup {[col |-> column, desc |-> FALSE] : column \in {a} \cap from.columns}

SomeQueries ==
    UNION {[from : {f}, where : Wheres(f), sort : {None}]
           \cup [from : {f}, where : {None}, sort : Sorts(f)] : f \in LeftDeep \cup RightDeep}
    \cup UNION {[from : {f}, where : Wheres(f), sort : Sorts(f)] : f \in Ones \cup Pairs}
=============================================================================
