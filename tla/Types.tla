--------------------------------- MODULE Types ---------------------------------
(***************************************************************************)
(* The data types: what a datum is, which operators a type has, and what   *)
(* the functions that op_func points to compute.  A datum carries its type *)
(* and a number: an int its value, a bool 0 or 1, a text its rank in the   *)
(* order of strcmp.  An evaluation can also end the process: by an assert, *)
(* or by the trap of a division.                                           *)
(***************************************************************************)
EXTENDS Integers

CONSTANT IntMax   \* INT_MAX, 2^31 - 1 in the code

ASSUME IntMaxAssumption == IntMax \in Nat

IntMin == -IntMax - 1

ColTypes == {"text", "bool", "int"}          \* StringToType knows these
BTypes == ColTypes \cup {"null", "unknown"}

Datum(type, val) == [type |-> type, val |-> val]
Null == Datum("null", 0)
Bool(b) == Datum("bool", IF b THEN 1 ELSE 0)

Data == {Null} \cup [type : {"bool"}, val : {0, 1}]
               \cup [type : {"int"}, val : IntMin .. IntMax]
               \cup [type : {"text"}, val : Int]

\* The end of the process in the middle of an evaluation.
Death(why) == [died |-> why]
IsDeath(x) == "died" \in DOMAIN x

-----------------------------------------------------------------------------
\* The two's complement int that the machine's addition, subtraction and
\* multiplication leave.
WrapNever(n) == n
Wrap(n) == ((n - IntMin) % (2 * (IntMax + 1))) + IntMin

\* C's division rounds towards zero.
Abs(n) == IF n < 0 THEN -n ELSE n
Quotient(x, y) ==
    IF (x < 0) = (y < 0) THEN Abs(x) \div Abs(y) ELSE -(Abs(x) \div Abs(y))
DivisionTraps(x, y) == y = 0 \/ (x = IntMin /\ y = -1)

-----------------------------------------------------------------------------
Comparisons == {"=", "!=", ">", ">=", "<", "<="}
Connectives == {"and", "or"}
Arithmetic  == {"+", "-", "*", "/"}
Operators == Comparisons \cup Connectives \cup Arithmetic

\* The cases of CheckType that set op_func; the others panic.
Supports(type, op) ==
    \/ op \in Comparisons
    \/ type = "bool" /\ op \in Connectives
    \/ type = "int" /\ op \in Arithmetic

ReturnTypeOfOperands(type, op) == type
ReturnType(type, op) == IF op \in Arithmetic THEN "int" ELSE "bool"

Compare(op, x, y) ==
    CASE op = "="  -> x = y
      [] op = "!=" -> x # y
      [] op = ">"  -> x > y
      [] op = ">=" -> x >= y
      [] op = "<"  -> x < y
      [] op = "<=" -> x <= y

Connect(op, x, y) ==
    IF op = "and" THEN x = 1 /\ y = 1 ELSE x = 1 \/ y = 1

Calculate(op, x, y) ==
    CASE op = "+" -> Wrap(x + y)
      [] op = "-" -> Wrap(x - y)
      [] op = "*" -> Wrap(x * y)
      [] op = "/" -> Quotient(x, y)

\* A call of the op_func that CheckType has chosen for operands of this type.
OpFunc(type, op, d1, d2) ==
    CASE d1.type # type \/ d2.type # type -> Death("operands")
      [] op = "/" /\ d1.type = type /\ d2.type = type /\ DivisionTraps(d1.val, d2.val) ->
            Death("division")
      [] OTHER ->
            IF op \in Comparisons THEN Bool(Compare(op, d1.val, d2.val))
            ELSE IF op \in Connectives THEN Bool(Connect(op, d1.val, d2.val))
            ELSE Datum("int", Calculate(op, d1.val, d2.val))
=============================================================================
