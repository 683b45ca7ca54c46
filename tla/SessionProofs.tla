----------------------------- MODULE SessionProofs -----------------------------
(***************************************************************************)
(* Proofs about the session, for every width of an int, all parse trees    *)
(* and statements over them, any tables that the bootstrap makes and every *)
(* number of rows: what an expression that CheckType lets through          *)
(* evaluates to, what a scan of a FROM clause returns, and what a          *)
(* statement leaves and prints.                                            *)
(***************************************************************************)
EXTENDS Session, SequenceLemmas

-----------------------------------------------------------------------------
\* Data and operators.
Deaths == {Death(why) : why \in {"operands", "division", "GetCol"}}

\* NULL is the one datum of its type, and no datum is a death.
LEMMA DataFacts ==
    /\ Null \in Data
    /\ \A d \in Data : /\ d.type \in ColTypes \cup {"null"} /\ d.val \in Int
                       /\ ~IsDeath(d) /\ d = Datum(d.type, d.val)
                       /\ d.type = "null" <=> d = Null
                       /\ d.type = "int" => d.val \in IntMin .. IntMax
                       /\ d.type = "bool" => d.val \in {0, 1}
    /\ \A d \in Deaths : IsDeath(d)
<1>1. \A d \in Data : d.type \in ColTypes \cup {"null"} /\ d.val \in Int
  BY IntMaxAssumption DEF Data, Null, Datum, ColTypes, IntMin
<1>2. \A d \in Data : DOMAIN d = {"type", "val"} /\ d = [type |-> d.type, val |-> d.val]
  BY DEF Data, Null, Datum
<1>3. \A d \in Data : d.type = "null" <=> d = Null
  BY DEF Data, Null, Datum
<1>4. \A d \in Data : /\ d.type = "int" => d.val \in IntMin .. IntMax
                      /\ d.type = "bool" => d.val \in {0, 1}
  BY DEF Data, Null, Datum
<1>5. \A d \in Deaths : IsDeath(d)
  BY DEF Deaths, Death, IsDeath
<1>6. Null \in Data
  BY DEF Data
<1> QED
  BY <1>1, <1>2, <1>3, <1>4, <1>5, <1>6 DEF IsDeath, Datum

\* What overflows is wrapped into the range of an int.
LEMMA WrapInRange == \A n \in Int : Wrap(n) \in IntMin .. IntMax
<1> TAKE n \in Int
<1> DEFINE w == 2 * (IntMax + 1)
<1>1. w \in Int /\ w > 0 /\ IntMin \in Int /\ n - IntMin \in Int
  BY IntMaxAssumption DEF IntMin
<1>2. (n - IntMin) % w \in 0 .. w - 1
  <2> HIDE DEF w
  <2> QED
    BY <1>1
<1> QED
  BY <1>2, IntMaxAssumption DEF Wrap, IntMin

\* A quotient is no greater than what is divided, and less if the divisor is not 1.
LEMMA DivLess ==
    \A a \in Nat, b \in Nat \ {0} :
        /\ a \div b \in Nat /\ a \div b <= a
        /\ b > 1 /\ a > 0 => a \div b < a
<1> TAKE a \in Nat, b \in Nat \ {0}
<1> DEFINE q == a \div b
           r == a % b
<1>1. q \in Int /\ r \in 0 .. b - 1 /\ a = b * q + r
  OBVIOUS
<1> HIDE DEF q, r
<1>2. q >= 0
  <2> SUFFICES ASSUME q <= -1 PROVE FALSE
    BY <1>1
  <2>1. b * q <= -b
    BY <1>1
  <2> QED
    BY <1>1, <2>1
<1>3. b * q >= q
  BY <1>1, <1>2
<1>4. b > 1 /\ q > 0 => b * q > q
  BY <1>1
<1> QED
  BY <1>1, <1>2, <1>3, <1>4 DEF q

\* A division that does not trap has an int for its result.
LEMMA QuotientInRange ==
    \A x, y \in IntMin .. IntMax : ~DivisionTraps(x, y) => Quotient(x, y) \in IntMin .. IntMax
<1> TAKE x, y \in IntMin .. IntMax
<1> HAVE ~DivisionTraps(x, y)
<1> DEFINE a == Abs(x)
           b == Abs(y)
           q == a \div b
<1>1. /\ IntMax \in Nat /\ IntMin = -IntMax - 1 /\ x \in Int /\ y \in Int
      /\ x >= IntMin /\ x <= IntMax /\ y >= IntMin /\ y <= IntMax
  BY IntMaxAssumption DEF IntMin
<1>2. a \in Nat /\ b \in Nat \ {0} /\ a <= IntMax + 1
  BY <1>1 DEF Abs, DivisionTraps
<1>3. q \in Nat /\ q <= a /\ (b > 1 /\ a > 0 => q < a)
  <2> HIDE DEF a, b
  <2> QED
    BY <1>2, DivLess
<1>4. a = IntMax + 1 => x = IntMin
  BY <1>1 DEF Abs
<1>5. x = IntMin /\ b = 1 => y = 1
  BY <1>1 DEF Abs, DivisionTraps
<1>6. CASE (x < 0) = (y < 0)
  <2>1. q <= IntMax
    <3>1. CASE a <= IntMax
      <4> HIDE DEF a, q
      <4> QED
        BY <1>1, <1>2, <1>3, <3>1
    <3>2. CASE a = IntMax + 1
      <4>1. x < 0 /\ y < 0
        BY <1>1, <1>4, <1>6, <3>2
      <4>2. b # 1
        BY <1>4, <1>5, <3>2, <4>1
      <4> HIDE DEF a, b, q
      <4> QED
        BY <1>1, <1>2, <1>3, <3>2, <4>2
    <3> HIDE DEF a
    <3> QED
      BY <1>1, <1>2, <3>1, <3>2
  <2>2. Quotient(x, y) = q
    BY <1>6 DEF Quotient
  <2> HIDE DEF q
  <2> QED
    BY <1>1, <1>3, <2>1, <2>2
<1>7. CASE (x < 0) # (y < 0)
  <2>1. Quotient(x, y) = -q
    BY <1>7 DEF Quotient
  <2> HIDE DEF q, a
  <2> QED
    BY <1>1, <1>2, <1>3, <2>1
<1> QED
  BY <1>6, <1>7

\* What op_func computes for operands of its type has the type that CheckType
\* returns; for operands of another type it dies, and so does a division.
LEMMA OpFuncTyped ==
    ASSUME NEW type \in ColTypes, NEW op \in Operators, Supports(type, op),
           NEW d1 \in Data \ {Null}, NEW d2 \in Data \ {Null}
    PROVE  /\ OpFunc(type, op, d1, d2) \in (Data \ {Null}) \cup Deaths
           /\ OpFunc(type, op, d1, d2) \in Data =>
                  OpFunc(type, op, d1, d2).type = ReturnType(type, op)
           /\ d1.type = type /\ d2.type = type /\ op # "/" => OpFunc(type, op, d1, d2) \in Data
<1> DEFINE x == OpFunc(type, op, d1, d2)
<1>1. Death("operands") \in Deaths /\ Death("division") \in Deaths
  BY DEF Deaths
<1>2. \A d \in Deaths : d \notin Data
  BY DataFacts
<1>3. \A b : Bool(b) \in Data \ {Null} /\ Bool(b).type = "bool"
  BY DEF Bool, Data, Null, Datum
<1>4. \A v \in IntMin .. IntMax : Datum("int", v) \in Data \ {Null} /\ Datum("int", v).type = "int"
  BY DEF Data, Null, Datum
<1>5. CASE d1.type # type \/ d2.type # type
  <2>1. x = Death("operands")
    BY <1>5 DEF OpFunc
  <2> QED
    BY <1>1, <1>2, <1>5, <2>1
<1>6. CASE d1.type = type /\ d2.type = type
  <2>1. CASE op \in Comparisons \/ op \in Connectives
    <3>1. op # "/"
      BY <2>1 DEF Comparisons, Connectives
    <3>2. x = IF op \in Comparisons THEN Bool(Compare(op, d1.val, d2.val))
              ELSE Bool(Connect(op, d1.val, d2.val))
      BY <1>6, <2>1, <3>1 DEF OpFunc
    <3>3. op \notin Arithmetic
      BY <2>1 DEF Comparisons, Connectives, Arithmetic
    <3> QED
      BY <1>3, <3>2, <3>3 DEF ReturnType
  <2>2. CASE op \in Arithmetic
    <3>1. op \notin Comparisons /\ op \notin Connectives
      BY <2>2 DEF Comparisons, Connectives, Arithmetic
    <3>2. type = "int"
      BY <3>1 DEF Supports
    <3>3. d1.val \in IntMin .. IntMax /\ d2.val \in IntMin .. IntMax
      BY <1>6, <3>2, DataFacts
    <3>4. CASE op = "/" /\ DivisionTraps(d1.val, d2.val)
      <4>1. x = Death("division")
        BY <1>6, <3>4 DEF OpFunc
      <4> QED
        BY <1>1, <1>2, <3>4, <4>1
    <3>5. CASE ~(op = "/" /\ DivisionTraps(d1.val, d2.val))
      <4>1. x = Datum("int", Calculate(op, d1.val, d2.val))
        BY <1>6, <3>1, <3>5 DEF OpFunc
      <4>2. Calculate(op, d1.val, d2.val) \in IntMin .. IntMax
        <5> DEFINE u == d1.val
                   v == d2.val
        <5>1. u \in IntMin .. IntMax /\ v \in IntMin .. IntMax /\ u \in Int /\ v \in Int
          BY <3>3, IntMaxAssumption DEF IntMin
        <5>2. u + v \in Int /\ u - v \in Int /\ u * v \in Int
          BY <5>1
        <5> HIDE DEF u, v
        <5>3. Wrap(u + v) \in IntMin .. IntMax
          BY <5>2, WrapInRange
        <5>4. Wrap(u - v) \in IntMin .. IntMax
          BY <5>2, WrapInRange
        <5>5. Wrap(u * v) \in IntMin .. IntMax
          BY <5>2, WrapInRange
        <5>6. op = "/" => Quotient(u, v) \in IntMin .. IntMax
          BY <3>5, <5>1, QuotientInRange DEF u, v
        <5>7. op \in {"+", "-", "*", "/"}
          BY <2>2 DEF Arithmetic
        <5>8. Calculate(op, u, v) \in IntMin .. IntMax
          BY <5>3, <5>4, <5>5, <5>6, <5>7 DEF Calculate
        <5> QED
          BY <5>8 DEF u, v
      <4> QED
        BY <1>4, <2>2, <4>1, <4>2 DEF ReturnType
    <3> QED
      BY <3>4, <3>5
  <2> QED
    BY <2>1, <2>2 DEF Operators
<1> QED
  BY <1>5, <1>6

-----------------------------------------------------------------------------
\* Parse trees.  An expression is a literal, a name, or an operator on two lower
\* expressions.
LEMMA ExprShape ==
    ASSUME NEW e \in Exprs
    PROVE  /\ Height[e] \in Nat
           /\ e.type \in {"lit", "id", "bin"} /\ e # Absent
           /\ e.type = "lit" => e.datum \in Data
           /\ e.type = "id" => e = Id(e.name) /\ e.name \in STRING
           /\ e.type = "bin" => /\ e.lhs \in Exprs /\ e.rhs \in Exprs /\ e.op \in Operators
                                /\ Height[e.lhs] < Height[e] /\ Height[e.rhs] < Height[e]
<1>1. Height[e] \in Nat
  BY ParseTreesAssumption
<1>2. CASE e \in [type : {"lit"}, datum : Data]
  BY <1>1, <1>2 DEF Absent
<1>3. CASE e \in [type : {"id"}, name : STRING]
  BY <1>1, <1>3 DEF Absent, Id
<1>4. CASE /\ e \in [type : {"bin"}, lhs : Exprs, op : Operators, rhs : Exprs]
           /\ Height[e.lhs] < Height[e] /\ Height[e.rhs] < Height[e]
  BY <1>1, <1>4 DEF Absent
<1> QED
  BY <1>2, <1>3, <1>4, ParseTreesAssumption

\* A FROM clause is a table or a join of two lower FROM clauses.
LEMMA FromShape ==
    ASSUME NEW f \in FromClauses
    PROVE  /\ Height[f] \in Nat
           /\ f.type \in {"table", "join"} /\ f # Absent
           /\ f.type = "table" => f.table \in STRING
           /\ f.type = "join" => /\ f.left \in FromClauses /\ f.right \in FromClauses
                                 /\ f.on \in Clauses
                                 /\ Height[f.left] < Height[f] /\ Height[f.right] < Height[f]
<1>1. Height[f] \in Nat
  BY ParseTreesAssumption
<1>2. CASE f \in [type : {"table"}, table : STRING]
  BY <1>1, <1>2 DEF Absent
<1>3. CASE /\ f \in [type : {"join"}, left : FromClauses, right : FromClauses,
                     on : Exprs \cup {Absent}]
           /\ Height[f.left] < Height[f] /\ Height[f.right] < Height[f]
  BY <1>1, <1>3 DEF Absent, Clauses
<1> QED
  BY <1>2, <1>3, ParseTreesAssumption

\* What holds of a tree if it holds of all lower ones holds of all trees.
LEMMA TreeInduction ==
    ASSUME NEW S, NEW h \in [S -> Nat], NEW P,
           \A e \in S : (\A d \in S : h[d] < h[e] => d \in P) => e \in P
    PROVE  S \subseteq P
<1> DEFINE heights == {h[e] : e \in S \ P}
<1> SUFFICES ASSUME heights # {} PROVE FALSE
  OBVIOUS
<1>1. heights \in SUBSET Nat
  OBVIOUS
<1>2. PICK m \in heights : \A n \in heights : m <= n
  BY <1>1, NatMin
<1>3. PICK e \in S \ P : m = h[e]
  OBVIOUS
<1>4. ASSUME NEW d \in S, h[d] < h[e], d \notin P PROVE FALSE
  <2>1. h[d] \in heights /\ h[d] \in Nat /\ h[e] \in Nat
    BY <1>4
  <2>2. m <= h[d]
    BY <1>2, <2>1
  <2> QED
    BY <1>3, <1>4, <2>1, <2>2
<1> QED
  BY <1>3, <1>4

-----------------------------------------------------------------------------
\* Names.  GetColIdx finds the first column of a name.
LEMMA GetColIdxIs ==
    ASSUME NEW S, NEW def \in Seq(S), NEW name
    PROVE  /\ GetColIdx(def, name) \in Nat
           /\ GetColIdx(def, name) = 0 <=> \A i \in DOMAIN def : def[i].name # name
           /\ GetColIdx(def, name) # 0 =>
                 /\ GetColIdx(def, name) \in DOMAIN def
                 /\ def[GetColIdx(def, name)].name = name
                 /\ \A i \in DOMAIN def : def[i].name = name => GetColIdx(def, name) <= i
<1>1. DOMAIN def = 1 .. Len(def) /\ Places(def, name) \in SUBSET Nat
  BY DEF Places
<1>2. CASE Places(def, name) = {}
  BY <1>1, <1>2 DEF GetColIdx, Places
<1>3. CASE Places(def, name) # {}
  <2>1. /\ Min(Places(def, name)) \in Places(def, name)
        /\ \A i \in Places(def, name) : Min(Places(def, name)) <= i
    BY <1>1, <1>3, MinIs
  <2>2. GetColIdx(def, name) = Min(Places(def, name))
    BY <1>3 DEF GetColIdx
  <2> QED
    BY <1>1, <2>1, <2>2 DEF Places
<1> QED
  BY <1>2, <1>3

LEMMA DefFacts ==
    ASSUME NEW def \in Defs
    PROVE  /\ Len(def) \in Nat /\ DOMAIN def = 1 .. Len(def)
           /\ \A i \in DOMAIN def : def[i].type \in ColTypes /\ def[i].name \in STRING
<1>1. Len(def) \in Nat /\ DOMAIN def = 1 .. Len(def)
  BY DEF Defs
<1>2. ASSUME NEW i \in DOMAIN def PROVE def[i] \in [name : STRING, type : ColTypes]
  BY <1>1, ElementOfSeq DEF Defs
<1> QED
  BY <1>1, <1>2

\* A definition of the join list that has the name decides its type.
LEMMA ColTypeIs ==
    ASSUME NEW joinList \in Seq(Defs), NEW name
    PROVE  /\ ColType(name, joinList) \in ColTypes \cup {"unknown"}
           /\ ColType(name, joinList) = "unknown" <=>
                 \A d \in DOMAIN joinList : GetColIdx(joinList[d], name) = 0
           /\ ColType(name, joinList) # "unknown" =>
                 \E d \in DOMAIN joinList :
                    LET i == GetColIdx(joinList[d], name)
                    IN  i # 0 /\ ColType(name, joinList) = joinList[d][i].type
<1> DEFINE having == {d \in DOMAIN joinList : Places(joinList[d], name) # {}}
           n == Len(joinList)
<1>1. n \in Nat /\ DOMAIN joinList = 1 .. n /\ having \in SUBSET (1 .. n)
  OBVIOUS
<1>2. ASSUME NEW d \in DOMAIN joinList
      PROVE  /\ joinList[d] \in Defs
             /\ d \in having <=> GetColIdx(joinList[d], name) # 0
  <2>1. joinList[d] \in Defs
    OBVIOUS
  <2>2. GetColIdx(joinList[d], name) = 0 <=> \A i \in DOMAIN joinList[d] : joinList[d][i].name # name
    BY <2>1, GetColIdxIs DEF Defs
  <2>3. d \in having <=> Places(joinList[d], name) # {}
    OBVIOUS
  <2> QED
    BY <2>1, <2>2, <2>3 DEF Places
<1>3. "unknown" \notin ColTypes
  BY DEF ColTypes
<1>4. CASE having = {}
  <2>1. ColType(name, joinList) = "unknown"
    BY <1>4 DEF ColType
  <2> HIDE DEF having
  <2> QED
    BY <1>2, <1>4, <2>1
<1>5. CASE having # {}
  <2> DEFINE m == Max(having)
             i == GetColIdx(joinList[m], name)
  <2>1. m \in having
    <3> HIDE DEF having
    <3> QED
      BY <1>1, <1>5, MaxIs
  <2>2. m \in DOMAIN joinList /\ i # 0 /\ joinList[m] \in Defs
    <3> HIDE DEF having, m
    <3> QED
      BY <1>1, <1>2, <2>1 DEF i
  <2>3. ColType(name, joinList) = joinList[m][i].type
    BY <1>5 DEF ColType
  <2>4. joinList[m][i].type \in ColTypes
    <3> HIDE DEF m
    <3>1. i \in DOMAIN joinList[m]
      BY <2>2, GetColIdxIs DEF Defs
    <3> HIDE DEF i
    <3> QED
      BY <2>2, <3>1, DefFacts
  <2> HIDE DEF m
  <2> QED
    BY <1>3, <2>2, <2>3, <2>4
<1> QED
  BY <1>4, <1>5

\* The types that CheckType may find.
CheckedTypes == BTypes \cup {"panic"}

LEMMA TypeOfBinType ==
    \A lhs, rhs, op : TypeOfBin(lhs, op, rhs) \in {"bool", "int", "unknown", "panic"}
BY DEF TypeOfBin, ReturnType

\* CheckType is what its recursive definition says.
LEMMA CheckTypeIs ==
    ASSUME NEW joinList \in Seq(Defs)
    PROVE  \A e \in Exprs :
              /\ CheckType(e, joinList) \in CheckedTypes
              /\ e.type = "lit" => CheckType(e, joinList) = e.datum.type
              /\ e.type = "id" => CheckType(e, joinList) = ColType(e.name, joinList)
              /\ e.type = "bin" =>
                    CheckType(e, joinList) =
                        TypeOfBin(CheckType(e.lhs, joinList), e.op, CheckType(e.rhs, joinList))
<1> DEFINE V == CheckedTypes
           rule(e, f) == IF e.type = "lit" THEN e.datum.type
                         ELSE IF e.type = "id" THEN ColType(e.name, joinList)
                         ELSE TypeOfBin(f[e.lhs], e.op, f[e.rhs])
           D == [w \in Exprs \X [Exprs -> V] |-> rule(w[1], w[2])]
           h == [e \in Exprs |-> Height[e]]
           Defines(f) == f = [e \in Exprs |-> rule(e, f)]
           check == CHOOSE f : Defines(f)
<1>1. ASSUME NEW e \in Exprs
      PROVE  /\ e.type = "lit" => \A f : rule(e, f) = e.datum.type
             /\ e.type = "id" => \A f : rule(e, f) = ColType(e.name, joinList)
             /\ e.type = "bin" => \A f : rule(e, f) = TypeOfBin(f[e.lhs], e.op, f[e.rhs])
  OBVIOUS
<1> HIDE DEF rule
<1>2. ASSUME NEW e \in Exprs, NEW f
      PROVE  rule(e, f) \in V
  <2>1. CASE e.type = "lit"
    <3>1. e.datum.type \in ColTypes \cup {"null"}
      BY <2>1, ExprShape, DataFacts
    <3> QED
      BY <1>1, <2>1, <3>1 DEF CheckedTypes, BTypes
  <2>2. CASE e.type = "id"
    BY <1>1, <2>2, ColTypeIs DEF CheckedTypes, BTypes
  <2>3. CASE e.type = "bin"
    BY <1>1, <2>3, TypeOfBinType DEF CheckedTypes, BTypes, ColTypes
  <2> QED
    BY <2>1, <2>2, <2>3, ExprShape
<1>3. h \in [Exprs -> Nat] /\ V # {}
  BY ExprShape DEF CheckedTypes
<1>4. D \in [Exprs \X [Exprs -> V] -> V]
  BY <1>2
<1>5. ASSUME NEW e \in Exprs, NEW f \in [Exprs -> V], NEW g \in [Exprs -> V],
             \A d \in Exprs : h[d] < h[e] => f[d] = g[d]
      PROVE  D[<<e, f>>] = D[<<e, g>>]
  <2>1. rule(e, f) = rule(e, g)
    BY <1>1, <1>5, ExprShape
  <2> QED
    BY <2>1
<1>6. \E f : Defines(f)
  <2>1. Recurses(D, Exprs, V, h)
    <3> HIDE DEF D, h, V
    <3> QED
      BY <1>3, <1>4, <1>5 DEF Recurses
  <2>2. PICK f : Solves(f, D, Exprs, V)
    BY <2>1, TreeRecursion
  <2>3. \A e \in Exprs : f[e] = rule(e, f)
    BY <2>2 DEF Solves
  <2>4. f = [e \in Exprs |-> rule(e, f)]
    BY <2>2, <2>3 DEF Solves
  <2> QED
    BY <2>4
<1>7. Defines(check)
  <2> HIDE DEF Defines
  <2> QED
    BY <1>6
<1>8. \A e \in Exprs : check[e] = rule(e, check)
  <2> HIDE DEF check
  <2> QED
    BY <1>7
<1>9. ASSUME NEW d \in Exprs PROVE CheckType(d, joinList) = check[d]
  BY DEF CheckType, rule
<1> HIDE DEF check
<1>11. \A e \in Exprs : check[e] \in V
  BY <1>2, <1>8
<1>12. ASSUME NEW e \in Exprs
       PROVE  /\ e.type = "lit" => check[e] = e.datum.type
              /\ e.type = "id" => check[e] = ColType(e.name, joinList)
              /\ e.type = "bin" => check[e] = TypeOfBin(check[e.lhs], e.op, check[e.rhs])
  BY <1>1, <1>8
<1> QED
  <2> TAKE e \in Exprs
  <2>1. e.type = "bin" => e.lhs \in Exprs /\ e.rhs \in Exprs
    BY ExprShape
  <2> QED
    BY <1>9, <1>11, <1>12, <2>1

\* StrictType is what its recursive definition says.
LEMMA StrictTypeIs ==
    ASSUME NEW def \in Defs
    PROVE  \A e \in Exprs :
              /\ StrictType(e, def) \in ColTypes \cup {"unknown"}
              /\ e.type = "lit" =>
                    StrictType(e, def) = IF e.datum = Null THEN "unknown" ELSE e.datum.type
              /\ e.type = "id" => StrictType(e, def) = ColType(e.name, <<def>>)
              /\ e.type = "bin" =>
                    StrictType(e, def) =
                        StrictBin(StrictType(e.lhs, def), e.op, StrictType(e.rhs, def))
<1> DEFINE V == ColTypes \cup {"unknown"}
           rule(e, f) == IF e.type = "lit"
                         THEN (IF e.datum = Null THEN "unknown" ELSE e.datum.type)
                         ELSE IF e.type = "id" THEN ColType(e.name, <<def>>)
                         ELSE StrictBin(f[e.lhs], e.op, f[e.rhs])
           D == [w \in Exprs \X [Exprs -> V] |-> rule(w[1], w[2])]
           h == [e \in Exprs |-> Height[e]]
           Defines(f) == f = [e \in Exprs |-> rule(e, f)]
           strict == CHOOSE f : Defines(f)
<1>0. <<def>> \in Seq(Defs)
  OBVIOUS
<1>1. ASSUME NEW e \in Exprs
      PROVE  /\ e.type = "lit" => \A f : rule(e, f) = IF e.datum = Null THEN "unknown" ELSE e.datum.type
             /\ e.type = "id" => \A f : rule(e, f) = ColType(e.name, <<def>>)
             /\ e.type = "bin" => \A f : rule(e, f) = StrictBin(f[e.lhs], e.op, f[e.rhs])
  OBVIOUS
<1> HIDE DEF rule
<1>2. ASSUME NEW e \in Exprs, NEW f
      PROVE  rule(e, f) \in V
  <2>1. CASE e.type = "lit"
    <3>1. e.datum # Null => e.datum.type \in ColTypes
      BY <2>1, ExprShape, DataFacts
    <3> QED
      BY <1>1, <2>1, <3>1
  <2>2. CASE e.type = "id"
    BY <1>0, <1>1, <2>2, ColTypeIs
  <2>3. CASE e.type = "bin"
    BY <1>1, <2>3 DEF StrictBin, ReturnType, ColTypes
  <2> QED
    BY <2>1, <2>2, <2>3, ExprShape
<1>3. h \in [Exprs -> Nat] /\ V # {}
  BY ExprShape
<1>4. D \in [Exprs \X [Exprs -> V] -> V]
  BY <1>2
<1>5. ASSUME NEW e \in Exprs, NEW f \in [Exprs -> V], NEW g \in [Exprs -> V],
             \A d \in Exprs : h[d] < h[e] => f[d] = g[d]
      PROVE  D[<<e, f>>] = D[<<e, g>>]
  <2>1. rule(e, f) = rule(e, g)
    BY <1>1, <1>5, ExprShape
  <2> QED
    BY <2>1
<1>6. \E f : Defines(f)
  <2>1. Recurses(D, Exprs, V, h)
    <3> HIDE DEF D, h, V
    <3> QED
      BY <1>3, <1>4, <1>5 DEF Recurses
  <2>2. PICK f : Solves(f, D, Exprs, V)
    BY <2>1, TreeRecursion
  <2>3. \A e \in Exprs : f[e] = rule(e, f)
    BY <2>2 DEF Solves
  <2>4. f = [e \in Exprs |-> rule(e, f)]
    BY <2>2, <2>3 DEF Solves
  <2> QED
    BY <2>4
<1>7. Defines(strict)
  <2> HIDE DEF Defines
  <2> QED
    BY <1>6
<1>8. \A e \in Exprs : strict[e] = rule(e, strict)
  <2> HIDE DEF strict
  <2> QED
    BY <1>7
<1>9. ASSUME NEW d \in Exprs PROVE StrictType(d, def) = strict[d]
  BY DEF StrictType, rule
<1> HIDE DEF strict
<1>10. \A e \in Exprs : strict[e] \in V
  BY <1>2, <1>8
<1>11. ASSUME NEW e \in Exprs
       PROVE  /\ e.type = "lit" =>
                    strict[e] = IF e.datum = Null THEN "unknown" ELSE e.datum.type
              /\ e.type = "id" => strict[e] = ColType(e.name, <<def>>)
              /\ e.type = "bin" => strict[e] = StrictBin(strict[e.lhs], e.op, strict[e.rhs])
  BY <1>1, <1>8
<1> QED
  <2> TAKE e \in Exprs
  <2>1. e.type = "bin" => e.lhs \in Exprs /\ e.rhs \in Exprs
    BY ExprShape
  <2> QED
    BY <1>9, <1>10, <1>11, <2>1

\* What an evaluation may come to, whatever the types.
Results == [type : ColTypes \cup {"null"}, val : Int] \cup Deaths

LEMMA EvalBinResult ==
    ASSUME NEW type, NEW op \in Operators, NEW lhs \in Results, NEW rhs \in Results
    PROVE  EvalBin(type, op, lhs, rhs) \in Results
<1>1. CASE IsDeath(lhs) \/ IsDeath(rhs) \/ Null \in {lhs, rhs}
  <2>1. Null \in Results
    BY DEF Results, Null, Datum
  <2> QED
    BY <1>1, <2>1 DEF EvalBin
<1>2. CASE ~(IsDeath(lhs) \/ IsDeath(rhs) \/ Null \in {lhs, rhs})
  <2>1. EvalBin(type, op, lhs, rhs) = OpFunc(type, op, lhs, rhs)
    BY <1>2 DEF EvalBin
  <2>2. lhs.val \in Int /\ rhs.val \in Int
    BY <1>2, DataFacts DEF Results
  <2>3. Death("operands") \in Results /\ Death("division") \in Results
    BY DEF Results, Deaths
  <2>4. \A b : Bool(b) \in Results
    BY DEF Bool, Datum, Results, ColTypes
  <2>5. \A n \in Int : Datum("int", n) \in Results
    BY DEF Datum, Results, ColTypes
  <2>6. ~(op = "/" /\ DivisionTraps(lhs.val, rhs.val)) /\ op \in Arithmetic
           => Calculate(op, lhs.val, rhs.val) \in Int
    <3> DEFINE u == lhs.val
               v == rhs.val
    <3>1. u \in Int /\ v \in Int
      BY <2>2
    <3> HIDE DEF u, v
    <3>2. u + v \in Int /\ u - v \in Int /\ u * v \in Int
      BY <3>1
    <3>3. \A n \in Int : Wrap(n) \in Int
      BY WrapInRange, IntMaxAssumption DEF IntMin
    <3>4. ~DivisionTraps(u, v) => Quotient(u, v) \in Int
      <4> SUFFICES ASSUME ~DivisionTraps(u, v) PROVE Quotient(u, v) \in Int
        OBVIOUS
      <4>1. Abs(u) \in Nat /\ Abs(v) \in Nat \ {0}
        BY <3>1 DEF Abs, DivisionTraps
      <4>2. Abs(u) \div Abs(v) \in Int
        BY <4>1, DivLess
      <4> QED
        BY <4>2 DEF Quotient
    <3>5. ASSUME ~(op = "/" /\ DivisionTraps(u, v)), op \in Arithmetic
          PROVE  Calculate(op, u, v) \in Int
      BY <3>2, <3>3, <3>4, <3>5 DEF Calculate, Arithmetic
    <3> QED
      BY <3>5 DEF u, v
  <2>7. OpFunc(type, op, lhs, rhs) \in Results
    <3>1. CASE lhs.type # type \/ rhs.type # type
      BY <2>3, <3>1 DEF OpFunc
    <3>2. CASE lhs.type = type /\ rhs.type = type /\ op = "/" /\ DivisionTraps(lhs.val, rhs.val)
      BY <2>3, <3>2 DEF OpFunc
    <3>3. CASE lhs.type = type /\ rhs.type = type /\ ~(op = "/" /\ DivisionTraps(lhs.val, rhs.val))
      <4>1. OpFunc(type, op, lhs, rhs) =
                IF op \in Comparisons THEN Bool(Compare(op, lhs.val, rhs.val))
                ELSE IF op \in Connectives THEN Bool(Connect(op, lhs.val, rhs.val))
                ELSE Datum("int", Calculate(op, lhs.val, rhs.val))
        BY <3>3 DEF OpFunc
      <4>2. op \in Comparisons \/ op \in Connectives \/ op \in Arithmetic
        BY DEF Operators
      <4> QED
        BY <2>4, <2>5, <2>6, <3>3, <4>1, <4>2
    <3> QED
      BY <3>1, <3>2, <3>3
  <2> QED
    BY <2>1, <2>7
<1> QED
  BY <1>1, <1>2

\* EvalExpr is what its recursive definition says.
OpType(e, joinList) == OperandType(CheckType(e.lhs, joinList), CheckType(e.rhs, joinList))

LEMMA EvalExprIs ==
    ASSUME NEW tuple, NEW def, NEW joinList,
           \A name \in STRING : GetCol(tuple, name, def) \in Results
    PROVE  \A e \in Exprs :
              /\ e.type = "lit" => EvalExpr(e, tuple, def, joinList) = e.datum
              /\ e.type = "id" => EvalExpr(e, tuple, def, joinList) = GetCol(tuple, e.name, def)
              /\ e.type = "bin" =>
                    EvalExpr(e, tuple, def, joinList) =
                        EvalBin(OpType(e, joinList), e.op,
                                EvalExpr(e.lhs, tuple, def, joinList),
                                EvalExpr(e.rhs, tuple, def, joinList))
<1> DEFINE V == Results
           rule(e, f) == IF e.type = "lit" THEN e.datum
                         ELSE IF e.type = "id" THEN GetCol(tuple, e.name, def)
                         ELSE EvalBin(OpType(e, joinList), e.op, f[e.lhs], f[e.rhs])
           D == [w \in Exprs \X [Exprs -> V] |-> rule(w[1], w[2])]
           h == [e \in Exprs |-> Height[e]]
           Defines(f) == f = [e \in Exprs |-> rule(e, f)]
           eval == CHOOSE f : Defines(f)
<1>1. ASSUME NEW e \in Exprs
      PROVE  /\ e.type = "lit" => \A f : rule(e, f) = e.datum
             /\ e.type = "id" => \A f : rule(e, f) = GetCol(tuple, e.name, def)
             /\ e.type = "bin" => \A f : rule(e, f) = EvalBin(OpType(e, joinList), e.op, f[e.lhs], f[e.rhs])
  OBVIOUS
<1> HIDE DEF rule
<1>2. ASSUME NEW e \in Exprs, NEW f \in [Exprs -> V]
      PROVE  rule(e, f) \in V
  <2>1. CASE e.type = "lit"
    <3>1. e.datum \in Data /\ e.datum = Datum(e.datum.type, e.datum.val)
      BY <2>1, ExprShape, DataFacts
    <3>2. e.datum.type \in ColTypes \cup {"null"} /\ e.datum.val \in Int
      BY <3>1, DataFacts
    <3> QED
      BY <1>1, <2>1, <3>1, <3>2 DEF Results, Datum
  <2>2. CASE e.type = "id"
    BY <1>1, <2>2, ExprShape
  <2>3. CASE e.type = "bin"
    <3>1. f[e.lhs] \in Results /\ f[e.rhs] \in Results /\ e.op \in Operators
      BY <2>3, ExprShape
    <3> QED
      BY <1>1, <2>3, <3>1, EvalBinResult
  <2> QED
    BY <2>1, <2>2, <2>3, ExprShape
<1>3. h \in [Exprs -> Nat] /\ V # {}
  BY ExprShape DEF Results, Deaths
<1>4. D \in [Exprs \X [Exprs -> V] -> V]
  <2> HIDE DEF V
  <2> QED
    BY <1>2
<1>5. ASSUME NEW e \in Exprs, NEW f \in [Exprs -> V], NEW g \in [Exprs -> V],
             \A d \in Exprs : h[d] < h[e] => f[d] = g[d]
      PROVE  D[<<e, f>>] = D[<<e, g>>]
  <2>1. rule(e, f) = rule(e, g)
    BY <1>1, <1>5, ExprShape
  <2> QED
    BY <2>1
<1>6. \E f : Defines(f)
  <2>1. Recurses(D, Exprs, V, h)
    <3> HIDE DEF D, h, V
    <3> QED
      BY <1>3, <1>4, <1>5 DEF Recurses
  <2>2. PICK f : Solves(f, D, Exprs, V)
    BY <2>1, TreeRecursion
  <2>3. \A e \in Exprs : f[e] = rule(e, f)
    BY <2>2 DEF Solves
  <2>4. f = [e \in Exprs |-> rule(e, f)]
    BY <2>2, <2>3 DEF Solves
  <2> QED
    BY <2>4
<1>7. Defines(eval)
  <2> HIDE DEF Defines
  <2> QED
    BY <1>6
<1>8. \A e \in Exprs : eval[e] = rule(e, eval)
  <2> HIDE DEF eval
  <2> QED
    BY <1>7
<1>9. ASSUME NEW d \in Exprs PROVE EvalExpr(d, tuple, def, joinList) = eval[d]
  BY DEF EvalExpr, rule, OpType
<1> HIDE DEF eval
<1>10. ASSUME NEW e \in Exprs
       PROVE  /\ e.type = "lit" => eval[e] = e.datum
              /\ e.type = "id" => eval[e] = GetCol(tuple, e.name, def)
              /\ e.type = "bin" =>
                    eval[e] = EvalBin(OpType(e, joinList), e.op, eval[e.lhs], eval[e.rhs])
  BY <1>1, <1>8
<1> QED
  <2> TAKE e \in Exprs
  <2>1. e.type = "bin" => e.lhs \in Exprs /\ e.rhs \in Exprs
    BY ExprShape
  <2> QED
    BY <1>9, <1>10, <2>1

-----------------------------------------------------------------------------
\* What CheckType promises of EvalExpr.  The names that the tuple gives a value have
\* the types that the join list gives them.
Reads(tuple, def, joinList) ==
    \A name \in STRING :
        /\ GetCol(tuple, name, def) \in Data \cup Deaths
        /\ GetCol(tuple, name, def) \in Data /\ ColType(name, joinList) # "unknown" =>
              GetCol(tuple, name, def).type \in {ColType(name, joinList), "null"}

\* An expression with a type has a value of that type, is NULL, or ends the process.
Typed(value, type) ==
    /\ value \in Data \cup Deaths
    /\ value \in Data => value.type \in {type, "null"}

LEMMA DataAreResults == Data \cup Deaths \subseteq Results
<1> SUFFICES ASSUME NEW d \in Data PROVE d \in Results
  BY DEF Results
<1>1. d = Datum(d.type, d.val) /\ d.type \in ColTypes \cup {"null"} /\ d.val \in Int
  BY DataFacts
<1> QED
  BY <1>1 DEF Results, Datum

LEMMA EvalTyped ==
    ASSUME NEW joinList \in Seq(Defs), NEW tuple, NEW def, Reads(tuple, def, joinList)
    PROVE  \A e \in Exprs :
              CheckType(e, joinList) \notin {"panic", "unknown"} =>
                  Typed(EvalExpr(e, tuple, def, joinList), CheckType(e, joinList))
<1> DEFINE type(e) == CheckType(e, joinList)
           eval(e) == EvalExpr(e, tuple, def, joinList)
           Good(e) == type(e) \notin {"panic", "unknown"} => Typed(eval(e), type(e))
           P == {e \in Exprs : Good(e)}
           h == [e \in Exprs |-> Height[e]]
<1>1. \A name \in STRING : GetCol(tuple, name, def) \in Results
  BY DataAreResults DEF Reads
<1>2. ASSUME NEW e \in Exprs
      PROVE  /\ e.type = "lit" => eval(e) = e.datum
             /\ e.type = "id" => eval(e) = GetCol(tuple, e.name, def)
             /\ e.type = "bin" => eval(e) = EvalBin(OpType(e, joinList), e.op, eval(e.lhs), eval(e.rhs))
  BY <1>1, EvalExprIs
<1>3. ASSUME NEW e \in Exprs
      PROVE  /\ type(e) \in CheckedTypes
             /\ e.type = "lit" => type(e) = e.datum.type
             /\ e.type = "id" => type(e) = ColType(e.name, joinList)
             /\ e.type = "bin" => type(e) = TypeOfBin(type(e.lhs), e.op, type(e.rhs))
  BY CheckTypeIs
<1>4. ASSUME NEW e \in Exprs, \A d \in Exprs : h[d] < h[e] => d \in P
      PROVE  e \in P
  <2> SUFFICES ASSUME type(e) \notin {"panic", "unknown"}
               PROVE  Typed(eval(e), type(e))
    OBVIOUS
  <2>1. CASE e.type = "lit"
    BY <1>2, <1>3, <2>1, ExprShape DEF Typed
  <2>2. CASE e.type = "id"
    BY <1>2, <1>3, <2>2, ExprShape DEF Typed, Reads
  <2>3. CASE e.type = "bin"
    <3> DEFINE lt == type(e.lhs)
               rt == type(e.rhs)
               t  == OperandType(lt, rt)
               lv == eval(e.lhs)
               rv == eval(e.rhs)
    <3>1. /\ e.lhs \in Exprs /\ e.rhs \in Exprs /\ e.op \in Operators
          /\ e.lhs \in P /\ e.rhs \in P
      BY <1>4, <2>3, ExprShape
    <3>2. /\ type(e) = TypeOfBin(lt, e.op, rt)
          /\ eval(e) = EvalBin(t, e.op, lv, rv)
      BY <1>2, <1>3, <2>3 DEF OpType
    <3>3. /\ lt \in CheckedTypes /\ rt \in CheckedTypes
          /\ Good(e.lhs) /\ Good(e.rhs)
      BY <1>3, <3>1
    <3>4. /\ lt \notin {"panic", "unknown"} /\ rt \notin {"panic", "unknown"}
          /\ t # "null" /\ Supports(t, e.op) /\ type(e) = ReturnType(t, e.op)
      BY <3>2 DEF TypeOfBin
    <3>5. Typed(lv, lt) /\ Typed(rv, rt) /\ t \in ColTypes
      BY <3>3, <3>4 DEF OperandType, CheckedTypes, BTypes
    <3> HIDE DEF lt, rt, t, lv, rv, type, eval
    <3>6. CASE IsDeath(lv)
      <4>1. lv \in Deaths
        BY <3>5, <3>6, DataFacts DEF Typed
      <4>2. lv \notin Data
        BY <3>6, DataFacts
      <4> QED
        BY <3>2, <3>6, <4>1, <4>2 DEF EvalBin, Typed
    <3>7. CASE ~IsDeath(lv) /\ IsDeath(rv)
      <4>1. rv \in Deaths
        BY <3>5, <3>7, DataFacts DEF Typed
      <4>2. rv \notin Data
        BY <3>7, DataFacts
      <4> QED
        BY <3>2, <3>7, <4>1, <4>2 DEF EvalBin, Typed
    <3>8. CASE ~IsDeath(lv) /\ ~IsDeath(rv)
      <4>1. lv \in Data /\ rv \in Data
        BY <3>5, <3>8, DataFacts DEF Typed
      <4>2. CASE lv = Null \/ rv = Null
        <5>1. eval(e) = Null
          BY <3>2, <3>8, <4>2 DEF EvalBin
        <5> QED
          BY <5>1, DataFacts DEF Typed
      <4>3. CASE lv # Null /\ rv # Null
        <5>1. eval(e) = OpFunc(t, e.op, lv, rv)
          BY <3>2, <3>8, <4>3 DEF EvalBin
        <5> QED
          BY <3>1, <3>4, <3>5, <4>1, <4>3, <5>1, OpFuncTyped DEF Typed
      <4> QED
        BY <4>2, <4>3
    <3> QED
      BY <3>6, <3>7, <3>8
  <2> QED
    BY <2>1, <2>2, <2>3, ExprShape
<1>5. Exprs \subseteq P
  <2>1. h \in [Exprs -> Nat]
    BY ExprShape
  <2> HIDE DEF P, h
  <2> QED
    BY <1>4, <2>1, TreeInduction
<1> QED
  BY <1>5

\* Where the strict types of names are those that the join list gives them, the
\* strict type of an expression is the one that CheckType finds.
Agrees(sdef, joinList) ==
    \A name \in STRING :
        ColType(name, <<sdef>>) # "unknown" => ColType(name, joinList) = ColType(name, <<sdef>>)

LEMMA StrictChecked ==
    ASSUME NEW joinList \in Seq(Defs), NEW sdef \in Defs, Agrees(sdef, joinList)
    PROVE  \A e \in Exprs : StrictType(e, sdef) # "unknown" =>
                               CheckType(e, joinList) = StrictType(e, sdef)
<1> DEFINE type(e) == CheckType(e, joinList)
           strict(e) == StrictType(e, sdef)
           P == {e \in Exprs : strict(e) # "unknown" => type(e) = strict(e)}
           h == [e \in Exprs |-> Height[e]]
<1>1. ASSUME NEW e \in Exprs
      PROVE  /\ e.type = "lit" => type(e) = e.datum.type
             /\ e.type = "id" => type(e) = ColType(e.name, joinList)
             /\ e.type = "bin" => type(e) = TypeOfBin(type(e.lhs), e.op, type(e.rhs))
  BY CheckTypeIs
<1>2. ASSUME NEW e \in Exprs
      PROVE  /\ strict(e) \in ColTypes \cup {"unknown"}
             /\ e.type = "lit" => strict(e) = IF e.datum = Null THEN "unknown" ELSE e.datum.type
             /\ e.type = "id" => strict(e) = ColType(e.name, <<sdef>>)
             /\ e.type = "bin" => strict(e) = StrictBin(strict(e.lhs), e.op, strict(e.rhs))
  BY StrictTypeIs
<1> HIDE DEF type, strict
<1>3. ASSUME NEW e \in Exprs, \A d \in Exprs : h[d] < h[e] => d \in P
      PROVE  e \in P
  <2>1. CASE e.type = "lit"
    BY <1>1, <1>2, <2>1
  <2>2. CASE e.type = "id"
    BY <1>1, <1>2, <2>2, ExprShape DEF Agrees
  <2>3. CASE e.type = "bin"
    <3>1. /\ e.lhs \in Exprs /\ e.rhs \in Exprs
          /\ e.lhs \in P /\ e.rhs \in P
      BY <1>3, <2>3, ExprShape
    <3>2. strict(e.lhs) \in ColTypes \cup {"unknown"} /\ strict(e) = StrictBin(strict(e.lhs), e.op, strict(e.rhs))
      BY <1>2, <2>3, <3>1
    <3> QED
      BY <1>1, <2>3, <3>1, <3>2 DEF StrictBin, TypeOfBin, OperandType, ColTypes
  <2> QED
    BY <2>1, <2>2, <2>3, ExprShape
<1>4. Exprs \subseteq P
  <2>1. h \in [Exprs -> Nat]
    BY ExprShape
  <2> HIDE DEF P, h
  <2> QED
    BY <1>3, <2>1, TreeInduction
<1> QED
  BY <1>4 DEF type, strict

\* An expression with a strict type has a value of that type if the names have.
StrictReads(tuple, def, sdef) ==
    \A name \in STRING :
        /\ GetCol(tuple, name, def) \in Data \cup Deaths
        /\ ColType(name, <<sdef>>) # "unknown" =>
              /\ GetCol(tuple, name, def) \in Data
              /\ GetCol(tuple, name, def).type = ColType(name, <<sdef>>)

LEMMA StrictEval ==
    ASSUME NEW joinList \in Seq(Defs), NEW sdef \in Defs, Agrees(sdef, joinList),
           NEW tuple, NEW def, StrictReads(tuple, def, sdef)
    PROVE  \A e \in Exprs : StrictType(e, sdef) # "unknown" =>
              /\ EvalExpr(e, tuple, def, joinList) \in Data \ {Null}
              /\ EvalExpr(e, tuple, def, joinList).type = StrictType(e, sdef)
<1> DEFINE eval(e) == EvalExpr(e, tuple, def, joinList)
           strict(e) == StrictType(e, sdef)
           Good(e) == strict(e) # "unknown" => eval(e) \in Data \ {Null} /\ eval(e).type = strict(e)
           P == {e \in Exprs : Good(e)}
           h == [e \in Exprs |-> Height[e]]
<1>0. \A name \in STRING : GetCol(tuple, name, def) \in Results
  BY DataAreResults DEF StrictReads
<1>1. ASSUME NEW e \in Exprs
      PROVE  /\ e.type = "lit" => eval(e) = e.datum
             /\ e.type = "id" => eval(e) = GetCol(tuple, e.name, def)
             /\ e.type = "bin" => eval(e) = EvalBin(OpType(e, joinList), e.op, eval(e.lhs), eval(e.rhs))
  BY <1>0, EvalExprIs
<1>2. ASSUME NEW e \in Exprs
      PROVE  /\ strict(e) \in ColTypes \cup {"unknown"}
             /\ e.type = "lit" => strict(e) = IF e.datum = Null THEN "unknown" ELSE e.datum.type
             /\ e.type = "id" => strict(e) = ColType(e.name, <<sdef>>)
             /\ e.type = "bin" => strict(e) = StrictBin(strict(e.lhs), e.op, strict(e.rhs))
  BY StrictTypeIs
<1>3. ASSUME NEW e \in Exprs, strict(e) # "unknown" PROVE CheckType(e, joinList) = strict(e)
  BY <1>3, StrictChecked
<1> HIDE DEF eval, strict
<1>4. ASSUME NEW e \in Exprs, \A d \in Exprs : h[d] < h[e] => d \in P
      PROVE  e \in P
  <2> SUFFICES ASSUME strict(e) # "unknown"
               PROVE  eval(e) \in Data \ {Null} /\ eval(e).type = strict(e)
    OBVIOUS
  <2>1. CASE e.type = "lit"
    BY <1>1, <1>2, <2>1, ExprShape
  <2>2. CASE e.type = "id"
    <3>1. eval(e) \in Data /\ eval(e).type = strict(e) /\ strict(e) \in ColTypes
      BY <1>1, <1>2, <2>2, ExprShape DEF StrictReads
    <3> QED
      BY <3>1 DEF Null, Datum, ColTypes
  <2>3. CASE e.type = "bin"
    <3>1. /\ e.lhs \in Exprs /\ e.rhs \in Exprs /\ e.op \in Operators
          /\ Good(e.lhs) /\ Good(e.rhs)
      BY <1>4, <2>3, ExprShape
    <3> DEFINE t == strict(e.lhs)
    <3>2. /\ t = strict(e.rhs) /\ Supports(t, e.op) /\ t \in ColTypes /\ e.op # "/"
          /\ strict(e) = ReturnType(t, e.op)
      BY <1>2, <2>3, <3>1 DEF StrictBin
    <3>3. t # "unknown" /\ t # "null"
      BY <3>2 DEF ColTypes
    <3>4. /\ eval(e.lhs) \in Data \ {Null} /\ eval(e.lhs).type = t
          /\ eval(e.rhs) \in Data \ {Null} /\ eval(e.rhs).type = t
      BY <3>1, <3>2, <3>3
    <3>5. OpType(e, joinList) = t
      BY <1>3, <3>1, <3>2, <3>3 DEF OpType, OperandType
    <3>6. eval(e) = OpFunc(t, e.op, eval(e.lhs), eval(e.rhs))
      BY <1>1, <2>3, <3>4, <3>5, DataFacts DEF EvalBin
    <3>7. OpFunc(t, e.op, eval(e.lhs), eval(e.rhs)) \in Data \ {Null}
      <4> HIDE DEF t
      <4> QED
        BY <3>1, <3>2, <3>4, OpFuncTyped, DataFacts
    <3>8. OpFunc(t, e.op, eval(e.lhs), eval(e.rhs)).type = ReturnType(t, e.op)
      <4> HIDE DEF t
      <4> QED
        BY <3>1, <3>2, <3>4, <3>7, OpFuncTyped
    <3> QED
      BY <3>2, <3>6, <3>7, <3>8
  <2> QED
    BY <2>1, <2>2, <2>3, ExprShape
<1>5. Exprs \subseteq P
  <2>1. h \in [Exprs -> Nat]
    BY ExprShape
  <2> HIDE DEF P, h
  <2> QED
    BY <1>4, <2>1, TreeInduction
<1> QED
  BY <1>5 DEF eval, strict

-----------------------------------------------------------------------------
\* Tuples.  SetCols writes one column after the other.
Writable(A, X, tuple, n, names, values) ==
    /\ tuple \in [A -> X] /\ n \in Nat /\ DOMAIN names = 1 .. n
    /\ \A j \in 1 .. n : values[j] \in X

SetSteps(B, A, X, tuple, n, names, values, def) ==
    /\ B \in [0 .. n -> [A -> X]] /\ B[0] = tuple
    /\ \A k \in 1 .. n : B[k] = SetCol(B[k - 1], names[k], values[k], def)

LEMMA SetColsSteps ==
    ASSUME NEW A, NEW X, NEW tuple, NEW n, NEW names, NEW values, NEW def,
           Writable(A, X, tuple, n, names, values)
    PROVE  \E B : /\ SetSteps(B, A, X, tuple, n, names, values, def)
                  /\ SetCols(tuple, names, values, def) = B[n]
<1> DEFINE V == [A -> X]
           seq == [j \in DOMAIN names |-> j]
           set(t, j) == SetCol(t, names[j], values[j], def)
           step == [w \in (1 .. n) \X V |-> set(w[2], w[1])]
           Defines(it) == it = [s \in SUBSET (DOMAIN seq) |->
                                   IF s = {} THEN tuple
                                   ELSE set(it[s \ {Max(s)}], seq[Max(s)])]
           it == CHOOSE it : Defines(it)
<1>0. /\ tuple \in [A -> X] /\ n \in Nat /\ DOMAIN names = 1 .. n
      /\ \A j \in 1 .. n : values[j] \in X
  BY DEF Writable
<1>1. DOMAIN seq = 1 .. n /\ \A j \in 1 .. n : seq[j] = j
  BY <1>0
<1>2. ASSUME NEW t \in V, NEW j \in 1 .. n PROVE set(t, j) \in V
  BY <1>0 DEF SetCol
<1>3. SetCols(tuple, names, values, def) = it[DOMAIN seq]
  BY DEF SetCols, FoldLeft, MapThenFoldSet
<1> HIDE DEF set, seq
<1>4. \E g \in [SUBSET (1 .. n) -> V] :
         \A s \in SUBSET (1 .. n) :
            g[s] = IF s = {} THEN tuple ELSE set(g[s \ {Max(s)}], seq[Max(s)])
  <2>1. step \in [(1 .. n) \X V -> V] /\ tuple \in V
    <3>1. ASSUME NEW w \in (1 .. n) \X V PROVE set(w[2], w[1]) \in V
      <4>1. w[1] \in 1 .. n /\ w[2] \in V
        OBVIOUS
      <4> HIDE DEF V
      <4> QED
        BY <1>2, <4>1
    <3>2. tuple \in V
      BY <1>0
    <3> HIDE DEF V
    <3> QED
      BY <3>1, <3>2
  <2>2. PICK g \in [SUBSET (1 .. n) -> V] : Folds(g, n, tuple, step)
    <3> HIDE DEF step, V
    <3> QED
      BY <1>0, <2>1, FoldExists
  <2>3. ASSUME NEW s \in SUBSET (1 .. n), s # {}
        PROVE  step[<<Max(s), g[s \ {Max(s)}]>>] = set(g[s \ {Max(s)}], seq[Max(s)])
    <3>1. Max(s) \in 1 .. n
      BY <1>0, <2>3, MaxIs
    <3>2. g[s \ {Max(s)}] \in V
      OBVIOUS
    <3> HIDE DEF V
    <3> QED
      BY <1>1, <3>1, <3>2
  <2>4. \A s \in SUBSET (1 .. n) :
            g[s] = IF s = {} THEN tuple ELSE set(g[s \ {Max(s)}], seq[Max(s)])
    <3> HIDE DEF step
    <3> QED
      BY <2>2, <2>3 DEF Folds
  <2> QED
    BY <2>4
<1>5. Defines(it)
  <2>1. PICK g \in [SUBSET (1 .. n) -> V] :
           \A s \in SUBSET (1 .. n) :
              g[s] = IF s = {} THEN tuple ELSE set(g[s \ {Max(s)}], seq[Max(s)])
    BY <1>4
  <2>2. g = [s \in SUBSET (1 .. n) |-> g[s]]
    OBVIOUS
  <2>3. Defines(g)
    BY <1>1, <2>1, <2>2
  <2> QED
    BY <2>3
<1> HIDE DEF it, step
<1>6. \A s \in SUBSET (1 .. n) :
          it[s] = IF s = {} THEN tuple ELSE set(it[s \ {Max(s)}], seq[Max(s)])
  BY <1>1, <1>5
<1> DEFINE B == [k \in 0 .. n |-> it[1 .. k]]
<1>7. B[0] = tuple
  <2>1. 1 .. 0 = {} /\ {} \in SUBSET (1 .. n) /\ 0 \in 0 .. n
    BY <1>0
  <2> QED
    BY <1>6, <2>1
<1>8. ASSUME NEW k \in 1 .. n
      PROVE  B[k] = set(B[k - 1], k)
  <2>1. /\ 1 .. k \in SUBSET (1 .. n) /\ 1 .. k # {}
        /\ Max(1 .. k) = k
        /\ (1 .. k) \ {k} = 1 .. k - 1
    BY <1>0, FoldRange
  <2>2. it[1 .. k] = set(it[1 .. k - 1], k)
    BY <1>1, <1>6, <2>1
  <2>3. k \in 0 .. n /\ k - 1 \in 0 .. n
    BY <1>0
  <2> QED
    BY <2>2, <2>3
<1>9. B[n] = it[1 .. n]
  BY <1>0
<1> DEFINE P == {k \in Nat : k <= n => B[k] \in V}
<1>10. \A k \in Nat : k >= 0 => k \in P
  <2>1. 0 \in P
    <3> HIDE DEF B
    <3> QED
      BY <1>0, <1>7
  <2>2. ASSUME NEW k \in Nat, k \in P PROVE k + 1 \in P
    <3> SUFFICES ASSUME k + 1 <= n PROVE B[k + 1] \in V
      OBVIOUS
    <3>1. k + 1 \in 1 .. n /\ k <= n /\ (k + 1) - 1 = k
      BY <1>0
    <3> HIDE DEF B, V
    <3>2. B[k] \in V
      BY <2>2, <3>1
    <3> QED
      BY <1>2, <1>8, <3>1, <3>2
  <2> HIDE DEF P
  <2> QED
    BY <2>1, <2>2, InductionFrom
<1>11. B \in [0 .. n -> V]
  <2>1. \A k \in 0 .. n : B[k] \in V
    <3> HIDE DEF B, V
    <3> QED
      BY <1>10
  <2>2. B = [k \in 0 .. n |-> B[k]]
    OBVIOUS
  <2> HIDE DEF B, V
  <2> QED
    BY <2>1, <2>2
<1> HIDE DEF B
<1> QED
  BY <1>1, <1>3, <1>7, <1>8, <1>9, <1>11 DEF set, SetSteps

\* Where goes through a sequence from its start.
KeepSteps(B, X, n, rows, marks, mark) ==
    /\ B \in [0 .. n -> Seq(X)] /\ B[0] = <<>>
    /\ \A k \in 1 .. n : B[k] = IF marks[k] = mark THEN Append(B[k - 1], rows[k]) ELSE B[k - 1]

LEMMA WhereSteps ==
    ASSUME NEW X, NEW rows \in Seq(X), NEW marks, NEW mark
    PROVE  \E B : /\ KeepSteps(B, X, Len(rows), rows, marks, mark)
                  /\ Where(rows, marks, mark) = B[Len(rows)]
<1> DEFINE n == Len(rows)
           V == Seq(X)
           seq == [i \in DOMAIN rows |-> i]
           set(kept, i) == IF marks[i] = mark THEN Append(kept, rows[i]) ELSE kept
           step == [w \in (1 .. n) \X V |-> set(w[2], w[1])]
           Defines(it) == it = [s \in SUBSET (DOMAIN seq) |->
                                   IF s = {} THEN <<>>
                                   ELSE set(it[s \ {Max(s)}], seq[Max(s)])]
           it == CHOOSE it : Defines(it)
<1>1. DOMAIN seq = 1 .. n /\ (\A j \in 1 .. n : seq[j] = j) /\ n \in Nat
  OBVIOUS
<1>2. ASSUME NEW t \in V, NEW j \in 1 .. n PROVE set(t, j) \in V
  OBVIOUS
<1>3. Where(rows, marks, mark) = it[DOMAIN seq]
  BY DEF Where, FoldLeft, MapThenFoldSet
<1> HIDE DEF set, seq
<1>4. \E g \in [SUBSET (1 .. n) -> V] :
         \A s \in SUBSET (1 .. n) :
            g[s] = IF s = {} THEN <<>> ELSE set(g[s \ {Max(s)}], seq[Max(s)])
  <2>1. step \in [(1 .. n) \X V -> V] /\ <<>> \in V
    <3>1. ASSUME NEW w \in (1 .. n) \X V PROVE set(w[2], w[1]) \in V
      <4>1. w[1] \in 1 .. n /\ w[2] \in V
        OBVIOUS
      <4> HIDE DEF V
      <4> QED
        BY <1>2, <4>1
    <3>2. <<>> \in V
      OBVIOUS
    <3> HIDE DEF V
    <3> QED
      BY <3>1, <3>2
  <2>2. PICK g \in [SUBSET (1 .. n) -> V] : Folds(g, n, <<>>, step)
    <3> HIDE DEF step, V
    <3> QED
      BY <1>1, <2>1, FoldExists
  <2>3. ASSUME NEW s \in SUBSET (1 .. n), s # {}
        PROVE  step[<<Max(s), g[s \ {Max(s)}]>>] = set(g[s \ {Max(s)}], seq[Max(s)])
    <3>1. Max(s) \in 1 .. n
      BY <1>1, <2>3, MaxIs
    <3>2. g[s \ {Max(s)}] \in V
      OBVIOUS
    <3> HIDE DEF V
    <3> QED
      BY <1>1, <3>1, <3>2
  <2>4. \A s \in SUBSET (1 .. n) :
            g[s] = IF s = {} THEN <<>> ELSE set(g[s \ {Max(s)}], seq[Max(s)])
    <3> HIDE DEF step
    <3> QED
      BY <2>2, <2>3 DEF Folds
  <2> QED
    BY <2>4
<1>5. Defines(it)
  <2>1. PICK g \in [SUBSET (1 .. n) -> V] :
           \A s \in SUBSET (1 .. n) :
              g[s] = IF s = {} THEN <<>> ELSE set(g[s \ {Max(s)}], seq[Max(s)])
    BY <1>4
  <2>2. g = [s \in SUBSET (1 .. n) |-> g[s]]
    OBVIOUS
  <2>3. Defines(g)
    BY <1>1, <2>1, <2>2
  <2> QED
    BY <2>3
<1> HIDE DEF it, step
<1>6. \A s \in SUBSET (1 .. n) :
          it[s] = IF s = {} THEN <<>> ELSE set(it[s \ {Max(s)}], seq[Max(s)])
  BY <1>1, <1>5
<1> DEFINE B == [k \in 0 .. n |-> it[1 .. k]]
<1>7. B[0] = <<>>
  <2>1. 1 .. 0 = {} /\ {} \in SUBSET (1 .. n) /\ 0 \in 0 .. n
    OBVIOUS
  <2> QED
    BY <1>6, <2>1
<1>8. ASSUME NEW k \in 1 .. n
      PROVE  B[k] = set(B[k - 1], k)
  <2>1. /\ 1 .. k \in SUBSET (1 .. n) /\ 1 .. k # {}
        /\ Max(1 .. k) = k
        /\ (1 .. k) \ {k} = 1 .. k - 1
    BY FoldRange
  <2>2. it[1 .. k] = set(it[1 .. k - 1], k)
    BY <1>1, <1>6, <2>1
  <2>3. k \in 0 .. n /\ k - 1 \in 0 .. n
    OBVIOUS
  <2> QED
    BY <2>2, <2>3
<1>9. B[n] = it[1 .. n]
  OBVIOUS
<1> DEFINE P == {k \in Nat : k <= n => B[k] \in V}
<1>10. \A k \in Nat : k >= 0 => k \in P
  <2>1. 0 \in P
    <3>1. <<>> \in V
      OBVIOUS
    <3> HIDE DEF B, V
    <3> QED
      BY <1>7, <3>1
  <2>2. ASSUME NEW k \in Nat, k \in P PROVE k + 1 \in P
    <3> SUFFICES ASSUME k + 1 <= n PROVE B[k + 1] \in V
      OBVIOUS
    <3>1. k + 1 \in 1 .. n /\ k <= n /\ (k + 1) - 1 = k
      OBVIOUS
    <3> HIDE DEF B, V
    <3>2. B[k] \in V
      BY <2>2, <3>1
    <3> QED
      BY <1>2, <1>8, <3>1, <3>2
  <2> HIDE DEF P
  <2> QED
    BY <2>1, <2>2, InductionFrom
<1>11. B \in [0 .. n -> V]
  <2>1. \A k \in 0 .. n : B[k] \in V
    <3> HIDE DEF B, V
    <3> QED
      BY <1>10
  <2>2. B = [k \in 0 .. n |-> B[k]]
    OBVIOUS
  <2> HIDE DEF B, V
  <2> QED
    BY <2>1, <2>2
<1> HIDE DEF B
<1> QED
  BY <1>1, <1>3, <1>7, <1>8, <1>9, <1>11 DEF set, KeepSteps

\* The places before place k + 1 at which SetCols writes column c.
Writes(names, def, c, k) == {j \in 1 .. k : GetColIdx(def, names[j]) = c}

\* The last write of a column decides, and what is not written stays.
Written(tuple, names, values, def, c, k) ==
    IF Writes(names, def, c, k) = {} THEN tuple[c] ELSE values[Max(Writes(names, def, c, k))]

LEMMA SetColsIs ==
    ASSUME NEW A, NEW X, NEW tuple, NEW n, NEW names, NEW values, NEW def,
           Writable(A, X, tuple, n, names, values)
    PROVE  /\ SetCols(tuple, names, values, def) \in [A -> X]
           /\ \A c \in A : SetCols(tuple, names, values, def)[c] =
                               Written(tuple, names, values, def, c, n)
<1>0. PICK B : /\ SetSteps(B, A, X, tuple, n, names, values, def)
               /\ SetCols(tuple, names, values, def) = B[n]
  BY SetColsSteps
<1>1. /\ B \in [0 .. n -> [A -> X]] /\ B[0] = tuple /\ n \in Nat
      /\ \A k \in 1 .. n : B[k] = SetCol(B[k - 1], names[k], values[k], def)
      /\ SetCols(tuple, names, values, def) = B[n]
  BY <1>0 DEF SetSteps, Writable
<1> DEFINE to(c, k) == Writes(names, def, c, k)
           P == {k \in Nat : k <= n => \A c \in A : B[k][c] = Written(tuple, names, values, def, c, k)}
<1>2. 0 \in P
  <2>1. \A c \in A : to(c, 0) = {}
    BY DEF Writes
  <2> QED
    BY <1>1, <2>1 DEF Written
<1>3. ASSUME NEW k \in Nat, k \in P PROVE k + 1 \in P
  <2> SUFFICES ASSUME k + 1 <= n, NEW c \in A
               PROVE  B[k + 1][c] = Written(tuple, names, values, def, c, k + 1)
    OBVIOUS
  <2>1. /\ k + 1 \in 1 .. n /\ k \in 0 .. n /\ (k + 1) - 1 = k
        /\ B[k] \in [A -> X] /\ B[k][c] = Written(tuple, names, values, def, c, k)
    BY <1>1, <1>3
  <2>2. B[k + 1] = [B[k] EXCEPT ![GetColIdx(def, names[k + 1])] = values[k + 1]]
    BY <1>1, <2>1 DEF SetCol
  <2>3. CASE GetColIdx(def, names[k + 1]) = c
    <3>1. B[k + 1][c] = values[k + 1]
      BY <2>1, <2>2, <2>3
    <3>2. k + 1 \in to(c, k + 1) /\ to(c, k + 1) \in SUBSET (1 .. k + 1) /\ k + 1 \in Nat
      BY <2>3 DEF Writes
    <3>3. Max(to(c, k + 1)) \in 1 .. k + 1 /\ k + 1 <= Max(to(c, k + 1))
      <4> HIDE DEF to
      <4> QED
        BY <3>2, MaxIs
    <3>4. Max(to(c, k + 1)) = k + 1
      BY <3>3
    <3> QED
      BY <3>1, <3>2, <3>4 DEF Written
  <2>4. CASE GetColIdx(def, names[k + 1]) # c
    <3>1. B[k + 1][c] = B[k][c]
      BY <2>1, <2>2, <2>4
    <3>2. to(c, k + 1) = to(c, k)
      BY <2>4 DEF Writes
    <3> QED
      BY <2>1, <3>1, <3>2 DEF Written
  <2> QED
    BY <2>3, <2>4
<1>4. \A k \in Nat : k >= 0 => k \in P
  <2> HIDE DEF P
  <2> QED
    BY <1>2, <1>3, InductionFrom
<1>5. n \in 0 .. n /\ B[n] \in [A -> X]
  BY <1>1
<1> QED
  BY <1>1, <1>4, <1>5

\* Where keeps the rows at the places of the mark, in their order.
Picks(at, n, marks, mark) ==
    /\ at \in Seq(1 .. n)
    /\ \A k, l \in 1 .. Len(at) : k < l => at[k] < at[l]
    /\ \A k \in 1 .. Len(at) : marks[at[k]] = mark
    /\ \A i \in 1 .. n : marks[i] = mark => \E k \in 1 .. Len(at) : at[k] = i

Picked(kept, rows, at) ==
    Len(kept) = Len(at) /\ \A k \in 1 .. Len(at) : kept[k] = rows[at[k]]

LEMMA WhereIs ==
    ASSUME NEW X, NEW rows \in Seq(X), NEW marks, NEW mark
    PROVE  /\ Where(rows, marks, mark) \in Seq(X)
           /\ \E at : Picks(at, Len(rows), marks, mark) /\ Picked(Where(rows, marks, mark), rows, at)
<1> DEFINE n == Len(rows)
<1>0. PICK B : /\ KeepSteps(B, X, Len(rows), rows, marks, mark)
               /\ Where(rows, marks, mark) = B[Len(rows)]
  BY WhereSteps
<1>1. /\ n \in Nat /\ B \in [0 .. n -> Seq(X)] /\ B[0] = <<>>
      /\ \A k \in 1 .. n : B[k] = IF marks[k] = mark THEN Append(B[k - 1], rows[k]) ELSE B[k - 1]
      /\ Where(rows, marks, mark) = B[n]
  BY <1>0 DEF KeepSteps
<1> HIDE DEF n
<1> DEFINE Good(k) == \E at : Picks(at, k, marks, mark) /\ Picked(B[k], rows, at)
           P == {k \in Nat : k <= n => Good(k)}
<1>2. 0 \in P
  <2>1. Picks(<<>>, 0, marks, mark) /\ Picked(B[0], rows, <<>>)
    BY <1>1 DEF Picks, Picked
  <2> QED
    BY <2>1
<1> HIDE DEF Good
<1>3. ASSUME NEW k \in Nat, k \in P PROVE k + 1 \in P
  <2> SUFFICES ASSUME k + 1 <= n PROVE Good(k + 1)
    OBVIOUS
  <2>1. k + 1 \in 1 .. n /\ k \in 0 .. n /\ (k + 1) - 1 = k /\ Good(k)
    BY <1>1, <1>3
  <2>2. PICK at : Picks(at, k, marks, mark) /\ Picked(B[k], rows, at)
    BY <2>1 DEF Good
  <2>3. at \in Seq(1 .. k) /\ Len(at) \in Nat /\ \A j \in 1 .. Len(at) : at[j] \in 1 .. k
    BY <2>2 DEF Picks
  <2>4. CASE marks[k + 1] = mark
    <3> DEFINE bt == Append(at, k + 1)
               l == Len(at) + 1
    <3>1. /\ bt \in Seq(1 .. k + 1) /\ Len(bt) = l /\ bt[l] = k + 1
          /\ \A j \in 1 .. Len(at) : bt[j] = at[j]
      <4>1. at \in Seq(1 .. k + 1)
        BY <2>3
      <4> QED
        BY <2>3, <4>1, AppendProperties
    <3>2. B[k + 1] = Append(B[k], rows[k + 1]) /\ B[k] \in Seq(X) /\ rows[k + 1] \in X
      <4>1. B[k + 1] = Append(B[k], rows[k + 1])
        BY <1>1, <2>1, <2>4
      <4>2. B[k] \in Seq(X)
        BY <1>1, <2>1
      <4>3. rows[k + 1] \in X
        BY <2>1, ElementOfSeq DEF n
      <4> QED
        BY <4>1, <4>2, <4>3
    <3>3. Len(B[k]) = Len(at) /\ \A j \in 1 .. Len(at) : B[k][j] = rows[at[j]]
      BY <2>2 DEF Picked
    <3>4. Len(B[k + 1]) = l /\ B[k + 1][l] = rows[k + 1]
          /\ \A j \in 1 .. Len(at) : B[k + 1][j] = rows[at[j]]
      BY <3>2, <3>3, AppendProperties
    <3> HIDE DEF bt
    <3>5. Picked(B[k + 1], rows, bt)
      <4>1. \A j \in 1 .. l : j = l \/ j \in 1 .. Len(at)
        BY <2>3
      <4> QED
        BY <3>1, <3>4, <4>1 DEF Picked
    <3>6. Picks(bt, k + 1, marks, mark)
      <4>1. ASSUME NEW i \in 1 .. l, NEW j \in 1 .. l, i < j PROVE bt[i] < bt[j]
        <5>1. i \in 1 .. Len(at) /\ bt[i] = at[i] /\ at[i] \in 1 .. k
          BY <2>3, <3>1, <4>1
        <5>2. CASE j = l
          BY <3>1, <5>1, <5>2
        <5>3. CASE j # l
          <6>1. j \in 1 .. Len(at)
            BY <2>3, <5>3
          <6> QED
            BY <2>2, <3>1, <4>1, <5>1, <6>1 DEF Picks
        <5> QED
          BY <5>2, <5>3
      <4>2. ASSUME NEW i \in 1 .. l PROVE marks[bt[i]] = mark
        <5>1. i = l \/ i \in 1 .. Len(at)
          BY <2>3
        <5> QED
          BY <2>2, <2>4, <3>1, <5>1 DEF Picks
      <4>3. ASSUME NEW i \in 1 .. k + 1, marks[i] = mark PROVE \E j \in 1 .. l : bt[j] = i
        <5>1. CASE i = k + 1
          BY <2>3, <3>1, <5>1
        <5>2. CASE i # k + 1
          <6>1. i \in 1 .. k
            BY <5>2
          <6>2. PICK j \in 1 .. Len(at) : at[j] = i
            BY <2>2, <4>3, <6>1 DEF Picks
          <6> QED
            BY <2>3, <3>1, <6>2
        <5> QED
          BY <5>1, <5>2
      <4> QED
        BY <3>1, <4>1, <4>2, <4>3 DEF Picks
    <3> QED
      BY <3>5, <3>6 DEF Good
  <2>5. CASE marks[k + 1] # mark
    <3>1. B[k + 1] = B[k]
      BY <1>1, <2>1, <2>5
    <3>2. Picks(at, k + 1, marks, mark)
      <4>1. at \in Seq(1 .. k + 1)
        BY <2>3
      <4>2. ASSUME NEW i \in 1 .. k + 1, marks[i] = mark
            PROVE  \E j \in 1 .. Len(at) : at[j] = i
        <5>1. i \in 1 .. k
          BY <2>5, <4>2
        <5> QED
          BY <2>2, <4>2, <5>1 DEF Picks
      <4> QED
        BY <2>2, <4>1, <4>2 DEF Picks
    <3> QED
      BY <2>2, <3>1, <3>2 DEF Good
  <2> QED
    BY <2>4, <2>5
<1>4. \A k \in Nat : k >= 0 => k \in P
  <2> HIDE DEF P
  <2> QED
    BY <1>2, <1>3, InductionFrom
<1>5. n \in Nat /\ n \in 0 .. n /\ B[n] \in Seq(X)
  BY <1>1
<1>6. Good(n)
  BY <1>4, <1>5
<1> QED
  BY <1>1, <1>5, <1>6 DEF Good, n

-----------------------------------------------------------------------------
\* Rows.  A new tuple is one of its definition.
LEMMA MakeTupleIs ==
    ASSUME NEW S, NEW def \in Seq(S)
    PROVE  IsTupleOf(MakeTuple(def), def)
<1>1. DOMAIN def = 1 .. Len(def) /\ Len(def) \in Nat
  OBVIOUS
<1>2. Null \in Data /\ Null.type = "null"
  BY DataFacts
<1>3. MakeTuple(def) \in Seq(Data)
  BY <1>1, <1>2 DEF MakeTuple
<1> QED
  BY <1>1, <1>2, <1>3 DEF IsTupleOf, MakeTuple

\* Values that have the types of the columns to which their names lead.
Fits(n, names, values, def) ==
    /\ n \in Nat /\ DOMAIN names = 1 .. n
    /\ \A j \in 1 .. n :
          /\ values[j] \in Data
          /\ GetColIdx(def, names[j]) # 0 =>
                values[j].type \in {def[GetColIdx(def, names[j])].type, "null"}

LEMMA SetColsTyped ==
    ASSUME NEW S, NEW def \in Seq(S), NEW tuple, IsTupleOf(tuple, def),
           NEW n, NEW names, NEW values, Fits(n, names, values, def)
    PROVE  IsTupleOf(SetCols(tuple, names, values, def), def)
<1> DEFINE A == 1 .. Len(def)
           result == SetCols(tuple, names, values, def)
<1>1. DOMAIN def = A /\ Len(def) \in Nat /\ tuple \in Seq(Data) /\ DOMAIN tuple = A
  BY DEF IsTupleOf
<1>2. tuple \in [A -> Data]
  BY <1>1
<1>3. n \in Nat /\ DOMAIN names = 1 .. n /\ \A j \in 1 .. n : values[j] \in Data
  BY DEF Fits
<1>4. Writable(A, Data, tuple, n, names, values)
  BY <1>2, <1>3 DEF Writable
<1>5. result \in [A -> Data] /\ \A c \in A : result[c] = Written(tuple, names, values, def, c, n)
  <2> HIDE DEF A
  <2> QED
    BY <1>4, SetColsIs
<1>6. ASSUME NEW c \in A PROVE result[c].type \in {def[c].type, "null"}
  <2> DEFINE to == Writes(names, def, c, n)
  <2>1. CASE to = {}
    BY <1>1, <1>5, <2>1 DEF Written, IsTupleOf
  <2>2. CASE to # {}
    <3>1. to \in SUBSET (1 .. n)
      BY DEF Writes
    <3>2. Max(to) \in to
      <4> HIDE DEF to
      <4> QED
        BY <1>3, <2>2, <3>1, MaxIs
    <3>3. Max(to) \in 1 .. n /\ GetColIdx(def, names[Max(to)]) = c
      BY <3>2 DEF Writes
    <3>4. result[c] = values[Max(to)]
      BY <1>5, <2>2 DEF Written
    <3>5. c # 0
      BY <1>1
    <3> HIDE DEF to
    <3> QED
      BY <3>3, <3>4, <3>5 DEF Fits
  <2> QED
    BY <2>1, <2>2
<1>7. result \in Seq(Data) /\ DOMAIN result = A
  <2> HIDE DEF result
  <2> QED
    BY <1>1, <1>5
<1> QED
  BY <1>1, <1>6, <1>7 DEF IsTupleOf

\* A row gives its columns values of their types.
LEMMA RowReads ==
    ASSUME NEW def \in Defs, SameTypes(def, def), NEW tuple, IsTupleOf(tuple, def)
    PROVE  Reads(tuple, def, <<def>>)
<1> SUFFICES ASSUME NEW name \in STRING
             PROVE  /\ GetCol(tuple, name, def) \in Data \cup Deaths
                    /\ GetCol(tuple, name, def) \in Data /\ ColType(name, <<def>>) # "unknown" =>
                          GetCol(tuple, name, def).type \in {ColType(name, <<def>>), "null"}
  BY DEF Reads
<1> DEFINE i == GetColIdx(def, name)
<1>1. CASE tuple = NoTuple \/ i = 0
  <2>1. GetCol(tuple, name, def) = Death("GetCol")
    BY <1>1 DEF GetCol
  <2>2. Death("GetCol") \in Deaths
    BY DEF Deaths
  <2> QED
    BY <2>1, <2>2, DataFacts
<1>2. CASE tuple # NoTuple /\ i # 0
  <2>1. i \in DOMAIN def
    BY <1>2, GetColIdxIs DEF Defs
  <2>2. GetCol(tuple, name, def) = tuple[i]
    BY <1>2 DEF GetCol
  <2>3. tuple[i] \in Data /\ tuple[i].type \in {def[i].type, "null"}
    <3>1. tuple \in Seq(Data) /\ i \in DOMAIN tuple
      BY <2>1 DEF IsTupleOf
    <3> HIDE DEF i
    <3> QED
      BY <2>1, <3>1, ElementOfSeq DEF IsTupleOf
  <2>4. ColType(name, <<def>>) # "unknown" => ColType(name, <<def>>) = def[i].type
    <3>1. <<def>> \in Seq(Defs) /\ DOMAIN <<def>> = {1} /\ <<def>>[1] = def
      OBVIOUS
    <3> QED
      BY <3>1, ColTypeIs
  <2> HIDE DEF i
  <2> QED
    BY <2>2, <2>3, <2>4
<1> QED
  BY <1>1, <1>2

\* Without a tuple names end the process.
LEMMA NoTupleReads ==
    ASSUME NEW def, NEW joinList
    PROVE  Reads(NoTuple, def, joinList)
<1>1. \A name : GetCol(NoTuple, name, def) = Death("GetCol")
  BY DEF GetCol
<1>2. Death("GetCol") \in Deaths
  BY DEF Deaths
<1> QED
  BY <1>1, <1>2, DataFacts DEF Reads

-----------------------------------------------------------------------------
\* The analyzer.
Verdicts == {"ok", "rejected", "died"}

LEMMA VerdictIs ==
    \A type, good : "panic" \notin good =>
        /\ Verdict(type, good) \in Verdicts
        /\ Verdict(type, good) = "ok" <=> type \in good
<1> TAKE type, good
<1> HAVE "panic" \notin good
<1>1. CASE type = "panic"
  BY <1>1 DEF Verdict, Verdicts
<1>2. CASE type # "panic" /\ type \in good
  BY <1>2 DEF Verdict, Verdicts
<1>3. CASE type # "panic" /\ type \notin good
  BY <1>3 DEF Verdict, Verdicts
<1> QED
  BY <1>1, <1>2, <1>3

LEMMA FirstFailureIs ==
    ASSUME NEW n \in Nat, NEW verdicts, DOMAIN verdicts = 1 .. n
    PROVE  /\ FirstFailure(verdicts) = "ok" <=> \A i \in 1 .. n : verdicts[i] = "ok"
           /\ (\A i \in 1 .. n : verdicts[i] \in Verdicts) => FirstFailure(verdicts) \in Verdicts
<1> DEFINE failures == {i \in DOMAIN verdicts : verdicts[i] # "ok"}
<1>1. CASE failures = {}
  BY <1>1 DEF FirstFailure, Verdicts
<1>2. CASE failures # {}
  <2>1. Min(failures) \in failures
    <3>1. failures \in SUBSET Nat
      OBVIOUS
    <3> HIDE DEF failures
    <3> QED
      BY <1>2, <3>1, MinIs
  <2>2. FirstFailure(verdicts) = verdicts[Min(failures)]
    BY <1>2 DEF FirstFailure
  <2>3. Min(failures) \in 1 .. n /\ verdicts[Min(failures)] # "ok"
    BY <2>1
  <2> HIDE DEF failures
  <2> QED
    BY <2>2, <2>3
<1> QED
  BY <1>1, <1>2

LEMMA CheckConditionIs ==
    \A cond, joinList :
        /\ CheckCondition(cond, joinList) \in Verdicts
        /\ CheckCondition(cond, joinList) = "ok" <=>
              cond = Absent \/ CheckType(cond, joinList) = "bool"
<1> TAKE cond, joinList
<1>1. CASE cond = Absent
  BY <1>1 DEF CheckCondition, Verdicts
<1>2. CASE cond # Absent
  BY <1>2, VerdictIs DEF CheckCondition
<1> QED
  BY <1>1, <1>2

\* The tables have definitions and rows of data.
Tables == Seq([name : STRING, cols : Defs, rows : Seq(Seq(Data))])

LEMMA TableIs ==
    ASSUME tables \in Tables, NEW t \in DOMAIN tables
    PROVE  /\ tables[t].name \in STRING /\ tables[t].cols \in Defs /\ tables[t].rows \in Seq(Seq(Data))
           /\ tables[t] = [name |-> tables[t].name, cols |-> tables[t].cols, rows |-> tables[t].rows]
<1>1. tables[t] \in [name : STRING, cols : Defs, rows : Seq(Seq(Data))]
  <2>1. tables \in Seq([name : STRING, cols : Defs, rows : Seq(Seq(Data))]) /\ DOMAIN tables = 1 .. Len(tables)
    BY DEF Tables
  <2> QED
    BY <2>1, ElementOfSeq
<1> QED
  BY <1>1

LEMMA FindTableIs ==
    ASSUME tables \in Tables, NEW name
    PROVE  /\ FindTableDef(name) = 0 \/ FindTableDef(name) \in DOMAIN tables
           /\ FindTableDef(name) # 0 => tables[FindTableDef(name)].name = name
           /\ 0 \notin DOMAIN tables
<1>1. TablesNamed(name) \in SUBSET Nat /\ 0 \notin DOMAIN tables
  BY DEF TablesNamed, Tables
<1>2. TablesNamed(name) # {} => Min(TablesNamed(name)) \in TablesNamed(name)
  BY <1>1, MinIs
<1> QED
  BY <1>1, <1>2 DEF FindTableDef, TablesNamed

\* What AnalyzeJoinList returns: if the clause is accepted, the last definition of
\* the join list is its own.
Analyses ==
    {r \in [list : Seq(Defs), verdict : Verdicts] : r.verdict = "ok" => r.list # <<>>}

LEMMA LastOfSeq ==
    ASSUME NEW S, NEW seq \in Seq(S), seq # <<>>
    PROVE  Last(seq) \in S
BY DEF Last

LEMMA AnalyzeTableType ==
    ASSUME tables \in Tables, NEW name, NEW joinList \in Seq(Defs)
    PROVE  AnalyzeTable(name, joinList) \in Analyses
<1> DEFINE t == FindTableDef(name)
<1>1. CASE t = 0
  BY <1>1 DEF AnalyzeTable, Analyses, Verdicts
<1>2. CASE t # 0
  <2>1. tables[t].cols \in Defs
    BY <1>2, FindTableIs, TableIs
  <2>2. AnalyzeTable(name, joinList) = [list |-> Append(joinList, tables[t].cols), verdict |-> "ok"]
    BY <1>2 DEF AnalyzeTable
  <2> HIDE DEF t
  <2>3. Append(joinList, tables[t].cols) \in Seq(Defs) /\ Append(joinList, tables[t].cols) # <<>>
    BY <2>1
  <2> QED
    BY <2>2, <2>3 DEF Analyses, Verdicts
<1> QED
  BY <1>1, <1>2

LEMMA AnalyzeJoinType ==
    ASSUME NEW left \in Analyses, NEW right \in Analyses, NEW on
    PROVE  AnalyzeJoin(left, right, on) \in Analyses
<1>1. CASE left.verdict # "ok" \/ right.verdict # "ok"
  BY <1>1 DEF AnalyzeJoin
<1>2. CASE left.verdict = "ok" /\ right.verdict = "ok"
  <2> DEFINE list == Append(right.list, JoinedDef(Last(left.list), Last(right.list)))
  <2>1. left.list \in Seq(Defs) /\ left.list # <<>> /\ right.list \in Seq(Defs) /\ right.list # <<>>
    BY <1>2 DEF Analyses
  <2>2. Last(left.list) \in Defs /\ Last(right.list) \in Defs
    BY <2>1, LastOfSeq
  <2>3. JoinedDef(Last(left.list), Last(right.list)) \in Defs
    BY <2>2 DEF JoinedDef, Defs
  <2>4. list \in Seq(Defs) /\ list # <<>>
    <3> DEFINE last == JoinedDef(Last(left.list), Last(right.list))
               rl == right.list
    <3>1. rl \in Seq(Defs) /\ last \in Defs
      BY <2>1, <2>3
    <3>2. list = Append(rl, last)
      OBVIOUS
    <3> HIDE DEF list, last, rl
    <3> QED
      BY <3>1, <3>2, AppendProperties
  <2>5. AnalyzeJoin(left, right, on) = [list |-> list, verdict |-> CheckCondition(on, list)]
    BY <1>2 DEF AnalyzeJoin
  <2> HIDE DEF list
  <2> QED
    BY <2>4, <2>5, CheckConditionIs DEF Analyses
<1> QED
  BY <1>1, <1>2

\* AnalyzeJoinList is what its recursive definition says.
LEMMA AnalyzeJoinListIs ==
    ASSUME tables \in Tables
    PROVE  \A from \in FromClauses, joinList \in Seq(Defs) :
              /\ AnalyzeJoinList(from, joinList) \in Analyses
              /\ from.type = "table" => AnalyzeJoinList(from, joinList) = AnalyzeTable(from.table, joinList)
              /\ from.type = "join" =>
                    LET left == AnalyzeJoinList(from.left, joinList)
                    IN  AnalyzeJoinList(from, joinList) =
                            AnalyzeJoin(left, AnalyzeJoinList(from.right, left.list), from.on)
<1> DEFINE V == [Seq(Defs) -> Analyses]
           one(f, g, before) ==
               IF f.type = "table" THEN AnalyzeTable(f.table, before)
               ELSE AnalyzeJoin(g[f.left][before], g[f.right][g[f.left][before].list], f.on)
           rule(f, g) == [before \in Seq(Defs) |-> one(f, g, before)]
           D == [w \in FromClauses \X [FromClauses -> V] |-> rule(w[1], w[2])]
           h == [f \in FromClauses |-> Height[f]]
           Defines(g) == g = [f \in FromClauses |-> rule(f, g)]
           analyze == CHOOSE g : Defines(g)
<1>1. ASSUME NEW f \in FromClauses, NEW before
      PROVE  /\ f.type = "table" => \A g : one(f, g, before) = AnalyzeTable(f.table, before)
             /\ f.type = "join" => \A g : one(f, g, before) =
                    AnalyzeJoin(g[f.left][before], g[f.right][g[f.left][before].list], f.on)
  OBVIOUS
<1> HIDE DEF one
<1>2. ASSUME NEW f \in FromClauses, NEW g \in [FromClauses -> V], NEW before \in Seq(Defs)
      PROVE  one(f, g, before) \in Analyses
  <2>1. CASE f.type = "table"
    BY <1>1, <2>1, AnalyzeTableType
  <2>2. CASE f.type = "join"
    <3>1. f.left \in FromClauses /\ f.right \in FromClauses
      BY <2>2, FromShape
    <3>2. g[f.left][before] \in Analyses
      BY <3>1
    <3>3. g[f.left][before].list \in Seq(Defs)
      BY <3>2 DEF Analyses
    <3>4. g[f.right][g[f.left][before].list] \in Analyses
      BY <3>1, <3>3
    <3> QED
      BY <1>1, <2>2, <3>2, <3>4, AnalyzeJoinType
  <2> QED
    BY <2>1, <2>2, FromShape
<1>3. h \in [FromClauses -> Nat] /\ V # {}
  <2>1. [list |-> <<>>, verdict |-> "died"] \in Analyses
    BY DEF Analyses, Verdicts
  <2>2. [before \in Seq(Defs) |-> [list |-> <<>>, verdict |-> "died"]] \in V
    BY <2>1
  <2> QED
    BY <2>2, FromShape
<1>4. D \in [FromClauses \X [FromClauses -> V] -> V]
  <2>1. ASSUME NEW f \in FromClauses, NEW g \in [FromClauses -> V] PROVE rule(f, g) \in V
    BY <1>2
  <2> HIDE DEF rule, V
  <2> QED
    BY <2>1
<1>5. ASSUME NEW f \in FromClauses, NEW g \in [FromClauses -> V], NEW k \in [FromClauses -> V],
             \A d \in FromClauses : h[d] < h[f] => g[d] = k[d]
      PROVE  D[<<f, g>>] = D[<<f, k>>]
  <2>1. ASSUME NEW before \in Seq(Defs) PROVE one(f, g, before) = one(f, k, before)
    <3>1. CASE f.type = "table"
      BY <1>1, <3>1
    <3>2. CASE f.type = "join"
      <4>1. /\ f.left \in FromClauses /\ f.right \in FromClauses
            /\ h[f.left] < h[f] /\ h[f.right] < h[f]
        BY <3>2, FromShape
      <4>2. g[f.left] = k[f.left] /\ g[f.right] = k[f.right]
        BY <1>5, <4>1
      <4> QED
        BY <1>1, <3>2, <4>2
    <3> QED
      BY <3>1, <3>2, FromShape
  <2>2. rule(f, g) = rule(f, k)
    BY <2>1
  <2> HIDE DEF rule, V
  <2> QED
    BY <2>2
<1>6. \E g : Defines(g)
  <2>1. Recurses(D, FromClauses, V, h)
    <3> HIDE DEF D, h, V
    <3> QED
      BY <1>3, <1>4, <1>5 DEF Recurses
  <2>2. PICK g : Solves(g, D, FromClauses, V)
    <3> HIDE DEF D, h, V
    <3> QED
      BY <2>1, TreeRecursion
  <2> HIDE DEF rule, V
  <2>3. \A f \in FromClauses : g[f] = rule(f, g)
    BY <2>2 DEF Solves
  <2>4. g = [f \in FromClauses |-> rule(f, g)]
    BY <2>2, <2>3 DEF Solves
  <2> QED
    BY <2>4
<1>7. Defines(analyze)
  <2> HIDE DEF Defines
  <2> QED
    BY <1>6
<1>8. \A f \in FromClauses : analyze[f] = rule(f, analyze)
  <2> HIDE DEF analyze, rule
  <2> QED
    BY <1>7
<1>9. ASSUME NEW f \in FromClauses, NEW joinList \in Seq(Defs)
      PROVE  AnalyzeJoinList(f, joinList) = analyze[f][joinList]
  BY DEF AnalyzeJoinList, one
<1> HIDE DEF analyze
<1>10. ASSUME NEW f \in FromClauses, NEW before \in Seq(Defs)
       PROVE  analyze[f][before] = one(f, analyze, before)
  BY <1>8
<1> DEFINE P == {f \in FromClauses : analyze[f] \in V}
<1>11. ASSUME NEW f \in FromClauses, \A d \in FromClauses : h[d] < h[f] => d \in P
       PROVE  f \in P
  <2>1. ASSUME NEW before \in Seq(Defs) PROVE analyze[f][before] \in Analyses
    <3>1. CASE f.type = "table"
      BY <1>1, <1>10, <3>1, AnalyzeTableType
    <3>2. CASE f.type = "join"
      <4>1. f.left \in P /\ f.right \in P
        BY <1>11, <3>2, FromShape
      <4>2. analyze[f.left][before] \in Analyses
        BY <4>1
      <4>3. analyze[f.left][before].list \in Seq(Defs)
        BY <4>2 DEF Analyses
      <4>4. analyze[f.right][analyze[f.left][before].list] \in Analyses
        BY <4>1, <4>3
      <4> QED
        BY <1>1, <1>10, <3>2, <4>2, <4>4, AnalyzeJoinType
    <3> QED
      BY <3>1, <3>2, FromShape
  <2>2. analyze[f] = [before \in Seq(Defs) |-> analyze[f][before]]
    BY <1>8
  <2> QED
    BY <2>1, <2>2
<1>12. FromClauses \subseteq P
  <2> HIDE DEF P, h
  <2> QED
    BY <1>3, <1>11, TreeInduction
<1> QED
  <2> SUFFICES ASSUME NEW from \in FromClauses, NEW joinList \in Seq(Defs)
               PROVE  /\ AnalyzeJoinList(from, joinList) \in Analyses
                      /\ from.type = "table" => AnalyzeJoinList(from, joinList) = AnalyzeTable(from.table, joinList)
                      /\ from.type = "join" =>
                            LET left == AnalyzeJoinList(from.left, joinList)
                            IN  AnalyzeJoinList(from, joinList) =
                                    AnalyzeJoin(left, AnalyzeJoinList(from.right, left.list), from.on)
    OBVIOUS
  <2>1. AnalyzeJoinList(from, joinList) = one(from, analyze, joinList)
    BY <1>9, <1>10
  <2>2. AnalyzeJoinList(from, joinList) \in Analyses
    BY <1>9, <1>12
  <2>3. CASE from.type = "table"
    BY <1>1, <2>1, <2>2, <2>3
  <2>4. CASE from.type = "join"
    <3>1. from.left \in FromClauses /\ from.right \in FromClauses
      BY <2>4, FromShape
    <3>2. /\ AnalyzeJoinList(from.left, joinList) = analyze[from.left][joinList]
          /\ analyze[from.left][joinList] \in Analyses
      BY <1>9, <1>12, <3>1
    <3>3. analyze[from.left][joinList].list \in Seq(Defs)
      BY <3>2 DEF Analyses
    <3>4. AnalyzeJoinList(from.right, analyze[from.left][joinList].list) =
              analyze[from.right][analyze[from.left][joinList].list]
      BY <1>9, <3>1, <3>3
    <3> QED
      BY <1>1, <2>1, <2>2, <2>4, <3>2, <3>4
  <2> QED
    BY <2>3, <2>4, FromShape

-----------------------------------------------------------------------------
\* Statements.
LEMMA StatementShapes ==
    /\ \A s \in Selects : /\ s.kind = "select" /\ s.targets \in Seq(Exprs)
                          /\ s.from \in FromClauses \cup {Absent}
                          /\ s.where \in Clauses /\ s.sort \in Clauses
    /\ \A s \in Inserts : /\ s.kind = "insert" /\ s.table \in STRING
                          /\ s.columns \in Seq(STRING) /\ s.values \in Seq(Seq(Exprs))
    /\ \A s \in Updates : /\ s.kind = "update" /\ s.table \in STRING
                          /\ s.assigns \in Seq([column : STRING, value : Exprs])
                          /\ s.where \in Clauses
    /\ \A s \in Deletes : s.kind = "delete" /\ s.table \in STRING /\ s.where \in Clauses
    /\ \A s \in CreateTables : /\ s.kind = "create" /\ s.table \in STRING
                               /\ s.columns \in Seq([name : STRING, type : STRING])
<1>1. \A s \in Selects : s \in [kind : {"select"}, targets : Seq(Exprs),
                          from : FromClauses \cup {Absent}, where : Clauses, sort : Clauses]
  BY StatementsAssumption
<1>2. \A s \in Inserts : s \in [kind : {"insert"}, table : STRING, columns : Seq(STRING),
                          values : Seq(Seq(Exprs))]
  BY StatementsAssumption
<1>3. \A s \in Updates : s \in [kind : {"update"}, table : STRING,
                          assigns : Seq([column : STRING, value : Exprs]), where : Clauses]
  BY StatementsAssumption
<1>4. \A s \in Deletes : s \in [kind : {"delete"}, table : STRING, where : Clauses]
  BY StatementsAssumption
<1>5. \A s \in CreateTables : s \in [kind : {"create"}, table : STRING,
                               columns : Seq([name : STRING, type : STRING])]
  BY StatementsAssumption
<1> QED
  BY <1>1, <1>2, <1>3, <1>4, <1>5

\* The analyzer decides every statement.
LEMMA InsertVerdict ==
    ASSUME tables \in Tables, NEW s \in Inserts, NEW lucky
    PROVE  /\ AnalyzeInsertStmt(s, lucky) \in Verdicts
           /\ AnalyzeInsertStmt(s, lucky) = "ok" =>
                 /\ FindTableDef(s.table) \in DOMAIN tables
                 /\ \A k \in DOMAIN s.values : \A j \in DOMAIN s.values[k] :
                       LET def == tables[FindTableDef(s.table)].cols
                       IN  j \in DOMAIN def =>
                              CheckType(s.values[k][j], <<def>>) \in {def[j].type, "null"}
<1> DEFINE t == FindTableDef(s.table)
           def == tables[t].cols
           good(j) == {"null"} \cup (IF j \in DOMAIN def THEN {def[j].type}
                                     ELSE IF lucky THEN ColTypes ELSE {})
           verdict(k, j) == Verdict(CheckType(s.values[k][j], <<def>>), good(j))
           row(k) == [j \in DOMAIN s.values[k] |-> verdict(k, j)]
           verdicts == [k \in DOMAIN s.values |->
                          IF Len(s.values[k]) # Len(s.columns) THEN "rejected"
                          ELSE FirstFailure(row(k))]
<1>1. /\ DOMAIN s.values = 1 .. Len(s.values) /\ Len(s.values) \in Nat
      /\ \A k \in DOMAIN s.values : /\ s.values[k] \in Seq(Exprs)
                                    /\ DOMAIN s.values[k] = 1 .. Len(s.values[k])
                                    /\ Len(s.values[k]) \in Nat
  <2>1. s.values \in Seq(Seq(Exprs))
    BY StatementShapes
  <2> DEFINE v == s.values
  <2> HIDE DEF v
  <2>2. DOMAIN v = 1 .. Len(v) /\ Len(v) \in Nat /\ \A k \in 1 .. Len(v) : v[k] \in Seq(Exprs)
    BY <2>1, ElementOfSeq DEF v
  <2> QED
    BY <2>2 DEF v
<1>2. CASE t = 0
  BY <1>2 DEF AnalyzeInsertStmt, Verdicts
<1>3. CASE \E i \in DOMAIN s.columns : GetColIdx(def, s.columns[i]) = 0
  BY <1>2, <1>3 DEF AnalyzeInsertStmt, Verdicts
<1>4. CASE t # 0 /\ ~\E i \in DOMAIN s.columns : GetColIdx(def, s.columns[i]) = 0
  <2>1. AnalyzeInsertStmt(s, lucky) = FirstFailure(verdicts)
    BY <1>4 DEF AnalyzeInsertStmt, CheckValues
  <2>2. t \in DOMAIN tables /\ def \in Defs
    BY <1>4, FindTableIs, TableIs
  <2>3. ASSUME NEW j PROVE "panic" \notin good(j)
    <3>1. j \in DOMAIN def => def[j].type \in ColTypes
      BY <2>2, DefFacts
    <3> HIDE DEF def
    <3> QED
      BY <3>1 DEF ColTypes
  <2> HIDE DEF good
  <2>4. ASSUME NEW k \in DOMAIN s.values
        PROVE  /\ FirstFailure(row(k)) \in Verdicts
               /\ FirstFailure(row(k)) = "ok" =>
                     \A j \in DOMAIN s.values[k] : CheckType(s.values[k][j], <<def>>) \in good(j)
    <3> DEFINE n == Len(s.values[k])
    <3>1. n \in Nat /\ DOMAIN s.values[k] = 1 .. n
      BY <1>1
    <3>2. \A j \in 1 .. n : /\ verdict(k, j) \in Verdicts
                            /\ verdict(k, j) = "ok" <=> CheckType(s.values[k][j], <<def>>) \in good(j)
      BY <2>3, VerdictIs
    <3> HIDE DEF verdict, n
    <3>3. DOMAIN row(k) = 1 .. n /\ \A j \in 1 .. n : row(k)[j] = verdict(k, j)
      BY <3>1
    <3> DEFINE v == row(k)
    <3>4. DOMAIN v = 1 .. n /\ \A j \in 1 .. n : v[j] = verdict(k, j)
      BY <3>3
    <3> HIDE DEF v, row
    <3>5. /\ FirstFailure(v) \in Verdicts
          /\ FirstFailure(v) = "ok" => \A j \in 1 .. n : verdict(k, j) = "ok"
      BY <3>1, <3>2, <3>4, FirstFailureIs
    <3>6. \A j \in DOMAIN s.values[k] :
             verdict(k, j) = "ok" => CheckType(s.values[k][j], <<def>>) \in good(j)
      BY <3>1, <3>2
    <3> HIDE DEF n
    <3> QED
      BY <3>1, <3>5, <3>6 DEF v
  <2> HIDE DEF row, def
  <2>5. \A k \in DOMAIN s.values : /\ verdicts[k] \in Verdicts
                                   /\ verdicts[k] = "ok" => FirstFailure(row(k)) = "ok"
    BY <2>4 DEF Verdicts
  <2>6. DOMAIN verdicts = DOMAIN s.values
    OBVIOUS
  <2> HIDE DEF verdicts
  <2>7. FirstFailure(verdicts) \in Verdicts
        /\ (FirstFailure(verdicts) = "ok" => \A k \in DOMAIN s.values : verdicts[k] = "ok")
    BY <1>1, <2>5, <2>6, FirstFailureIs
  <2> QED
    BY <2>1, <2>2, <2>4, <2>5, <2>7 DEF good, def
<1> QED
  BY <1>2, <1>3, <1>4

LEMMA DeleteVerdict ==
    ASSUME tables \in Tables, NEW s \in Deletes
    PROVE  /\ AnalyzeDeleteStmt(s) \in Verdicts
           /\ AnalyzeDeleteStmt(s) = "ok" => FindTableDef(s.table) \in DOMAIN tables
BY FindTableIs, CheckConditionIs DEF AnalyzeDeleteStmt, Verdicts

LEMMA UpdateVerdict ==
    ASSUME tables \in Tables, NEW s \in Updates
    PROVE  /\ AnalyzeUpdateStmt(s) \in Verdicts
           /\ AnalyzeUpdateStmt(s) = "ok" =>
                 /\ FindTableDef(s.table) \in DOMAIN tables
                 /\ \A k \in DOMAIN s.assigns :
                       LET def == tables[FindTableDef(s.table)].cols
                           i   == GetColIdx(def, s.assigns[k].column)
                       IN  /\ i # 0
                           /\ CheckType(s.assigns[k].value, <<def>>) \in {def[i].type, "null"}
<1> DEFINE t == FindTableDef(s.table)
           def == tables[t].cols
           one(k) == CheckAssignment(s.assigns[k], def)
           firsts == [k \in DOMAIN s.assigns |-> one(k)]
           verdicts == Append(firsts, CheckCondition(s.where, <<def>>))
           n == Len(s.assigns)
<1>1. DOMAIN s.assigns = 1 .. n /\ n \in Nat
  <2>1. s.assigns \in Seq([column : STRING, value : Exprs])
    BY StatementShapes
  <2> QED
    BY <2>1
<1>2. CASE t = 0
  BY <1>2, FindTableIs DEF AnalyzeUpdateStmt, Verdicts
<1>3. CASE t # 0
  <2>1. AnalyzeUpdateStmt(s) = FirstFailure(verdicts)
    BY <1>3 DEF AnalyzeUpdateStmt
  <2>2. t \in DOMAIN tables /\ def \in Defs
    BY <1>3, FindTableIs, TableIs
  <2> HIDE DEF def
  <2>3. ASSUME NEW k \in 1 .. n
        PROVE  LET i == GetColIdx(def, s.assigns[k].column)
               IN  /\ one(k) \in Verdicts
                   /\ one(k) = "ok" =>
                         /\ i # 0
                         /\ CheckType(s.assigns[k].value, <<def>>) \in {def[i].type, "null"}
    <3> DEFINE i == GetColIdx(def, s.assigns[k].column)
    <3>1. CASE i = 0
      BY <3>1 DEF CheckAssignment, Verdicts
    <3>2. CASE i # 0
      <4>1. i \in DOMAIN def
        BY <2>2, <3>2, GetColIdxIs DEF Defs
      <4>2. one(k) = Verdict(CheckType(s.assigns[k].value, <<def>>), {def[i].type, "null"})
        BY <3>2 DEF CheckAssignment
      <4> HIDE DEF i
      <4>3. "panic" \notin {def[i].type, "null"}
        BY <2>2, <4>1, DefFacts DEF ColTypes
      <4> QED
        BY <3>2, <4>2, <4>3, VerdictIs DEF i
    <3> QED
      BY <3>1, <3>2
  <2> HIDE DEF one
  <2> DEFINE last == CheckCondition(s.where, <<def>>)
  <2>4. last \in Verdicts
    BY CheckConditionIs
  <2>5. firsts \in Seq(Verdicts) /\ Len(firsts) = n /\ \A k \in 1 .. n : firsts[k] = one(k)
    BY <1>1, <2>3
  <2> HIDE DEF firsts, last
  <2>6. verdicts = Append(firsts, last)
    BY DEF last
  <2>7. /\ DOMAIN verdicts = 1 .. n + 1
        /\ \A k \in 1 .. n : verdicts[k] = one(k)
        /\ verdicts[n + 1] = last
    BY <1>1, <2>4, <2>5, <2>6, AppendProperties
  <2>8. \A k \in 1 .. n + 1 : verdicts[k] \in Verdicts
    <3>1. \A k \in 1 .. n + 1 : k = n + 1 \/ k \in 1 .. n
      BY <1>1
    <3> HIDE DEF verdicts, n
    <3> QED
      BY <2>3, <2>4, <2>7, <3>1
  <2>9. n + 1 \in Nat /\ \A k \in 1 .. n : k \in 1 .. n + 1
    BY <1>1
  <2> HIDE DEF verdicts
  <2>10. /\ FirstFailure(verdicts) \in Verdicts
         /\ FirstFailure(verdicts) = "ok" => \A k \in 1 .. n + 1 : verdicts[k] = "ok"
    BY <2>7, <2>8, <2>9, FirstFailureIs
  <2>11. FirstFailure(verdicts) = "ok" => \A k \in 1 .. n : one(k) = "ok"
    BY <2>7, <2>9, <2>10
  <2> QED
    BY <1>1, <2>1, <2>2, <2>3, <2>10, <2>11 DEF def
<1> QED
  BY <1>2, <1>3

LEMMA CreateVerdict ==
    ASSUME tables \in Tables, NEW s \in CreateTables
    PROVE  /\ AnalyzeCreateTableStmt(s) \in Verdicts
           /\ AnalyzeCreateTableStmt(s) = "ok" =>
                 /\ s.columns \in Defs
                 /\ \A t \in DOMAIN tables : SameTypes(tables[t].cols, s.columns)
                                             /\ SameTypes(s.columns, tables[t].cols)
<1>1. AnalyzeCreateTableStmt(s) \in Verdicts
  BY DEF AnalyzeCreateTableStmt, Verdicts
<1> SUFFICES ASSUME AnalyzeCreateTableStmt(s) = "ok"
             PROVE  /\ s.columns \in Defs
                    /\ \A t \in DOMAIN tables : SameTypes(tables[t].cols, s.columns)
                                                /\ SameTypes(s.columns, tables[t].cols)
  BY <1>1
<1> DEFINE cols == s.columns
<1>2. cols \in Seq([name : STRING, type : STRING])
  BY StatementShapes
<1>3. ASSUME NEW i \in DOMAIN cols
      PROVE  /\ cols[i].type \in ColTypes
             /\ \A t \in DOMAIN tables : GetColIdx(tables[t].cols, cols[i].name) = 0
  BY DEF AnalyzeCreateTableStmt
<1> HIDE DEF cols
<1>4. cols \in Defs
  <2>1. \A i \in 1 .. Len(cols) : cols[i] \in [name : STRING, type : ColTypes]
    <3> TAKE i \in 1 .. Len(cols)
    <3>1. cols[i] \in [name : STRING, type : STRING]
      BY <1>2, ElementOfSeq
    <3> QED
      BY <1>2, <1>3, <3>1
  <2>2. cols = [i \in 1 .. Len(cols) |-> cols[i]] /\ Len(cols) \in Nat
    BY <1>2
  <2> DEFINE X == [name : STRING, type : ColTypes]
  <2>3. cols \in Seq(X)
    <3>1. \A i \in 1 .. Len(cols) : cols[i] \in X
      BY <2>1
    <3> HIDE DEF X
    <3> QED
      BY <2>2, <3>1
  <2> QED
    BY <2>3 DEF Defs
<1>5. ASSUME NEW t \in DOMAIN tables, NEW i \in DOMAIN cols, NEW j \in DOMAIN tables[t].cols
      PROVE  tables[t].cols[j].name # cols[i].name
  <2>1. tables[t].cols \in Defs /\ GetColIdx(tables[t].cols, cols[i].name) = 0
    BY <1>3, TableIs
  <2> QED
    BY <2>1, GetColIdxIs DEF Defs
<1> QED
  BY <1>4, <1>5 DEF SameTypes, cols

LEMMA SelectVerdict ==
    ASSUME tables \in Tables, NEW s \in Selects
    PROVE  /\ AnalyzeSelectStmt(s) \in Verdicts
           /\ AnalyzeSelectStmt(s) = "ok" =>
                 /\ s.from \in FromClauses /\ s.from # Absent
                 /\ AnalyzeJoinList(s.from, <<>>).verdict = "ok"
                 /\ CheckCondition(s.where, AnalyzeJoinList(s.from, <<>>).list) = "ok"
                 /\ \A i \in DOMAIN s.targets :
                       CheckType(s.targets[i], AnalyzeJoinList(s.from, <<>>).list)
                           \notin {"panic", "unknown"}
<1>1. CASE s.from = Absent
  BY <1>1 DEF AnalyzeSelectStmt, Verdicts
<1>2. CASE s.from # Absent
  <2> DEFINE from == AnalyzeJoinList(s.from, <<>>)
             list == from.list
             targets == CheckTargets(s.targets, list)
             where == CheckCondition(s.where, list)
             sort == CheckSort(s.sort, list)
             n == Len(s.targets)
  <2>1. s.from \in FromClauses /\ s.targets \in Seq(Exprs) /\ n \in Nat /\ DOMAIN s.targets = 1 .. n
        /\ <<>> \in Seq(Defs)
    <3>1. s.from \in FromClauses /\ s.targets \in Seq(Exprs)
      BY <1>2, StatementShapes
    <3> QED
      BY <3>1
  <2>2. from \in Analyses
    BY <2>1, AnalyzeJoinListIs
  <2>3. /\ targets \in Verdicts
        /\ targets = "ok" => \A i \in DOMAIN s.targets :
               CheckType(s.targets[i], list) \notin {"panic", "unknown"}
    <3> DEFINE type(i) == CheckType(s.targets[i], list)
               good == BTypes \ {"unknown"}
               verdicts == [i \in DOMAIN s.targets |-> Verdict(type(i), good)]
    <3>1. \A i \in 1 .. n : /\ Verdict(type(i), good) \in Verdicts
                            /\ Verdict(type(i), good) = "ok" <=> type(i) \in good
      <4>1. "panic" \notin good
        BY DEF BTypes, ColTypes
      <4> HIDE DEF type, good
      <4> QED
        BY <4>1, VerdictIs
    <3>2. targets = FirstFailure(verdicts)
      BY DEF CheckTargets
    <3>3. \A i : type(i) \in good => type(i) \notin {"panic", "unknown"}
      BY DEF BTypes, ColTypes
    <3> HIDE DEF type, good, targets
    <3>4. DOMAIN verdicts = 1 .. n /\ \A i \in 1 .. n : verdicts[i] = Verdict(type(i), good)
      BY <2>1
    <3> HIDE DEF verdicts
    <3>5. /\ FirstFailure(verdicts) = "ok" <=> \A i \in 1 .. n : verdicts[i] = "ok"
          /\ FirstFailure(verdicts) \in Verdicts
      <4>1. \A i \in 1 .. n : verdicts[i] \in Verdicts
        BY <3>1, <3>4
      <4>2. n \in Nat
        BY <2>1
      <4> HIDE DEF n
      <4> QED
        BY <3>4, <4>1, <4>2, FirstFailureIs
    <3> QED
      BY <2>1, <3>1, <3>2, <3>3, <3>4, <3>5 DEF type
  <2>4. where \in Verdicts
    BY CheckConditionIs
  <2>5. sort \in Verdicts
    BY DEF CheckSort, Verdicts
  <2>6. AnalyzeSelectStmt(s) = IF from.verdict # "ok" THEN from.verdict
                               ELSE FirstFailure(<<targets, where, sort>>)
    BY <1>2 DEF AnalyzeSelectStmt
  <2> HIDE DEF targets, where, sort
  <2>7. /\ FirstFailure(<<targets, where, sort>>) \in Verdicts
        /\ FirstFailure(<<targets, where, sort>>) = "ok" => targets = "ok" /\ where = "ok"
    <3> DEFINE three == <<targets, where, sort>>
    <3>1. /\ DOMAIN three = 1 .. 3 /\ \A i \in 1 .. 3 : three[i] \in Verdicts
          /\ three[1] = targets /\ three[2] = where
      BY <2>3, <2>4, <2>5
    <3> HIDE DEF three
    <3>2. /\ FirstFailure(three) \in Verdicts
          /\ FirstFailure(three) = "ok" <=> \A i \in 1 .. 3 : three[i] = "ok"
      BY <3>1, FirstFailureIs
    <3> QED
      BY <3>1, <3>2 DEF three
  <2>8. from.verdict \in Verdicts
    BY <2>2 DEF Analyses
  <2> HIDE DEF from
  <2> QED
    BY <1>2, <2>1, <2>3, <2>6, <2>7, <2>8 DEF from, where
<1> QED
  BY <1>1, <1>2

-----------------------------------------------------------------------------
\* What the statements leave.  Rows are tuples of their table's definition.
RowsOf(rows, def) == rows \in Seq(Seq(Data)) /\ \A i \in DOMAIN rows : IsTupleOf(rows[i], def)

LEMMA WhereRows ==
    ASSUME NEW rows, NEW def, RowsOf(rows, def), NEW marks, NEW mark
    PROVE  RowsOf(Where(rows, marks, mark), def)
<1> DEFINE kept == Where(rows, marks, mark)
<1>1. rows \in Seq(Seq(Data))
  BY DEF RowsOf
<1>2. kept \in Seq(Seq(Data))
      /\ \E at : Picks(at, Len(rows), marks, mark) /\ Picked(kept, rows, at)
  BY <1>1, WhereIs
<1>3. PICK at : Picks(at, Len(rows), marks, mark) /\ Picked(kept, rows, at)
  BY <1>2
<1>4. ASSUME NEW k \in DOMAIN kept PROVE IsTupleOf(kept[k], def)
  <2>1. k \in 1 .. Len(at) /\ kept[k] = rows[at[k]]
    BY <1>2, <1>3, <1>4 DEF Picked
  <2>2. at[k] \in 1 .. Len(rows)
    BY <1>3, <2>1, ElementOfSeq DEF Picks
  <2> QED
    BY <1>1, <2>1, <2>2 DEF RowsOf
<1> QED
  BY <1>2, <1>4 DEF RowsOf

LEMMA ConcatRows ==
    ASSUME NEW rows, NEW more, NEW def, RowsOf(rows, def), RowsOf(more, def)
    PROVE  RowsOf(rows \o more, def)
<1>1. rows \in Seq(Seq(Data)) /\ more \in Seq(Seq(Data))
  BY DEF RowsOf
<1>2. /\ rows \o more \in Seq(Seq(Data))
      /\ DOMAIN (rows \o more) = 1 .. Len(rows) + Len(more)
      /\ \A i \in 1 .. Len(rows) + Len(more) :
            (rows \o more)[i] = IF i <= Len(rows) THEN rows[i] ELSE more[i - Len(rows)]
  BY <1>1
<1>3. ASSUME NEW i \in 1 .. Len(rows) + Len(more)
      PROVE  IF i <= Len(rows) THEN i \in DOMAIN rows ELSE i - Len(rows) \in DOMAIN more
  BY <1>1
<1> QED
  BY <1>2, <1>3 DEF RowsOf

LEMMA SomeRows ==
    ASSUME NEW n \in Nat, NEW rows, DOMAIN rows = 1 .. n, rows = [i \in 1 .. n |-> rows[i]],
           NEW def, \A i \in 1 .. n : IsTupleOf(rows[i], def)
    PROVE  RowsOf(rows, def)
<1>1. \A i \in 1 .. n : rows[i] \in Seq(Data)
  BY DEF IsTupleOf
<1>2. rows \in Seq(Seq(Data))
  <2> DEFINE X == Seq(Data)
  <2> HIDE DEF X
  <2>1. \A i \in 1 .. n : rows[i] \in X
    BY <1>1 DEF X
  <2>2. rows \in Seq(X)
    BY <2>1
  <2> QED
    BY <2>2 DEF X
<1> QED
  BY <1>2 DEF RowsOf

\* An expression that is accepted for a column has a value for it, if it has one.
LEMMA AssignedTyped ==
    ASSUME NEW def \in Defs, NEW tuple, NEW tdef, Reads(tuple, tdef, <<def>>),
           NEW e \in Exprs, NEW type \in ColTypes, CheckType(e, <<def>>) \in {type, "null"}
    PROVE  Typed(EvalExpr(e, tuple, tdef, <<def>>), type)
<1> DEFINE list == <<def>>
<1>1. list \in Seq(Defs)
  OBVIOUS
<1>2. CheckType(e, list) \notin {"panic", "unknown"}
  BY DEF ColTypes
<1> HIDE DEF list
<1>3. Typed(EvalExpr(e, tuple, tdef, list), CheckType(e, list))
  BY <1>1, <1>2, EvalTyped DEF list
<1> QED
  BY <1>3 DEF Typed, list

LEMMA TypedAlive ==
    \A value, type : Typed(value, type) /\ ~IsDeath(value) => value \in Data /\ value.type \in {type, "null"}
BY DataFacts DEF Typed

\* The rows before the first dead one.
LEMMA BeforeDead ==
    ASSUME NEW n \in Nat, NEW dead \in SUBSET (1 .. n), NEW last,
           last = IF dead = {} THEN n ELSE Min(dead) - 1
    PROVE  /\ last \in 0 .. n /\ \A k \in 1 .. last : k \in 1 .. n /\ k \notin dead
           /\ dead # {} => last < n /\ last + 1 = Min(dead) /\ Min(dead) \in dead
<1>1. CASE dead = {}
  BY <1>1
<1>2. CASE dead # {}
  <2>1. dead \in SUBSET Nat
    OBVIOUS
  <2> DEFINE m == Min(dead)
  <2>2. m \in dead /\ \A k \in dead : m <= k
    BY <1>2, <2>1, MinIs
  <2>3. last = m - 1
    BY <1>2
  <2> HIDE DEF m
  <2>4. m \in 1 .. n /\ last \in 0 .. n /\ last < n /\ last + 1 = m
    BY <2>2, <2>3
  <2>5. ASSUME NEW k \in 1 .. last PROVE k \in 1 .. n /\ k \notin dead
    BY <2>2, <2>4
  <2> QED
    BY <1>2, <2>2, <2>4, <2>5 DEF m
<1> QED
  BY <1>1, <1>2

\* A table of the session.
TableOK(table) ==
    table.cols \in Defs /\ SameTypes(table.cols, table.cols) /\ RowsOf(table.rows, table.cols)

\* INSERT appends tuples of the table's definition, one for each row of values before
\* the first that dies.
LEMMA InsertLeaves ==
    ASSUME NEW s \in Inserts, NEW table, TableOK(table),
           \A k \in DOMAIN s.values : \A j \in DOMAIN s.values[k] :
              j \in DOMAIN table.cols =>
                 CheckType(s.values[k][j], <<table.cols>>) \in {table.cols[j].type, "null"}
    PROVE  \E new :
              /\ ExecInsert(s, table).rows = table.rows \o new /\ RowsOf(new, table.cols)
              /\ IF ExecInsert(s, table).died THEN Len(new) < Len(s.values)
                 ELSE Len(new) = Len(s.values)
<1> DEFINE def == table.cols
           names == Names(def)
           value(k, j) == EvalExpr(s.values[k][j], NoTuple, <<>>, <<def>>)
           values == [k \in DOMAIN s.values |-> [j \in DOMAIN s.values[k] |-> value(k, j)]]
           dies(k) == Len(values[k]) # Len(names) \/ \E j \in DOMAIN values[k] : IsDeath(values[k][j])
           dead == {k \in DOMAIN values : dies(k)}
           n == Len(s.values)
           last == IF dead = {} THEN Len(values) ELSE Min(dead) - 1
           new == [k \in 1 .. last |-> SetCols(MakeTuple(def), names, values[k], def)]
<1>1. /\ DOMAIN s.values = 1 .. n /\ n \in Nat
      /\ \A k \in 1 .. n : /\ s.values[k] \in Seq(Exprs)
                           /\ DOMAIN s.values[k] = 1 .. Len(s.values[k])
                           /\ Len(s.values[k]) \in Nat
                           /\ \A j \in DOMAIN s.values[k] : s.values[k][j] \in Exprs
  <2>1. s.values \in Seq(Seq(Exprs))
    BY StatementShapes
  <2> DEFINE v == s.values
  <2> HIDE DEF v
  <2>2. DOMAIN v = 1 .. Len(v) /\ Len(v) \in Nat /\ \A k \in 1 .. Len(v) : v[k] \in Seq(Exprs)
    BY <2>1, ElementOfSeq DEF v
  <2>3. \A r \in Seq(Exprs) : \A j \in DOMAIN r : r[j] \in Exprs
    BY ElementOfSeq
  <2> QED
    BY <2>2, <2>3 DEF v
<1>2. def \in Defs /\ DOMAIN def = 1 .. Len(def) /\ Len(def) \in Nat
  BY DefFacts DEF TableOK
<1>3. DOMAIN names = 1 .. Len(def) /\ Len(names) = Len(def) /\ \A j \in 1 .. Len(def) : names[j] = def[j].name
  BY <1>2 DEF Names
<1>4. /\ DOMAIN values = 1 .. n /\ Len(values) = n
      /\ \A k \in 1 .. n : /\ DOMAIN values[k] = DOMAIN s.values[k]
                           /\ Len(values[k]) = Len(s.values[k])
                           /\ \A j \in DOMAIN s.values[k] : values[k][j] = value(k, j)
  <2> HIDE DEF value
  <2> QED
    BY <1>1
<1>5. /\ last \in 0 .. n /\ \A k \in 1 .. last : k \in 1 .. n /\ k \notin dead
      /\ dead # {} => last < n
  <2>1. dead \in SUBSET (1 .. n)
    BY <1>4
  <2>2. last = IF dead = {} THEN n ELSE Min(dead) - 1
    BY <1>4
  <2> HIDE DEF dead, values, last, n
  <2> QED
    BY <1>1, <2>1, <2>2, BeforeDead
<1>6. ExecInsert(s, table).rows = table.rows \o new /\ ExecInsert(s, table).died = (dead # {})
  BY DEF ExecInsert, Effect
<1> HIDE DEF last, names
<1>7. ASSUME NEW k \in 1 .. last
      PROVE  IsTupleOf(SetCols(MakeTuple(def), names, values[k], def), def)
  <2>1. k \in 1 .. n /\ Len(s.values[k]) = Len(def)
        /\ \A j \in DOMAIN s.values[k] : ~IsDeath(value(k, j))
    <3>1. k \in 1 .. n /\ k \notin dead
      BY <1>5
    <3>2. ~dies(k)
      <4> HIDE DEF dies
      <4> QED
        BY <1>4, <3>1
    <3> HIDE DEF values, value
    <3> QED
      BY <1>3, <1>4, <3>1, <3>2
  <2>2. DOMAIN s.values[k] = 1 .. Len(def)
    BY <1>1, <2>1
  <2>3. ASSUME NEW j \in 1 .. Len(def)
        PROVE  /\ values[k][j] \in Data
               /\ values[k][j].type \in {def[j].type, "null"}
    <3>1. /\ s.values[k][j] \in Exprs
          /\ CheckType(s.values[k][j], <<def>>) \in {def[j].type, "null"}
      BY <1>1, <1>2, <2>1, <2>2
    <3>2. def[j].type \in ColTypes
      BY <1>2, DefFacts
    <3>3. Reads(NoTuple, <<>>, <<def>>)
      BY NoTupleReads
    <3> HIDE DEF def
    <3>4. Typed(value(k, j), def[j].type)
      BY <1>2, <3>1, <3>2, <3>3, AssignedTyped
    <3>5. values[k][j] = value(k, j) /\ ~IsDeath(value(k, j))
      BY <1>4, <2>1, <2>2
    <3> HIDE DEF value, values
    <3> QED
      BY <3>4, <3>5, TypedAlive
  <2> HIDE DEF values, def
  <2>4. Fits(Len(def), names, values[k], def)
    <3>1. ASSUME NEW j \in 1 .. Len(def)
          PROVE  LET i == GetColIdx(def, names[j])
                 IN  i # 0 => values[k][j].type \in {def[i].type, "null"}
      <4> DEFINE i == GetColIdx(def, names[j])
      <4>1. i # 0 => i \in DOMAIN def /\ def[i].name = def[j].name
        BY <1>2, <1>3, GetColIdxIs DEF Defs
      <4> HIDE DEF i
      <4>2. i # 0 => def[i].type = def[j].type
        BY <1>2, <4>1 DEF TableOK, SameTypes, def
      <4> QED
        BY <2>3, <4>2 DEF i
    <3> QED
      BY <1>2, <1>3, <2>3, <3>1 DEF Fits
  <2>5. def \in Seq([name : STRING, type : ColTypes])
    BY <1>2 DEF Defs
  <2>6. IsTupleOf(MakeTuple(def), def)
    BY <2>5, MakeTupleIs
  <2> QED
    BY <2>4, <2>5, <2>6, SetColsTyped
<1>8. RowsOf(new, def) /\ Len(new) = last
  <2>1. last \in Nat
    BY <1>1, <1>5
  <2> DEFINE tuple(k) == SetCols(MakeTuple(def), names, values[k], def)
  <2>2. \A k \in 1 .. last : IsTupleOf(tuple(k), def)
    BY <1>7
  <2> HIDE DEF tuple, def
  <2>3. DOMAIN new = 1 .. last /\ Len(new) = last /\ new = [k \in 1 .. last |-> new[k]]
        /\ \A k \in 1 .. last : new[k] = tuple(k)
    BY <2>1 DEF tuple
  <2> HIDE DEF new
  <2> QED
    BY <2>1, <2>2, <2>3, SomeRows
<1> HIDE DEF dead, new, values
<1>9. IF dead # {} THEN Len(new) < Len(s.values) ELSE Len(new) = Len(s.values)
  BY <1>4, <1>5, <1>8 DEF last
<1> QED
  BY <1>6, <1>8, <1>9

\* The new version of a row is a row.
LEMMA NewVersionTyped ==
    ASSUME NEW def \in Defs, SameTypes(def, def), NEW row, IsTupleOf(row, def),
           NEW assigns \in Seq([column : STRING, value : Exprs]),
           \A k \in DOMAIN assigns :
              LET i == GetColIdx(def, assigns[k].column)
              IN  /\ i # 0 /\ CheckType(assigns[k].value, <<def>>) \in {def[i].type, "null"}
                  /\ ~IsDeath(EvalExpr(assigns[k].value, row, def, <<def>>))
    PROVE  /\ IsTupleOf(NewVersion(assigns, row, def), def)
           /\ \A k \in DOMAIN assigns : EvalExpr(assigns[k].value, row, def, <<def>>) \in Data
<1> DEFINE n == Len(assigns)
           names == [k \in DOMAIN assigns |-> assigns[k].column]
           value(k) == EvalExpr(assigns[k].value, row, def, <<def>>)
           values == [k \in DOMAIN assigns |-> value(k)]
<1>1. n \in Nat /\ DOMAIN assigns = 1 .. n
  OBVIOUS
<1>2. ASSUME NEW k \in 1 .. n
      PROVE  /\ value(k) \in Data
             /\ value(k).type \in {def[GetColIdx(def, assigns[k].column)].type, "null"}
  <2> DEFINE i == GetColIdx(def, assigns[k].column)
  <2>1. /\ i # 0 /\ CheckType(assigns[k].value, <<def>>) \in {def[i].type, "null"}
        /\ ~IsDeath(value(k))
    BY <1>1
  <2>2. i \in DOMAIN def
    BY <2>1, GetColIdxIs DEF Defs
  <2> HIDE DEF i
  <2>3. def[i].type \in ColTypes
    BY <2>2, DefFacts
  <2>4. assigns[k].value \in Exprs
    <3>1. assigns[k] \in [column : STRING, value : Exprs]
      BY <1>1, ElementOfSeq
    <3> QED
      BY <3>1
  <2>5. Reads(row, def, <<def>>)
    BY RowReads
  <2>6. Typed(value(k), def[i].type)
    BY <2>1, <2>3, <2>4, <2>5, AssignedTyped
  <2> HIDE DEF value
  <2> QED
    BY <2>1, <2>6, TypedAlive DEF i
<1>3. NewVersion(assigns, row, def) = SetCols(row, names, values, def)
  BY DEF NewVersion
<1>4. Fits(n, names, values, def)
  <2> HIDE DEF value
  <2> QED
    BY <1>1, <1>2 DEF Fits
<1>5. def \in Seq([name : STRING, type : ColTypes])
  BY DEF Defs
<1> HIDE DEF names, values
<1>6. IsTupleOf(SetCols(row, names, values, def), def)
  BY <1>4, <1>5, SetColsTyped
<1> QED
  BY <1>1, <1>2, <1>3, <1>6

\* UPDATE leaves rows, and those that it found if an evaluation ends the process.
LEMMA UpdateLeaves ==
    ASSUME NEW s \in Updates, NEW table, TableOK(table),
           \A k \in DOMAIN s.assigns :
              LET i == GetColIdx(table.cols, s.assigns[k].column)
              IN  i # 0 /\ CheckType(s.assigns[k].value, <<table.cols>>) \in {table.cols[i].type, "null"}
    PROVE  /\ RowsOf(ExecUpdate(s, table).rows, table.cols)
           /\ ExecUpdate(s, table).died => ExecUpdate(s, table).rows = table.rows
<1> DEFINE def == table.cols
           tests == Tests(s.where, table.rows, def, <<def>>)
           hit == Where(table.rows, tests, "yes")
           rest == Where(table.rows, tests, "no")
           dies == \/ "died" \in ToSet(tests)
                   \/ \E k \in DOMAIN hit, a \in ToSet(s.assigns) :
                         IsDeath(EvalExpr(a.value, hit[k], def, <<def>>))
           new == [k \in DOMAIN hit |-> NewVersion(s.assigns, hit[k], def)]
<1>1. ExecUpdate(s, table) = IF dies THEN Effect(table.rows, TRUE) ELSE Effect(rest \o new, FALSE)
  BY DEF ExecUpdate
<1>2. def \in Defs /\ SameTypes(def, def) /\ RowsOf(table.rows, def)
  BY DEF TableOK
<1>3. CASE dies
  BY <1>1, <1>2, <1>3 DEF Effect
<1>4. CASE ~dies
  <2>1. RowsOf(rest, def) /\ RowsOf(hit, def)
    BY <1>2, WhereRows
  <2>2. s.assigns \in Seq([column : STRING, value : Exprs])
    BY StatementShapes
  <2>3. ASSUME NEW k \in DOMAIN hit, NEW l \in DOMAIN s.assigns
        PROVE  ~IsDeath(EvalExpr(s.assigns[l].value, hit[k], def, <<def>>))
    <3>1. s.assigns[l] \in ToSet(s.assigns)
      BY DEF ToSet
    <3> HIDE DEF hit, tests
    <3> QED
      BY <1>4, <3>1
  <2>4. ASSUME NEW k \in DOMAIN hit PROVE IsTupleOf(NewVersion(s.assigns, hit[k], def), def)
    <3>1. IsTupleOf(hit[k], def)
      BY <2>1 DEF RowsOf
    <3> HIDE DEF hit, def
    <3> QED
      BY <1>2, <2>2, <2>3, <3>1, NewVersionTyped DEF def
  <2>5. RowsOf(new, def)
    <3> HIDE DEF hit, def
    <3>1. hit \in Seq(Seq(Data))
      BY <2>1 DEF RowsOf
    <3>2. DOMAIN hit = 1 .. Len(hit) /\ Len(hit) \in Nat
      BY <3>1
    <3> DEFINE v(k) == NewVersion(s.assigns, hit[k], def)
    <3>3. \A k \in DOMAIN hit : IsTupleOf(v(k), def)
      BY <2>4
    <3> HIDE DEF v
    <3>4. /\ DOMAIN new = 1 .. Len(hit) /\ new = [k \in 1 .. Len(hit) |-> new[k]]
          /\ \A k \in 1 .. Len(hit) : IsTupleOf(new[k], def)
      BY <3>2, <3>3 DEF v
    <3> HIDE DEF new
    <3> QED
      BY <3>2, <3>4, SomeRows
  <2>6. RowsOf(rest \o new, def)
    <3> HIDE DEF rest, new, def
    <3> QED
      BY <2>1, <2>5, ConcatRows
  <2> HIDE DEF rest, new, dies
  <2> QED
    BY <1>1, <1>4, <2>6 DEF Effect
<1> QED
  BY <1>3, <1>4

\* An increasing sequence of places is no longer than there are places.
LEMMA IncreasingIs ==
    ASSUME NEW n \in Nat, NEW at \in Seq(1 .. n),
           \A k, l \in 1 .. Len(at) : k < l => at[k] < at[l]
    PROVE  /\ Len(at) <= n
           /\ \A k \in 1 .. Len(at) : k <= at[k]
           /\ Len(at) = n => \A k \in 1 .. n : at[k] = k
<1> DEFINE m == Len(at)
<1>1. m \in Nat /\ \A k \in 1 .. m : at[k] \in 1 .. n
  BY ElementOfSeq
<1> DEFINE P == {k \in Nat : k <= m => k <= at[k]}
           Q == {d \in Nat : d < m => at[m - d] <= n - d}
<1>2. \A k \in Nat : k >= 1 => k \in P
  <2>1. 1 \in P
    BY <1>1
  <2>2. ASSUME NEW k \in Nat, k >= 1, k \in P PROVE k + 1 \in P
    <3> SUFFICES ASSUME k + 1 <= m PROVE k + 1 <= at[k + 1]
      OBVIOUS
    <3>1. k \in 1 .. m /\ k + 1 \in 1 .. m
      BY <1>1, <2>2
    <3>2. at[k] < at[k + 1] /\ at[k] \in Nat /\ at[k + 1] \in Nat /\ k <= at[k]
      BY <1>1, <2>2, <3>1
    <3> QED
      BY <3>2
  <2> HIDE DEF P
  <2> QED
    BY <2>1, <2>2, InductionFrom
<1>3. \A d \in Nat : d >= 0 => d \in Q
  <2>1. 0 \in Q
    BY <1>1
  <2>2. ASSUME NEW d \in Nat, d >= 0, d \in Q PROVE d + 1 \in Q
    <3> SUFFICES ASSUME d + 1 < m PROVE at[m - (d + 1)] <= n - (d + 1)
      OBVIOUS
    <3>1. m - d \in 1 .. m /\ m - (d + 1) \in 1 .. m /\ m - (d + 1) < m - d
      BY <1>1
    <3>2. d < m /\ at[m - d] <= n - d
      <4>1. d < m
        BY <1>1
      <4> QED
        BY <2>2, <4>1
    <3> DEFINE k == m - (d + 1)
               l == m - d
    <3>3. k \in 1 .. m /\ l \in 1 .. m /\ k < l /\ at[l] <= n - d
      BY <3>1, <3>2
    <3> HIDE DEF k, l
    <3>4. at[k] < at[l] /\ at[k] \in Nat /\ at[l] \in Nat
      BY <1>1, <3>3
    <3>5. at[k] <= n - (d + 1)
      BY <3>3, <3>4
    <3> QED
      BY <3>5 DEF k
  <2> HIDE DEF Q
  <2> QED
    BY <2>1, <2>2, InductionFrom
<1> HIDE DEF m
<1>4. m <= n
  <2>1. CASE m = 0
    BY <2>1
  <2>2. CASE m > 0
    <3>1. m \in 1 .. m /\ m \in P
      BY <1>1, <1>2, <2>2
    <3> QED
      BY <1>1, <3>1
  <2> QED
    BY <1>1, <2>1, <2>2
<1>5. \A k \in 1 .. m : k <= at[k]
  BY <1>1, <1>2
<1>6. ASSUME m = n, NEW k \in 1 .. n PROVE at[k] = k
  <2> DEFINE d == n - k
  <2>1. d \in Nat /\ d < m /\ m - d = k /\ n - d = k
    BY <1>1, <1>6
  <2> HIDE DEF d
  <2>2. at[m - d] <= n - d
    BY <1>3, <2>1
  <2>3. at[k] \in 1 .. n /\ k <= at[k]
    BY <1>1, <1>5, <1>6
  <2> QED
    BY <2>1, <2>2, <2>3
<1> QED
  BY <1>4, <1>5, <1>6 DEF m

\* Where keeps everything or is shorter; what it keeps at the end is the last.
LEMMA WhereShort ==
    ASSUME NEW X, NEW rows \in Seq(X), NEW marks, NEW mark
    PROVE  LET kept == Where(rows, marks, mark)
           IN  /\ kept = rows \/ Len(kept) < Len(rows)
               /\ rows # <<>> /\ marks[Len(rows)] = mark => kept # <<>> /\ Last(kept) = Last(rows)
<1> DEFINE kept == Where(rows, marks, mark)
           n == Len(rows)
<1>1. kept \in Seq(X) /\ n \in Nat /\ \E at : Picks(at, n, marks, mark) /\ Picked(kept, rows, at)
  BY WhereIs
<1>2. PICK at : Picks(at, n, marks, mark) /\ Picked(kept, rows, at)
  BY <1>1
<1> HIDE DEF kept
<1>3. at \in Seq(1 .. n) /\ \A k, l \in 1 .. Len(at) : k < l => at[k] < at[l]
  BY <1>2 DEF Picks
<1>4. /\ Len(at) <= n /\ Len(at) \in Nat
      /\ Len(at) = n => \A k \in 1 .. n : at[k] = k
  <2> HIDE DEF n
  <2> QED
    BY <1>1, <1>3, IncreasingIs
<1>5. Len(kept) = Len(at) /\ \A k \in 1 .. Len(at) : kept[k] = rows[at[k]]
  BY <1>2 DEF Picked
<1>6. CASE Len(at) = n
  <2>1. Len(kept) = n /\ \A k \in 1 .. n : kept[k] = rows[k]
    BY <1>4, <1>5, <1>6
  <2>2. kept = rows
    BY <1>1, <2>1
  <2> QED
    BY <2>2 DEF kept
<1>7. CASE Len(at) # n
  <2>1. Len(kept) < n
    BY <1>1, <1>4, <1>5, <1>7
  <2>2. ASSUME rows # <<>>, marks[n] = mark
        PROVE  kept # <<>> /\ Last(kept) = Last(rows)
    <3>1. n \in 1 .. n
      BY <2>2
    <3>2. PICK k \in 1 .. Len(at) : at[k] = n
      BY <1>2, <2>2, <3>1 DEF Picks
    <3>3. k = Len(at)
      <4> SUFFICES ASSUME k # Len(at) PROVE FALSE
        OBVIOUS
      <4>1. Len(at) \in 1 .. Len(at) /\ k < Len(at)
        BY <1>4, <3>2
      <4>2. at[k] < at[Len(at)] /\ at[Len(at)] \in 1 .. n
        BY <1>3, <3>2, <4>1, ElementOfSeq
      <4> QED
        BY <1>1, <3>2, <4>2
    <3>4. kept[Len(kept)] = rows[n]
      BY <1>5, <3>2, <3>3
    <3>5. kept # <<>>
      BY <1>1, <1>5, <3>2
    <3> QED
      BY <3>4, <3>5 DEF Last
  <2> QED
    BY <2>1, <2>2 DEF kept
<1> QED
  BY <1>6, <1>7

\* DELETE leaves rows of those that it found, and the last one if it dies.
LEMMA DeleteLeaves ==
    ASSUME NEW s \in Deletes, NEW table, TableOK(table)
    PROVE  /\ RowsOf(ExecDelete(s, table).rows, table.cols)
           /\ ExecDelete(s, table).died =>
                 \/ ExecDelete(s, table).rows = table.rows
                 \/ /\ Len(ExecDelete(s, table).rows) < Len(table.rows)
                    /\ ExecDelete(s, table).rows # <<>>
                    /\ Last(ExecDelete(s, table).rows) = Last(table.rows)
<1> DEFINE def == table.cols
           tests == Tests(s.where, table.rows, def, <<def>>)
           dead == {i \in DOMAIN tests : tests[i] = "died"}
           marks == [i \in DOMAIN tests |-> IF dead # {} /\ i >= Min(dead) THEN "no" ELSE tests[i]]
           kept == Where(table.rows, marks, "no")
           n == Len(table.rows)
<1>1. ExecDelete(s, table).rows = kept /\ (ExecDelete(s, table).died <=> dead # {})
  BY DEF ExecDelete, Effect
<1>2. RowsOf(table.rows, def) /\ table.rows \in Seq(Seq(Data)) /\ n \in Nat /\ DOMAIN table.rows = 1 .. n
  BY DEF TableOK, RowsOf
<1>3. RowsOf(kept, def)
  BY <1>2, WhereRows
<1>4. DOMAIN tests = 1 .. n
  BY <1>2 DEF Tests
<1> HIDE DEF tests
<1>5. ASSUME dead # {} PROVE table.rows # <<>> /\ marks[n] = "no"
  <2>1. dead \in SUBSET (1 .. n) /\ dead \in SUBSET Nat
    BY <1>4
  <2>2. Min(dead) \in dead
    <3> HIDE DEF dead
    <3> QED
      BY <1>5, <2>1, MinIs
  <2> DEFINE m == Min(dead)
  <2> HIDE DEF m
  <2>3. m \in 1 .. n /\ n >= m /\ n \in 1 .. n
    BY <1>2, <2>1, <2>2 DEF m
  <2>4. marks[n] = "no"
    BY <1>4, <1>5, <2>3 DEF m
  <2> QED
    BY <1>2, <2>3, <2>4
<1> HIDE DEF marks, dead
<1>6. /\ kept = table.rows \/ Len(kept) < n
      /\ table.rows # <<>> /\ marks[n] = "no" => kept # <<>> /\ Last(kept) = Last(table.rows)
  BY <1>2, WhereShort
<1> HIDE DEF kept
<1> QED
  BY <1>1, <1>3, <1>5, <1>6

-----------------------------------------------------------------------------
\* The inductive invariant: tables have definitions in which equal names have equal
\* types, also across tables, and rows of these definitions.
TablesOK(ts) ==
    /\ ts \in Tables
    /\ \A t, u \in DOMAIN ts : SameTypes(ts[t].cols, ts[u].cols)
    /\ \A t \in DOMAIN ts : RowsOf(ts[t].rows, ts[t].cols)

Inv == status \in {"prompt", "done", "rejected", "died"} /\ TablesOK(tables)

\* Nothing compares the columns of a CREATE TABLE with one another.  With two columns
\* of one name and different types the first column would get the values of both.
OneTypeAName == \A s \in CreateTables : SameTypes(s.columns, s.columns)

LEMMA InvTables ==
    ASSUME TablesOK(tables)
    PROVE  /\ tables \in Tables
           /\ \A t \in DOMAIN tables : TableOK(tables[t])
<1>1. tables \in Tables
  BY DEF TablesOK
<1>2. \A t \in DOMAIN tables : tables[t].cols \in Defs
  BY <1>1, TableIs
<1> QED
  BY <1>1, <1>2 DEF TablesOK, TableOK

LEMMA InvTypeOK == Inv => TypeOK
<1> SUFFICES ASSUME Inv PROVE TypeOK
  OBVIOUS
<1>1. ASSUME NEW t \in DOMAIN tables, NEW row \in ToSet(tables[t].rows)
      PROVE  IsTupleOf(row, tables[t].cols)
  <2>1. PICK i \in DOMAIN tables[t].rows : row = tables[t].rows[i]
    BY <1>1 DEF ToSet
  <2> QED
    BY <2>1 DEF Inv, TablesOK, RowsOf
<1> QED
  BY <1>1 DEF Inv, TypeOK

LEMMA InitInv == Init => Inv
<1> SUFFICES ASSUME Init PROVE Inv
  OBVIOUS
<1>1. tables = Bootstrap /\ tables \in Tables
  BY BootstrapAssumption DEF Init, Tables
<1>2. ASSUME NEW t \in DOMAIN tables PROVE RowsOf(tables[t].rows, tables[t].cols)
  <2>1. tables[t].rows \in Seq(Seq(Data))
    BY <1>1, TableIs
  <2>2. ASSUME NEW i \in DOMAIN tables[t].rows PROVE IsTupleOf(tables[t].rows[i], tables[t].cols)
    <3>1. tables[t].rows[i] \in ToSet(tables[t].rows)
      BY DEF ToSet
    <3> QED
      BY <1>1, <3>1, BootstrapAssumption
  <2> QED
    BY <2>1, <2>2 DEF RowsOf
<1>3. \A t, u \in DOMAIN tables : SameTypes(tables[t].cols, tables[u].cols)
  BY <1>1, BootstrapAssumption
<1> QED
  BY <1>1, <1>2, <1>3 DEF Inv, TablesOK, Init

\* Other rows in a table.
LEMMA ReplaceRows ==
    ASSUME NEW ts, TablesOK(ts), NEW t \in DOMAIN ts, NEW rows, RowsOf(rows, ts[t].cols)
    PROVE  TablesOK([ts EXCEPT ![t].rows = rows])
<1> DEFINE X == [name : STRING, cols : Defs, rows : Seq(Seq(Data))]
           us == [ts EXCEPT ![t].rows = rows]
<1>1. ts \in Seq(X) /\ DOMAIN ts = 1 .. Len(ts) /\ Len(ts) \in Nat
  BY DEF TablesOK, Tables
<1>2. \A u \in DOMAIN ts : ts[u] \in X
  <2> HIDE DEF X
  <2> QED
    BY <1>1, ElementOfSeq
<1>3. rows \in Seq(Seq(Data))
  BY DEF RowsOf
<1>4. /\ DOMAIN us = DOMAIN ts
      /\ \A u \in DOMAIN ts : us[u] \in X /\ us[u].cols = ts[u].cols
      /\ us[t].rows = rows /\ \A u \in DOMAIN ts \ {t} : us[u].rows = ts[u].rows
  BY <1>1, <1>2, <1>3
<1>5. us \in Seq(X)
  <2>1. us = [u \in 1 .. Len(ts) |-> us[u]]
    BY <1>1
  <2> HIDE DEF X, us
  <2> QED
    BY <1>1, <1>4, <2>1
<1> HIDE DEF us
<1>6. ASSUME NEW u \in DOMAIN us PROVE RowsOf(us[u].rows, us[u].cols)
  BY <1>4 DEF TablesOK
<1> QED
  BY <1>4, <1>5, <1>6 DEF TablesOK, Tables, us

LEMMA AddTable ==
    ASSUME NEW ts, TablesOK(ts), NEW name \in STRING, NEW cols \in Defs, SameTypes(cols, cols),
           \A t \in DOMAIN ts : SameTypes(ts[t].cols, cols) /\ SameTypes(cols, ts[t].cols)
    PROVE  TablesOK(Append(ts, [name |-> name, cols |-> cols, rows |-> <<>>]))
<1> DEFINE X == [name : STRING, cols : Defs, rows : Seq(Seq(Data))]
           new == [name |-> name, cols |-> cols, rows |-> <<>>]
           us == Append(ts, new)
           n == Len(ts)
<1>1. ts \in Seq(X) /\ DOMAIN ts = 1 .. n /\ n \in Nat
  BY DEF TablesOK, Tables
<1>2. new \in X /\ new.cols = cols /\ new.rows = <<>>
  OBVIOUS
<1> HIDE DEF X, new
<1>3. us \in Seq(X) /\ DOMAIN us = 1 .. n + 1 /\ us[n + 1] = new /\ \A t \in 1 .. n : us[t] = ts[t]
  BY <1>1, <1>2, AppendProperties
<1> HIDE DEF us, n
<1>4. \A t \in 1 .. n + 1 : t = n + 1 \/ t \in 1 .. n
  BY <1>1
<1>5. ASSUME NEW t \in DOMAIN us, NEW u \in DOMAIN us PROVE SameTypes(us[t].cols, us[u].cols)
  BY <1>1, <1>2, <1>3, <1>4 DEF TablesOK
<1>6. ASSUME NEW t \in DOMAIN us PROVE RowsOf(us[t].rows, us[t].cols)
  <2>1. RowsOf(<<>>, cols)
    BY DEF RowsOf
  <2> QED
    BY <1>1, <1>2, <1>3, <1>4, <2>1 DEF TablesOK
<1> QED
  BY <1>3, <1>5, <1>6 DEF TablesOK, Tables, X, us, new

LEMMA InsertRun ==
    ASSUME TablesOK(tables), NEW s \in Inserts, NEW lucky, AnalyzeInsertStmt(s, lucky) = "ok"
    PROVE  LET t == FindTableDef(s.table)
           IN  /\ t \in DOMAIN tables
               /\ \E new :
                     /\ ExecInsert(s, tables[t]).rows = tables[t].rows \o new
                     /\ RowsOf(new, tables[t].cols)
                     /\ IF ExecInsert(s, tables[t]).died THEN Len(new) < Len(s.values)
                        ELSE Len(new) = Len(s.values)
<1> DEFINE t == FindTableDef(s.table)
           table == tables[t]
<1>1. tables \in Tables /\ \A u \in DOMAIN tables : TableOK(tables[u])
  BY InvTables
<1>2. t \in DOMAIN tables
      /\ \A k \in DOMAIN s.values : \A j \in DOMAIN s.values[k] :
            j \in DOMAIN table.cols =>
               CheckType(s.values[k][j], <<table.cols>>) \in {table.cols[j].type, "null"}
  BY <1>1, InsertVerdict
<1>3. TableOK(table)
  BY <1>1, <1>2
<1> HIDE DEF table
<1> QED
  BY <1>2, <1>3, InsertLeaves DEF table

LEMMA UpdateRun ==
    ASSUME TablesOK(tables), NEW s \in Updates, AnalyzeUpdateStmt(s) = "ok"
    PROVE  LET t == FindTableDef(s.table)
           IN  /\ t \in DOMAIN tables
               /\ RowsOf(ExecUpdate(s, tables[t]).rows, tables[t].cols)
               /\ ExecUpdate(s, tables[t]).died => ExecUpdate(s, tables[t]).rows = tables[t].rows
<1> DEFINE t == FindTableDef(s.table)
           table == tables[t]
<1>1. tables \in Tables /\ \A u \in DOMAIN tables : TableOK(tables[u])
  BY InvTables
<1>2. t \in DOMAIN tables
      /\ \A k \in DOMAIN s.assigns :
            LET i == GetColIdx(table.cols, s.assigns[k].column)
            IN  i # 0 /\ CheckType(s.assigns[k].value, <<table.cols>>) \in {table.cols[i].type, "null"}
  BY <1>1, UpdateVerdict
<1>3. TableOK(table)
  BY <1>1, <1>2
<1> HIDE DEF table
<1> QED
  BY <1>2, <1>3, UpdateLeaves DEF table

LEMMA DeleteRun ==
    ASSUME TablesOK(tables), NEW s \in Deletes, AnalyzeDeleteStmt(s) = "ok"
    PROVE  LET t == FindTableDef(s.table)
               rows == ExecDelete(s, tables[t]).rows
           IN  /\ t \in DOMAIN tables
               /\ RowsOf(rows, tables[t].cols)
               /\ ExecDelete(s, tables[t]).died =>
                     \/ rows = tables[t].rows
                     \/ Len(rows) < Len(tables[t].rows) /\ rows # <<>> /\ Last(rows) = Last(tables[t].rows)
<1> DEFINE t == FindTableDef(s.table)
           table == tables[t]
<1>1. tables \in Tables /\ \A u \in DOMAIN tables : TableOK(tables[u])
  BY InvTables
<1>2. t \in DOMAIN tables
  BY <1>1, DeleteVerdict
<1>3. TableOK(table)
  BY <1>1, <1>2
<1> HIDE DEF table
<1> QED
  BY <1>2, <1>3, DeleteLeaves DEF table

LEMMA InvStep ==
    ASSUME OneTypeAName, Inv, [Next]_vars
    PROVE  Inv'
<1>1. TablesOK(tables) /\ tables \in Tables
  BY InvTables DEF Inv
<1>2. \A v \in Verdicts : v \in {"prompt", "done", "rejected", "died"} \/ v = "ok"
  BY DEF Verdicts
<1>3. CASE Select
  <2>1. PICK s \in Selects :
           \/ NotRun(s, AnalyzeSelectStmt(s))
           \/ tables' = tables /\ status' \in {"died", "done"}
    BY <1>3 DEF Select, Answer
  <2>2. AnalyzeSelectStmt(s) \in Verdicts
    BY <1>1, SelectVerdict
  <2> QED
    BY <1>1, <1>2, <2>1, <2>2 DEF NotRun, Answer, Inv
<1>4. CASE Insert
  <2>1. PICK s \in Inserts, lucky \in BOOLEAN : Modify(s, AnalyzeInsertStmt(s, lucky), ExecInsert)
    BY <1>4 DEF Insert
  <2> DEFINE t == FindTableDef(s.table)
             check == AnalyzeInsertStmt(s, lucky)
             rows == ExecInsert(s, tables[t]).rows
  <2>2. \/ check # "ok" /\ status' = check /\ tables' = tables
        \/ /\ check = "ok" /\ status' \in {"died", "done"}
           /\ tables' = [tables EXCEPT ![t].rows = rows]
    BY <2>1 DEF Modify, NotRun, Answer
  <2>3. check \in Verdicts
    BY <1>1, InsertVerdict
  <2>4. ASSUME check = "ok" PROVE t \in DOMAIN tables /\ RowsOf(rows, tables[t].cols)
    <3>1. /\ t \in DOMAIN tables
          /\ \E new : rows = tables[t].rows \o new /\ RowsOf(new, tables[t].cols)
      BY <1>1, <2>4, InsertRun
    <3>2. RowsOf(tables[t].rows, tables[t].cols)
      BY <1>1, <3>1 DEF TablesOK
    <3> HIDE DEF rows, t
    <3> QED
      BY <3>1, <3>2, ConcatRows
  <2> HIDE DEF rows, check, t
  <2> QED
    BY <1>1, <1>2, <2>2, <2>3, <2>4, ReplaceRows DEF Inv
<1>5. CASE Update
  <2>1. PICK s \in Updates : Modify(s, AnalyzeUpdateStmt(s), ExecUpdate)
    BY <1>5 DEF Update
  <2> DEFINE t == FindTableDef(s.table)
             check == AnalyzeUpdateStmt(s)
             rows == ExecUpdate(s, tables[t]).rows
  <2>2. \/ check # "ok" /\ status' = check /\ tables' = tables
        \/ /\ check = "ok" /\ status' \in {"died", "done"}
           /\ tables' = [tables EXCEPT ![t].rows = rows]
    BY <2>1 DEF Modify, NotRun, Answer
  <2>3. check \in Verdicts
    BY <1>1, UpdateVerdict
  <2>4. ASSUME check = "ok" PROVE t \in DOMAIN tables /\ RowsOf(rows, tables[t].cols)
    BY <1>1, <2>4, UpdateRun
  <2> HIDE DEF rows, check, t
  <2> QED
    BY <1>1, <1>2, <2>2, <2>3, <2>4, ReplaceRows DEF Inv
<1>6. CASE Delete
  <2>1. PICK s \in Deletes : Modify(s, AnalyzeDeleteStmt(s), ExecDelete)
    BY <1>6 DEF Delete
  <2> DEFINE t == FindTableDef(s.table)
             check == AnalyzeDeleteStmt(s)
             rows == ExecDelete(s, tables[t]).rows
  <2>2. \/ check # "ok" /\ status' = check /\ tables' = tables
        \/ /\ check = "ok" /\ status' \in {"died", "done"}
           /\ tables' = [tables EXCEPT ![t].rows = rows]
    BY <2>1 DEF Modify, NotRun, Answer
  <2>3. check \in Verdicts
    BY <1>1, DeleteVerdict
  <2>4. ASSUME check = "ok" PROVE t \in DOMAIN tables /\ RowsOf(rows, tables[t].cols)
    BY <1>1, <2>4, DeleteRun
  <2> HIDE DEF rows, check, t
  <2> QED
    BY <1>1, <1>2, <2>2, <2>3, <2>4, ReplaceRows DEF Inv
<1>7. CASE CreateTable
  <2>1. PICK s \in CreateTables :
           \/ NotRun(s, AnalyzeCreateTableStmt(s))
           \/ /\ AnalyzeCreateTableStmt(s) = "ok" /\ status' = "done"
              /\ tables' = Append(tables, [name |-> s.table, cols |-> s.columns, rows |-> <<>>])
    BY <1>7 DEF CreateTable, Answer
  <2>2. CASE NotRun(s, AnalyzeCreateTableStmt(s))
    <3>1. AnalyzeCreateTableStmt(s) \in Verdicts
      BY <1>1, CreateVerdict
    <3> QED
      BY <1>1, <1>2, <2>2, <3>1 DEF NotRun, Answer, Inv
  <2>3. CASE AnalyzeCreateTableStmt(s) = "ok" /\ status' = "done"
             /\ tables' = Append(tables, [name |-> s.table, cols |-> s.columns, rows |-> <<>>])
    <3>1. s.columns \in Defs /\ SameTypes(s.columns, s.columns) /\ s.table \in STRING
      BY <1>1, <2>3, CreateVerdict, StatementShapes DEF OneTypeAName
    <3>2. \A t \in DOMAIN tables : SameTypes(tables[t].cols, s.columns) /\ SameTypes(s.columns, tables[t].cols)
      BY <1>1, <2>3, CreateVerdict
    <3>3. TablesOK(tables')
      BY <1>1, <2>3, <3>1, <3>2, AddTable
    <3> QED
      BY <2>3, <3>3 DEF Inv
  <2> QED
    BY <2>1, <2>2, <2>3
<1>8. CASE Prompt
  BY <1>1, <1>8 DEF Prompt, Answer, Inv
<1>9. CASE Restart
  BY <1>1, <1>9 DEF Restart, Answer, Inv
<1>10. CASE UNCHANGED vars
  BY <1>10 DEF vars, Inv
<1> QED
  BY <1>3, <1>4, <1>5, <1>6, <1>7, <1>8, <1>9, <1>10 DEF Next

\* As long as no CREATE TABLE gives two columns of one name different types, whatever
\* expressions the statements insert and assign and however many die on the way, every
\* stored tuple holds NULL or a value of the column's type in every column.
THEOREM TypeCorrect ==
    ASSUME OneTypeAName
    PROVE  Spec => []TypeOK
<1>1. Init => Inv
  BY InitInv
<1>2. Inv /\ [Next]_vars => Inv'
  BY InvStep
<1>3. Inv => TypeOK
  BY InvTypeOK
<1> QED
  BY <1>1, <1>2, <1>3, PTL DEF Spec

-----------------------------------------------------------------------------
\* What a statement leaves that does not come to its end.
LEMMA PrefixOfConcat ==
    ASSUME NEW S, NEW old \in Seq(S), NEW more \in Seq(S)
    PROVE  IsPrefix(old, old \o more) /\ Len(old \o more) - Len(old) = Len(more)
<1> DEFINE new == old \o more
           n == Len(old)
<1>1. n \in Nat /\ new \in Seq(S) /\ Len(new) = n + Len(more) /\ Len(more) \in Nat
  OBVIOUS
<1>2. \A i \in 1 .. n : new[i] = old[i]
  OBVIOUS
<1>3. SubSeq(old, 1, n) = [i \in 1 .. n |-> old[i]] /\ SubSeq(new, 1, n) = [i \in 1 .. n |-> new[i]]
  BY <1>1 DEF SubSeq
<1>4. SubSeq(old, 1, n) = SubSeq(new, 1, n)
  <2> HIDE DEF new
  <2> QED
    BY <1>2, <1>3
<1> QED
  BY <1>1, <1>4 DEF IsPrefix

LEMMA SuffixOfLast ==
    ASSUME NEW S, NEW seq \in Seq(S), seq # <<>>
    PROVE  IsSuffix(<<Last(seq)>>, seq)
<1> DEFINE x == Last(seq)
           one == <<x>>
           n == Len(seq)
<1>1. n \in Nat \ {0} /\ n \in 1 .. n /\ x = seq[n] /\ x \in S
  BY DEF Last
<1> HIDE DEF x
<1>2. Len(one) = 1 /\ one[1] = x
  OBVIOUS
<1>3. Reverse(one) = [i \in 1 .. 1 |-> x]
  BY <1>2 DEF Reverse
<1>4. /\ Reverse(seq) \in Seq(S) /\ Len(Reverse(seq)) = n /\ Reverse(seq)[1] = x
  <2>1. Reverse(seq) = [i \in 1 .. n |-> seq[(n - i) + 1]]
    BY DEF Reverse
  <2>2. \A i \in 1 .. n : seq[(n - i) + 1] \in S
    BY <1>1, ElementOfSeq
  <2>3. (n - 1) + 1 = n /\ 1 \in 1 .. n
    BY <1>1
  <2> QED
    BY <1>1, <2>1, <2>2, <2>3
<1>5. Reverse(one) \in Seq(S) /\ Len(Reverse(one)) = 1 /\ Reverse(one)[1] = x
  <2> DEFINE r == [i \in 1 .. 1 |-> x]
  <2>1. r \in Seq(S) /\ Len(r) = 1 /\ r[1] = x
    BY <1>1
  <2> QED
    BY <1>3, <2>1
<1> DEFINE r == Reverse(one)
           q == Reverse(seq)
<1> HIDE DEF r, q
<1>6. SubSeq(r, 1, 1) = [i \in 1 .. 1 |-> x] /\ SubSeq(q, 1, 1) = [i \in 1 .. 1 |-> x]
  <2>1. SubSeq(r, 1, 1) = [i \in 1 .. 1 |-> r[i]] /\ SubSeq(q, 1, 1) = [i \in 1 .. 1 |-> q[i]]
    BY <1>1, <1>4, <1>5 DEF SubSeq, r, q
  <2>2. \A i \in 1 .. 1 : r[i] = x /\ q[i] = x
    BY <1>4, <1>5 DEF r, q
  <2> QED
    BY <2>1, <2>2
<1>7. Len(r) <= Len(q) /\ SubSeq(r, 1, Len(r)) = SubSeq(q, 1, Len(r))
  BY <1>1, <1>4, <1>5, <1>6 DEF r, q
<1> QED
  BY <1>7 DEF IsSuffix, IsPrefix, r, q, one, x

LEMMA EffectsStep ==
    ASSUME Inv, [Next]_vars
    PROVE  (status' \in {"rejected", "died"} => LeavesOfDeath) \/ UNCHANGED vars
<1> SUFFICES ASSUME status' \in {"rejected", "died"}, tables' # tables
             PROVE  LeavesOfDeath
  BY DEF LeavesOfDeath
<1>1. TablesOK(tables) /\ tables \in Tables
  BY InvTables DEF Inv
<1>2. ~Select /\ ~Prompt /\ ~Restart /\ ~UNCHANGED vars
  BY DEF Select, NotRun, Answer, Prompt, Restart, vars
<1>3. ~CreateTable
  BY DEF CreateTable, NotRun, Answer
<1>4. CASE Insert
  <2>1. PICK s \in Inserts, lucky \in BOOLEAN : Modify(s, AnalyzeInsertStmt(s, lucky), ExecInsert)
    BY <1>4 DEF Insert
  <2> DEFINE t == FindTableDef(s.table)
             rows == ExecInsert(s, tables[t]).rows
             died == ExecInsert(s, tables[t]).died
             old == tables[t].rows
  <2>2. /\ stmt' = s /\ AnalyzeInsertStmt(s, lucky) = "ok" /\ died /\ status' = "died"
        /\ tables' = [tables EXCEPT ![t].rows = rows]
    BY <2>1 DEF Modify, NotRun, Answer
  <2>3. t \in DOMAIN tables
        /\ \E new : /\ rows = old \o new /\ RowsOf(new, tables[t].cols)
                    /\ Len(new) < Len(s.values)
    BY <1>1, <2>2, InsertRun
  <2>4. PICK new : rows = old \o new /\ RowsOf(new, tables[t].cols) /\ Len(new) < Len(s.values)
    BY <2>3
  <2>5. old \in Seq(Seq(Data)) /\ new \in Seq(Seq(Data))
    BY <1>1, <2>3, <2>4, TableIs DEF RowsOf
  <2>6. tables'[t].rows = rows
    BY <1>1, <2>2, <2>3, TableIs
  <2> HIDE DEF old, rows, died, t
  <2>7. IsPrefix(old, rows) /\ Len(rows) - Len(old) < Len(s.values)
    BY <2>4, <2>5, PrefixOfConcat
  <2>8. stmt'.kind = "insert" /\ t = FindTableDef(stmt'.table)
    BY <2>2, StatementShapes DEF t
  <2> QED
    BY <2>2, <2>6, <2>7, <2>8 DEF LeavesOfDeath, old, t
<1>5. CASE Update
  <2>1. PICK s \in Updates : Modify(s, AnalyzeUpdateStmt(s), ExecUpdate)
    BY <1>5 DEF Update
  <2> DEFINE t == FindTableDef(s.table)
             rows == ExecUpdate(s, tables[t]).rows
             died == ExecUpdate(s, tables[t]).died
  <2>2. /\ AnalyzeUpdateStmt(s) = "ok" /\ died
        /\ tables' = [tables EXCEPT ![t].rows = rows]
    BY <2>1 DEF Modify, NotRun, Answer
  <2>3. t \in DOMAIN tables /\ rows = tables[t].rows
    BY <1>1, <2>2, UpdateRun
  <2>4. tables' = tables
    BY <1>1, <2>2, <2>3, TableIs DEF Tables
  <2> QED
    BY <2>4
<1>6. CASE Delete
  <2>1. PICK s \in Deletes : Modify(s, AnalyzeDeleteStmt(s), ExecDelete)
    BY <1>6 DEF Delete
  <2> DEFINE t == FindTableDef(s.table)
             rows == ExecDelete(s, tables[t]).rows
             died == ExecDelete(s, tables[t]).died
             old == tables[t].rows
  <2>2. /\ stmt' = s /\ AnalyzeDeleteStmt(s) = "ok" /\ died /\ status' = "died"
        /\ tables' = [tables EXCEPT ![t].rows = rows]
    BY <2>1 DEF Modify, NotRun, Answer
  <2>3. /\ t \in DOMAIN tables /\ RowsOf(rows, tables[t].cols)
        /\ rows # old => Len(rows) < Len(old) /\ rows # <<>> /\ Last(rows) = Last(old)
    BY <1>1, <2>2, DeleteRun
  <2>4. tables'[t].rows = rows
    BY <1>1, <2>2, <2>3, TableIs
  <2>5. rows # old
    BY <1>1, <2>2, <2>3, TableIs DEF Tables
  <2>6. rows \in Seq(Seq(Data))
    BY <2>3 DEF RowsOf
  <2> HIDE DEF old, rows, died, t
  <2>7. Len(rows) < Len(old) /\ IsSuffix(<<Last(old)>>, rows)
    BY <2>3, <2>5, <2>6, SuffixOfLast
  <2>8. stmt'.kind = "delete" /\ t = FindTableDef(stmt'.table)
    BY <2>2, StatementShapes DEF t
  <2> QED
    BY <2>2, <2>4, <2>7, <2>8 DEF LeavesOfDeath, old, t
<1> QED
  BY <1>2, <1>3, <1>4, <1>5, <1>6 DEF Next

\* Whatever dies or is rejected: a SELECT and an UPDATE have changed nothing, an INSERT
\* has written rows before the failing one, a DELETE has removed rows before it.
THEOREM DeathExplained ==
    ASSUME OneTypeAName
    PROVE  Spec => EffectsOfDeath
<1>1. Init => Inv
  BY InitInv
<1>2. Inv /\ [Next]_vars => Inv'
  BY InvStep
<1>3. Inv /\ [Next]_vars => [status' \in {"rejected", "died"} => LeavesOfDeath]_vars
  BY EffectsStep
<1> QED
  BY <1>1, <1>2, <1>3, PTL DEF Spec, EffectsOfDeath

-----------------------------------------------------------------------------
\* UPDATE.  The new version of a row is the row that is meant.
LEMMA NewVersionMeant ==
    ASSUME NEW s \in Updates, NEW def \in Defs, NEW row, IsTupleOf(row, def),
           Test(s.where, row, def, <<def>>) = "yes",
           \A k \in DOMAIN s.assigns : EvalExpr(s.assigns[k].value, row, def, <<def>>) \in Data
    PROVE  NewVersion(s.assigns, row, def) = Meant(s, row, def)
<1> DEFINE A == DOMAIN row
           n == Len(s.assigns)
           names == [k \in DOMAIN s.assigns |-> s.assigns[k].column]
           value(k) == EvalExpr(s.assigns[k].value, row, def, <<def>>)
           values == [k \in DOMAIN s.assigns |-> value(k)]
           new == SetCols(row, names, values, def)
           to(c) == {k \in DOMAIN s.assigns : GetColIdx(def, s.assigns[k].column) = c}
           meant(c) == IF to(c) = {} THEN row[c] ELSE value(Max(to(c)))
<1>1. n \in Nat /\ DOMAIN s.assigns = 1 .. n
  <2>1. s.assigns \in Seq([column : STRING, value : Exprs])
    BY StatementShapes
  <2> QED
    BY <2>1
<1>2. NewVersion(s.assigns, row, def) = new
  BY DEF NewVersion
<1>3. Meant(s, row, def) = [c \in A |-> meant(c)]
  BY DEF Meant
<1>4. row \in [A -> Data]
  BY DEF IsTupleOf
<1> HIDE DEF value
<1>5. /\ DOMAIN names = 1 .. n /\ \A k \in 1 .. n : names[k] = s.assigns[k].column
      /\ \A k \in 1 .. n : values[k] = value(k) /\ value(k) \in Data
  BY <1>1 DEF value
<1>6. Writable(A, Data, row, n, names, values)
  <2> HIDE DEF A, names, values, n
  <2> QED
    BY <1>1, <1>4, <1>5 DEF Writable
<1>7. new \in [A -> Data] /\ \A c \in A : new[c] = Written(row, names, values, def, c, n)
  <2> HIDE DEF A, names, values, n
  <2> QED
    BY <1>6, SetColsIs
<1>8. ASSUME NEW c \in A PROVE new[c] = meant(c)
  <2>1. Writes(names, def, c, n) = to(c)
    BY <1>1, <1>5 DEF Writes
  <2>2. to(c) # {} => Max(to(c)) \in 1 .. n
    <3>1. to(c) \in SUBSET (1 .. n)
      BY <1>1
    <3> HIDE DEF to
    <3> QED
      BY <1>1, <3>1, MaxIs
  <2> HIDE DEF to, names, values, new, n
  <2> QED
    BY <1>5, <1>7, <2>1, <2>2 DEF Written
<1>9. new = [c \in A |-> meant(c)]
  <2> HIDE DEF meant, new, A
  <2> QED
    BY <1>7, <1>8
<1> QED
  BY <1>2, <1>3, <1>9

\* The places of the rows that stay and of those that are replaced are all places.
Rearranges(p, a, b, n) ==
    /\ p \in [1 .. Len(a) + Len(b) -> 1 .. n]
    /\ \A j \in 1 .. Len(a) + Len(b) : p[j] = IF j <= Len(a) THEN a[j] ELSE b[j - Len(a)]
    /\ \A j, k \in 1 .. Len(a) + Len(b) : p[j] = p[k] => j = k
    /\ \A i \in 1 .. n : \E j \in 1 .. Len(a) + Len(b) : p[j] = i

LEMMA PicksAll ==
    ASSUME NEW n \in Nat, NEW marks, \A i \in 1 .. n : marks[i] \in {"yes", "no"},
           NEW a, NEW b, Picks(a, n, marks, "no"), Picks(b, n, marks, "yes")
    PROVE  \E p : Rearranges(p, a, b, n)
<1> DEFINE l == Len(a)
           m == Len(b)
           at(j) == IF j <= l THEN a[j] ELSE b[j - l]
           p == [j \in 1 .. l + m |-> at(j)]
<1>1. /\ l \in Nat /\ m \in Nat
      /\ \A j \in 1 .. l : a[j] \in 1 .. n /\ marks[a[j]] = "no"
      /\ \A j \in 1 .. m : b[j] \in 1 .. n /\ marks[b[j]] = "yes"
  BY ElementOfSeq DEF Picks
<1>2. /\ \A j, k \in 1 .. l : j < k => a[j] < a[k]
      /\ \A j, k \in 1 .. m : j < k => b[j] < b[k]
      /\ \A i \in 1 .. n : marks[i] = "no" => \E j \in 1 .. l : a[j] = i
      /\ \A i \in 1 .. n : marks[i] = "yes" => \E j \in 1 .. m : b[j] = i
  BY DEF Picks
<1> HIDE DEF l, m
<1>3. ASSUME NEW j \in 1 .. l + m
      PROVE  IF j <= l THEN j \in 1 .. l /\ at(j) = a[j] ELSE j - l \in 1 .. m /\ at(j) = b[j - l]
  BY <1>1
<1>4. \A j, k \in 1 .. l : a[j] = a[k] => j = k
  <2> SUFFICES ASSUME NEW j \in 1 .. l, NEW k \in 1 .. l, a[j] = a[k], j # k PROVE FALSE
    OBVIOUS
  <2>1. j < k \/ k < j
    BY <1>1
  <2>2. a[j] \in Int /\ a[k] \in Int
    BY <1>1
  <2> QED
    BY <1>2, <2>1, <2>2
<1>5. \A j, k \in 1 .. m : b[j] = b[k] => j = k
  <2> SUFFICES ASSUME NEW j \in 1 .. m, NEW k \in 1 .. m, b[j] = b[k], j # k PROVE FALSE
    OBVIOUS
  <2>1. j < k \/ k < j
    BY <1>1
  <2>2. b[j] \in Int /\ b[k] \in Int
    BY <1>1
  <2> QED
    BY <1>2, <2>1, <2>2
<1>6. \A j \in 1 .. l + m : at(j) \in 1 .. n
  BY <1>1, <1>3
<1>7. ASSUME NEW j \in 1 .. l + m, NEW k \in 1 .. l + m, at(j) = at(k) PROVE j = k
  <2>1. CASE j <= l /\ k <= l
    BY <1>3, <1>4, <1>7, <2>1
  <2>2. CASE ~(j <= l) /\ ~(k <= l)
    <3>1. j - l = k - l
      BY <1>3, <1>5, <1>7, <2>2
    <3> QED
      BY <1>1, <3>1
  <2>3. CASE j <= l /\ ~(k <= l)
    BY <1>1, <1>3, <1>7, <2>3
  <2>4. CASE ~(j <= l) /\ k <= l
    BY <1>1, <1>3, <1>7, <2>4
  <2> QED
    BY <2>1, <2>2, <2>3, <2>4
<1>8. ASSUME NEW i \in 1 .. n PROVE \E j \in 1 .. l + m : at(j) = i
  <2>1. CASE marks[i] = "no"
    <3>1. PICK j \in 1 .. l : a[j] = i
      BY <1>2, <2>1
    <3>2. j \in 1 .. l + m /\ at(j) = a[j]
      BY <1>1
    <3> QED
      BY <3>1, <3>2
  <2>2. CASE marks[i] = "yes"
    <3>1. PICK j \in 1 .. m : b[j] = i
      BY <1>2, <2>2
    <3>2. l + j \in 1 .. l + m /\ at(l + j) = b[j]
      BY <1>1
    <3> QED
      BY <3>1, <3>2
  <2> QED
    BY <2>1, <2>2
<1> HIDE DEF at
<1>9. p \in [1 .. l + m -> 1 .. n] /\ \A j \in 1 .. l + m : p[j] = at(j)
  BY <1>6
<1> HIDE DEF p
<1>10. Rearranges(p, a, b, n)
  BY <1>7, <1>8, <1>9 DEF Rearranges, at, l, m
<1> QED
  BY <1>10

\* Rearranged, a sequence has every element as often as before.
Copies(new, old, p, a, b, n) ==
    /\ n \in Nat /\ Len(a) \in Nat /\ Len(b) \in Nat /\ Rearranges(p, a, b, n)
    /\ DOMAIN new = 1 .. Len(a) + Len(b) /\ DOMAIN old = 1 .. n
    /\ \A j \in 1 .. Len(a) + Len(b) : new[j] = old[p[j]]

LEMMA SameCount ==
    ASSUME NEW n, NEW a, NEW b, NEW p, NEW new, NEW old, Copies(new, old, p, a, b, n), NEW r
    PROVE  Occurrences(new, r) = Occurrences(old, r)
<1> DEFINE m == Len(a) + Len(b)
           S == {j \in DOMAIN new : new[j] = r}
           T == {i \in DOMAIN old : old[i] = r}
           f == [j \in S |-> p[j]]
<1>1. /\ p \in [1 .. m -> 1 .. n]
      /\ \A j, k \in 1 .. m : p[j] = p[k] => j = k
      /\ \A i \in 1 .. n : \E j \in 1 .. m : p[j] = i
  BY DEF Copies, Rearranges
<1>0. /\ n \in Nat /\ m \in Nat /\ DOMAIN new = 1 .. m /\ DOMAIN old = 1 .. n
      /\ \A j \in 1 .. m : new[j] = old[p[j]]
  BY DEF Copies
<1> HIDE DEF m
<1>2. f \in [S -> T]
  BY <1>0, <1>1
<1>3. f \in Injection(S, T)
  <2>1. DOMAIN f = S /\ \A j, k \in S : f[j] = f[k] => j = k
    BY <1>0, <1>1
  <2> HIDE DEF f, S, T
  <2> QED
    BY <1>2, <2>1 DEF Injection, IsInjective
<1>4. f \in Surjection(S, T)
  <2>1. ASSUME NEW i \in T PROVE \E j \in S : f[j] = i
    <3>1. PICK j \in 1 .. m : p[j] = i
      BY <1>0, <1>1
    <3>2. j \in S
      BY <1>0, <3>1
    <3> QED
      BY <3>1, <3>2
  <2> HIDE DEF f, S, T
  <2> QED
    BY <1>2, <2>1 DEF Surjection
<1>5. ExistsBijection(S, T)
  BY <1>3, <1>4 DEF ExistsBijection, Bijection
<1>6. IsFiniteSet(S)
  <2>1. m \in Int /\ S \in SUBSET (1 .. m)
    BY <1>0
  <2>2. IsFiniteSet(1 .. m)
    BY <2>1, FS_Interval
  <2> HIDE DEF S, m
  <2> QED
    BY <2>1, <2>2, FS_Subset
<1> HIDE DEF S, T
<1>7. Cardinality(T) = Cardinality(S)
  BY <1>5, <1>6, FS_Bijection
<1> QED
  BY <1>7 DEF S, T, Occurrences

LEMMA TestIs ==
    \A cond, tuple, def, joinList : Test(cond, tuple, def, joinList) \in {"yes", "no", "died"}
BY DEF Test, Truth

LEMMA UpdateCounts ==
    ASSUME NEW s \in Updates, NEW table, TableOK(table),
           \A k \in DOMAIN s.assigns :
              LET i == GetColIdx(table.cols, s.assigns[k].column)
              IN  i # 0 /\ CheckType(s.assigns[k].value, <<table.cols>>) \in {table.cols[i].type, "null"},
           ~ExecUpdate(s, table).died, NEW r
    PROVE  LET rows  == ExecUpdate(s, table).rows
               meant == [i \in DOMAIN table.rows |-> Meant(s, table.rows[i], table.cols)]
           IN  Occurrences(rows, r) = Occurrences(meant, r)
<1> DEFINE def == table.cols
           old == table.rows
           n == Len(old)
           tests == Tests(s.where, old, def, <<def>>)
           hit == Where(old, tests, "yes")
           rest == Where(old, tests, "no")
           dies == \/ "died" \in ToSet(tests)
                   \/ \E k \in DOMAIN hit, a \in ToSet(s.assigns) :
                         IsDeath(EvalExpr(a.value, hit[k], def, <<def>>))
           version(k) == NewVersion(s.assigns, hit[k], def)
           news == [k \in DOMAIN hit |-> version(k)]
           rows == rest \o news
           meant == [i \in DOMAIN old |-> Meant(s, old[i], def)]
<1>1. ExecUpdate(s, table) = IF dies THEN Effect(old, TRUE) ELSE Effect(rows, FALSE)
  BY DEF ExecUpdate
<1>2. ~dies /\ ExecUpdate(s, table).rows = rows
  <2> HIDE DEF dies, rows
  <2> QED
    BY <1>1 DEF Effect
<1>3. /\ def \in Defs /\ SameTypes(def, def) /\ old \in Seq(Seq(Data)) /\ n \in Nat
      /\ DOMAIN old = 1 .. n /\ \A i \in 1 .. n : IsTupleOf(old[i], def)
  BY DEF TableOK, RowsOf
<1>4. /\ DOMAIN tests = 1 .. n
      /\ \A i \in 1 .. n : tests[i] = Test(s.where, old[i], def, <<def>>)
      /\ \A i \in 1 .. n : tests[i] \in {"yes", "no"}
  <2>1. /\ DOMAIN tests = 1 .. n
        /\ \A i \in 1 .. n : tests[i] = Test(s.where, old[i], def, <<def>>)
    BY <1>3 DEF Tests
  <2>2. \A i \in DOMAIN tests : tests[i] # "died"
    BY <1>2 DEF ToSet
  <2> HIDE DEF tests
  <2> QED
    BY <2>1, <2>2, TestIs
<1>5. \A k \in DOMAIN hit : \A l \in DOMAIN s.assigns :
         ~IsDeath(EvalExpr(s.assigns[l].value, hit[k], def, <<def>>))
  BY <1>2 DEF ToSet
<1> HIDE DEF tests, hit, rest, dies
<1>6. PICK a : Picks(a, n, tests, "no") /\ Picked(rest, old, a)
  <2> HIDE DEF n
  <2> QED
    BY <1>3, WhereIs DEF rest, n
<1>7. PICK b : Picks(b, n, tests, "yes") /\ Picked(hit, old, b)
  <2> HIDE DEF n
  <2> QED
    BY <1>3, WhereIs DEF hit, n
<1>8. rest \in Seq(Seq(Data)) /\ hit \in Seq(Seq(Data))
  BY <1>3, WhereIs DEF rest, hit
<1>9. /\ Len(a) \in Nat /\ Len(b) \in Nat /\ Len(rest) = Len(a) /\ Len(hit) = Len(b)
      /\ \A j \in 1 .. Len(a) : a[j] \in 1 .. n /\ tests[a[j]] = "no" /\ rest[j] = old[a[j]]
      /\ \A j \in 1 .. Len(b) : b[j] \in 1 .. n /\ tests[b[j]] = "yes" /\ hit[j] = old[b[j]]
  BY <1>6, <1>7, ElementOfSeq, SMTT(30) DEF Picks, Picked
<1>10. PICK p : Rearranges(p, a, b, n)
  BY <1>3, <1>4, <1>6, <1>7, PicksAll
<1>11. \A i \in 1 .. n : meant[i] = Meant(s, old[i], def)
  BY <1>3
<1>12. ASSUME NEW j \in 1 .. Len(a) PROVE rest[j] = meant[a[j]]
  <2>1. Test(s.where, old[a[j]], def, <<def>>) # "yes"
    BY <1>4, <1>9
  <2> HIDE DEF meant
  <2> QED
    BY <1>9, <1>11, <2>1 DEF Meant
<1>13. ASSUME NEW j \in 1 .. Len(b) PROVE version(j) = meant[b[j]] /\ version(j) \in Seq(Data)
  <2> DEFINE row == old[b[j]]
  <2>1. /\ hit[j] = row /\ IsTupleOf(row, def) /\ j \in DOMAIN hit /\ b[j] \in 1 .. n
        /\ Test(s.where, row, def, <<def>>) = "yes"
    <3>1. j \in DOMAIN hit
      BY <1>8, <1>9
    <3> QED
      BY <1>3, <1>4, <1>9, <3>1
  <2>2. s.assigns \in Seq([column : STRING, value : Exprs])
    BY StatementShapes
  <2>3. \A k \in DOMAIN s.assigns :
           LET i == GetColIdx(def, s.assigns[k].column)
           IN  /\ i # 0 /\ CheckType(s.assigns[k].value, <<def>>) \in {def[i].type, "null"}
               /\ ~IsDeath(EvalExpr(s.assigns[k].value, row, def, <<def>>))
    BY <1>5, <2>1
  <2> HIDE DEF row, def
  <2>4. /\ IsTupleOf(NewVersion(s.assigns, row, def), def)
        /\ \A k \in DOMAIN s.assigns : EvalExpr(s.assigns[k].value, row, def, <<def>>) \in Data
    BY <1>3, <2>1, <2>2, <2>3, NewVersionTyped
  <2>5. NewVersion(s.assigns, row, def) = Meant(s, row, def)
    BY <1>3, <2>1, <2>4, NewVersionMeant
  <2>6. meant[b[j]] = Meant(s, row, def)
    BY <1>11, <2>1 DEF row
  <2>7. NewVersion(s.assigns, row, def) \in Seq(Data)
    BY <2>4 DEF IsTupleOf
  <2> QED
    BY <2>1, <2>5, <2>6, <2>7
<1>14. news \in Seq(Seq(Data)) /\ Len(news) = Len(b) /\ \A j \in 1 .. Len(b) : news[j] = version(j)
  <2>1. DOMAIN hit = 1 .. Len(b)
    BY <1>8, <1>9
  <2> DEFINE X == Seq(Data)
  <2>2. \A j \in 1 .. Len(b) : version(j) \in X
    BY <1>13
  <2> HIDE DEF X, version
  <2>3. news \in Seq(X) /\ Len(news) = Len(b) /\ \A j \in 1 .. Len(b) : news[j] = version(j)
    BY <1>9, <2>1, <2>2
  <2> QED
    BY <2>3 DEF X
<1> HIDE DEF news, version, meant, def, old, n
<1>15. /\ DOMAIN rows = 1 .. Len(a) + Len(b)
       /\ \A j \in 1 .. Len(a) + Len(b) :
             rows[j] = IF j <= Len(a) THEN rest[j] ELSE news[j - Len(a)]
  <2> DEFINE X == Seq(Data)
  <2>1. rest \in Seq(X) /\ news \in Seq(X) /\ Len(rest) = Len(a) /\ Len(news) = Len(b)
    BY <1>8, <1>9, <1>14
  <2> HIDE DEF X
  <2>2. DOMAIN rows = 1 .. Len(rest) + Len(news)
        /\ \A j \in 1 .. Len(rest) + Len(news) :
              rows[j] = IF j <= Len(rest) THEN rest[j] ELSE news[j - Len(rest)]
    BY <2>1, SMTT(30)
  <2> QED
    BY <2>1, <2>2
<1> HIDE DEF rows
<1>16. ASSUME NEW j \in 1 .. Len(a) + Len(b) PROVE rows[j] = meant[p[j]]
  <2>1. p[j] = IF j <= Len(a) THEN a[j] ELSE b[j - Len(a)]
    BY <1>10 DEF Rearranges
  <2>2. CASE j <= Len(a)
    <3>1. j \in 1 .. Len(a)
      BY <1>9, <2>2
    <3> QED
      BY <1>12, <1>15, <2>1, <2>2, <3>1
  <2>3. CASE ~(j <= Len(a))
    <3>1. j - Len(a) \in 1 .. Len(b)
      BY <1>9, <2>3
    <3> QED
      BY <1>13, <1>14, <1>15, <2>1, <2>3, <3>1
  <2> QED
    BY <2>2, <2>3
<1>17. DOMAIN meant = 1 .. n
  BY <1>3 DEF meant
<1>18. Copies(rows, meant, p, a, b, n)
  BY <1>3, <1>9, <1>10, <1>15, <1>16, <1>17 DEF Copies
<1>19. Occurrences(rows, r) = Occurrences(meant, r)
  BY <1>18, SameCount
<1> QED
  BY <1>2, <1>19 DEF meant, old, def

LEMMA UpdateStep ==
    ASSUME Inv, [Next]_vars
    PROVE  (status = "prompt" /\ stmt'.kind = "update" /\ status' = "done" => UpdatesAtOnce)
               \/ UNCHANGED vars
<1> SUFFICES ASSUME stmt'.kind = "update", status' = "done", ~UNCHANGED vars
             PROVE  UpdatesAtOnce
  OBVIOUS
<1>1. TablesOK(tables) /\ tables \in Tables /\ \A t \in DOMAIN tables : TableOK(tables[t])
  BY InvTables DEF Inv
<1>2. ~Prompt /\ ~Restart
  BY DEF Prompt, Restart, Answer
<1>3. ~Select
  BY StatementShapes DEF Select, NotRun, Answer
<1>4. ~Insert
  BY StatementShapes DEF Insert, Modify, NotRun, Answer
<1>5. ~Delete
  BY StatementShapes DEF Delete, Modify, NotRun, Answer
<1>6. ~CreateTable
  BY StatementShapes DEF CreateTable, NotRun, Answer
<1>7. Update
  BY <1>2, <1>3, <1>4, <1>5, <1>6 DEF Next
<1>8. PICK s \in Updates : Modify(s, AnalyzeUpdateStmt(s), ExecUpdate)
  BY <1>7 DEF Update
<1> DEFINE t == FindTableDef(s.table)
           table == tables[t]
           rows == ExecUpdate(s, table).rows
           died == ExecUpdate(s, table).died
           meant == [i \in DOMAIN table.rows |-> Meant(s, table.rows[i], table.cols)]
<1>9. AnalyzeUpdateStmt(s) \in Verdicts
  BY <1>1, UpdateVerdict
<1>10. /\ stmt' = s /\ AnalyzeUpdateStmt(s) = "ok" /\ ~died
       /\ tables' = [tables EXCEPT ![t].rows = rows]
  BY <1>8, <1>9 DEF Modify, NotRun, Answer, Verdicts
<1>11. t \in DOMAIN tables
       /\ \A k \in DOMAIN s.assigns :
             LET i == GetColIdx(table.cols, s.assigns[k].column)
             IN  i # 0 /\ CheckType(s.assigns[k].value, <<table.cols>>) \in {table.cols[i].type, "null"}
  BY <1>1, <1>10, UpdateVerdict
<1>12. tables'[t].rows = rows
  BY <1>1, <1>10, <1>11, TableIs
<1>13. TableOK(table)
  BY <1>1, <1>11
<1> HIDE DEF table
<1>14. ASSUME NEW r PROVE Occurrences(rows, r) = Occurrences(meant, r)
  BY <1>10, <1>11, <1>13, UpdateCounts
<1> QED
  BY <1>10, <1>12, <1>14 DEF UpdatesAtOnce, table

\* After an UPDATE that ends well the table has every row as often as the rows that
\* were meant, each assignment evaluated on the row as it was.
THEOREM UpdateCorrect ==
    ASSUME OneTypeAName
    PROVE  Spec => UpdateSimultaneous
<1>1. Init => Inv
  BY InitInv
<1>2. Inv /\ [Next]_vars => Inv'
  BY InvStep
<1>3. Inv /\ [Next]_vars =>
          [status = "prompt" /\ stmt'.kind = "update" /\ status' = "done" => UpdatesAtOnce]_vars
  BY UpdateStep
<1> QED
  BY <1>1, <1>2, <1>3, PTL DEF Spec, UpdateSimultaneous

-----------------------------------------------------------------------------
\* Joins.  All definitions are made of columns of the tables, in which equal names
\* have equal types.
OfTables(def) ==
    /\ def \in Defs
    /\ \A i \in DOMAIN def : \E t \in DOMAIN tables :
          \E j \in DOMAIN tables[t].cols : def[i] = tables[t].cols[j]

LEMMA OfTablesSame ==
    ASSUME TablesOK(tables), NEW def1, NEW def2, OfTables(def1), OfTables(def2)
    PROVE  SameTypes(def1, def2)
<1> SUFFICES ASSUME NEW i \in DOMAIN def1, NEW j \in DOMAIN def2, def1[i].name = def2[j].name
             PROVE  def1[i].type = def2[j].type
  BY DEF SameTypes
<1>1. PICK t \in DOMAIN tables : \E c \in DOMAIN tables[t].cols : def1[i] = tables[t].cols[c]
  BY DEF OfTables
<1>2. PICK u \in DOMAIN tables : \E c \in DOMAIN tables[u].cols : def2[j] = tables[u].cols[c]
  BY DEF OfTables
<1>3. SameTypes(tables[t].cols, tables[u].cols)
  BY DEF TablesOK
<1> QED
  BY <1>1, <1>2, <1>3 DEF SameTypes

LEMMA OfTablesIs ==
    ASSUME TablesOK(tables)
    PROVE  /\ OfTables(<<>>)
           /\ \A t \in DOMAIN tables : OfTables(tables[t].cols)
           /\ \A def1, def2 : OfTables(def1) /\ OfTables(def2) => OfTables(def1 \o def2)
<1>1. OfTables(<<>>)
  BY DEF OfTables, Defs
<1>2. ASSUME NEW t \in DOMAIN tables PROVE OfTables(tables[t].cols)
  BY InvTables, TableIs DEF OfTables
<1>3. ASSUME NEW def1, NEW def2, OfTables(def1), OfTables(def2)
      PROVE  OfTables(def1 \o def2)
  <2> DEFINE def == def1 \o def2
             C == [name : STRING, type : ColTypes]
  <2>1. def1 \in Seq(C) /\ def2 \in Seq(C)
    BY <1>3 DEF OfTables, Defs
  <2>2. def \in Seq(C)
    <3> HIDE DEF C
    <3> QED
      BY <2>1
  <2>3. ASSUME NEW i \in DOMAIN def
        PROVE  \/ i \in DOMAIN def1 /\ def[i] = def1[i]
               \/ \E j \in DOMAIN def2 : def[i] = def2[j]
    <3> HIDE DEF C
    <3>1. CASE i <= Len(def1)
      BY <2>1, <3>1
    <3>2. CASE i > Len(def1)
      <4>1. i - Len(def1) \in DOMAIN def2 /\ def[i] = def2[i - Len(def1)]
        BY <2>1, <3>2
      <4> QED
        BY <4>1
    <3> QED
      BY <2>1, <3>1, <3>2
  <2>4. ASSUME NEW i \in DOMAIN def
        PROVE  \E t \in DOMAIN tables : \E j \in DOMAIN tables[t].cols : def[i] = tables[t].cols[j]
    <3> HIDE DEF def
    <3> QED
      BY <1>3, <2>3 DEF OfTables
  <2> QED
    BY <2>2, <2>4 DEF OfTables, Defs
<1> QED
  BY <1>1, <1>2, <1>3

\* A row of such a definition gives names the types that any join list of such
\* definitions gives them.
ListOfTables(joinList) ==
    joinList \in Seq(Defs) /\ \A d \in DOMAIN joinList : OfTables(joinList[d])

LEMMA JoinReads ==
    ASSUME TablesOK(tables), NEW def, OfTables(def), NEW joinList, ListOfTables(joinList),
           NEW tuple, IsTupleOf(tuple, def)
    PROVE  Reads(tuple, def, joinList)
<1>1. def \in Defs
  BY DEF OfTables
<1> SUFFICES ASSUME NEW name \in STRING
             PROVE  /\ GetCol(tuple, name, def) \in Data \cup Deaths
                    /\ GetCol(tuple, name, def) \in Data /\ ColType(name, joinList) # "unknown" =>
                          GetCol(tuple, name, def).type \in {ColType(name, joinList), "null"}
  BY DEF Reads
<1> DEFINE i == GetColIdx(def, name)
<1>2. CASE tuple = NoTuple \/ i = 0
  <2>1. GetCol(tuple, name, def) = Death("GetCol")
    BY <1>2 DEF GetCol
  <2>2. Death("GetCol") \in Deaths
    BY DEF Deaths
  <2> QED
    BY <2>1, <2>2, DataFacts
<1>3. CASE tuple # NoTuple /\ i # 0
  <2>1. i \in DOMAIN def /\ def[i].name = name
    BY <1>1, <1>3, GetColIdxIs DEF Defs
  <2>2. GetCol(tuple, name, def) = tuple[i]
    BY <1>3 DEF GetCol
  <2>3. tuple[i] \in Data /\ tuple[i].type \in {def[i].type, "null"}
    <3>1. tuple \in Seq(Data) /\ i \in DOMAIN tuple
      BY <2>1 DEF IsTupleOf
    <3> HIDE DEF i
    <3> QED
      BY <2>1, <3>1, ElementOfSeq DEF IsTupleOf
  <2>4. ASSUME ColType(name, joinList) # "unknown" PROVE ColType(name, joinList) = def[i].type
    <3>1. joinList \in Seq(Defs)
      BY DEF ListOfTables
    <3>2. PICK d \in DOMAIN joinList :
             /\ GetColIdx(joinList[d], name) # 0
             /\ ColType(name, joinList) = joinList[d][GetColIdx(joinList[d], name)].type
      BY <2>4, <3>1, ColTypeIs
    <3>3. joinList[d] \in Defs /\ OfTables(joinList[d])
      BY <3>1, ElementOfSeq DEF ListOfTables
    <3>4. SameTypes(joinList[d], def)
      BY <3>3, OfTablesSame
    <3>5. /\ GetColIdx(joinList[d], name) \in DOMAIN joinList[d]
          /\ joinList[d][GetColIdx(joinList[d], name)].name = name
      BY <3>2, <3>3, GetColIdxIs DEF Defs
    <3> HIDE DEF i
    <3> QED
      BY <2>1, <3>2, <3>4, <3>5 DEF SameTypes
  <2> HIDE DEF i
  <2> QED
    BY <2>2, <2>3, <2>4
<1> QED
  BY <1>2, <1>3

\* The columns of a row, read by their names, fit every definition with the names.
LEMMA ColsFit ==
    ASSUME TablesOK(tables), NEW ldef, OfTables(ldef), NEW def, OfTables(def),
           NEW l, IsTupleOf(l, ldef)
    PROVE  Fits(Len(ldef), Names(ldef), GetCols(l, ldef), def)
<1>1. ldef \in Defs /\ def \in Defs /\ Len(ldef) \in Nat /\ DOMAIN ldef = 1 .. Len(ldef)
  BY DefFacts DEF OfTables
<1>2. DOMAIN Names(ldef) = 1 .. Len(ldef) /\ \A j \in 1 .. Len(ldef) : Names(ldef)[j] = ldef[j].name
  BY <1>1 DEF Names
<1> SUFFICES ASSUME NEW j \in 1 .. Len(ldef)
             PROVE  /\ GetCols(l, ldef)[j] \in Data
                    /\ GetColIdx(def, ldef[j].name) # 0 =>
                          GetCols(l, ldef)[j].type \in {def[GetColIdx(def, ldef[j].name)].type, "null"}
  BY <1>1, <1>2 DEF Fits
<1> DEFINE name == ldef[j].name
           i == GetColIdx(ldef, name)
           c == GetColIdx(def, name)
<1>3. i \in DOMAIN ldef /\ ldef[i].name = name
  <2>1. i # 0
    BY <1>1, GetColIdxIs DEF Defs
  <2> QED
    BY <1>1, <2>1, GetColIdxIs DEF Defs
<1>4. l # NoTuple
  <2>1. j \in DOMAIN l
    BY <1>1 DEF IsTupleOf
  <2> QED
    BY <2>1 DEF NoTuple
<1>5. i # 0
  BY <1>1, <1>3
<1>6. GetCols(l, ldef)[j] = l[i]
  BY <1>1, <1>4, <1>5 DEF GetCols, GetCol
<1>7. l[i] \in Data /\ l[i].type \in {ldef[i].type, "null"}
  <2>1. l \in Seq(Data) /\ i \in DOMAIN l
    BY <1>3 DEF IsTupleOf
  <2> HIDE DEF i
  <2> QED
    BY <1>3, <2>1, ElementOfSeq DEF IsTupleOf
<1>8. ASSUME c # 0 PROVE def[c].type = ldef[i].type
  <2>1. c \in DOMAIN def /\ def[c].name = name
    BY <1>1, <1>8, GetColIdxIs DEF Defs
  <2>2. SameTypes(def, ldef)
    BY OfTablesSame
  <2> HIDE DEF c, i, name
  <2> QED
    BY <1>3, <2>1, <2>2 DEF SameTypes
<1> HIDE DEF i
<1> QED
  BY <1>6, <1>7, <1>8

LEMMA JoinedTyped ==
    ASSUME TablesOK(tables), NEW ldef, OfTables(ldef), NEW rdef, OfTables(rdef),
           NEW l, IsTupleOf(l, ldef), NEW r, IsTupleOf(r, rdef)
    PROVE  IsTupleOf(JoinedTuple(l, ldef, r, rdef), ldef \o rdef)
<1> DEFINE def == ldef \o rdef
           half == SetCols(MakeTuple(def), Names(ldef), GetCols(l, ldef), def)
<1>1. OfTables(def) /\ def \in Seq([name : STRING, type : ColTypes])
  <2>1. OfTables(def)
    BY OfTablesIs
  <2> QED
    BY <2>1 DEF OfTables, Defs
<1>2. JoinedTuple(l, ldef, r, rdef) = SetCols(half, Names(rdef), GetCols(r, rdef), def)
  BY DEF JoinedTuple, JoinedDef
<1> HIDE DEF def
<1>3. IsTupleOf(half, def)
  BY <1>1, MakeTupleIs, ColsFit, SetColsTyped
<1> HIDE DEF half
<1>4. IsTupleOf(SetCols(half, Names(rdef), GetCols(r, rdef), def), def)
  BY <1>1, <1>3, ColsFit, SetColsTyped
<1> QED
  BY <1>2, <1>4 DEF def

\* FromDef is what its recursive definition says.
LEMMA FromDefIs ==
    ASSUME TablesOK(tables)
    PROVE  \A f \in FromClauses :
              /\ OfTables(FromDef(f))
              /\ f.type = "table" => FromDef(f) = TableCols(f.table)
              /\ f.type = "join" => FromDef(f) = FromDef(f.left) \o FromDef(f.right)
<1> DEFINE V == {d \in Defs : OfTables(d)}
           rule(f, g) == IF f.type = "table" THEN TableCols(f.table) ELSE g[f.left] \o g[f.right]
           D == [w \in FromClauses \X [FromClauses -> V] |-> rule(w[1], w[2])]
           h == [f \in FromClauses |-> Height[f]]
           Defines(g) == g = [f \in FromClauses |-> rule(f, g)]
           def == CHOOSE g : Defines(g)
<1>1. \A name : TableCols(name) \in V
  BY OfTablesIs, InvTables, FindTableIs, TableIs DEF TableCols, OfTables
<1>2. ASSUME NEW d \in V, NEW e \in V PROVE d \o e \in V
  <2>1. OfTables(d \o e)
    BY OfTablesIs
  <2> QED
    BY <2>1 DEF OfTables
<1>3. <<>> \in V
  BY OfTablesIs DEF OfTables
<1> HIDE DEF V
<1>4. \A f \in FromClauses, g \in [FromClauses -> V] : rule(f, g) \in V
  BY <1>1, <1>2, FromShape
<1>5. h \in [FromClauses -> Nat] /\ V # {}
  BY <1>3, FromShape
<1>6. D \in [FromClauses \X [FromClauses -> V] -> V]
  <2> HIDE DEF rule
  <2> QED
    BY <1>4
<1>7. ASSUME NEW f \in FromClauses, NEW g \in [FromClauses -> V], NEW k \in [FromClauses -> V],
             \A d \in FromClauses : h[d] < h[f] => g[d] = k[d]
      PROVE  D[<<f, g>>] = D[<<f, k>>]
  <2>1. CASE f.type = "table"
    BY <2>1
  <2>2. CASE f.type = "join"
    <3>1. /\ f.left \in FromClauses /\ f.right \in FromClauses
          /\ h[f.left] < h[f] /\ h[f.right] < h[f]
      BY <2>2, FromShape
    <3>2. g[f.left] = k[f.left] /\ g[f.right] = k[f.right]
      BY <1>7, <3>1
    <3> QED
      BY <2>2, <3>2
  <2> QED
    BY <2>1, <2>2, FromShape
<1>8. \E g : Defines(g) /\ g \in [FromClauses -> V]
  <2>1. Recurses(D, FromClauses, V, h)
    <3> HIDE DEF D, h
    <3> QED
      BY <1>5, <1>6, <1>7 DEF Recurses
  <2>2. PICK g : Solves(g, D, FromClauses, V)
    <3> HIDE DEF D, h
    <3> QED
      BY <2>1, TreeRecursion
  <2> HIDE DEF rule
  <2>3. \A f \in FromClauses : g[f] = rule(f, g)
    BY <2>2 DEF Solves
  <2>4. g = [f \in FromClauses |-> rule(f, g)] /\ g \in [FromClauses -> V]
    BY <2>2, <2>3 DEF Solves
  <2> QED
    BY <2>4
<1>9. Defines(def)
  <2> HIDE DEF Defines
  <2> QED
    BY <1>8
<1>10. \A f \in FromClauses : def[f] = rule(f, def)
  <2> HIDE DEF def, rule
  <2> QED
    BY <1>9
<1>11. \A f \in FromClauses : FromDef(f) = def[f]
  BY DEF FromDef
<1> DEFINE P == {f \in FromClauses : FromDef(f) \in V}
<1> HIDE DEF def
<1>12. ASSUME NEW f \in FromClauses, \A d \in FromClauses : h[d] < h[f] => d \in P
       PROVE  f \in P
  <2>1. CASE f.type = "table"
    BY <1>1, <1>10, <1>11, <2>1
  <2>2. CASE f.type = "join"
    <3>1. f.left \in P /\ f.right \in P
      BY <1>12, <2>2, FromShape
    <3> QED
      BY <1>2, <1>10, <1>11, <2>2, <3>1
  <2> QED
    BY <2>1, <2>2, FromShape
<1>13. FromClauses \subseteq P
  <2> HIDE DEF P, h
  <2> QED
    BY <1>5, <1>12, TreeInduction
<1>14. \A f \in FromClauses : OfTables(FromDef(f))
  BY <1>13 DEF V
<1> QED
  BY <1>10, <1>11, <1>14, FromShape

\* What AnalyzeJoinList accepts ends with the definition of the FROM clause.
LEMMA AnalyzedFrom ==
    ASSUME TablesOK(tables)
    PROVE  \A from \in FromClauses : \A joinList :
              ListOfTables(joinList) =>
                 /\ ListOfTables(AnalyzeJoinList(from, joinList).list)
                 /\ AnalyzeJoinList(from, joinList).verdict = "ok" =>
                       /\ AnalyzeJoinList(from, joinList).list # <<>>
                       /\ Last(AnalyzeJoinList(from, joinList).list) = FromDef(from)
<1> DEFINE h == [f \in FromClauses |-> Height[f]]
           Ends(f, r) == r.verdict = "ok" => r.list # <<>> /\ Last(r.list) = FromDef(f)
           P == {f \in FromClauses : \A before : ListOfTables(before) =>
                    /\ ListOfTables(AnalyzeJoinList(f, before).list)
                    /\ Ends(f, AnalyzeJoinList(f, before))}
<1>1. tables \in Tables
  BY InvTables
<1>2. ASSUME NEW list, ListOfTables(list), NEW def, OfTables(def)
      PROVE  /\ ListOfTables(Append(list, def)) /\ Append(list, def) # <<>>
             /\ Last(Append(list, def)) = def
  <2>1. list \in Seq(Defs) /\ def \in Defs
    BY <1>2 DEF ListOfTables, OfTables
  <2>2. /\ Append(list, def) \in Seq(Defs) /\ Len(Append(list, def)) = Len(list) + 1
        /\ \A d \in 1 .. Len(list) : Append(list, def)[d] = list[d]
        /\ Append(list, def)[Len(list) + 1] = def
        /\ DOMAIN Append(list, def) = 1 .. Len(list) + 1 /\ DOMAIN list = 1 .. Len(list)
        /\ Len(list) \in Nat
    <3> HIDE DEF Defs
    <3> QED
      BY <2>1
  <2>3. ASSUME NEW d \in DOMAIN Append(list, def) PROVE OfTables(Append(list, def)[d])
    BY <1>2, <2>2 DEF ListOfTables
  <2> QED
    BY <2>2, <2>3 DEF ListOfTables, Last
<1>3. h \in [FromClauses -> Nat]
  BY FromShape
<1>4. ASSUME NEW f \in FromClauses, \A d \in FromClauses : h[d] < h[f] => d \in P
      PROVE  f \in P
  <2> SUFFICES ASSUME NEW before, ListOfTables(before)
               PROVE  /\ ListOfTables(AnalyzeJoinList(f, before).list)
                      /\ Ends(f, AnalyzeJoinList(f, before))
    OBVIOUS
  <2>1. before \in Seq(Defs)
    BY DEF ListOfTables
  <2>2. CASE f.type = "table"
    <3>1. AnalyzeJoinList(f, before) = AnalyzeTable(f.table, before)
      BY <1>1, <2>1, <2>2, AnalyzeJoinListIs
    <3>2. FromDef(f) = TableCols(f.table)
      BY <2>2, FromDefIs
    <3>3. FindTableDef(f.table) # 0 => OfTables(TableCols(f.table))
      BY <1>1, FindTableIs, OfTablesIs DEF TableCols
    <3> QED
      BY <1>2, <3>1, <3>2, <3>3 DEF AnalyzeTable, TableCols
  <2>3. CASE f.type = "join"
    <3> DEFINE left == AnalyzeJoinList(f.left, before)
               right == AnalyzeJoinList(f.right, left.list)
               result == AnalyzeJoinList(f, before)
    <3>1. f.left \in P /\ f.right \in P /\ f.left \in FromClauses /\ f.right \in FromClauses
      BY <1>4, <2>3, FromShape
    <3>2. ListOfTables(left.list) /\ Ends(f.left, left)
      BY <3>1
    <3>3. ListOfTables(right.list) /\ Ends(f.right, right)
      BY <3>1, <3>2
    <3>4. result = AnalyzeJoin(left, right, f.on)
      BY <1>1, <2>1, <2>3, AnalyzeJoinListIs
    <3>5. FromDef(f) = FromDef(f.left) \o FromDef(f.right) /\ OfTables(FromDef(f))
      BY <2>3, FromDefIs
    <3> HIDE DEF left, right, result
    <3>6. ASSUME left.verdict # "ok" PROVE ListOfTables(result.list) /\ Ends(f, result)
      BY <3>2, <3>4, <3>6 DEF AnalyzeJoin
    <3>7. ASSUME left.verdict = "ok", right.verdict # "ok"
          PROVE  ListOfTables(result.list) /\ Ends(f, result)
      BY <3>3, <3>4, <3>7 DEF AnalyzeJoin
    <3>8. ASSUME left.verdict = "ok", right.verdict = "ok"
          PROVE  ListOfTables(result.list) /\ Ends(f, result)
      <4>1. Last(left.list) = FromDef(f.left) /\ Last(right.list) = FromDef(f.right)
        BY <3>2, <3>3, <3>8
      <4>2. result.list = Append(right.list, FromDef(f))
        BY <3>4, <3>5, <3>8, <4>1 DEF AnalyzeJoin, JoinedDef
      <4>3. ListOfTables(result.list) /\ result.list # <<>> /\ Last(result.list) = FromDef(f)
        BY <1>2, <3>3, <3>5, <4>2
      <4> QED
        BY <4>3
    <3> QED
      BY <3>6, <3>7, <3>8 DEF result
  <2> QED
    BY <2>2, <2>3, FromShape
<1>5. FromClauses \subseteq P
  <2> HIDE DEF P, h
  <2> QED
    BY <1>3, <1>4, TreeInduction
<1> QED
  BY <1>5

\* Pairs has every tuple of the left with every tuple of the right.
PairIs(k, ls, rs, pairs) ==
    \E i \in 1 .. Len(ls), j \in 1 .. Len(rs) : pairs[k] = <<ls[i], rs[j]>>

LEMMA PairPlaces ==
    ASSUME NEW m \in Nat, NEW n \in Nat, NEW k \in 1 .. m * n
    PROVE  ((k - 1) \div n) + 1 \in 1 .. m /\ ((k - 1) % n) + 1 \in 1 .. n
<1>1. m * n \in Nat /\ k \in Nat /\ k >= 1 /\ k <= m * n
  OBVIOUS
<1>2. n # 0
  <2>1. n = 0 => m * n = 0
    OBVIOUS
  <2> QED
    BY <1>1, <2>1
<1> DEFINE q == (k - 1) \div n
           r == (k - 1) % n
<1>3. /\ q \in Int /\ r \in Int /\ k - 1 = n * q + r /\ r >= 0 /\ r < n
  BY <1>1, <1>2
<1> HIDE DEF q, r
<1>4. q >= 0
  <2>1. CASE q <= -1
    <3>1. n * q <= n * (-1)
      BY <1>3, <2>1
    <3> QED
      BY <1>1, <1>3, <3>1
  <2> QED
    BY <1>3, <2>1
<1>5. q < m
  <2>1. CASE q >= m
    <3>1. n * q >= n * m
      BY <1>3, <2>1
    <3>2. n * m = m * n
      OBVIOUS
    <3> QED
      BY <1>1, <1>3, <3>1, <3>2
  <2> QED
    BY <1>3, <2>1
<1> QED
  BY <1>3, <1>4, <1>5 DEF q, r

LEMMA PairsAre ==
    ASSUME NEW S, NEW ls \in Seq(S), NEW rs \in Seq(S)
    PROVE  /\ Len(ls) * Len(rs) \in Nat
           /\ DOMAIN Pairs(ls, rs) = 1 .. Len(ls) * Len(rs)
           /\ \A k \in 1 .. Len(ls) * Len(rs) : PairIs(k, ls, rs, Pairs(ls, rs))
<1>1. Len(ls) \in Nat /\ Len(rs) \in Nat
  OBVIOUS
<1>2. Len(ls) * Len(rs) \in Nat
  BY <1>1
<1>3. ASSUME NEW k \in 1 .. Len(ls) * Len(rs) PROVE PairIs(k, ls, rs, Pairs(ls, rs))
  <2>1. ((k - 1) \div Len(rs)) + 1 \in 1 .. Len(ls) /\ ((k - 1) % Len(rs)) + 1 \in 1 .. Len(rs)
    BY <1>1, <1>3, PairPlaces
  <2>2. Pairs(ls, rs)[k] = <<ls[((k - 1) \div Len(rs)) + 1], rs[((k - 1) % Len(rs)) + 1]>>
    BY <1>3 DEF Pairs
  <2> QED
    BY <2>1, <2>2 DEF PairIs
<1> QED
  BY <1>2, <1>3 DEF Pairs

\* What a scan returns: rows of its definition.
Scans == {s \in [def : Defs, rows : Seq(Seq(Data)), diesBy : [Nat -> BOOLEAN]] :
             OfTables(s.def) /\ RowsOf(s.rows, s.def)}

LEMMA SeqScanIs ==
    ASSUME TablesOK(tables), NEW name
    PROVE  SeqScan(name) \in Scans /\ SeqScan(name).def = TableCols(name)
<1>1. CASE FindTableDef(name) = 0
  <2>1. RowsOf(<<>>, <<>>)
    BY DEF RowsOf
  <2>2. OfTables(<<>>) /\ <<>> \in Defs
    BY OfTablesIs DEF Defs
  <2> QED
    BY <1>1, <2>1, <2>2 DEF SeqScan, Scans, TableCols
<1>2. CASE FindTableDef(name) # 0
  <2> DEFINE t == FindTableDef(name)
  <2>1. t \in DOMAIN tables
    BY <1>2, InvTables, FindTableIs
  <2> HIDE DEF t
  <2>2. OfTables(tables[t].cols) /\ RowsOf(tables[t].rows, tables[t].cols)
    BY <2>1, OfTablesIs DEF TablesOK
  <2>3. tables[t].cols \in Defs /\ tables[t].rows \in Seq(Seq(Data))
    BY <2>1, InvTables, TableIs
  <2>4. /\ SeqScan(name) = [def |-> tables[t].cols, rows |-> tables[t].rows,
                            diesBy |-> [n \in Nat |-> FALSE]]
        /\ TableCols(name) = tables[t].cols
    BY <1>2 DEF SeqScan, TableCols, t
  <2> QED
    BY <2>2, <2>3, <2>4 DEF Scans
<1> QED
  BY <1>1, <1>2

\* The rows of a join before its ON clause is tested.
JoinedRows(l, r) ==
    [k \in DOMAIN Pairs(l.rows, r.rows) |->
        JoinedTuple(Pairs(l.rows, r.rows)[k][1], l.def, Pairs(l.rows, r.rows)[k][2], r.def)]

LEMMA JoinedRowsAre ==
    ASSUME TablesOK(tables), NEW l \in Scans, NEW r \in Scans
    PROVE  /\ RowsOf(JoinedRows(l, r), l.def \o r.def)
           /\ \A k \in DOMAIN JoinedRows(l, r) :
                 \E i \in DOMAIN l.rows, j \in DOMAIN r.rows :
                    JoinedRows(l, r)[k] = JoinedTuple(l.rows[i], l.def, r.rows[j], r.def)
<1> DEFINE pairs == Pairs(l.rows, r.rows)
           n == Len(l.rows) * Len(r.rows)
<1>1. /\ l.rows \in Seq(Seq(Data)) /\ r.rows \in Seq(Seq(Data))
      /\ OfTables(l.def) /\ OfTables(r.def) /\ RowsOf(l.rows, l.def) /\ RowsOf(r.rows, r.def)
  BY DEF Scans
<1>2. n \in Nat /\ DOMAIN pairs = 1 .. n /\ \A k \in 1 .. n : PairIs(k, l.rows, r.rows, pairs)
  <2> DEFINE S == Seq(Data)
  <2>1. l.rows \in Seq(S) /\ r.rows \in Seq(S)
    BY <1>1
  <2> HIDE DEF S
  <2> QED
    BY <2>1, PairsAre
<1>3. DOMAIN l.rows = 1 .. Len(l.rows) /\ DOMAIN r.rows = 1 .. Len(r.rows)
  BY <1>1
<1>4. JoinedRows(l, r) = [k \in 1 .. n |-> JoinedTuple(pairs[k][1], l.def, pairs[k][2], r.def)]
  BY <1>2 DEF JoinedRows
<1> HIDE DEF pairs, n
<1>5. ASSUME NEW k \in 1 .. n
      PROVE  \E i \in DOMAIN l.rows, j \in DOMAIN r.rows :
                JoinedRows(l, r)[k] = JoinedTuple(l.rows[i], l.def, r.rows[j], r.def)
  <2>1. PICK i \in 1 .. Len(l.rows), j \in 1 .. Len(r.rows) : pairs[k] = <<l.rows[i], r.rows[j]>>
    BY <1>2 DEF PairIs
  <2>2. pairs[k][1] = l.rows[i] /\ pairs[k][2] = r.rows[j]
    BY <2>1
  <2>3. JoinedRows(l, r)[k] = JoinedTuple(l.rows[i], l.def, r.rows[j], r.def)
    BY <1>4, <2>2
  <2> QED
    BY <1>3, <2>3
<1>6. ASSUME NEW k \in 1 .. n PROVE IsTupleOf(JoinedRows(l, r)[k], l.def \o r.def)
  <2>1. PICK i \in DOMAIN l.rows, j \in DOMAIN r.rows :
           JoinedRows(l, r)[k] = JoinedTuple(l.rows[i], l.def, r.rows[j], r.def)
    BY <1>5
  <2>2. IsTupleOf(l.rows[i], l.def) /\ IsTupleOf(r.rows[j], r.def)
    BY <1>1 DEF RowsOf
  <2> QED
    BY <1>1, <2>1, <2>2, JoinedTyped
<1>7. DOMAIN JoinedRows(l, r) = 1 .. n
  BY <1>4
<1>8. JoinedRows(l, r) = [k \in 1 .. n |-> JoinedRows(l, r)[k]]
  BY <1>4
<1>9. RowsOf(JoinedRows(l, r), l.def \o r.def)
  BY <1>2, <1>6, <1>7, <1>8, SomeRows
<1> QED
  BY <1>5, <1>7, <1>9

LEMMA NestedLoopScanIs ==
    ASSUME TablesOK(tables), NEW l \in Scans, NEW r \in Scans, NEW on, NEW joinList
    PROVE  /\ NestedLoopScan(l, r, on, joinList) \in Scans
           /\ NestedLoopScan(l, r, on, joinList).def = l.def \o r.def
<1> DEFINE s == NestedLoopScan(l, r, on, joinList)
           def == l.def \o r.def
           marks == Tests(on, JoinedRows(l, r), def, joinList)
<1>1. s = [def |-> def, rows |-> Where(JoinedRows(l, r), marks, "yes"), diesBy |-> s.diesBy]
  BY DEF NestedLoopScan, JoinedRows, JoinedDef
<1>2. s.diesBy \in [Nat -> BOOLEAN]
  <2>1. l.diesBy \in [Nat -> BOOLEAN] /\ r.diesBy \in [Nat -> BOOLEAN]
    BY DEF Scans
  <2>2. Len(l.rows) \in Nat
    BY DEF Scans
  <2>3. ASSUME NEW n \in Nat, n > 0 PROVE n * (Len(l.rows) + 1) - 1 \in Nat
    BY <2>2, <2>3
  <2> QED
    BY <2>1, <2>3 DEF NestedLoopScan
<1>3. RowsOf(JoinedRows(l, r), def)
  BY JoinedRowsAre
<1>4. OfTables(def) /\ def \in Defs
  <2>1. OfTables(l.def) /\ OfTables(r.def)
    BY DEF Scans
  <2>2. OfTables(def)
    BY <2>1, OfTablesIs
  <2> QED
    BY <2>2 DEF OfTables
<1> HIDE DEF s, def, marks
<1>5. RowsOf(s.rows, def)
  BY <1>1, <1>3, WhereRows
<1>6. s.rows \in Seq(Seq(Data)) /\ s.def = def
  BY <1>1, <1>5 DEF RowsOf
<1>7. s \in Scans
  BY <1>1, <1>2, <1>4, <1>5, <1>6 DEF Scans
<1> QED
  BY <1>6, <1>7 DEF s, def

\* ScanFrom is what its recursive definition says.
LEMMA ScanFromIs ==
    ASSUME TablesOK(tables), NEW joinList
    PROVE  \A f \in FromClauses :
              /\ ScanFrom(f, joinList) \in Scans
              /\ f.type = "table" => ScanFrom(f, joinList) = SeqScan(f.table)
              /\ f.type = "join" =>
                    ScanFrom(f, joinList) =
                        NestedLoopScan(ScanFrom(f.left, joinList), ScanFrom(f.right, joinList),
                                       f.on, joinList)
<1> DEFINE V == Scans
           rule(f, g) == IF f.type = "table" THEN SeqScan(f.table)
                         ELSE NestedLoopScan(g[f.left], g[f.right], f.on, joinList)
           D == [w \in FromClauses \X [FromClauses -> V] |-> rule(w[1], w[2])]
           h == [f \in FromClauses |-> Height[f]]
           Defines(g) == g = [f \in FromClauses |-> rule(f, g)]
           scan == CHOOSE g : Defines(g)
<1>1. \A name : SeqScan(name) \in V
  BY SeqScanIs
<1>2. ASSUME NEW l \in V, NEW r \in V, NEW on PROVE NestedLoopScan(l, r, on, joinList) \in V
  BY NestedLoopScanIs
<1> HIDE DEF V
<1>3. \A f \in FromClauses, g \in [FromClauses -> V] : rule(f, g) \in V
  BY <1>1, <1>2, FromShape
<1>4. h \in [FromClauses -> Nat] /\ V # {}
  BY <1>1, FromShape
<1>5. D \in [FromClauses \X [FromClauses -> V] -> V]
  <2> HIDE DEF rule
  <2> QED
    BY <1>3
<1>6. ASSUME NEW f \in FromClauses, NEW g \in [FromClauses -> V], NEW k \in [FromClauses -> V],
             \A d \in FromClauses : h[d] < h[f] => g[d] = k[d]
      PROVE  D[<<f, g>>] = D[<<f, k>>]
  <2>1. CASE f.type = "table"
    BY <2>1
  <2>2. CASE f.type = "join"
    <3>1. /\ f.left \in FromClauses /\ f.right \in FromClauses
          /\ h[f.left] < h[f] /\ h[f.right] < h[f]
      BY <2>2, FromShape
    <3>2. g[f.left] = k[f.left] /\ g[f.right] = k[f.right]
      BY <1>6, <3>1
    <3> QED
      BY <2>2, <3>2
  <2> QED
    BY <2>1, <2>2, FromShape
<1>7. \E g : Defines(g) /\ g \in [FromClauses -> V]
  <2>1. Recurses(D, FromClauses, V, h)
    <3> HIDE DEF D, h
    <3> QED
      BY <1>4, <1>5, <1>6 DEF Recurses
  <2>2. PICK g : Solves(g, D, FromClauses, V)
    <3> HIDE DEF D, h
    <3> QED
      BY <2>1, TreeRecursion
  <2> HIDE DEF rule
  <2>3. \A f \in FromClauses : g[f] = rule(f, g)
    BY <2>2 DEF Solves
  <2>4. g = [f \in FromClauses |-> rule(f, g)] /\ g \in [FromClauses -> V]
    BY <2>2, <2>3 DEF Solves
  <2> QED
    BY <2>4
<1>8. Defines(scan)
  <2> HIDE DEF Defines
  <2> QED
    BY <1>7
<1>9. \A f \in FromClauses : scan[f] = rule(f, scan)
  <2> HIDE DEF scan, rule
  <2> QED
    BY <1>8
<1>10. \A f \in FromClauses : ScanFrom(f, joinList) = scan[f]
  BY DEF ScanFrom
<1> DEFINE P == {f \in FromClauses : ScanFrom(f, joinList) \in V}
<1> HIDE DEF scan
<1>11. ASSUME NEW f \in FromClauses, \A d \in FromClauses : h[d] < h[f] => d \in P
       PROVE  f \in P
  <2>1. CASE f.type = "table"
    BY <1>1, <1>9, <1>10, <2>1
  <2>2. CASE f.type = "join"
    <3>1. f.left \in P /\ f.right \in P
      BY <1>11, <2>2, FromShape
    <3> QED
      BY <1>2, <1>9, <1>10, <2>2, <3>1
  <2> QED
    BY <2>1, <2>2, FromShape
<1>12. FromClauses \subseteq P
  <2> HIDE DEF P, h
  <2> QED
    BY <1>4, <1>11, TreeInduction
<1>13. \A f \in FromClauses : ScanFrom(f, joinList) \in Scans
  BY <1>12 DEF V
<1> QED
  BY <1>9, <1>10, <1>13, FromShape

\* The tuples of a FROM clause have the definition of the FROM clause.
LEMMA ScanDef ==
    ASSUME TablesOK(tables), NEW joinList
    PROVE  \A f \in FromClauses : ScanFrom(f, joinList).def = FromDef(f)
<1> DEFINE h == [f \in FromClauses |-> Height[f]]
           P == {f \in FromClauses : ScanFrom(f, joinList).def = FromDef(f)}
<1>1. h \in [FromClauses -> Nat]
  BY FromShape
<1>2. ASSUME NEW f \in FromClauses, \A d \in FromClauses : h[d] < h[f] => d \in P
      PROVE  f \in P
  <2>1. CASE f.type = "table"
    BY <2>1, ScanFromIs, FromDefIs, SeqScanIs
  <2>2. CASE f.type = "join"
    <3>1. f.left \in P /\ f.right \in P
      BY <1>2, <2>2, FromShape
    <3>2. ScanFrom(f.left, joinList) \in Scans /\ ScanFrom(f.right, joinList) \in Scans
      BY <3>1, ScanFromIs
    <3> DEFINE l == ScanFrom(f.left, joinList)
               r == ScanFrom(f.right, joinList)
    <3>3. ScanFrom(f, joinList) = NestedLoopScan(l, r, f.on, joinList)
      BY <2>2, ScanFromIs
    <3>4. NestedLoopScan(l, r, f.on, joinList).def = l.def \o r.def
      <4> HIDE DEF l, r
      <4> QED
        BY <3>2, NestedLoopScanIs DEF l, r
    <3> QED
      BY <2>2, <3>1, <3>3, <3>4, FromDefIs
  <2> QED
    BY <2>1, <2>2, FromShape
<1>3. FromClauses \subseteq P
  <2> HIDE DEF P, h
  <2> QED
    BY <1>1, <1>2, TreeInduction
<1> QED
  BY <1>3

-----------------------------------------------------------------------------
\* What a SELECT prints.  Invented names are counted, so that no two are the same.
Unnamed(targets, i) == {j \in 1 .. i - 1 : targets[j].type # "id"}

LEMMA InventedNamesDiffer ==
    ASSUME NEW targets, NEW n \in Nat, NEW i \in 1 .. n, NEW j \in 1 .. n, i < j, targets[i].type # "id"
    PROVE  InventedName(targets, i) # InventedName(targets, j)
<1>1. IsFiniteSet(Unnamed(targets, i)) /\ IsFiniteSet(Unnamed(targets, j))
  <2>1. IsFiniteSet(1 .. n)
    BY FS_Interval
  <2>2. Unnamed(targets, i) \subseteq 1 .. n /\ Unnamed(targets, j) \subseteq 1 .. n
    BY DEF Unnamed
  <2> QED
    BY <2>1, <2>2, FS_Subset
<1>2. /\ Unnamed(targets, i) \subseteq Unnamed(targets, j)
      /\ i \in Unnamed(targets, j) /\ i \notin Unnamed(targets, i)
  BY DEF Unnamed
<1>3. Unnamed(targets, i) # Unnamed(targets, j)
  BY <1>2
<1>4. Cardinality(Unnamed(targets, i)) \in Nat /\ Cardinality(Unnamed(targets, j)) \in Nat
  BY <1>1, FS_CardinalityType
<1>5. Cardinality(Unnamed(targets, i)) < Cardinality(Unnamed(targets, j))
  <2>1. /\ Cardinality(Unnamed(targets, i)) <= Cardinality(Unnamed(targets, j))
        /\ Cardinality(Unnamed(targets, j)) = Cardinality(Unnamed(targets, i)) =>
              Unnamed(targets, j) = Unnamed(targets, i)
    BY <1>1, <1>2, FS_Subset
  <2> QED
    BY <1>3, <1>4, <2>1
<1>6. /\ InventedName(targets, i) = <<"?column", Cardinality(Unnamed(targets, i))>>
      /\ InventedName(targets, j) = <<"?column", Cardinality(Unnamed(targets, j))>>
  BY DEF InventedName, Unnamed
<1> QED
  BY <1>4, <1>5, <1>6

\* Targets whose types the analyzer has found.
Targets(targets, joinList) ==
    /\ targets \in Seq(Exprs) /\ joinList \in Seq(Defs)
    /\ \A i \in DOMAIN targets : CheckType(targets[i], joinList) \notin {"panic", "unknown"}

\* Output columns of one name are of one target.
LEMMA OutputNames ==
    ASSUME NEW targets, NEW joinList, Targets(targets, joinList),
           NEW i \in DOMAIN targets, NEW j \in DOMAIN targets,
           TargetName(targets, i, joinList) = TargetName(targets, j, joinList)
    PROVE  targets[i] = targets[j]
<1> DEFINE n == Len(targets)
<1>1. n \in Nat /\ DOMAIN targets = 1 .. n
  BY DEF Targets
<1>2. ASSUME NEW k \in DOMAIN targets
      PROVE  /\ targets[k].type = "id" =>
                   /\ targets[k] = Id(targets[k].name)
                   /\ TargetName(targets, k, joinList) = <<targets[k].name>>
             /\ targets[k].type # "id" =>
                   TargetName(targets, k, joinList) = InventedName(targets, k)
  <2>1. targets[k] \in Exprs /\ CheckType(targets[k], joinList) # "unknown" /\ joinList \in Seq(Defs)
    BY DEF Targets
  <2>2. ASSUME targets[k].type = "id" PROVE IsNamed(targets[k], joinList)
    BY <2>1, <2>2, CheckTypeIs DEF IsNamed
  <2>3. targets[k].type # "id" => ~IsNamed(targets[k], joinList)
    BY DEF IsNamed
  <2> QED
    BY <2>1, <2>2, <2>3, ExprShape DEF TargetName
<1>3. CASE targets[i].type = "id" /\ targets[j].type = "id"
  BY <1>2, <1>3
<1>4. CASE targets[i].type # "id" /\ targets[j].type # "id"
  <2>1. InventedName(targets, i) = InventedName(targets, j)
    BY <1>2, <1>4
  <2>2. ~(i < j) /\ ~(j < i)
    BY <1>1, <1>4, <2>1, InventedNamesDiffer
  <2>3. i = j
    BY <1>1, <2>2
  <2> QED
    BY <2>3
<1>5. \A name, k : <<name>> # InventedName(targets, k)
  <2> SUFFICES ASSUME NEW name, NEW k PROVE <<name>> # InventedName(targets, k)
    OBVIOUS
  <2>1. Len(<<name>>) = 1 /\ Len(InventedName(targets, k)) = 2
    BY DEF InventedName
  <2> QED
    BY <2>1
<1>6. CASE targets[i].type = "id" /\ targets[j].type # "id"
  BY <1>2, <1>5, <1>6
<1>7. CASE targets[i].type # "id" /\ targets[j].type = "id"
  BY <1>2, <1>5, <1>7
<1> QED
  BY <1>3, <1>4, <1>6, <1>7

\* What travels through a tuple of the output by the names of its columns arrives.
Cells(values, targets) ==
    /\ values \in [DOMAIN targets -> Data]
    /\ \A i, j \in DOMAIN targets : targets[i] = targets[j] => values[i] = values[j]

LEMMA PrintedRowIs ==
    ASSUME NEW targets, NEW joinList, Targets(targets, joinList),
           NEW values, Cells(values, targets)
    PROVE  LET output == OutputDef(targets, joinList)
           IN  PrintedRow(Project(values, output), output) = values
<1> DEFINE output == OutputDef(targets, joinList)
           n == Len(targets)
           A == 1 .. n
           S == {output[i] : i \in A}
           tuple == Project(values, output)
<1>1. n \in Nat /\ DOMAIN targets = A
  BY DEF Targets
<1>2. DOMAIN output = A /\ \A i \in A : output[i].name = TargetName(targets, i, joinList)
  BY <1>1 DEF OutputDef, Column
<1>3. output = [i \in A |-> output[i]]
  BY <1>1 DEF OutputDef
<1> HIDE DEF output
<1>4. output \in Seq(S) /\ \A i \in A : output[i] \in S
  <2>1. \A i \in A : output[i] \in S
    OBVIOUS
  <2>2. output \in [A -> S]
    <3> HIDE DEF S
    <3> QED
      BY <1>3, <2>1
  <2> HIDE DEF S
  <2> QED
    BY <1>1, <2>1, <2>2
<1>5. DOMAIN Names(output) = A /\ \A i \in A : Names(output)[i] = output[i].name
  BY <1>2 DEF Names
<1>6. MakeTuple(output) \in [A -> Data]
  BY <1>2, DataFacts DEF MakeTuple
<1>7. values \in [A -> Data]
  BY <1>1 DEF Cells
<1>8. Writable(A, Data, MakeTuple(output), n, Names(output), values)
  BY <1>1, <1>5, <1>6, <1>7 DEF Writable
<1>9. /\ tuple \in [A -> Data]
      /\ \A c \in A : tuple[c] = Written(MakeTuple(output), Names(output), values, output, c, n)
  <2> HIDE DEF A
  <2> QED
    BY <1>8, SetColsIs DEF Project
<1> HIDE DEF tuple, S
<1>10. ASSUME NEW i \in A PROVE PrintedRow(tuple, output)[i] = values[i]
  <2> DEFINE c == GetColIdx(output, output[i].name)
             to == Writes(Names(output), output, c, n)
  <2>1. c # 0
    BY <1>2, <1>4, GetColIdxIs
  <2>2. c \in A /\ output[c].name = output[i].name
    BY <1>2, <1>4, <2>1, GetColIdxIs
  <2>3. tuple # NoTuple
    <3>1. DOMAIN tuple = A /\ A # {}
      BY <1>9
    <3> QED
      BY <3>1 DEF NoTuple
  <2>4. PrintedRow(tuple, output)[i] = tuple[c]
    BY <1>2, <2>1, <2>3 DEF PrintedRow, GetCols, GetCol
  <2>5. i \in to
    BY <1>5 DEF Writes
  <2>6. to \in SUBSET (1 .. n)
    BY DEF Writes
  <2>7. Max(to) \in to
    <3> HIDE DEF to
    <3> QED
      BY <1>1, <2>5, <2>6, MaxIs
  <2>8. Max(to) \in A /\ GetColIdx(output, output[Max(to)].name) = c
    BY <1>5, <2>7 DEF Writes
  <2>9. tuple[c] = values[Max(to)]
    BY <1>9, <2>2, <2>5 DEF Written
  <2> HIDE DEF to
  <2>10. output[Max(to)].name = output[i].name
    <3>1. output[c].name = output[Max(to)].name
      BY <1>4, <2>1, <2>8, GetColIdxIs
    <3> QED
      BY <2>2, <3>1
  <2>11. targets[Max(to)] = targets[i]
    BY <1>1, <1>2, <2>8, <2>10, OutputNames
  <2>12. values[Max(to)] = values[i]
    BY <1>1, <2>8, <2>11 DEF Cells
  <2> QED
    BY <2>4, <2>9, <2>12
<1>11. PrintedRow(tuple, output) = [i \in A |-> PrintedRow(tuple, output)[i]]
  BY <1>2 DEF PrintedRow, GetCols
<1>12. values = [i \in A |-> values[i]]
  BY <1>7
<1> QED
  BY <1>10, <1>11, <1>12 DEF output, tuple

\* What the two properties of the output say of statement s and the rows printed.
TypedOutput(s, rows) ==
    LET joinList == AnalyzeJoinList(s.from, <<>>).list
    IN  \A row \in rows : \A i \in DOMAIN row :
            /\ row[i] \in Data
            /\ row[i].type \in {CheckType(s.targets[i], joinList), "null"}

RowValues(s, row, def, joinList) ==
    [i \in DOMAIN s.targets |-> EvalExpr(s.targets[i], row, def, joinList)]

KeptRows(s, scan, joinList) ==
    {row \in ToSet(scan.rows) : Test(s.where, row, scan.def, joinList) = "yes"}

EvaluatedOutput(s, rows) ==
    LET joinList == AnalyzeJoinList(s.from, <<>>).list
        scan     == ScanFrom(s.from, joinList)
    IN  rows = {RowValues(s, row, scan.def, joinList) : row \in KeptRows(s, scan, joinList)}

\* The join list of an accepted SELECT.
LEMMA SelectFrom ==
    ASSUME TablesOK(tables), NEW s \in Selects, AnalyzeSelectStmt(s) = "ok"
    PROVE  LET joinList == AnalyzeJoinList(s.from, <<>>).list
           IN  /\ s.from \in FromClauses
               /\ ListOfTables(joinList) /\ Targets(s.targets, joinList)
               /\ ScanFrom(s.from, joinList) \in Scans
<1> DEFINE joinList == AnalyzeJoinList(s.from, <<>>).list
<1>1. s.from \in FromClauses /\ s.targets \in Seq(Exprs)
      /\ \A i \in DOMAIN s.targets : CheckType(s.targets[i], joinList) \notin {"panic", "unknown"}
  BY InvTables, SelectVerdict, StatementShapes
<1>2. ListOfTables(<<>>)
  BY DEF ListOfTables
<1>3. ListOfTables(joinList)
  BY <1>1, <1>2, AnalyzedFrom
<1> HIDE DEF joinList
<1>4. Targets(s.targets, joinList)
  BY <1>1, <1>3 DEF Targets, ListOfTables
<1>5. ScanFrom(s.from, joinList) \in Scans
  BY <1>1, ScanFromIs
<1> QED
  BY <1>1, <1>3, <1>4, <1>5 DEF joinList

\* The values of the targets on a row, unless one ends the process.
LEMMA RowValuesAre ==
    ASSUME TablesOK(tables), NEW s, NEW joinList, ListOfTables(joinList), Targets(s.targets, joinList),
           NEW def, OfTables(def), NEW row, IsTupleOf(row, def),
           \A i \in DOMAIN s.targets : ~IsDeath(EvalExpr(s.targets[i], row, def, joinList))
    PROVE  /\ Cells(RowValues(s, row, def, joinList), s.targets)
           /\ \A i \in DOMAIN s.targets :
                 RowValues(s, row, def, joinList)[i].type \in {CheckType(s.targets[i], joinList), "null"}
<1>1. joinList \in Seq(Defs) /\ Reads(row, def, joinList)
  BY JoinReads DEF ListOfTables
<1>2. ASSUME NEW i \in DOMAIN s.targets
      PROVE  /\ EvalExpr(s.targets[i], row, def, joinList) \in Data
             /\ EvalExpr(s.targets[i], row, def, joinList).type \in {CheckType(s.targets[i], joinList), "null"}
  <2>1. s.targets[i] \in Exprs /\ CheckType(s.targets[i], joinList) \notin {"panic", "unknown"}
    BY DEF Targets
  <2>2. Typed(EvalExpr(s.targets[i], row, def, joinList), CheckType(s.targets[i], joinList))
    BY <1>1, <2>1, EvalTyped
  <2> QED
    BY <2>2, TypedAlive
<1>3. \A i \in DOMAIN s.targets :
         RowValues(s, row, def, joinList)[i] = EvalExpr(s.targets[i], row, def, joinList)
  BY DEF RowValues
<1>4. RowValues(s, row, def, joinList) \in [DOMAIN s.targets -> Data]
  BY <1>2 DEF RowValues
<1> QED
  BY <1>2, <1>3, <1>4 DEF Cells

\* A SELECT that ends well prints the values of its targets.
LEMMA SelectRun ==
    ASSUME TablesOK(tables), NEW s \in Selects, AnalyzeSelectStmt(s) = "ok", ~ExecSelect(s).died
    PROVE  TypedOutput(s, ExecSelect(s).printed) /\ EvaluatedOutput(s, ExecSelect(s).printed)
<1> DEFINE joinList == AnalyzeJoinList(s.from, <<>>).list
           output == OutputDef(s.targets, joinList)
           scan == ScanFrom(s.from, joinList)
           tests == Tests(s.where, scan.rows, scan.def, joinList)
           kept == Where(scan.rows, tests, "yes")
           rows == ExecSelect(s).printed
           val(row) == RowValues(s, row, scan.def, joinList)
<1>1. ListOfTables(joinList) /\ Targets(s.targets, joinList) /\ scan \in Scans
  BY SelectFrom
<1>2. /\ rows = {PrintedRow(Project(val(kept[k]), output), output) : k \in DOMAIN kept}
      /\ \A k \in DOMAIN kept : \A i \in DOMAIN s.targets :
            ~IsDeath(EvalExpr(s.targets[i], kept[k], scan.def, joinList))
  <2> DEFINE values == [k \in DOMAIN kept |-> [i \in DOMAIN s.targets |->
                           EvalExpr(s.targets[i], kept[k], scan.def, joinList)]]
             dies == \E k \in DOMAIN values : \E i \in DOMAIN s.targets : IsDeath(values[k][i])
             printedRows == {PrintedRow(Project(values[k], output), output) : k \in DOMAIN kept}
  <2>1. ~dies /\ rows = printedRows
    <3> HIDE DEF output, dies, printedRows
    <3> QED
      BY DEF ExecSelect, ResultOf, output, dies, printedRows
  <2>2. \A k \in DOMAIN kept : values[k] = val(kept[k])
    BY DEF RowValues
  <2>3. \A k \in DOMAIN kept : \A i \in DOMAIN s.targets :
           values[k][i] = EvalExpr(s.targets[i], kept[k], scan.def, joinList)
    OBVIOUS
  <2>4. DOMAIN values = DOMAIN kept
    OBVIOUS
  <2> HIDE DEF values, kept, scan, joinList, output, rows, val
  <2>5. printedRows = {PrintedRow(Project(val(kept[k]), output), output) : k \in DOMAIN kept}
    BY <2>2
  <2> QED
    BY <2>1, <2>3, <2>4, <2>5
<1> HIDE DEF output, tests, rows
<1>3. /\ OfTables(scan.def) /\ RowsOf(scan.rows, scan.def) /\ scan.rows \in Seq(Seq(Data))
      /\ DOMAIN scan.rows = 1 .. Len(scan.rows)
  BY <1>1 DEF Scans
<1>4. RowsOf(kept, scan.def)
  <2> HIDE DEF scan
  <2> QED
    BY <1>3, WhereRows
<1>5. ASSUME NEW row
      PROVE  row \in KeptRows(s, scan, joinList) <=> \E k \in DOMAIN kept : kept[k] = row
  <2>1. \A i \in DOMAIN scan.rows : tests[i] = Test(s.where, scan.rows[i], scan.def, joinList)
    BY DEF Tests, tests
  <2> HIDE DEF scan, joinList
  <2>2. PICK at : Picks(at, Len(scan.rows), tests, "yes") /\ Picked(kept, scan.rows, at)
    <3> DEFINE S == Seq(Data)
    <3>1. scan.rows \in Seq(S)
      BY <1>3
    <3> HIDE DEF S
    <3> QED
      BY <3>1, WhereIs
  <2>3. at \in Seq(1 .. Len(scan.rows)) /\ Len(at) \in Nat
        /\ \A k \in 1 .. Len(at) : at[k] \in 1 .. Len(scan.rows)
    BY <2>2 DEF Picks
  <2>4. DOMAIN kept = 1 .. Len(at)
    BY <1>4, <2>2 DEF RowsOf, Picked
  <2> HIDE DEF kept
  <2>5. \A k \in 1 .. Len(at) : kept[k] = scan.rows[at[k]] /\ tests[at[k]] = "yes"
    BY <2>2 DEF Picks, Picked
  <2>6. ASSUME NEW k \in DOMAIN kept PROVE kept[k] \in KeptRows(s, scan, joinList)
    <3>1. at[k] \in DOMAIN scan.rows /\ kept[k] = scan.rows[at[k]] /\ tests[at[k]] = "yes"
      BY <1>3, <2>3, <2>4, <2>5
    <3>2. Test(s.where, kept[k], scan.def, joinList) = "yes"
      BY <2>1, <3>1
    <3>3. kept[k] \in ToSet(scan.rows)
      BY <3>1 DEF ToSet
    <3> QED
      BY <3>2, <3>3 DEF KeptRows
  <2>7. ASSUME row \in KeptRows(s, scan, joinList) PROVE \E k \in DOMAIN kept : kept[k] = row
    <3>1. PICK i \in DOMAIN scan.rows : scan.rows[i] = row /\ Test(s.where, row, scan.def, joinList) = "yes"
      BY <2>7 DEF KeptRows, ToSet
    <3>2. tests[i] = "yes"
      BY <2>1, <3>1
    <3>3. PICK k \in 1 .. Len(at) : at[k] = i
      BY <1>3, <2>2, <3>2 DEF Picks
    <3> QED
      BY <2>4, <2>5, <3>1, <3>3
  <2> QED
    BY <2>6, <2>7
<1> HIDE DEF scan, kept
<1>6. ASSUME NEW k \in DOMAIN kept
      PROVE  /\ PrintedRow(Project(val(kept[k]), output), output) = val(kept[k])
             /\ \A i \in DOMAIN val(kept[k]) :
                   /\ val(kept[k])[i] \in Data
                   /\ val(kept[k])[i].type \in {CheckType(s.targets[i], joinList), "null"}
  <2>1. IsTupleOf(kept[k], scan.def)
    BY <1>4 DEF RowsOf
  <2> HIDE DEF joinList
  <2>2. /\ Cells(val(kept[k]), s.targets)
        /\ \A i \in DOMAIN s.targets :
              val(kept[k])[i].type \in {CheckType(s.targets[i], joinList), "null"}
    BY <1>1, <1>2, <1>3, <2>1, RowValuesAre
  <2> HIDE DEF val
  <2>3. PrintedRow(Project(val(kept[k]), output), output) = val(kept[k])
    BY <1>1, <2>2, PrintedRowIs DEF output
  <2>4. val(kept[k]) \in [DOMAIN s.targets -> Data]
    BY <2>2 DEF Cells
  <2> QED
    BY <2>2, <2>3, <2>4
<1> HIDE DEF joinList, val
<1>7. rows = {val(kept[k]) : k \in DOMAIN kept}
  BY <1>2, <1>6
<1>8. \A row \in rows : \A i \in DOMAIN row :
         row[i] \in Data /\ row[i].type \in {CheckType(s.targets[i], joinList), "null"}
  BY <1>6, <1>7
<1>9. rows = {val(row) : row \in KeptRows(s, scan, joinList)}
  BY <1>5, <1>7
<1>10. TypedOutput(s, rows)
  BY <1>8 DEF TypedOutput, joinList
<1>11. EvaluatedOutput(s, rows)
  BY <1>9 DEF EvaluatedOutput, joinList, scan, val
<1> QED
  BY <1>10, <1>11 DEF rows

\* What is to be printed depends on nothing but the statement and the tables.
LEMMA OutputKept ==
    ASSUME NEW s, NEW rows, tables' = tables, stmt' = s, printed' = rows
    PROVE  /\ TypedOutput(s, rows) => TypedOutput(stmt, printed)'
           /\ EvaluatedOutput(s, rows) => EvaluatedOutput(stmt, printed)'
<1>1. AnalyzeJoinList(s.from, <<>>)' = AnalyzeJoinList(s.from, <<>>)
  BY DEF AnalyzeJoinList, AnalyzeTable, FindTableDef, TablesNamed
<1>2. ScanFrom(s.from, AnalyzeJoinList(s.from, <<>>).list)'
          = ScanFrom(s.from, AnalyzeJoinList(s.from, <<>>).list)
  <2>1. PICK from, list : from = s.from /\ list = AnalyzeJoinList(s.from, <<>>).list
    OBVIOUS
  <2>2. ScanFrom(from, list)' = ScanFrom(from, list)
    BY DEF ScanFrom, SeqScan, FindTableDef, TablesNamed
  <2>3. ScanFrom(s.from, AnalyzeJoinList(s.from, <<>>).list)' = ScanFrom(from, list)'
    BY <1>1, <2>1
  <2>4. ScanFrom(s.from, AnalyzeJoinList(s.from, <<>>).list) = ScanFrom(from, list)
    BY <2>1
  <2> QED
    BY <2>2, <2>3, <2>4
<1>3. TypedOutput(s, rows)' = TypedOutput(s, rows)
  BY <1>1 DEF TypedOutput
<1>4. EvaluatedOutput(s, rows)' = EvaluatedOutput(s, rows)
  BY <1>1, <1>2 DEF EvaluatedOutput
<1>5. TypedOutput(stmt, printed)' = TypedOutput(s, rows)'
  BY DEF TypedOutput
<1>6. EvaluatedOutput(stmt, printed)' = EvaluatedOutput(s, rows)'
  BY DEF EvaluatedOutput
<1> QED
  BY <1>3, <1>4, <1>5, <1>6

OutputOK ==
    status = "done" /\ stmt.kind = "select" =>
        TypedOutput(stmt, printed) /\ EvaluatedOutput(stmt, printed)

LEMMA OutputStep ==
    ASSUME Inv, OutputOK, [Next]_vars
    PROVE  OutputOK'
<1> SUFFICES ASSUME status' = "done", stmt'.kind = "select"
             PROVE  TypedOutput(stmt, printed)' /\ EvaluatedOutput(stmt, printed)'
  BY DEF OutputOK
<1>1. TablesOK(tables) /\ tables \in Tables
  BY InvTables DEF Inv
<1>2. CASE UNCHANGED vars
  <2>1. tables' = tables /\ stmt' = stmt /\ printed' = printed /\ status' = status
    BY <1>2 DEF vars
  <2>2. TypedOutput(stmt, printed) /\ EvaluatedOutput(stmt, printed)
    BY <2>1 DEF OutputOK
  <2>3. PICK s, rows : s = stmt /\ rows = printed
    OBVIOUS
  <2> QED
    BY <2>1, <2>2, <2>3, OutputKept
<1>3. CASE Next
  <2>1. ~Prompt /\ ~Restart
    BY DEF Prompt, Restart, Answer
  <2>2. ~Insert /\ ~Update /\ ~Delete
    BY StatementShapes DEF Insert, Update, Delete, Modify, NotRun, Answer
  <2>3. ~CreateTable
    BY StatementShapes DEF CreateTable, NotRun, Answer
  <2>4. Select
    BY <1>3, <2>1, <2>2, <2>3 DEF Next
  <2>5. PICK s \in Selects :
           \/ NotRun(s, AnalyzeSelectStmt(s))
           \/ /\ AnalyzeSelectStmt(s) = "ok"
              /\ Answer(s, IF ExecSelect(s).died THEN "died" ELSE "done", ExecSelect(s).printed)
              /\ UNCHANGED tables
    BY <2>4 DEF Select
  <2>6. AnalyzeSelectStmt(s) \in Verdicts
    BY <1>1, SelectVerdict
  <2>7. /\ AnalyzeSelectStmt(s) = "ok" /\ ~ExecSelect(s).died
        /\ stmt' = s /\ printed' = ExecSelect(s).printed /\ tables' = tables
    BY <2>5, <2>6 DEF NotRun, Answer, Verdicts
  <2>8. PICK rows : rows = ExecSelect(s).printed
    OBVIOUS
  <2>9. TypedOutput(s, rows) /\ EvaluatedOutput(s, rows)
    BY <1>1, <2>7, <2>8, SelectRun
  <2> QED
    BY <2>7, <2>8, <2>9, OutputKept
<1> QED
  BY <1>2, <1>3

\* Every printed value is NULL or of the type that the analyzer gave to its column,
\* through joins, expressions and the names by which cells travel.
THEOREM PrintedTypes ==
    ASSUME OneTypeAName
    PROVE  Spec => []PrintedTyped
<1>1. Init => Inv /\ OutputOK
  BY InitInv DEF Init, OutputOK
<1>2. Inv /\ OutputOK /\ [Next]_vars => (Inv /\ OutputOK)'
  BY InvStep, OutputStep
<1>3. OutputOK => PrintedTyped
  BY DEF OutputOK, PrintedTyped, TypedOutput
<1> QED
  BY <1>1, <1>2, <1>3, PTL DEF Spec

\* A SELECT that ends well prints its own targets, evaluated on the rows that its FROM
\* and WHERE clauses select, and nothing else.
THEOREM PrintedEvaluated ==
    ASSUME OneTypeAName
    PROVE  Spec => []PrintedIsEvaluated
<1>1. Init => Inv /\ OutputOK
  BY InitInv DEF Init, OutputOK
<1>2. Inv /\ OutputOK /\ [Next]_vars => (Inv /\ OutputOK)'
  BY InvStep, OutputStep
<1>3. OutputOK => PrintedIsEvaluated
  BY DEF OutputOK, PrintedIsEvaluated, EvaluatedOutput, KeptRows, RowValues
<1> QED
  BY <1>1, <1>2, <1>3, PTL DEF Spec

-----------------------------------------------------------------------------
\* Statements with strict types.  A join list knows a definition if it has its names.
Knows(joinList, def) == \A name : GetColIdx(def, name) # 0 => ColType(name, joinList) # "unknown"

\* One definition as a join list.
LEMMA OneDef ==
    ASSUME NEW def \in Defs, NEW name
    PROVE  /\ <<def>> \in Seq(Defs)
           /\ ColType(name, <<def>>) # "unknown" <=> GetColIdx(def, name) # 0
           /\ GetColIdx(def, name) # 0 => ColType(name, <<def>>) = def[GetColIdx(def, name)].type
<1>1. <<def>> \in Seq(Defs) /\ DOMAIN <<def>> = {1} /\ <<def>>[1] = def
  OBVIOUS
<1>2. ColType(name, <<def>>) = "unknown" <=> GetColIdx(def, name) = 0
  BY <1>1, ColTypeIs
<1>3. ColType(name, <<def>>) # "unknown" => ColType(name, <<def>>) = def[GetColIdx(def, name)].type
  BY <1>1, ColTypeIs
<1> QED
  BY <1>1, <1>2, <1>3

LEMMA KnowsAgrees ==
    ASSUME TablesOK(tables), NEW def, OfTables(def), NEW joinList, ListOfTables(joinList),
           Knows(joinList, def)
    PROVE  Agrees(def, joinList)
<1>1. def \in Defs /\ joinList \in Seq(Defs)
  BY DEF OfTables, ListOfTables
<1> SUFFICES ASSUME NEW name \in STRING, ColType(name, <<def>>) # "unknown"
             PROVE  ColType(name, joinList) = ColType(name, <<def>>)
  BY DEF Agrees
<1> DEFINE i == GetColIdx(def, name)
<1>2. i # 0 /\ ColType(name, <<def>>) = def[i].type
  BY <1>1, OneDef
<1>3. i \in DOMAIN def /\ def[i].name = name
  BY <1>1, <1>2, GetColIdxIs DEF Defs
<1>4. ColType(name, joinList) # "unknown"
  BY <1>2 DEF Knows
<1>5. PICK d \in DOMAIN joinList :
         /\ GetColIdx(joinList[d], name) # 0
         /\ ColType(name, joinList) = joinList[d][GetColIdx(joinList[d], name)].type
  BY <1>1, <1>4, ColTypeIs
<1>6. joinList[d] \in Defs /\ OfTables(joinList[d])
  BY <1>1, ElementOfSeq DEF ListOfTables
<1>7. /\ GetColIdx(joinList[d], name) \in DOMAIN joinList[d]
      /\ joinList[d][GetColIdx(joinList[d], name)].name = name
  BY <1>5, <1>6, GetColIdxIs DEF Defs
<1>8. SameTypes(joinList[d], def)
  BY <1>6, OfTablesSame
<1> HIDE DEF i
<1> QED
  BY <1>2, <1>3, <1>5, <1>7, <1>8 DEF SameTypes

\* The join list of a clause knows its definition.
LEMMA ListKnows ==
    ASSUME NEW joinList, ListOfTables(joinList), NEW d \in DOMAIN joinList
    PROVE  Knows(joinList, joinList[d])
BY ColTypeIs DEF Knows, ListOfTables

LEMMA KnowsParts ==
    ASSUME NEW joinList, NEW def1 \in Defs, NEW def2 \in Defs, Knows(joinList, def1 \o def2)
    PROVE  Knows(joinList, def1) /\ Knows(joinList, def2)
<1> DEFINE C == [name : STRING, type : ColTypes]
           def == def1 \o def2
<1>1. def1 \in Seq(C) /\ def2 \in Seq(C)
  BY DEF Defs
<1> HIDE DEF C
<1>2. def \in Seq(C)
  BY <1>1
<1>3. ASSUME NEW name, GetColIdx(def1, name) # 0 PROVE GetColIdx(def, name) # 0
  <2>1. PICK i \in DOMAIN def1 : def1[i].name = name
    BY <1>1, <1>3, GetColIdxIs
  <2>2. i \in DOMAIN def /\ def[i] = def1[i]
    BY <1>1
  <2> HIDE DEF def
  <2> QED
    BY <1>2, <2>1, <2>2, GetColIdxIs
<1>4. ASSUME NEW name, GetColIdx(def2, name) # 0 PROVE GetColIdx(def, name) # 0
  <2>1. PICK i \in DOMAIN def2 : def2[i].name = name
    BY <1>1, <1>4, GetColIdxIs
  <2>2. Len(def1) + i \in DOMAIN def /\ def[Len(def1) + i] = def2[i]
    BY <1>1
  <2> HIDE DEF def
  <2> QED
    BY <1>2, <2>1, <2>2, GetColIdxIs
<1> HIDE DEF def
<1> QED
  BY <1>3, <1>4 DEF Knows, def

\* A row in which no name of its definition is NULL.
NoNulls(row, def) ==
    \A name : GetColIdx(def, name) # 0 => GetCol(row, name, def) \in Data \ {Null}

LEMMA StrictRowReads ==
    ASSUME NEW def \in Defs, NEW row, IsTupleOf(row, def), NoNulls(row, def)
    PROVE  StrictReads(row, def, def)
<1> SUFFICES ASSUME NEW name \in STRING
             PROVE  /\ GetCol(row, name, def) \in Data \cup Deaths
                    /\ ColType(name, <<def>>) # "unknown" =>
                          /\ GetCol(row, name, def) \in Data
                          /\ GetCol(row, name, def).type = ColType(name, <<def>>)
  BY DEF StrictReads
<1> DEFINE i == GetColIdx(def, name)
<1>1. CASE i = 0
  <2>1. GetCol(row, name, def) = Death("GetCol")
    BY <1>1 DEF GetCol
  <2> QED
    BY <1>1, <2>1, OneDef DEF Deaths
<1>2. CASE i # 0
  <2>1. GetCol(row, name, def) \in Data \ {Null}
    BY <1>2 DEF NoNulls
  <2>2. i \in DOMAIN def /\ ColType(name, <<def>>) = def[i].type
    BY <1>2, OneDef, GetColIdxIs DEF Defs
  <2>3. row # NoTuple
    BY <2>2 DEF IsTupleOf, NoTuple
  <2>4. GetCol(row, name, def) = row[i]
    BY <1>2, <2>3 DEF GetCol
  <2>5. row[i].type \in {def[i].type, "null"}
    BY <2>2 DEF IsTupleOf
  <2>6. row[i].type # "null"
    BY <2>1, <2>4, DataFacts
  <2> QED
    BY <2>1, <2>2, <2>4, <2>5, <2>6
<1> QED
  BY <1>1, <1>2

\* The rows of a table without NULLs.
LEMMA TableNoNulls ==
    ASSUME NEW def \in Defs, NEW row, IsTupleOf(row, def), Null \notin ToSet(row)
    PROVE  NoNulls(row, def)
<1> SUFFICES ASSUME NEW name, GetColIdx(def, name) # 0
             PROVE  GetCol(row, name, def) \in Data \ {Null}
  BY DEF NoNulls
<1> DEFINE i == GetColIdx(def, name)
<1>1. i \in DOMAIN def
  BY GetColIdxIs DEF Defs
<1>2. row \in Seq(Data) /\ i \in DOMAIN row
  BY <1>1 DEF IsTupleOf
<1>3. row # NoTuple
  BY <1>2 DEF NoTuple
<1>4. GetCol(row, name, def) = row[i]
  BY <1>3 DEF GetCol
<1>5. row[i] \in Data
  <2> HIDE DEF i
  <2> QED
    BY <1>2, ElementOfSeq
<1>6. row[i] # Null
  BY <1>2 DEF ToSet
<1> QED
  BY <1>4, <1>5, <1>6

\* A strict condition is accepted and tells yes from no.
LEMMA StrictAccepted ==
    ASSUME TablesOK(tables), NEW def, OfTables(def), NEW joinList, ListOfTables(joinList),
           Knows(joinList, def), NEW cond \in Clauses, StrictCondition(cond, def)
    PROVE  CheckCondition(cond, joinList) = "ok"
<1>1. CASE cond = Absent
  BY <1>1, CheckConditionIs
<1>2. CASE cond # Absent
  <2>1. cond \in Exprs /\ StrictType(cond, def) = "bool"
    BY <1>2 DEF Clauses, StrictCondition
  <2>2. Agrees(def, joinList) /\ def \in Defs /\ joinList \in Seq(Defs)
    BY KnowsAgrees DEF OfTables, ListOfTables
  <2>3. CheckType(cond, joinList) = "bool"
    BY <2>1, <2>2, StrictChecked
  <2> QED
    BY <2>3, CheckConditionIs
<1> QED
  BY <1>1, <1>2

LEMMA StrictTest ==
    ASSUME TablesOK(tables), NEW def, OfTables(def), NEW joinList, ListOfTables(joinList),
           Knows(joinList, def), NEW cond \in Clauses, StrictCondition(cond, def),
           NEW row, IsTupleOf(row, def), NoNulls(row, def)
    PROVE  Test(cond, row, def, joinList) # "died"
<1>1. CASE cond = Absent
  BY <1>1 DEF Test
<1>2. CASE cond # Absent
  <2> DEFINE result == EvalExpr(cond, row, def, joinList)
  <2>1. cond \in Exprs /\ StrictType(cond, def) = "bool"
    BY <1>2 DEF Clauses, StrictCondition
  <2>2. Agrees(def, joinList) /\ def \in Defs /\ joinList \in Seq(Defs)
    BY KnowsAgrees DEF OfTables, ListOfTables
  <2>3. StrictReads(row, def, def)
    BY <2>2, StrictRowReads
  <2>4. result \in Data /\ result.type = "bool"
    BY <2>1, <2>2, <2>3, StrictEval
  <2>5. ~IsDeath(result)
    BY <2>4, DataFacts
  <2> HIDE DEF result
  <2> QED
    BY <2>4, <2>5 DEF Test, Truth, result
<1> QED
  BY <1>1, <1>2

\* A joined tuple has the values of its parts.
LEMMA JoinedNoNulls ==
    ASSUME TablesOK(tables), NEW ldef, OfTables(ldef), NEW rdef, OfTables(rdef),
           NEW l, IsTupleOf(l, ldef), NoNulls(l, ldef), NEW r, IsTupleOf(r, rdef), NoNulls(r, rdef)
    PROVE  NoNulls(JoinedTuple(l, ldef, r, rdef), ldef \o rdef)
<1> DEFINE def == ldef \o rdef
           C == [name : STRING, type : ColTypes]
           A == 1 .. Len(def)
           m == Len(ldef)
           n == Len(rdef)
           half == SetCols(MakeTuple(def), Names(ldef), GetCols(l, ldef), def)
           tuple == SetCols(half, Names(rdef), GetCols(r, rdef), def)
<1>1. /\ ldef \in Seq(C) /\ rdef \in Seq(C) /\ ldef \in Defs /\ rdef \in Defs
      /\ m \in Nat /\ n \in Nat /\ DOMAIN ldef = 1 .. m /\ DOMAIN rdef = 1 .. n
  BY DEF OfTables, Defs
<1>2. OfTables(def)
  BY OfTablesIs
<1>3. def \in Seq(C) /\ DOMAIN def = A /\ Len(def) \in Nat
  BY <1>2 DEF OfTables, Defs
<1>4. \A i \in DOMAIN def : \/ \E j \in 1 .. m : def[i].name = ldef[j].name
                            \/ \E j \in 1 .. n : def[i].name = rdef[j].name
  <2> HIDE DEF C
  <2> SUFFICES ASSUME NEW i \in DOMAIN def
               PROVE  \/ \E j \in 1 .. m : def[i].name = ldef[j].name
                      \/ \E j \in 1 .. n : def[i].name = rdef[j].name
    OBVIOUS
  <2>1. CASE i <= m
    BY <1>1, <2>1
  <2>2. CASE i > m
    <3>1. i - m \in 1 .. n /\ def[i] = rdef[i - m]
      BY <1>1, <2>2
    <3> QED
      BY <3>1
  <2> QED
    BY <1>1, <1>3, <2>1, <2>2
<1>5. JoinedTuple(l, ldef, r, rdef) = tuple
  BY DEF JoinedTuple, JoinedDef
<1> HIDE DEF def, C
<1>6. Fits(m, Names(ldef), GetCols(l, ldef), def) /\ Fits(n, Names(rdef), GetCols(r, rdef), def)
  BY <1>2, ColsFit
<1>7. MakeTuple(def) \in [A -> Data]
  BY <1>3, DataFacts DEF MakeTuple
<1>8. Writable(A, Data, MakeTuple(def), m, Names(ldef), GetCols(l, ldef))
  BY <1>6, <1>7 DEF Writable, Fits
<1>9. /\ half \in [A -> Data]
      /\ \A c \in A : half[c] = Written(MakeTuple(def), Names(ldef), GetCols(l, ldef), def, c, m)
  <2> HIDE DEF A, m
  <2> QED
    BY <1>8, SetColsIs
<1>10. Writable(A, Data, half, n, Names(rdef), GetCols(r, rdef))
  BY <1>6, <1>9 DEF Writable, Fits
<1> HIDE DEF half
<1>11. /\ tuple \in [A -> Data]
       /\ \A c \in A : tuple[c] = Written(half, Names(rdef), GetCols(r, rdef), def, c, n)
  <2> HIDE DEF A, n
  <2> QED
    BY <1>10, SetColsIs
<1> HIDE DEF tuple
<1>12. /\ DOMAIN Names(ldef) = 1 .. m /\ \A j \in 1 .. m : Names(ldef)[j] = ldef[j].name
       /\ DOMAIN Names(rdef) = 1 .. n /\ \A j \in 1 .. n : Names(rdef)[j] = rdef[j].name
  BY <1>1 DEF Names
<1>13. ASSUME NEW part \in Seq(C), NEW j \in DOMAIN part, NEW row, NoNulls(row, part)
       PROVE  GetCols(row, part)[j] # Null
  <2>1. GetColIdx(part, part[j].name) # 0
    BY GetColIdxIs
  <2>2. GetCols(row, part)[j] = GetCol(row, part[j].name, part)
    BY DEF GetCols
  <2> QED
    BY <1>13, <2>1, <2>2 DEF NoNulls
<1> HIDE DEF m, n
<1> SUFFICES ASSUME NEW name, GetColIdx(def, name) # 0
             PROVE  GetCol(tuple, name, def) \in Data \ {Null}
  BY <1>5 DEF NoNulls, def
<1> DEFINE c == GetColIdx(def, name)
           lw == Writes(Names(ldef), def, c, m)
           rw == Writes(Names(rdef), def, c, n)
<1>14. c \in A /\ def[c].name = name
  BY <1>3, GetColIdxIs
<1>15. tuple # NoTuple
  BY <1>11, <1>14 DEF NoTuple
<1>16. GetCol(tuple, name, def) = tuple[c]
  BY <1>15 DEF GetCol
<1>17. tuple[c] \in Data
  <2> HIDE DEF c
  <2> QED
    BY <1>11, <1>14
<1>18. lw \in SUBSET (1 .. m) /\ rw \in SUBSET (1 .. n)
  BY DEF Writes
<1>19. rw # {} \/ lw # {}
  BY <1>3, <1>4, <1>12, <1>14 DEF Writes
<1>20. ASSUME rw # {} PROVE tuple[c] # Null
  <2>1. Max(rw) \in rw
    <3> HIDE DEF rw
    <3> QED
      BY <1>1, <1>18, <1>20, MaxIs
  <2>2. tuple[c] = GetCols(r, rdef)[Max(rw)]
    BY <1>11, <1>14, <1>20 DEF Written
  <2> HIDE DEF rw
  <2> QED
    BY <1>1, <1>13, <1>18, <2>1, <2>2
<1>21. ASSUME rw = {}, lw # {} PROVE tuple[c] # Null
  <2>1. Max(lw) \in lw
    <3> HIDE DEF lw
    <3> QED
      BY <1>1, <1>18, <1>21, MaxIs
  <2>2. tuple[c] = half[c]
    BY <1>11, <1>14, <1>21 DEF Written
  <2>3. half[c] = GetCols(l, ldef)[Max(lw)]
    BY <1>9, <1>14, <1>21 DEF Written
  <2> HIDE DEF lw
  <2> QED
    BY <1>1, <1>13, <1>18, <2>1, <2>2, <2>3
<1> QED
  BY <1>16, <1>17, <1>19, <1>20, <1>21

RowsNoNulls(rows, def) == \A i \in DOMAIN rows : NoNulls(rows[i], def)

LEMMA WhereNoNulls ==
    ASSUME NEW rows, NEW def, RowsOf(rows, def), RowsNoNulls(rows, def), NEW marks, NEW mark
    PROVE  RowsNoNulls(Where(rows, marks, mark), def)
<1> DEFINE S == Seq(Data)
           kept == Where(rows, marks, mark)
<1>1. rows \in Seq(S) /\ DOMAIN rows = 1 .. Len(rows)
  BY DEF RowsOf
<1> HIDE DEF S
<1>2. kept \in Seq(S)
  BY <1>1, WhereIs
<1>3. PICK at : Picks(at, Len(rows), marks, mark) /\ Picked(kept, rows, at)
  BY <1>1, WhereIs
<1> HIDE DEF kept
<1>4. at \in Seq(1 .. Len(rows)) /\ DOMAIN kept = 1 .. Len(at) /\ Len(at) \in Nat
  BY <1>2, <1>3 DEF Picks, Picked
<1>5. ASSUME NEW k \in DOMAIN kept PROVE NoNulls(kept[k], def)
  <2>1. at[k] \in DOMAIN rows /\ kept[k] = rows[at[k]]
    BY <1>1, <1>3, <1>4 DEF Picked
  <2> QED
    BY <2>1 DEF RowsNoNulls
<1> QED
  BY <1>5 DEF RowsNoNulls, kept

\* What StrictFrom asks of a clause of strict clauses.
StrictTable(name) == FindTableDef(name) # 0 /\ HasNoNull(FindTableDef(name))
StrictJoin(f) == f.right.type = "table" /\ StrictCondition(f.on, FromDef(f))

\* StrictFrom is what its recursive definition says.
LEMMA StrictFromIs ==
    \A f \in FromClauses :
        /\ StrictFrom(f) \in BOOLEAN
        /\ f.type = "table" => StrictFrom(f) = StrictTable(f.table)
        /\ f.type = "join" =>
              StrictFrom(f) = (StrictFrom(f.left) /\ StrictFrom(f.right) /\ StrictJoin(f))
<1> DEFINE V == BOOLEAN
           rule(f, g) == IF f.type = "table" THEN StrictTable(f.table)
                         ELSE g[f.left] /\ g[f.right] /\ StrictJoin(f)
           D == [w \in FromClauses \X [FromClauses -> V] |-> rule(w[1], w[2])]
           h == [f \in FromClauses |-> Height[f]]
           Defines(g) == g = [f \in FromClauses |-> rule(f, g)]
           strict == CHOOSE g : Defines(g)
<1>1. \A name : StrictTable(name) \in BOOLEAN
  BY DEF StrictTable
<1>2. \A f : StrictJoin(f) \in BOOLEAN
  BY DEF StrictJoin
<1>3. \A f \in FromClauses : \A g : rule(f, g) \in V
  BY <1>1
<1>4. h \in [FromClauses -> Nat] /\ V # {}
  BY FromShape
<1>5. D \in [FromClauses \X [FromClauses -> V] -> V]
  <2> HIDE DEF rule, V
  <2> QED
    BY <1>3
<1>6. ASSUME NEW f \in FromClauses, NEW g \in [FromClauses -> V], NEW k \in [FromClauses -> V],
             \A d \in FromClauses : h[d] < h[f] => g[d] = k[d]
      PROVE  D[<<f, g>>] = D[<<f, k>>]
  <2>1. rule(f, g) = rule(f, k)
    <3>1. CASE f.type = "table"
      BY <3>1
    <3>2. CASE f.type = "join"
      <4>1. /\ f.left \in FromClauses /\ f.right \in FromClauses
            /\ h[f.left] < h[f] /\ h[f.right] < h[f]
        BY <3>2, FromShape
      <4>2. g[f.left] = k[f.left] /\ g[f.right] = k[f.right]
        BY <1>6, <4>1
      <4> QED
        BY <3>2, <4>2
    <3> QED
      BY <3>1, <3>2, FromShape
  <2> HIDE DEF rule, V
  <2> QED
    BY <2>1
<1>7. \E g : Defines(g) /\ g \in [FromClauses -> V]
  <2>1. Recurses(D, FromClauses, V, h)
    <3> HIDE DEF D, h, V
    <3> QED
      BY <1>4, <1>5, <1>6 DEF Recurses
  <2>2. PICK g : Solves(g, D, FromClauses, V)
    <3> HIDE DEF D, h, V
    <3> QED
      BY <2>1, TreeRecursion
  <2> HIDE DEF rule, V
  <2>3. \A f \in FromClauses : g[f] = rule(f, g)
    BY <2>2 DEF Solves
  <2>4. g = [f \in FromClauses |-> rule(f, g)] /\ g \in [FromClauses -> V]
    BY <2>2, <2>3 DEF Solves
  <2> QED
    BY <2>4
<1>8. Defines(strict)
  <2> HIDE DEF Defines
  <2> QED
    BY <1>7
<1>9. \A f \in FromClauses : strict[f] = rule(f, strict)
  <2> HIDE DEF strict, rule
  <2> QED
    BY <1>8
<1>10. \A f \in FromClauses : StrictFrom(f) = (f # Absent /\ strict[f])
  BY DEF StrictFrom, StrictTable, StrictJoin
<1> HIDE DEF strict
<1>11. \A f \in FromClauses : strict[f] \in BOOLEAN
  BY <1>3, <1>9
<1> HIDE DEF rule
<1>12. \A f \in FromClauses : StrictFrom(f) = strict[f]
  BY <1>10, <1>11, FromShape
<1>13. ASSUME NEW f \in FromClauses, f.type = "table" PROVE StrictFrom(f) = StrictTable(f.table)
  BY <1>9, <1>12, <1>13 DEF rule
<1>14. ASSUME NEW f \in FromClauses, f.type = "join"
       PROVE  StrictFrom(f) = (StrictFrom(f.left) /\ StrictFrom(f.right) /\ StrictJoin(f))
  <2>1. f.left \in FromClauses /\ f.right \in FromClauses
    BY <1>14, FromShape
  <2>2. rule(f, strict) = (strict[f.left] /\ strict[f.right] /\ StrictJoin(f))
    BY <1>14 DEF rule
  <2> QED
    BY <1>9, <1>12, <2>1, <2>2
<1> QED
  BY <1>11, <1>12, <1>13, <1>14

\* A strict FROM clause is accepted.
LEMMA StrictAnalyzed ==
    ASSUME TablesOK(tables)
    PROVE  \A f \in FromClauses : \A joinList :
              ListOfTables(joinList) /\ StrictFrom(f) => AnalyzeJoinList(f, joinList).verdict = "ok"
<1> DEFINE h == [f \in FromClauses |-> Height[f]]
           P == {f \in FromClauses : \A before :
                    ListOfTables(before) /\ StrictFrom(f) => AnalyzeJoinList(f, before).verdict = "ok"}
<1>1. tables \in Tables
  BY InvTables
<1>2. h \in [FromClauses -> Nat]
  BY FromShape
<1>3. ASSUME NEW f \in FromClauses, \A d \in FromClauses : h[d] < h[f] => d \in P
      PROVE  f \in P
  <2> SUFFICES ASSUME NEW before, ListOfTables(before), StrictFrom(f)
               PROVE  AnalyzeJoinList(f, before).verdict = "ok"
    OBVIOUS
  <2>1. before \in Seq(Defs)
    BY DEF ListOfTables
  <2>2. CASE f.type = "table"
    <3>1. AnalyzeJoinList(f, before) = AnalyzeTable(f.table, before)
      BY <1>1, <2>1, <2>2, AnalyzeJoinListIs
    <3>2. FindTableDef(f.table) # 0
      BY <2>2, StrictFromIs DEF StrictTable
    <3> QED
      BY <3>1, <3>2 DEF AnalyzeTable
  <2>3. CASE f.type = "join"
    <3> DEFINE left == AnalyzeJoinList(f.left, before)
               right == AnalyzeJoinList(f.right, left.list)
               result == AnalyzeJoinList(f, before)
               list == Append(right.list, FromDef(f))
    <3>1. /\ f.left \in P /\ f.right \in P /\ f.left \in FromClauses /\ f.right \in FromClauses
          /\ f.on \in Clauses
      BY <1>3, <2>3, FromShape
    <3>2. StrictFrom(f.left) /\ StrictFrom(f.right) /\ StrictCondition(f.on, FromDef(f))
      BY <2>3, StrictFromIs DEF StrictJoin
    <3>3. left.verdict = "ok" /\ ListOfTables(left.list) /\ Last(left.list) = FromDef(f.left)
      BY <3>1, <3>2, AnalyzedFrom
    <3>4. right.verdict = "ok" /\ ListOfTables(right.list) /\ Last(right.list) = FromDef(f.right)
      BY <3>1, <3>2, <3>3, AnalyzedFrom
    <3>5. result = AnalyzeJoin(left, right, f.on)
      BY <1>1, <2>1, <2>3, AnalyzeJoinListIs
    <3>6. FromDef(f) = FromDef(f.left) \o FromDef(f.right) /\ OfTables(FromDef(f))
      BY <2>3, FromDefIs
    <3> HIDE DEF left, right, result
    <3>7. result = [list |-> list, verdict |-> CheckCondition(f.on, list)]
      BY <3>3, <3>4, <3>5, <3>6 DEF AnalyzeJoin, JoinedDef
    <3>8. ListOfTables(list)
      <4>1. ListOfTables(result.list)
        BY <1>1, <2>3, AnalyzedFrom DEF result
      <4> QED
        BY <3>7, <4>1
    <3>9. Len(list) \in DOMAIN list /\ list[Len(list)] = FromDef(f)
      <4>1. right.list \in Seq(Defs) /\ FromDef(f) \in Defs
        BY <3>4, <3>6 DEF ListOfTables, OfTables
      <4> HIDE DEF Defs
      <4> QED
        BY <4>1
    <3> HIDE DEF list
    <3>10. Knows(list, FromDef(f))
      BY <3>8, <3>9, ListKnows
    <3>11. CheckCondition(f.on, list) = "ok"
      BY <3>1, <3>2, <3>6, <3>8, <3>10, StrictAccepted
    <3> QED
      BY <3>7, <3>11 DEF result
  <2> QED
    BY <2>2, <2>3, FromShape
<1>4. FromClauses \subseteq P
  <2> HIDE DEF P, h
  <2> QED
    BY <1>2, <1>3, TreeInduction
<1> QED
  BY <1>4

\* A strict FROM clause is scanned to its end, and its rows have no NULLs.
Completes(s) == ~s.diesBy[1] /\ RowsNoNulls(s.rows, s.def)

LEMMA StrictScan ==
    ASSUME TablesOK(tables), NEW joinList, ListOfTables(joinList)
    PROVE  \A f \in FromClauses :
              StrictFrom(f) /\ Knows(joinList, FromDef(f)) => Completes(ScanFrom(f, joinList))
<1> DEFINE h == [f \in FromClauses |-> Height[f]]
           P == {f \in FromClauses :
                    StrictFrom(f) /\ Knows(joinList, FromDef(f)) => Completes(ScanFrom(f, joinList))}
<1>1. h \in [FromClauses -> Nat]
  BY FromShape
<1>2. ASSUME NEW f \in FromClauses, \A d \in FromClauses : h[d] < h[f] => d \in P
      PROVE  f \in P
  <2> SUFFICES ASSUME StrictFrom(f), Knows(joinList, FromDef(f))
               PROVE  Completes(ScanFrom(f, joinList))
    OBVIOUS
  <2>1. CASE f.type = "table"
    <3> DEFINE t == FindTableDef(f.table)
    <3>1. t # 0 /\ HasNoNull(t)
      BY <2>1, StrictFromIs DEF StrictTable
    <3>2. ScanFrom(f, joinList) = SeqScan(f.table)
      BY <2>1, ScanFromIs
    <3>3. t \in DOMAIN tables
      BY <3>1, InvTables, FindTableIs
    <3> HIDE DEF t
    <3>4. tables[t].cols \in Defs /\ RowsOf(tables[t].rows, tables[t].cols)
      BY <3>3, InvTables, TableIs DEF TablesOK
    <3>5. ASSUME NEW i \in DOMAIN tables[t].rows PROVE NoNulls(tables[t].rows[i], tables[t].cols)
      <4>1. IsTupleOf(tables[t].rows[i], tables[t].cols)
        BY <3>4 DEF RowsOf
      <4>2. Null \notin ToSet(tables[t].rows[i])
        BY <3>1 DEF HasNoNull, ToSet
      <4> QED
        BY <3>4, <4>1, <4>2, TableNoNulls
    <3>6. SeqScan(f.table) = [def |-> tables[t].cols, rows |-> tables[t].rows,
                              diesBy |-> [n \in Nat |-> FALSE]]
      BY <3>1 DEF SeqScan, t
    <3> QED
      BY <3>2, <3>5, <3>6 DEF Completes, RowsNoNulls
  <2>2. CASE f.type = "join"
    <3> DEFINE l == ScanFrom(f.left, joinList)
               r == ScanFrom(f.right, joinList)
               s == ScanFrom(f, joinList)
               def == l.def \o r.def
               tests == Tests(f.on, JoinedRows(l, r), def, joinList)
    <3>1. /\ f.left \in P /\ f.right \in P /\ f.left \in FromClauses /\ f.right \in FromClauses
          /\ f.on \in Clauses
      BY <1>2, <2>2, FromShape
    <3>2. /\ StrictFrom(f.left) /\ StrictFrom(f.right) /\ f.right.type = "table"
          /\ StrictCondition(f.on, FromDef(f))
      BY <2>2, StrictFromIs DEF StrictJoin
    <3>3. /\ FromDef(f) = FromDef(f.left) \o FromDef(f.right)
          /\ OfTables(FromDef(f)) /\ OfTables(FromDef(f.left)) /\ OfTables(FromDef(f.right))
      BY <2>2, <3>1, FromDefIs
    <3>4. Knows(joinList, FromDef(f.left)) /\ Knows(joinList, FromDef(f.right))
      BY <3>3, KnowsParts DEF OfTables
    <3>5. Completes(l) /\ Completes(r) /\ l \in Scans /\ r \in Scans
      BY <3>1, <3>2, <3>4, ScanFromIs
    <3>6. r.diesBy = [n \in Nat |-> FALSE]
      <4>1. r = SeqScan(f.right.table)
        BY <3>1, <3>2, ScanFromIs
      <4> HIDE DEF r
      <4> QED
        BY <4>1 DEF SeqScan
    <3>7. l.def = FromDef(f.left) /\ r.def = FromDef(f.right)
      BY <3>1, ScanDef
    <3>8. s = NestedLoopScan(l, r, f.on, joinList)
      BY <2>2, ScanFromIs
    <3> HIDE DEF l, r, s
    <3>9. RowsOf(JoinedRows(l, r), def)
      BY <3>5, JoinedRowsAre
    <3>10. ASSUME NEW k \in DOMAIN JoinedRows(l, r) PROVE NoNulls(JoinedRows(l, r)[k], def)
      <4>1. PICK i \in DOMAIN l.rows, j \in DOMAIN r.rows :
               JoinedRows(l, r)[k] = JoinedTuple(l.rows[i], l.def, r.rows[j], r.def)
        BY <3>5, JoinedRowsAre
      <4>2. IsTupleOf(l.rows[i], l.def) /\ IsTupleOf(r.rows[j], r.def)
        BY <3>5 DEF Scans, RowsOf
      <4>3. NoNulls(l.rows[i], l.def) /\ NoNulls(r.rows[j], r.def)
        BY <3>5 DEF Completes, RowsNoNulls
      <4>4. OfTables(l.def) /\ OfTables(r.def)
        BY <3>3, <3>7
      <4> QED
        BY <4>1, <4>2, <4>3, <4>4, JoinedNoNulls
    <3>11. def = FromDef(f) /\ OfTables(def)
      BY <3>3, <3>7
    <3> HIDE DEF def
    <3>12. ASSUME NEW k \in DOMAIN JoinedRows(l, r)
           PROVE  Test(f.on, JoinedRows(l, r)[k], def, joinList) # "died"
      <4>1. IsTupleOf(JoinedRows(l, r)[k], def)
        BY <3>9 DEF RowsOf
      <4> QED
        BY <3>1, <3>2, <3>10, <3>11, <4>1, StrictTest
    <3>13. "died" \notin ToSet(tests)
      BY <3>12 DEF Tests, ToSet
    <3>14. /\ s.diesBy[1] => \/ l.diesBy[1] \/ r.diesBy[Len(l.rows)] \/ "died" \in ToSet(tests)
           /\ s.rows = Where(JoinedRows(l, r), tests, "yes") /\ s.def = def
      <4>1. Len(l.rows) \in Nat /\ 1 * (Len(l.rows) + 1) - 1 = Len(l.rows)
        BY <3>5 DEF Scans
      <4> DEFINE dies(n) == n > 0 /\ (\/ l.diesBy[n] \/ r.diesBy[n * (Len(l.rows) + 1) - 1]
                                      \/ n > 1 /\ r.rows # <<>>
                                      \/ "died" \in ToSet(tests))
      <4>2. /\ s.rows = Where(JoinedRows(l, r), tests, "yes") /\ s.def = def
            /\ s.diesBy = [n \in Nat |-> dies(n)]
        BY <3>8 DEF NestedLoopScan, JoinedRows, JoinedDef, def
      <4>3. s.diesBy[1] = dies(1) /\ ~(1 > 1)
        BY <4>2
      <4>4. s.diesBy[1] => \/ l.diesBy[1] \/ r.diesBy[1 * (Len(l.rows) + 1) - 1]
                          \/ "died" \in ToSet(tests)
        BY <4>3, Zenon
      <4> HIDE DEF tests, dies
      <4> QED
        BY <4>1, <4>2, <4>4, Zenon
    <3> HIDE DEF tests
    <3>15. RowsNoNulls(JoinedRows(l, r), def)
      BY <3>10 DEF RowsNoNulls
    <3>16. RowsNoNulls(s.rows, s.def)
      BY <3>9, <3>14, <3>15, WhereNoNulls
    <3>17. ~s.diesBy[1]
      <4>1. Len(l.rows) \in Nat
        BY <3>5 DEF Scans
      <4> QED
        BY <3>5, <3>6, <3>13, <3>14, <4>1 DEF Completes
    <3> QED
      BY <3>16, <3>17 DEF Completes, s
  <2> QED
    BY <2>1, <2>2, FromShape
<1>3. FromClauses \subseteq P
  <2> HIDE DEF P, h
  <2> QED
    BY <1>1, <1>2, TreeInduction
<1> QED
  BY <1>3

\* A strict SELECT is accepted, and what the analyzer knows is what the executor needs.
StrictTargets(s, def) == \A i \in DOMAIN s.targets : StrictType(s.targets[i], def) # "unknown"
StrictSort(sort, def) == sort # Absent => sort.type = "id" /\ StrictType(sort, def) # "unknown"

LEMMA StrictSelectFrom ==
    ASSUME TablesOK(tables), NEW s \in Selects, StrictFrom(s.from)
    PROVE  LET from     == AnalyzeJoinList(s.from, <<>>)
               joinList == from.list
           IN  /\ s.from \in FromClauses /\ from.verdict = "ok" /\ ListOfTables(joinList)
               /\ OfTables(FromDef(s.from)) /\ Knows(joinList, FromDef(s.from))
<1> DEFINE from == AnalyzeJoinList(s.from, <<>>)
           joinList == from.list
<1>1. s.from \in FromClauses
  BY StatementShapes DEF StrictFrom
<1>2. ListOfTables(<<>>)
  BY DEF ListOfTables
<1>3. from.verdict = "ok"
  BY <1>1, <1>2, StrictAnalyzed
<1>4. ListOfTables(joinList) /\ joinList # <<>> /\ Last(joinList) = FromDef(s.from)
  BY <1>1, <1>2, <1>3, AnalyzedFrom
<1>5. OfTables(FromDef(s.from))
  BY <1>1, FromDefIs
<1> HIDE DEF from
<1>6. Len(joinList) \in DOMAIN joinList /\ joinList[Len(joinList)] = FromDef(s.from)
  <2>1. joinList \in Seq(Defs)
    BY <1>4 DEF ListOfTables
  <2> HIDE DEF joinList
  <2>2. Len(joinList) # 0
    BY <1>4, <2>1
  <2> QED
    BY <1>4, <2>1, <2>2 DEF Last
<1>7. Knows(joinList, FromDef(s.from))
  BY <1>4, <1>6, ListKnows
<1> QED
  BY <1>1, <1>3, <1>4, <1>5, <1>7 DEF from

LEMMA StrictSelectAccepted ==
    ASSUME TablesOK(tables), NEW s \in Selects, StrictFrom(s.from),
           StrictTargets(s, FromDef(s.from)), StrictCondition(s.where, FromDef(s.from)),
           StrictSort(s.sort, FromDef(s.from))
    PROVE  AnalyzeSelectStmt(s) = "ok"
<1> DEFINE from == AnalyzeJoinList(s.from, <<>>)
           joinList == from.list
           def == FromDef(s.from)
<1>1. /\ s.from # Absent /\ from.verdict = "ok" /\ ListOfTables(joinList)
      /\ OfTables(def) /\ Knows(joinList, def)
  BY StrictSelectFrom DEF StrictFrom
<1> HIDE DEF from, def
<1>2. Agrees(def, joinList) /\ def \in Defs /\ joinList \in Seq(Defs)
  BY <1>1, KnowsAgrees DEF OfTables, ListOfTables
<1>3. /\ s.targets \in Seq(Exprs) /\ DOMAIN s.targets = 1 .. Len(s.targets) /\ Len(s.targets) \in Nat
      /\ s.where \in Clauses /\ s.sort \in Clauses
  BY StatementShapes
<1>4. CheckTargets(s.targets, joinList) = "ok"
  <2> DEFINE verdicts == [i \in DOMAIN s.targets |->
                            Verdict(CheckType(s.targets[i], joinList), BTypes \ {"unknown"})]
  <2>1. ASSUME NEW i \in 1 .. Len(s.targets) PROVE verdicts[i] = "ok"
    <3>1. s.targets[i] \in Exprs /\ StrictType(s.targets[i], def) # "unknown"
      BY <1>3 DEF StrictTargets, def
    <3>2. CheckType(s.targets[i], joinList) = StrictType(s.targets[i], def)
      BY <1>2, <3>1, StrictChecked
    <3>3. CheckType(s.targets[i], joinList) \in BTypes \ {"unknown"} /\ "panic" \notin BTypes \ {"unknown"}
      BY <1>2, <3>1, <3>2, StrictTypeIs DEF BTypes, ColTypes
    <3>4. Verdict(CheckType(s.targets[i], joinList), BTypes \ {"unknown"}) = "ok"
      BY <3>3, VerdictIs
    <3> QED
      BY <1>3, <3>4
  <2>2. DOMAIN verdicts = 1 .. Len(s.targets)
    BY <1>3
  <2> HIDE DEF verdicts
  <2>3. FirstFailure(verdicts) = "ok"
    BY <1>3, <2>1, <2>2, FirstFailureIs
  <2> QED
    BY <2>3 DEF CheckTargets, verdicts
<1>5. CheckCondition(s.where, joinList) = "ok"
  BY <1>1, <1>3, StrictAccepted DEF def
<1>6. CheckSort(s.sort, joinList) = "ok"
  <2>1. CASE s.sort = Absent
    BY <2>1 DEF CheckSort, Absent
  <2>2. CASE s.sort # Absent
    <3>1. s.sort \in Exprs /\ s.sort.type = "id" /\ StrictType(s.sort, def) # "unknown"
      BY <1>3, <2>2 DEF Clauses, StrictSort, def
    <3>2. CheckType(s.sort, joinList) = StrictType(s.sort, def)
      BY <1>2, <3>1, StrictChecked
    <3>3. ColType(s.sort.name, joinList) # "unknown"
      BY <1>2, <3>1, <3>2, CheckTypeIs
    <3> QED
      BY <3>1, <3>3 DEF CheckSort
  <2> QED
    BY <2>1, <2>2
<1> DEFINE checks == <<CheckTargets(s.targets, joinList), CheckCondition(s.where, joinList),
                       CheckSort(s.sort, joinList)>>
<1>7. FirstFailure(checks) = "ok"
  <2>1. DOMAIN checks = 1 .. 3 /\ \A i \in 1 .. 3 : checks[i] = "ok"
    BY <1>4, <1>5, <1>6
  <2> HIDE DEF checks
  <2> QED
    BY <2>1, FirstFailureIs
<1> QED
  BY <1>1, <1>7 DEF AnalyzeSelectStmt, from

LEMMA StrictSelectRuns ==
    ASSUME TablesOK(tables), NEW s \in Selects, StrictFrom(s.from),
           StrictTargets(s, FromDef(s.from)), StrictCondition(s.where, FromDef(s.from)),
           s.where.type \in {"absent", "bin"}, StrictSort(s.sort, FromDef(s.from))
    PROVE  ~ExecSelect(s).died
<1> DEFINE joinList == AnalyzeJoinList(s.from, <<>>).list
           scan == ScanFrom(s.from, joinList)
           def == FromDef(s.from)
           tests == Tests(s.where, scan.rows, scan.def, joinList)
           kept == Where(scan.rows, tests, "yes")
           values == [k \in DOMAIN kept |-> [i \in DOMAIN s.targets |->
                        EvalExpr(s.targets[i], kept[k], scan.def, joinList)]]
           dies == \E k \in DOMAIN values : \E i \in DOMAIN s.targets : IsDeath(values[k][i])
<1>1. /\ s.from \in FromClauses /\ ListOfTables(joinList) /\ OfTables(def) /\ Knows(joinList, def)
      /\ s.targets \in Seq(Exprs) /\ s.where \in Clauses /\ s.sort \in Clauses
  BY StrictSelectFrom, StatementShapes
<1>2. scan \in Scans /\ scan.def = def /\ Completes(scan)
  BY <1>1, ScanFromIs, ScanDef, StrictScan
<1>3. ExecSelect(s).died =
          (\/ s.where.type \notin {"absent", "bin"} \/ scan.diesBy[1]
           \/ SortDies(s.sort, scan.rows, scan.def) \/ "died" \in ToSet(tests) \/ dies)
  <2> DEFINE output == OutputDef(s.targets, joinList)
             rows == {PrintedRow(Project(values[k], output), output) : k \in DOMAIN kept}
  <2> HIDE DEF output, rows, dies, tests
  <2> QED
    BY DEF ExecSelect, ResultOf, output, rows, dies, tests
<1> HIDE DEF joinList, scan, def
<1>4. RowsOf(scan.rows, def) /\ RowsNoNulls(scan.rows, def) /\ ~scan.diesBy[1]
  BY <1>2 DEF Scans, Completes
<1>5. Agrees(def, joinList) /\ def \in Defs /\ joinList \in Seq(Defs)
  BY <1>1, KnowsAgrees DEF OfTables, ListOfTables
<1>6. "died" \notin ToSet(tests)
  <2>1. ASSUME NEW i \in DOMAIN scan.rows PROVE Test(s.where, scan.rows[i], scan.def, joinList) # "died"
    <3>1. IsTupleOf(scan.rows[i], def) /\ NoNulls(scan.rows[i], def)
      BY <1>4 DEF RowsOf, RowsNoNulls
    <3>2. StrictCondition(s.where, def)
      BY DEF def
    <3> QED
      BY <1>1, <1>2, <3>1, <3>2, StrictTest
  <2> QED
    BY <2>1 DEF Tests, ToSet
<1>7. ~SortDies(s.sort, scan.rows, scan.def)
  <2> SUFFICES ASSUME s.sort # Absent, NEW i \in DOMAIN scan.rows
               PROVE  GetCol(scan.rows[i], s.sort.name, scan.def) # Null
    BY DEF SortDies
  <2>1. s.sort \in Exprs /\ s.sort.type = "id" /\ StrictType(s.sort, def) # "unknown"
    BY <1>1 DEF Clauses, StrictSort, def
  <2>2. ColType(s.sort.name, <<def>>) # "unknown"
    BY <1>5, <2>1, StrictTypeIs
  <2>3. GetColIdx(def, s.sort.name) # 0
    BY <1>5, <2>2, OneDef
  <2>4. NoNulls(scan.rows[i], def)
    BY <1>4 DEF RowsNoNulls
  <2> QED
    BY <1>2, <2>3, <2>4 DEF NoNulls
<1> HIDE DEF tests
<1>8. RowsOf(kept, def) /\ RowsNoNulls(kept, def)
  BY <1>4, WhereRows, WhereNoNulls
<1> HIDE DEF kept
<1>9. ~dies
  <2>1. ASSUME NEW k \in DOMAIN kept, NEW i \in DOMAIN s.targets
        PROVE  ~IsDeath(EvalExpr(s.targets[i], kept[k], scan.def, joinList))
    <3>1. StrictReads(kept[k], def, def)
      BY <1>5, <1>8, StrictRowReads DEF RowsOf, RowsNoNulls
    <3>2. s.targets[i] \in Exprs /\ StrictType(s.targets[i], def) # "unknown"
      BY <1>1 DEF StrictTargets, def
    <3>3. EvalExpr(s.targets[i], kept[k], def, joinList) \in Data
      BY <1>5, <3>1, <3>2, StrictEval
    <3> QED
      BY <1>2, <3>3, DataFacts
  <2> QED
    BY <2>1
<1> HIDE DEF dies
<1> QED
  BY <1>3, <1>4, <1>6, <1>7, <1>9

\* The definition of a table is the join list of INSERT, UPDATE and DELETE.
LEMMA TableKnows ==
    ASSUME TablesOK(tables), NEW t \in DOMAIN tables
    PROVE  LET def == tables[t].cols
           IN  /\ def \in Defs /\ OfTables(def) /\ ListOfTables(<<def>>)
               /\ Knows(<<def>>, def) /\ Agrees(def, <<def>>)
<1> DEFINE def == tables[t].cols
           list == <<def>>
<1>1. OfTables(def) /\ def \in Defs
  BY OfTablesIs DEF OfTables
<1> HIDE DEF def
<1>2. ListOfTables(list)
  BY <1>1 DEF ListOfTables
<1>3. 1 \in DOMAIN list /\ list[1] = def
  OBVIOUS
<1> HIDE DEF list
<1>4. Knows(list, def)
  BY <1>2, <1>3, ListKnows
<1>5. Agrees(def, list)
  BY <1>1, <1>2, <1>4, KnowsAgrees
<1> QED
  BY <1>1, <1>2, <1>4, <1>5 DEF def, list

\* A value without names has its strict type, and can be had without a tuple.
LEMMA StrictValue ==
    ASSUME NEW def \in Defs, NEW e \in Exprs, StrictType(e, <<>>) # "unknown"
    PROVE  /\ CheckType(e, <<def>>) = StrictType(e, <<>>)
           /\ ~IsDeath(EvalExpr(e, NoTuple, <<>>, <<def>>))
<1> DEFINE list == <<def>>
           none == <<>>
<1>1. none \in Defs /\ list \in Seq(Defs)
  BY DEF Defs
<1>2. \A name : GetColIdx(none, name) = 0
  BY DEF GetColIdx, Places
<1>3. \A name : ColType(name, <<none>>) = "unknown"
  BY <1>1, <1>2, OneDef
<1>4. Agrees(none, list)
  BY <1>3 DEF Agrees
<1>5. StrictReads(NoTuple, none, none)
  BY <1>3, NoTupleReads DEF StrictReads, Reads
<1> HIDE DEF list, none
<1>6. StrictType(e, none) # "unknown"
  BY DEF none
<1>7. CheckType(e, list) = StrictType(e, none) /\ EvalExpr(e, NoTuple, none, list) \in Data
  BY <1>1, <1>4, <1>5, <1>6, StrictChecked, StrictEval
<1> QED
  BY <1>7, DataFacts DEF list, none

\* Where the checks of a strict INSERT are made and where its values are evaluated.
StrictValues(s, def) ==
    \A k \in DOMAIN s.values :
        /\ Len(s.values[k]) = Len(def) /\ Len(s.columns) = Len(def)
        /\ \A j \in DOMAIN s.values[k] :
              /\ j \in DOMAIN def
              /\ CheckType(s.values[k][j], <<def>>) = def[j].type
              /\ ~IsDeath(EvalExpr(s.values[k][j], NoTuple, <<>>, <<def>>))

LEMMA InsertShape ==
    ASSUME NEW s \in Inserts
    PROVE  /\ DOMAIN s.values = 1 .. Len(s.values) /\ Len(s.values) \in Nat
           /\ \A k \in DOMAIN s.values :
                 /\ Len(s.values[k]) \in Nat /\ DOMAIN s.values[k] = 1 .. Len(s.values[k])
                 /\ \A j \in DOMAIN s.values[k] : s.values[k][j] \in Exprs
<1> DEFINE v == s.values
<1>1. v \in Seq(Seq(Exprs))
  BY StatementShapes
<1> HIDE DEF v
<1>2. DOMAIN v = 1 .. Len(v) /\ Len(v) \in Nat /\ \A k \in 1 .. Len(v) : v[k] \in Seq(Exprs)
  BY <1>1, ElementOfSeq
<1>3. \A r \in Seq(Exprs) : Len(r) \in Nat /\ DOMAIN r = 1 .. Len(r) /\ \A j \in DOMAIN r : r[j] \in Exprs
  BY ElementOfSeq
<1> QED
  BY <1>2, <1>3 DEF v

LEMMA StrictInsertValues ==
    ASSUME NEW s \in Inserts, NEW def \in Defs, StrictInsert(s, def)
    PROVE  StrictValues(s, def)
<1> SUFFICES ASSUME NEW k \in DOMAIN s.values
             PROVE  /\ Len(s.values[k]) = Len(def) /\ Len(s.columns) = Len(def)
                    /\ \A j \in DOMAIN s.values[k] :
                          /\ j \in DOMAIN def
                          /\ CheckType(s.values[k][j], <<def>>) = def[j].type
                          /\ ~IsDeath(EvalExpr(s.values[k][j], NoTuple, <<>>, <<def>>))
  BY DEF StrictValues
<1>1. /\ Len(s.values[k]) = Len(def) /\ Len(s.columns) = Len(def)
      /\ \A j \in DOMAIN def : StrictType(s.values[k][j], <<>>) = def[j].type
  BY DEF StrictInsert
<1>2. ASSUME NEW j \in DOMAIN s.values[k]
      PROVE  /\ j \in DOMAIN def
             /\ CheckType(s.values[k][j], <<def>>) = def[j].type
             /\ ~IsDeath(EvalExpr(s.values[k][j], NoTuple, <<>>, <<def>>))
  <2>1. j \in DOMAIN def /\ s.values[k][j] \in Exprs
    BY <1>1, InsertShape, DefFacts
  <2>2. StrictType(s.values[k][j], <<>>) = def[j].type
    BY <1>1, <2>1
  <2>3. StrictType(s.values[k][j], <<>>) # "unknown"
    BY <2>1, <2>2, DefFacts DEF ColTypes
  <2> QED
    BY <2>1, <2>2, <2>3, StrictValue
<1> QED
  BY <1>1, <1>2

\* A strict INSERT is accepted and comes to its end.
LEMMA StrictInsertAccepted ==
    ASSUME TablesOK(tables), NEW s \in Inserts, NEW lucky, FindTableDef(s.table) # 0,
           StrictInsert(s, tables[FindTableDef(s.table)].cols)
    PROVE  AnalyzeInsertStmt(s, lucky) = "ok"
<1> DEFINE t == FindTableDef(s.table)
           def == tables[t].cols
           check(k) == CheckValues(s.values[k], def, lucky)
           verdicts == [k \in DOMAIN s.values |->
                          IF Len(s.values[k]) # Len(s.columns) THEN "rejected" ELSE check(k)]
<1>1. AnalyzeInsertStmt(s, lucky) = FirstFailure(verdicts)
  BY DEF AnalyzeInsertStmt, StrictInsert
<1>2. t \in DOMAIN tables /\ def \in Defs
  BY InvTables, FindTableIs, TableIs
<1>3. StrictValues(s, def)
  BY <1>2, StrictInsertValues
<1> HIDE DEF def, t
<1>4. ASSUME NEW k \in DOMAIN s.values PROVE check(k) = "ok"
  <2> DEFINE n == Len(s.values[k])
             v == s.values[k]
             good(j) == {"null"} \cup (IF j \in DOMAIN def THEN {def[j].type}
                                       ELSE IF lucky THEN ColTypes ELSE {})
             row == [j \in DOMAIN v |-> Verdict(CheckType(v[j], <<def>>), good(j))]
  <2>1. check(k) = FirstFailure(row)
    BY DEF CheckValues
  <2>2. n \in Nat /\ DOMAIN v = 1 .. n
    BY InsertShape
  <2>3. ASSUME NEW j \in 1 .. n PROVE Verdict(CheckType(v[j], <<def>>), good(j)) = "ok"
    <3>1. j \in DOMAIN def /\ CheckType(v[j], <<def>>) = def[j].type
      BY <1>3, <2>2, <2>3 DEF StrictValues
    <3>2. good(j) = {"null", def[j].type}
      BY <3>1
    <3>3. "panic" \notin good(j)
      BY <1>2, <3>1, <3>2, DefFacts DEF ColTypes
    <3> HIDE DEF good, v
    <3> QED
      BY <3>1, <3>2, <3>3, VerdictIs
  <2>4. DOMAIN row = 1 .. n /\ \A j \in 1 .. n : row[j] = "ok"
    <3> HIDE DEF good, v, n
    <3> QED
      BY <2>2, <2>3
  <2> HIDE DEF row, n, check
  <2> QED
    BY <2>1, <2>2, <2>4, FirstFailureIs
<1> HIDE DEF check
<1>5. DOMAIN verdicts = 1 .. Len(s.values) /\ \A k \in 1 .. Len(s.values) : verdicts[k] = "ok"
  BY <1>3, <1>4, InsertShape DEF StrictValues
<1> HIDE DEF verdicts
<1> QED
  BY <1>1, <1>5, InsertShape, FirstFailureIs

LEMMA StrictInsertRuns ==
    ASSUME NEW s \in Inserts, NEW table, table.cols \in Defs, StrictInsert(s, table.cols)
    PROVE  ~ExecInsert(s, table).died
<1> DEFINE def == table.cols
           names == Names(def)
           value(k, j) == EvalExpr(s.values[k][j], NoTuple, <<>>, <<def>>)
           values == [k \in DOMAIN s.values |-> [j \in DOMAIN s.values[k] |-> value(k, j)]]
           dies(k) == Len(values[k]) # Len(names) \/ \E j \in DOMAIN values[k] : IsDeath(values[k][j])
           dead == {k \in DOMAIN values : dies(k)}
<1>1. ExecInsert(s, table).died = (dead # {})
  BY DEF ExecInsert, Effect
<1>2. StrictValues(s, def)
  BY StrictInsertValues
<1>3. Len(names) = Len(def)
  BY DefFacts DEF Names
<1>4. ASSUME NEW k \in DOMAIN s.values
      PROVE  Len(values[k]) = Len(s.values[k]) /\ DOMAIN values[k] = DOMAIN s.values[k]
             /\ \A j \in DOMAIN s.values[k] : values[k][j] = value(k, j)
  <2> HIDE DEF value
  <2> QED
    BY InsertShape
<1>5. \A k \in DOMAIN s.values : ~dies(k)
  <2> HIDE DEF values, names
  <2> QED
    BY <1>2, <1>3, <1>4 DEF StrictValues
<1> HIDE DEF dies
<1> QED
  BY <1>1, <1>5

\* A strict condition on the rows of a table without NULLs.
LEMMA StrictRows ==
    ASSUME TablesOK(tables), NEW t \in DOMAIN tables, HasNoNull(t)
    PROVE  LET def == tables[t].cols
           IN  \A row \in ToSet(tables[t].rows) :
                  /\ IsTupleOf(row, def) /\ NoNulls(row, def) /\ StrictReads(row, def, def)
                  /\ \A cond \in Clauses :
                        StrictCondition(cond, def) => Test(cond, row, def, <<def>>) # "died"
<1> DEFINE def == tables[t].cols
           list == <<def>>
<1> SUFFICES ASSUME NEW row \in ToSet(tables[t].rows)
             PROVE  /\ IsTupleOf(row, def) /\ NoNulls(row, def) /\ StrictReads(row, def, def)
                    /\ \A cond \in Clauses :
                          StrictCondition(cond, def) => Test(cond, row, def, list) # "died"
  OBVIOUS
<1>1. def \in Defs /\ OfTables(def) /\ ListOfTables(list) /\ Knows(list, def)
  BY TableKnows
<1>2. IsTupleOf(row, def)
  <2>1. PICK i \in DOMAIN tables[t].rows : row = tables[t].rows[i]
    BY DEF ToSet
  <2> QED
    BY <2>1 DEF TablesOK, RowsOf
<1>3. Null \notin ToSet(row)
  BY DEF HasNoNull
<1> HIDE DEF def, list
<1>4. NoNulls(row, def) /\ StrictReads(row, def, def)
  BY <1>1, <1>2, <1>3, TableNoNulls, StrictRowReads
<1>5. \A cond \in Clauses : StrictCondition(cond, def) => Test(cond, row, def, list) # "died"
  BY <1>1, <1>2, <1>4, StrictTest
<1> QED
  BY <1>2, <1>4, <1>5

\* A strict DELETE is accepted and comes to its end.
LEMMA StrictDeleteSucceeds ==
    ASSUME TablesOK(tables), NEW s \in Deletes, FindTableDef(s.table) # 0,
           StrictCondition(s.where, tables[FindTableDef(s.table)].cols),
           HasNoNull(FindTableDef(s.table))
    PROVE  /\ AnalyzeDeleteStmt(s) = "ok"
           /\ ~ExecDelete(s, tables[FindTableDef(s.table)]).died
<1> DEFINE t == FindTableDef(s.table)
           def == tables[t].cols
           list == <<def>>
           rows == tables[t].rows
           tests == Tests(s.where, rows, def, list)
           dead == {i \in DOMAIN tests : tests[i] = "died"}
<1>1. t \in DOMAIN tables /\ s.where \in Clauses /\ 0 \notin DOMAIN tables
  BY InvTables, FindTableIs, StatementShapes
<1>2. ExecDelete(s, tables[t]).died = (dead # {})
  BY DEF ExecDelete, Effect
<1>3. OfTables(def) /\ ListOfTables(list) /\ Knows(list, def)
  BY <1>1, TableKnows
<1>4. CheckCondition(s.where, list) = "ok"
  <2>1. StrictCondition(s.where, def)
    OBVIOUS
  <2> HIDE DEF def, list
  <2> QED
    BY <1>1, <1>3, <2>1, StrictAccepted
<1>5. ASSUME NEW i \in DOMAIN rows PROVE Test(s.where, rows[i], def, list) # "died"
  <2>1. rows[i] \in ToSet(rows) /\ StrictCondition(s.where, def)
    BY DEF ToSet
  <2> QED
    BY <1>1, <2>1, StrictRows
<1> HIDE DEF rows
<1>6. dead = {}
  BY <1>5 DEF Tests
<1> HIDE DEF dead, tests
<1> QED
  BY <1>1, <1>2, <1>4, <1>6 DEF AnalyzeDeleteStmt

LEMMA AssignsShape ==
    ASSUME NEW s \in Updates
    PROVE  /\ Len(s.assigns) \in Nat /\ DOMAIN s.assigns = 1 .. Len(s.assigns)
           /\ \A a \in ToSet(s.assigns) : a.value \in Exprs
<1> DEFINE R == [column : STRING, value : Exprs]
<1>1. s.assigns \in Seq(R)
  BY StatementShapes
<1>2. \A a \in R : a.value \in Exprs
  OBVIOUS
<1> HIDE DEF R
<1>3. DOMAIN s.assigns = 1 .. Len(s.assigns) /\ Len(s.assigns) \in Nat
  BY <1>1
<1>4. \A k \in DOMAIN s.assigns : s.assigns[k] \in R
  BY <1>1, ElementOfSeq
<1> QED
  BY <1>2, <1>3, <1>4 DEF ToSet

\* A strict UPDATE is accepted and comes to its end.
LEMMA StrictUpdateAccepted ==
    ASSUME TablesOK(tables), NEW s \in Updates, FindTableDef(s.table) # 0,
           StrictUpdate(s, tables[FindTableDef(s.table)].cols)
    PROVE  AnalyzeUpdateStmt(s) = "ok"
<1> DEFINE t == FindTableDef(s.table)
           def == tables[t].cols
           list == <<def>>
           one(k) == CheckAssignment(s.assigns[k], def)
           firsts == [k \in DOMAIN s.assigns |-> one(k)]
           last == CheckCondition(s.where, list)
           verdicts == Append(firsts, last)
           n == Len(s.assigns)
<1>1. t \in DOMAIN tables /\ s.where \in Clauses /\ n \in Nat /\ DOMAIN s.assigns = 1 .. n
  BY InvTables, FindTableIs, StatementShapes, AssignsShape
<1>2. AnalyzeUpdateStmt(s) = FirstFailure(verdicts)
  BY DEF AnalyzeUpdateStmt
<1>3. def \in Defs /\ OfTables(def) /\ ListOfTables(list) /\ Knows(list, def) /\ Agrees(def, list)
  BY <1>1, TableKnows
<1>4. StrictUpdate(s, def)
  OBVIOUS
<1> HIDE DEF def, t
<1>5. last = "ok"
  <2>1. StrictCondition(s.where, def)
    BY <1>4 DEF StrictUpdate
  <2> HIDE DEF list
  <2> QED
    BY <1>1, <1>3, <2>1, StrictAccepted
<1>6. ASSUME NEW k \in 1 .. n PROVE one(k) = "ok"
  <2> DEFINE a == s.assigns[k]
             i == GetColIdx(def, a.column)
  <2>1. a \in ToSet(s.assigns) /\ a.value \in Exprs
    <3>1. a \in ToSet(s.assigns)
      BY <1>1 DEF ToSet
    <3> QED
      BY <3>1, AssignsShape
  <2>2. i # 0 /\ StrictType(a.value, def) = ColType(a.column, list)
    BY <1>4, <2>1 DEF StrictUpdate
  <2>3. i \in DOMAIN def /\ def[i].type \in ColTypes /\ ColType(a.column, list) = def[i].type
    BY <1>3, <2>2, GetColIdxIs, DefFacts, OneDef DEF Defs
  <2>4. StrictType(a.value, def) # "unknown" /\ "panic" \notin {def[i].type, "null"}
    BY <2>2, <2>3 DEF ColTypes
  <2> HIDE DEF list, a
  <2>5. list \in Seq(Defs)
    BY <1>3 DEF ListOfTables
  <2>6. CheckType(a.value, list) = def[i].type
    BY <1>3, <2>1, <2>2, <2>3, <2>4, <2>5, StrictChecked
  <2>7. one(k) = Verdict(CheckType(a.value, list), {def[i].type, "null"})
    BY <2>2 DEF CheckAssignment, a, list
  <2> HIDE DEF i, one
  <2> QED
    BY <2>4, <2>6, <2>7, VerdictIs
<1> HIDE DEF one, last
<1>7. firsts \in Seq({"ok"}) /\ Len(firsts) = n /\ \A k \in 1 .. n : firsts[k] = "ok"
  BY <1>1, <1>6
<1> HIDE DEF firsts, n
<1>8. DOMAIN verdicts = 1 .. n + 1 /\ verdicts[n + 1] = last /\ \A k \in 1 .. n : verdicts[k] = "ok"
  BY <1>1, <1>5, <1>7, AppendProperties
<1>9. \A k \in 1 .. n + 1 : verdicts[k] = "ok"
  <2>1. \A k \in 1 .. n + 1 : k = n + 1 \/ k \in 1 .. n
    BY <1>1
  <2> HIDE DEF verdicts
  <2> QED
    BY <1>5, <1>8, <2>1
<1>10. n + 1 \in Nat
  BY <1>1
<1> HIDE DEF verdicts
<1> QED
  BY <1>2, <1>8, <1>9, <1>10, FirstFailureIs

LEMMA StrictUpdateRuns ==
    ASSUME TablesOK(tables), NEW s \in Updates, FindTableDef(s.table) # 0,
           StrictUpdate(s, tables[FindTableDef(s.table)].cols), HasNoNull(FindTableDef(s.table))
    PROVE  ~ExecUpdate(s, tables[FindTableDef(s.table)]).died
<1> DEFINE t == FindTableDef(s.table)
           def == tables[t].cols
           list == <<def>>
           rows == tables[t].rows
           tests == Tests(s.where, rows, def, list)
           hit == Where(rows, tests, "yes")
           dies == \/ "died" \in ToSet(tests)
                   \/ \E k \in DOMAIN hit, a \in ToSet(s.assigns) :
                         IsDeath(EvalExpr(a.value, hit[k], def, list))
<1>1. ~dies => ~ExecUpdate(s, tables[t]).died
  BY DEF ExecUpdate, Effect
<1>2. t \in DOMAIN tables /\ s.where \in Clauses
  BY InvTables, FindTableIs, StatementShapes
<1>3. def \in Defs /\ list \in Seq(Defs) /\ Agrees(def, list)
  BY <1>2, TableKnows DEF ListOfTables
<1>4. StrictUpdate(s, def) /\ HasNoNull(t)
  OBVIOUS
<1>5. \A row \in ToSet(rows) : StrictReads(row, def, def) /\ Test(s.where, row, def, list) # "died"
  <2>1. StrictCondition(s.where, def)
    BY <1>4 DEF StrictUpdate
  <2> QED
    BY <1>2, <1>4, <2>1, StrictRows
<1>6. rows \in Seq(Seq(Data))
  BY <1>2, InvTables, TableIs
<1> HIDE DEF rows, def, list
<1>7. "died" \notin ToSet(tests)
  <2>1. \A i \in DOMAIN rows : rows[i] \in ToSet(rows)
    BY DEF ToSet
  <2> QED
    BY <1>5, <2>1 DEF Tests, ToSet
<1> HIDE DEF tests
<1>8. \A k \in DOMAIN hit : hit[k] \in ToSet(rows)
  <2>1. PICK at : Picks(at, Len(rows), tests, "yes") /\ Picked(hit, rows, at)
    BY <1>6, WhereIs
  <2>2. hit \in Seq(Seq(Data))
    BY <1>6, WhereIs
  <2> HIDE DEF hit
  <2>3. ASSUME NEW k \in DOMAIN hit PROVE hit[k] \in ToSet(rows)
    <3>1. k \in 1 .. Len(at) /\ at[k] \in 1 .. Len(rows) /\ hit[k] = rows[at[k]]
      BY <2>1, <2>2, <2>3, ElementOfSeq DEF Picks, Picked
    <3> QED
      BY <1>6, <3>1 DEF ToSet
  <2> QED
    BY <2>3
<1> HIDE DEF hit
<1>9. ASSUME NEW k \in DOMAIN hit, NEW a \in ToSet(s.assigns)
      PROVE  ~IsDeath(EvalExpr(a.value, hit[k], def, list))
  <2>1. StrictReads(hit[k], def, def)
    BY <1>5, <1>8
  <2>2. a.value \in Exprs
    BY AssignsShape
  <2>3. GetColIdx(def, a.column) # 0 /\ StrictType(a.value, def) = ColType(a.column, <<def>>)
    BY <1>4 DEF StrictUpdate
  <2>4. StrictType(a.value, def) # "unknown"
    BY <1>3, <2>3, OneDef
  <2>5. EvalExpr(a.value, hit[k], def, list) \in Data
    BY <1>3, <2>1, <2>2, <2>4, StrictEval
  <2> QED
    BY <2>5, DataFacts
<1> QED
  BY <1>1, <1>7, <1>9

\* What Strict asks of each kind of statement.
LEMMA StrictIs ==
    ASSUME NEW s, Strict(s)
    PROVE  LET t == FindTableDef(s.table)
           IN  /\ s.kind = "select" => /\ StrictFrom(s.from) /\ StrictTargets(s, FromDef(s.from))
                                       /\ StrictCondition(s.where, FromDef(s.from))
                                       /\ s.where.type \in {"absent", "bin"}
                                       /\ StrictSort(s.sort, FromDef(s.from))
               /\ s.kind = "insert" => t # 0 /\ StrictInsert(s, tables[t].cols)
               /\ s.kind = "update" => t # 0 /\ StrictUpdate(s, tables[t].cols) /\ HasNoNull(t)
               /\ s.kind = "delete" =>
                     t # 0 /\ StrictCondition(s.where, tables[t].cols) /\ HasNoNull(t)
               /\ s.kind = "create" => AnalyzeCreateTableStmt(s) = "ok"
<1>1. s.kind = "select" => /\ StrictFrom(s.from) /\ StrictTargets(s, FromDef(s.from))
                           /\ StrictCondition(s.where, FromDef(s.from))
                           /\ s.where.type \in {"absent", "bin"}
                           /\ StrictSort(s.sort, FromDef(s.from))
  BY DEF Strict, StrictTargets, StrictSort
<1>2. s.kind = "insert" =>
          FindTableDef(s.table) # 0 /\ StrictInsert(s, tables[FindTableDef(s.table)].cols)
  BY DEF Strict
<1>3. s.kind = "update" =>
          /\ FindTableDef(s.table) # 0 /\ StrictUpdate(s, tables[FindTableDef(s.table)].cols)
          /\ HasNoNull(FindTableDef(s.table))
  BY DEF Strict
<1>4. s.kind = "delete" =>
          /\ FindTableDef(s.table) # 0
          /\ StrictCondition(s.where, tables[FindTableDef(s.table)].cols)
          /\ HasNoNull(FindTableDef(s.table))
  BY DEF Strict
<1>5. s.kind = "create" => AnalyzeCreateTableStmt(s) = "ok"
  BY DEF Strict
<1> QED
  BY <1>1, <1>2, <1>3, <1>4, <1>5

LEMMA StrictStep ==
    ASSUME Inv, [Next]_vars
    PROVE  (status = "prompt" /\ Strict(stmt') => status' = "done") \/ UNCHANGED vars
<1> SUFFICES ASSUME status = "prompt", Strict(stmt'), ~UNCHANGED vars
             PROVE  status' = "done"
  OBVIOUS
<1>1. TablesOK(tables) /\ \A t \in DOMAIN tables : TableOK(tables[t])
  BY InvTables DEF Inv
<1>2. tables \in Tables
  BY <1>1, InvTables
<1>3. ~Prompt /\ ~Restart
  BY DEF Prompt, Restart
<1>4. CASE Select
  <2>1. PICK s \in Selects :
           \/ NotRun(s, AnalyzeSelectStmt(s))
           \/ /\ AnalyzeSelectStmt(s) = "ok"
              /\ stmt' = s /\ status' = IF ExecSelect(s).died THEN "died" ELSE "done"
    BY <1>4 DEF Select, Answer
  <2>2. stmt' = s
    BY <2>1 DEF NotRun, Answer
  <2>3. /\ StrictFrom(s.from) /\ StrictTargets(s, FromDef(s.from))
        /\ StrictCondition(s.where, FromDef(s.from))
        /\ s.where.type \in {"absent", "bin"} /\ StrictSort(s.sort, FromDef(s.from))
    <3>1. Strict(s) /\ s.kind = "select"
      BY <2>2, StatementShapes
    <3> QED
      BY <3>1, StrictIs
  <2>4. AnalyzeSelectStmt(s) = "ok" /\ ~ExecSelect(s).died
    BY <1>1, <2>3, StrictSelectAccepted, StrictSelectRuns
  <2> QED
    BY <2>1, <2>4 DEF NotRun
<1>5. CASE Insert
  <2>1. PICK s \in Inserts, lucky \in BOOLEAN : Modify(s, AnalyzeInsertStmt(s, lucky), ExecInsert)
    BY <1>5 DEF Insert
  <2> DEFINE t == FindTableDef(s.table)
  <2>2. stmt' = s
    BY <2>1 DEF Modify, NotRun, Answer
  <2>3. t # 0 /\ StrictInsert(s, tables[t].cols)
    <3>1. Strict(s) /\ s.kind = "insert"
      BY <2>2, StatementShapes
    <3> QED
      BY <3>1, StrictIs
  <2>4. AnalyzeInsertStmt(s, lucky) = "ok"
    BY <1>1, <2>3, StrictInsertAccepted
  <2>5. ~ExecInsert(s, tables[t]).died
    <3>1. tables[t].cols \in Defs
      BY <1>2, <2>3, FindTableIs, TableIs
    <3> QED
      BY <2>3, <3>1, StrictInsertRuns
  <2> QED
    BY <2>1, <2>4, <2>5 DEF Modify, NotRun, Answer
<1>6. CASE Update
  <2>1. PICK s \in Updates : Modify(s, AnalyzeUpdateStmt(s), ExecUpdate)
    BY <1>6 DEF Update
  <2> DEFINE t == FindTableDef(s.table)
  <2>2. stmt' = s
    BY <2>1 DEF Modify, NotRun, Answer
  <2>3. t # 0 /\ StrictUpdate(s, tables[t].cols) /\ HasNoNull(t)
    <3>1. Strict(s) /\ s.kind = "update"
      BY <2>2, StatementShapes
    <3> QED
      BY <3>1, StrictIs
  <2>4. AnalyzeUpdateStmt(s) = "ok" /\ ~ExecUpdate(s, tables[t]).died
    BY <1>1, <2>3, StrictUpdateAccepted, StrictUpdateRuns
  <2> QED
    BY <2>1, <2>4 DEF Modify, NotRun, Answer
<1>7. CASE Delete
  <2>1. PICK s \in Deletes : Modify(s, AnalyzeDeleteStmt(s), ExecDelete)
    BY <1>7 DEF Delete
  <2> DEFINE t == FindTableDef(s.table)
  <2>2. stmt' = s
    BY <2>1 DEF Modify, NotRun, Answer
  <2>3. t # 0 /\ StrictCondition(s.where, tables[t].cols) /\ HasNoNull(t)
    <3>1. Strict(s) /\ s.kind = "delete"
      BY <2>2, StatementShapes
    <3> QED
      BY <3>1, StrictIs
  <2>4. AnalyzeDeleteStmt(s) = "ok" /\ ~ExecDelete(s, tables[t]).died
    BY <1>1, <2>3, StrictDeleteSucceeds
  <2> QED
    BY <2>1, <2>4 DEF Modify, NotRun, Answer
<1>8. CASE CreateTable
  <2>1. PICK s \in CreateTables :
           \/ NotRun(s, AnalyzeCreateTableStmt(s))
           \/ stmt' = s /\ status' = "done"
    BY <1>8 DEF CreateTable, Answer
  <2>2. stmt' = s
    BY <2>1 DEF NotRun, Answer
  <2>3. AnalyzeCreateTableStmt(s) = "ok"
    <3>1. Strict(s) /\ s.kind = "create"
      BY <2>2, StatementShapes
    <3> QED
      BY <3>1, StrictIs
  <2> QED
    BY <2>1, <2>3 DEF NotRun
<1> QED
  BY <1>3, <1>4, <1>5, <1>6, <1>7, <1>8 DEF Next

\* A statement of strict types on tables without NULLs is accepted and comes to its
\* end: no assert on a name or a condition fails, above however many joins, although
\* the analyzer and the executor look names up in different definitions.
THEOREM StrictSucceed ==
    ASSUME OneTypeAName
    PROVE  Spec => StrictStatementsSucceed
<1>1. Init => Inv
  BY InitInv
<1>2. Inv /\ [Next]_vars => Inv'
  BY InvStep
<1>3. Inv /\ [Next]_vars => [status = "prompt" /\ Strict(stmt') => status' = "done"]_vars
  BY StrictStep
<1> QED
  BY <1>1, <1>2, <1>3, PTL DEF Spec, StrictStatementsSucceed

=============================================================================
