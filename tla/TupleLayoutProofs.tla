-------------------------- MODULE TupleLayoutProofs --------------------------
(***************************************************************************)
(* Proofs about TupleLayout, for every number of columns, every set of     *)
(* values and every size of the header.                                    *)
(***************************************************************************)
EXTENDS TupleLayout, TLAPS

\* The data of the columns are in the order of the columns.
Ordered(t) ==
    \A a, b \in Columns : a < b => t.locs[a].offset + t.locs[a].length <= t.locs[b].offset

\* Where a column's data is in the old block and where it goes in the new one; the
\* column behind the last one stands for the end.
OldOffset(c) == IF c <= NumCols THEN tuple.locs[c].offset ELSE Size(tuple)
Growth == Len(Bytes(change.datum)) - tuple.locs[change.col].length
NewOffset(c) == OldOffset(c) + (IF c > change.col THEN Growth ELSE 0)

Copied(c) ==
    /\ new.locs[c] = [offset |-> NewOffset(c), length |-> Len(NewBytes(c))]
    /\ BytesAt(new, c) = NewBytes(c)

\* In the loop of SetCol: where it is, and what it has done.
Copying ==
    /\ curOffset = NewOffset(i)
    /\ Size(new) = Size(tuple) + Growth
    /\ new.tid = tuple.tid
    /\ new.nulls = NewNulls(change.col, change.datum)
    /\ \A c \in 1 .. i - 1 : Copied(c)

IInv ==
    /\ TypeOK
    /\ LayoutSound
    /\ Ordered(tuple)
    /\ change = NoChange => i = 1 /\ curOffset = 0
    /\ change # NoChange => Copying

-----------------------------------------------------------------------------
\* A datum's bytes are a sequence of numbers.
LEMMA BytesType ==
    ASSUME NEW datum \in Data
    PROVE  Bytes(datum) \in Seq(Nat) /\ Len(Bytes(datum)) \in Nat
BY ValuesAssumption DEF Bytes, Data

\* So is what lies at a column's place in a block.
LEMMA BytesAtType ==
    ASSUME NEW t, IsTuple(t), LocsInside(t), NEW c \in Columns
    PROVE  /\ BytesAt(t, c) \in Seq(Nat)
           /\ Len(BytesAt(t, c)) = t.locs[c].length
           /\ t.locs[c].length \in Nat /\ t.locs[c].offset \in Nat
<1>1. /\ t.locs[c] \in Locs
      /\ t.locs[c].offset + t.locs[c].length <= Size(t)
      /\ t.data \in [0 .. Size(t) - 1 -> Nat]
      /\ Size(t) \in Nat
  BY DEF IsTuple, LocsInside
<1>2. t.locs[c].length \in Nat /\ t.locs[c].offset \in Nat
  BY <1>1 DEF Locs
<1>3. \A k \in 1 .. t.locs[c].length : t.data[t.locs[c].offset + (k - 1)] \in Nat
  <2>1. \A k \in 1 .. t.locs[c].length : t.locs[c].offset + (k - 1) \in 0 .. Size(t) - 1
    BY <1>1, <1>2
  <2> QED
    BY <1>1, <2>1
<1> QED
  BY <1>2, <1>3 DEF BytesAt

\* Write puts bytes where it should and leaves those before them alone.
LEMMA WriteEffect ==
    ASSUME NEW n \in Nat, NEW data \in [0 .. n - 1 -> Nat],
           NEW offset \in Nat, NEW bytes \in Seq(Nat), offset + Len(bytes) <= n
    PROVE  /\ Write(data, offset, bytes) \in [0 .. n - 1 -> Nat]
           /\ \A k \in 1 .. Len(bytes) :
                 Write(data, offset, bytes)[offset + (k - 1)] = bytes[k]
           /\ \A k \in 0 .. n - 1 : k < offset => Write(data, offset, bytes)[k] = data[k]
<1> DEFINE W == Write(data, offset, bytes)
<1>1. /\ DOMAIN data = 0 .. n - 1
      /\ Len(bytes) \in Nat
      /\ \A k \in 1 .. Len(bytes) : bytes[k] \in Nat
  OBVIOUS
<1>2. W = [k \in 0 .. n - 1 |->
              IF k \in offset .. offset + Len(bytes) - 1
              THEN bytes[(k - offset) + 1] ELSE data[k]]
  BY <1>1 DEF Write
<1>3. \A k \in 0 .. n - 1 : W[k] \in Nat
  <2> SUFFICES ASSUME NEW k \in 0 .. n - 1 PROVE W[k] \in Nat
    OBVIOUS
  <2>1. CASE k \in offset .. offset + Len(bytes) - 1
    <3>1. (k - offset) + 1 \in 1 .. Len(bytes)
      BY <1>1, <2>1
    <3> QED
      BY <1>1, <1>2, <2>1, <3>1
  <2>2. CASE k \notin offset .. offset + Len(bytes) - 1
    BY <1>2, <2>2
  <2> QED
    BY <2>1, <2>2
<1>4. \A k \in 1 .. Len(bytes) : W[offset + (k - 1)] = bytes[k]
  <2> SUFFICES ASSUME NEW k \in 1 .. Len(bytes) PROVE W[offset + (k - 1)] = bytes[k]
    OBVIOUS
  <2>1. /\ offset + (k - 1) \in 0 .. n - 1
        /\ offset + (k - 1) \in offset .. offset + Len(bytes) - 1
        /\ ((offset + (k - 1)) - offset) + 1 = k
    BY <1>1
  <2> QED
    BY <1>2, <2>1
<1>5. \A k \in 0 .. n - 1 : k < offset => W[k] = data[k]
  BY <1>1, <1>2
<1>6. W \in [0 .. n - 1 -> Nat]
  BY <1>2, <1>3
<1> QED
  BY <1>4, <1>5, <1>6

-----------------------------------------------------------------------------
\* In the old block the columns' data follow one another up to its end.
LEMMA OldOffsets ==
    ASSUME IInv
    PROVE  /\ NumCols \in Columns /\ 1 \in Columns
           /\ OldOffset(1) = 0 /\ OldOffset(NumCols + 1) = Size(tuple)
           /\ Size(tuple) \in Nat
           /\ \A c \in Columns :
                 /\ OldOffset(c) = tuple.locs[c].offset
                 /\ OldOffset(c) \in Nat
                 /\ tuple.locs[c].length \in Nat
                 /\ OldOffset(c + 1) = OldOffset(c) + tuple.locs[c].length
           /\ \A a \in Columns, b \in 1 .. NumCols + 1 :
                 a < b => OldOffset(a) + tuple.locs[a].length <= OldOffset(b)
<1>1. IsTuple(tuple) /\ LocsInside(tuple) /\ Contiguous(tuple) /\ Ordered(tuple)
  BY DEF IInv, TypeOK, LayoutSound
<1>2. NumCols \in Nat \ {0}
  BY NumColsAssumption
<1>3. NumCols \in Columns /\ 1 \in Columns
  BY <1>2 DEF Columns
<1>4. \A c \in Columns : /\ tuple.locs[c].offset \in Nat
                         /\ tuple.locs[c].length \in Nat
                         /\ OldOffset(c) = tuple.locs[c].offset
                         /\ tuple.locs[c].offset + tuple.locs[c].length <= Size(tuple)
  <2>1. \A c \in Columns : c <= NumCols
    BY <1>2 DEF Columns
  <2> QED
    BY <1>1, <2>1, BytesAtType DEF OldOffset, LocsInside
<1>5. Size(tuple) \in Nat
  BY <1>1 DEF IsTuple
<1>6. OldOffset(1) = 0
  BY <1>1, <1>3, <1>4 DEF Contiguous
<1>7. OldOffset(NumCols + 1) = Size(tuple)
  BY <1>2 DEF OldOffset
<1>8. \A c \in Columns : OldOffset(c + 1) = OldOffset(c) + tuple.locs[c].length
  <2> SUFFICES ASSUME NEW c \in Columns
               PROVE  OldOffset(c + 1) = OldOffset(c) + tuple.locs[c].length
    OBVIOUS
  <2>1. CASE c = NumCols
    BY <1>1, <1>4, <1>7, <2>1 DEF Contiguous
  <2>2. CASE c # NumCols
    <3>1. c \in Columns \ {NumCols} /\ c + 1 \in Columns
      BY <1>2, <2>2 DEF Columns
    <3> QED
      BY <1>1, <1>4, <3>1 DEF Contiguous
  <2> QED
    BY <2>1, <2>2
<1>9. ASSUME NEW a \in Columns, NEW b \in 1 .. NumCols + 1, a < b
      PROVE  OldOffset(a) + tuple.locs[a].length <= OldOffset(b)
  <2>1. CASE b = NumCols + 1
    BY <1>4, <1>7, <2>1
  <2>2. CASE b # NumCols + 1
    <3>1. b \in Columns
      BY <1>2, <2>2 DEF Columns
    <3> QED
      BY <1>1, <1>4, <1>9, <3>1 DEF Ordered
  <2> QED
    BY <2>1, <2>2
<1> QED
  BY <1>3, <1>4, <1>5, <1>6, <1>7, <1>8, <1>9

\* In the new block too, and it ends where they end.
LEMMA NewOffsets ==
    ASSUME IInv, change # NoChange
    PROVE  /\ change.col \in Columns /\ change.datum \in Data
           /\ Growth \in Int
           /\ NewOffset(1) = 0 /\ NewOffset(NumCols + 1) = Size(tuple) + Growth
           /\ \A c \in Columns :
                 /\ NewBytes(c) \in Seq(Nat)
                 /\ Len(NewBytes(c)) \in Nat
                 /\ NewOffset(c) \in Nat
                 /\ NewOffset(c + 1) = NewOffset(c) + Len(NewBytes(c))
           /\ \A a \in Columns, b \in 1 .. NumCols + 1 :
                 a < b => NewOffset(a) + Len(NewBytes(a)) <= NewOffset(b)
<1>1. change.col \in Columns /\ change.datum \in Data
  BY DEF IInv, TypeOK
<1>2. IsTuple(tuple) /\ LocsInside(tuple)
  BY DEF IInv, TypeOK
<1> DEFINE col == change.col
           len == Len(Bytes(change.datum))
           old == tuple.locs[col].length
<1>3. /\ len \in Nat /\ old \in Nat /\ Growth = len - old
      /\ Bytes(change.datum) \in Seq(Nat)
  BY <1>1, OldOffsets, BytesType DEF Growth
<1>4. NumCols \in Nat \ {0}
  BY NumColsAssumption
<1>5. \A c \in Columns : /\ NewBytes(c) \in Seq(Nat)
                         /\ Len(NewBytes(c)) = IF c = col THEN len ELSE tuple.locs[c].length
                         /\ Len(NewBytes(c)) \in Nat
  BY <1>2, <1>3, BytesAtType DEF NewBytes
<1>6. col \in Nat /\ col >= 1 /\ col <= NumCols
  BY <1>1, <1>4 DEF Columns
<1>7. NewOffset(1) = 0
  BY <1>6, OldOffsets DEF NewOffset
<1>8. NewOffset(NumCols + 1) = Size(tuple) + Growth
  BY <1>4, <1>6, OldOffsets DEF NewOffset
<1> HIDE DEF len, old
<1>9. ASSUME NEW c \in Columns
      PROVE  /\ NewOffset(c) \in Nat
             /\ NewOffset(c + 1) = NewOffset(c) + Len(NewBytes(c))
  <2>1. /\ OldOffset(c) \in Nat /\ OldOffset(col) \in Nat
        /\ tuple.locs[c].length \in Nat
        /\ OldOffset(c + 1) = OldOffset(c) + tuple.locs[c].length
        /\ col < c => OldOffset(col) + tuple.locs[col].length <= OldOffset(c)
    <3>1. c \in 1 .. NumCols + 1
      BY <1>4 DEF Columns
    <3> QED
      BY <1>1, <3>1, OldOffsets
  <2>2. c \in Nat
    BY <1>4 DEF Columns
  <2>3. CASE c < col
    BY <1>3, <1>5, <1>6, <2>1, <2>2, <2>3, SMTT(30) DEF NewOffset
  <2>4. CASE c = col
    BY <1>3, <1>5, <1>6, <2>1, <2>2, <2>4, SMTT(30), ZenonT(30) DEF NewOffset, old
  <2>5. CASE c > col
    <3>1. /\ NewOffset(c) = OldOffset(c) + (len - old)
          /\ NewOffset(c + 1) = OldOffset(c + 1) + (len - old)
          /\ Len(NewBytes(c)) = tuple.locs[c].length
      BY <1>3, <1>5, <1>6, <2>2, <2>5 DEF NewOffset
    <3>2. OldOffset(col) + old <= OldOffset(c)
      BY <2>1, <2>5 DEF old
    <3> QED
      BY <1>3, <2>1, <3>1, <3>2, SMTT(30), ZenonT(30)
  <2> QED
    BY <1>6, <2>2, <2>3, <2>4, <2>5
<1>10. ASSUME NEW a \in Columns, NEW b \in 1 .. NumCols + 1, a < b
       PROVE  NewOffset(a) + Len(NewBytes(a)) <= NewOffset(b)
  <2>1. a \in Nat /\ b \in Nat /\ col \in 1 .. NumCols + 1
    BY <1>4, <1>6 DEF Columns
  <2>2. /\ OldOffset(a) \in Nat /\ OldOffset(col) \in Nat
        /\ tuple.locs[a].length \in Nat
        /\ OldOffset(a) + tuple.locs[a].length <= OldOffset(b)
        /\ a < col => OldOffset(a) + tuple.locs[a].length <= OldOffset(col)
        /\ col < b => OldOffset(col) + tuple.locs[col].length <= OldOffset(b)
    BY <1>1, <1>10, <2>1, OldOffsets
  <2>3. OldOffset(b) \in Nat
    <3>1. CASE b = NumCols + 1
      BY <3>1, OldOffsets
    <3>2. CASE b # NumCols + 1
      <4>1. b \in Columns
        BY <1>4, <3>2 DEF Columns
      <4> QED
        BY <4>1, OldOffsets
    <3> QED
      BY <3>1, <3>2
  <2>4. /\ NewOffset(a) = OldOffset(a) + (IF a > col THEN len - old ELSE 0)
        /\ NewOffset(b) = OldOffset(b) + (IF b > col THEN len - old ELSE 0)
        /\ Len(NewBytes(a)) = IF a = col THEN len ELSE tuple.locs[a].length
    BY <1>3, <1>5 DEF NewOffset
  <2>5. CASE a < col
    <3>1. CASE b > col
      <4>1. OldOffset(col) + old <= OldOffset(b)
        BY <2>2, <3>1 DEF old
      <4>2. /\ NewOffset(a) + Len(NewBytes(a)) = OldOffset(a) + tuple.locs[a].length
            /\ NewOffset(b) = OldOffset(b) + (len - old)
        BY <1>6, <2>1, <2>2, <2>4, <2>5, <3>1
      <4> QED
        BY <1>3, <2>2, <2>3, <2>5, <4>1, <4>2, SMTT(30), ZenonT(30)
    <3>2. CASE ~(b > col)
      BY <1>6, <2>1, <2>2, <2>3, <2>4, <2>5, <3>2
    <3> QED
      BY <3>1, <3>2
  <2>6. CASE a = col
    <3>1. OldOffset(col) + old <= OldOffset(b)
      BY <1>10, <2>2, <2>6 DEF old
    <3>2. /\ NewOffset(a) + Len(NewBytes(a)) = OldOffset(col) + len
          /\ NewOffset(b) = OldOffset(b) + (len - old)
      BY <1>6, <1>10, <2>1, <2>2, <2>4, <2>6
    <3> QED
      BY <1>3, <2>2, <2>3, <3>1, <3>2
  <2>7. CASE a > col
    <3>1. /\ NewOffset(a) = OldOffset(a) + (len - old)
          /\ NewOffset(b) = OldOffset(b) + (len - old)
          /\ Len(NewBytes(a)) = tuple.locs[a].length
      BY <1>6, <1>10, <2>1, <2>4, <2>7
    <3>2. /\ OldOffset(a) + tuple.locs[a].length <= OldOffset(b)
          /\ OldOffset(a) \in Nat /\ tuple.locs[a].length \in Nat
      BY <2>2
    <3> QED
      BY <1>3, <2>3, <3>1, <3>2
  <2> QED
    BY <1>6, <2>1, <2>5, <2>6, <2>7
<1> QED
  BY <1>1, <1>3, <1>5, <1>7, <1>8, <1>9, <1>10

-----------------------------------------------------------------------------
\* A tuple as MakeTuple leaves it.
LEMMA InitEstablishesIInv == Init => IInv
<1> SUFFICES ASSUME Init PROVE IInv
  OBVIOUS
<1> USE NumColsAssumption, DataStartAssumption
<1>1. tuple = MakeTuple /\ new = MakeTuple /\ change = NoChange /\ i = 1 /\ curOffset = 0
  BY DEF Init
<1>2. Size(MakeTuple) = NumCols
  BY DEF Size, MakeTuple, MadeLength
<1>3. Zeros(MadeLength) \in [0 .. NumCols - 1 -> Nat]
  BY DEF Zeros, MadeLength
<1>4. IsTuple(MakeTuple)
  <2>1. MakeTuple.locs \in [Columns -> Locs]
    BY DEF MakeTuple, Columns, Locs
  <2>2. MakeTuple.nulls \in [Columns -> BOOLEAN]
    BY DEF MakeTuple
  <2>3. MakeTuple.data \in [0 .. Size(MakeTuple) - 1 -> Nat]
    BY <1>2, <1>3 DEF MakeTuple
  <2>4. MakeTuple.length \in Nat /\ MakeTuple.tid \in Tids
    BY TidsAssumption DEF MakeTuple, MadeLength
  <2>5. MakeTuple = [length |-> MakeTuple.length, tid |-> MakeTuple.tid,
                     nulls |-> MakeTuple.nulls, locs |-> MakeTuple.locs,
                     data |-> MakeTuple.data]
    BY DEF MakeTuple
  <2> QED
    BY <1>2, <2>1, <2>2, <2>3, <2>4, <2>5 DEF IsTuple
<1>5. \A c \in Columns : MakeTuple.locs[c].offset = c - 1 /\ MakeTuple.locs[c].length = 1
  BY DEF MakeTuple
<1>6. LocsInside(MakeTuple)
  BY <1>2, <1>5 DEF LocsInside, Columns
<1>7. Contiguous(MakeTuple)
  BY <1>2, <1>5 DEF Contiguous, Columns
<1>8. Ordered(MakeTuple)
  BY <1>5 DEF Ordered, Columns
<1>9. TypeOK
  BY <1>1, <1>4, <1>6 DEF TypeOK
<1> QED
  BY <1>1, <1>7, <1>8, <1>9 DEF IInv, LayoutSound

\* SetCol begins: the new block has the size that its columns will need.
LEMMA BeginKeepsIInv ==
    ASSUME IInv, NEW col \in Columns, NEW datum \in Data, BeginSetCol(col, datum)
    PROVE  IInv'
<1>1. /\ change = NoChange /\ i = 1 /\ curOffset = 0
      /\ change' = [col |-> col, datum |-> datum]
      /\ tuple' = tuple /\ i' = i /\ curOffset' = curOffset
  BY DEF BeginSetCol, IInv
<1>2. /\ new'.length = NewSize(col, datum) /\ new'.tid = tuple.tid
      /\ new'.nulls = NewNulls(col, datum)
      /\ new'.locs = [c \in Columns |-> [offset |-> 0, length |-> 0]]
      /\ new'.data = Zeros(NewSize(col, datum))
      /\ new' = [length |-> new'.length, tid |-> new'.tid, nulls |-> new'.nulls,
                 locs |-> new'.locs, data |-> new'.data]
  BY DEF BeginSetCol
<1>3. IsTuple(tuple) /\ LocsInside(tuple)
  BY DEF IInv, TypeOK
<1>4. /\ tuple.locs[col].length \in Nat /\ tuple.locs[col].offset \in Nat
      /\ tuple.locs[col].offset + tuple.locs[col].length <= Size(tuple)
      /\ Len(Bytes(datum)) \in Nat
      /\ Size(tuple) \in Nat /\ tuple.length \in Nat
  BY <1>3, BytesAtType, BytesType DEF LocsInside, IsTuple
<1>5. /\ Size(new)' = Size(tuple) + (Len(Bytes(datum)) - tuple.locs[col].length)
      /\ Size(new)' \in Nat /\ new'.length \in Nat
  <2> DEFINE L == tuple.length
             O == tuple.locs[col].length
             N == Len(Bytes(datum))
  <2>1. Size(tuple) = L - DataStart /\ new'.length = L + N - O
    BY <1>2 DEF Size, NewSize
  <2>2. Size(new)' = new'.length - DataStart
    BY DEF Size
  <2>3. L \in Nat /\ O \in Nat /\ N \in Nat /\ O <= L - DataStart
    BY <1>4, <2>1, DataStartAssumption, SMTT(30), ZenonT(30)
  <2> HIDE DEF L, O, N
  <2>4. /\ (L + N - O) - DataStart = (L - DataStart) + (N - O)
        /\ (L + N - O) - DataStart \in Nat /\ L + N - O \in Nat
    BY <2>3, DataStartAssumption
  <2>5. /\ Size(new)' = Size(tuple) + (N - O)
        /\ Size(new)' \in Nat /\ new'.length \in Nat
    BY <2>1, <2>2, <2>4
  <2> QED
    BY <2>5 DEF N, O
<1>6. IsTuple(new)'
  <2>1. new'.data \in [0 .. Size(new)' - 1 -> Nat]
    BY <1>2, <1>5 DEF Zeros, Size
  <2>2. new'.nulls \in [Columns -> BOOLEAN]
    BY <1>2, <1>3 DEF NewNulls, IsTuple
  <2>3. new'.locs \in [Columns -> Locs]
    BY <1>2 DEF Locs
  <2> QED
    BY <1>2, <1>3, <1>5, <2>1, <2>2, <2>3 DEF IsTuple, Size
<1>7. TypeOK'
  BY <1>1, <1>3, <1>6 DEF IInv, TypeOK, LocsInside, IsTuple, Size
<1>8. LayoutSound' /\ Ordered(tuple)'
  BY <1>1 DEF IInv, LayoutSound, Contiguous, Size, Ordered
<1>9. change' # NoChange
  BY <1>1, NumColsAssumption DEF NoChange, Columns
<1>10. Copying'
  <2>1. change'.col = col /\ change'.datum = datum
    BY <1>1
  <2>2. curOffset' = NewOffset(i)'
    <3>1. OldOffset(1) = 0
      BY OldOffsets
    <3>2. OldOffset(i)' = 0
      BY <1>1, <3>1 DEF OldOffset, Size
    <3>3. ~(1 > col)
      BY NumColsAssumption DEF Columns
    <3> QED
      BY <1>1, <2>1, <3>2, <3>3 DEF NewOffset
  <2>3. Size(new)' = Size(tuple)' + Growth'
    BY <1>1, <1>5, <2>1 DEF Growth, Size
  <2>4. (new.tid = tuple.tid)'
    BY <1>1, <1>2
  <2>6. (new.nulls = NewNulls(change.col, change.datum))'
    <3>1. NewNulls(change.col, change.datum)' = NewNulls(col, datum)
      BY <1>1, <2>1, Zenon DEF NewNulls
    <3> QED
      BY <1>2, <3>1
  <2>5. (\A c \in 1 .. i - 1 : Copied(c))'
    <3>1. 1 .. i' - 1 = {}
      BY <1>1
    <3> QED
      BY <3>1, Zenon
  <2> QED
    BY <2>2, <2>3, <2>4, <2>5, <2>6 DEF Copying
<1> QED
  BY <1>1, <1>7, <1>8, <1>9, <1>10 DEF IInv

\* A step of the loop.
LEMMA CopyKeepsIInv == ASSUME IInv, CopyColumn PROVE IInv'
<1>1. /\ change # NoChange /\ i <= NumCols /\ i \in Columns /\ Copying
      /\ NumCols \in Nat /\ NumCols + 1 \in 1 .. NumCols + 1
  BY NumColsAssumption DEF CopyColumn, IInv, TypeOK, Columns
<1>2. /\ tuple' = tuple /\ change' = change /\ i' = i + 1
      /\ curOffset' = curOffset + Len(NewBytes(i))
  BY DEF CopyColumn
<1>3. IsTuple(new)
  BY DEF IInv, TypeOK
<1> DEFINE bytes == NewBytes(i)
           W == Write(new.data, curOffset, bytes)
           loc == [offset |-> curOffset, length |-> Len(bytes)]
<1>4. new' = [length |-> new.length, tid |-> new.tid, nulls |-> new.nulls,
              locs |-> [new.locs EXCEPT ![i] = loc], data |-> W]
  <2>1. new = [length |-> new.length, tid |-> new.tid, nulls |-> new.nulls,
               locs |-> new.locs, data |-> new.data]
    BY <1>3 DEF IsTuple
  <2> HIDE DEF W
  <2>2. new' = [new EXCEPT !.locs[i] = loc, !.data = W]
    BY DEF CopyColumn, W
  <2> QED
    BY <2>1, <2>2
<1> HIDE DEF W, loc
<1>5. /\ bytes \in Seq(Nat) /\ Len(bytes) \in Nat
      /\ curOffset = NewOffset(i) /\ curOffset \in Nat
      /\ curOffset + Len(bytes) = NewOffset(i + 1)
      /\ curOffset + Len(bytes) <= Size(new)
  <2>1. i < NumCols + 1
    BY <1>1 DEF Columns
  <2>2. curOffset = NewOffset(i) /\ Size(new) = NewOffset(NumCols + 1)
    BY <1>1, NewOffsets DEF Copying
  <2> QED
    BY <1>1, <2>1, <2>2, NewOffsets
<1>6. Size(new) \in Nat /\ new.data \in [0 .. Size(new) - 1 -> Nat]
  BY <1>3 DEF IsTuple
<1> HIDE DEF bytes
<1>7. /\ W \in [0 .. Size(new) - 1 -> Nat]
      /\ \A k \in 1 .. Len(bytes) : W[curOffset + (k - 1)] = bytes[k]
      /\ \A k \in 0 .. Size(new) - 1 : k < curOffset => W[k] = new.data[k]
  <2> DEFINE n == Size(new)
             data == new.data
             offset == curOffset
  <2>1. /\ n \in Nat /\ data \in [0 .. n - 1 -> Nat]
        /\ offset \in Nat /\ bytes \in Seq(Nat) /\ offset + Len(bytes) <= n
    BY <1>5, <1>6
  <2> HIDE DEF n, data, offset
  <2>2. /\ Write(data, offset, bytes) \in [0 .. n - 1 -> Nat]
        /\ \A k \in 1 .. Len(bytes) : Write(data, offset, bytes)[offset + (k - 1)] = bytes[k]
        /\ \A k \in 0 .. n - 1 : k < offset => Write(data, offset, bytes)[k] = data[k]
    BY <2>1, WriteEffect, ZenonT(30)
  <2> QED
    BY <2>2 DEF W, n, data, offset
<1>8. Size(new)' = Size(new)
  BY <1>4 DEF Size
<1>9. loc \in Locs
  BY <1>5 DEF loc, Locs
<1>10. IsTuple(new)'
  <2>1. new'.locs \in [Columns -> Locs]
    BY <1>1, <1>3, <1>4, <1>9 DEF IsTuple
  <2>2. new'.data \in [0 .. Size(new)' - 1 -> Nat]
    BY <1>4, <1>7, <1>8
  <2> QED
    BY <1>3, <1>4, <1>8, <2>1, <2>2 DEF IsTuple, Size
<1>11. TypeOK'
  <2>1. IsTuple(tuple)' /\ LocsInside(tuple)'
    BY <1>2 DEF IInv, TypeOK, IsTuple, LocsInside, Size
  <2>2. (change = NoChange \/ (change.col \in Columns /\ change.datum \in Data))'
    BY <1>2 DEF IInv, TypeOK, NoChange, Data
  <2>3. i' \in 1 .. NumCols + 1
    BY <1>1, <1>2 DEF Columns
  <2>4. curOffset' \in Nat
    BY <1>2, <1>5 DEF bytes
  <2> QED
    BY <1>10, <2>1, <2>2, <2>3, <2>4 DEF TypeOK
<1>12. LayoutSound' /\ Ordered(tuple)'
  BY <1>2 DEF IInv, LayoutSound, Contiguous, Size, Ordered
<1>13. \A c \in 1 .. i : /\ c \in Columns
                         /\ NewOffset(c)' = NewOffset(c)
                         /\ NewBytes(c)' = NewBytes(c)
  BY <1>1, <1>2 DEF Columns, NewOffset, OldOffset, Growth, NewBytes, BytesAt, Size
<1>14. ASSUME NEW c \in 1 .. i - 1
       PROVE  Copied(c)'
  <2>1. c \in 1 .. i /\ c \in Columns /\ c # i /\ i \in 1 .. NumCols + 1 /\ c < i
    BY <1>1, <1>13 DEF Columns
  <2>2. /\ new.locs[c] = [offset |-> NewOffset(c), length |-> Len(NewBytes(c))]
        /\ BytesAt(new, c) = NewBytes(c)
    BY <1>1 DEF Copying, Copied
  <2>3. new'.locs[c] = new.locs[c]
    BY <1>3, <1>4, <2>1 DEF IsTuple
  <2>4. /\ NewOffset(c) \in Nat /\ Len(NewBytes(c)) \in Nat
        /\ NewOffset(c) + Len(NewBytes(c)) <= curOffset
    BY <1>1, <1>5, <2>1, NewOffsets
  <2>5. \A k \in 1 .. Len(NewBytes(c)) :
           W[NewOffset(c) + (k - 1)] = new.data[NewOffset(c) + (k - 1)]
    <3>1. \A k \in 1 .. Len(NewBytes(c)) :
             /\ NewOffset(c) + (k - 1) \in 0 .. Size(new) - 1
             /\ NewOffset(c) + (k - 1) < curOffset
      BY <1>5, <1>6, <2>4
    <3> QED
      BY <1>7, <3>1
  <2>6. BytesAt(new, c) = [k \in 1 .. Len(NewBytes(c)) |-> new.data[NewOffset(c) + (k - 1)]]
    BY <2>2 DEF BytesAt
  <2>7. BytesAt(new, c)' = [k \in 1 .. Len(NewBytes(c)) |-> W[NewOffset(c) + (k - 1)]]
    BY <1>4, <2>2, <2>3 DEF BytesAt
  <2>8. BytesAt(new, c)' = NewBytes(c)
    BY <2>2, <2>5, <2>6, <2>7
  <2> QED
    BY <1>13, <2>1, <2>2, <2>3, <2>8 DEF Copied
<1>15. ASSUME NEW c \in 1 .. i, c = i
       PROVE  Copied(c)'
  <2>1. new'.locs[c] = [offset |-> curOffset, length |-> Len(bytes)]
    BY <1>1, <1>3, <1>4, <1>15 DEF IsTuple, loc
  <2>2. BytesAt(new, c)' = [k \in 1 .. Len(bytes) |-> W[curOffset + (k - 1)]]
    BY <1>4, <2>1 DEF BytesAt
  <2>3. [k \in 1 .. Len(bytes) |-> W[curOffset + (k - 1)]] = bytes
    BY <1>5, <1>7
  <2> QED
    BY <1>5, <1>13, <1>15, <2>1, <2>2, <2>3 DEF Copied, bytes
<1>16. Copying'
  <2>1. (curOffset = NewOffset(i))'
    <3>1. NewOffset(i)' = NewOffset(i + 1)
      BY <1>2 DEF NewOffset, OldOffset, Growth, Size
    <3> QED
      BY <1>2, <1>5, <3>1 DEF bytes
  <2>2. (Size(new) = Size(tuple) + Growth)'
    BY <1>1, <1>2, <1>8 DEF Copying, Growth, Size
  <2>3. (new.tid = tuple.tid /\ new.nulls = NewNulls(change.col, change.datum))'
    <3>1. NewNulls(change.col, change.datum)' = NewNulls(change.col, change.datum)
      BY <1>2, Zenon DEF NewNulls
    <3> QED
      BY <1>1, <1>2, <1>4, <3>1 DEF Copying
  <2>4. (\A c \in 1 .. i - 1 : Copied(c))'
    <3>1. \A c \in 1 .. i' - 1 : c \in 1 .. i - 1 \/ (c \in 1 .. i /\ c = i)
      BY <1>1, <1>2 DEF Columns
    <3>2. \A c \in 1 .. i' - 1 : Copied(c)'
      BY <1>14, <1>15, <3>1
    <3> QED
      BY <3>2
  <2> QED
    BY <2>1, <2>2, <2>3, <2>4 DEF Copying
<1> QED
  BY <1>1, <1>2, <1>11, <1>12, <1>16 DEF IInv

-----------------------------------------------------------------------------
\* When the loop is over, the new block is the tuple with the change.
LEMMA CopyIsComplete ==
    ASSUME IInv, change # NoChange, i > NumCols
    PROVE  /\ IsTuple(new) /\ LocsInside(new) /\ Contiguous(new) /\ Ordered(new)
           /\ new.tid = tuple.tid
           /\ new.nulls = NewNulls(change.col, change.datum)
           /\ \A c \in Columns : BytesAt(new, c) = NewBytes(c)
<1>1. /\ NumCols \in Nat \ {0} /\ i = NumCols + 1 /\ 1 .. i - 1 = Columns
      /\ IsTuple(new) /\ Copying
  BY NumColsAssumption DEF IInv, TypeOK, Columns
<1>2. \A c \in Columns : /\ new.locs[c].offset = NewOffset(c)
                         /\ new.locs[c].length = Len(NewBytes(c))
                         /\ BytesAt(new, c) = NewBytes(c)
  <2> SUFFICES ASSUME NEW c \in Columns
               PROVE  /\ new.locs[c].offset = NewOffset(c)
                      /\ new.locs[c].length = Len(NewBytes(c))
                      /\ BytesAt(new, c) = NewBytes(c)
    BY Zenon
  <2>1. Copied(c)
    BY <1>1 DEF Copying
  <2>2. /\ new.locs[c] = [offset |-> NewOffset(c), length |-> Len(NewBytes(c))]
        /\ BytesAt(new, c) = NewBytes(c)
    BY <2>1, Zenon DEF Copied
  <2> QED
    BY <2>2
<1>3. Size(new) = NewOffset(NumCols + 1)
  BY <1>1, NewOffsets DEF Copying
<1>4. LocsInside(new)
  <2>1. \A c \in Columns : c < NumCols + 1 /\ NumCols + 1 \in 1 .. NumCols + 1
    BY <1>1 DEF Columns
  <2>2. \A c \in Columns : NewOffset(c) + Len(NewBytes(c)) <= NewOffset(NumCols + 1)
    BY <2>1, NewOffsets
  <2> QED
    BY <1>2, <1>3, <2>2 DEF LocsInside
<1>5. Ordered(new)
  <2>1. \A b \in Columns : b \in 1 .. NumCols + 1
    BY <1>1 DEF Columns
  <2>2. \A a, b \in Columns : a < b => NewOffset(a) + Len(NewBytes(a)) <= NewOffset(b)
    BY <2>1, NewOffsets
  <2> QED
    BY <1>2, <2>2 DEF Ordered
<1>6. Contiguous(new)
  <2>1. 1 \in Columns /\ NumCols \in Columns /\ \A c \in Columns \ {NumCols} : c + 1 \in Columns
    BY <1>1 DEF Columns
  <2>2. NewOffset(1) = 0
    BY NewOffsets
  <2>3. \A c \in Columns : NewOffset(c + 1) = NewOffset(c) + Len(NewBytes(c))
    BY NewOffsets
  <2> QED
    BY <1>2, <1>3, <2>1, <2>2, <2>3 DEF Contiguous
<1> QED
  BY <1>1, <1>2, <1>4, <1>5, <1>6 DEF Copying

\* The copy takes the tuple's place.
LEMMA EndKeepsIInv == ASSUME IInv, EndSetCol PROVE IInv'
<1>1. /\ change # NoChange /\ i > NumCols
      /\ tuple' = new /\ new' = new /\ change' = NoChange /\ i' = 1 /\ curOffset' = 0
  BY DEF EndSetCol, Rest
<1>2. IsTuple(new) /\ LocsInside(new) /\ Contiguous(new) /\ Ordered(new)
  BY <1>1, CopyIsComplete
<1>3. TypeOK'
  BY <1>1, <1>2, NumColsAssumption DEF TypeOK, IsTuple, LocsInside, Size, NoChange
<1> QED
  BY <1>1, <1>2, <1>3 DEF IInv, LayoutSound, Contiguous, Ordered, Size, NoChange

\* A copy of a tuple is the tuple: the block has no more bytes than its length says.
LEMMA CopyIsTuple == ASSUME IInv, CopyTuple PROVE tuple' = tuple
<1>1. IsTuple(tuple)
  BY DEF IInv, TypeOK
<1> DEFINE copy == [k \in 0 .. (tuple.length - DataStart) - 1 |-> tuple.data[k]]
<1>2. copy = tuple.data
  BY <1>1 DEF IsTuple, Size
<1>3. tuple' = [tuple EXCEPT !.data = copy]
  BY DEF CopyTuple
<1> HIDE DEF copy
<1> QED
  BY <1>1, <1>2, <1>3 DEF IsTuple

\* A step that leaves the columns of the tuple alone, with SetCol not running.
LEMMA RestKeepsIInv ==
    ASSUME IInv, change = NoChange, NEW t \in Tids,
           tuple' = [tuple EXCEPT !.tid = t], new' = tuple',
           UNCHANGED <<change, i, curOffset>>
    PROVE  IInv'
<1>1. IsTuple(tuple) /\ LocsInside(tuple)
  BY DEF IInv, TypeOK
<1>2. tuple' = [length |-> tuple.length, tid |-> t, nulls |-> tuple.nulls,
                locs |-> tuple.locs, data |-> tuple.data]
  BY <1>1 DEF IsTuple
<1>3. IsTuple(tuple)' /\ IsTuple(new)' /\ LocsInside(tuple)'
  BY <1>1, <1>2 DEF IsTuple, LocsInside, Size
<1>4. TypeOK'
  BY <1>3 DEF IInv, TypeOK, NoChange, Data
<1>5. Contiguous(tuple)' /\ Ordered(tuple)'
  BY <1>2 DEF IInv, LayoutSound, Contiguous, Ordered, Size
<1> QED
  BY <1>4, <1>5 DEF IInv, LayoutSound, NoChange

\* Every step keeps the invariant.
LEMMA StepKeepsIInv == IInv /\ [Next]_vars => IInv'
<1> SUFFICES ASSUME IInv, [Next]_vars PROVE IInv'
  OBVIOUS
<1>1. CASE \E col \in Columns, datum \in Data : BeginSetCol(col, datum)
  BY <1>1, BeginKeepsIInv
<1>2. CASE CopyColumn
  BY <1>2, CopyKeepsIInv
<1>3. CASE EndSetCol
  BY <1>3, EndKeepsIInv
<1>4. CASE CopyTuple
  <2>1. tuple.tid \in Tids /\ tuple' = [tuple EXCEPT !.tid = tuple.tid]
    BY <1>4, CopyIsTuple DEF IInv, TypeOK, IsTuple
  <2> QED
    BY <1>4, <2>1, RestKeepsIInv DEF CopyTuple
<1>5. CASE \E t \in Tids : SetSelfTid(t)
  BY <1>5, RestKeepsIInv DEF SetSelfTid
<1>6. CASE UNCHANGED vars
  <2>1. Copying => Copying'
    <3>1. UNCHANGED tuple /\ UNCHANGED new /\ UNCHANGED change /\ i' = i /\ UNCHANGED curOffset
      BY <1>6 DEF vars
    <3>2. Growth' = Growth /\ \A c : NewOffset(c)' = NewOffset(c)
      BY <3>1, Zenon DEF NewOffset, OldOffset, Growth, Size
    <3>3. \A c : NewBytes(c)' = NewBytes(c) /\ BytesAt(new, c)' = BytesAt(new, c)
      BY <3>1, Zenon DEF NewBytes, BytesAt
    <3>4. \A c : Copied(c) => Copied(c)'
      BY <3>1, <3>2, <3>3, Zenon DEF Copied
    <3>5. NewNulls(change.col, change.datum)' = NewNulls(change.col, change.datum)
      BY <3>1, Zenon DEF NewNulls
    <3>6. ASSUME Copying
          PROVE  /\ (curOffset = NewOffset(i))'
                 /\ (Size(new) = Size(tuple) + Growth)'
                 /\ (new.tid = tuple.tid)'
                 /\ (new.nulls = NewNulls(change.col, change.datum))'
                 /\ (\A c \in 1 .. i - 1 : Copied(c))'
      BY <3>1, <3>2, <3>4, <3>5, <3>6, Zenon DEF Copying, Size
    <3> QED
      BY <3>6, Zenon DEF Copying
  <2>2. TypeOK'
    BY <1>6 DEF IInv, TypeOK, vars, IsTuple, LocsInside, Size, NoChange, Data
  <2>3. LayoutSound' /\ Ordered(tuple)'
    BY <1>6 DEF IInv, LayoutSound, Contiguous, Ordered, Size, vars
  <2> QED
    BY <1>6, <2>1, <2>2, <2>3 DEF IInv, vars, NoChange
<1> QED
  BY <1>1, <1>2, <1>3, <1>4, <1>5, <1>6 DEF Next

\* The invariant is inductive.
THEOREM Inductive == Spec => []IInv
<1>1. Init => IInv
  BY InitEstablishesIInv
<1>2. IInv /\ [Next]_vars => IInv'
  BY StepKeepsIInv
<1> QED
  BY <1>1, <1>2, PTL DEF Spec

\* Type correctness: a tuple is a block of as many bytes as its length says, and each
\* DataLoc lies inside of it.
THEOREM TypeCorrect == Spec => []TypeOK
<1>1. IInv => TypeOK
  BY DEF IInv
<1> QED
  BY <1>1, Inductive, PTL

\* SetCol keeps the data contiguous and the length exact: the new length minus the old
\* length, added again and again, never drifts.
THEOREM LayoutAlwaysSound == Spec => []LayoutSound
<1>1. IInv => LayoutSound
  BY DEF IInv
<1> QED
  BY <1>1, Inductive, PTL

\* The memcpys of SetCol's loop stay inside of the block it allocated.
THEOREM CopyStaysInBlock == Spec => []CopyInBlock
<1>1. IInv => CopyInBlock
  <2> SUFFICES ASSUME IInv, change # NoChange, i <= NumCols
               PROVE  curOffset + Len(NewBytes(i)) <= Size(new)
    BY DEF CopyInBlock
  <2>1. /\ i \in Columns /\ i < NumCols + 1 /\ NumCols + 1 \in 1 .. NumCols + 1
        /\ Copying
    BY NumColsAssumption DEF IInv, TypeOK, Columns
  <2>2. curOffset = NewOffset(i) /\ Size(new) = NewOffset(NumCols + 1)
    BY <2>1, NewOffsets DEF Copying
  <2> QED
    BY <2>1, <2>2, NewOffsets
<1> QED
  BY <1>1, Inductive, PTL

-----------------------------------------------------------------------------
\* Reading a column of the new block gives the value it was set to, and what it was
\* before for the others.
LEMMA ReadsBack ==
    ASSUME IInv, change # NoChange, i > NumCols
    PROVE  [c \in Columns |-> GetColByIdx(new, c)] =
               [[c \in Columns |-> GetColByIdx(tuple, c)] EXCEPT ![change.col] = change.datum]
<1>1. /\ change.col \in Columns /\ change.datum \in Data
      /\ tuple.nulls \in [Columns -> BOOLEAN]
  BY DEF IInv, TypeOK, IsTuple
<1>2. ASSUME NEW c \in Columns
      PROVE  GetColByIdx(new, c) =
                 IF c = change.col THEN change.datum ELSE GetColByIdx(tuple, c)
  <2>1. BytesAt(new, c) = NewBytes(c) /\ new.nulls = NewNulls(change.col, change.datum)
    BY CopyIsComplete
  <2>2. CASE c = change.col
    <3>1. new.nulls[c] <=> change.datum = Null
      BY <1>1, <2>1, <2>2, Zenon DEF NewNulls
    <3>2. BytesAt(new, c) = Bytes(change.datum)
      BY <2>1, <2>2 DEF NewBytes
    <3> QED
      BY <2>2, <3>1, <3>2, Zenon DEF GetColByIdx, Bytes
  <2>3. CASE c # change.col
    <3>1. new.nulls[c] = tuple.nulls[c]
      BY <1>1, <2>1, <2>3, Zenon DEF NewNulls
    <3>2. BytesAt(new, c) = BytesAt(tuple, c)
      BY <2>1, <2>3 DEF NewBytes
    <3> QED
      BY <2>3, <3>1, <3>2, Zenon DEF GetColByIdx
  <2> QED
    BY <2>2, <2>3
<1> QED
  BY <1>1, <1>2

\* A new tuple is a row of NULLs.
LEMMA InitRefines == Init => Row!Init
<1> SUFFICES ASSUME Init PROVE Row!Init
  OBVIOUS
<1>1. tuple = MakeTuple /\ change = NoChange
  BY DEF Init
<1>2. \A c \in Columns : GetColByIdx(tuple, c) = Null
  BY <1>1 DEF GetColByIdx, MakeTuple
<1>3. tuple.tid = ZeroTid
  BY <1>1 DEF MakeTuple
<1> QED
  BY <1>1, <1>2, <1>3 DEF Row!Init

\* Each step of SetCol is a step of the promise or leaves what it promises alone.
LEMMA StepRefines == IInv /\ [Next]_vars => [Row!Next]_(Row!vars)
<1> SUFFICES ASSUME IInv, [Next]_vars PROVE [Row!Next]_(Row!vars)
  OBVIOUS
<1> DEFINE row == [c \in Columns |-> GetColByIdx(tuple, c)]
<1>1. ASSUME UNCHANGED tuple, UNCHANGED change
      PROVE  UNCHANGED Row!vars
  BY <1>1, Zenon DEF Row!vars, GetColByIdx, BytesAt
<1>2. ASSUME NEW col \in Columns, NEW datum \in Data, BeginSetCol(col, datum)
      PROVE  Row!Next
  <2>1. UNCHANGED row /\ tuple'.tid = tuple.tid
    BY <1>2, Zenon DEF BeginSetCol, GetColByIdx, BytesAt
  <2>2. Row!AskSet(col, datum)
    BY <1>2, <2>1, Zenon DEF BeginSetCol, Row!AskSet
  <2> QED
    BY <2>2, Zenon DEF Row!Next, Data
<1>3. CASE CopyColumn
  BY <1>1, <1>3 DEF CopyColumn
<1>4. CASE EndSetCol
  <2>1. /\ change # NoChange /\ i > NumCols /\ tuple' = new /\ change' = NoChange
    BY <1>4 DEF EndSetCol, Rest
  <2>2. row' = [c \in Columns |-> GetColByIdx(new, c)]
    BY <2>1, Zenon DEF GetColByIdx, BytesAt
  <2>3. row' = [row EXCEPT ![change.col] = change.datum]
    BY <2>1, <2>2, ReadsBack, Zenon
  <2>4. tuple'.tid = tuple.tid
    BY <2>1, CopyIsComplete
  <2>5. Row!DoSet
    BY <2>1, <2>3, <2>4, Zenon DEF Row!DoSet
  <2> QED
    BY <2>5, Zenon DEF Row!Next
<1>5. CASE CopyTuple
  BY <1>1, <1>5, CopyIsTuple DEF CopyTuple
<1>6. ASSUME NEW t \in Tids, SetSelfTid(t)
      PROVE  Row!Next
  <2>1. IsTuple(tuple)
    BY DEF IInv, TypeOK
  <2>2. /\ tuple'.nulls = tuple.nulls /\ tuple'.locs = tuple.locs
        /\ tuple'.data = tuple.data /\ tuple'.tid = t
    BY <1>6, <2>1 DEF SetSelfTid, IsTuple
  <2>3. UNCHANGED row
    BY <2>2, Zenon DEF GetColByIdx, BytesAt
  <2>4. Row!Stamp(t)
    BY <1>6, <2>2, <2>3, Zenon DEF SetSelfTid, Row!Stamp
  <2> QED
    BY <2>4, Zenon DEF Row!Next
<1>7. CASE UNCHANGED vars
  BY <1>1, <1>7 DEF vars
<1> QED
  BY <1>2, <1>3, <1>4, <1>5, <1>6, <1>7 DEF Next

\* A tuple implements its promise: a column reads as the value it was last given.
THEOREM Refinement == Spec => ImplementsTupleSpec
<1>1. Init => Row!Init
  BY InitRefines
<1>2. IInv /\ [Next]_vars => [Row!Next]_(Row!vars)
  BY StepRefines
<1> QED
  BY <1>1, <1>2, Inductive, PTL DEF Spec, ImplementsTupleSpec, Row!Spec
=============================================================================
