------------------------------ MODULE TupleLayout ------------------------------
(***************************************************************************)
(* The bytes of a tuple: a header with its length and self_tid, a byte per *)
(* column that says whether it is NULL, a DataLoc per column and the data. *)
(* SetCol makes a new block for each change and copies the other columns   *)
(* one by one, at offsets that it adds up on the way; its loop is a step   *)
(* per column here.                                                        *)
(*                                                                         *)
(* Columns are counted from 1, offsets and the bytes of data from 0.       *)
(***************************************************************************)
EXTENDS Integers, Sequences

CONSTANTS NumCols,    \* arrlenu(table_def->tuple_desc)
          DataStart,  \* what GetDataPtr adds: header, null_bitmap, DataLocs
          Values,     \* the bytes of data that are not NULL
          Null,       \* the datum of T_NULL
          Tids, ZeroTid

ASSUME NumColsAssumption == NumCols \in Nat \ {0}
ASSUME DataStartAssumption == DataStart \in Nat
ASSUME ValuesAssumption == Values \subseteq Seq(Nat) /\ Null \notin Values
ASSUME TidsAssumption == ZeroTid \in Tids

VARIABLES tuple,      \* the tuple
          new,        \* SetCol's new_tuple; the tuple itself when SetCol is not running
          change,     \* SetCol's arguments: change_idx and datum
          i,          \* the loop's column
          curOffset   \* cur_offset

vars == <<tuple, new, change, i, curOffset>>

Columns == 1 .. NumCols
Data == Values \cup {Null}

\* MakeDatum: a NULL has length 0.
Bytes(datum) == IF datum = Null THEN <<>> ELSE datum

\* The bytes that a DataLoc names, copied out and in.
BytesAt(t, c) ==
    [k \in 1 .. t.locs[c].length |-> t.data[t.locs[c].offset + (k - 1)]]
Write(data, offset, bytes) ==
    [k \in DOMAIN data |->
        IF k \in offset .. offset + Len(bytes) - 1 THEN bytes[(k - offset) + 1] ELSE data[k]]

\* calloc: the data part of a block of a size, all zero.
Zeros(size) == [k \in 0 .. (size - DataStart) - 1 |-> 0]

\* GetColByIdx, and GetCol once it has found the column's place.
GetColByIdx(t, c) == IF t.nulls[c] THEN Null ELSE BytesAt(t, c)

-----------------------------------------------------------------------------
\* MakeTuple: a NULL byte for each column, one behind the other.
MadeLengthNoData == DataStart
MadeLength == DataStart + NumCols

MakeTuple ==
    [length |-> MadeLength, tid |-> ZeroTid,
     nulls |-> [c \in Columns |-> TRUE],
     locs |-> [c \in Columns |-> [offset |-> c - 1, length |-> 1]],
     data |-> Zeros(MadeLength)]

NoChange == [col |-> 0, datum |-> Null]

Rest == change' = NoChange /\ i' = 1 /\ curOffset' = 0

Init ==
    /\ tuple = MakeTuple /\ new = tuple
    /\ change = NoChange /\ i = 1 /\ curOffset = 0

NewSizeKeepsOld(col, datum) == tuple.length + Len(Bytes(datum))
NewSizeNoDatum(col, datum) == tuple.length - tuple.locs[col].length
NewSize(col, datum) == tuple.length + Len(Bytes(datum)) - tuple.locs[col].length

NewNullsOnlySet(col, datum) ==
    IF datum = Null THEN [tuple.nulls EXCEPT ![col] = TRUE] ELSE tuple.nulls
NewNulls(col, datum) == [tuple.nulls EXCEPT ![col] = (datum = Null)]

\* SetCol up to its loop.
BeginSetCol(col, datum) ==
    /\ change = NoChange
    /\ change' = [col |-> col, datum |-> datum]
    /\ new' = [length |-> NewSize(col, datum), tid |-> tuple.tid,
               nulls |-> NewNulls(col, datum),
               locs |-> [c \in Columns |-> [offset |-> 0, length |-> 0]],
               data |-> Zeros(NewSize(col, datum))]
    /\ UNCHANGED <<tuple, i, curOffset>>

\* What the loop writes for a column.
NewBytes(c) == IF c = change.col THEN Bytes(change.datum) ELSE BytesAt(tuple, c)

CopyColumn ==
    /\ change # NoChange /\ i <= NumCols
    /\ new' = [new EXCEPT
                  !.locs[i] = [offset |-> curOffset, length |-> Len(NewBytes(i))],
                  !.data = Write(@, curOffset, NewBytes(i))]
    /\ curOffset' = curOffset + Len(NewBytes(i))
    /\ i' = i + 1
    /\ UNCHANGED <<tuple, change>>

EndSetCol ==
    /\ change # NoChange /\ i > NumCols
    /\ tuple' = new
    /\ UNCHANGED new
    /\ Rest

\* CopyTuple, and what a tuple is when it comes back from a page: as many bytes of
\* the block as its length says.
CopyTuple ==
    /\ change = NoChange
    /\ tuple' = [tuple EXCEPT !.data = [k \in 0 .. (tuple.length - DataStart) - 1 |-> @[k]]]
    /\ new' = tuple'
    /\ UNCHANGED <<change, i, curOffset>>

\* CursorInsertTuple and CursorUpdateTupleById set self_tid.
SetSelfTid(t) ==
    /\ change = NoChange
    /\ tuple' = [tuple EXCEPT !.tid = t]
    /\ new' = tuple'
    /\ UNCHANGED <<change, i, curOffset>>

Next ==
    \/ \E col \in Columns, datum \in Data : BeginSetCol(col, datum)
    \/ CopyColumn \/ EndSetCol \/ CopyTuple
    \/ \E t \in Tids : SetSelfTid(t)

Spec == Init /\ [][Next]_vars

-----------------------------------------------------------------------------
Locs == [offset : Nat, length : Nat]
Size(t) == t.length - DataStart
IsTuple(t) ==
    /\ t = [length |-> t.length, tid |-> t.tid, nulls |-> t.nulls, locs |-> t.locs,
            data |-> t.data]
    /\ t.length \in Nat /\ Size(t) \in Nat
    /\ t.tid \in Tids
    /\ t.nulls \in [Columns -> BOOLEAN]
    /\ t.locs \in [Columns -> Locs]
    /\ t.data \in [0 .. Size(t) - 1 -> Nat]

\* Each DataLoc lies inside of the block.
LocsInside(t) == \A c \in Columns : t.locs[c].offset + t.locs[c].length <= Size(t)

TypeOK ==
    /\ IsTuple(tuple) /\ LocsInside(tuple)
    /\ IsTuple(new)
    /\ change = NoChange \/ (change.col \in Columns /\ change.datum \in Data)
    /\ i \in 1 .. NumCols + 1
    /\ curOffset \in Nat

\* The data of a tuple is that of its columns, in their order, without gaps and
\* overlaps, and its length counts all of it: sizes that SetCol keeps by adding the
\* new and subtracting the old length never drift.
Contiguous(t) ==
    /\ t.locs[1].offset = 0
    /\ \A c \in Columns \ {NumCols} : t.locs[c + 1].offset = t.locs[c].offset + t.locs[c].length
    /\ Size(t) = t.locs[NumCols].offset + t.locs[NumCols].length

LayoutSound == Contiguous(tuple)

\* The copy loop never writes behind the block that was allocated for it, whether a
\* column grows, shrinks, becomes NULL or has been NULL.
CopyInBlock ==
    change # NoChange /\ i <= NumCols => curOffset + Len(NewBytes(i)) <= Size(new)

\* A tuple implements its promise: between two calls of SetCol a column reads as the
\* value it was last given.
Row == INSTANCE TupleSpec WITH
    row <- [c \in Columns |-> GetColByIdx(tuple, c)],
    tid <- tuple.tid

ImplementsTupleSpec == Row!Spec
=============================================================================
