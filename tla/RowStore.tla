------------------------------- MODULE RowStore -------------------------------
(***************************************************************************)
(* What a table promises: INSERT, UPDATE and DELETE take effect row by row *)
(* and do exactly what the statement says, on the rows that were there     *)
(* when it began; a crash leaves the rows done so far, and loses at most   *)
(* one row: the one that an UPDATE has taken out and not yet put back.     *)
(* The table is a multiset of rows, counts[r] copies of row r.             *)
(***************************************************************************)
EXTENDS Integers, Sequences

CONSTANT Rows

VARIABLES counts,  \* [Rows -> Nat]: the table
          job,     \* "idle", "insert", "update" or "delete"
          todo,    \* [Rows -> Nat]: rows still to insert, update or delete
          set,     \* [Rows -> Rows]: the SET clause of the running UPDATE
          hand     \* <<>>, or <<r>>: the new version of the row taken out

vars == <<counts, job, todo, set, hand>>

NoRows == [r \in Rows |-> 0]
KeepRow == [r \in Rows |-> r]

PlusRow(c, r) == [c EXCEPT ![r] = @ + 1]
MinusRow(c, r) == [c EXCEPT ![r] = @ - 1]

Idle == job' = "idle" /\ todo' = NoRows /\ set' = KeepRow /\ hand' = <<>>

Init ==
    /\ counts = NoRows
    /\ job = "idle" /\ todo = NoRows /\ set = KeepRow /\ hand = <<>>

BeginInsert ==
    /\ job = "idle"
    /\ job' = "insert"
    /\ todo' \in [Rows -> 0 .. 2]
    /\ UNCHANGED <<counts, set, hand>>

\* The rows that match the WHERE clause when the statement begins.
Matching(where) == [r \in Rows |-> IF r \in where THEN counts[r] ELSE 0]

BeginUpdate ==
    /\ job = "idle"
    /\ job' = "update"
    /\ \E where \in SUBSET Rows : todo' = Matching(where)
    /\ set' \in [Rows -> Rows]
    /\ UNCHANGED <<counts, hand>>

BeginDelete ==
    /\ job = "idle"
    /\ job' = "delete"
    /\ \E where \in SUBSET Rows : todo' = Matching(where)
    /\ UNCHANGED <<counts, set, hand>>

Insert(r) ==
    /\ job = "insert" /\ todo[r] > 0
    /\ counts' = PlusRow(counts, r)
    /\ todo' = MinusRow(todo, r)
    /\ UNCHANGED <<job, set, hand>>

Delete(r) ==
    /\ job = "delete" /\ todo[r] > 0
    /\ counts' = MinusRow(counts, r)
    /\ todo' = MinusRow(todo, r)
    /\ UNCHANGED <<job, set, hand>>

TakeOut(r) ==
    /\ job = "update" /\ hand = <<>> /\ todo[r] > 0
    /\ counts' = MinusRow(counts, r)
    /\ todo' = MinusRow(todo, r)
    /\ hand' = <<set[r]>>
    /\ UNCHANGED <<job, set>>

PutBack ==
    /\ hand # <<>>
    /\ counts' = PlusRow(counts, hand[1])
    /\ hand' = <<>>
    /\ UNCHANGED <<job, todo, set>>

Finish ==
    /\ job # "idle" /\ todo = NoRows /\ hand = <<>>
    /\ Idle
    /\ UNCHANGED counts

Crash ==
    /\ job # "idle"
    /\ Idle
    /\ UNCHANGED counts

Next ==
    \/ BeginInsert \/ BeginUpdate \/ BeginDelete
    \/ \E r \in Rows : Insert(r) \/ Delete(r) \/ TakeOut(r)
    \/ PutBack \/ Finish \/ Crash

Spec == Init /\ [][Next]_vars
=============================================================================
