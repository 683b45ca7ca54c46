------------------------------- MODULE TupleSpec -------------------------------
(***************************************************************************)
(* What a tuple promises: a column has the value it was last given, NULL   *)
(* before that, whatever the other columns are set to, and the tuple keeps *)
(* the id it was given.  A column is set in two steps: it is asked for,    *)
(* and done.                                                               *)
(***************************************************************************)
CONSTANTS Columns, Values, Null, Tids, ZeroTid, NoChange

VARIABLES row,    \* [Columns -> Values \cup {Null}]
          tid,    \* self_tid
          change  \* the column and the value asked for, or NoChange

vars == <<row, tid, change>>

Init ==
    /\ row = [c \in Columns |-> Null]
    /\ tid = ZeroTid
    /\ change = NoChange

AskSet(c, value) ==
    /\ change = NoChange
    /\ change' = [col |-> c, datum |-> value]
    /\ UNCHANGED <<row, tid>>

DoSet ==
    /\ change # NoChange
    /\ row' = [row EXCEPT ![change.col] = change.datum]
    /\ change' = NoChange
    /\ UNCHANGED tid

Stamp(t) ==
    /\ change = NoChange
    /\ tid' = t
    /\ UNCHANGED <<row, change>>

Next ==
    \/ \E c \in Columns, value \in Values \cup {Null} : AskSet(c, value)
    \/ DoSet
    \/ \E t \in Tids : Stamp(t)

Spec == Init /\ [][Next]_vars
=============================================================================
