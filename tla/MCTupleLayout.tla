----------------------------- MODULE MCTupleLayout -----------------------------
(***************************************************************************)
(* An instance of TupleLayout: three columns and data of one, two and      *)
(* three bytes, zero bytes among them.                                     *)
(***************************************************************************)
EXTENDS TupleLayout

SomeValues == {<<0>>, <<1, 2>>, <<2, 1>>, <<3, 0, 3>>}
=============================================================================
