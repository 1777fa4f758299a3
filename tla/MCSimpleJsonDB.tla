--------------------------- MODULE MCSimpleJsonDB ---------------------------
(***************************************************************************)
(* SimpleJsonDB and its inductive invariant, for TLC: the databases are    *)
(* model values.                                                           *)
(***************************************************************************)
EXTENDS SimpleJsonDBInv
=============================================================================
