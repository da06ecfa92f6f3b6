--------------------------- MODULE MCObjectStore ---------------------------
(* Model-checking instance of ObjectStore: a connection and the data       *)
(* thread, a block that can be stored and one that can not.                *)
EXTENDS ObjectStore
=============================================================================
