------------------------------ MODULE MCIngest ------------------------------
(* Model-checking instance of Ingest.                                      *)
EXTENDS Ingest
=============================================================================
