----------------------------- MODULE MCRestore -----------------------------
(* Model-checking instance of Restore: one file, with a block twice.       *)
EXTENDS Restore

CONSTANTS h1, h2

MCContent == [m \in Meta |-> <<h1, h2, h1>>]
=============================================================================
