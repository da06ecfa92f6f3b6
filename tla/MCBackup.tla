------------------------------ MODULE MCBackup ------------------------------
(* Model-checking instance of Backup: a small file and a big one that      *)
(* share a block; one of a single block where the client restarts.         *)
EXTENDS Backup

CONSTANTS tiny, small, big, h1, h2

MCContent ==
    [f \in File |-> CASE f = tiny  -> <<h2>>
                      [] f = small -> <<h1, h2>>
                      [] f = big   -> <<h2, h2>>]
=============================================================================
