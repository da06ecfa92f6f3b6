----------------------------- MODULE MCDiscover -----------------------------
(* Model-checking instance of Discover: a directory to monitor, with a     *)
(* directory and a file in it, and one that the configuration names by a   *)
(* symbolic link, with an excluded file, on the same mount.                *)
EXTENDS Discover

CONSTANTS a, b, top, sub, link

MCParent == b :> link @@ sub :> top @@ a :> sub
MCOnMount == [i \in Inode |-> Root]
=============================================================================
