----------------------------- MODULE MCVersions -----------------------------
(* Model-checking instance of Versions: a link whose target is elsewhere, *)
(* a directory, and a file in it that has the last component of the link; *)
(* the names of the last two, read as regular expressions, match all of   *)
(* them (/b, /|d and /|d/b). The first two times are the same local time. *)
EXTENDS Versions

MCBase == <<2, 1, 2>>
MCDir  == <<0, 0, 2>>
MCKind == <<"link", "directory", "file">>
MCLike == <<{1}, Name, Name>>
MCDateString == <<1, 1, 2>>
=============================================================================
