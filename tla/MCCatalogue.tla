---------------------------- MODULE MCCatalogue ----------------------------
(* Model-checking instance of Catalogue: a file of root's with two blocks  *)
(* and zeros, a link of alice's whose name has marks in it, a file of a    *)
(* user who has no name, and one of a user whose name is like alice's.     *)
EXTENDS Catalogue

CONSTANTS n1, n2, target, root, alice, malice, empty, nullText, any, tilde, h1, h2,
          e1, e2, e3, e4, e5, e6, e7, e8

MCChars == (n1 :> <<n1>>) @@ (n2 :> <<Quote, Comma, NewLine>>) @@ (target :> <<target>>)
        @@ (root :> <<root>>) @@ (alice :> <<alice>>) @@ (malice :> <<malice>>)
        @@ (empty :> <<>>) @@ (nullText :> <<nullText>>)

MCEncoded == (n1 :> e1) @@ (n2 :> e2) @@ (target :> e3) @@ (root :> e4) @@ (alice :> e5)
          @@ (malice :> e6) @@ (empty :> e7) @@ (nullText :> e8)

MCOctets == (h1 :> <<0, 175>>) @@ (h2 :> <<160, 9>>)

MCLike == (any :> {n1, n2}) @@ (n1 :> {n1}) @@ (tilde :> {n2}) @@ (root :> {root})
       @@ (alice :> {alice, malice})

A(type, mtime, owner, id, gid, name, link, hashs) ==
    [k \in Keys |->
        CASE k = "filetype" -> type [] k = "mtime" -> mtime
          [] k \in {"inode", "mode", "atime", "ctime"} -> 5
          [] k = "fsize" -> Len(hashs)
          [] k \in {"owner", "group"} -> owner [] k = "uid" -> id [] k = "gid" -> gid
          [] k = "name" -> name [] k = "link" -> link [] k = "hash_list" -> hashs]

MCMeta == {A(1, 2, root, 0, 0, n1, empty, <<h1, h2>>),
           A(3, 3, alice, 1, 1, n2, target, <<>>),
           A(1, 0, malice, 2, 2, n2, empty, <<h1>>),
           A(1, 4, NULL, 1, 1, n1, empty, <<h2, h2, h1>>)}

Q(filename, date, after, beforeD, owner, id, gid) ==
    [filename |-> filename, date |-> date, afterdate |-> after, beforedate |-> beforeD,
     owner |-> owner, group |-> owner, uid |-> id, gid |-> gid]

MCQuery == {Q(any, NULL, NULL, NULL, root, 0, 0),
            Q(n1, {2}, NULL, 9, root, 0, 0),
            Q(any, {2, 3}, 3, 4, alice, 1, 1),
            Q(tilde, NULL, 1, NULL, alice, 1, 1)}
=============================================================================
