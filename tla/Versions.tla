------------------------------ MODULE Versions ------------------------------
(***************************************************************************)
(* Which files cdpfglrestore lists or restores, and under which names. The *)
(* server has a line for each version of each file, in the order they were *)
(* saved (file_backend.c); it selects those that a query asks for, sorts   *)
(* them, and may keep the latest version of each file (files.c). The list  *)
(* is built by prepending on both sides and sorted on both: the versions   *)
(* that have the same date in seconds have the order the prepending gave   *)
(* them. The program restores the last file of the list, all of them, or   *)
(* all the versions of the last one, which it asks for with a second query *)
(* (restore.c), under names that do not exist yet. A request may fail, the *)
(* server may be unable to open its file, and the program to write a file. *)
(***************************************************************************)
EXTENDS Integers, SequencesExt

CONSTANTS
    NbNames,     \* number of names of files
    NbTimes,     \* number of modification times
    Base,        \* the last component of each name, a number
    Dir,         \* the directory of each name, 0 if it has none
    Kind,        \* what each name is
    Dangling,    \* links whose target does not exist where they are restored
    DateString,  \* the local time of each time: it may be the same for two
    Like,        \* the names that match a name taken as a regular expression
    MaxLines     \* bound: versions saved

(* Names are numbered in the order of their collation keys.                *)
Name == 1 .. NbNames
Time == 1 .. NbTimes

ASSUME ConstantsAssumption ==
    /\ NbNames \in Nat
    /\ NbTimes \in Nat
    /\ Base \in [Name -> Nat \ {0}]
    /\ Dir \in [Name -> Name \cup {0}]
    /\ Kind \in [Name -> {"file", "directory", "link"}]
    /\ \A f \in Name : Dir[f] # 0 => Kind[Dir[f]] = "directory" /\ Dir[Dir[f]] = 0
    /\ Dangling \subseteq {f \in Name : Kind[f] = "link"}
    /\ DateString \in [Time -> Nat \ {0}]
    /\ Like \in [Name -> SUBSET Name]
    /\ MaxLines \in Nat

VARIABLES
    lines,    \* the meta data file of the host; a version is a place in it
    dir,      \* what is in the directory where files are restored
    step,     \* where cdpfglrestore is
    opt,      \* its options
    list,     \* the versions it has still to restore or to list
    screen,   \* the versions it has listed
    printed,  \* it printed an error
    seen,     \* history: the versions its last query asked for
    unopened  \* history: the server could not open its file to answer

programVars == <<step, opt, list, screen, printed, seen, unopened>>
vars == <<lines, dir, programVars>>

Mode == {"last", "all_files", "all_versions"}

Option == [list : BOOLEAN, mode : Mode, parents : BOOLEAN, latest : BOOLEAN]

(* What a query selects: the names its regular expression matches, the     *)
(* times its dates allow.                                                  *)
Query == [names : (SUBSET Name) \ {{}}, times : (SUBSET Time) \ {{}}, latest : BOOLEAN]

-----------------------------------------------------------------------------
(* Lists of versions.                                                      *)

(* extract_from_line                                                       *)
Matching(q) ==
    {v \in DOMAIN lines : lines[v].name \in q.names /\ lines[v].mtime \in q.times}

(* compare_meta_data_t                                                     *)
ComesBefore(v, w) ==
    \/ lines[v].name < lines[w].name
    \/ lines[v].name = lines[w].name /\ lines[v].mtime < lines[w].mtime

(* The elements of S, each once, in an order.                              *)
Ordered(S, Before(_, _)) ==
    CHOOSE s \in SetToSeqs(S) : \A i, j \in DOMAIN s : i < j => Before(s[i], s[j])

(* g_list_sort and g_slist_sort are stable.                                *)
Sorted(l) ==
    LET Before(i, j) ==
            \/ ComesBefore(l[i], l[j])
            \/ ~ComesBefore(l[j], l[i]) /\ i < j
        place == Ordered(DOMAIN l, Before)
    IN  [i \in DOMAIN l |-> l[place[i]]]

(* keep_latests_meta_data_t_in_list                                        *)
KeepLatests(l) ==
    LET Keep(kept, v) ==
            IF kept = <<>> \/ lines[Last(kept)].name # lines[v].name
            THEN Append(kept, v)
            ELSE IF lines[Last(kept)].mtime < lines[v].mtime
                 THEN Append(Front(kept), v) ELSE kept
    IN  FoldLeft(Keep, <<>>, l)

(* get_file_list_from_regex_and_query prepends the lines it reads;         *)
(* file_get_list_of_files sorts them.                                      *)
ListOfFiles(q) ==
    LET sorted == Sorted(Reverse(Ordered(Matching(q), <)))
    IN  IF q.latest THEN KeepLatests(sorted) ELSE sorted

(* Mutant: the program does not prepend.                                   *)
FilesInOrder(q) == Sorted(ListOfFiles(q))

(* get_files_from_server: the array of the answer is prepended, and sorted *)
(* again.                                                                  *)
FilesFromServer(q) == Sorted(Reverse(ListOfFiles(q)))

-----------------------------------------------------------------------------
(* Names of restored files: a prefix, made of a date and of a number, and  *)
(* the name of the file or its base name. The number is one more than the  *)
(* code's; date and number are 0 when the name has none. With the option   *)
(* --parents the prefix is a directory of its own, whose base is 0.        *)
Target(v, n) ==
    [date   |-> IF opt.mode = "all_versions" THEN DateString[lines[v].mtime] ELSE 0,
     number |-> n,
     dir    |-> IF opt.parents THEN Dir[lines[v].name] ELSE 0,
     base   |-> Base[lines[v].name]]

(* The directories above a name, below the one where files are restored.   *)
Above(t) ==
    IF ~opt.parents THEN {}
    ELSE {[t EXCEPT !.dir = 0, !.base = Base[d]] : d \in {t.dir} \ {0}}
         \cup {u \in {[t EXCEPT !.dir = 0, !.base = 0]} : t.date # 0 \/ t.number # 0}

(* What is in the directory: a version, a file of the user, or a directory *)
(* the program has made; and its modification time if it is not Now.       *)
User == 0
Made == -1
Now  == 0

IsDangling(t) == dir[t].of \in DOMAIN lines /\ lines[dir[t].of].name \in Dangling

(* g_file_query_exists follows links.                                      *)
FileExists(t) == t \in DOMAIN dir /\ ~IsDangling(t)

(* get_unique_filename                                                     *)
UniqueFilename(v) ==
    LET free == {n \in 0 .. Cardinality(DOMAIN dir) : ~FileExists(Target(v, n))}
    IN  Target(v, CHOOSE n \in free : \A k \in free : n <= k)

-----------------------------------------------------------------------------
(* The directory may have files of the same names.                         *)
Init ==
    /\ lines = <<>>
    /\ \E S \in SUBSET Range(Base) :
        dir = [t \in [date : {0}, number : {0}, dir : {0}, base : S]
                 |-> [of |-> User, mtime |-> Now]]
    /\ step = "idle"
    /\ opt = [list |-> FALSE, mode |-> "last", parents |-> FALSE, latest |-> FALSE]
    /\ list = <<>>
    /\ screen = <<>>
    /\ printed = FALSE
    /\ seen = {}
    /\ unopened = FALSE

(* file_store_smeta: a version is saved. Times may be the same, and go     *)
(* back.                                                                   *)
StoreSmeta ==
    /\ Len(lines) < MaxLines
    /\ \E f \in Name, t \in Time : lines' = Append(lines, [name |-> f, mtime |-> t])
    /\ UNCHANGED <<dir, programVars>>

(* The program has no list. When the request fails it prints an error; the *)
(* server that can not open its file answers an object without a list, and *)
(* the program is not told.                                                *)
NoFiles ==
    \/ printed' = TRUE /\ UNCHANGED unopened
    \/ unopened' = TRUE /\ UNCHANGED printed

(* The first query of list_files and restore_files.                        *)
GetUserInfos(o, q) ==
    /\ opt' = o
    /\ seen' = Matching(q)
    /\ UNCHANGED <<lines, dir, screen>>

LastOf(l) == IF l = <<>> THEN l ELSE <<Last(l)>>

(* print_all_files, restore_all_files                                      *)
AllFiles(o, q, files) ==
    /\ o.mode = "all_files" \/ (o.list /\ o.mode = "last")
    /\ GetUserInfos(o, q)
    /\ list' = files
    /\ step' = "each"

RestoreLastFile(o, q, files) ==
    /\ o.mode = "last" /\ ~o.list
    /\ GetUserInfos(o, q)
    /\ list' = LastOf(files)
    /\ step' = "each"

(* Mutant: it is not looked whether a file was found.                      *)
LastFileUnchecked(o, q, files) ==
    /\ o.mode = "all_versions"
    /\ GetUserInfos(o, q)
    /\ list' = LastOf(files)
    /\ step' = "versions"

(* The beginning of print_all_versions and restore_all_versions.           *)
LastFile(o, q, files) ==
    /\ o.mode = "all_versions"
    /\ GetUserInfos(o, q)
    /\ list' = LastOf(files)
    /\ step' = IF list' = <<>> THEN "each" ELSE "versions"

Start(q, files) ==
    \E o \in Option :
        /\ o.latest = q.latest
        /\ AllFiles(o, q, files) \/ RestoreLastFile(o, q, files) \/ LastFile(o, q, files)

(* new_query_from_filename: the regular expression is the name.            *)
QueryFromFilename(f) == [names |-> Like[f], times |-> Time, latest |-> FALSE]

(* The second query of print_all_versions and restore_all_versions.        *)
AllVersions ==
    LET q == QueryFromFilename(lines[Head(list)].name)
    IN  /\ step = "versions"
        /\ \/ list' = FilesFromServer(q) /\ UNCHANGED <<printed, unopened>>
           \/ list' = <<>> /\ NoFiles
        /\ seen' = Matching(q)
        /\ step' = "each"
        /\ UNCHANGED <<lines, dir, opt, screen>>

-----------------------------------------------------------------------------
(* print_smeta_to_screen: this date has its time zone.                     *)
SmetaOnScreen(v) ==
    [type |-> Kind[lines[v].name], date |-> lines[v].mtime, name |-> lines[v].name]

(* print_list_of_smeta                                                     *)
PrintSmeta ==
    /\ step = "each" /\ opt.list
    /\ list # <<>>
    /\ screen' = Append(screen, SmetaOnScreen(Head(list)))
    /\ list' = Tail(list)
    /\ UNCHANGED <<lines, dir, step, opt, printed, seen, unopened>>

(* create_directory. It may fail before it has made all of them, of which  *)
(* the one whose base is 0 is the first.                                   *)
WithDirectories(S) ==
    [u \in DOMAIN dir \cup S |->
        IF u \in DOMAIN dir THEN dir[u] ELSE [of |-> Made, mtime |-> Now]]

MadeFirst(t) ==
    {S \in SUBSET Above(t) : S # {} => {u \in Above(t) : u.base = 0} \subseteq S}

(* Nothing that is above t is a file.                                      *)
Reachable(t, d) == \A u \in Above(t) : u \in DOMAIN d /\ d[u].of = Made

(* Mutant: the attributes are set before the file is closed.               *)
AttributesBeforeClosing(entry, v) == [entry EXCEPT !.mtime = Now]

(* set_file_attributes: after the file is closed, which changes its time.  *)
SetFileAttributes(entry, v) == [entry EXCEPT !.mtime = lines[v].mtime]

Put(t, entry, d) == [u \in DOMAIN d \cup {t} |-> IF u = t THEN entry ELSE d[u]]

(* Mutant: a link in the way is removed.                                   *)
WriteOverLink(v, t) ==
    /\ dir' = Put(t, SetFileAttributes([of |-> v, mtime |-> Now], v), WithDirectories(Above(t)))
    /\ UNCHANGED printed

(* What is no link is written to a file, a directory too. It can not be    *)
(* opened if a file is above it, or if its name is that of a link without  *)
(* target, whose own time some versions of glib change then; and whatever  *)
(* the name, the directories, the file or its attributes may be refused.   *)
WriteFile(v, t) ==
    LET d    == WithDirectories(Above(t))
        file == [of |-> v, mtime |-> Now]
        free == Reachable(t, d) /\ t \notin DOMAIN dir
    IN  \/ /\ free
           /\ dir' = Put(t, SetFileAttributes(file, v), d)
           /\ UNCHANGED printed
        \/ /\ \/ \E S \in MadeFirst(t) : dir' = WithDirectories(S)
              \/ t \in DOMAIN d /\ dir' = Put(t, SetFileAttributes(d[t], v), d)
              \/ free /\ dir' = Put(t, file, d)
           /\ printed' = TRUE

(* make_symbolic_link: no directory is made.                               *)
MakeSymbolicLink(v, t) ==
    \/ /\ Reachable(t, dir) /\ t \notin DOMAIN dir
       /\ dir' = Put(t, [of |-> v, mtime |-> Now], dir)
       /\ UNCHANGED printed
    \/ printed' = TRUE /\ UNCHANGED dir

(* create_file. When the name existed, get_unique_filename has freed       *)
(* newname, which is freed again at the end: the program may stop there.   *)
CreateFile ==
    LET v == Head(list)
        t == UniqueFilename(v)
    IN  /\ step = "each" /\ ~opt.list
        /\ list # <<>>
        /\ IF Kind[lines[v].name] = "link" THEN MakeSymbolicLink(v, t) ELSE WriteFile(v, t)
        /\ step' \in IF t.number = 0 THEN {"each"} ELSE {"each", "aborted"}
        /\ list' = Tail(list)
        /\ UNCHANGED <<lines, opt, screen, seen, unopened>>

EndOfList ==
    /\ step = "each"
    /\ list = <<>>
    /\ step' = "done"
    /\ UNCHANGED <<lines, dir, opt, list, screen, printed, seen, unopened>>

(* list_files and restore_files, up to the answer to the first query.      *)
ListOrRestore(q) ==
    /\ step = "idle"
    /\ \/ Start(q, FilesFromServer(q)) /\ UNCHANGED <<printed, unopened>>
       \/ Start(q, <<>>) /\ NoFiles

Next ==
    \/ StoreSmeta
    \/ \E q \in Query : ListOrRestore(q)
    \/ AllVersions
    \/ PrintSmeta
    \/ CreateFile
    \/ EndOfList

Spec == Init /\ [][Next]_vars

-----------------------------------------------------------------------------
TypeOK ==
    /\ lines \in Seq([name : Name, mtime : Time])
    /\ \A t \in DOMAIN dir :
         dir[t].of \in {User, Made} \cup DOMAIN lines /\ dir[t].mtime \in {Now} \cup Time
    /\ step \in {"idle", "versions", "each", "done", "aborted"}
    /\ step = "versions" => list # <<>>
    /\ opt \in Option
    /\ ToSet(list) \cup seen \subseteq DOMAIN lines
    /\ screen # <<>> => opt.list
    /\ printed \in BOOLEAN /\ unopened \in BOOLEAN

(* w is a later version of the same file than v: modified later, or saved  *)
(* later with the same date.                                               *)
LaterVersion(w, v) ==
    /\ lines[w].name = lines[v].name
    /\ \/ lines[w].mtime > lines[v].mtime
       \/ lines[w].mtime = lines[v].mtime /\ w > v

Restored == {dir[t].of : t \in DOMAIN dir} \ {User, Made}

(* When one version of each file is listed or restored, it is the latest   *)
(* of those the query selects, even when the file was saved twice in a     *)
(* second (restore.c, restore_last_file; files.c,                          *)
(* keep_latests_meta_data_t_in_list).                                      *)
LatestIsRestored ==
    opt.mode # "all_versions" /\ (opt.latest \/ (opt.mode = "last" /\ ~opt.list)) =>
        \A v \in Restored \cup ToSet(list) : ~\E w \in seen : LaterVersion(w, v)

(* The versions that were asked for: with the option --latest, one of each *)
(* file.                                                                   *)
Asked == {v \in seen : opt.mode # "all_versions" /\ opt.latest
                        => ~\E w \in seen : LaterVersion(w, v)}

(* Every version that was asked for is restored in one file, which has its *)
(* date if it is no link (restore.c, create_file); or it is listed once,   *)
(* in the order of names and dates (print_list_of_smeta); unless the       *)
(* program prints an error, or the server could not open its file, of      *)
(* which the program is told nothing.                                      *)
AskedIsRestored ==
    step = "done" /\ ~printed /\ ~unopened =>
        /\ ~opt.list /\ opt.mode # "last" =>
             /\ Restored = Asked
             /\ \A v \in Asked : \E t \in DOMAIN dir :
                  /\ \A u \in DOMAIN dir : dir[u].of = v => u = t
                  /\ dir[t].of = v
                  /\ Kind[lines[v].name] # "link" => dir[t].mtime = lines[v].mtime
        /\ opt.list =>
             /\ Len(screen) = Cardinality(Asked)
             /\ ToSet(screen) = {SmetaOnScreen(v) : v \in Asked}
             /\ \A i, j \in DOMAIN screen : i < j =>
                  \/ screen[i].name < screen[j].name
                  \/ screen[i].name = screen[j].name /\ screen[i].date <= screen[j].date

(* No file or link of the directory is ever overwritten, whether it was    *)
(* there before or was just restored (files.c, get_unique_filename).       *)
NothingOverwritten ==
    [][\A t \in DOMAIN dir : t \in DOMAIN dir' /\ dir'[t].of = dir[t].of]_dir
-----------------------------------------------------------------------------
(* The strengthening with which the invariants are inductive. What is      *)
(* restored and what is left of the list are, at each step, the versions   *)
(* that were asked for, each once; what is listed and what is left is in   *)
(* the order of names and dates, as long as no error is met.               *)
NotAfter(s, t) == s.name < t.name \/ (s.name = t.name /\ s.date <= t.date)

RestoredOnce(v) ==
    \E t \in DOMAIN dir :
        /\ \A u \in DOMAIN dir : dir[u].of = v => u = t
        /\ dir[t].of = v
        /\ Kind[lines[v].name] # "link" => dir[t].mtime = lines[v].mtime

ListsOK ==
    /\ list \in Seq(Nat)
    /\ screen \in Seq([type : {"file", "directory", "link"}, date : Time, name : Name])
    /\ IsFiniteSet(DOMAIN dir)
    /\ \A t \in DOMAIN dir : dir[t] \in [of : Int, mtime : Nat]

StepsOK ==
    /\ step \in {"idle", "versions"} => Restored = {} /\ screen = <<>>
    /\ step = "versions" => opt.mode = "all_versions"
    /\ step = "done" => list = <<>>
    /\ Restored \cup ToSet(list) \subseteq seen

Untroubled == ~printed /\ ~unopened

Restoring ==
    step \in {"each", "done"} /\ ~opt.list /\ opt.mode # "last" /\ Untroubled =>
        /\ Restored \cup ToSet(list) = Asked
        /\ Restored \cap ToSet(list) = {}
        /\ IsInjective(list)
        /\ \A v \in Restored : RestoredOnce(v)

Listing ==
    step \in {"each", "done"} /\ opt.list /\ Untroubled =>
        /\ Len(screen) + Len(list) = Cardinality(Asked)
        /\ ToSet(screen) \cup {SmetaOnScreen(v) : v \in ToSet(list)} =
              {SmetaOnScreen(v) : v \in Asked}
        /\ \A i, j \in DOMAIN screen : i < j => NotAfter(screen[i], screen[j])
        /\ \A i \in DOMAIN screen, v \in ToSet(list) : NotAfter(screen[i], SmetaOnScreen(v))
        /\ \A i, j \in DOMAIN list :
              i < j => NotAfter(SmetaOnScreen(list[i]), SmetaOnScreen(list[j]))

IInv ==
    /\ TypeOK
    /\ ListsOK
    /\ StepsOK
    /\ LatestIsRestored
    /\ Restoring
    /\ Listing
=============================================================================
