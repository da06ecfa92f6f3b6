------------------------------ MODULE Discover ------------------------------
(***************************************************************************)
(* How the client finds what it has to save (client.c, m_fanotify.c and    *)
(* the cache of database.c).                                               *)
(*                                                                         *)
(* When it starts, the client asks the kernel for the files that are       *)
(* closed after a write (fanotify), and only then goes through the         *)
(* monitored directories. Both put files, with the meta data they have     *)
(* just read, in the queue of the save thread, which looks in the cache    *)
(* for a file of this name, inode and dates, reads the content later and   *)
(* writes in the cache that this file is saved. Directories come back from *)
(* the save thread in a queue of their own, to be carved.                  *)
(*                                                                         *)
(* Users write, close and rename files meanwhile. A rename makes no event, *)
(* dates are in seconds, and the kernel drops events when its queue is     *)
(* full. An event is about an open file, whose name is only looked for     *)
(* when the event is processed. After an error (of fanotify, of a          *)
(* directory, of the meta data of a file) the client goes on without.      *)
(*                                                                         *)
(* What saving is made of is in module SaveFile; here it is two reads and  *)
(* a write in the cache.                                                   *)
(***************************************************************************)
EXTENDS Integers, SequencesExt

CONSTANTS
    Name,       \* paths of files
    Dir,        \* paths of directories
    Root,       \* opt->dirname_list: directories to monitor
    Parent,     \* the directory of each path that has one here
    Excluded,   \* paths that match a regular expression of exclude_list
    Prefixed,   \* paths that begin, as the kernel names them, like the name
                \* that the configuration gives to a monitored directory
    Inode,      \* inodes of files
    OnMount,    \* monitored directories that are on the mount of each inode
    Nil,        \* no inode, no directory, no job
    QueueLen,   \* bound: events the kernel keeps (16384)
    MaxSecond,  \* bound: the clock
    MaxWrites,  \* bound: writes of the users
    MaxRenames, \* bound: renames of the users
    MaxStarts,  \* bound: starts of the client
    MaxErrors   \* bound: errors of the system

Path == Name \cup Dir

(* A content is the number of the write that made it.                      *)
Contents == 0 .. MaxWrites

(* A file the save thread reads: what its event says of it, the inode that *)
(* is read, the content when the first blocks were, and whether its        *)
(* descriptor may be the one of an event.                                  *)
Job ==
    [name : Name, inode : Inode, date : 0 .. MaxSecond, read : Inode \cup {Nil},
     first : Contents, shared : BOOLEAN]

(* Directories from which carving comes to a path, and the path itself: a  *)
(* path, its parent, and so on up to a directory to monitor.               *)
Above ==
    [p \in Path |->
        {q \in Path : \A S \in SUBSET Path :
                          p \in S /\ (\A x \in S \ Root : Parent[x] \in S) => q \in S}]

(* Paths in the directories to monitor.                                    *)
Monitored == {p \in Path : Above[p] \cap Root # {}}

ASSUME ConstantsAssumption ==
    /\ Name \cap Dir = {}
    /\ Root \subseteq Dir /\ IsFiniteSet(Root)
    /\ Parent \in [Name \cup (Dir \ Root) -> Dir]
    /\ Excluded \subseteq Name \cup Dir
    /\ OnMount \in [Inode -> SUBSET Root]
    /\ Nil \notin Inode \cup Name \cup Dir \cup Job
    /\ {QueueLen, MaxSecond, MaxWrites, MaxRenames, MaxStarts,
        MaxErrors} \subseteq Nat

VARIABLES
    second,     \* the clock
    disk,       \* the inode of each name, or Nil
    ino,        \* date and content of each inode; contents are numbered
    open,       \* inodes written to and not closed
    up,         \* the client runs
    watched,    \* inodes of the mounts that could be marked
    events,     \* the kernel's queue of inodes closed after a write
    closing,    \* fanotify_loop has closed an event's descriptor once
    carving,    \* directory that is being carved, or Nil
    todo,       \* paths found in it and not yet queued
    dirQueue,   \* dir_queue
    saveQueue,  \* save_queue: paths with the meta data read
    job,        \* what the save thread is reading, or Nil
    saved,      \* what has been saved: the rows of the cache, and what was read
    missed,     \* history: inodes that changed and that nothing told of
    twice,      \* history: inodes last written in the second they already bore
    writes,     \* history: writes so far
    renames,    \* history: renames so far
    starts,     \* history: starts of the client so far
    errors      \* history: errors so far

diskVars   == <<disk, ino, open, writes, renames>>
carveVars  == <<carving, todo>>
runVars    == <<up, watched, starts>>
clientVars == <<runVars, events, closing, carveVars, dirQueue, saveQueue, job>>
vars == <<second, diskVars, clientVars, saved, missed, twice, errors>>

Unused == Inode \ (ToSet(events) \cup open \cup {disk[n] : n \in Name}
                   \cup (IF job = Nil THEN {} ELSE {job.read}))

-----------------------------------------------------------------------------
Init ==
    /\ second = 0
    /\ disk = [n \in Name |-> Nil]
    /\ ino = [i \in Inode |-> [date |-> 0, content |-> 0]]
    /\ open = {}
    /\ up = FALSE
    /\ watched = {}
    /\ events = <<>>
    /\ closing = FALSE
    /\ carving = Nil
    /\ todo = {}
    /\ dirQueue = <<>>
    /\ saveQueue = <<>>
    /\ job = Nil
    /\ saved = {}
    /\ missed = Inode
    /\ twice = {}
    /\ writes = 0
    /\ renames = 0
    /\ starts = 0
    /\ errors = 0

-----------------------------------------------------------------------------
(* The users and the kernel.                                               *)

Tick ==
    /\ second < MaxSecond
    /\ second' = second + 1
    /\ UNCHANGED <<diskVars, clientVars, saved, missed, twice, errors>>

(* Sizes do not change: a write that changes the size too is seen as one   *)
(* that changes the date.                                                  *)
Write(n, i) ==
    /\ writes < MaxWrites
    /\ disk[n] = i \/ (disk[n] = Nil /\ i \in Unused)
    /\ writes' = writes + 1
    /\ disk' = [disk EXCEPT ![n] = i]
    /\ ino' = [ino EXCEPT ![i] = [date |-> second, content |-> writes']]
    /\ open' = open \cup {i}
    /\ twice' = IF ino[i].date = second /\ ino[i].content # 0
                THEN twice \cup {i} ELSE twice \ {i}
    /\ UNCHANGED <<second, clientVars, saved, missed, renames, errors>>

(* FAN_CLOSE_WRITE, from the mounts that are marked. The event that says   *)
(* the queue has overflowed has no descriptor.                             *)
Close(i) ==
    /\ i \in open
    /\ open' = open \ {i}
    /\ IF up /\ i \in watched /\ Len(events) < QueueLen
       THEN events' = Append(events, i) /\ UNCHANGED missed
       ELSE missed' = missed \cup {i} /\ UNCHANGED events
    /\ UNCHANGED <<second, disk, ino, writes, renames, runVars, closing, carveVars,
                   dirQueue, saveQueue, job, saved, twice, errors>>

(* A rename changes the date of the inode (ctime).                         *)
Rename(m, n) ==
    /\ renames < MaxRenames
    /\ renames' = renames + 1
    /\ m # n
    /\ disk[m] # Nil
    /\ disk' = [disk EXCEPT ![n] = disk[m], ![m] = Nil]
    /\ ino' = [ino EXCEPT ![disk[m]].date = second]
    /\ missed' = missed \cup ({disk[m]} \ ToSet(events))
    /\ UNCHANGED <<second, open, writes, clientVars, saved, twice, errors>>

-----------------------------------------------------------------------------
(* Errors of the system: they are printed, and the client goes on.         *)

Fails == errors < MaxErrors /\ errors' = errors + 1

(* Nothing will tell of the files below the paths of S.                    *)
LeftOut(S) ==
    missed' = missed \cup ({disk[n] : n \in {m \in Name : Above[m] \cap S # {}}} \ {Nil})

-----------------------------------------------------------------------------
(* Start and stop.                                                         *)

(* The mounts of the directories to monitor are marked, those that can be: *)
(* none of them if there is no fanotify.                                   *)
StartFanotify ==
    \E marks \in SUBSET Root :
        /\ events' = <<>>
        /\ watched' = {i \in Inode : OnMount[i] \cap marks # {}}
        /\ IF marks = Root THEN UNCHANGED errors ELSE Fails

(* init_main_structure: from now on the closed files of what is watched    *)
(* are not missed, and the threads start. Without a scan what changed      *)
(* before is never looked at.                                              *)
InitMainStructure(noscan) ==
    /\ ~up
    /\ starts < MaxStarts
    /\ starts' = starts + 1
    /\ up' = TRUE
    /\ StartFanotify
    /\ dirQueue' = IF noscan THEN <<>> ELSE SetToSeq(Root)
    /\ missed' = IF noscan THEN missed ELSE {}
    /\ UNCHANGED <<second, diskVars, closing, carveVars, saveQueue, job,
                   saved, twice>>

StopFanotify == events' = <<>> /\ closing' = FALSE /\ watched' = {}

(* client_signal_handler, or a crash: only the cache is left.              *)
Stop ==
    /\ up
    /\ up' = FALSE
    /\ StopFanotify
    /\ carving' = Nil
    /\ todo' = {}
    /\ dirQueue' = <<>>
    /\ saveQueue' = <<>>
    /\ job' = Nil
    /\ missed' = Inode
    /\ UNCHANGED <<second, diskVars, saved, twice, starts, errors>>

-----------------------------------------------------------------------------
(* Queues.                                                                 *)

(* new_file_event_t, with a copy of the meta data of the path as they are. *)
NewFileEvent(p) ==
    IF p \in Dir
    THEN [name |-> p, inode |-> Nil, date |-> 0]
    ELSE [name |-> p, inode |-> disk[p], date |-> ino[disk[p]].date]

PushSaveQueue(p) == saveQueue' = Append(saveQueue, NewFileEvent(p))

-----------------------------------------------------------------------------
(* Thread 'fanotify-loop'.                                                 *)

(* The name of an open file, if it still has one.                          *)
GetFilePathFromFd(i) == {n \in Name : disk[n] = i}

(* The name of the open file, with no symbolic link in it, is compared     *)
(* with the beginnings of the names of the configuration, as they are.     *)
DoesEventConcernsMonitoredDirectory(n) == n \in Prefixed

(* The name of the client's program is not the one that is compared: none  *)
(* of the events is filtered out, those of the client neither.             *)
FilterOutIfNecessary(n) == DoesEventConcernsMonitoredDirectory(n)

(* event_process: its meta data are read and the file is queued, unless it *)
(* has no name any more, or one that is filtered out, or its meta data can *)
(* not be read. The descriptor of the event is closed.                     *)
EventProcess(i) ==
    /\ LET paths == {n \in GetFilePathFromFd(i) : FilterOutIfNecessary(n)}
       IN  \/ /\ \E n \in paths : PushSaveQueue(n)
              /\ missed' = missed \ {i}
              /\ UNCHANGED errors
           \/ /\ IF paths = {} THEN UNCHANGED errors ELSE Fails
              /\ missed' = missed \cup {i}
              /\ UNCHANGED saveQueue
    /\ closing' = TRUE

FanotifyLoop ==
    /\ up
    /\ ~closing
    /\ events # <<>>
    /\ events' = Tail(events)
    /\ EventProcess(Head(events))
    /\ UNCHANGED <<second, diskVars, runVars, carveVars, dirQueue, job, saved, twice>>

(* fanotify_loop closes again the descriptor that event_process closed. If *)
(* the save thread has opened its file in between, it is this one.         *)
CloseAgain ==
    /\ closing
    /\ closing' = FALSE
    /\ job' = IF job # Nil /\ job.shared THEN [job EXCEPT !.read = Nil] ELSE job
    /\ UNCHANGED <<second, diskVars, runVars, events, carveVars, dirQueue, saveQueue,
                   saved, missed, twice, errors>>

-----------------------------------------------------------------------------
(* Thread 'carve_all_directories'.                                         *)

ChildrenOf(d) ==
    {p \in DOMAIN Parent : Parent[p] = d /\ (p \in Name => disk[p] # Nil)}

(* The directories to monitor, then those that come back. One that can not *)
(* be opened is passed over.                                               *)
CarveOneDirectory ==
    /\ up
    /\ carving = Nil
    /\ dirQueue # <<>>
    /\ dirQueue' = Tail(dirQueue)
    /\ \/ /\ carving' = Head(dirQueue)
          /\ todo' = ChildrenOf(Head(dirQueue))
          /\ UNCHANGED <<missed, errors>>
       \/ /\ Fails
          /\ LeftOut({Head(dirQueue)})
          /\ UNCHANGED carveVars
    /\ UNCHANGED <<second, diskVars, runVars, events, closing, saveQueue, job, saved,
                   twice>>

(* One more path, if it is still there when its meta data are read.        *)
IterateOverEnum(p) ==
    /\ p \in todo
    /\ todo' = todo \ {p}
    /\ IF p \in ChildrenOf(carving) THEN PushSaveQueue(p) ELSE UNCHANGED saveQueue
    /\ UNCHANGED <<second, diskVars, runVars, events, closing, carving, dirQueue, job,
                   saved, missed, twice, errors>>

(* The enumeration ends, be it on an error, with paths left.               *)
EndOfDirectory ==
    /\ carving # Nil
    /\ carving' = Nil
    /\ todo' = {}
    /\ IF todo = {} THEN UNCHANGED errors ELSE Fails
    /\ LeftOut(todo)
    /\ UNCHANGED <<second, diskVars, runVars, events, closing, dirQueue,
                   saveQueue, job, saved, twice>>

-----------------------------------------------------------------------------
(* Thread 'save_one_file'.                                                 *)

ExcludeFile(p) == p \in Excluded

Key(r) == <<r.name, r.inode, r.date>>

(* Mutant: the statement is not reset, the row is not found again.         *)
NoRowInCache(fe) == FALSE

(* get_file_id has a row.                                                  *)
IsFileInCache(fe) == \E row \in saved : Key(row) = Key(fe)

(* A row of the cache about r, and what has been read of the file: its     *)
(* inode, and its content at the beginning and at the end.                 *)
Row(r, read, first, last) ==
    [name |-> r.name, inode |-> r.inode, date |-> r.date,
     read |-> read, first |-> first, last |-> last]

(* The save thread takes fe from its queue.                                *)
Pop(fe) ==
    /\ up
    /\ job = Nil
    /\ saveQueue # <<>>
    /\ fe = Head(saveQueue)
    /\ saveQueue' = Tail(saveQueue)

(* Mutant: the directory of a file that is in the cache is carved again.   *)
SkipFileCarveAgain(fe) ==
    /\ Pop(fe)
    /\ ExcludeFile(fe.name) \/ (fe.name \in Name /\ IsFileInCache(fe))
    /\ dirQueue' = IF ExcludeFile(fe.name) THEN dirQueue
                   ELSE Append(dirQueue, Parent[fe.name])
    /\ UNCHANGED <<second, diskVars, runVars, events, closing, carveVars, job,
                   saved, missed, twice, errors>>

(* save_one_file of something there is nothing to do with.                 *)
SkipFile(fe) ==
    /\ Pop(fe)
    /\ ExcludeFile(fe.name) \/ (fe.name \in Name /\ IsFileInCache(fe))
    /\ UNCHANGED <<second, diskVars, runVars, events, closing, carveVars, dirQueue, job,
                   saved, missed, twice, errors>>

(* Mutant: a directory that is in the cache is not carved.                 *)
SaveNewDirectory(fe) ==
    /\ Pop(fe)
    /\ fe.name \in Dir /\ ~ExcludeFile(fe.name)
    /\ saved' = saved \cup {Row(fe, Nil, 0, 0)}
    /\ dirQueue' = IF IsFileInCache(fe) THEN dirQueue ELSE Append(dirQueue, fe.name)
    /\ UNCHANGED <<second, diskVars, runVars, events, closing, carveVars, job,
                   missed, twice, errors>>

(* Mutant: what is not a directory is carved too.                          *)
SaveDirectoryOrFile(fe) ==
    /\ Pop(fe)
    /\ ~ExcludeFile(fe.name)
    /\ saved' = IF IsFileInCache(fe) THEN saved
                ELSE saved \cup {Row(fe, Nil, 0, 0)}
    /\ dirQueue' = Append(dirQueue, fe.name)
    /\ UNCHANGED <<second, diskVars, runVars, events, closing, carveVars, job,
                   missed, twice, errors>>

(* save_one_file of a directory, which has no data to read.                *)
SaveDirectory(fe) ==
    /\ Pop(fe)
    /\ fe.name \in Dir /\ ~ExcludeFile(fe.name)
    /\ saved' = IF IsFileInCache(fe) THEN saved
                ELSE saved \cup {Row(fe, Nil, 0, 0)}
    /\ dirQueue' = Append(dirQueue, fe.name)
    /\ UNCHANGED <<second, diskVars, runVars, events, closing, carveVars, job,
                   missed, twice, errors>>

(* save_one_file of a file: what has its name now is opened, and its first *)
(* blocks are read. The descriptor may be the number fanotify_loop is      *)
(* about to close.                                                         *)
SaveOneFile(fe) ==
    /\ Pop(fe)
    /\ fe.name \in Name /\ ~ExcludeFile(fe.name) /\ ~IsFileInCache(fe)
    /\ LET i == disk[fe.name]
       IN  job' \in [name : {fe.name}, inode : {fe.inode}, date : {fe.date},
                     read : {i}, first : {IF i = Nil THEN 0 ELSE ino[i].content},
                     shared : {FALSE, closing}]
    /\ UNCHANGED <<second, diskVars, runVars, events, closing, carveVars, dirQueue,
                   saved, missed, twice, errors>>

(* The end of the file is read, or the descriptor has been closed. The     *)
(* file is written in the cache, with the meta data it was queued with.    *)
EndOfFile ==
    /\ job # Nil
    /\ saved' = saved \cup
         {Row(job, job.read, job.first,
              IF job.read = Nil THEN 0 ELSE ino[job.read].content)}
    /\ job' = Nil
    /\ UNCHANGED <<second, diskVars, runVars, events, closing, carveVars, dirQueue,
                   saveQueue, missed, twice, errors>>

-----------------------------------------------------------------------------
SaveThread ==
    \/ \E fe \in ToSet(saveQueue) : SkipFile(fe) \/ SaveDirectory(fe) \/ SaveOneFile(fe)
    \/ EndOfFile

CarveThread == CarveOneDirectory \/ EndOfDirectory \/ \E p \in todo : IterateOverEnum(p)

FanotifyThread == FanotifyLoop \/ CloseAgain

Users ==
    \/ \E n \in Name, i \in Inode : Write(n, i)
    \/ \E i \in Inode : Close(i)
    \/ \E m, n \in Name : Rename(m, n)

Next ==
    \/ SaveThread \/ CarveThread \/ FanotifyThread
    \/ Users \/ Tick
    \/ \E noscan \in BOOLEAN : InitMainStructure(noscan)
    \/ Stop

Spec == Init /\ [][Next]_vars

(* Each thread of the client goes on.                                      *)
FairSpec ==
    /\ Spec
    /\ WF_vars(SaveThread)
    /\ WF_vars(CarveThread)
    /\ WF_vars(FanotifyThread)

-----------------------------------------------------------------------------
FileEvent ==
    [name : Name, inode : Inode, date : 0 .. MaxSecond]
        \cup [name : Dir, inode : {Nil}, date : {0}]

TypeOK ==
    /\ second \in 0 .. MaxSecond
    /\ disk \in [Name -> Inode \cup {Nil}]
    /\ ino \in [Inode -> [date : 0 .. MaxSecond, content : Contents]]
    /\ open \subseteq Inode
    /\ up \in BOOLEAN
    /\ watched \subseteq Inode
    /\ events \in Seq(Inode)
    /\ closing \in BOOLEAN
    /\ carving \in Dir \cup {Nil}
    /\ todo \subseteq DOMAIN Parent
    /\ dirQueue \in Seq(Dir)
    /\ saveQueue \in Seq(FileEvent)
    /\ job \in Job \cup {Nil}
    /\ \A row \in saved : [name |-> row.name, inode |-> row.inode, date |-> row.date]
                              \in FileEvent
    /\ missed \subseteq Inode
    /\ twice \subseteq Inode
    /\ writes \in 0 .. MaxWrites /\ renames \in 0 .. MaxRenames
    /\ starts \in 0 .. MaxStarts /\ errors \in 0 .. MaxErrors

(* The client has nothing to do.                                           *)
Settled ==
    /\ up
    /\ events = <<>> /\ ~closing
    /\ carving = Nil /\ dirQueue = <<>>
    /\ saveQueue = <<>> /\ job = Nil

(* When the client has nothing left to do, the content of each file it has *)
(* to save has been saved whole, under the name and the date the file has. *)
(* It takes the order of start_fanotify and of the carving, the name that  *)
(* is looked for when the event is processed, the directories that are     *)
(* carved even when they are in the cache, and the dates that are read     *)
(* before the content. Not so for a file that nothing told of: renamed,    *)
(* changed while the client did not run and was then started with          *)
(* 'noscan', its event dropped by the kernel or never made because the     *)
(* mount is not marked, or filtered out because the configuration names    *)
(* the directory otherwise than the kernel does, or an error of its meta   *)
(* data or of a directory above it. Nor for one that changed twice in a    *)
(* second, or that could not be read or was another one when it was.       *)
LastVersionSaved ==
    Settled =>
        \A n \in Name :
            LET i == disk[n]
            IN  \/ i = Nil
                \/ i \in missed \cup twice \cup open
                \/ n \notin Monitored \/ Above[n] \cap Excluded # {}
                \/ \E row \in saved :
                      /\ Key(row) = <<n, i, ino[i].date>>
                      /\ row.read = i => row.first = ino[i].content
                                         /\ row.last = ino[i].content

(* A file with the same name, inode and dates is saved once, although it   *)
(* may be queued several times, by the carving and by events, before it is *)
(* saved: the cache is looked at when it leaves the queue.                 *)
SavedOnce ==
    [][\A row \in saved' \ saved : \A old \in saved : Key(old) # Key(row)]_saved

(* The work ends, although each directory that leaves the save queue goes  *)
(* back to the carving, cached or not.                                     *)
Settles == <>[](up => Settled)
=============================================================================
