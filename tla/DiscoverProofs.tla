--------------------------- MODULE DiscoverProofs ---------------------------
(***************************************************************************)
(* Discover for any tree of files, any number of inodes, of writes, of     *)
(* renames, of starts and of errors, and any length of the kernel's queue: *)
(* the last version of a file is saved before the client has nothing left  *)
(* to do, except of the files that nothing told of, and nothing is saved   *)
(* twice.                                                                  *)
(***************************************************************************)
EXTENDS Discover, FiniteSetTheorems, FunctionTheorems, TLAPS

(* What is told of a file: an event, a place in the queue of the save      *)
(* thread, its work, or a row of the cache, with the date the file has.    *)
KeyNow(n) == <<n, disk[n], ino[disk[n]].date>>

Told(n) ==
    \/ disk[n] \in ToSet(events)
    \/ \E fe \in ToSet(saveQueue) : Key(fe) = KeyNow(n)
    \/ job # Nil /\ Key(job) = KeyNow(n)
    \/ \E row \in saved : Key(row) = KeyNow(n)

(* The carving has still to go through p.                                  *)
Pending(p) ==
    \/ p \in ToSet(dirQueue)
    \/ p \in todo
    \/ p \in Dir /\ \E fe \in ToSet(saveQueue) : fe.name = p

(* A file that has to be saved: there is no excuse.                        *)
Due(n) ==
    /\ disk[n] # Nil
    /\ disk[n] \notin missed \cup twice \cup open
    /\ n \in Monitored /\ Above[n] \cap Excluded = {}

WorkInv == \A n \in Name : Due(n) => Told(n) \/ \E p \in Above[n] : Pending(p)

CarvingInv == \A p \in todo : carving \in Dir /\ Parent[p] = carving

(* An inode has one name; one that has a name has been written to.         *)
DiskInv ==
    /\ \A m, n \in Name : disk[m] = disk[n] /\ disk[m] # Nil => m = n
    /\ \A n \in Name : disk[n] # Nil => ino[disk[n]].content # 0
    /\ \A i \in Inode : ino[i].date <= second

(* Meta data that were read are not from later, and were of a file.        *)
ReadInv(r) ==
    r.inode \in Inode => r.date <= ino[r.inode].date /\ ino[r.inode].content # 0

(* A content that was read is the one of this date.                        *)
SameContent(r, content) ==
    r.inode \in Inode /\ r.date = ino[r.inode].date /\ r.inode \notin twice
        /\ r.read = r.inode
    => content = ino[r.inode].content

QueueInv == \A fe \in ToSet(saveQueue) : ReadInv(fe)

JobInv ==
    job # Nil =>
        /\ ReadInv(job) /\ SameContent(job, job.first)
        /\ \A row \in saved : Key(row) # Key(job)

RowsInv ==
    \A row \in saved :
        ReadInv(row) /\ SameContent(row, row.first) /\ SameContent(row, row.last)

(* Nothing is told of what happens while the client does not run.          *)
DownInv == ~up => missed = Inode

IInv ==
    /\ TypeOK
    /\ WorkInv
    /\ CarvingInv
    /\ DiskInv
    /\ QueueInv
    /\ JobInv
    /\ RowsInv
    /\ DownInv

-----------------------------------------------------------------------------
(* Directories and sequences.                                              *)

LEMMA Constants ==
  /\ Nil \notin Inode /\ Nil \notin Name /\ Nil \notin Dir /\ Nil \notin Job
  /\ Name \cap Dir = {} /\ Root \subseteq Dir
  /\ QueueLen \in Nat /\ MaxSecond \in Nat /\ MaxWrites \in Nat /\ MaxRenames \in Nat
  /\ MaxStarts \in Nat /\ MaxErrors \in Nat
  /\ DOMAIN Parent = Name \cup (Dir \ Root)
  /\ \A p \in Name \cup (Dir \ Root) : Parent[p] \in Dir
  BY ConstantsAssumption

(* Above is what the closed sets with p have in common.                    *)
LEMMA AboveOf ==
  ASSUME NEW p \in Path
  PROVE  /\ p \in Above[p] /\ Above[p] \subseteq Path
         /\ \A S \in SUBSET Path :
              p \in S /\ (\A x \in S \ Root : Parent[x] \in S) => Above[p] \subseteq S
  BY DEF Above

(* A path is the only one that is no directory among those above it.       *)
LEMMA AboveAreDirectories ==
  ASSUME NEW n \in Name, NEW p \in Above[n]
  PROVE  p = n \/ p \in Dir
<1> DEFINE S == {n} \cup Dir
<1>1. S \in SUBSET Path /\ n \in S
  BY DEF Path
<1>2. \A x \in S \ Root : Parent[x] \in S
  BY Constants
<1>3. Above[n] \subseteq S
  BY <1>1, <1>2, AboveOf DEF Path
<1> QED BY <1>3

(* The carving of a directory above comes one step nearer.                 *)
LEMMA OneStepNearer ==
  ASSUME NEW n \in Name, NEW d \in Above[n], d # n
  PROVE  \E p \in Above[n] : p \in DOMAIN Parent /\ Parent[p] = d
<1> DEFINE S == Above[n] \ {d}
<1>1. SUFFICES ASSUME \A p \in Above[n] \cap DOMAIN Parent : Parent[p] # d
               PROVE  FALSE
  OBVIOUS
<1>2. S \in SUBSET Path /\ n \in S
  BY AboveOf DEF Path
<1>3. \A x \in S \ Root : Parent[x] \in S
  <2>1. ASSUME NEW x \in Above[n] \ Root
        PROVE  Parent[x] \in Above[n]
    <3>1. x \in Path /\ Parent[x] \in Path
      BY AboveOf, Constants DEF Path
    <3> QED BY <3>1 DEF Above, Path
  <2>2. \A x \in Path \ Root : x \in DOMAIN Parent
    BY Constants DEF Path
  <2> QED BY <1>1, <1>2, <2>1, <2>2
<1>4. Above[n] \subseteq S
  BY <1>2, <1>3, AboveOf DEF Path
<1> QED BY <1>4

LEMMA Appended ==
  ASSUME NEW S, NEW q \in Seq(S), NEW e \in S
  PROVE  Append(q, e) \in Seq(S) /\ ToSet(Append(q, e)) = ToSet(q) \cup {e}
<1>1. Append(q, e) \in Seq(S)
  OBVIOUS
<1>2. /\ DOMAIN Append(q, e) = 1 .. (Len(q) + 1) /\ DOMAIN q = 1 .. Len(q)
      /\ Append(q, e)[Len(q) + 1] = e
      /\ \A i \in 1 .. Len(q) : Append(q, e)[i] = q[i]
  OBVIOUS
<1>3. ToSet(Append(q, e)) \subseteq ToSet(q) \cup {e}
  BY <1>2 DEF ToSet
<1>4. ToSet(q) \cup {e} \subseteq ToSet(Append(q, e))
  <2>1. Len(q) + 1 \in 1 .. (Len(q) + 1) /\ 1 .. Len(q) \subseteq 1 .. (Len(q) + 1)
    OBVIOUS
  <2> QED BY <1>2, <2>1 DEF ToSet
<1> QED BY <1>1, <1>3, <1>4

LEMMA Headed ==
  ASSUME NEW S, NEW q \in Seq(S), q # <<>>
  PROVE  /\ Head(q) \in S /\ Tail(q) \in Seq(S)
         /\ ToSet(q) = {Head(q)} \cup ToSet(Tail(q))
         /\ ToSet(q) \subseteq S
<1>1. Head(q) \in S /\ Tail(q) \in Seq(S) /\ Head(q) = q[1] /\ Len(q) >= 1
      /\ Len(Tail(q)) = Len(q) - 1 /\ \A i \in 1 .. Len(Tail(q)) : Tail(q)[i] = q[i + 1]
  OBVIOUS
<1>2. ToSet(q) \subseteq {Head(q)} \cup ToSet(Tail(q))
  <2>1. ASSUME NEW i \in 1 .. Len(q)
        PROVE  q[i] \in {Head(q)} \cup ToSet(Tail(q))
    <3>1. CASE i = 1
      BY <1>1, <3>1
    <3>2. CASE i # 1
      <4>1. i - 1 \in 1 .. Len(Tail(q)) /\ Tail(q)[i - 1] = q[i]
        BY <1>1, <3>2
      <4>2. DOMAIN Tail(q) = 1 .. Len(Tail(q))
        BY <1>1
      <4> QED BY <4>1, <4>2 DEF ToSet
    <3> QED BY <3>1, <3>2
  <2> QED BY <2>1 DEF ToSet
<1>3. {Head(q)} \cup ToSet(Tail(q)) \subseteq ToSet(q)
  BY <1>1 DEF ToSet
<1>4. ToSet(q) \subseteq S
  BY DEF ToSet
<1> QED BY <1>1, <1>2, <1>3, <1>4

LEMMA NothingInEmpty == ToSet(<<>>) = {}
  BY DEF ToSet

(* The directories to monitor, in some order.                              *)
LEMMA RootsInOrder == SetToSeq(Root) \in Seq(Dir) /\ ToSet(SetToSeq(Root)) = Root
<1> DEFINE c == Cardinality(Root)
           P(f) == f \in [1 .. c -> Root] /\ IsInjective(f)
<1>1. c \in Nat /\ ExistsBijection(1 .. c, Root)
  BY ConstantsAssumption, FS_CardinalityType
<1>2. PICK f : f \in Bijection(1 .. c, Root)
  BY <1>1 DEF ExistsBijection
<1>3. P(f)
  BY <1>2 DEF Bijection, Injection, IsInjective
<1>4. SetToSeq(Root) \in [1 .. c -> Root] /\ IsInjective(SetToSeq(Root))
  BY <1>3 DEF SetToSeq
<1>5. SetToSeq(Root) \in Injection(1 .. c, Root)
  BY <1>4 DEF Injection
<1>6. IsFiniteSet(Root) /\ Cardinality(1 .. c) = Cardinality(Root)
  BY <1>1, ConstantsAssumption, FS_Interval
<1>7. SetToSeq(Root) \in Surjection(1 .. c, Root)
  BY <1>5, <1>6, FS_Injection
<1>8. ToSet(SetToSeq(Root)) = Root
  BY <1>4, <1>7 DEF ToSet, Surjection
<1> QED BY <1>1, <1>4, <1>8, Constants

(* The meta data of a path that is there.                                  *)
LEMMA MetaDataRead ==
  ASSUME IInv, NEW p \in Path, p \in Name => disk[p] # Nil
  PROVE  /\ NewFileEvent(p) \in FileEvent /\ NewFileEvent(p).name = p
         /\ p \in Name => Key(NewFileEvent(p)) = KeyNow(p)
         /\ ReadInv(NewFileEvent(p))
<1>1. CASE p \in Dir
  <2>1. NewFileEvent(p) = [name |-> p, inode |-> Nil, date |-> 0]
    BY <1>1 DEF NewFileEvent
  <2> QED BY <1>1, <2>1, Constants DEF FileEvent, ReadInv
<1>2. CASE p \in Name
  <2>1. NewFileEvent(p) = [name |-> p, inode |-> disk[p], date |-> ino[disk[p]].date]
    BY <1>2, Constants DEF NewFileEvent
  <2>2. disk[p] \in Inode /\ ino[disk[p]].date \in 0 .. MaxSecond
    BY <1>2 DEF IInv, TypeOK
  <2>3. ino[disk[p]].content # 0
    BY <1>2 DEF IInv, DiskInv
  <2>4. Key(NewFileEvent(p)) = KeyNow(p)
    BY <2>1 DEF Key, KeyNow
  <2> QED BY <1>2, <2>1, <2>2, <2>3, <2>4 DEF FileEvent, ReadInv
<1> QED BY <1>1, <1>2 DEF Path

(* An error is one more, and one of those that may happen.                 *)
LEMMA ErrorsCounted ==
  ASSUME IInv, Fails
  PROVE  errors' \in 0 .. MaxErrors
BY Constants DEF IInv, TypeOK, Fails

(* What is left out has no longer to be saved.                             *)
LEMMA LeftOutIsMissed ==
  ASSUME IInv, NEW S, LeftOut(S), disk' = disk
  PROVE  /\ missed \subseteq missed' /\ missed' \subseteq Inode
         /\ \A n \in Name : Due(n)' => Above[n] \cap S = {}
<1>1. \A n \in Name : disk[n] \in Inode \cup {Nil}
  BY DEF IInv, TypeOK
<1>2. missed \subseteq missed' /\ missed' \subseteq Inode
  BY <1>1 DEF LeftOut, IInv, TypeOK
<1>3. ASSUME NEW n \in Name, Due(n)', Above[n] \cap S # {}
      PROVE  FALSE
  BY <1>3 DEF LeftOut, Due
<1> QED BY <1>2, <1>3

(* A step of the client: it moves the work from one place to another, but  *)
(* for what it leaves out.                                                 *)
LEMMA WorkMoves ==
  ASSUME IInv, UNCHANGED <<disk, ino, twice, open>>, missed \subseteq missed',
         \A n \in Name : Due(n) /\ Told(n) => Told(n)',
         \A n \in Name : Due(n) /\ Due(n)' => \A p \in Above[n] :
             Pending(p) => Told(n)' \/ \E q \in Above[n] : Pending(q)'
  PROVE  WorkInv'
<1>1. SUFFICES ASSUME NEW n \in Name, Due(n)'
               PROVE  Told(n)' \/ \E p \in Above[n] : Pending(p)'
  BY DEF WorkInv
<1>2. Due(n)
  BY <1>1 DEF Due
<1>3. Told(n) \/ \E p \in Above[n] : Pending(p)
  BY <1>2 DEF IInv, WorkInv
<1> QED BY <1>1, <1>2, <1>3

(* It does not touch the files.                                            *)
LEMMA DiskStays ==
  ASSUME IInv, UNCHANGED <<second, disk, ino>>
  PROVE  DiskInv'
  BY DEF IInv, DiskInv

LEMMA RowsStay ==
  ASSUME IInv, UNCHANGED <<ino, twice, saved>>
  PROVE  RowsInv'
  BY DEF IInv, RowsInv, ReadInv, SameContent

LEMMA JobStays ==
  ASSUME IInv, UNCHANGED <<ino, twice, saved, job>>
  PROVE  JobInv'
  BY DEF IInv, JobInv, ReadInv, SameContent

LEMMA QueueStays ==
  ASSUME IInv, ino' = ino, ToSet(saveQueue') \subseteq ToSet(saveQueue)
  PROVE  QueueInv'
  BY DEF IInv, QueueInv, ReadInv

(* What has been read stays right when each of the things read does.       *)
LEMMA ReadStays ==
  ASSUME IInv, UNCHANGED <<saveQueue, job, saved>>,
         \A r : ReadInv(r) /\ (r.inode \in Inode => r.date \in 0 .. MaxSecond) =>
                 ReadInv(r)' /\ \A c : SameContent(r, c) => SameContent(r, c)'
  PROVE  QueueInv' /\ JobInv' /\ RowsInv'
<1>1. QueueInv'
  <2>1. ASSUME NEW fe \in ToSet(saveQueue)
        PROVE  ReadInv(fe)'
    <3>1. fe \in FileEvent
      BY DEF IInv, TypeOK, ToSet
    <3>2. fe.inode \in Inode => fe.date \in 0 .. MaxSecond
      BY <3>1, Constants DEF FileEvent
    <3> QED BY <3>2 DEF IInv, QueueInv
  <2> QED BY <2>1 DEF QueueInv
<1>2. JobInv'
  <2>1. CASE job # Nil
    <3>1. job.date \in 0 .. MaxSecond /\ ReadInv(job) /\ SameContent(job, job.first)
      BY <2>1 DEF IInv, TypeOK, JobInv, Job
    <3>2. PICK q : q = job
      OBVIOUS
    <3>3. ReadInv(q)' /\ (\A c : SameContent(q, c) => SameContent(q, c)')
      BY <3>1, <3>2
    <3> QED BY <3>1, <3>2, <3>3 DEF IInv, JobInv, ReadInv, SameContent
  <2>2. CASE job = Nil
    BY <2>2 DEF JobInv
  <2> QED BY <2>1, <2>2
<1>3. RowsInv'
  <2>1. ASSUME NEW row \in saved
        PROVE  ReadInv(row)' /\ SameContent(row, row.first)' /\ SameContent(row, row.last)'
    <3>1. row.inode \in Inode => row.date \in 0 .. MaxSecond
      BY Constants DEF IInv, TypeOK, FileEvent
    <3>2. ReadInv(row) /\ SameContent(row, row.first) /\ SameContent(row, row.last)
      BY DEF IInv, RowsInv
    <3> QED BY <3>1, <3>2
  <2> QED BY <2>1 DEF RowsInv
<1> QED BY <1>1, <1>2, <1>3

(* A path is put in the queue of the save thread.                          *)
LEMMA Pushed ==
  ASSUME IInv, NEW p \in Path, p \in Name => disk[p] # Nil, PushSaveQueue(p), ino' = ino
  PROVE  /\ saveQueue' \in Seq(FileEvent) /\ QueueInv'
         /\ ToSet(saveQueue') = ToSet(saveQueue) \cup {NewFileEvent(p)}
<1>1. NewFileEvent(p) \in FileEvent /\ ReadInv(NewFileEvent(p))
  BY MetaDataRead
<1>2. /\ saveQueue' \in Seq(FileEvent)
      /\ ToSet(saveQueue') = ToSet(saveQueue) \cup {NewFileEvent(p)}
  BY <1>1, Appended DEF PushSaveQueue, IInv, TypeOK
<1>3. QueueInv'
  <2>1. ASSUME NEW fe \in ToSet(saveQueue')
        PROVE  ReadInv(fe)'
    <3>1. ReadInv(fe)
      BY <1>1, <1>2, <2>1 DEF IInv, QueueInv
    <3> QED BY <3>1 DEF ReadInv
  <2> QED BY <2>1 DEF QueueInv
<1> QED BY <1>2, <1>3

-----------------------------------------------------------------------------
(* The users and the kernel.                                               *)

LEMMA TickInv ==
  ASSUME IInv, Tick
  PROVE  IInv'
<1>1. /\ UNCHANGED <<disk, ino, open, writes, renames, up, events, closing, carving, todo,
                     dirQueue, saveQueue, job, saved, missed, twice, starts,
                     watched, errors>>
      /\ second' = second + 1 /\ second < MaxSecond
  BY DEF Tick, diskVars, clientVars, carveVars, runVars
<1>2. TypeOK'
  <2>1. second' \in 0 .. MaxSecond
    BY <1>1, Constants DEF IInv, TypeOK
  <2> QED BY <1>1, <2>1 DEF IInv, TypeOK
<1>3. WorkInv'
  BY <1>1 DEF IInv, WorkInv, Due, Told, Pending, KeyNow
<1>4. DiskInv'
  <2>1. \A i \in Inode : ino[i].date <= second + 1
    BY DEF IInv, TypeOK, DiskInv
  <2> QED BY <1>1, <2>1 DEF IInv, DiskInv
<1>5. QueueInv' /\ JobInv' /\ RowsInv'
  BY <1>1, RowsStay, JobStays, QueueStays
<1>6. CarvingInv' /\ DownInv'
  BY <1>1 DEF IInv, CarvingInv, DownInv
<1> QED BY <1>2, <1>3, <1>4, <1>5, <1>6 DEF IInv

LEMMA CloseInv ==
  ASSUME IInv, NEW i \in Inode, Close(i)
  PROVE  IInv'
<1>1. UNCHANGED <<second, disk, ino, writes, renames, up, closing, carving, todo,
                  dirQueue, saveQueue, job, saved, twice, starts, watched, errors>>
  BY DEF Close, carveVars, runVars
<1>2. /\ i \in open /\ open' = open \ {i}
      /\ \/ events' = Append(events, i) /\ missed' = missed /\ up
         \/ missed' = missed \cup {i} /\ events' = events
  BY DEF Close
<1>3. /\ events' \in Seq(Inode) /\ ToSet(events) \subseteq ToSet(events')
      /\ i \in ToSet(events') \/ i \in missed'
      /\ missed \subseteq missed' /\ missed' \subseteq Inode
  <2>1. Append(events, i) \in Seq(Inode) /\ ToSet(Append(events, i)) = ToSet(events) \cup {i}
    BY Appended DEF IInv, TypeOK
  <2>2. events \in Seq(Inode) /\ missed \subseteq Inode
    BY DEF IInv, TypeOK
  <2> QED BY <1>2, <2>1, <2>2
<1>4. TypeOK'
  BY <1>1, <1>2, <1>3 DEF IInv, TypeOK
<1>5. WorkInv'
  <2>1. SUFFICES ASSUME NEW n \in Name, Due(n)'
                 PROVE  Told(n)' \/ \E p \in Above[n] : Pending(p)'
    BY DEF WorkInv
  <2>2. CASE disk[n] = i
    BY <1>1, <1>3, <2>1, <2>2 DEF Due, Told
  <2>3. CASE disk[n] # i
    <3>1. Due(n)
      BY <1>1, <1>2, <1>3, <2>1, <2>3 DEF Due
    <3>2. Told(n) \/ \E p \in Above[n] : Pending(p)
      BY <3>1 DEF IInv, WorkInv
    <3> QED BY <1>1, <1>3, <3>2 DEF Told, Pending, KeyNow
  <2> QED BY <2>2, <2>3
<1>6. DiskInv' /\ QueueInv' /\ JobInv' /\ RowsInv'
  BY <1>1, DiskStays, RowsStay, JobStays, QueueStays
<1>7. CarvingInv' /\ DownInv'
  BY <1>1, <1>3 DEF IInv, CarvingInv, DownInv
<1> QED BY <1>4, <1>5, <1>6, <1>7 DEF IInv

(* A write has a date: what was read before it bears an earlier one, or    *)
(* the inode is written twice in a second.                                 *)
LEMMA WriteInv ==
  ASSUME IInv, NEW n \in Name, NEW i \in Inode, Write(n, i)
  PROVE  IInv'
<1>1. UNCHANGED <<second, renames, up, events, closing, carving, todo, dirQueue,
                  saveQueue, job, saved, missed, starts, watched, errors>>
  BY DEF Write, clientVars, carveVars, runVars
<1>2. /\ disk[n] = i \/ (disk[n] = Nil /\ i \in Unused)
      /\ writes' = writes + 1 /\ writes < MaxWrites
      /\ disk' = [disk EXCEPT ![n] = i]
      /\ ino' = [ino EXCEPT ![i] = [date |-> second, content |-> writes']]
      /\ open' = open \cup {i}
      /\ twice' = IF ino[i].date = second /\ ino[i].content # 0
                  THEN twice \cup {i} ELSE twice \ {i}
  BY DEF Write
<1>3. writes' \in 0 .. MaxWrites /\ writes' # 0
  BY <1>2, Constants DEF IInv, TypeOK
<1>4. /\ ino'[i] = [date |-> second, content |-> writes']
      /\ \A j \in Inode : j # i => ino'[j] = ino[j]
      /\ disk'[n] = i /\ \A m \in Name : m # n => disk'[m] = disk[m]
  BY <1>2 DEF IInv, TypeOK
<1>5. second \in 0 .. MaxSecond /\ ino[i].date \in 0 .. MaxSecond /\ ino[i].date <= second
  BY DEF IInv, TypeOK, DiskInv
<1>6. \A m \in Name : m # n => disk[m] # i
  BY <1>2, Constants DEF IInv, DiskInv, Unused
<1>7. TypeOK'
  <2>1. ino' \in [Inode -> [date : 0 .. MaxSecond, content : Contents]]
    BY <1>2, <1>3, <1>5 DEF IInv, TypeOK, Contents
  <2>2. disk' \in [Name -> Inode \cup {Nil}] /\ open' \subseteq Inode /\ twice' \subseteq Inode
    BY <1>2 DEF IInv, TypeOK
  <2> QED BY <1>1, <1>3, <2>1, <2>2 DEF IInv, TypeOK
<1>8. WorkInv'
  <2>1. SUFFICES ASSUME NEW m \in Name, Due(m)'
                 PROVE  Told(m)' \/ \E p \in Above[m] : Pending(p)'
    BY DEF WorkInv
  <2>2. m # n /\ disk'[m] = disk[m] /\ disk[m] # i /\ disk[m] \in Inode
    BY <1>2, <1>4, <1>6, <1>7, <2>1 DEF Due, TypeOK
  <2>3. Due(m) /\ KeyNow(m)' = KeyNow(m)
    BY <1>1, <1>2, <1>4, <2>1, <2>2 DEF Due, KeyNow
  <2>4. Told(m) \/ \E p \in Above[m] : Pending(p)
    BY <2>3 DEF IInv, WorkInv
  <2> QED BY <1>1, <2>2, <2>3, <2>4 DEF Told, Pending
<1>9. DiskInv'
  <2>1. \A m, q \in Name : disk'[m] = disk'[q] /\ disk'[m] # Nil => m = q
    BY <1>4, <1>6 DEF IInv, DiskInv
  <2>2. ASSUME NEW m \in Name, disk'[m] # Nil
        PROVE  ino'[disk'[m]].content # 0
    <3>1. CASE m = n
      BY <1>3, <1>4, <3>1
    <3>2. CASE m # n
      BY <1>4, <1>6, <2>2, <3>2 DEF IInv, DiskInv, TypeOK
    <3> QED BY <3>1, <3>2
  <2>3. \A j \in Inode : ino'[j].date <= second'
    BY <1>1, <1>4, <1>5 DEF IInv, DiskInv
  <2> QED BY <2>1, <2>2, <2>3 DEF DiskInv
<1>10. ASSUME NEW r, ReadInv(r), r.inode \in Inode => r.date \in 0 .. MaxSecond
       PROVE  /\ ReadInv(r)'
              /\ \A c : SameContent(r, c) => SameContent(r, c)'
  <2>1. CASE r.inode = i
    <3>1. r.date <= second /\ ino[i].content # 0
      BY <1>5, <1>10, <2>1 DEF ReadInv
    <3>2. ReadInv(r)'
      BY <1>3, <1>4, <2>1, <3>1 DEF ReadInv
    <3>3. r.date = second => i \in twice'
      BY <1>2, <1>5, <1>10, <2>1, <3>1 DEF ReadInv
    <3> QED BY <1>4, <2>1, <3>2, <3>3 DEF SameContent
  <2>2. CASE r.inode # i
    <3>1. r.inode \in Inode => ino'[r.inode] = ino[r.inode]
      BY <1>4, <2>2
    <3>2. r.inode \in twice' <=> r.inode \in twice
      BY <1>2, <2>2
    <3> QED BY <1>10, <3>1, <3>2 DEF ReadInv, SameContent
  <2> QED BY <2>1, <2>2
<1>11. QueueInv' /\ JobInv' /\ RowsInv'
  BY <1>1, <1>10, ReadStays
<1>12. CarvingInv' /\ DownInv'
  BY <1>1 DEF IInv, CarvingInv, DownInv
<1> QED BY <1>7, <1>8, <1>9, <1>11, <1>12 DEF IInv

(* A rename changes the date, not the content.                             *)
LEMMA RenameInv ==
  ASSUME IInv, NEW m \in Name, NEW n \in Name, Rename(m, n)
  PROVE  IInv'
<1> DEFINE i == disk[m]
<1>1. UNCHANGED <<second, open, writes, up, events, closing, carving, todo, dirQueue,
                  saveQueue, job, saved, twice, starts, watched, errors>>
  BY DEF Rename, clientVars, carveVars, runVars
<1>2. /\ renames' = renames + 1 /\ renames < MaxRenames
      /\ m # n /\ i \in Inode
      /\ disk' = [disk EXCEPT ![n] = i, ![m] = Nil]
      /\ ino' = [ino EXCEPT ![i].date = second]
      /\ missed' = missed \cup ({i} \ ToSet(events))
  BY DEF Rename, IInv, TypeOK
<1>3. /\ ino'[i].date = second /\ ino'[i].content = ino[i].content
      /\ \A j \in Inode : j # i => ino'[j] = ino[j]
      /\ disk'[n] = i /\ disk'[m] = Nil
      /\ \A x \in Name : x # n /\ x # m => disk'[x] = disk[x]
  BY <1>2 DEF IInv, TypeOK
<1>4. second \in 0 .. MaxSecond /\ ino[i].date \in 0 .. MaxSecond /\ ino[i].date <= second
  BY <1>2 DEF IInv, TypeOK, DiskInv
<1>5. \A x \in Name : x # m => disk[x] # i
  BY <1>2, Constants DEF IInv, DiskInv
<1> HIDE DEF i
<1>6. TypeOK'
  <2>1. ino' \in [Inode -> [date : 0 .. MaxSecond, content : Contents]]
    BY <1>2, <1>4 DEF IInv, TypeOK
  <2>2. renames' \in 0 .. MaxRenames
    BY <1>2, Constants DEF IInv, TypeOK
  <2>3. disk' \in [Name -> Inode \cup {Nil}] /\ missed' \subseteq Inode
    BY <1>2 DEF IInv, TypeOK
  <2> QED BY <1>1, <2>1, <2>2, <2>3 DEF IInv, TypeOK
<1>7. WorkInv'
  <2>1. SUFFICES ASSUME NEW x \in Name, Due(x)'
                 PROVE  Told(x)' \/ \E p \in Above[x] : Pending(p)'
    BY DEF WorkInv
  <2>2. CASE x = n
    BY <1>1, <1>2, <1>3, <2>1, <2>2 DEF Due, Told
  <2>3. CASE x # n
    <3>1. x # m /\ disk'[x] = disk[x] /\ disk[x] # i /\ disk[x] \in Inode
      BY <1>3, <1>5, <1>6, <2>1, <2>3 DEF Due, TypeOK
    <3>2. Due(x) /\ KeyNow(x)' = KeyNow(x)
      BY <1>1, <1>2, <1>3, <2>1, <3>1 DEF Due, KeyNow
    <3>3. Told(x) \/ \E p \in Above[x] : Pending(p)
      BY <3>2 DEF IInv, WorkInv
    <3> QED BY <1>1, <3>1, <3>2, <3>3 DEF Told, Pending
  <2> QED BY <2>2, <2>3
<1>8. DiskInv'
  <2>1. \A x, y \in Name : disk'[x] = disk'[y] /\ disk'[x] # Nil => x = y
    BY <1>3, <1>5 DEF IInv, DiskInv
  <2>2. ASSUME NEW x \in Name, disk'[x] # Nil
        PROVE  ino'[disk'[x]].content # 0
    <3>1. ino[i].content # 0
      BY <1>2 DEF IInv, DiskInv, i, Rename
    <3>2. x # n => disk'[x] = disk[x] /\ disk[x] # i /\ disk[x] \in Inode
      BY <1>3, <1>5, <2>2 DEF IInv, TypeOK
    <3> QED BY <1>3, <2>2, <3>1, <3>2 DEF IInv, DiskInv
  <2>3. \A j \in Inode : ino'[j].date <= second'
    BY <1>1, <1>3, <1>4 DEF IInv, DiskInv
  <2> QED BY <2>1, <2>2, <2>3 DEF DiskInv
<1>9. ASSUME NEW r, ReadInv(r), r.inode \in Inode => r.date \in 0 .. MaxSecond
      PROVE  /\ ReadInv(r)'
             /\ \A c : SameContent(r, c) => SameContent(r, c)'
  <2>1. CASE r.inode = i
    <3>1. i \in Inode /\ r.date <= ino[i].date /\ r.date <= second /\ ino[i].content # 0
      BY <1>2, <1>4, <1>9, <2>1 DEF ReadInv
    <3>2. ReadInv(r)'
      BY <1>3, <2>1, <3>1 DEF ReadInv
    <3>3. r.date = second => r.date = ino[i].date
      BY <1>2, <1>4, <1>9, <2>1, <3>1
    <3> QED BY <1>1, <1>3, <2>1, <3>2, <3>3 DEF SameContent
  <2>2. CASE r.inode # i
    <3>1. r.inode \in Inode => ino'[r.inode] = ino[r.inode]
      BY <1>3, <2>2
    <3> QED BY <1>1, <1>9, <3>1 DEF ReadInv, SameContent
  <2> QED BY <2>1, <2>2
<1>10. QueueInv' /\ JobInv' /\ RowsInv'
  BY <1>1, <1>9, ReadStays
<1>11. CarvingInv' /\ DownInv'
  <2>1. missed = Inode => missed' = Inode
    BY <1>2
  <2> QED BY <1>1, <2>1 DEF IInv, CarvingInv, DownInv
<1> QED BY <1>6, <1>7, <1>8, <1>10, <1>11 DEF IInv

-----------------------------------------------------------------------------
(* Start and stop.                                                         *)

(* All the directories are carved again, or nothing was told of anything.  *)
LEMMA InitMainStructureInv ==
  ASSUME IInv, NEW noscan \in BOOLEAN, InitMainStructure(noscan)
  PROVE  IInv'
<1>1. UNCHANGED <<second, disk, ino, open, writes, renames, closing, carving, todo,
                  saveQueue, job, saved, twice>>
  BY DEF InitMainStructure, diskVars, carveVars
<1>2. /\ ~up /\ up' = TRUE /\ events' = <<>> /\ watched' \subseteq Inode
      /\ starts' = starts + 1 /\ starts < MaxStarts
      /\ errors' = errors \/ Fails
      /\ dirQueue' = IF noscan THEN <<>> ELSE SetToSeq(Root)
      /\ missed' = IF noscan THEN missed ELSE {}
  BY DEF InitMainStructure, StartFanotify
<1>3. TypeOK'
  <2>1. starts' \in 0 .. MaxStarts
    BY <1>2, Constants DEF IInv, TypeOK
  <2>2. dirQueue' \in Seq(Dir) /\ events' \in Seq(Inode)
    BY <1>2, RootsInOrder
  <2>3. missed' \subseteq Inode
    BY <1>2 DEF IInv, TypeOK
  <2>4. errors' \in 0 .. MaxErrors
    BY <1>2, ErrorsCounted DEF IInv, TypeOK
  <2> QED BY <1>1, <1>2, <2>1, <2>2, <2>3, <2>4 DEF IInv, TypeOK
<1>4. WorkInv'
  <2>1. SUFFICES ASSUME NEW n \in Name, Due(n)'
                 PROVE  \E p \in Above[n] : Pending(p)'
    BY DEF WorkInv
  <2>2. ~noscan
    BY <1>1, <1>2, <2>1 DEF IInv, DownInv, Due, TypeOK
  <2>3. PICK p \in Above[n] : p \in Root
    BY <2>1 DEF Due, Monitored
  <2> QED BY <1>2, <2>2, <2>3, RootsInOrder DEF Pending
<1>5. DiskInv' /\ QueueInv' /\ JobInv' /\ RowsInv'
  BY <1>1, DiskStays, RowsStay, JobStays, QueueStays
<1>6. CarvingInv' /\ DownInv'
  BY <1>1, <1>2 DEF IInv, CarvingInv, DownInv
<1> QED BY <1>3, <1>4, <1>5, <1>6 DEF IInv

LEMMA StopInv ==
  ASSUME IInv, Stop
  PROVE  IInv'
<1>1. UNCHANGED <<second, disk, ino, open, writes, renames, saved, twice, starts, errors>>
  BY DEF Stop, diskVars
<1>2. /\ up' = FALSE /\ watched' = {} /\ events' = <<>> /\ closing' = FALSE
      /\ carving' = Nil /\ todo' = {} /\ dirQueue' = <<>> /\ saveQueue' = <<>>
      /\ job' = Nil /\ missed' = Inode
  BY DEF Stop, StopFanotify
<1>3. TypeOK'
  <2>1. events' \in Seq(Inode) /\ dirQueue' \in Seq(Dir) /\ saveQueue' \in Seq(FileEvent)
    BY <1>2
  <2> QED BY <1>1, <1>2, <2>1 DEF IInv, TypeOK
<1>4. WorkInv'
  BY <1>2, <1>3 DEF WorkInv, Due, TypeOK
<1>5. DiskInv' /\ RowsInv'
  BY <1>1, DiskStays, RowsStay
<1>6. QueueInv' /\ JobInv' /\ CarvingInv' /\ DownInv'
  BY <1>2, NothingInEmpty DEF QueueInv, JobInv, CarvingInv, DownInv
<1> QED BY <1>3, <1>4, <1>5, <1>6 DEF IInv

-----------------------------------------------------------------------------
(* Thread 'fanotify-loop'.                                                 *)

(* The file an event is about is queued, or nothing tells of it.           *)
LEMMA FanotifyLoopInv ==
  ASSUME IInv, FanotifyLoop
  PROVE  IInv'
<1> DEFINE i == Head(events)
           paths == {n \in GetFilePathFromFd(i) : FilterOutIfNecessary(n)}
<1>1. /\ UNCHANGED <<second, disk, ino, open, writes, renames, up, carving, todo, dirQueue,
                     job, saved, twice, starts, watched>>
      /\ up /\ events # <<>> /\ events' = Tail(events) /\ closing' = TRUE
      /\ errors' = errors \/ Fails
      /\ \/ missed' = missed \ {i} /\ \E n \in paths : PushSaveQueue(n)
         \/ missed' = missed \cup {i} /\ saveQueue' = saveQueue
  BY DEF FanotifyLoop, EventProcess, diskVars, carveVars, runVars
<1>2. /\ i \in Inode /\ events' \in Seq(Inode)
      /\ ToSet(events) = {i} \cup ToSet(events')
  BY <1>1, Headed DEF IInv, TypeOK
<1>3. \A n \in paths : n \in Name /\ disk[n] = i
  BY DEF GetFilePathFromFd
<1> HIDE DEF i, paths
<1>4. /\ saveQueue' \in Seq(FileEvent) /\ QueueInv'
      /\ ToSet(saveQueue) \subseteq ToSet(saveQueue')
      /\ i \in missed' \/ \A n \in Name : disk[n] = i =>
                             \E fe \in ToSet(saveQueue') : Key(fe) = KeyNow(n)
  <2>1. CASE missed' = missed \cup {i} /\ saveQueue' = saveQueue
    BY <1>1, <2>1, QueueStays DEF IInv, TypeOK
  <2>2. CASE \E n \in paths : PushSaveQueue(n)
    <3>1. PICK n \in paths : PushSaveQueue(n)
      BY <2>2
    <3>2. n \in Name /\ disk[n] = i /\ n \in Path /\ disk[n] # Nil
      BY <1>2, <1>3, Constants DEF Path
    <3>3. \A m \in Name : disk[m] = i => m = n
      BY <3>2 DEF IInv, DiskInv
    <3>4. Key(NewFileEvent(n)) = KeyNow(n)
      BY <3>2, MetaDataRead
    <3>5. /\ saveQueue' \in Seq(FileEvent) /\ QueueInv'
          /\ ToSet(saveQueue') = ToSet(saveQueue) \cup {NewFileEvent(n)}
      BY <1>1, <3>1, <3>2, Pushed
    <3> QED BY <3>3, <3>4, <3>5
  <2> QED BY <1>1, <2>1, <2>2
<1>5. TypeOK'
  <2>1. errors' \in 0 .. MaxErrors
    BY <1>1, ErrorsCounted DEF IInv, TypeOK
  <2>2. missed' \subseteq Inode
    BY <1>1, <1>2 DEF IInv, TypeOK
  <2> QED BY <1>1, <1>2, <1>4, <2>1, <2>2 DEF IInv, TypeOK
<1>6. WorkInv'
  <2>1. SUFFICES ASSUME NEW n \in Name, Due(n)'
                 PROVE  Told(n)' \/ \E p \in Above[n] : Pending(p)'
    BY DEF WorkInv
  <2>2. CASE disk[n] = i
    BY <1>1, <1>4, <2>1, <2>2 DEF Told, KeyNow, Due
  <2>3. CASE disk[n] # i
    <3>1. Due(n)
      BY <1>1, <2>1, <2>3 DEF Due
    <3>2. Told(n) \/ \E p \in Above[n] : Pending(p)
      BY <3>1 DEF IInv, WorkInv
    <3> QED BY <1>1, <1>2, <1>4, <2>3, <3>2 DEF Told, Pending, KeyNow
  <2> QED BY <2>2, <2>3
<1>7. DiskInv' /\ JobInv' /\ RowsInv'
  BY <1>1, DiskStays, RowsStay, JobStays
<1>8. CarvingInv' /\ DownInv'
  BY <1>1 DEF IInv, CarvingInv, DownInv
<1> QED BY <1>4, <1>5, <1>6, <1>7, <1>8 DEF IInv

LEMMA CloseAgainInv ==
  ASSUME IInv, CloseAgain
  PROVE  IInv'
<1>1. /\ UNCHANGED <<second, disk, ino, open, writes, renames, up, events, carving, todo,
                     dirQueue, saveQueue, saved, missed, twice, starts, watched, errors>>
      /\ closing' = FALSE
      /\ job' = job \/ (job # Nil /\ job' = [job EXCEPT !.read = Nil])
  BY DEF CloseAgain, diskVars, carveVars, runVars
<1>2. /\ TypeOK'
      /\ job' = Nil <=> job = Nil
      /\ job # Nil => /\ job'.name = job.name /\ job'.inode = job.inode
                      /\ job'.date = job.date /\ job'.first = job.first
                      /\ job'.read \in {job.read, Nil}
  <2>1. CASE job' = job
    BY <1>1, <2>1 DEF IInv, TypeOK
  <2>2. CASE job # Nil /\ job' = [job EXCEPT !.read = Nil]
    <3>1. job \in Job
      BY <2>2 DEF IInv, TypeOK
    <3>2. /\ job' \in Job
          /\ job'.name = job.name /\ job'.inode = job.inode
          /\ job'.date = job.date /\ job'.first = job.first /\ job'.read = Nil
      BY <2>2, <3>1 DEF Job
    <3>3. job' # Nil
      BY <3>2, Constants
    <3> QED BY <1>1, <2>2, <3>2, <3>3 DEF IInv, TypeOK
  <2> QED BY <1>1, <2>1, <2>2
<1>3. WorkInv'
  BY <1>1, <1>2, WorkMoves DEF Told, Pending, KeyNow, Key
<1>4. JobInv'
  BY <1>1, <1>2, Constants DEF IInv, JobInv, ReadInv, SameContent, Key
<1>5. DiskInv' /\ QueueInv' /\ RowsInv'
  BY <1>1, DiskStays, RowsStay, QueueStays
<1>6. CarvingInv' /\ DownInv'
  BY <1>1 DEF IInv, CarvingInv, DownInv
<1> QED BY <1>2, <1>3, <1>4, <1>5, <1>6 DEF IInv

-----------------------------------------------------------------------------
(* Thread 'carve_all_directories'.                                         *)

LEMMA CarveOneDirectoryInv ==
  ASSUME IInv, CarveOneDirectory
  PROVE  IInv'
<1> DEFINE d == Head(dirQueue)
<1>1. /\ UNCHANGED <<second, disk, ino, open, writes, renames, up, events, closing,
                     saveQueue, job, saved, twice, starts, watched>>
      /\ carving = Nil /\ dirQueue # <<>> /\ dirQueue' = Tail(dirQueue)
      /\ \/ carving' = d /\ todo' = ChildrenOf(d) /\ missed' = missed /\ errors' = errors
         \/ Fails /\ LeftOut({d}) /\ carving' = carving /\ todo' = todo
  BY DEF CarveOneDirectory, diskVars, runVars, carveVars
<1>2. /\ d \in Dir /\ dirQueue' \in Seq(Dir)
      /\ ToSet(dirQueue) = {d} \cup ToSet(dirQueue')
  BY <1>1, Headed DEF IInv, TypeOK
<1> HIDE DEF d
<1>a. missed \subseteq missed' /\ missed' \subseteq Inode /\ errors' \in 0 .. MaxErrors
  BY <1>1, LeftOutIsMissed, ErrorsCounted DEF IInv, TypeOK
<1>3. TypeOK'
  <2>1. carving' \in Dir \cup {Nil} /\ todo' \subseteq DOMAIN Parent
    BY <1>1, <1>2 DEF IInv, TypeOK, ChildrenOf
  <2> QED BY <1>1, <1>2, <1>a, <2>1 DEF IInv, TypeOK
<1>4. WorkInv'
  <2>1. ASSUME NEW n \in Name, Due(n), Due(n)', NEW p \in Above[n], Pending(p)
        PROVE  \E q \in Above[n] : Pending(q)'
    <3>1. CASE p = d
      <4>1. PICK q \in Above[n] : q \in DOMAIN Parent /\ Parent[q] = d
        BY <1>2, <2>1, <3>1, OneStepNearer, Constants
      <4>2. q \in Name => disk[q] # Nil
        BY <2>1, AboveAreDirectories, Constants DEF Due
      <4>3. ~LeftOut({d})
        BY <1>1, <2>1, <3>1, LeftOutIsMissed
      <4> QED BY <1>1, <4>1, <4>2, <4>3 DEF Pending, ChildrenOf
    <3>2. CASE p # d
      <4>1. p \notin todo
        BY <1>1, Constants DEF IInv, CarvingInv
      <4> QED BY <1>1, <1>2, <2>1, <3>2, <4>1 DEF Pending
    <3> QED BY <3>1, <3>2
  <2> QED BY <1>1, <1>a, <2>1, WorkMoves DEF Told, KeyNow
<1>5. DiskInv' /\ QueueInv' /\ JobInv' /\ RowsInv'
  BY <1>1, DiskStays, QueueStays, JobStays, RowsStay
<1>6. CarvingInv' /\ DownInv'
  <2>1. CarvingInv'
    BY <1>1, <1>2 DEF IInv, CarvingInv, ChildrenOf
  <2>2. DownInv'
    BY <1>1, <1>a DEF IInv, DownInv, TypeOK
  <2> QED BY <2>1, <2>2
<1> QED BY <1>3, <1>4, <1>5, <1>6 DEF IInv

LEMMA IterateOverEnumInv ==
  ASSUME IInv, NEW p \in todo, IterateOverEnum(p)
  PROVE  IInv'
<1>1. /\ UNCHANGED <<second, disk, ino, open, writes, renames, up, events, closing, carving,
                     dirQueue, job, saved, missed, twice, starts, watched, errors>>
      /\ todo' = todo \ {p}
      /\ IF p \in ChildrenOf(carving) THEN PushSaveQueue(p) ELSE saveQueue' = saveQueue
  BY DEF IterateOverEnum, diskVars, runVars
<1>2. p \in Path /\ p \in DOMAIN Parent /\ carving \in Dir /\ Parent[p] = carving
  BY Constants DEF IInv, TypeOK, CarvingInv, Path
<1>3. p \in ChildrenOf(carving) <=> (p \in Name => disk[p] # Nil)
  BY <1>2 DEF ChildrenOf
<1>4. /\ saveQueue' \in Seq(FileEvent) /\ QueueInv'
      /\ ToSet(saveQueue) \subseteq ToSet(saveQueue')
      /\ (p \in Name => disk[p] # Nil) => NewFileEvent(p) \in ToSet(saveQueue')
  <2>1. CASE p \in ChildrenOf(carving)
    BY <1>1, <1>2, <1>3, <2>1, Pushed
  <2>2. CASE p \notin ChildrenOf(carving)
    BY <1>1, <1>3, <2>2, QueueStays DEF IInv, TypeOK
  <2> QED BY <2>1, <2>2
<1>5. TypeOK'
  BY <1>1, <1>4 DEF IInv, TypeOK
<1>6. WorkInv'
  <2>1. ASSUME NEW n \in Name, Due(n), NEW q \in Above[n], Pending(q)
        PROVE  Told(n)' \/ Pending(q)'
    <3>1. CASE q = p /\ p = n
      <4>1. Key(NewFileEvent(n)) = KeyNow(n)
        BY <1>2, <2>1, <3>1, MetaDataRead DEF Due
      <4> QED BY <1>1, <1>4, <2>1, <3>1, <4>1 DEF Due, Told, KeyNow
    <3>2. CASE q = p /\ p # n
      <4>1. p \in Dir /\ p \notin Name
        BY <3>2, AboveAreDirectories, Constants
      <4>2. NewFileEvent(p).name = p
        BY <1>2, <4>1, MetaDataRead
      <4> QED BY <1>4, <3>2, <4>1, <4>2 DEF Pending
    <3>3. CASE q # p
      BY <1>1, <1>4, <2>1, <3>3 DEF Pending
    <3> QED BY <3>1, <3>2, <3>3
  <2>2. ASSUME NEW n \in Name, Told(n)
        PROVE  Told(n)'
    BY <1>1, <1>4, <2>2 DEF Told, KeyNow
  <2> QED BY <1>1, <2>1, <2>2, WorkMoves
<1>7. DiskInv' /\ JobInv' /\ RowsInv'
  BY <1>1, DiskStays, JobStays, RowsStay
<1>8. CarvingInv' /\ DownInv'
  BY <1>1 DEF IInv, CarvingInv, DownInv
<1> QED BY <1>4, <1>5, <1>6, <1>7, <1>8 DEF IInv

LEMMA EndOfDirectoryInv ==
  ASSUME IInv, EndOfDirectory
  PROVE  IInv'
<1>1. /\ UNCHANGED <<second, disk, ino, open, writes, renames, up, events, closing,
                     dirQueue, saveQueue, job, saved, twice, starts, watched>>
      /\ carving' = Nil /\ todo' = {} /\ LeftOut(todo)
      /\ errors' = errors \/ Fails
  BY DEF EndOfDirectory, diskVars, runVars
<1>a. /\ missed \subseteq missed' /\ missed' \subseteq Inode
      /\ \A n \in Name : Due(n)' => Above[n] \cap todo = {}
  BY <1>1, LeftOutIsMissed
<1>2. TypeOK'
  <2>1. errors' \in 0 .. MaxErrors
    BY <1>1, ErrorsCounted DEF IInv, TypeOK
  <2> QED BY <1>1, <1>a, <2>1 DEF IInv, TypeOK
<1>3. WorkInv'
  <2>1. ASSUME NEW n \in Name, Due(n), Due(n)', NEW p \in Above[n], Pending(p)
        PROVE  Pending(p)'
    BY <1>1, <1>a, <2>1 DEF Pending
  <2> QED BY <1>1, <1>a, <2>1, WorkMoves DEF Told, KeyNow
<1>4. DiskInv' /\ QueueInv' /\ JobInv' /\ RowsInv'
  BY <1>1, DiskStays, QueueStays, JobStays, RowsStay
<1>5. CarvingInv' /\ DownInv'
  BY <1>1, <1>a DEF IInv, TypeOK, CarvingInv, DownInv
<1> QED BY <1>2, <1>3, <1>4, <1>5 DEF IInv

-----------------------------------------------------------------------------
(* Thread 'save_one_file'.                                                 *)

LEMMA Popped ==
  ASSUME IInv, NEW fe, Pop(fe)
  PROVE  /\ job = Nil /\ fe \in FileEvent /\ ReadInv(fe)
         /\ saveQueue' \in Seq(FileEvent)
         /\ ToSet(saveQueue) = {fe} \cup ToSet(saveQueue')
<1>1. /\ job = Nil /\ saveQueue # <<>> /\ fe = Head(saveQueue)
      /\ saveQueue' = Tail(saveQueue)
  BY DEF Pop
<1>2. /\ fe \in FileEvent /\ saveQueue' \in Seq(FileEvent)
      /\ ToSet(saveQueue) = {fe} \cup ToSet(saveQueue')
  BY <1>1, Headed DEF IInv, TypeOK
<1>3. ReadInv(fe)
  BY <1>2 DEF IInv, QueueInv
<1> QED BY <1>1, <1>2, <1>3

LEMMA SkipFileInv ==
  ASSUME IInv, NEW fe, SkipFile(fe)
  PROVE  IInv'
<1>1. /\ Pop(fe)
      /\ UNCHANGED <<second, disk, ino, open, writes, renames, up, events, closing, carving,
                     todo, dirQueue, job, saved, missed, twice, starts, watched, errors>>
      /\ fe.name \in Excluded \/ (fe.name \in Name /\ IsFileInCache(fe))
  BY DEF SkipFile, diskVars, carveVars, runVars, ExcludeFile
<1>2. /\ fe \in FileEvent /\ saveQueue' \in Seq(FileEvent)
      /\ ToSet(saveQueue) = {fe} \cup ToSet(saveQueue')
  BY <1>1, Popped
<1>3. TypeOK'
  BY <1>1, <1>2 DEF IInv, TypeOK
<1>4. WorkInv'
  <2>1. ASSUME NEW n \in Name, Due(n), Told(n)
        PROVE  Told(n)'
    <3>1. CASE Key(fe) = KeyNow(n)
      <4>1. fe.name = n /\ fe.name \notin Excluded
        BY <2>1, <3>1, AboveOf DEF Key, KeyNow, Due, Path
      <4>2. \E row \in saved : Key(row) = KeyNow(n)
        BY <1>1, <3>1, <4>1 DEF IsFileInCache
      <4> QED BY <1>1, <4>2 DEF Told, KeyNow
    <3>2. CASE Key(fe) # KeyNow(n)
      BY <1>1, <1>2, <2>1, <3>2 DEF Told, KeyNow
    <3> QED BY <3>1, <3>2
  <2>2. ASSUME NEW n \in Name, Due(n), NEW p \in Above[n], Pending(p)
        PROVE  Pending(p)'
    BY <1>1, <1>2, <2>2, Constants DEF Pending, Due
  <2> QED BY <1>1, <2>1, <2>2, WorkMoves
<1>5. DiskInv' /\ QueueInv' /\ JobInv' /\ RowsInv'
  BY <1>1, <1>2, DiskStays, QueueStays, JobStays, RowsStay
<1>6. CarvingInv' /\ DownInv'
  BY <1>1 DEF IInv, CarvingInv, DownInv
<1> QED BY <1>3, <1>4, <1>5, <1>6 DEF IInv

(* A row is written about something that had none.                         *)
LEMMA RowOf ==
  ASSUME NEW r, NEW read, NEW first, NEW last
  PROVE  /\ Key(Row(r, read, first, last)) = Key(r)
         /\ Row(r, read, first, last).name = r.name
         /\ Row(r, read, first, last).inode = r.inode
         /\ Row(r, read, first, last).date = r.date
         /\ Row(r, read, first, last).read = read
         /\ Row(r, read, first, last).first = first
         /\ Row(r, read, first, last).last = last
  BY DEF Row, Key

LEMMA SaveDirectoryInv ==
  ASSUME IInv, NEW fe, SaveDirectory(fe)
  PROVE  IInv'
<1> DEFINE row == Row(fe, Nil, 0, 0)
<1>1. /\ Pop(fe)
      /\ UNCHANGED <<second, disk, ino, open, writes, renames, up, events, closing, carving,
                     todo, job, missed, twice, starts, watched, errors>>
      /\ fe.name \in Dir /\ dirQueue' = Append(dirQueue, fe.name)
      /\ saved' = IF IsFileInCache(fe) THEN saved ELSE saved \cup {row}
  BY DEF SaveDirectory, diskVars, carveVars, runVars
<1>2. /\ job = Nil /\ fe \in FileEvent /\ saveQueue' \in Seq(FileEvent)
      /\ ToSet(saveQueue) = {fe} \cup ToSet(saveQueue')
  BY <1>1, Popped
<1>3. dirQueue' \in Seq(Dir) /\ ToSet(dirQueue') = ToSet(dirQueue) \cup {fe.name}
  BY <1>1, Appended DEF IInv, TypeOK
<1>4. row.name = fe.name /\ row.inode = fe.inode /\ row.date = fe.date
  BY RowOf
<1>5. fe.inode = Nil
  BY <1>1, <1>2, Constants DEF FileEvent
<1> HIDE DEF row
<1>6. TypeOK'
  <2>1. [name |-> row.name, inode |-> row.inode, date |-> row.date] \in FileEvent
    <3>1. fe = [name |-> fe.name, inode |-> fe.inode, date |-> fe.date]
      BY <1>2 DEF FileEvent
    <3> QED BY <1>2, <1>4, <3>1
  <2> QED BY <1>1, <1>2, <1>3, <2>1 DEF IInv, TypeOK
<1>7. WorkInv'
  <2>1. ASSUME NEW n \in Name, Told(n)
        PROVE  Told(n)'
    <3>1. Key(fe) # KeyNow(n)
      BY <1>1, Constants DEF Key, KeyNow
    <3> QED BY <1>1, <1>2, <2>1, <3>1 DEF Told, KeyNow
  <2>2. ASSUME NEW p, Pending(p)
        PROVE  Pending(p)'
    BY <1>1, <1>2, <1>3, <2>2 DEF Pending
  <2> QED BY <1>1, <2>1, <2>2, WorkMoves
<1>8. RowsInv'
  BY <1>1, <1>4, <1>5, Constants DEF IInv, RowsInv, ReadInv, SameContent
<1>9. DiskInv' /\ QueueInv' /\ JobInv'
  BY <1>1, <1>2, DiskStays, QueueStays DEF JobInv
<1>10. CarvingInv' /\ DownInv'
  BY <1>1 DEF IInv, CarvingInv, DownInv
<1> QED BY <1>6, <1>7, <1>8, <1>9, <1>10 DEF IInv

LEMMA SaveOneFileInv ==
  ASSUME IInv, NEW fe, SaveOneFile(fe)
  PROVE  IInv'
<1> DEFINE i == disk[fe.name]
<1>1. /\ Pop(fe)
      /\ UNCHANGED <<second, disk, ino, open, writes, renames, up, events, closing, carving,
                     todo, dirQueue, saved, missed, twice, starts, watched, errors>>
      /\ fe.name \in Name /\ ~IsFileInCache(fe)
      /\ job' \in [name : {fe.name}, inode : {fe.inode}, date : {fe.date}, read : {i},
                    first : {IF i = Nil THEN 0 ELSE ino[i].content}, shared : {FALSE, closing}]
  BY DEF SaveOneFile, diskVars, carveVars, runVars
<1>2. /\ job = Nil /\ fe \in FileEvent /\ ReadInv(fe) /\ saveQueue' \in Seq(FileEvent)
      /\ ToSet(saveQueue) = {fe} \cup ToSet(saveQueue')
  BY <1>1, Popped
<1>3. /\ job'.name = fe.name /\ job'.inode = fe.inode /\ job'.date = fe.date
      /\ job'.read = i /\ job'.first = IF i = Nil THEN 0 ELSE ino[i].content
  BY <1>1
<1>4. job' \in Job /\ job' # Nil
  <2>1. fe.inode \in Inode /\ fe.date \in 0 .. MaxSecond
    BY <1>1, <1>2, Constants DEF FileEvent
  <2>2. i \in Inode \cup {Nil} /\ (i \in Inode => ino[i].content \in Contents)
    BY <1>1 DEF IInv, TypeOK
  <2>3. 0 \in Contents /\ {FALSE, closing} \subseteq BOOLEAN
    BY Constants DEF Contents, IInv, TypeOK
  <2>4. (IF i = Nil THEN 0 ELSE ino[i].content) \in Contents
    BY <2>2, <2>3
  <2> HIDE DEF i
  <2>5. job' \in Job
    BY <1>1, <2>1, <2>2, <2>3, <2>4 DEF Job
  <2> QED BY <2>5, Constants
<1> HIDE DEF i
<1>5. TypeOK'
  BY <1>1, <1>2, <1>4 DEF IInv, TypeOK
<1>6. Key(job') = Key(fe)
  BY <1>3 DEF Key
<1>7. WorkInv'
  <2>1. ASSUME NEW n \in Name, Told(n)
        PROVE  Told(n)'
    BY <1>1, <1>2, <1>4, <1>6, <2>1 DEF Told, KeyNow, Key
  <2>2. ASSUME NEW p, Pending(p)
        PROVE  Pending(p)'
    BY <1>1, <1>2, <2>2, Constants DEF Pending
  <2> QED BY <1>1, <2>1, <2>2, WorkMoves
<1>8. JobInv'
  <2>1. ReadInv(job)' /\ SameContent(job, job.first)'
    BY <1>1, <1>2, <1>3, Constants DEF ReadInv, SameContent
  <2>2. \A row \in saved' : Key(row) # Key(job')
    BY <1>1, <1>6 DEF IsFileInCache
  <2> QED BY <2>1, <2>2 DEF JobInv, Key
<1>9. DiskInv' /\ QueueInv' /\ RowsInv'
  BY <1>1, <1>2, DiskStays, QueueStays, RowsStay
<1>10. CarvingInv' /\ DownInv'
  BY <1>1 DEF IInv, CarvingInv, DownInv
<1> QED BY <1>5, <1>7, <1>8, <1>9, <1>10 DEF IInv

LEMMA EndOfFileInv ==
  ASSUME IInv, EndOfFile
  PROVE  IInv'
<1> DEFINE last == IF job.read = Nil THEN 0 ELSE ino[job.read].content
           row == Row(job, job.read, job.first, last)
<1>1. /\ UNCHANGED <<second, disk, ino, open, writes, renames, up, events, closing, carving,
                     todo, dirQueue, saveQueue, missed, twice, starts, watched, errors>>
      /\ job # Nil /\ job' = Nil /\ saved' = saved \cup {row}
  BY DEF EndOfFile, diskVars, carveVars, runVars
<1>2. /\ Key(row) = Key(job)
      /\ row.name = job.name /\ row.inode = job.inode /\ row.date = job.date
      /\ row.read = job.read /\ row.first = job.first /\ row.last = last
  BY RowOf
<1>3. job \in Job /\ ReadInv(job) /\ SameContent(job, job.first)
  BY <1>1 DEF IInv, TypeOK, JobInv
<1> HIDE DEF row
<1>4. TypeOK'
  <2>1. [name |-> row.name, inode |-> row.inode, date |-> row.date] \in FileEvent
    BY <1>2, <1>3 DEF FileEvent, Job
  <2> QED BY <1>1, <2>1 DEF IInv, TypeOK
<1>5. WorkInv'
  <2>1. ASSUME NEW n \in Name, Told(n)
        PROVE  Told(n)'
    BY <1>1, <1>2, <2>1 DEF Told, KeyNow
  <2>2. ASSUME NEW p, Pending(p)
        PROVE  Pending(p)'
    BY <1>1, <2>2 DEF Pending
  <2> QED BY <1>1, <2>1, <2>2, WorkMoves
<1>6. RowsInv'
  <2>1. ReadInv(row) /\ SameContent(row, row.first) /\ SameContent(row, row.last)
    BY <1>2, <1>3, Constants DEF ReadInv, SameContent
  <2>2. ASSUME NEW r \in saved'
        PROVE  ReadInv(r)' /\ SameContent(r, r.first)' /\ SameContent(r, r.last)'
    <3>1. ReadInv(r) /\ SameContent(r, r.first) /\ SameContent(r, r.last)
      BY <1>1, <2>1, <2>2 DEF IInv, RowsInv
    <3> QED BY <1>1, <3>1 DEF ReadInv, SameContent
  <2> QED BY <2>2 DEF RowsInv
<1>7. DiskInv' /\ QueueInv' /\ JobInv'
  BY <1>1, DiskStays, QueueStays DEF JobInv
<1>8. CarvingInv' /\ DownInv'
  BY <1>1 DEF IInv, CarvingInv, DownInv
<1> QED BY <1>4, <1>5, <1>6, <1>7, <1>8 DEF IInv

-----------------------------------------------------------------------------
LEMMA InitInv == Init => IInv
<1> SUFFICES ASSUME Init PROVE IInv
  OBVIOUS
<1>1. TypeOK
  <2>1. 0 \in 0 .. MaxSecond /\ 0 \in 0 .. MaxWrites /\ 0 \in 0 .. MaxRenames
        /\ 0 \in 0 .. MaxStarts /\ 0 \in 0 .. MaxErrors
    BY Constants
  <2>2. <<>> \in Seq(Inode) /\ <<>> \in Seq(Dir) /\ <<>> \in Seq(FileEvent)
    OBVIOUS
  <2> QED BY <2>1, <2>2 DEF Init, TypeOK, Contents
<1>2. WorkInv /\ CarvingInv /\ DiskInv /\ DownInv
  <2>1. \A i \in Inode : ino[i].date = 0 /\ second = 0
    BY DEF Init
  <2>2. DiskInv
    BY <2>1 DEF Init, DiskInv
  <2> QED BY <2>2 DEF Init, WorkInv, Due, CarvingInv, DownInv
<1>3. QueueInv /\ JobInv /\ RowsInv
  BY NothingInEmpty DEF Init, QueueInv, JobInv, RowsInv
<1> QED BY <1>1, <1>2, <1>3 DEF IInv

LEMMA StutterInv ==
  ASSUME IInv, UNCHANGED vars
  PROVE  IInv'
<1>1. UNCHANGED <<second, disk, ino, open, writes, renames, up, events, closing, carving,
                  todo, dirQueue, saveQueue, job, saved, missed, twice, starts, watched,
                  errors>>
  BY DEF vars, diskVars, clientVars, carveVars, runVars
<1>2. TypeOK'
  BY <1>1 DEF IInv, TypeOK
<1>3. WorkInv'
  BY <1>1, WorkMoves DEF Told, Pending, KeyNow
<1>4. DiskInv' /\ QueueInv' /\ JobInv' /\ RowsInv'
  BY <1>1, DiskStays, QueueStays, JobStays, RowsStay
<1>5. CarvingInv' /\ DownInv'
  BY <1>1 DEF IInv, CarvingInv, DownInv
<1> QED BY <1>2, <1>3, <1>4, <1>5 DEF IInv

LEMMA NextInv == IInv /\ [Next]_vars => IInv'
<1> SUFFICES ASSUME IInv, [Next]_vars PROVE IInv'
  OBVIOUS
<1>1. CASE SaveThread
  BY <1>1, SkipFileInv, SaveDirectoryInv, SaveOneFileInv, EndOfFileInv DEF SaveThread
<1>2. CASE CarveThread
  BY <1>2, CarveOneDirectoryInv, EndOfDirectoryInv, IterateOverEnumInv DEF CarveThread
<1>3. CASE FanotifyThread
  BY <1>3, FanotifyLoopInv, CloseAgainInv DEF FanotifyThread
<1>4. CASE Users
  BY <1>4, WriteInv, CloseInv, RenameInv DEF Users
<1>5. CASE Tick
  BY <1>5, TickInv
<1>6. ASSUME NEW noscan \in BOOLEAN, InitMainStructure(noscan)
      PROVE  IInv'
  BY <1>6, InitMainStructureInv
<1>7. CASE Stop
  BY <1>7, StopInv
<1>8. CASE UNCHANGED vars
  BY <1>8, StutterInv
<1> QED BY <1>1, <1>2, <1>3, <1>4, <1>5, <1>6, <1>7, <1>8 DEF Next

(* The invariant holds for any tree, any users and any starts and stops.   *)
THEOREM IInvCorrect == Spec => []IInv
BY InitInv, NextInv, PTL DEF Spec

(* Every variable has its type: directories alone are carved, files alone  *)
(* are read, and what is queued has the meta data of a file that was there.*)
THEOREM TypeCorrect == Spec => []TypeOK
<1>1. IInv => TypeOK
  BY DEF IInv
<1> QED BY <1>1, IInvCorrect, PTL

(* When the threads of the client have nothing to do, what they had to     *)
(* save has been saved in its last version, except of a file that nothing  *)
(* told of: that is all that an unmarked mount, a directory under another  *)
(* name, an unreadable directory and the limits of fanotify do.            *)
THEOREM LastVersionSavedCorrect == Spec => []LastVersionSaved
<1>1. IInv => LastVersionSaved
  <2> SUFFICES ASSUME IInv, Settled, NEW n \in Name, Due(n)
               PROVE  \E row \in saved :
                          /\ Key(row) = KeyNow(n)
                          /\ row.read = disk[n] =>
                               /\ row.first = ino[disk[n]].content
                               /\ row.last = ino[disk[n]].content
    BY DEF LastVersionSaved, Due, KeyNow
  <2>1. todo = {} /\ ToSet(events) = {} /\ ToSet(dirQueue) = {} /\ ToSet(saveQueue) = {}
        /\ job = Nil
    BY NothingInEmpty, Constants DEF Settled, IInv, CarvingInv
  <2>2. PICK row \in saved : Key(row) = KeyNow(n)
    BY <2>1 DEF IInv, WorkInv, Told, Pending
  <2>3. row.inode = disk[n] /\ row.date = ino[disk[n]].date
    BY <2>2 DEF Key, KeyNow
  <2>4. SameContent(row, row.first) /\ SameContent(row, row.last)
    BY DEF IInv, RowsInv
  <2>5. disk[n] \in Inode /\ disk[n] \notin twice
    BY DEF Due, IInv, TypeOK
  <2> QED BY <2>2, <2>3, <2>4, <2>5 DEF SameContent
<1> QED BY <1>1, IInvCorrect, PTL

(* save_one_file looks in the cache late enough: it never saves a file     *)
(* with a name, an inode and a date that has been saved.                   *)
THEOREM SavedOnceCorrect == Spec => SavedOnce
<1> DEFINE Once == \A row \in saved' \ saved : \A old \in saved : Key(old) # Key(row)
<1>1. ASSUME NEW fe, SaveDirectory(fe)
      PROVE  Once
  <2>1. saved' \subseteq IF IsFileInCache(fe) THEN saved ELSE saved \cup {Row(fe, Nil, 0, 0)}
    BY <1>1 DEF SaveDirectory
  <2>2. Key(Row(fe, Nil, 0, 0)) = Key(fe)
    BY RowOf
  <2> QED BY <2>1, <2>2 DEF IsFileInCache
<1>2. ASSUME IInv, EndOfFile
      PROVE  Once
  <2> DEFINE last == IF job.read = Nil THEN 0 ELSE ino[job.read].content
             row == Row(job, job.read, job.first, last)
  <2>1. saved' = saved \cup {row} /\ job # Nil
    BY <1>2 DEF EndOfFile
  <2>2. Key(row) = Key(job)
    BY RowOf
  <2> QED BY <1>2, <2>1, <2>2 DEF IInv, JobInv
<1>3. ASSUME [Next]_vars, ~(\E fe : SaveDirectory(fe)), ~EndOfFile
      PROVE  UNCHANGED saved
  BY <1>3 DEF Next, SaveThread, CarveThread, FanotifyThread, Users, SkipFile, SaveOneFile,
     CarveOneDirectory, EndOfDirectory, IterateOverEnum, FanotifyLoop, CloseAgain, Write,
     Close, Rename, Tick, InitMainStructure, Stop, vars
<1>4. IInv /\ [Next]_vars => [Once]_saved
  BY <1>1, <1>2, <1>3
<1> QED BY <1>4, IInvCorrect, PTL DEF Spec, SavedOnce
=============================================================================
