---------------------------- MODULE OutboxProofs ----------------------------
(***************************************************************************)
(* Outbox for any number of files, requests, crashes and lost answers: the *)
(* strengthening IInv is inductive, hence nothing is lost and only posted  *)
(* rows are deleted.                                                       *)
(***************************************************************************)
EXTENDS Outbox, TLAPS, FiniteSetTheorems

(* Shorthand: t is a well-formed set of tables satisfying the invariant.   *)
Good(t, p) == t \in Tables /\ TablesInv(t, p)

Counters == [Request -> Nat]

-----------------------------------------------------------------------------
(* What each statement does to the invariant of the tables.                *)

LEMMA EmptyTablesGood == \A p \in Counters : Good(EmptyTables, p)
  BY DEF Good, EmptyTables, Tables, TablesInv, Counters

(* A new row gets an id no row and no mark has: nothing else changes.      *)
LEMMA InsertBufferGood ==
  ASSUME NEW t, NEW p \in Counters, NEW m \in Request, Good(t, p)
  PROVE  /\ Good(InsertBuffer(t, m), p)
         /\ Safe(InsertBuffer(t, m), p, m)
         /\ \A x \in Request : Safe(t, p, x) => Safe(InsertBuffer(t, m), p, x)
<1> DEFINE u == InsertBuffer(t, m)
           new == [id |-> t.lastId + 1, data |-> m]
<1>1. /\ u \in Tables
      /\ u.buffers = t.buffers \cup {new}
      /\ u.lastId = t.lastId + 1
      /\ u.transmited = t.transmited
      /\ u.files = t.files
  <2>1. t \in Tables
    BY DEF Good
  <2>0. t.lastId + 1 \in Nat
    BY <2>1 DEF Tables
  <2>2. new \in [id : Nat, data : Request]
    BY <2>0
  <2>3. t.buffers \cup {new} \in SUBSET [id : Nat, data : Request]
    BY <2>1, <2>2 DEF Tables
  <2>4. t.lastId + 1 \in Nat
    BY <2>1 DEF Tables
  <2>5. u = [t EXCEPT !.buffers = t.buffers \cup {new}, !.lastId = t.lastId + 1]
    BY Zenon DEF InsertBuffer
  <2> HIDE DEF new, u
  <2>6. u = [buffers |-> t.buffers \cup {new}, transmited |-> t.transmited,
             files |-> t.files, lastId |-> t.lastId + 1]
    BY <2>1, <2>5 DEF Tables
  <2>7. u \in Tables
    BY <2>1, <2>3, <2>4, <2>6 DEF Tables
  <2> QED BY <2>6, <2>7
<1>2. t.lastId \in Nat /\ t.transmited \subseteq Nat /\ \A r \in t.buffers : r.id \in Nat
  BY DEF Good, Tables
<1> HIDE DEF u
<1>3. Safe(u, p, m)
  <2>1. new \in u.buffers
    BY <1>1
  <2>2. new.data = m
    OBVIOUS
  <2> HIDE DEF new
  <2> QED BY <2>1, <2>2 DEF Safe
<1>4. \A x : Safe(t, p, x) => Safe(u, p, x)
  BY <1>1 DEF Safe
<1>5. TablesInv(u, p)
  <2>1. \A r \in u.buffers : r.id <= u.lastId
    BY <1>1, <1>2 DEF Good, TablesInv
  <2>2. \A i \in u.transmited : i <= u.lastId
    BY <1>1, <1>2 DEF Good, TablesInv
  <2>3. \A r, s \in u.buffers : r.id = s.id => r = s
    BY <1>1, <1>2 DEF Good, TablesInv
  <2>4. \A r \in u.buffers : r.id \in u.transmited => p[r.data] > 0
    BY <1>1, <1>2 DEF Good, TablesInv
  <2>5. \A f \in u.files : \A n \in 1 .. NbReq : Safe(u, p, <<f, n>>)
    BY <1>1, <1>4 DEF Good, TablesInv
  <2> QED BY <2>1, <2>2, <2>3, <2>4, <2>5 DEF TablesInv
<1> QED BY <1>1, <1>3, <1>4, <1>5 DEF Good, u

(* A file enters the cache only when all its requests are safe.            *)
LEMMA InsertFileGood ==
  ASSUME NEW t, NEW p \in Counters, NEW f \in File, Good(t, p),
         \A n \in 1 .. NbReq : Safe(t, p, <<f, n>>)
  PROVE  /\ Good(InsertFile(t, f), p)
         /\ \A x \in Request : Safe(t, p, x) => Safe(InsertFile(t, f), p, x)
<1> DEFINE u == InsertFile(t, f)
<1>1. /\ u \in Tables
      /\ u.buffers = t.buffers
      /\ u.lastId = t.lastId
      /\ u.transmited = t.transmited
      /\ u.files = t.files \cup {f}
  BY DEF Good, Tables, InsertFile
<1>2. \A x : Safe(t, p, x) => Safe(u, p, x)
  BY <1>1 DEF Safe
<1> HIDE DEF u
<1>3. \A g \in u.files : \A n \in 1 .. NbReq : Safe(u, p, <<g, n>>)
  BY <1>1, <1>2 DEF Good, TablesInv
<1> QED BY <1>1, <1>2, <1>3 DEF Good, TablesInv, u

(* A row may be marked once it was posted.                                 *)
LEMMA InsertTransmitedGood ==
  ASSUME NEW t, NEW p \in Counters, NEW i \in Nat, Good(t, p),
         i <= t.lastId, \A r \in t.buffers : r.id = i => p[r.data] > 0
  PROVE  /\ Good(InsertTransmited(t, i), p)
         /\ \A x \in Request : Safe(t, p, x) => Safe(InsertTransmited(t, i), p, x)
<1> DEFINE u == InsertTransmited(t, i)
<1>1. /\ u \in Tables
      /\ u.buffers = t.buffers
      /\ u.lastId = t.lastId
      /\ u.transmited = t.transmited \cup {i}
      /\ u.files = t.files
  BY DEF Good, Tables, InsertTransmited
<1>2. \A x : Safe(t, p, x) => Safe(u, p, x)
  BY <1>1 DEF Safe
<1> HIDE DEF u
<1>3. \A f \in u.files : \A n \in 1 .. NbReq : Safe(u, p, <<f, n>>)
  BY <1>1, <1>2 DEF Good, TablesInv
<1> QED BY <1>1, <1>2, <1>3 DEF Good, TablesInv, u

(* A marked row may be deleted: the server has what it held.               *)
LEMMA DeleteBufferGood ==
  ASSUME NEW t, NEW p \in Counters, NEW i \in t.transmited, Good(t, p)
  PROVE  /\ Good(DeleteBuffer(t, i), p)
         /\ \A x \in Request : Safe(t, p, x) => Safe(DeleteBuffer(t, i), p, x)
         /\ \A r \in t.buffers \ DeleteBuffer(t, i).buffers : p[r.data] > 0
<1> DEFINE u == DeleteBuffer(t, i)
<1>1. /\ u \in Tables
      /\ u.buffers = {r \in t.buffers : r.id # i}
      /\ u.lastId = t.lastId
      /\ u.transmited = t.transmited
      /\ u.files = t.files
  BY DEF Good, Tables, DeleteBuffer
<1>2. \A r \in t.buffers : r.id = i => p[r.data] > 0
  BY DEF Good, TablesInv
<1>3. \A x : Safe(t, p, x) => Safe(u, p, x)
  BY <1>1, <1>2 DEF Safe
<1> HIDE DEF u
<1>4. \A f \in u.files : \A n \in 1 .. NbReq : Safe(u, p, <<f, n>>)
  BY <1>1, <1>3 DEF Good, TablesInv
<1>5. \A r \in t.buffers \ u.buffers : p[r.data] > 0
  BY <1>1, <1>2
<1> QED BY <1>1, <1>3, <1>4, <1>5 DEF Good, TablesInv, u

(* Posts only make more requests safe.                                     *)
LEMMA PostGood ==
  ASSUME NEW p \in Counters, NEW m \in Request
  PROVE  LET q == [p EXCEPT ![m] = @ + 1]
         IN  /\ q \in Counters
             /\ q[m] > 0
             /\ \A x \in Request : p[x] > 0 => q[x] > 0
             /\ \A t : Good(t, p) => Good(t, q)
             /\ \A t, x : x \in Request /\ Safe(t, p, x) => Safe(t, q, x)
<1> DEFINE q == [p EXCEPT ![m] = @ + 1]
<1>1. q \in Counters /\ q[m] > 0 /\ \A x \in Request : p[x] > 0 => q[x] > 0
  BY DEF Counters
<1> HIDE DEF q
<1>2. \A t, x : x \in Request /\ Safe(t, p, x) => Safe(t, q, x)
  BY <1>1 DEF Safe
<1>3. ASSUME NEW t, Good(t, p) PROVE Good(t, q)
  <2>1. \A r \in t.buffers : r.data \in Request
    BY <1>3 DEF Good, Tables
  <2>2. \A f \in t.files : \A n \in 1 .. NbReq : <<f, n>> \in Request
    BY <1>3 DEF Good, Tables, Request
  <2>3. \A r \in t.buffers : r.id \in t.transmited => q[r.data] > 0
    BY <1>1, <1>3, <2>1 DEF Good, TablesInv
  <2>4. \A f \in t.files : \A n \in 1 .. NbReq : Safe(t, q, <<f, n>>)
    BY <1>2, <1>3, <2>2 DEF Good, TablesInv
  <2> QED BY <1>3, <2>3, <2>4 DEF Good, TablesInv
<1> QED BY <1>1, <1>2, <1>3 DEF q

-----------------------------------------------------------------------------
(* The part of IInv about the database, and what the four ways of writing  *)
(* to it do: the invariant is kept, and what is safe in both views of the  *)
(* tables stays safe in both.                                              *)
DbInv == Good(conn, posts) /\ Good(disk, posts) /\ (~inTx => disk = conn)

BothSafe(m) == Safe(conn, posts, m) /\ Safe(disk, posts, m)

LEMMA BeginGood ==
  ASSUME DbInv, Begin, UNCHANGED posts
  PROVE  DbInv' /\ inTx' \in BOOLEAN /\ \A x \in Request : BothSafe(x) => BothSafe(x)'
BY DEF DbInv, Begin, BothSafe, Good, Safe, TablesInv, Tables

LEMMA WriteGood ==
  ASSUME NEW u, DbInv, inTx \in BOOLEAN, Write(u), UNCHANGED posts,
         Good(u, posts),
         \A x \in Request : Safe(conn, posts, x) => Safe(u, posts, x)
  PROVE  /\ DbInv' /\ inTx' \in BOOLEAN
         /\ \A x \in Request : BothSafe(x) => BothSafe(x)'
<1>1. conn' = u /\ disk' = (IF inTx THEN disk ELSE u) /\ inTx' = inTx /\ posts' = posts
  BY DEF Write
<1>2. DbInv'
  BY <1>1 DEF DbInv, Good, TablesInv, Safe
<1>3. \A x \in Request : BothSafe(x) => BothSafe(x)'
  BY <1>1 DEF BothSafe, Safe
<1> QED BY <1>1, <1>2, <1>3

LEMMA CommitGood ==
  ASSUME DbInv, Commit, UNCHANGED posts
  PROVE  /\ DbInv' /\ inTx' \in BOOLEAN
         /\ \A x \in Request : Safe(conn, posts, x) => BothSafe(x)'
         /\ \A x \in Request : BothSafe(x) => BothSafe(x)'
<1>1. conn' = conn /\ disk' = conn /\ inTx' = FALSE /\ posts' = posts
  BY DEF Commit, DbInv
<1>2. DbInv'
  BY <1>1 DEF DbInv, Good, TablesInv, Safe
<1>3. \A x \in Request : Safe(conn, posts, x) => BothSafe(x)'
  BY <1>1 DEF BothSafe, Safe
<1> QED BY <1>1, <1>2, <1>3 DEF BothSafe

LEMMA TransactionGood ==
  ASSUME NEW u, Transaction(u), UNCHANGED posts,
         Good(u, posts),
         \A x \in Request : Safe(conn, posts, x) => Safe(u, posts, x)
  PROVE  /\ DbInv' /\ inTx' \in BOOLEAN
         /\ \A x \in Request : Safe(conn, posts, x) => BothSafe(x)'
<1>1. conn' = u /\ disk' = u /\ inTx' = FALSE /\ posts' = posts
  BY DEF Transaction
<1>2. DbInv'
  BY <1>1 DEF DbInv, Good, TablesInv, Safe
<1>3. \A x \in Request : Safe(conn, posts, x) => BothSafe(x)'
  BY <1>1 DEF BothSafe, Safe
<1> QED BY <1>1, <1>2, <1>3

(* A post of m by either thread.                                           *)
LEMMA PostStepGood ==
  ASSUME NEW m \in Request, DbInv, posts \in Counters,
         posts' = [posts EXCEPT ![m] = @ + 1], UNCHANGED dbVars
  PROVE  /\ DbInv' /\ posts' \in Counters /\ posts'[m] > 0
         /\ \A x \in Request : posts[x] > 0 => posts'[x] > 0
         /\ \A x \in Request : BothSafe(x) => BothSafe(x)'
         /\ \A x \in Request : Safe(conn, posts, x) => Safe(conn, posts, x)'
         /\ BothSafe(m)'
<1>1. conn' = conn /\ disk' = disk /\ inTx' = inTx
  BY DEF dbVars
<1>2. /\ posts' \in Counters /\ posts'[m] > 0
      /\ \A x \in Request : posts[x] > 0 => posts'[x] > 0
      /\ \A t : Good(t, posts) => Good(t, posts')
      /\ \A t, x : x \in Request /\ Safe(t, posts, x) => Safe(t, posts', x)
  BY PostGood
<1>3. DbInv'
  <2>1. Good(conn, posts') /\ Good(disk, posts') /\ (~inTx => disk = conn)
    BY <1>2 DEF DbInv
  <2> QED BY <1>1, <2>1 DEF DbInv, Good, TablesInv, Safe, Tables
<1>4. \A x \in Request : BothSafe(x) => BothSafe(x)'
  BY <1>1, <1>2 DEF BothSafe, Safe
<1>5. \A x \in Request : Safe(conn, posts, x) => Safe(conn, posts, x)'
  BY <1>1, <1>2 DEF Safe
<1>6. BothSafe(m)'
  BY <1>1, <1>2 DEF BothSafe, Safe
<1> QED BY <1>2, <1>3, <1>4, <1>5, <1>6

-----------------------------------------------------------------------------
(* The other conjuncts of IInv, by thread.                                 *)
SaverInv ==
    /\ saver \in SaverPlace
    /\ cur \in Request \cup {<<>>}
    /\ saver # "idle" => cur \in Request
    /\ \A m \in Handled : BothSafe(m)
    /\ saver = "buffer_commit" => Safe(conn, posts, cur)

ReconInv ==
    /\ recon \in ReconPlace
    /\ todo \in SUBSET Nat
    /\ row \in Nat
    /\ verb \in {"GET", "POST"}
    /\ recon = "mark" =>
          /\ row <= conn.lastId
          /\ \A r \in conn.buffers : r.id = row => posts[r.data] > 0
    /\ recon = "sweep" => todo \subseteq conn.transmited

NetInv ==
    /\ up \in BOOLEAN
    /\ posts \in Counters
    /\ crashes \in 0 .. MaxCrashes
    /\ lost \in 0 .. MaxLost

Parts == DbInv /\ inTx \in BOOLEAN /\ SaverInv /\ ReconInv /\ NetInv

DiskBehind == disk.buffers \subseteq conn.buffers

LEMMA PartsIsIInv == IInv <=> Parts /\ DiskBehind
BY DEF IInv, DiskBehind, Parts, TypeOK, DbInv, Good, SaverInv, ReconInv, NetInv, BothSafe, Counters

LEMMA PartsIsIInvNext == IInv' <=> Parts' /\ DiskBehind'
BY DEF IInv, DiskBehind, Parts, TypeOK, DbInv, Good, SaverInv, ReconInv, NetInv, BothSafe, Counters,
       Handled, Safe, TablesInv, Tables

(* Going to the next request adds only the current one to Handled.         *)
LEMMA NextRequestHandled ==
  ASSUME cur \in Request, saver # "idle", NextRequest
  PROVE  /\ saver' \in {"post", "file_begin"}
         /\ cur' \in Request
         /\ Handled' \subseteq Handled \cup {cur}
<1>1. /\ cur = <<cur[1], cur[2]>> /\ cur[1] \in File /\ cur[2] \in 1 .. NbReq
      /\ NbReq \in Nat
  BY ConstantsAssumption DEF Request
<1>2. \A m \in Request : m = <<m[1], m[2]>> /\ m[2] \in 1 .. NbReq
  BY DEF Request
<1>3. CASE cur[2] < NbReq
  <2>1. saver' = "post" /\ cur' = <<cur[1], cur[2] + 1>>
    BY <1>3 DEF NextRequest
  <2>2. cur' \in Request
    BY <1>1, <1>3, <2>1 DEF Request
  <2>3. ASSUME NEW m \in Handled' PROVE m \in Handled \cup {cur}
    <3>1. m \in Request /\ m[1] = cur[1] /\ m[2] < cur[2] + 1
      BY <2>1, <2>3 DEF Handled
    <3>2. m[2] < cur[2] \/ m = cur
      BY <1>1, <1>2, <3>1
    <3> QED BY <3>1, <3>2 DEF Handled
  <2> QED BY <2>1, <2>2, <2>3
<1>4. CASE ~(cur[2] < NbReq)
  <2>1. saver' = "file_begin" /\ cur' = cur
    BY <1>4 DEF NextRequest
  <2>2. cur[2] = NbReq
    BY <1>1, <1>4
  <2>3. ASSUME NEW m \in Handled' PROVE m \in Handled \cup {cur}
    <3>1. m \in Request /\ m[1] = cur[1]
      BY <2>1, <2>3 DEF Handled
    <3>2. m[2] < cur[2] \/ m = cur
      BY <1>1, <1>2, <2>2, <3>1
    <3> QED BY <3>1, <3>2 DEF Handled
  <2> QED BY <2>1, <2>3
<1> QED BY <1>3, <1>4

-----------------------------------------------------------------------------
(* Each thread keeps what is stated about the other: a step that leaves    *)
(* the place of a thread alone keeps its part when the database and the    *)
(* posts only get safer.                                                   *)
LEMMA SaverInvStable ==
  ASSUME SaverInv, UNCHANGED saverVars,
         \A x \in Request : BothSafe(x) => BothSafe(x)',
         \A x \in Request : Safe(conn, posts, x) => Safe(conn, posts, x)'
  PROVE  SaverInv'
<1>1. saver' = saver /\ cur' = cur /\ Handled' = Handled
  BY DEF saverVars, Handled
<1>2. \A m \in Handled : m \in Request
  BY DEF Handled
<1>3. \A m \in Handled' : BothSafe(m)'
  BY <1>1, <1>2 DEF SaverInv
<1>4. saver' = "buffer_commit" => Safe(conn, posts, cur)'
  <2>1. SUFFICES ASSUME saver = "buffer_commit" PROVE Safe(conn, posts, cur)'
    BY <1>1
  <2>2. cur \in Request /\ Safe(conn, posts, cur)
    BY <2>1 DEF SaverInv
  <2>3. Safe(conn', posts', cur)
    BY <2>2 DEF Safe
  <2> QED BY <2>3, <1>1 DEF Safe
<1> QED BY <1>1, <1>3, <1>4 DEF SaverInv

LEMMA ReconInvStable ==
  ASSUME ReconInv, UNCHANGED reconVars, NetInv,
         \A x \in Request : posts[x] > 0 => posts'[x] > 0,
         conn \in Tables,
         conn' = conn \/ ~MutexHeld
  PROVE  ReconInv'
<1>1. recon' = recon /\ todo' = todo /\ row' = row /\ verb' = verb
  BY DEF reconVars
<1>2. CASE conn' = conn
  <2>1. \A r \in conn.buffers : r.data \in Request
    BY DEF Tables
  <2> QED BY <1>1, <1>2, <2>1 DEF ReconInv
<1>3. CASE ~MutexHeld
  BY <1>1, <1>3 DEF ReconInv, MutexHeld
<1> QED BY <1>2, <1>3

LEMMA SaveOneFileStep ==
  ASSUME Parts, NEW f \in File, SaveOneFile(f)
  PROVE  Parts'
<1>1. /\ conn' = conn /\ disk' = disk /\ inTx' = inTx /\ posts' = posts
      /\ saver' = "post" /\ cur' = <<f, 1>>
      /\ UNCHANGED reconVars /\ UNCHANGED netVars
  BY DEF SaveOneFile, dbVars, netVars
<1>2. DbInv' /\ inTx' \in BOOLEAN /\ NetInv'
  BY <1>1 DEF Parts, DbInv, Good, Tables, TablesInv, Safe, NetInv, netVars
<1>3. ReconInv'
  BY <1>1, ReconInvStable DEF Parts, DbInv, Good
<1>4. cur' \in Request
  BY <1>1, ConstantsAssumption DEF Request
<1>5. Handled' = {}
  <2>1. \A m \in Request : m[2] \in 1 .. NbReq
    BY DEF Request
  <2> QED BY <1>1, <2>1 DEF Handled
<1>6. SaverInv'
  BY <1>1, <1>4, <1>5 DEF SaverInv, SaverPlace
<1> QED BY <1>2, <1>3, <1>6 DEF Parts

LEMMA PostOkStep ==
  ASSUME Parts, PostOk
  PROVE  Parts'
<1>1. /\ saver = "post" /\ cur \in Request
      /\ posts' = [posts EXCEPT ![cur] = @ + 1]
      /\ UNCHANGED dbVars /\ UNCHANGED reconVars
      /\ up' = up /\ crashes' = crashes /\ lost' = lost /\ inTx' = inTx /\ conn' = conn
      /\ NextRequest
  BY DEF PostOk, Parts, SaverInv, dbVars
<1> PICK m \in Request : m = cur
  BY <1>1
<1>2. /\ DbInv' /\ posts' \in Counters
      /\ \A x \in Request : posts[x] > 0 => posts'[x] > 0
      /\ \A x \in Request : BothSafe(x) => BothSafe(x)'
      /\ BothSafe(m)'
  BY <1>1, PostStepGood DEF Parts, NetInv
<1>3. ReconInv' /\ NetInv'
  BY <1>1, <1>2, ReconInvStable DEF Parts, DbInv, Good, NetInv
<1>4. SaverInv'
  <2>1. /\ saver' \in {"post", "file_begin"} /\ cur' \in Request
        /\ Handled' \subseteq Handled \cup {m}
    BY <1>1, NextRequestHandled
  <2>2. \A x \in Handled : BothSafe(x) /\ x \in Request
    BY DEF Parts, SaverInv, Handled
  <2>3. \A x \in Handled' : BothSafe(x)'
    BY <1>2, <2>1, <2>2
  <2> QED BY <2>1, <2>3 DEF SaverInv, SaverPlace
<1> QED BY <1>1, <1>2, <1>3, <1>4 DEF Parts

(* A failed post moves the save thread to db_save_buffer; what the server  *)
(* may have processed only makes more requests safe.                       *)
LEMMA PostFailsStep ==
  ASSUME Parts, PostFails
  PROVE  Parts'
<1>1. /\ saver = "post" /\ saver' = "buffer_begin" /\ cur \in Request /\ cur' = cur
      /\ UNCHANGED dbVars /\ UNCHANGED reconVars
      /\ up' = up /\ crashes' = crashes /\ inTx' = inTx /\ conn' = conn /\ disk' = disk
  BY DEF PostFails, Parts, SaverInv, dbVars
<1> PICK m \in Request : m = cur
  BY <1>1
<1>2. /\ DbInv' /\ posts' \in Counters
      /\ \A x \in Request : posts[x] > 0 => posts'[x] > 0
      /\ \A x \in Request : BothSafe(x) => BothSafe(x)'
  <2>1. CASE posts' = [posts EXCEPT ![m] = @ + 1]
    BY <1>1, <2>1, PostStepGood DEF Parts, NetInv
  <2>2. CASE posts' = posts
    BY <1>1, <2>2 DEF Parts, NetInv, DbInv, Good, Tables, TablesInv, Safe, BothSafe
  <2> QED BY <2>1, <2>2 DEF PostFails
<1>3. lost' \in 0 .. MaxLost
  BY ConstantsAssumption DEF PostFails, Parts, NetInv
<1>4. ReconInv' /\ NetInv'
  BY <1>1, <1>2, <1>3, ReconInvStable DEF Parts, DbInv, Good, NetInv
<1>5. SaverInv'
  <2>1. Handled' = Handled
    BY <1>1 DEF Handled
  <2>2. \A x \in Handled : BothSafe(x) /\ x \in Request
    BY DEF Parts, SaverInv, Handled
  <2> QED BY <1>1, <1>2, <2>1, <2>2 DEF SaverInv, SaverPlace
<1> QED BY <1>1, <1>2, <1>4, <1>5 DEF Parts

(* The three statements of db_save_buffer. After the INSERT the request is *)
(* safe on the connection, after the COMMIT it is safe on disk as well,    *)
(* whichever thread's transaction it ended.                                *)
LEMMA DbSaveBufferStep ==
  ASSUME Parts, DbSaveBuffer
  PROVE  Parts'
<1>1. /\ ~MutexHeld /\ UNCHANGED reconVars /\ UNCHANGED netVars
      /\ posts' = posts /\ NetInv'
  BY DEF DbSaveBuffer, netVars, Parts, NetInv
<1>2. saver # "idle" /\ cur \in Request /\ conn \in Tables
  BY DEF DbSaveBuffer, Parts, SaverInv, DbInv, Good
<1> PICK m \in Request : m = cur
  BY <1>2
<1>3. ReconInv'
  BY <1>1, <1>2, ReconInvStable DEF Parts
<1>4. \A x \in Handled : BothSafe(x) /\ x \in Request
  BY DEF Parts, SaverInv, Handled
<1>5. CASE saver = "buffer_begin"
  <2>1. Begin /\ saver' = "buffer_insert" /\ cur' = cur
    BY <1>5 DEF DbSaveBuffer
  <2>2. DbInv' /\ inTx' \in BOOLEAN /\ \A x \in Request : BothSafe(x) => BothSafe(x)'
    BY <2>1, <1>1, BeginGood DEF Parts
  <2>3. Handled' = Handled
    BY <2>1, <1>5 DEF Handled
  <2>4. SaverInv'
    BY <2>1, <2>2, <2>3, <1>2, <1>4 DEF SaverInv, SaverPlace
  <2> QED BY <2>2, <2>4, <1>1, <1>3 DEF Parts
<1>6. CASE saver = "buffer_insert"
  <2>1. Write(InsertBuffer(conn, m)) /\ saver' = "buffer_commit" /\ cur' = cur
    BY <1>6 DEF DbSaveBuffer
  <2>2. /\ Good(InsertBuffer(conn, m), posts)
        /\ Safe(InsertBuffer(conn, m), posts, m)
        /\ \A x \in Request : Safe(conn, posts, x) => Safe(InsertBuffer(conn, m), posts, x)
    <3>1. posts \in Counters /\ Good(conn, posts)
      BY DEF Parts, NetInv, DbInv
    <3> QED BY <3>1, InsertBufferGood
  <2>3. DbInv' /\ inTx' \in BOOLEAN /\ \A x \in Request : BothSafe(x) => BothSafe(x)'
    <3> DEFINE u == InsertBuffer(conn, m)
    <3>1. Write(u) /\ Good(u, posts)
          /\ \A x \in Request : Safe(conn, posts, x) => Safe(u, posts, x)
      BY <2>1, <2>2
    <3> HIDE DEF u
    <3>2. DbInv /\ inTx \in BOOLEAN
      BY DEF Parts
    <3> QED BY <1>1, <3>1, <3>2, WriteGood
  <2>4. Safe(conn', posts', m)
    BY <2>1, <2>2, <1>1 DEF Write
  <2>5. Handled' = Handled
    BY <2>1, <1>6 DEF Handled
  <2>6. Safe(conn, posts, cur)'
    BY <2>1, <2>4 DEF Safe
  <2>7. SaverInv'
    BY <2>1, <2>3, <2>5, <2>6, <1>2, <1>4 DEF SaverInv, SaverPlace
  <2> QED BY <2>3, <2>7, <1>1, <1>3 DEF Parts
<1>7. CASE saver = "buffer_commit"
  <2>1. Commit /\ NextRequest
    BY <1>7 DEF DbSaveBuffer
  <2>2. /\ DbInv' /\ inTx' \in BOOLEAN
        /\ \A x \in Request : Safe(conn, posts, x) => BothSafe(x)'
        /\ \A x \in Request : BothSafe(x) => BothSafe(x)'
    BY <2>1, <1>1, CommitGood DEF Parts
  <2>3. Safe(conn, posts, m)
    BY <1>7 DEF Parts, SaverInv
  <2>4. /\ saver' \in {"post", "file_begin"} /\ cur' \in Request
        /\ Handled' \subseteq Handled \cup {m}
    BY <2>1, <1>2, NextRequestHandled
  <2>5. \A x \in Handled' : BothSafe(x)'
    BY <2>2, <2>3, <2>4, <1>4
  <2>6. SaverInv'
    BY <2>4, <2>5 DEF SaverInv, SaverPlace
  <2> QED BY <2>2, <2>6, <1>1, <1>3 DEF Parts
<1> QED BY <1>5, <1>6, <1>7 DEF DbSaveBuffer

(* The three statements of db_save_meta_data.                              *)
LEMMA DbSaveMetaDataStep ==
  ASSUME Parts, DbSaveMetaData
  PROVE  Parts'
<1>1. /\ ~MutexHeld /\ UNCHANGED reconVars /\ UNCHANGED netVars
      /\ posts' = posts /\ NetInv'
  BY DEF DbSaveMetaData, netVars, Parts, NetInv
<1>2. saver # "idle" /\ cur \in Request /\ conn \in Tables
  BY DEF DbSaveMetaData, Parts, SaverInv, DbInv, Good
<1>3. ReconInv'
  BY <1>1, <1>2, ReconInvStable DEF Parts
<1>4. \A x \in Handled : BothSafe(x) /\ x \in Request
  BY DEF Parts, SaverInv, Handled
<1>5. CASE saver = "file_begin"
  <2>1. Begin /\ saver' = "file_insert" /\ cur' = cur
    BY <1>5 DEF DbSaveMetaData
  <2>2. DbInv' /\ inTx' \in BOOLEAN /\ \A x \in Request : BothSafe(x) => BothSafe(x)'
    BY <2>1, <1>1, BeginGood DEF Parts
  <2>3. Handled' = Handled
    BY <2>1, <1>5 DEF Handled
  <2>4. SaverInv'
    BY <2>1, <2>2, <2>3, <1>2, <1>4 DEF SaverInv, SaverPlace
  <2> QED BY <2>2, <2>4, <1>1, <1>3 DEF Parts
<1>6. CASE saver = "file_insert"
  <2> PICK f \in File : f = cur[1]
    BY <1>2 DEF Request
  <2>1. Write(InsertFile(conn, f)) /\ saver' = "file_commit" /\ cur' = cur
    BY <1>6 DEF DbSaveMetaData
  <2>2. \A n \in 1 .. NbReq : Safe(conn, posts, <<f, n>>)
    <3>1. \A n \in 1 .. NbReq : <<f, n>> \in Handled
      BY <1>6 DEF Handled, Request
    <3> QED BY <3>1, <1>4 DEF BothSafe
  <2>3. /\ Good(InsertFile(conn, f), posts)
        /\ \A x \in Request : Safe(conn, posts, x) => Safe(InsertFile(conn, f), posts, x)
    <3>1. posts \in Counters /\ Good(conn, posts)
      BY DEF Parts, NetInv, DbInv
    <3> QED BY <3>1, <2>2, InsertFileGood
  <2>4. DbInv' /\ inTx' \in BOOLEAN /\ \A x \in Request : BothSafe(x) => BothSafe(x)'
    <3> DEFINE u == InsertFile(conn, f)
    <3>1. Write(u) /\ Good(u, posts)
          /\ \A x \in Request : Safe(conn, posts, x) => Safe(u, posts, x)
      BY <2>1, <2>3
    <3> HIDE DEF u
    <3>2. DbInv /\ inTx \in BOOLEAN
      BY DEF Parts
    <3> QED BY <1>1, <3>1, <3>2, WriteGood
  <2>5. Handled' = Handled
    BY <2>1, <1>6 DEF Handled
  <2>6. SaverInv'
    BY <2>1, <2>4, <2>5, <1>2, <1>4 DEF SaverInv, SaverPlace
  <2> QED BY <2>4, <2>6, <1>1, <1>3 DEF Parts
<1>7. CASE saver = "file_commit"
  <2>1. Commit /\ saver' = "idle" /\ cur' = <<>>
    BY <1>7 DEF DbSaveMetaData
  <2>2. DbInv' /\ inTx' \in BOOLEAN
    BY <2>1, <1>1, CommitGood DEF Parts
  <2>3. Handled' = {}
    BY <2>1 DEF Handled
  <2>4. SaverInv'
    BY <2>1, <2>3 DEF SaverInv, SaverPlace
  <2> QED BY <2>2, <2>4, <1>1, <1>3 DEF Parts
<1> QED BY <1>5, <1>6, <1>7 DEF DbSaveMetaData

(* The steps of 'reconnected' that write neither to the database nor to    *)
(* the network.                                                            *)
LEMMA QuietReconStep ==
  ASSUME Parts, UNCHANGED <<dbVars, saverVars, netVars>>, ReconInv'
  PROVE  Parts'
<1>1. /\ conn' = conn /\ disk' = disk /\ inTx' = inTx /\ posts' = posts
      /\ UNCHANGED saverVars
      /\ up' = up /\ crashes' = crashes /\ lost' = lost
  BY DEF dbVars, netVars
<1>2. DbInv' /\ NetInv' /\ inTx' \in BOOLEAN
  BY <1>1 DEF Parts, DbInv, Good, Tables, TablesInv, Safe, NetInv
<1>3. /\ \A x \in Request : BothSafe(x) => BothSafe(x)'
      /\ \A x \in Request : Safe(conn, posts, x) => Safe(conn, posts, x)'
  BY <1>1 DEF BothSafe, Safe
<1>4. SaverInv'
  BY <1>1, <1>3, SaverInvStable DEF Parts
<1> QED BY <1>2, <1>4 DEF Parts

LEMMA ScanStep ==
  ASSUME Parts,
         \/ IsThereBuffersToTransmit \/ IsServerAlive \/ TransmitBuffers
         \/ EndOfScan \/ DeleteTransmitedBuffers \/ EndOfSweep
  PROVE  Parts'
<1>1. conn \in Tables
  BY DEF Parts, DbInv, Good
<1>2. Untransmited(conn) \subseteq Nat /\ Transmited(conn) \subseteq Nat
      /\ Transmited(conn) \subseteq conn.transmited
  BY <1>1 DEF Untransmited, Transmited, Tables
<1>3. CASE IsThereBuffersToTransmit
  BY <1>3, QuietReconStep DEF IsThereBuffersToTransmit, Parts, ReconInv, ReconPlace
<1>4. CASE IsServerAlive
  BY <1>4, QuietReconStep DEF IsServerAlive, Parts, ReconInv, ReconPlace
<1>5. CASE TransmitBuffers
  BY <1>5, <1>2, QuietReconStep DEF TransmitBuffers, Parts, ReconInv, ReconPlace
<1>6. CASE EndOfScan
  BY <1>6, QuietReconStep DEF EndOfScan, Parts, ReconInv, ReconPlace
<1>7. CASE DeleteTransmitedBuffers
  <2>1. UNCHANGED <<dbVars, saverVars, netVars>>
    BY <1>7 DEF DeleteTransmitedBuffers
  <2>2. /\ conn' = conn /\ recon' = "sweep" /\ todo' = Transmited(conn)
        /\ row' = row /\ verb' = verb
    BY <1>7 DEF DeleteTransmitedBuffers, dbVars
  <2>3. ReconInv'
    BY <2>2, <1>2 DEF Parts, ReconInv, ReconPlace
  <2> QED BY <2>1, <2>3, QuietReconStep
<1>8. CASE EndOfSweep
  BY <1>8, QuietReconStep DEF EndOfSweep, Parts, ReconInv, ReconPlace
<1> QED BY <1>3, <1>4, <1>5, <1>6, <1>7, <1>8

(* The row that goes on to be marked is the one that was posted: ids are   *)
(* unique.                                                                 *)
LEMMA TransmitRowStep ==
  ASSUME Parts, TransmitRow
  PROVE  Parts'
<1> PICK r \in conn.buffers :
      /\ todo' = todo \ {r.id}
      /\ verb' = "POST"
      /\ \/ /\ posts' = [posts EXCEPT ![r.data] = @ + 1]
            /\ row' = r.id /\ recon' = "mark" /\ lost' = lost
         \/ /\ posts' = [posts EXCEPT ![r.data] = @ + 1]
            /\ lost < MaxLost /\ lost' = lost + 1 /\ row' = row /\ recon' = recon
         \/ posts' = posts /\ lost' = lost /\ row' = row /\ recon' = recon
  BY DEF TransmitRow, RowNotPosted
<1>1. /\ recon = "scan" /\ conn' = conn /\ disk' = disk /\ inTx' = inTx
      /\ UNCHANGED dbVars /\ UNCHANGED saverVars /\ up' = up /\ crashes' = crashes
  BY DEF TransmitRow, dbVars
<1>2. r.id \in Nat /\ r.data \in Request /\ r.id <= conn.lastId
      /\ \A s \in conn.buffers : s.id = r.id => s = r
  BY DEF Parts, DbInv, Good, Tables, TablesInv
<1>3. /\ DbInv' /\ posts' \in Counters
      /\ \A x \in Request : BothSafe(x) => BothSafe(x)'
      /\ \A x \in Request : Safe(conn, posts, x) => Safe(conn, posts, x)'
      /\ recon' = "mark" => posts'[r.data] > 0
  <2>1. CASE posts' = [posts EXCEPT ![r.data] = @ + 1]
    BY <1>1, <1>2, <2>1, PostStepGood DEF Parts, NetInv
  <2>2. CASE posts' = posts /\ recon' = recon
    BY <1>1, <2>2 DEF Parts, NetInv, DbInv, Good, Tables, TablesInv, Safe, BothSafe
  <2> QED BY <2>1, <2>2
<1>4. lost' \in 0 .. MaxLost
  BY ConstantsAssumption DEF Parts, NetInv
<1>5. NetInv'
  BY <1>1, <1>3, <1>4 DEF Parts, NetInv
<1>6. ReconInv'
  <2>1. /\ recon' \in {"scan", "mark"} /\ todo' \in SUBSET Nat /\ row' \in Nat
        /\ verb' \in {"GET", "POST"}
    BY <1>1, <1>2 DEF Parts, ReconInv
  <2>2. recon' = "mark" => row' = r.id
    BY <1>1
  <2> QED BY <1>1, <1>2, <1>3, <2>1, <2>2 DEF ReconInv, ReconPlace
<1>7. SaverInv'
  BY <1>1, <1>3, SaverInvStable DEF Parts
<1> QED BY <1>1, <1>3, <1>5, <1>6, <1>7 DEF Parts

(* A write of 'reconnected' under the mutex: what was safe on the          *)
(* connection is safe everywhere afterwards.                               *)
LEMMA ReconTransactionStep ==
  ASSUME Parts, NEW u, Transaction(u), UNCHANGED saverVars, UNCHANGED netVars,
         Good(u, posts),
         \A x \in Request : Safe(conn, posts, x) => Safe(u, posts, x),
         ReconInv'
  PROVE  Parts'
<1>1. /\ posts' = posts /\ up' = up /\ crashes' = crashes /\ lost' = lost
  BY DEF netVars
<1>2. /\ DbInv' /\ inTx' \in BOOLEAN
      /\ \A x \in Request : Safe(conn, posts, x) => BothSafe(x)'
  BY <1>1, TransactionGood
<1>3. /\ \A x \in Request : BothSafe(x) => BothSafe(x)'
      /\ \A x \in Request : Safe(conn, posts, x) => Safe(conn, posts, x)'
  BY <1>2 DEF BothSafe
<1>4. SaverInv'
  BY <1>3, SaverInvStable DEF Parts
<1>5. NetInv'
  BY <1>1 DEF Parts, NetInv
<1> QED BY <1>2, <1>4, <1>5 DEF Parts

LEMMA MarkRowStep ==
  ASSUME Parts, MarkRow
  PROVE  Parts'
<1> PICK i \in Nat : i = row
  BY DEF Parts, ReconInv
<1> DEFINE u == InsertTransmited(conn, i)
<1>1. /\ Transaction(u) /\ UNCHANGED saverVars /\ UNCHANGED netVars
      /\ recon = "mark" /\ recon' = "scan" /\ row' = 0 /\ todo' = todo /\ verb' = verb
  BY DEF MarkRow
<1>2. /\ Good(u, posts)
      /\ \A x \in Request : Safe(conn, posts, x) => Safe(u, posts, x)
  <2>1. /\ Good(conn, posts) /\ posts \in Counters /\ i <= conn.lastId
        /\ \A r \in conn.buffers : r.id = i => posts[r.data] > 0
    BY <1>1 DEF Parts, DbInv, NetInv, ReconInv
  <2> QED BY <2>1, InsertTransmitedGood
<1>3. ReconInv'
  BY <1>1 DEF Parts, ReconInv, ReconPlace
<1> HIDE DEF u
<1> QED BY <1>1, <1>2, <1>3, ReconTransactionStep

LEMMA DeleteRowStep ==
  ASSUME Parts, DeleteRow
  PROVE  /\ Parts'
         /\ \A r \in conn.buffers \ conn'.buffers : posts[r.data] > 0
<1> PICK i \in todo :
      todo' = todo \ {i} /\ Transaction(DeleteBuffer(conn, i))
  BY DEF DeleteRow
<1> DEFINE u == DeleteBuffer(conn, i)
<1>1. /\ Transaction(u) /\ UNCHANGED saverVars /\ UNCHANGED netVars
      /\ recon = "sweep" /\ recon' = "sweep" /\ row' = row /\ verb' = verb
      /\ i \in conn.transmited /\ conn' = u /\ u.transmited = conn.transmited
  <2>1. conn \in Tables /\ i \in conn.transmited
    BY DEF Parts, DbInv, Good, DeleteRow, ReconInv
  <2> QED BY <2>1 DEF DeleteRow, Transaction, DeleteBuffer, Tables
<1>2. /\ Good(u, posts)
      /\ \A x \in Request : Safe(conn, posts, x) => Safe(u, posts, x)
      /\ \A r \in conn.buffers \ u.buffers : posts[r.data] > 0
  <2>1. Good(conn, posts) /\ posts \in Counters
    BY DEF Parts, DbInv, NetInv
  <2> QED BY <1>1, <2>1, DeleteBufferGood
<1> HIDE DEF u
<1>3. ReconInv'
  BY <1>1 DEF Parts, ReconInv, ReconPlace
<1>4. Parts'
  BY <1>1, <1>2, <1>3, ReconTransactionStep
<1> QED BY <1>1, <1>2, <1>4

LEMMA NetworkStep ==
  ASSUME Parts, Network
  PROVE  Parts'
<1>1. /\ UNCHANGED saverVars /\ UNCHANGED reconVars /\ conn' = conn /\ disk' = disk
      /\ inTx' = inTx /\ posts' = posts /\ crashes' = crashes /\ lost' = lost
      /\ up' \in BOOLEAN
  BY DEF Network, ServerGoesDown, ServerComesBack, dbVars
<1>2. DbInv' /\ NetInv' /\ inTx' \in BOOLEAN
  BY <1>1 DEF Parts, DbInv, Good, Tables, TablesInv, Safe, NetInv
<1>3. ReconInv'
  BY <1>1, ReconInvStable DEF Parts, DbInv, Good
<1>4. SaverInv'
  <2>1. /\ \A x \in Request : BothSafe(x) => BothSafe(x)'
        /\ \A x \in Request : Safe(conn, posts, x) => Safe(conn, posts, x)'
    BY <1>1 DEF BothSafe, Safe
  <2> QED BY <1>1, <2>1, SaverInvStable DEF Parts
<1> QED BY <1>2, <1>3, <1>4 DEF Parts

(* After a crash the tables are those of the last commit, which satisfy    *)
(* the invariant on their own.                                             *)
LEMMA CrashStep ==
  ASSUME Parts, CrashAndRestart
  PROVE  Parts'
<1>1. /\ conn' = disk /\ disk' = disk /\ inTx' = FALSE /\ posts' = posts
      /\ saver' = "idle" /\ cur' = <<>> /\ recon' = "sleep" /\ todo' = {} /\ row' = 0
      /\ verb' = "GET" /\ up' = up /\ lost' = lost
      /\ crashes < MaxCrashes /\ crashes' = crashes + 1
  BY DEF CrashAndRestart
<1>2. DbInv'
  BY <1>1 DEF Parts, DbInv, Good, Tables, TablesInv, Safe
<1>3. NetInv'
  BY <1>1, ConstantsAssumption DEF Parts, NetInv
<1>4. SaverInv' /\ ReconInv'
  BY <1>1 DEF SaverInv, ReconInv, SaverPlace, ReconPlace, Handled
<1> QED BY <1>1, <1>2, <1>3, <1>4 DEF Parts

LEMMA StutterStep ==
  ASSUME Parts, UNCHANGED vars
  PROVE  Parts'
<1>1. ReconInv'
  <2>1. /\ conn' = conn /\ posts' = posts /\ UNCHANGED reconVars
    BY DEF vars, dbVars, netVars
  <2> QED BY <2>1, ReconInvStable DEF Parts, DbInv, Good
<1> QED BY <1>1, QuietReconStep DEF vars

-----------------------------------------------------------------------------
(* Only the sweep takes rows away, and it commits at once: a row that      *)
(* leaves the disk was posted.                                             *)
PostedLeaves == \A r \in disk.buffers \ disk'.buffers : posts[r.data] > 0

LEMMA DiskStep ==
  ASSUME Parts, DiskBehind, [Next]_vars
  PROVE  DiskBehind' /\ PostedLeaves
<1>1. /\ conn \in Tables /\ disk \in Tables /\ (~inTx => disk = conn)
      /\ disk.buffers \subseteq conn.buffers
  BY DEF Parts, DbInv, Good, DiskBehind
<1>2. /\ \A m : conn.buffers \subseteq InsertBuffer(conn, m).buffers
      /\ \A f : InsertFile(conn, f).buffers = conn.buffers
      /\ \A i : InsertTransmited(conn, i).buffers = conn.buffers
  BY <1>1 DEF Tables, InsertBuffer, InsertFile, InsertTransmited
<1>3. ASSUME UNCHANGED <<conn, disk>> PROVE DiskBehind' /\ PostedLeaves
  BY <1>1, <1>3 DEF DiskBehind, PostedLeaves
<1>4. ASSUME NEW u, Write(u), conn.buffers \subseteq u.buffers
      PROVE  DiskBehind' /\ PostedLeaves
  BY <1>1, <1>4 DEF Write, DiskBehind, PostedLeaves
<1>5. ASSUME Commit PROVE DiskBehind' /\ PostedLeaves
  BY <1>1, <1>5 DEF Commit, DiskBehind, PostedLeaves
<1>6. CASE UNCHANGED vars
  BY <1>6, <1>3 DEF vars, dbVars
<1>7. CASE Saver
  <2>1. ASSUME NEW f \in File, SaveOneFile(f) PROVE UNCHANGED <<conn, disk>>
    BY <2>1 DEF SaveOneFile, dbVars
  <2>2. CASE PostOk
    BY <2>2, <1>3 DEF PostOk, dbVars
  <2>3. CASE PostFails
    BY <2>3, <1>3 DEF PostFails, dbVars
  <2>4. CASE DbSaveBuffer
    <3>1. Begin \/ Write(InsertBuffer(conn, cur)) \/ Commit
      BY <2>4 DEF DbSaveBuffer
    <3>2. CASE Begin
      BY <3>2, <1>3 DEF Begin
    <3>3. CASE Write(InsertBuffer(conn, cur))
      BY <3>3, <1>2, <1>4
    <3> QED BY <3>1, <3>2, <3>3, <1>5
  <2>5. CASE DbSaveMetaData
    <3>1. Begin \/ Write(InsertFile(conn, cur[1])) \/ Commit
      BY <2>5 DEF DbSaveMetaData
    <3>2. CASE Begin
      BY <3>2, <1>3 DEF Begin
    <3>3. CASE Write(InsertFile(conn, cur[1]))
      BY <3>3, <1>2, <1>4
    <3> QED BY <3>1, <3>2, <3>3, <1>5
  <2> QED BY <1>7, <1>3, <2>1, <2>2, <2>3, <2>4, <2>5 DEF Saver
<1>8. CASE Reconnected
  <2>1. CASE MarkRow
    BY <2>1, <1>1, <1>2 DEF MarkRow, Transaction, DiskBehind, PostedLeaves
  <2>2. CASE DeleteRow
    <3>1. conn' = disk' /\ \A r \in conn.buffers \ conn'.buffers : posts[r.data] > 0
      BY <2>2, DeleteRowStep DEF DeleteRow, Transaction
    <3> QED BY <3>1, <1>1 DEF DiskBehind, PostedLeaves
  <2>3. CASE ~MarkRow /\ ~DeleteRow
    <3>1. UNCHANGED <<conn, disk>>
      BY <1>8, <2>3 DEF Reconnected, IsThereBuffersToTransmit, IsServerAlive, TransmitBuffers,
         TransmitRow, RowNotPosted, EndOfScan, DeleteTransmitedBuffers, EndOfSweep, dbVars
    <3> QED BY <3>1, <1>3
  <2> QED BY <2>1, <2>2, <2>3
<1>9. CASE Network
  BY <1>9, <1>3 DEF Network, dbVars
<1>10. CASE CrashAndRestart
  BY <1>10, <1>1 DEF CrashAndRestart, DiskBehind, PostedLeaves
<1> QED BY <1>6, <1>7, <1>8, <1>9, <1>10 DEF Next

-----------------------------------------------------------------------------
LEMMA InitIInv == Init => IInv
<1> SUFFICES ASSUME Init PROVE Parts /\ DiskBehind
  BY PartsIsIInv
<1>1. /\ conn = EmptyTables /\ disk = EmptyTables /\ inTx = FALSE
      /\ saver = "idle" /\ cur = <<>> /\ recon = "sleep" /\ todo = {} /\ row = 0
      /\ verb = "GET" /\ up \in BOOLEAN /\ crashes = 0 /\ lost = 0
      /\ posts = [m \in Request |-> 0]
  BY DEF Init
<1>2. NetInv
  BY <1>1, ConstantsAssumption DEF NetInv, Counters
<1>3. DbInv
  BY <1>1, <1>2, EmptyTablesGood DEF DbInv, NetInv
<1>4. SaverInv /\ ReconInv /\ DiskBehind
  BY <1>1 DEF SaverInv, ReconInv, SaverPlace, ReconPlace, Handled, DiskBehind
<1> QED BY <1>1, <1>2, <1>3, <1>4 DEF Parts

LEMMA NextIInv == IInv /\ [Next]_vars => IInv' /\ PostedLeaves
<1> SUFFICES ASSUME Parts, DiskBehind, [Next]_vars
             PROVE  Parts' /\ DiskBehind' /\ PostedLeaves
  BY PartsIsIInv, PartsIsIInvNext
<1>1. DiskBehind' /\ PostedLeaves
  BY DiskStep
<1>2. ASSUME UNCHANGED vars PROVE Parts'
  BY <1>2, StutterStep
<1>3. ASSUME Saver PROVE Parts'
  BY <1>3, SaveOneFileStep, PostOkStep, PostFailsStep, DbSaveBufferStep, DbSaveMetaDataStep
     DEF Saver
<1>4. ASSUME Reconnected PROVE Parts'
  BY <1>4, ScanStep, TransmitRowStep, MarkRowStep, DeleteRowStep DEF Reconnected
<1>5. ASSUME Network PROVE Parts'
  BY <1>5, NetworkStep
<1>6. ASSUME CrashAndRestart PROVE Parts'
  BY <1>6, CrashStep
<1> QED BY <1>1, <1>2, <1>3, <1>4, <1>5, <1>6 DEF Next

(* The strengthening holds in every reachable state; with it, every        *)
(* variable keeps its type.                                                *)
THEOREM IInvCorrect == Spec => []IInv
<1>1. IInv /\ [Next]_vars => IInv'
  BY NextIInv
<1> QED BY InitIInv, <1>1, PTL DEF Spec

THEOREM TypeCorrect == Spec => []TypeOK
<1>1. IInv => TypeOK
  BY DEF IInv
<1> QED BY <1>1, IInvCorrect, PTL

(* For any number of files, requests, crashes and lost answers, each       *)
(* request of a cached file was processed by the server or is in the       *)
(* buffers on disk.                                                        *)
THEOREM NothingLostCorrect == Spec => []NothingLost
<1>1. IInv => NothingLost
  BY DEF IInv, TablesInv, NothingLost
<1> QED BY <1>1, IInvCorrect, PTL

(* A row that is marked, hence about to be deleted, was processed by the   *)
(* server: no id is ever given twice.                                      *)
THEOREM MarkedWasPostedCorrect == Spec => []MarkedWasPosted
<1>1. IInv => MarkedWasPosted
  BY DEF IInv, TablesInv, MarkedWasPosted
<1> QED BY <1>1, IInvCorrect, PTL

(* A row leaves the disk only once the server has processed it.            *)
THEOREM OnlyPostedLeavesCorrect == Spec => OnlyPostedLeaves
<1>1. IInv /\ [Next]_vars => [PostedLeaves]_vars
  BY NextIInv
<1>2. OnlyPostedLeaves <=> [][PostedLeaves]_vars
  BY PTL DEF OnlyPostedLeaves, PostedLeaves
<1> QED BY <1>1, <1>2, IInvCorrect, PTL DEF Spec
-----------------------------------------------------------------------------
(* How often a request is posted. The conjuncts of PostsInv, by what they  *)
(* are about.                                                              *)
MarksCommitted == disk.transmited = conn.transmited

FileInv ==
    /\ saver = "file_commit" => cur[1] \in conn.files
    /\ saver \notin {"idle", "file_commit"} => cur[1] \notin conn.files

PassInv ==
    /\ recon \in {"scan", "mark"} => todo \cap conn.transmited = {}
    /\ recon = "mark" => row \notin todo \cup conn.transmited

Within(m) == posts[m] + Owed(m) <= 1 + lost + 2 * crashes

LEMMA PostsInvParts ==
  PostsInv <=> /\ MarksCommitted /\ FileInv /\ PassInv
               /\ IsFiniteSet(conn.buffers)
               /\ \A m \in Request : Within(m)
BY DEF PostsInv, MarksCommitted, FileInv, PassInv, Within

LEMMA PostsInvPartsNext ==
  PostsInv' <=> /\ MarksCommitted' /\ FileInv' /\ PassInv'
                /\ IsFiniteSet(conn'.buffers)
                /\ \A m \in Request : Within(m)'
BY DEF PostsInv, MarksCommitted, FileInv, PassInv, Within, Owed, ToSave, ToTransmit, Handled

(* Counting: a subset has no more elements, one more element counts for at *)
(* most one, one less for at least one.                                    *)
LEMMA Counting ==
  ASSUME NEW S, NEW T, IsFiniteSet(S)
  PROVE  /\ Cardinality(S) \in Nat
         /\ T \subseteq S => Cardinality(T) \in Nat /\ Cardinality(T) <= Cardinality(S)
         /\ \A x : T \subseteq S \cup {x} =>
               Cardinality(T) \in Nat /\ Cardinality(T) <= Cardinality(S) + 1
         /\ \A x \in S : T \subseteq S \ {x} =>
               Cardinality(T) \in Nat /\ Cardinality(T) + 1 <= Cardinality(S)
<1>1. Cardinality(S) \in Nat
  BY FS_CardinalityType
<1>2. ASSUME NEW U, NEW V, IsFiniteSet(U), V \subseteq U
      PROVE  Cardinality(V) \in Nat /\ Cardinality(V) <= Cardinality(U)
  BY <1>2, FS_Subset, FS_CardinalityType
<1>3. ASSUME NEW x, T \subseteq S \cup {x}
      PROVE  Cardinality(T) \in Nat /\ Cardinality(T) <= Cardinality(S) + 1
  <2>1. /\ IsFiniteSet(S \cup {x})
        /\ Cardinality(S \cup {x}) = IF x \in S THEN Cardinality(S) ELSE Cardinality(S) + 1
    BY FS_AddElement
  <2>2. Cardinality(T) \in Nat /\ Cardinality(T) <= Cardinality(S \cup {x})
    BY <1>2, <1>3, <2>1
  <2> QED BY <1>1, <2>1, <2>2
<1>4. ASSUME NEW x \in S, T \subseteq S \ {x}
      PROVE  Cardinality(T) \in Nat /\ Cardinality(T) + 1 <= Cardinality(S)
  <2>1. /\ IsFiniteSet(S \ {x})
        /\ Cardinality(S \ {x}) = Cardinality(S) - 1
    BY FS_RemoveElement
  <2>2. Cardinality(T) \in Nat /\ Cardinality(T) <= Cardinality(S \ {x})
    BY <1>2, <1>4, <2>1
  <2> QED BY <1>1, <2>1, <2>2
<1> QED BY <1>1, <1>2, <1>3, <1>4

(* What a step does to the posts owed for m, by what it does to the duties *)
(* of the two threads.                                                     *)
LEMMA OwedStep ==
  ASSUME NEW m, IsFiniteSet(conn.buffers)
  PROVE  /\ Owed(m) \in Nat
         /\ ToTransmit(m)' \subseteq ToTransmit(m) =>
               /\ Owed(m)' \in Nat
               /\ Owed(m)' <= Owed(m) + 1
               /\ (ToSave(m)' => ToSave(m)) => Owed(m)' <= Owed(m)
               /\ ToSave(m) /\ ~ToSave(m)' => Owed(m)' + 1 <= Owed(m)
         /\ \A x : ToTransmit(m)' \subseteq ToTransmit(m) \cup {x} =>
               /\ Owed(m)' \in Nat
               /\ Owed(m)' <= Owed(m) + 2
               /\ ToSave(m) /\ ~ToSave(m)' => Owed(m)' <= Owed(m)
         /\ \A x \in ToTransmit(m) : ToTransmit(m)' \subseteq ToTransmit(m) \ {x} =>
               /\ Owed(m)' \in Nat
               /\ (ToSave(m)' => ToSave(m)) => Owed(m)' + 1 <= Owed(m)
<1> DEFINE S == ToTransmit(m)
           T == ToTransmit(m)'
           a == IF ToSave(m) THEN 1 ELSE 0
           b == IF ToSave(m)' THEN 1 ELSE 0
<1>1. Owed(m) = a + Cardinality(S) /\ Owed(m)' = b + Cardinality(T)
  BY DEF Owed
<1>2. /\ a \in {0, 1} /\ b \in {0, 1}
      /\ (ToSave(m)' => ToSave(m)) => b <= a
      /\ ToSave(m) /\ ~ToSave(m)' => a = 1 /\ b = 0
  OBVIOUS
<1>3. IsFiniteSet(S)
  BY FS_Subset DEF ToTransmit
<1> HIDE DEF S, T, a, b
<1>4. /\ Cardinality(S) \in Nat
      /\ T \subseteq S => Cardinality(T) \in Nat /\ Cardinality(T) <= Cardinality(S)
      /\ \A x : T \subseteq S \cup {x} =>
            Cardinality(T) \in Nat /\ Cardinality(T) <= Cardinality(S) + 1
      /\ \A x \in S : T \subseteq S \ {x} =>
            Cardinality(T) \in Nat /\ Cardinality(T) + 1 <= Cardinality(S)
  BY <1>3, Counting
<1>5. Owed(m) \in Nat
  BY <1>1, <1>2, <1>4
<1>6. ASSUME T \subseteq S
      PROVE  /\ Owed(m)' \in Nat
             /\ Owed(m)' <= Owed(m) + 1
             /\ (ToSave(m)' => ToSave(m)) => Owed(m)' <= Owed(m)
             /\ ToSave(m) /\ ~ToSave(m)' => Owed(m)' + 1 <= Owed(m)
  BY <1>1, <1>2, <1>4, <1>6
<1>7. ASSUME NEW x, T \subseteq S \cup {x}
      PROVE  /\ Owed(m)' \in Nat
             /\ Owed(m)' <= Owed(m) + 2
             /\ ToSave(m) /\ ~ToSave(m)' => Owed(m)' <= Owed(m)
  <2>1. Cardinality(T) \in Nat /\ Cardinality(T) <= Cardinality(S) + 1
    BY <1>4, <1>7
  <2> QED BY <1>1, <1>2, <1>4, <2>1
<1>8. ASSUME NEW x \in S, T \subseteq S \ {x}
      PROVE  /\ Owed(m)' \in Nat
             /\ (ToSave(m)' => ToSave(m)) => Owed(m)' + 1 <= Owed(m)
  <2>1. Cardinality(T) \in Nat /\ Cardinality(T) + 1 <= Cardinality(S)
    BY <1>4, <1>8
  <2> QED BY <1>1, <1>2, <1>4, <2>1
<1> QED BY <1>5, <1>6, <1>7, <1>8 DEF S, T

(* The bound is kept when what a step posts and what it makes owe is paid  *)
(* by what is no longer owed and by the faults of the step.                *)
LEMMA WithinStep ==
  ASSUME Parts, Parts', NEW m \in Request, Within(m),
         Owed(m) \in Nat, Owed(m)' \in Nat,
         posts'[m] + Owed(m)' + lost + 2 * crashes
            <= posts[m] + Owed(m) + lost' + 2 * crashes'
  PROVE  Within(m)'
<1>1. /\ posts[m] \in Nat /\ posts'[m] \in Nat
      /\ lost \in Nat /\ lost' \in Nat /\ crashes \in Nat /\ crashes' \in Nat
  BY ConstantsAssumption DEF Parts, NetInv, Counters
<1>2. posts[m] + Owed(m) <= 1 + lost + 2 * crashes
  BY DEF Within
<1>3. posts'[m] + Owed(m)' <= 1 + lost' + 2 * crashes'
  BY <1>1, <1>2
<1> QED BY <1>3 DEF Within

(* A step that posts nothing, gives no thread a new duty and is no fault.  *)
LEMMA QuietWithin ==
  ASSUME Parts, Parts', NEW m \in Request, Within(m), IsFiniteSet(conn.buffers),
         posts' = posts, lost' = lost, crashes' = crashes,
         ToSave(m)' => ToSave(m), ToTransmit(m)' \subseteq ToTransmit(m)
  PROVE  Within(m)'
<1>1. /\ Owed(m) \in Nat /\ Owed(m)' \in Nat
      /\ Owed(m)' <= Owed(m)
  BY OwedStep
<1>2. posts[m] \in Nat /\ lost \in Nat /\ crashes \in Nat
  BY ConstantsAssumption DEF Parts, NetInv, Counters
<1>3. posts'[m] + Owed(m)' + lost + 2 * crashes <= posts[m] + Owed(m) + lost' + 2 * crashes'
  BY <1>1, <1>2
<1> QED BY <1>1, <1>3, WithinStep

(* A step of the save thread that leaves the tables alone changes neither  *)
(* the rows nor what is stated of the pass.                                *)
LEMMA SaverAlone ==
  ASSUME conn' = conn, disk' = disk, UNCHANGED reconVars
  PROVE  /\ \A m : ToTransmit(m)' = ToTransmit(m)
         /\ PassInv => PassInv'
         /\ MarksCommitted => MarksCommitted'
<1>1. recon' = recon /\ todo' = todo /\ row' = row
  BY DEF reconVars
<1> QED BY <1>1 DEF ToTransmit, PassInv, MarksCommitted

(* A step of 'reconnected' changes nothing the save thread has to do.      *)
LEMMA ReconAlone ==
  ASSUME UNCHANGED saverVars, conn'.files = conn.files
  PROVE  /\ \A m : ToSave(m)' = ToSave(m)
         /\ FileInv => FileInv'
<1>1. saver' = saver /\ cur' = cur /\ Handled' = Handled
  BY DEF saverVars, Handled
<1> QED BY <1>1 DEF ToSave, FileInv

(* The request just posted or kept counts as handled.                      *)
LEMMA NextRequestHandles ==
  ASSUME cur \in Request, saver \in {"post", "buffer_commit"}, NextRequest
  PROVE  /\ saver' \in {"post", "file_begin"}
         /\ cur'[1] = cur[1]
         /\ \A m \in Request : m \in Handled \/ m = cur => m \in Handled'
<1>1. cur[2] \in 1 .. NbReq /\ NbReq \in Nat
  BY ConstantsAssumption DEF Request
<1>2. \A m \in Request : m[2] \in 1 .. NbReq
  BY DEF Request
<1>3. \A m \in Request : m \in Handled \/ m = cur => m[1] = cur[1] /\ m[2] <= cur[2]
  BY <1>1, <1>2 DEF Handled
<1>4. CASE cur[2] < NbReq
  <2>1. saver' = "post" /\ cur'[1] = cur[1] /\ cur'[2] = cur[2] + 1
    BY <1>4 DEF NextRequest
  <2> QED BY <2>1, <1>1, <1>2, <1>3 DEF Handled
<1>5. CASE ~(cur[2] < NbReq)
  <2>1. saver' = "file_begin" /\ cur' = cur
    BY <1>5 DEF NextRequest
  <2> QED BY <2>1, <1>3 DEF Handled
<1> QED BY <1>4, <1>5

-----------------------------------------------------------------------------
LEMMA SaveOneFilePosts ==
  ASSUME Parts, Parts', PostsInv, NEW f \in File, SaveOneFile(f)
  PROVE  PostsInv'
<1>1. /\ conn' = conn /\ disk' = disk /\ UNCHANGED reconVars
      /\ posts' = posts /\ lost' = lost /\ crashes' = crashes
      /\ saver = "idle" /\ saver' = "post" /\ cur' = <<f, 1>> /\ f \notin conn.files
  BY DEF SaveOneFile, dbVars, netVars
<1>2. /\ \A m : ToTransmit(m)' = ToTransmit(m)
      /\ PassInv' /\ MarksCommitted'
  BY <1>1, SaverAlone, PostsInvParts
<1>3. FileInv'
  BY <1>1 DEF FileInv
<1>4. \A m \in Request : ToSave(m)' => ToSave(m)
  BY <1>1 DEF ToSave, Handled
<1>5. \A m \in Request : Within(m)'
  BY <1>1, <1>2, <1>4, QuietWithin, PostsInvParts
<1> QED BY <1>1, <1>2, <1>3, <1>5, PostsInvParts, PostsInvPartsNext

(* A post pays for the duty of the save thread.                            *)
LEMMA PostOkPosts ==
  ASSUME Parts, Parts', PostsInv, PostOk
  PROVE  PostsInv'
<1>1. /\ conn' = conn /\ disk' = disk /\ UNCHANGED reconVars
      /\ lost' = lost /\ crashes' = crashes
      /\ posts' = [posts EXCEPT ![cur] = @ + 1]
      /\ saver = "post" /\ cur \in Request /\ NextRequest
  BY DEF PostOk, dbVars, Parts, SaverInv
<1>2. /\ \A m : ToTransmit(m)' = ToTransmit(m)
      /\ PassInv' /\ MarksCommitted'
  BY <1>1, SaverAlone, PostsInvParts
<1>3. /\ saver' \in {"post", "file_begin"} /\ cur'[1] = cur[1]
      /\ \A m \in Request : m \in Handled \/ m = cur => m \in Handled'
  BY <1>1, NextRequestHandles
<1>4. cur[1] \notin conn.files
  BY <1>1, PostsInvParts DEF FileInv
<1>5. FileInv'
  BY <1>1, <1>3, <1>4 DEF FileInv
<1>6. cur \notin Handled
  <2>1. cur[2] \in Nat
    BY <1>1 DEF Request
  <2> QED BY <1>1, <2>1 DEF Handled
<1>7. ASSUME NEW m \in Request PROVE Within(m)'
  <2>1. Within(m) /\ IsFiniteSet(conn.buffers)
    BY PostsInvParts
  <2>2. /\ posts \in Counters /\ posts[m] \in Nat /\ lost \in Nat /\ crashes \in Nat
    BY ConstantsAssumption DEF Parts, NetInv, Counters
  <2>3. CASE m = cur
    <3>1. ToSave(m) /\ ~ToSave(m)'
      BY <1>1, <1>3, <1>4, <1>6, <2>3 DEF ToSave
    <3>2. Owed(m) \in Nat /\ Owed(m)' \in Nat /\ Owed(m)' + 1 <= Owed(m)
      BY <1>2, <2>1, <3>1, OwedStep
    <3>3. posts'[m] = posts[m] + 1
      BY <1>1, <2>2, <2>3 DEF Counters
    <3>4. posts'[m] + Owed(m)' + lost + 2 * crashes
             <= posts[m] + Owed(m) + lost' + 2 * crashes'
      BY <1>1, <2>2, <3>2, <3>3
    <3> QED BY <2>1, <3>2, <3>4, WithinStep
  <2>4. CASE m # cur
    <3>1. ToSave(m)' => ToSave(m)
      BY <1>1, <1>3, <2>4 DEF ToSave
    <3>2. Owed(m) \in Nat /\ Owed(m)' \in Nat /\ Owed(m)' <= Owed(m)
      BY <1>2, <2>1, <3>1, OwedStep
    <3>3. posts'[m] = posts[m]
      BY <1>1, <2>2, <2>4 DEF Counters
    <3>4. posts'[m] + Owed(m)' + lost + 2 * crashes
             <= posts[m] + Owed(m) + lost' + 2 * crashes'
      BY <1>1, <2>2, <3>2, <3>3
    <3> QED BY <2>1, <3>2, <3>4, WithinStep
  <2> QED BY <2>3, <2>4
<1> QED BY <1>1, <1>2, <1>5, <1>7, PostsInvParts, PostsInvPartsNext

(* A failed post leaves the duty, which becomes that of keeping the        *)
(* request; if the server had processed it, an answer was lost.            *)
LEMMA PostFailsPosts ==
  ASSUME Parts, Parts', PostsInv, PostFails
  PROVE  PostsInv'
<1>1. /\ conn' = conn /\ disk' = disk /\ UNCHANGED reconVars
      /\ crashes' = crashes /\ cur' = cur
      /\ saver = "post" /\ saver' = "buffer_begin" /\ cur \in Request
      /\ \/ posts' = posts /\ lost' = lost
         \/ posts' = [posts EXCEPT ![cur] = @ + 1] /\ lost' = lost + 1
  BY DEF PostFails, dbVars, Parts, SaverInv
<1>2. /\ \A m : ToTransmit(m)' = ToTransmit(m)
      /\ PassInv' /\ MarksCommitted'
  BY <1>1, SaverAlone, PostsInvParts
<1>3. FileInv'
  BY <1>1, PostsInvParts DEF FileInv
<1>4. \A m \in Request : ToSave(m)' => ToSave(m)
  BY <1>1 DEF ToSave, Handled
<1>5. ASSUME NEW m \in Request PROVE Within(m)'
  <2>1. Within(m) /\ IsFiniteSet(conn.buffers)
    BY PostsInvParts
  <2>2. Owed(m) \in Nat /\ Owed(m)' \in Nat /\ Owed(m)' <= Owed(m)
    BY <1>2, <1>4, <2>1, OwedStep
  <2>3. posts \in Counters /\ posts[m] \in Nat /\ lost \in Nat /\ crashes \in Nat
    BY ConstantsAssumption DEF Parts, NetInv, Counters
  <2>4. \/ posts'[m] = posts[m] /\ lost' = lost
        \/ posts'[m] \in {posts[m], posts[m] + 1} /\ lost' = lost + 1
    BY <1>1, <2>3 DEF Counters
  <2>5. posts'[m] + Owed(m)' + lost + 2 * crashes
           <= posts[m] + Owed(m) + lost' + 2 * crashes'
    BY <1>1, <2>2, <2>3, <2>4
  <2> QED BY <2>1, <2>2, <2>5, WithinStep
<1> QED BY <1>1, <1>2, <1>3, <1>5, PostsInvParts, PostsInvPartsNext

(* A row is inserted in place of the duty of the save thread: now it is    *)
(* 'reconnected' that has to post.                                         *)
LEMMA DbSaveBufferPosts ==
  ASSUME Parts, Parts', PostsInv, DbSaveBuffer
  PROVE  PostsInv'
<1>1. /\ UNCHANGED reconVars /\ posts' = posts /\ lost' = lost /\ crashes' = crashes
      /\ recon \notin {"scan", "mark"} /\ recon' = recon /\ row' = row
      /\ saver # "idle" /\ cur \in Request
  BY DEF DbSaveBuffer, netVars, reconVars, MutexHeld, Parts, SaverInv
<1>2. /\ MarksCommitted /\ FileInv /\ PassInv /\ IsFiniteSet(conn.buffers)
      /\ \A m \in Request : Within(m)
  BY PostsInvParts
<1>3. PassInv'
  BY <1>1 DEF PassInv
<1>4. CASE saver = "buffer_begin" /\ Begin /\ saver' = "buffer_insert" /\ cur' = cur
  <2>1. conn' = conn /\ disk' = disk
    BY <1>4 DEF Begin
  <2>2. (\A m : ToTransmit(m)' = ToTransmit(m)) /\ MarksCommitted'
    BY <1>1, <1>2, <2>1, SaverAlone
  <2>3. FileInv'
    BY <1>2, <1>4, <2>1 DEF FileInv
  <2>4. \A m \in Request : ToSave(m)' => ToSave(m)
    BY <1>4, <2>1 DEF ToSave, Handled
  <2>5. \A m \in Request : Within(m)'
    BY <1>1, <1>2, <2>2, <2>4, QuietWithin
  <2> QED BY <1>2, <1>3, <2>1, <2>2, <2>3, <2>5, PostsInvPartsNext
<1>5. CASE saver = "buffer_insert" /\ Write(InsertBuffer(conn, cur))
           /\ saver' = "buffer_commit" /\ cur' = cur
  <2> DEFINE new == [id |-> conn.lastId + 1, data |-> cur]
  <2>1. /\ conn' = InsertBuffer(conn, cur)
        /\ disk' = disk \/ disk' = conn'
    BY <1>5 DEF Write
  <2>2. /\ conn'.buffers = conn.buffers \cup {new}
        /\ conn'.transmited = conn.transmited
        /\ conn'.files = conn.files
    <3>1. conn \in Tables
      BY DEF Parts, DbInv, Good
    <3> QED BY <2>1, <3>1 DEF InsertBuffer, Tables
  <2>3. MarksCommitted'
    BY <1>2, <2>1, <2>2 DEF MarksCommitted
  <2>4. FileInv'
    BY <1>2, <1>5, <2>2 DEF FileInv
  <2>5. cur \notin Handled /\ Handled' = Handled
    <3>1. cur[2] \in Nat
      BY <1>1 DEF Request
    <3> QED BY <1>5, <3>1 DEF Handled
  <2>6. IsFiniteSet(conn'.buffers)
    BY <1>2, <2>2, FS_AddElement
  <2>7. ASSUME NEW m \in Request PROVE Within(m)'
    <3>1. CASE m = cur
      <4>1. ToSave(m) /\ ~ToSave(m)'
        BY <1>2, <1>5, <2>5, <3>1 DEF ToSave, FileInv
      <4>2. ToTransmit(m)' \subseteq ToTransmit(m) \cup {new}
        BY <1>1, <2>2 DEF ToTransmit
      <4> HIDE DEF new
      <4>3. Owed(m) \in Nat /\ Owed(m)' \in Nat /\ Owed(m)' <= Owed(m)
        BY <1>2, <4>1, <4>2, OwedStep
      <4>4. posts[m] \in Nat /\ lost \in Nat /\ crashes \in Nat
        BY ConstantsAssumption DEF Parts, NetInv, Counters
      <4>5. posts'[m] + Owed(m)' + lost + 2 * crashes
               <= posts[m] + Owed(m) + lost' + 2 * crashes'
        BY <1>1, <4>3, <4>4
      <4> QED BY <1>2, <4>3, <4>5, WithinStep
    <3>2. CASE m # cur
      <4>1. ToSave(m)' => ToSave(m)
        BY <1>5, <2>2, <2>5, <3>2 DEF ToSave
      <4>2. ToTransmit(m)' \subseteq ToTransmit(m)
        BY <1>1, <2>2, <3>2 DEF ToTransmit
      <4> QED BY <1>1, <1>2, <4>1, <4>2, QuietWithin
    <3> QED BY <3>1, <3>2
  <2> QED BY <1>3, <2>3, <2>4, <2>6, <2>7, PostsInvPartsNext
<1>6. CASE saver = "buffer_commit" /\ Commit /\ NextRequest
  <2>1. conn' = conn /\ (disk' = disk \/ disk' = conn)
    BY <1>6 DEF Commit
  <2>2. MarksCommitted'
    BY <1>2, <2>1 DEF MarksCommitted
  <2>3. /\ saver' \in {"post", "file_begin"} /\ cur'[1] = cur[1]
        /\ \A m \in Request : m \in Handled \/ m = cur => m \in Handled'
    BY <1>1, <1>6, NextRequestHandles
  <2>4. FileInv'
    BY <1>2, <1>6, <2>1, <2>3 DEF FileInv
  <2>5. \A m \in Request : ToSave(m)' => ToSave(m)
    BY <2>1, <2>3 DEF ToSave
  <2>6. \A m \in Request : ToTransmit(m)' = ToTransmit(m)
    BY <1>1, <2>1 DEF ToTransmit
  <2>7. \A m \in Request : Within(m)'
    BY <1>1, <1>2, <2>5, <2>6, QuietWithin
  <2> QED BY <1>2, <1>3, <2>1, <2>2, <2>4, <2>7, PostsInvPartsNext
<1> QED BY <1>4, <1>5, <1>6 DEF DbSaveBuffer

(* Once the file is in the cache it is never sent again: what was handled  *)
(* may be forgotten.                                                       *)
LEMMA DbSaveMetaDataPosts ==
  ASSUME Parts, Parts', PostsInv, DbSaveMetaData
  PROVE  PostsInv'
<1>1. /\ UNCHANGED reconVars /\ posts' = posts /\ lost' = lost /\ crashes' = crashes
      /\ recon \notin {"scan", "mark"} /\ recon' = recon /\ row' = row
  BY DEF DbSaveMetaData, netVars, reconVars, MutexHeld
<1>2. /\ MarksCommitted /\ FileInv /\ PassInv /\ IsFiniteSet(conn.buffers)
      /\ \A m \in Request : Within(m)
  BY PostsInvParts
<1>3. PassInv'
  BY <1>1 DEF PassInv
<1>4. conn \in Tables
  BY DEF Parts, DbInv, Good
<1>5. /\ conn'.buffers = conn.buffers /\ conn'.transmited = conn.transmited
      /\ disk' = disk \/ disk' = conn'
      /\ MarksCommitted'
  <2>1. Begin \/ Write(InsertFile(conn, cur[1])) \/ Commit
    BY DEF DbSaveMetaData
  <2>2. /\ InsertFile(conn, cur[1]).buffers = conn.buffers
        /\ InsertFile(conn, cur[1]).transmited = conn.transmited
    BY <1>4 DEF InsertFile, Tables
  <2>3. conn' = conn \/ conn' = InsertFile(conn, cur[1])
    BY <2>1 DEF Begin, Write, Commit
  <2>4. disk' = disk \/ disk' = conn'
    BY <2>1 DEF Begin, Write, Commit
  <2> QED BY <1>2, <2>2, <2>3, <2>4 DEF MarksCommitted
<1>6. /\ FileInv'
      /\ \A m \in Request : ToSave(m)' => ToSave(m)
  <2>1. CASE saver = "file_begin" /\ Begin /\ saver' = "file_insert" /\ cur' = cur
    <3>1. conn' = conn
      BY <2>1 DEF Begin
    <3> QED BY <1>2, <2>1, <3>1 DEF FileInv, ToSave, Handled
  <2>2. CASE saver = "file_insert" /\ Write(InsertFile(conn, cur[1]))
             /\ saver' = "file_commit" /\ cur' = cur
    <3>1. conn'.files = conn.files \cup {cur[1]}
      BY <1>4, <2>2 DEF Write, InsertFile, Tables
    <3> QED BY <2>2, <3>1 DEF FileInv, ToSave, Handled
  <2>3. CASE saver = "file_commit" /\ Commit /\ saver' = "idle"
    <3>1. conn' = conn
      BY <2>3 DEF Commit
    <3> QED BY <1>2, <2>3, <3>1 DEF FileInv, ToSave, Handled
  <2> QED BY <2>1, <2>2, <2>3 DEF DbSaveMetaData
<1>7. \A m \in Request : ToTransmit(m)' = ToTransmit(m)
  BY <1>1, <1>5 DEF ToTransmit
<1>8. \A m \in Request : Within(m)'
  BY <1>1, <1>2, <1>6, <1>7, QuietWithin
<1> QED BY <1>2, <1>3, <1>5, <1>6, <1>8, PostsInvPartsNext

-----------------------------------------------------------------------------
(* The steps of 'reconnected' that post nothing and take no row away: the  *)
(* row that is marked was already not to be posted again.                  *)
LEMMA QuietReconPosts ==
  ASSUME Parts, Parts', PostsInv, UNCHANGED <<saverVars, netVars>>,
         conn'.files = conn.files, conn'.buffers \subseteq conn.buffers,
         MarksCommitted', PassInv',
         \A m \in Request : ToTransmit(m)' \subseteq ToTransmit(m)
  PROVE  PostsInv'
<1>1. /\ UNCHANGED saverVars
      /\ posts' = posts /\ lost' = lost /\ crashes' = crashes
  BY DEF netVars
<1>2. /\ FileInv /\ IsFiniteSet(conn.buffers)
      /\ \A m \in Request : Within(m)
  BY PostsInvParts
<1>3. FileInv' /\ \A m \in Request : ToSave(m)' => ToSave(m)
  BY <1>1, <1>2, ReconAlone
<1>4. IsFiniteSet(conn'.buffers)
  BY <1>2, FS_Subset
<1>5. \A m \in Request : Within(m)'
  BY <1>1, <1>2, <1>3, QuietWithin
<1> QED BY <1>3, <1>4, <1>5, PostsInvPartsNext

LEMMA ScanPosts ==
  ASSUME Parts, Parts', PostsInv,
         \/ IsThereBuffersToTransmit \/ IsServerAlive \/ TransmitBuffers
         \/ EndOfScan \/ DeleteTransmitedBuffers \/ EndOfSweep
  PROVE  PostsInv'
<1>1. /\ UNCHANGED <<saverVars, netVars>> /\ conn' = conn /\ disk' = disk
      /\ recon # "mark" /\ recon' # "mark"
      /\ recon' = "scan" => todo' = Untransmited(conn)
  BY DEF IsThereBuffersToTransmit, IsServerAlive, TransmitBuffers, EndOfScan,
         DeleteTransmitedBuffers, EndOfSweep, dbVars
<1>2. MarksCommitted'
  BY <1>1, PostsInvParts DEF MarksCommitted
<1>3. PassInv'
  BY <1>1 DEF PassInv, Untransmited
<1>4. \A m \in Request : ToTransmit(m)' \subseteq ToTransmit(m)
  BY <1>1 DEF ToTransmit
<1> QED BY <1>1, <1>2, <1>3, <1>4, QuietReconPosts

(* A row that is posted is not to be posted again; if it stays to be, an   *)
(* answer was lost.                                                        *)
LEMMA TransmitRowPosts ==
  ASSUME Parts, Parts', PostsInv, TransmitRow
  PROVE  PostsInv'
<1> PICK r \in conn.buffers :
      /\ r.id \in todo
      /\ todo' = todo \ {r.id}
      /\ \/ /\ posts' = [posts EXCEPT ![r.data] = @ + 1]
            /\ row' = r.id /\ recon' = "mark" /\ lost' = lost
         \/ /\ posts' = [posts EXCEPT ![r.data] = @ + 1]
            /\ lost' = lost + 1 /\ row' = row /\ recon' = recon
         \/ posts' = posts /\ lost' = lost /\ row' = row /\ recon' = recon
  BY DEF TransmitRow, RowNotPosted, IsNextRow
<1>1. /\ recon = "scan" /\ conn' = conn /\ disk' = disk
      /\ UNCHANGED saverVars /\ crashes' = crashes
  BY DEF TransmitRow, dbVars
<1>2. /\ r.data \in Request
      /\ \A s \in conn.buffers : s.id = r.id => s = r
  BY DEF Parts, DbInv, Good, Tables, TablesInv
<1>3. /\ MarksCommitted /\ FileInv /\ PassInv /\ IsFiniteSet(conn.buffers)
      /\ \A m \in Request : Within(m)
  BY PostsInvParts
<1>4. r.id \notin conn.transmited /\ PassInv'
  BY <1>1, <1>3 DEF PassInv
<1>5. MarksCommitted' /\ FileInv' /\ \A m \in Request : ToSave(m)' => ToSave(m)
  BY <1>1, <1>3, ReconAlone DEF MarksCommitted
<1>6. ASSUME NEW m \in Request PROVE Within(m)'
  <2>1. /\ posts \in Counters /\ posts[m] \in Nat /\ lost \in Nat /\ crashes \in Nat
        /\ Within(m)
    BY <1>3, ConstantsAssumption DEF Parts, NetInv, Counters
  <2>2. ToTransmit(m)' \subseteq ToTransmit(m)
    BY <1>1 DEF ToTransmit
  <2>3. Owed(m) \in Nat /\ Owed(m)' \in Nat /\ Owed(m)' <= Owed(m)
    BY <1>3, <1>5, <2>2, OwedStep
  <2>4. CASE posts' = posts /\ lost' = lost
    BY <1>1, <1>3, <1>5, <2>1, <2>2, <2>4, QuietWithin
  <2>5. CASE posts' = [posts EXCEPT ![r.data] = @ + 1] /\ lost' = lost + 1
    <3>1. posts'[m] \in {posts[m], posts[m] + 1}
      BY <1>2, <2>1, <2>5 DEF Counters
    <3>2. posts'[m] + Owed(m)' + lost + 2 * crashes
             <= posts[m] + Owed(m) + lost' + 2 * crashes'
      BY <1>1, <2>1, <2>3, <2>5, <3>1
    <3> QED BY <2>1, <2>3, <3>2, WithinStep
  <2>6. CASE /\ posts' = [posts EXCEPT ![r.data] = @ + 1] /\ lost' = lost
             /\ row' = r.id /\ recon' = "mark"
    <3>1. CASE m = r.data
      <4>1. r \in ToTransmit(m)
        BY <1>1, <1>4, <3>1 DEF ToTransmit
      <4>2. ToTransmit(m)' \subseteq ToTransmit(m) \ {r}
        BY <1>1, <2>6 DEF ToTransmit
      <4>3. Owed(m)' + 1 <= Owed(m)
        BY <1>3, <1>5, <4>1, <4>2, OwedStep
      <4>4. posts'[m] = posts[m] + 1
        BY <2>1, <2>6, <3>1 DEF Counters
      <4>5. posts'[m] + Owed(m)' + lost + 2 * crashes
               <= posts[m] + Owed(m) + lost' + 2 * crashes'
        BY <1>1, <2>1, <2>3, <2>6, <4>3, <4>4
      <4> QED BY <2>1, <2>3, <4>5, WithinStep
    <3>2. CASE m # r.data
      <4>1. posts'[m] = posts[m]
        BY <2>1, <2>6, <3>2 DEF Counters
      <4>2. posts'[m] + Owed(m)' + lost + 2 * crashes
               <= posts[m] + Owed(m) + lost' + 2 * crashes'
        BY <1>1, <2>1, <2>3, <2>6, <4>1
      <4> QED BY <2>1, <2>3, <4>2, WithinStep
    <3> QED BY <3>1, <3>2
  <2> QED BY <2>4, <2>5, <2>6
<1> QED BY <1>1, <1>3, <1>4, <1>5, <1>6, PostsInvPartsNext

LEMMA MarkRowPosts ==
  ASSUME Parts, Parts', PostsInv, MarkRow
  PROVE  PostsInv'
<1>1. /\ conn' = InsertTransmited(conn, row) /\ disk' = conn' /\ todo' = todo
      /\ recon = "mark" /\ recon' = "scan"
      /\ UNCHANGED <<saverVars, netVars>>
  BY DEF MarkRow, Transaction
<1>2. /\ conn'.buffers = conn.buffers /\ conn'.files = conn.files
      /\ conn'.transmited = conn.transmited \cup {row}
  BY <1>1 DEF InsertTransmited, Parts, DbInv, Good, Tables
<1>3. MarksCommitted' /\ PassInv'
  BY <1>1, <1>2, PostsInvParts DEF MarksCommitted, PassInv
<1>4. \A m \in Request : ToTransmit(m)' \subseteq ToTransmit(m)
  BY <1>1, <1>2 DEF ToTransmit
<1> QED BY <1>1, <1>2, <1>3, <1>4, QuietReconPosts

LEMMA DeleteRowPosts ==
  ASSUME Parts, Parts', PostsInv, DeleteRow
  PROVE  PostsInv'
<1> PICK i : Transaction(DeleteBuffer(conn, i))
  BY DEF DeleteRow
<1>1. /\ conn' = DeleteBuffer(conn, i) /\ disk' = conn'
      /\ recon = "sweep" /\ recon' = "sweep"
      /\ UNCHANGED <<saverVars, netVars>>
  BY DEF DeleteRow, Transaction
<1>2. /\ conn'.buffers \subseteq conn.buffers /\ conn'.files = conn.files
      /\ conn'.transmited = conn.transmited
  BY <1>1 DEF DeleteBuffer, Parts, DbInv, Good, Tables
<1>3. MarksCommitted' /\ PassInv'
  BY <1>1 DEF MarksCommitted, PassInv
<1>4. \A m \in Request : ToTransmit(m)' \subseteq ToTransmit(m)
  BY <1>1, <1>2 DEF ToTransmit
<1> QED BY <1>1, <1>2, <1>3, <1>4, QuietReconPosts

(* A crash brings back the duty of the save thread, if the file is not in  *)
(* the cache on disk, and that of posting the one row that was posted and  *)
(* not yet marked: no other mark is lost, and no row that was deleted.     *)
LEMMA CrashPosts ==
  ASSUME Parts, Parts', DiskBehind, PostsInv, CrashAndRestart
  PROVE  PostsInv'
<1>1. /\ conn' = disk /\ disk' = disk /\ posts' = posts /\ lost' = lost
      /\ saver' = "idle" /\ recon' = "sleep" /\ crashes' = crashes + 1
  BY DEF CrashAndRestart
<1>2. /\ MarksCommitted /\ IsFiniteSet(conn.buffers)
      /\ \A m \in Request : Within(m)
  BY PostsInvParts
<1>3. MarksCommitted' /\ FileInv' /\ PassInv'
  BY <1>1 DEF MarksCommitted, FileInv, PassInv
<1>4. IsFiniteSet(conn'.buffers)
  BY <1>1, <1>2, FS_Subset DEF DiskBehind
<1> PICK x : \A r \in conn.buffers : r.id = row => r = x
  BY DEF Parts, DbInv, Good, TablesInv
<1>5. ASSUME NEW m \in Request PROVE Within(m)'
  <2>1. ToTransmit(m)' \subseteq ToTransmit(m) \cup {x}
    BY <1>1, <1>2 DEF ToTransmit, MarksCommitted, DiskBehind
  <2>2. Owed(m) \in Nat /\ Owed(m)' \in Nat /\ Owed(m)' <= Owed(m) + 2
    BY <1>2, <2>1, OwedStep
  <2>3. posts[m] \in Nat /\ lost \in Nat /\ crashes \in Nat
    BY ConstantsAssumption DEF Parts, NetInv, Counters
  <2>4. posts'[m] + Owed(m)' + lost + 2 * crashes
           <= posts[m] + Owed(m) + lost' + 2 * crashes'
    BY <1>1, <2>2, <2>3
  <2> QED BY <1>2, <2>2, <2>4, WithinStep
<1> QED BY <1>3, <1>4, <1>5, PostsInvPartsNext

LEMMA IdlePosts ==
  ASSUME Parts, Parts', PostsInv, Network \/ UNCHANGED vars
  PROVE  PostsInv'
<1>1. /\ conn' = conn /\ disk' = disk /\ UNCHANGED saverVars /\ UNCHANGED reconVars
      /\ posts' = posts /\ lost' = lost /\ crashes' = crashes
  BY DEF Network, vars, dbVars, netVars
<1>2. /\ MarksCommitted /\ FileInv /\ PassInv /\ IsFiniteSet(conn.buffers)
      /\ \A m \in Request : Within(m)
  BY PostsInvParts
<1>3. /\ PassInv' /\ MarksCommitted'
      /\ \A m \in Request : ToTransmit(m)' \subseteq ToTransmit(m)
  BY <1>1, <1>2, SaverAlone
<1>4. FileInv' /\ \A m \in Request : ToSave(m)' => ToSave(m)
  BY <1>1, <1>2, ReconAlone
<1>5. \A m \in Request : Within(m)'
  BY <1>1, <1>2, <1>3, <1>4, QuietWithin
<1> QED BY <1>1, <1>2, <1>3, <1>4, <1>5, PostsInvPartsNext

-----------------------------------------------------------------------------
LEMMA InitPosts == Init => PostsInv
<1> SUFFICES ASSUME Init PROVE PostsInv
  OBVIOUS
<1>1. /\ conn = EmptyTables /\ disk = EmptyTables /\ saver = "idle" /\ recon = "sleep"
      /\ crashes = 0 /\ lost = 0 /\ posts = [m \in Request |-> 0]
  BY DEF Init
<1>2. conn.buffers = {} /\ IsFiniteSet(conn.buffers)
  BY <1>1, FS_EmptySet DEF EmptyTables
<1>3. ASSUME NEW m \in Request PROVE Within(m)
  <2>1. Cardinality(ToTransmit(m)) = 0
    BY <1>2, FS_EmptySet DEF ToTransmit
  <2>2. Owed(m) \in {0, 1}
    BY <2>1 DEF Owed
  <2> QED BY <1>1, <2>2 DEF Within
<1> QED BY <1>1, <1>2, <1>3, PostsInvParts DEF MarksCommitted, FileInv, PassInv

LEMMA NextPosts == IInv /\ IInv' /\ PostsInv /\ [Next]_vars => PostsInv'
<1> SUFFICES ASSUME Parts, Parts', DiskBehind, PostsInv, [Next]_vars
             PROVE  PostsInv'
  BY PartsIsIInv, PartsIsIInvNext
<1>1. ASSUME Saver PROVE PostsInv'
  BY <1>1, SaveOneFilePosts, PostOkPosts, PostFailsPosts, DbSaveBufferPosts,
     DbSaveMetaDataPosts DEF Saver
<1>2. ASSUME Reconnected PROVE PostsInv'
  BY <1>2, ScanPosts, TransmitRowPosts, MarkRowPosts, DeleteRowPosts DEF Reconnected
<1>3. ASSUME Network \/ UNCHANGED vars PROVE PostsInv'
  BY <1>3, IdlePosts
<1>4. ASSUME CrashAndRestart PROVE PostsInv'
  BY <1>4, CrashPosts
<1> QED BY <1>1, <1>2, <1>3, <1>4 DEF Next

(* For any number of files, requests, crashes and lost answers, what the   *)
(* server has processed and what the client may still post without another *)
(* fault stays within the faults there have been.                          *)
THEOREM PostsInvCorrect == Spec => []PostsInv
<1>1. IInv /\ IInv' /\ PostsInv /\ [Next]_vars => PostsInv'
  BY NextPosts
<1> QED BY InitPosts, <1>1, IInvCorrect, PTL DEF Spec

(* Hence the server processes a request again only because of a fault: one *)
(* more post for an answer lost, two for a crash.                          *)
THEOREM RepostNeedsFaultCorrect == Spec => []RepostNeedsFault
<1>1. IInv /\ PostsInv => RepostNeedsFault
  <2> SUFFICES ASSUME Parts, PostsInv, NEW m \in Request
               PROVE  posts[m] <= 1 + lost + 2 * crashes
    BY PartsIsIInv DEF RepostNeedsFault
  <2>1. /\ posts[m] \in Nat /\ lost \in Nat /\ crashes \in Nat
    BY ConstantsAssumption DEF Parts, NetInv, Counters
  <2>2. Owed(m) \in Nat
    BY OwedStep, PostsInvParts
  <2>3. posts[m] + Owed(m) <= 1 + lost + 2 * crashes
    BY PostsInvParts DEF Within
  <2> QED BY <2>1, <2>2, <2>3
<1> QED BY <1>1, IInvCorrect, PostsInvCorrect, PTL
=============================================================================
