------------------------------- MODULE Outbox -------------------------------
(***************************************************************************)
(* The client's store-and-forward path: the thread that saves files        *)
(* (client.c, save_one_file_threaded) posts the requests of a file to the  *)
(* server and, when a post fails, keeps the request in the table 'buffers' *)
(* of a local sqlite database; the thread 'reconnected' transmits those    *)
(* rows later, marks them in the table 'transmited' and then deletes them. *)
(* A file whose requests were all posted or kept is recorded in the table  *)
(* 'files' (the cache) and is never sent again.                            *)
(*                                                                         *)
(* Both threads share ONE sqlite connection, hence one transaction: what   *)
(* one thread wrote since its BEGIN is committed by the COMMIT of the      *)
(* other. sqlite3_exec holds the connection's mutex until its last         *)
(* callback has returned, so the save thread makes no step on the database *)
(* while 'reconnected' is inside one of its two SELECT passes.             *)
(***************************************************************************)
EXTENDS Integers, FiniteSets

CONSTANTS
    File,        \* versions of files to be saved
    NbReq,       \* number of requests one file needs (meta data, data...)
    MaxCrashes,  \* bound: crashes of the client
    MaxLost      \* bound: answers of the server that are lost

ASSUME ConstantsAssumption ==
    /\ NbReq \in Nat \ {0}
    /\ MaxCrashes \in Nat
    /\ MaxLost \in Nat

VARIABLES
    conn,    \* the tables as the connection sees them
    disk,    \* the tables as they are after a crash: the last commit
    inTx,    \* a transaction is open on the connection
    saver,   \* where the save thread is
    cur,     \* <<file, n>>: the request the save thread works on, or <<>>
    recon,   \* where the thread 'reconnected' is
    todo,    \* ids still to be visited by the running SELECT pass
    row,     \* the id being marked by the pass
    verb,    \* method the curl handle of 'reconnected' will use next
    up,      \* the server can be reached
    posts,   \* history: how many times the server processed a request
    crashes, \* history: crashes of the client so far
    lost     \* history: lost answers so far

dbVars    == <<conn, disk, inTx>>
saverVars == <<saver, cur>>
reconVars == <<recon, todo, row, verb>>
netVars   == <<up, posts, crashes, lost>>
vars      == <<dbVars, saverVars, reconVars, netVars>>

Request == File \X (1 .. NbReq)

SaverPlace ==
    {"idle", "post", "buffer_begin", "buffer_insert", "buffer_commit",
     "file_begin", "file_insert", "file_commit"}
ReconPlace == {"sleep", "probe", "transmit", "scan", "mark", "scanned", "sweep"}

(* The schema: buffers(buffer_id AUTOINCREMENT, url, data), transmited     *)
(* (buffer_id), files, and the last AUTOINCREMENT value given.             *)
Tables ==
    [buffers    : SUBSET [id : Nat, data : Request],
     transmited : SUBSET Nat,
     files      : SUBSET File,
     lastId     : Nat]

EmptyTables == [buffers |-> {}, transmited |-> {}, files |-> {}, lastId |-> 0]

-----------------------------------------------------------------------------
(* Statements on the shared connection.                                    *)

(* sqlite3_exec of a SELECT has not yet returned.                          *)
MutexHeld == recon \in {"scan", "mark", "sweep"}

(* sql_begin: when a transaction is already open sqlite refuses, which is  *)
(* only printed, and the open one goes on.                                 *)
Begin == inTx' = TRUE /\ UNCHANGED <<conn, disk>>

(* An INSERT or a DELETE: committed at once when no transaction is open.   *)
Write(t) ==
    /\ conn' = t
    /\ disk' = IF inTx THEN disk ELSE t
    /\ UNCHANGED inTx

(* sql_commit: without an open transaction sqlite refuses, which is only   *)
(* printed.                                                                *)
Commit ==
    /\ disk' = IF inTx THEN conn ELSE disk
    /\ inTx' = FALSE
    /\ UNCHANGED conn

(* sql_begin, a statement and sql_commit, all under the mutex: it also     *)
(* ends the transaction the save thread may have begun.                    *)
Transaction(t) ==
    /\ conn' = t
    /\ disk' = t
    /\ inTx' = FALSE

(* Mutant: no AUTOINCREMENT, the id of a deleted row is given again.       *)
InsertBufferReusingId(t, m) ==
    LET ids  == {r.id : r \in t.buffers}
        free == CHOOSE i \in 1 .. (t.lastId + 1) :
                    i \notin ids /\ \A j \in ids : j < i
    IN  [t EXCEPT !.buffers = @ \cup {[id |-> free, data |-> m]},
                  !.lastId  = @ + 1]

InsertBuffer(t, m) ==
    [t EXCEPT !.buffers = @ \cup {[id |-> t.lastId + 1, data |-> m]},
              !.lastId  = @ + 1]

InsertFile(t, f)      == [t EXCEPT !.files = @ \cup {f}]
InsertTransmited(t, i) == [t EXCEPT !.transmited = @ \cup {i}]
DeleteBuffer(t, i)    == [t EXCEPT !.buffers = {r \in @ : r.id # i}]

(* SELECT ... WHERE buffer_id NOT IN (SELECT ... transmited ...)           *)
Untransmited(t) == {r.id : r \in {b \in t.buffers : b.id \notin t.transmited}}

(* SELECT transmited.buffer_id FROM transmited INNER JOIN buffers          *)
Transmited(t) == {r.id : r \in {b \in t.buffers : b.id \in t.transmited}}

(* Rows come out in the order of their primary key.                        *)
IsNextRow(i) == i \in todo /\ \A j \in todo : i <= j

-----------------------------------------------------------------------------
Init ==
    /\ conn = EmptyTables
    /\ disk = EmptyTables
    /\ inTx = FALSE
    /\ saver = "idle"
    /\ cur = <<>>
    /\ recon = "sleep"
    /\ todo = {}
    /\ row = 0
    /\ verb = "GET"
    /\ up \in BOOLEAN
    /\ posts = [m \in Request |-> 0]
    /\ crashes = 0
    /\ lost = 0

-----------------------------------------------------------------------------
(* The save thread.                                                        *)

(* Mutant: the cache is not looked at.                                     *)
SaveOneFileAgain(f) ==
    /\ saver = "idle"
    /\ ~MutexHeld
    /\ saver' = "post"
    /\ cur' = <<f, 1>>
    /\ UNCHANGED <<dbVars, reconVars, netVars>>

(* save_one_file: the file is looked for in the cache first.               *)
SaveOneFile(f) ==
    /\ saver = "idle"
    /\ ~MutexHeld
    /\ f \notin conn.files
    /\ saver' = "post"
    /\ cur' = <<f, 1>>
    /\ UNCHANGED <<dbVars, reconVars, netVars>>

(* Mutant: one request too many.                                           *)
NextRequestOffByOne ==
    IF cur[2] <= NbReq
    THEN saver' = "post" /\ cur' = <<cur[1], cur[2] + 1>>
    ELSE saver' = "file_begin" /\ UNCHANGED cur

(* The request has been posted or kept: the next one, or the cache.        *)
NextRequest ==
    IF cur[2] < NbReq
    THEN saver' = "post" /\ cur' = <<cur[1], cur[2] + 1>>
    ELSE saver' = "file_begin" /\ UNCHANGED cur

(* post_url succeeded.                                                     *)
PostOk ==
    /\ saver = "post"
    /\ up
    /\ posts' = [posts EXCEPT ![cur] = @ + 1]
    /\ NextRequest
    /\ UNCHANGED <<dbVars, reconVars, up, crashes, lost>>

(* Mutant: a failed post is not kept.                                      *)
PostFailsForgotten ==
    /\ saver = "post"
    /\ ~up
    /\ NextRequest
    /\ UNCHANGED <<dbVars, reconVars, netVars>>

(* post_url failed before the server processed the request, or after it    *)
(* did when only the answer was lost: the request is kept in both cases.   *)
PostFails ==
    /\ saver = "post"
    /\ \/ ~up /\ UNCHANGED <<posts, lost>>
       \/ /\ up /\ lost < MaxLost
          /\ posts' = [posts EXCEPT ![cur] = @ + 1]
          /\ lost' = lost + 1
    /\ saver' = "buffer_begin"
    /\ UNCHANGED <<dbVars, cur, reconVars, up, crashes>>

(* db_save_buffer                                                          *)
DbSaveBuffer ==
    /\ ~MutexHeld
    /\ \/ /\ saver = "buffer_begin"
          /\ Begin
          /\ saver' = "buffer_insert"
          /\ UNCHANGED cur
       \/ /\ saver = "buffer_insert"
          /\ Write(InsertBuffer(conn, cur))
          /\ saver' = "buffer_commit"
          /\ UNCHANGED cur
       \/ /\ saver = "buffer_commit"
          /\ Commit
          /\ NextRequest
    /\ UNCHANGED <<reconVars, netVars>>

(* db_save_meta_data, which ends process_small_file_not_in_cache and       *)
(* process_big_file_not_in_cache whatever the outcome of the posts.        *)
DbSaveMetaData ==
    /\ ~MutexHeld
    /\ \/ /\ saver = "file_begin"
          /\ Begin
          /\ saver' = "file_insert"
          /\ UNCHANGED cur
       \/ /\ saver = "file_insert"
          /\ Write(InsertFile(conn, cur[1]))
          /\ saver' = "file_commit"
          /\ UNCHANGED cur
       \/ /\ saver = "file_commit"
          /\ Commit
          /\ saver' = "idle"
          /\ cur' = <<>>
    /\ UNCHANGED <<reconVars, netVars>>

-----------------------------------------------------------------------------
(* The thread 'reconnected'.                                               *)

(* db_is_there_buffers_to_transmit                                         *)
IsThereBuffersToTransmit ==
    /\ recon = "sleep"
    /\ Untransmited(conn) # {}
    /\ recon' = "probe"
    /\ UNCHANGED <<dbVars, saverVars, todo, row, verb, netVars>>

(* is_server_alive: get_url leaves the method of the handle as the last    *)
(* post_url set it. Only a GET of /Version.json is answered a version.     *)
IsServerAlive ==
    /\ recon = "probe"
    /\ recon' = IF up /\ verb = "GET" THEN "transmit" ELSE "sleep"
    /\ UNCHANGED <<dbVars, saverVars, todo, row, verb, netVars>>

(* db_transmit_buffers: its first SELECT.                                  *)
TransmitBuffers ==
    /\ recon = "transmit"
    /\ recon' = "scan"
    /\ todo' = Untransmited(conn)
    /\ UNCHANGED <<dbVars, saverVars, row, verb, netVars>>

(* Mutant: a row whose post fails is tried again at once.                  *)
RetryAtOnce(i) == ~up /\ UNCHANGED <<todo, row, recon, posts, lost>>

(* transmit_callback when post_url fails: the row is left for a later pass *)
(* and this one goes on with the next row.                                 *)
RowNotPosted(i) ==
    /\ ~up
    /\ todo' = todo \ {i}
    /\ UNCHANGED <<row, recon, posts, lost>>

(* transmit_callback, up to the answer of post_url.                        *)
TransmitRow ==
    /\ recon = "scan"
    /\ \E r \in conn.buffers :
        /\ IsNextRow(r.id)
        /\ verb' = "POST"
        /\ \/ /\ up
              /\ todo' = todo \ {r.id}
              /\ posts' = [posts EXCEPT ![r.data] = @ + 1]
              /\ row' = r.id
              /\ recon' = "mark"
              /\ UNCHANGED lost
           \/ /\ up /\ lost < MaxLost
              /\ todo' = todo \ {r.id}
              /\ posts' = [posts EXCEPT ![r.data] = @ + 1]
              /\ lost' = lost + 1
              /\ UNCHANGED <<row, recon>>
           \/ RowNotPosted(r.id)
    /\ UNCHANGED <<dbVars, saverVars, up, crashes>>

(* transmit_callback, after a successful post.                             *)
MarkRow ==
    /\ recon = "mark"
    /\ Transaction(InsertTransmited(conn, row))
    /\ recon' = "scan"
    /\ row' = 0
    /\ UNCHANGED <<saverVars, todo, verb, netVars>>

EndOfScan ==
    /\ recon = "scan"
    /\ todo = {}
    /\ recon' = "scanned"
    /\ UNCHANGED <<dbVars, saverVars, todo, row, verb, netVars>>

(* Mutant: every row is swept.                                             *)
DeleteAllBuffers ==
    /\ recon = "scanned"
    /\ recon' = "sweep"
    /\ todo' = {r.id : r \in conn.buffers}
    /\ UNCHANGED <<dbVars, saverVars, row, verb, netVars>>

(* delete_transmited_buffers: its SELECT.                                  *)
DeleteTransmitedBuffers ==
    /\ recon = "scanned"
    /\ recon' = "sweep"
    /\ todo' = Transmited(conn)
    /\ UNCHANGED <<dbVars, saverVars, row, verb, netVars>>

(* delete_transmited_callback                                              *)
DeleteRow ==
    /\ recon = "sweep"
    /\ \E i \in todo :
        /\ IsNextRow(i)
        /\ todo' = todo \ {i}
        /\ Transaction(DeleteBuffer(conn, i))
    /\ UNCHANGED <<recon, saverVars, row, verb, netVars>>

EndOfSweep ==
    /\ recon = "sweep"
    /\ todo = {}
    /\ recon' = "sleep"
    /\ UNCHANGED <<dbVars, saverVars, todo, row, verb, netVars>>

-----------------------------------------------------------------------------
(* The environment.                                                        *)

ServerGoesDown == up  /\ up' = FALSE
ServerComesBack == ~up /\ up' = TRUE

Network ==
    /\ ServerGoesDown \/ ServerComesBack
    /\ UNCHANGED <<dbVars, saverVars, reconVars, posts, crashes, lost>>

(* The client is killed and started again: sqlite rolls the open           *)
(* transaction back, and the threads start over with new curl handles.     *)
CrashAndRestart ==
    /\ crashes < MaxCrashes
    /\ crashes' = crashes + 1
    /\ conn' = disk
    /\ inTx' = FALSE
    /\ saver' = "idle"
    /\ cur' = <<>>
    /\ recon' = "sleep"
    /\ todo' = {}
    /\ row' = 0
    /\ verb' = "GET"
    /\ UNCHANGED <<disk, up, posts, lost>>

-----------------------------------------------------------------------------
Saver ==
    \/ \E f \in File : SaveOneFile(f)
    \/ PostOk
    \/ PostFails
    \/ DbSaveBuffer
    \/ DbSaveMetaData

Reconnected ==
    \/ IsThereBuffersToTransmit
    \/ IsServerAlive
    \/ TransmitBuffers
    \/ TransmitRow
    \/ MarkRow
    \/ EndOfScan
    \/ DeleteTransmitedBuffers
    \/ DeleteRow
    \/ EndOfSweep

Next == Saver \/ Reconnected \/ Network \/ CrashAndRestart

Spec == Init /\ [][Next]_vars

(* The two threads are scheduled; the save thread gets the mutex while     *)
(* 'reconnected' sleeps CLIENT_RECONNECT_SLEEP_TIME between two passes.    *)
FairSpec == Spec /\ SF_vars(Saver) /\ WF_vars(Reconnected)

-----------------------------------------------------------------------------
TypeOK ==
    /\ conn \in Tables
    /\ disk \in Tables
    /\ inTx \in BOOLEAN
    /\ saver \in SaverPlace
    /\ cur \in Request \cup {<<>>}
    /\ recon \in ReconPlace
    /\ todo \in SUBSET Nat
    /\ row \in Nat
    /\ verb \in {"GET", "POST"}
    /\ up \in BOOLEAN
    /\ posts \in [Request -> Nat]
    /\ crashes \in 0 .. MaxCrashes
    /\ lost \in 0 .. MaxLost

(* A request is safe in the tables t when the server has processed it (p   *)
(* counts how often) or t still holds it.                                  *)
Safe(t, p, m) == p[m] > 0 \/ \E r \in t.buffers : r.data = m

(* A file that the cache says is saved (and that is_file_in_cache will     *)
(* therefore never send again) has each of its requests processed by the   *)
(* server or still in 'buffers', on disk: whatever crash, lost answer or   *)
(* commit by the other thread happened before.                             *)
NothingLost ==
    \A f \in disk.files : \A n \in 1 .. NbReq : Safe(disk, posts, <<f, n>>)

(* A row marked in 'transmited', which the sweep will delete, is a row the *)
(* server has processed. It needs ids never to be given twice, the table   *)
(* 'transmited' being never purged: this is what AUTOINCREMENT is for.     *)
MarkedWasPosted ==
    \A t \in {conn, disk} : \A r \in t.buffers :
        r.id \in t.transmited => posts[r.data] > 0

(* The server processes a request again only because of a lost answer or   *)
(* of a crash of the client. A lost answer costs one more post. A crash    *)
(* can cost two: one by the save thread, which starts the file over, and   *)
(* one by 'reconnected', which sends again a row it had no time to mark.   *)
RepostNeedsFault ==
    \A m \in Request : posts[m] <= 1 + lost + 2 * crashes

(* A row leaves the disk only once the server has processed it.            *)
OnlyPostedLeaves ==
    [][\A r \in disk.buffers \ disk'.buffers : posts[r.data] > 0]_vars

(* The save thread always comes back to its queue: the pass over the rows  *)
(* ends (and releases the connection) even when no row can be posted.      *)
SaveReturns == (saver # "idle") ~> (saver = "idle")

(* communique.c:441: is_server_alive "returns TRUE if the server is alive  *)
(* and has a correct version".                                             *)
AliveWhenUp ==
    [][(recon = "probe" /\ recon' # "probe" /\ up /\ crashes' = crashes)
            => recon' = "transmit"]_vars

-----------------------------------------------------------------------------
(* The inductive invariant behind NothingLost, MarkedWasPosted and         *)
(* OnlyPostedLeaves. It says of the tables, on disk and as the connection  *)
(* sees them: ids are unique and below the last one given, marked rows     *)
(* were posted, and the requests of a cached file are safe.                *)
TablesInv(t, p) ==
    /\ \A r \in t.buffers : r.id <= t.lastId
    /\ \A i \in t.transmited : i <= t.lastId
    /\ \A r, s \in t.buffers : r.id = s.id => r = s
    /\ \A r \in t.buffers : r.id \in t.transmited => p[r.data] > 0
    /\ \A f \in t.files : \A n \in 1 .. NbReq : Safe(t, p, <<f, n>>)

(* The requests of the current file that the save thread has already       *)
(* posted or kept.                                                         *)
Handled ==
    {m \in Request :
        /\ saver # "idle"
        /\ m[1] = cur[1]
        /\ m[2] < cur[2] \/ saver \in {"file_begin", "file_insert", "file_commit"}}

(* Without an open transaction the two views of the tables agree; what the *)
(* save thread has handled is safe in both; the row being marked was       *)
(* posted and the rows being swept are marked; a deletion is never pending *)
(* in an open transaction.                                                 *)
IInv ==
    /\ TypeOK
    /\ TablesInv(conn, posts)
    /\ TablesInv(disk, posts)
    /\ ~inTx => disk = conn
    /\ saver # "idle" => cur \in Request
    /\ \A m \in Handled : Safe(conn, posts, m) /\ Safe(disk, posts, m)
    /\ saver = "buffer_commit" => Safe(conn, posts, cur)
    /\ recon = "mark" =>
          /\ row <= conn.lastId
          /\ \A r \in conn.buffers : r.id = row => posts[r.data] > 0
    /\ recon = "sweep" => todo \subseteq conn.transmited
    /\ disk.buffers \subseteq conn.buffers
-----------------------------------------------------------------------------
(* The inductive invariant behind RepostNeedsFault. It counts, for each    *)
(* request, the posts that are still owed without any further fault.       *)

(* The save thread has not yet posted or kept m, and will unless its file  *)
(* is already in the cache.                                                *)
ToSave(m) ==
    /\ m[1] \notin conn.files
    /\ m \notin Handled
    /\ ~(saver = "buffer_commit" /\ m = cur)

(* The rows of m 'reconnected' has still to post: they are not marked, and *)
(* not about to be.                                                        *)
ToTransmit(m) ==
    {r \in conn.buffers :
        /\ r.data = m
        /\ r.id \notin conn.transmited
        /\ ~(recon = "mark" /\ r.id = row)}

Owed(m) == (IF ToSave(m) THEN 1 ELSE 0) + Cardinality(ToTransmit(m))

(* Marks are committed at once. The file the save thread works on enters   *)
(* the cache only at the end. A pass visits rows that are not marked, and  *)
(* each once. What was posted and what is owed stays within the faults: a  *)
(* crash makes owe at most one post of each thread again.                  *)
PostsInv ==
    /\ disk.transmited = conn.transmited
    /\ saver = "file_commit" => cur[1] \in conn.files
    /\ saver \notin {"idle", "file_commit"} => cur[1] \notin conn.files
    /\ recon \in {"scan", "mark"} => todo \cap conn.transmited = {}
    /\ recon = "mark" => row \notin todo \cup conn.transmited
    /\ IsFiniteSet(conn.buffers)
    /\ \A m \in Request : posts[m] + Owed(m) <= 1 + lost + 2 * crashes
=============================================================================
