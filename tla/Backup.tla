------------------------------- MODULE Backup -------------------------------
(***************************************************************************)
(* A client and the server together: the save thread and the thread        *)
(* 'reconnected' of the client (SaveFile) post requests on connections of  *)
(* the server (Ingest). A post lasts while the server works; it fails when *)
(* the server is not reached, when it stops, or when its answer is lost,   *)
(* in which case the server goes on with a request nobody waits for.       *)
(*                                                                         *)
(* What the server vouches for is one variable of both modules: Ingest     *)
(* says what it is worth, SaveFile relies on it.                           *)
(***************************************************************************)
EXTENDS Integers, SequencesExt

CONSTANTS
    File, Hash, Content, Small, NoFile, BufferLen,   \* see SaveFile
    Conn, NoBlock, MaxArray,                         \* see Ingest
    Compression,       \* cmptype of the client's configuration
    NoConn,            \* no post is under way
    Broken,            \* the connection of the post was cut
    MaxClientCrashes,  \* bound: crashes of the client
    MaxCrashes,        \* bound: stops of the server
    MaxFaults,         \* bound: failed writes of the server
    MaxLost,           \* bound: posts that fail though the server runs
    MaxRequests        \* bound: requests received by the server

VARIABLES
    place, file, unread, eof, hdl, savedList, needed, array, kept, cached,
    lists, flawed, clientCrashes,
    conn, metaQ, dataQ, storer, block, lines, partial, data, dotmeta, harmed,
    crashes, faults, requests,
    vouched,
    saving,     \* connection of the save thread's post
    resending,  \* connection of the post of 'reconnected'
    row,        \* what 'reconnected' posts
    todo,       \* rows its pass has still to visit
    verb,       \* method its curl handle will use next
    lost        \* history: posts that failed though the server was running

C == INSTANCE SaveFile WITH crashes <- clientCrashes, MaxCrashes <- MaxClientCrashes
S == INSTANCE Ingest WITH Meta <- File

threadVars == <<place, file, unread, eof, hdl, savedList, needed, array>>
clientVars == <<threadVars, kept, cached, lists, flawed, clientCrashes>>
serverVars == <<conn, metaQ, dataQ, storer, block, lines, partial, data, dotmeta,
                harmed, crashes, faults, requests>>
postVars   == <<saving, resending, row, todo, verb, lost>>
vars       == <<clientVars, serverVars, vouched, postVars>>

ASSUME ConstantsAssumption ==
    /\ C!ConstantsAssumption
    /\ S!ConstantsAssumption
    /\ Compression \in S!CmpType
    /\ NoConn \notin Conn
    /\ Broken \notin Conn \cup {NoConn}
    /\ MaxLost \in Nat

(* The bound of Ingest on the length of an array is no bound here: what a  *)
(* buffer or a small file holds is shorter.                                *)
ASSUME ArraysFit ==
    /\ BufferLen <= MaxArray
    /\ \A f \in Small : Len(Content[f]) <= MaxArray

Init ==
    /\ C!Init
    /\ S!Init
    /\ saving = NoConn
    /\ resending = NoConn
    /\ row = {}
    /\ todo = {}
    /\ verb = "GET"
    /\ lost = 0

-----------------------------------------------------------------------------
(* The save thread, by itself.                                             *)
SaveThread ==
    /\ \/ \E f \in File : C!ProcessSmallFile(f) \/ C!ProcessBigFile(f)
       \/ C!ReadBlock \/ C!EndOfFile \/ C!FinishBigFile \/ C!ReadError
       \/ C!PickBlock \/ C!SendRest
       \/ C!DbSaveMetaData
    /\ UNCHANGED <<serverVars, postVars>>

(* new_hash_data_t: a block is compressed as soon as it is read.           *)
NewHashData(h) == [hash |-> h, cmp |-> Compression]

(* A request that is posted: post_url is called in three places.           *)
Blocks(hs) == [i \in DOMAIN hs |-> NewHashData(hs[i])]

MetaPost(f) == S!MetaRequest(f, IF f \in Small THEN lists[f] ELSE <<>>)

SaveRequest ==
    CASE place = "meta"  -> MetaPost(file)
      [] place = "hashs" -> S!HashArrayRequest(hdl)
      [] place = "data"  -> S!DataArrayRequest(Blocks(array))

Posting == place \in {"meta", "hashs", "data"}

PostUrl ==
    /\ Posting
    /\ saving = NoConn
    /\ \E c \in Conn : S!Receive(c, SaveRequest) /\ saving' = c
    /\ UNCHANGED <<clientVars, resending, row, todo, verb, lost>>

(* The answer comes back.                                                  *)
PostOk ==
    /\ saving \in Conn
    /\ S!CreateResponse(saving)
    /\ \/ C!MetaPosted /\ (file \in Small => needed' = conn[saving].needed)
       \/ C!HashArrayPosted /\ needed' = conn[saving].needed
       \/ C!DataArrayPosted
    /\ saving' = NoConn
    /\ UNCHANGED <<resending, row, todo, verb, lost>>

(* A post under way is cut by a stop of the server; any post may fail by a *)
(* fault of the network.                                                   *)
Fails(c) ==
    IF c = Broken THEN UNCHANGED lost ELSE lost < MaxLost /\ lost' = lost + 1

(* Mutant: blocks that could not be posted are not kept.                   *)
PostFailsDataDropped ==
    /\ Posting
    /\ Fails(saving)
    /\ saving' = NoConn
    /\ \/ C!MetaKept \/ C!HashArrayNotPosted
       \/ /\ place = "data"
          /\ place' = "pick"
          /\ array' = <<>>
          /\ UNCHANGED <<file, unread, eof, hdl, savedList, needed, kept, cached,
                         vouched, lists, flawed, clientCrashes>>
    /\ UNCHANGED <<serverVars, resending, row, todo, verb>>

(* Mutant: the server drops a request whose client is gone.                *)
PostFailsCancelled ==
    /\ Posting
    /\ Fails(saving)
    /\ saving' = NoConn
    /\ C!MetaKept \/ C!HashArrayNotPosted \/ C!DataArrayKept
    /\ conn' = IF saving \in Conn THEN [conn EXCEPT ![saving] = S!Idle] ELSE conn
    /\ UNCHANGED <<metaQ, dataQ, storer, block, lines, partial, data, dotmeta, harmed,
                   crashes, faults, requests, resending, row, todo, verb>>

PostFails ==
    /\ Posting
    /\ Fails(saving)
    /\ saving' = NoConn
    /\ C!MetaKept \/ C!HashArrayNotPosted \/ C!DataArrayKept
    /\ UNCHANGED <<serverVars, resending, row, todo, verb>>

-----------------------------------------------------------------------------
(* The thread 'reconnected'.                                               *)

RowRequest(post) ==
    IF post \subseteq Hash
    THEN S!DataArrayRequest(Blocks(SetToSeq(post)))
    ELSE MetaPost(CHOOSE f \in post : TRUE)

(* A pass begins when is_server_alive, which it says only as long as the   *)
(* handle has not been used to post (module Outbox).                       *)
BeginPass ==
    /\ resending = NoConn
    /\ todo = {}
    /\ kept # {}
    /\ verb = "GET"
    /\ todo' = kept
    /\ UNCHANGED <<clientVars, serverVars, vouched, saving, resending, row, verb, lost>>

PostRow ==
    /\ resending = NoConn
    /\ \E post \in todo, c \in Conn :
        /\ S!Receive(c, RowRequest(post))
        /\ resending' = c
        /\ row' = post
        /\ todo' = todo \ {post}
    /\ verb' = "POST"
    /\ UNCHANGED <<clientVars, saving, lost>>

RowOk ==
    /\ resending \in Conn
    /\ S!CreateResponse(resending)
    /\ C!Transmit(row)
    /\ resending' = NoConn
    /\ row' = {}
    /\ UNCHANGED <<saving, todo, verb, lost>>

RowFails ==
    /\ resending # NoConn
    /\ Fails(resending)
    /\ resending' = NoConn
    /\ row' = {}
    /\ UNCHANGED <<clientVars, serverVars, vouched, saving, todo, verb>>

-----------------------------------------------------------------------------
(* The server.                                                             *)
Server ==
    /\ \/ \E c \in Conn : S!Handler(c)
       \/ \E c \in Conn \ {saving, resending} : S!CreateResponse(c)
       \/ S!StoreSmeta
       \/ S!DataThread
    /\ UNCHANGED <<clientVars, postVars>>

Cut(c) == IF c \in Conn THEN Broken ELSE c

ServerRestart ==
    /\ S!Restart
    /\ saving' = Cut(saving)
    /\ resending' = Cut(resending)
    /\ UNCHANGED <<clientVars, row, todo, verb, lost>>

ClientRestart ==
    /\ C!CrashAndRestart
    /\ saving' = NoConn
    /\ resending' = NoConn
    /\ row' = {}
    /\ todo' = {}
    /\ verb' = "GET"
    /\ UNCHANGED <<serverVars, lost>>

Next ==
    \/ SaveThread \/ PostUrl \/ PostOk \/ PostFails
    \/ BeginPass \/ PostRow \/ RowOk \/ RowFails
    \/ Server
    \/ ServerRestart
    \/ ClientRestart

Spec == Init /\ [][Next]_vars

(* Every thread is scheduled.                                              *)
FairSpec ==
    /\ Spec
    /\ WF_vars(SaveThread \/ PostUrl \/ PostOk \/ (saving = Broken /\ PostFails))
    /\ WF_vars(BeginPass \/ PostRow \/ RowOk \/ (resending = Broken /\ RowFails))
    /\ \A c \in Conn : WF_vars(S!Handler(c) /\ UNCHANGED <<clientVars, postVars>>)
    /\ WF_vars(\E c \in Conn \ {saving, resending} :
                   S!CreateResponse(c) /\ UNCHANGED <<clientVars, postVars>>)
    /\ WF_vars(S!StoreSmeta /\ UNCHANGED <<clientVars, postVars>>)
    /\ WF_vars(S!DataThread /\ UNCHANGED <<clientVars, postVars>>)

-----------------------------------------------------------------------------
(* What an answer is worth to the thread that waits for it, whatever the   *)
(* other connections, the store threads and a restart did meanwhile.       *)
AnswerIsWorth ==
    /\ saving \in Conn /\ S!Answered(saving) =>
          CASE place = "meta" ->
                 /\ file \in vouched
                 /\ file \in Small => conn[saving].needed \in C!Answers(hdl)
            [] place = "hashs" -> conn[saving].needed \in C!Answers(hdl)
            [] place = "data" -> ToSet(array) \subseteq vouched
    /\ resending \in Conn /\ S!Answered(resending) => row \subseteq vouched

Items(f) == {f} \cup ToSet(Content[f])

(* A file that the client will not save again is on the server, in memory  *)
(* or stored, or kept by the client: each of its blocks and its meta data; *)
(* except for what a stop of the server or a failed write took.            *)
CachedIsHeld ==
    \A f \in cached \ flawed : \A x \in Items(f) :
        S!Held(x) \/ x \in harmed \/ x \in UNION kept

(* It can be restored: the server lists it and gives back its blocks.      *)
Restorable(f) ==
    f \in lines /\ \A h \in ToSet(Content[f]) : S!Readable(h)

(* A file the cache says is saved can be restored in the end; except when  *)
(* something of it was harmed, or is kept since the only pass over the     *)
(* rows that 'reconnected' makes (the finding of module Outbox).           *)
CachedIsRestorable ==
    \A f \in File :
        (f \in cached \ flawed) ~>
            \/ Restorable(f)
            \/ f \in flawed
            \/ Items(f) \cap harmed # {}
            \/ verb = "POST" /\ Items(f) \cap UNION kept # {}

(* The client and the server are what their modules say.                   *)
ClientSpec == C!Spec
ServerSpec == S!Spec
=============================================================================
