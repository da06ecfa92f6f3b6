---------------------------- MODULE ObjectStore ----------------------------
(***************************************************************************)
(* The minio backend of the server (minio_backend.c), with what it uses of *)
(* minio_interface.c: blocks are objects of an S3 store. The data thread   *)
(* puts the lengths of a block in one bucket and its data in another; the  *)
(* threads of the connections ask the store which blocks it has, and get   *)
(* blocks from it.                                                         *)
(*                                                                         *)
(* minio_interface.c comes from a program with one thread. The status of   *)
(* the last call is in a global variable, statusG, which a callback sets   *)
(* and the caller reads, and all the calls share one count of retries,     *)
(* retriesG. The data of a block go through a C string, and through one    *)
(* stream for all the tries of a call. What becomes of a put is not known  *)
(* by its caller.                                                          *)
(*                                                                         *)
(* The store answers or can not be reached; a call that breaks off after   *)
(* it has reached the store is left out.                                   *)
(***************************************************************************)
EXTENDS Integers, SequencesExt

CONSTANTS
    Hash,       \* hashes of blocks
    Cut,        \* blocks with a zero byte after the first one
    Void,       \* blocks whose first byte is zero
    DataThread, \* the thread that stores blocks
    Thread,     \* the threads of the connections
    NoCall,     \* a thread that waits for something to do
    MaxPosts,   \* bound: blocks posted
    MaxAsks,    \* bound: lists of hashes and blocks asked for
    MaxOutages, \* bound: times the store can not be reached
    MaxStarts   \* bound: starts of the server

ASSUME ConstantsAssumption ==
    /\ IsFiniteSet(Hash) /\ Hash # {}
    /\ Cut \cup Void \subseteq Hash
    /\ Cut \cap Void = {}
    /\ DataThread \notin Thread
    /\ {MaxPosts, MaxAsks, MaxOutages, MaxStarts} \subseteq Nat

VARIABLES
    running,    \* the server runs
    ready,      \* whether the backend is initialized (user_data is not NULL),
                \* or waits for the store
    s3up,       \* the store can be reached
    buckets,    \* buckets of the store
    objects,    \* objects of the store: a bucket and a key
    statusG,    \* status of the last call of any thread
    retriesG,   \* retries left; -1 is any number below zero
    dataQueue,  \* blocks to be stored
    call,       \* what each thread has asked of the store
    bucketOf,   \* the buckets the data thread has chosen
    asked,      \* hashes a connection still has to look for
    stored,     \* history: blocks that the data thread has gone through
    flawed,     \* history: blocks a put of which failed or went elsewhere
    unneeded,   \* history: blocks that an answer has left out, and why
    given,      \* history: what has been given back
    posts, asks, outages, starts    \* history: bounded counts

storeVars   == <<s3up, buckets, objects>>
interfVars  == <<statusG, retriesG>>
historyVars == <<stored, flawed, unneeded, given>>
countVars   == <<posts, asks, outages, starts>>
vars == <<running, ready, storeVars, interfVars, dataQueue, call, bucketOf, asked,
          historyVars, countVars>>

AllThreads == Thread \cup {DataThread}
Bucket == {"data", "filemeta", "tmp-fallback"}

(* Objects of a block: one holds its lengths, one its data.                *)
Kind == {"filemeta", "data"}
GenerateFilemetaObjectkey(h) == <<h, "filemeta">>
DataKey(h) == <<h, "data">>
KeyOf(r) == IF r.kind = "data" THEN DataKey(r.hash) ELSE GenerateFilemetaObjectkey(r.hash)

-----------------------------------------------------------------------------
Init ==
    /\ running = FALSE
    /\ ready = "no"
    /\ s3up = TRUE
    /\ buckets = {}
    /\ objects = {}
    /\ statusG = "ok"
    /\ retriesG = 1
    /\ dataQueue = <<>>
    /\ call = [t \in AllThreads |-> NoCall]
    /\ bucketOf = [k \in Kind |-> k]
    /\ asked = [t \in Thread |-> <<>>]
    /\ stored = {}
    /\ flawed = {}
    /\ unneeded = {}
    /\ given = {}
    /\ posts = 0 /\ asks = 0 /\ outages = 0 /\ starts = 0

-----------------------------------------------------------------------------
(* Calls of the store.                                                     *)

Outage ==
    /\ s3up
    /\ outages < MaxOutages
    /\ outages' = outages + 1
    /\ s3up' = FALSE
    /\ UNCHANGED <<running, ready, buckets, objects, interfVars, dataQueue, call,
                   bucketOf, asked, historyVars, posts, asks, starts>>

Recovery ==
    /\ ~s3up
    /\ s3up' = TRUE
    /\ UNCHANGED <<running, ready, buckets, objects, interfVars, dataQueue, call,
                   bucketOf, asked, historyVars, countVars>>

(* A call about an object of this kind of hash h; whether the data of the  *)
(* object have gone through its stream, which all its tries share. Two     *)
(* fields are histories: the block was already stored when it was asked    *)
(* for, and the status of another call has made this one be tried again.   *)
Request(op, bucket, kind, h) ==
    [op |-> op, bucket |-> bucket, kind |-> kind, hash |-> h, status |-> "pending",
     passed |-> "no", sure |-> FALSE, confused |-> FALSE]

Calls(t, request) == call' = [call EXCEPT ![t] = request]

(* What the store may answer to request r when it is reached: "failed" is  *)
(* any error after which a call is tried again, "none" any other one. A    *)
(* put whose stream is consumed sends nothing, and fails.                  *)
Statuses(r) ==
    CASE r.op = "test"   -> {IF r.bucket \in buckets THEN "ok" ELSE "none"}
      [] r.op = "create" -> {IF r.bucket \in buckets THEN "exists" ELSE "ok"}
      [] r.op = "put"    -> IF r.passed # "no" THEN {"failed", "none"}
                            ELSE {IF r.bucket \in buckets THEN "ok" ELSE "none"}
      [] r.op \in {"head", "get"} ->
            {IF <<r.bucket, KeyOf(r)>> \in objects THEN "ok" ELSE "none"}

(* putObjectDataCallback, getObjectDataCallback: the data go through the   *)
(* stream. An error may come after those of a put were sent, or before.    *)
Passed(r, status) ==
    IF r.op \in {"put", "get"} /\ status = "ok"
    THEN {IF r.passed = "no" THEN "once" ELSE "again"}
    ELSE {r.passed} \cup {p \in {"once"} : r.op = "put" /\ s3up}

(* responseCompleteCallback: the status goes in statusG, whoever called.   *)
ResponseCompleteCallback(t, status, passed) ==
    /\ statusG' = status
    /\ call' = [call EXCEPT ![t].status = status, ![t].passed = passed]

(* The library does what t asks for.                                       *)
Perform(t) ==
    /\ call[t] # NoCall
    /\ call[t].status = "pending"
    /\ LET r == call[t]
       IN  \E status \in IF s3up THEN Statuses(r) ELSE {"failed"} :
           /\ \E p \in Passed(r, status) : ResponseCompleteCallback(t, status, p)
           /\ buckets' = IF r.op = "create" /\ status = "ok"
                         THEN buckets \cup {r.bucket} ELSE buckets
           /\ objects' = IF r.op = "put" /\ status = "ok"
                         THEN objects \cup {<<r.bucket, KeyOf(r)>>} ELSE objects
    /\ UNCHANGED <<running, ready, s3up, retriesG, dataQueue, bucketOf, asked,
                   historyVars, countVars>>

S3StatusIsRetryable == statusG = "failed"

(* should_retry: 'if (retriesG--)', which is true of any number but zero.  *)
ShouldRetry == retriesG # 0
CountRetry == retriesG' = IF retriesG = 1 THEN 0 ELSE -1

Answered(t) == call[t] # NoCall /\ call[t].status # "pending"

(* Nobody else has set statusG since the call of t was answered.           *)
OwnStatus(t) == statusG = call[t].status

(* The call is tried again, with the stream of the first time.             *)
Retry(t) ==
    /\ Answered(t)
    /\ S3StatusIsRetryable /\ ShouldRetry
    /\ CountRetry
    /\ Calls(t, [call[t] EXCEPT !.status = "pending", !.confused = @ \/ ~OwnStatus(t)])
    /\ UNCHANGED <<running, ready, storeVars, statusG, dataQueue, bucketOf, asked,
                   historyVars, countVars>>

(* The call of t returns, and its caller looks at statusG.                 *)
Returns(t, op) ==
    /\ Answered(t)
    /\ call[t].op = op
    /\ IF S3StatusIsRetryable
       THEN ~ShouldRetry /\ CountRetry
       ELSE UNCHANGED retriesG
    /\ UNCHANGED <<running, ready, storeVars, statusG>>

-----------------------------------------------------------------------------
(* Start and stop.                                                         *)

Halt ==
    /\ running' = FALSE
    /\ call' = [t \in AllThreads |-> NoCall]
    /\ dataQueue' = <<>>
    /\ asked' = [t \in Thread |-> <<>>]

(* initBuckets has tested or created the three buckets, or has not.        *)
InitBuckets(found, status) ==
    /\ running' = TRUE
    /\ ready' = IF found THEN "yes" ELSE "no"
    /\ buckets' = IF found THEN Bucket ELSE buckets
    /\ statusG' = status

(* minio_init_backend, before any thread starts. If the buckets are not    *)
(* there the server goes on without; if the store is not, and the buckets  *)
(* are to be created, should_retry is soon below zero.                     *)
InitBackend(addMissing) ==
    /\ ~running /\ ready # "waits"
    /\ starts < MaxStarts
    /\ starts' = starts + 1
    /\ \/ /\ s3up
          /\ retriesG' = 1
          /\ LET found == addMissing \/ buckets = Bucket
             IN  InitBuckets(found, IF found THEN "ok" ELSE "none")
       \/ /\ ~s3up
          /\ retriesG' = -1
          /\ IF addMissing
             THEN /\ ready' = "waits"
                  /\ statusG' = "failed"
                  /\ UNCHANGED <<running, buckets>>
             ELSE InitBuckets(FALSE, "failed")
    /\ UNCHANGED <<s3up, objects, dataQueue, call, bucketOf, asked, historyVars,
                   posts, asks, outages>>

(* The creation of the fallback bucket is answered at last: it is an error *)
(* if the bucket was there.                                                *)
CreateFallbackBucket ==
    /\ ready = "waits"
    /\ s3up
    /\ IF "tmp-fallback" \in buckets
       THEN InitBuckets(FALSE, "exists")
       ELSE InitBuckets(TRUE, "ok")
    /\ UNCHANGED <<s3up, objects, retriesG, dataQueue, call, bucketOf, asked,
                   historyVars, countVars>>

Crash ==
    /\ running \/ ready = "waits"
    /\ Halt
    /\ ready' = "no"
    /\ UNCHANGED <<storeVars, interfVars, bucketOf, historyVars, countVars>>

-----------------------------------------------------------------------------
(* minio_store_data, in the data thread.                                   *)

(* Mutant: the name of the object is pushed instead of the hash.           *)
PostKey(h) ==
    /\ running
    /\ posts < MaxPosts
    /\ posts' = posts + 1
    /\ dataQueue' = Append(dataQueue, DataKey(h))
    /\ UNCHANGED <<running, ready, storeVars, interfVars, call, bucketOf, asked,
                   historyVars, asks, outages, starts>>

(* A connection pushes a block in the queue of the data thread.            *)
PostData(h) ==
    /\ running
    /\ posts < MaxPosts
    /\ posts' = posts + 1
    /\ dataQueue' = Append(dataQueue, h)
    /\ UNCHANGED <<running, ready, storeVars, interfVars, call, bucketOf, asked,
                   historyVars, asks, outages, starts>>

(* What minio_init_backend has not made is used without a check.           *)
StoreData ==
    /\ running
    /\ call[DataThread] = NoCall
    /\ dataQueue # <<>>
    /\ IF ready = "yes"
       THEN /\ Calls(DataThread, Request("test", "data", "data", Head(dataQueue)))
            /\ dataQueue' = Tail(dataQueue)
            /\ UNCHANGED <<running, asked>>
       ELSE Halt
    /\ UNCHANGED <<ready, storeVars, interfVars, bucketOf, historyVars, countVars>>

(* Mutant: one variable for both buckets.                                  *)
ChooseOneBucket(r) ==
    /\ bucketOf' = [k \in Kind |-> r.bucket]
    /\ flawed' = IF r.bucket = "tmp-fallback" THEN flawed \cup {r.hash} ELSE flawed
    /\ Calls(DataThread, IF r.kind = "data"
                         THEN Request("test", "filemeta", "filemeta", r.hash)
                         ELSE Request("put", r.bucket, "filemeta", r.hash))

(* The data thread has a bucket for one kind of object: it looks for the   *)
(* other one, or puts the lengths.                                         *)
Choose(r) ==
    /\ bucketOf' = [bucketOf EXCEPT ![r.kind] = r.bucket]
    /\ flawed' = IF r.bucket = "tmp-fallback" THEN flawed \cup {r.hash} ELSE flawed
    /\ Calls(DataThread, IF r.kind = "data"
                         THEN Request("test", "filemeta", "filemeta", r.hash)
                         ELSE Request("put", r.bucket, "filemeta", r.hash))

(* s3_test_bucket, of a bucket that is created if it is missing.           *)
CheckBucketAccess ==
    /\ Returns(DataThread, "test")
    /\ LET r == call[DataThread]
       IN  IF statusG = "ok"
           THEN Choose(r)
           ELSE /\ Calls(DataThread, Request("create", r.bucket, r.kind, r.hash))
                /\ UNCHANGED <<bucketOf, flawed>>
    /\ UNCHANGED <<dataQueue, asked, stored, unneeded, given, countVars>>

(* create_bucket; then the fallback bucket is tried, then nothing.         *)
AddBucket ==
    /\ Returns(DataThread, "create")
    /\ LET r == call[DataThread]
       IN  IF statusG = "ok"
           THEN Choose(r) /\ UNCHANGED stored
           ELSE /\ UNCHANGED bucketOf
                /\ IF r.bucket # "tmp-fallback"
                   THEN /\ Calls(DataThread, Request("test", "tmp-fallback", r.kind, r.hash))
                        /\ UNCHANGED <<stored, flawed>>
                   ELSE /\ Calls(DataThread, NoCall)
                        /\ stored' = stored \cup {r.hash}
                        /\ flawed' = flawed \cup {r.hash}
    /\ UNCHANGED <<dataQueue, asked, unneeded, given, countVars>>

(* The result of a put is not looked at.                                   *)
PutIsOver(r) ==
    flawed' = IF r.status = "ok" THEN flawed ELSE flawed \cup {r.hash}

(* save_filemeta_to_bucket has ended, save_data_to_bucket begins. put_object*)
(* ends the program when there is nothing before the first zero byte.      *)
SaveFilemeta ==
    /\ Answered(DataThread) /\ call[DataThread].kind = "filemeta"
    /\ IF call[DataThread].hash \in Void
       THEN /\ call[DataThread].op = "put"
            /\ ~(S3StatusIsRetryable /\ ShouldRetry)
            /\ Halt
            /\ UNCHANGED <<ready, storeVars, interfVars>>
       ELSE /\ Returns(DataThread, "put")
            /\ Calls(DataThread, Request("put", bucketOf["data"], "data", call[DataThread].hash))
            /\ UNCHANGED <<dataQueue, asked>>
    /\ PutIsOver(call[DataThread])
    /\ UNCHANGED <<bucketOf, stored, unneeded, given, countVars>>

SaveData ==
    /\ Returns(DataThread, "put")
    /\ call[DataThread].kind = "data"
    /\ Calls(DataThread, NoCall)
    /\ PutIsOver(call[DataThread])
    /\ stored' = stored \cup {call[DataThread].hash}
    /\ UNCHANGED <<dataQueue, bucketOf, asked, unneeded, given, countVars>>

-----------------------------------------------------------------------------
(* minio_build_needed_hash_list, in the thread of a connection.            *)

Begins(t) ==
    /\ running
    /\ t \in Thread
    /\ call[t] = NoCall
    /\ asks < MaxAsks
    /\ asks' = asks + 1

(* The answer leaves the hashes of S out of the needed ones: it has found  *)
(* them, another call's status has misled it, or the bucket is not reached *)
(* and the answer is empty.                                                *)
LeavesOut(S, why) == unneeded' = unneeded \cup [hash : S, because : {why}]

(* Without a backend the answer is an empty list.                          *)
BuildNeededHashList(t, hs) ==
    /\ Begins(t)
    /\ IF ready = "yes"
       THEN /\ Calls(t, Request("test", "data", "data", Head(hs)))
            /\ asked' = [asked EXCEPT ![t] = hs]
            /\ UNCHANGED unneeded
       ELSE /\ LeavesOut(ToSet(hs), "unreached")
            /\ UNCHANGED <<call, asked>>
    /\ UNCHANGED <<running, ready, storeVars, interfVars, dataQueue, bucketOf,
                   stored, flawed, given, posts, outages, starts>>

(* Mutant: the lengths are looked for, which are put first.                *)
CheckDataBucketForLengths(t) ==
    /\ Returns(t, "test")
    /\ IF statusG = "ok"
       THEN /\ Calls(t, Request("head", "filemeta", "filemeta", Head(asked[t])))
            /\ UNCHANGED <<asked, unneeded>>
       ELSE /\ LeavesOut(ToSet(asked[t]), "unreached")
            /\ Calls(t, NoCall)
            /\ asked' = [asked EXCEPT ![t] = <<>>]
    /\ UNCHANGED <<dataQueue, bucketOf, stored, flawed, given, countVars>>

(* The list is empty when the data bucket is not reached, too.             *)
CheckDataBucket(t) ==
    /\ Returns(t, "test")
    /\ IF statusG = "ok"
       THEN /\ Calls(t, Request("head", "data", "data", Head(asked[t])))
            /\ UNCHANGED <<asked, unneeded>>
       ELSE /\ LeavesOut(ToSet(asked[t]), "unreached")
            /\ Calls(t, NoCall)
            /\ asked' = [asked EXCEPT ![t] = <<>>]
    /\ UNCHANGED <<dataQueue, bucketOf, stored, flawed, given, countVars>>

(* head_object says whether the block is needed; then the next one.        *)
CheckKeyExistInBucket(t) ==
    /\ Returns(t, "head")
    /\ LET h    == call[t].hash
           rest == Tail(asked[t])
       IN  /\ IF statusG = "ok"
              THEN LeavesOut({h}, IF OwnStatus(t) THEN "found" ELSE "misled")
              ELSE UNCHANGED unneeded
           /\ asked' = [asked EXCEPT ![t] = rest]
           /\ Calls(t, IF rest = <<>> THEN NoCall
                       ELSE Request("head", "data", "data", Head(rest)))
    /\ UNCHANGED <<dataQueue, bucketOf, stored, flawed, given, countVars>>

-----------------------------------------------------------------------------
(* minio_retrieve_data, in the thread of a connection. What get_object     *)
(* returns is what it has received, and never NULL.                        *)

RetrieveData(t, h) ==
    /\ Begins(t)
    /\ ready = "yes"
    /\ Calls(t, [Request("get", "filemeta", "filemeta", h)
                    EXCEPT !.sure = h \in stored \ flawed])
    /\ UNCHANGED <<running, ready, storeVars, interfVars, dataQueue, bucketOf,
                   asked, historyVars, posts, outages, starts>>

(* get_filemeta_values: no lengths, no block. Received twice over they are *)
(* the same lengths.                                                       *)
GetFilemetaValues(t) ==
    /\ Returns(t, "get")
    /\ call[t].kind = "filemeta"
    /\ Calls(t, IF call[t].passed # "no"
                THEN [Request("get", "data", "data", call[t].hash)
                        EXCEPT !.sure = call[t].sure]
                ELSE NoCall)
    /\ UNCHANGED <<dataQueue, bucketOf, asked, historyVars, countVars>>

(* The data of h that put_object has put.                                  *)
Image(h) == IF h \in Cut THEN "cut" ELSE "whole"

(* Mutant: get_object gives what it received only if statusG is still OK.  *)
ContentIfStatus(r) == IF statusG = "ok" THEN Image(r.hash) ELSE "empty"

(* What get_object has in its stream.                                      *)
Content(r) ==
    CASE r.passed = "no"    -> "empty"
      [] r.passed = "once"  -> Image(r.hash)
      [] r.passed = "again" -> "repeated"

(* The other fields are what excuses the value: see GivenIsContent.        *)
GetData(t) ==
    /\ Returns(t, "get")
    /\ call[t].kind = "data"
    /\ Calls(t, NoCall)
    /\ LET r == call[t]
       IN  given' = given \cup {[hash |-> r.hash, value |-> Content(r), sure |-> r.sure,
                                 lost |-> r.status = "failed", confused |-> r.confused]}
    /\ UNCHANGED <<dataQueue, bucketOf, asked, stored, flawed, unneeded, countVars>>

-----------------------------------------------------------------------------
DataThreadNext ==
    StoreData \/ CheckBucketAccess \/ AddBucket \/ SaveFilemeta \/ SaveData

ConnectionNext(t) ==
    \/ \E hs \in SetToSeqs(Hash) : BuildNeededHashList(t, hs)
    \/ \E h \in Hash : RetrieveData(t, h)
    \/ CheckDataBucket(t) \/ CheckKeyExistInBucket(t)
    \/ GetFilemetaValues(t) \/ GetData(t)

Next ==
    \/ DataThreadNext
    \/ \E t \in Thread : ConnectionNext(t)
    \/ \E t \in AllThreads : Perform(t) \/ Retry(t)
    \/ \E h \in Hash : PostData(h)
    \/ Outage \/ Recovery \/ CreateFallbackBucket \/ Crash
    \/ \E addMissing \in BOOLEAN : InitBackend(addMissing)

Spec == Init /\ [][Next]_vars

-----------------------------------------------------------------------------
RequestType ==
    [op : {"test", "create", "put", "head", "get"}, bucket : Bucket, kind : Kind,
     hash : Hash, status : {"pending", "ok", "none", "exists", "failed"},
     passed : {"no", "once", "again"}, sure : BOOLEAN, confused : BOOLEAN]

Given ==
    [hash : Hash, value : {"whole", "cut", "empty", "repeated"}, sure : BOOLEAN,
     lost : BOOLEAN, confused : BOOLEAN]

TypeOK ==
    /\ running \in BOOLEAN /\ s3up \in BOOLEAN
    /\ ready \in {"yes", "no", "waits"}
    /\ buckets \subseteq Bucket
    /\ objects \subseteq (Bucket \X (Hash \X Kind))
    /\ statusG \in {"ok", "none", "exists", "failed"}
    /\ retriesG \in {-1, 0, 1}
    /\ dataQueue \in Seq(Hash)
    /\ call \in [AllThreads -> RequestType \cup {NoCall}]
    /\ bucketOf \in [Kind -> Bucket]
    /\ asked \in [Thread -> Seq(Hash)]
    /\ stored \subseteq Hash /\ flawed \subseteq Hash
    /\ unneeded \subseteq [hash : Hash, because : {"found", "misled", "unreached"}]
    /\ given \subseteq Given
    /\ posts \in 0 .. MaxPosts /\ asks \in 0 .. MaxAsks
    /\ outages \in 0 .. MaxOutages /\ starts \in 0 .. MaxStarts

(* A block that an answer has found, and that the client thus does not     *)
(* send, can be given back: its data are in the bucket the answer is       *)
(* about, and its lengths, which no answer looks at, in theirs, for they   *)
(* were put first, whatever the outages and the crashes; unless a put      *)
(* failed or went to the fallback bucket. Nothing is promised of the       *)
(* blocks left out because of another call's status, nor of those of the   *)
(* empty list that is the answer when the bucket is not reached.           *)
UnneededIsStored ==
    \A u \in unneeded : u.because = "found" =>
        /\ <<"data", DataKey(u.hash)>> \in objects
        /\ \/ u.hash \in flawed
           \/ <<"filemeta", GenerateFilemetaObjectkey(u.hash)>> \in objects

(* A block that the data thread has gone through without a failed put and  *)
(* without the fallback bucket is in the buckets it is asked from: although*)
(* the threads share statusG, no other call's status leads it elsewhere.   *)
StoredIsInBuckets ==
    \A h \in stored \ flawed :
        /\ <<"data", DataKey(h)>> \in objects
        /\ <<"filemeta", GenerateFilemetaObjectkey(h)>> \in objects

(* A block that was stored when it was asked for is given back as it was   *)
(* put, although an object that is not found is taken for an empty one.    *)
(* There are two other answers: nothing if the store is lost between its   *)
(* lengths and its data, and the data several times over if the status of  *)
(* another call made this one be tried again.                              *)
GivenIsContent ==
    \A g \in given : g.sure =>
        \/ g.value = Image(g.hash)
        \/ g.value = "empty" /\ g.lost
        \/ g.value = "repeated" /\ g.confused
=============================================================================
