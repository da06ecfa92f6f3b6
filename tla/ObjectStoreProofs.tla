-------------------------- MODULE ObjectStoreProofs --------------------------
(***************************************************************************)
(* ObjectStore for any blocks, threads, outages and starts: what an answer *)
(* has found is stored, what was stored is where it is looked for, and what*)
(* was stored is given back, or the exceptions that the properties name.   *)
(***************************************************************************)
EXTENDS ObjectStore, FiniteSetTheorems, TLAPS

(* The objects of a block are where the server looks for them.             *)
Lengths(h, objs) == <<"filemeta", GenerateFilemetaObjectkey(h)>> \in objs
Data(h, objs)    == <<"data", DataKey(h)>> \in objs

(* What is known of a call, by its thread: the bucket it is about, what    *)
(* its answer means, what its stream holds, and for the data thread what   *)
(* was done before.                                                        *)
ConnectionCallOK(r, objs) ==
    /\ r.op \in {"test", "head", "get"}
    /\ r.bucket = r.kind
    /\ r.op = "head" => r.kind = "data"
    /\ r.op = "head" /\ r.status = "ok" => Data(r.hash, objs)
    /\ r.op = "get" /\ r.sure =>
         /\ Lengths(r.hash, objs) /\ Data(r.hash, objs)
         /\ r.status \in {"pending", "ok", "failed"}
    /\ r.op = "get" =>
         /\ r.status = "ok" => r.passed # "no"
         /\ r.status # "ok" /\ r.passed # "no" => r.confused
         /\ r.passed = "again" => r.confused

DataThreadCallOK(r, objs, bad, chosen) ==
    /\ r.op \in {"test", "create", "put"}
    /\ r.kind = "filemeta" => chosen = "data" \/ r.hash \in bad
    /\ r.op # "put" => r.bucket \in {r.kind, "tmp-fallback"}
    /\ r.op = "put" =>
         /\ r.bucket = r.kind \/ r.hash \in bad
         /\ r.status = "ok" => <<r.bucket, KeyOf(r)>> \in objs
         /\ r.kind = "data" => Lengths(r.hash, objs) \/ r.hash \in bad

ConnectionsInv ==
    \A t \in Thread : call[t] # NoCall => ConnectionCallOK(call[t], objects)

DataThreadInv ==
    call[DataThread] # NoCall =>
        DataThreadCallOK(call[DataThread], objects, flawed, bucketOf["data"])

(* A connection that looks for hashes still has some.                      *)
AskedInv ==
    \A t \in Thread : call[t] # NoCall /\ call[t].op \in {"test", "head"}
                        => asked[t] # <<>>

(* The lengths of a block are put before its data.                         *)
LengthsFirst == \A h \in Hash : Data(h, objects) => Lengths(h, objects) \/ h \in flawed

IInv ==
    /\ TypeOK
    /\ ConnectionsInv
    /\ DataThreadInv
    /\ AskedInv
    /\ LengthsFirst
    /\ UnneededIsStored
    /\ StoredIsInBuckets
    /\ GivenIsContent

-----------------------------------------------------------------------------
(* Calls.                                                                  *)

LEMMA RequestIsRequest ==
  ASSUME NEW op \in {"test", "create", "put", "head", "get"}, NEW b \in Bucket,
         NEW k \in Kind, NEW h \in Hash
  PROVE  Request(op, b, k, h) \in RequestType
  BY DEF Request, RequestType

LEMMA CallStep ==
  ASSUME TypeOK, NEW t \in AllThreads, NEW r \in RequestType \cup {NoCall}, Calls(t, r)
  PROVE  /\ call' \in [AllThreads -> RequestType \cup {NoCall}]
         /\ call'[t] = r
         /\ \A u \in AllThreads : u # t => call'[u] = call[u]
  BY DEF TypeOK, Calls

LEMMA CallType ==
  ASSUME TypeOK, NEW t \in AllThreads, call[t] # NoCall
  PROVE  /\ call[t] \in RequestType
         /\ call[t].op \in {"test", "create", "put", "head", "get"}
         /\ call[t].bucket \in Bucket /\ call[t].kind \in Kind /\ call[t].hash \in Hash
         /\ call[t].status \in {"pending", "ok", "none", "exists", "failed"}
         /\ call[t].passed \in {"no", "once", "again"}
         /\ call[t].sure \in BOOLEAN /\ call[t].confused \in BOOLEAN
<1>1. call[t] \in RequestType
  BY DEF TypeOK
<1> QED BY <1>1 DEF RequestType

LEMMA Threads ==
  /\ DataThread \in AllThreads /\ DataThread \notin Thread
  /\ \A t \in Thread : t \in AllThreads /\ t # DataThread
  /\ \A t \in AllThreads : t \in Thread \/ t = DataThread
  BY ConstantsAssumption DEF AllThreads

LEMMA KindsAreBuckets == Kind \subseteq Bucket
  BY DEF Kind, Bucket

(* Objects and flaws stay: what is known of a call stays true.             *)
LEMMA CallStaysOK ==
  ASSUME NEW r, NEW objs, NEW objs2, objs \subseteq objs2,
         NEW bad, NEW bad2, bad \subseteq bad2, NEW chosen
  PROVE  /\ ConnectionCallOK(r, objs) => ConnectionCallOK(r, objs2)
         /\ DataThreadCallOK(r, objs, bad, chosen)
              => DataThreadCallOK(r, objs2, bad2, chosen)
<1>1. ConnectionCallOK(r, objs) => ConnectionCallOK(r, objs2)
  BY DEF ConnectionCallOK, Lengths, Data
<1>2. DataThreadCallOK(r, objs, bad, chosen) => DataThreadCallOK(r, objs2, bad2, chosen)
  BY DEF DataThreadCallOK, Lengths
<1> QED BY <1>1, <1>2

(* A call of a connection: those of the other threads are left alone.      *)
LEMMA ConnectionCalls ==
  ASSUME IInv, NEW t \in Thread, NEW r \in RequestType \cup {NoCall}, Calls(t, r),
         objects' = objects, flawed' = flawed, bucketOf' = bucketOf,
         r # NoCall => ConnectionCallOK(r, objects)
  PROVE  ConnectionsInv' /\ DataThreadInv'
<1>1. /\ call'[t] = r
      /\ \A u \in AllThreads : u # t => call'[u] = call[u]
  BY CallStep, Threads DEF IInv
<1>2. ConnectionsInv'
  <2>1. ASSUME NEW u \in Thread, call'[u] # NoCall
        PROVE  ConnectionCallOK(call'[u], objects')
    <3>1. CASE u = t
      BY <1>1, <2>1, <3>1
    <3>2. CASE u # t
      BY <1>1, <2>1, <3>2, Threads DEF IInv, ConnectionsInv
    <3> QED BY <3>1, <3>2
  <2> QED BY <2>1 DEF ConnectionsInv
<1>3. DataThreadInv'
  BY <1>1, Threads DEF IInv, DataThreadInv
<1> QED BY <1>2, <1>3

(* A call of the data thread, which may choose a bucket or meet a flaw.    *)
LEMMA DataThreadCalls ==
  ASSUME IInv, NEW r \in RequestType \cup {NoCall}, Calls(DataThread, r),
         objects' = objects,
         r # NoCall => DataThreadCallOK(r, objects, flawed', bucketOf'["data"])
  PROVE  ConnectionsInv' /\ DataThreadInv'
<1>1. /\ call'[DataThread] = r
      /\ \A u \in AllThreads : u # DataThread => call'[u] = call[u]
  BY CallStep, Threads DEF IInv
<1>2. ConnectionsInv'
  BY <1>1, Threads DEF IInv, ConnectionsInv
<1>3. DataThreadInv'
  BY <1>1 DEF DataThreadInv
<1> QED BY <1>2, <1>3

(* Every thread waits.                                                     *)
LEMMA NoCalls ==
  ASSUME call' = [t \in AllThreads |-> NoCall]
  PROVE  ConnectionsInv' /\ DataThreadInv'
  BY Threads DEF ConnectionsInv, DataThreadInv

(* What the invariant says of the blocks, when no object goes and the      *)
(* histories do not grow beyond it.                                        *)
LEMMA BlocksStay ==
  ASSUME IInv, objects \subseteq objects', flawed \subseteq flawed',
         stored' = stored, given' = given,
         \A u \in unneeded' : u.because = "found" => u \in unneeded,
         \A h \in Hash : Data(h, objects') => Data(h, objects)
                           \/ Lengths(h, objects') \/ h \in flawed'
  PROVE  LengthsFirst' /\ UnneededIsStored' /\ StoredIsInBuckets' /\ GivenIsContent'
<1>1. LengthsFirst'
  BY DEF IInv, LengthsFirst, Lengths, Data
<1>2. UnneededIsStored'
  BY DEF IInv, UnneededIsStored
<1>3. StoredIsInBuckets'
  BY DEF IInv, StoredIsInBuckets
<1>4. GivenIsContent'
  BY DEF IInv, GivenIsContent
<1> QED BY <1>1, <1>2, <1>3, <1>4

(* A step that does none of this.                                          *)
LEMMA QuietStep ==
  ASSUME IInv, UNCHANGED <<objects, call, bucketOf, asked, historyVars>>
  PROVE  /\ ConnectionsInv' /\ DataThreadInv' /\ AskedInv'
         /\ LengthsFirst' /\ UnneededIsStored' /\ StoredIsInBuckets' /\ GivenIsContent'
<1>1. ConnectionsInv' /\ DataThreadInv' /\ AskedInv'
  BY DEF IInv, ConnectionsInv, DataThreadInv, AskedInv, historyVars
<1>2. LengthsFirst' /\ UnneededIsStored' /\ StoredIsInBuckets' /\ GivenIsContent'
  BY BlocksStay DEF historyVars
<1> QED BY <1>1, <1>2

-----------------------------------------------------------------------------
(* One step per action.                                                    *)

LEMMA StoreComesAndGoes ==
  ASSUME IInv, Outage \/ Recovery
  PROVE  IInv'
<1>1. UNCHANGED <<objects, call, bucketOf, asked, historyVars>>
  BY DEF Outage, Recovery
<1>2. TypeOK'
  <2>1. CASE Outage
    <3>1. outages' \in 0 .. MaxOutages
      BY <2>1, ConstantsAssumption DEF IInv, TypeOK, Outage
    <3>2. s3up' \in BOOLEAN
      BY <2>1 DEF Outage
    <3> QED BY <2>1, <3>1, <3>2 DEF IInv, TypeOK, Outage, interfVars, historyVars
  <2>2. CASE Recovery
    BY <2>2 DEF IInv, TypeOK, Recovery, interfVars, historyVars, countVars
  <2> QED BY <2>1, <2>2
<1> QED BY <1>1, <1>2, QuietStep DEF IInv

LEMMA InitBackendInv ==
  ASSUME IInv, NEW addMissing \in BOOLEAN, InitBackend(addMissing)
  PROVE  IInv'
<1>1. UNCHANGED <<objects, call, bucketOf, asked, historyVars>>
  BY DEF InitBackend
<1>2. TypeOK'
  <2>1. /\ running' \in BOOLEAN /\ ready' \in {"yes", "no", "waits"}
        /\ buckets' \subseteq Bucket /\ retriesG' \in {-1, 0, 1}
        /\ statusG' \in {"ok", "none", "exists", "failed"}
    BY DEF IInv, TypeOK, InitBackend, InitBuckets
  <2>2. starts' \in 0 .. MaxStarts
    BY ConstantsAssumption DEF IInv, TypeOK, InitBackend
  <2> QED BY <2>1, <2>2 DEF IInv, TypeOK, InitBackend, historyVars
<1> QED BY <1>1, <1>2, QuietStep DEF IInv

LEMMA CreateFallbackBucketInv ==
  ASSUME IInv, CreateFallbackBucket
  PROVE  IInv'
<1>1. UNCHANGED <<objects, call, bucketOf, asked, historyVars>>
  BY DEF CreateFallbackBucket
<1>2. TypeOK'
  BY DEF IInv, TypeOK, CreateFallbackBucket, InitBuckets, historyVars, countVars
<1> QED BY <1>1, <1>2, QuietStep DEF IInv

LEMMA PostDataInv ==
  ASSUME IInv, NEW h \in Hash, PostData(h)
  PROVE  IInv'
<1>1. UNCHANGED <<objects, call, bucketOf, asked, historyVars>>
  BY DEF PostData, storeVars
<1>2. TypeOK'
  BY ConstantsAssumption DEF IInv, TypeOK, PostData, storeVars, interfVars, historyVars
<1> QED BY <1>1, <1>2, QuietStep DEF IInv

(* The server ends: no block is touched.                                   *)
LEMMA HaltInv ==
  ASSUME IInv, Halt, UNCHANGED <<objects, historyVars>>
  PROVE  /\ ConnectionsInv' /\ DataThreadInv' /\ AskedInv'
         /\ LengthsFirst' /\ UnneededIsStored' /\ StoredIsInBuckets' /\ GivenIsContent'
<1>1. ConnectionsInv' /\ DataThreadInv' /\ AskedInv'
  BY NoCalls, Threads DEF Halt, AskedInv
<1>2. LengthsFirst' /\ UnneededIsStored' /\ StoredIsInBuckets' /\ GivenIsContent'
  BY BlocksStay DEF historyVars
<1> QED BY <1>1, <1>2

LEMMA HaltType ==
  ASSUME IInv, Halt
  PROVE  /\ running' \in BOOLEAN /\ dataQueue' \in Seq(Hash)
         /\ call' \in [AllThreads -> RequestType \cup {NoCall}]
         /\ asked' \in [Thread -> Seq(Hash)]
<1>1. <<>> \in Seq(Hash)
  OBVIOUS
<1> QED BY <1>1 DEF Halt

LEMMA CrashInv ==
  ASSUME IInv, Crash
  PROVE  IInv'
<1>1. TypeOK'
  BY HaltType DEF IInv, TypeOK, Crash, storeVars, interfVars, historyVars, countVars
<1> QED BY <1>1, HaltInv DEF Crash, IInv, storeVars

(* A call of a connection is answered: no object changes.                  *)
LEMMA PerformConnectionOK ==
  ASSUME TypeOK, NEW r \in RequestType, ConnectionCallOK(r, objects),
         r.status = "pending", NEW s \in {"ok", "none", "exists", "failed"},
         s \in Statuses(r) \cup {"failed"}, NEW p \in Passed(r, s)
  PROVE  ConnectionCallOK([r EXCEPT !.status = s, !.passed = p], objects)
<1> DEFINE q == [r EXCEPT !.status = s, !.passed = p]
<1>1. /\ q.op = r.op /\ q.bucket = r.bucket /\ q.kind = r.kind /\ q.hash = r.hash
      /\ q.sure = r.sure /\ q.confused = r.confused /\ q.status = s /\ q.passed = p
  BY DEF RequestType
<1> HIDE DEF q
<1>2. q.op = "head" /\ s = "ok" => Data(r.hash, objects)
  BY <1>1 DEF ConnectionCallOK, Statuses, KeyOf, Data
<1>3. q.op = "get" /\ q.sure => s \in {"ok", "failed"}
  BY <1>1 DEF ConnectionCallOK, Statuses, KeyOf, Data, Lengths, RequestType, Kind
<1>4. ASSUME q.op = "get"
      PROVE  /\ s = "ok" => p # "no"
             /\ s # "ok" /\ p # "no" => q.confused
             /\ p = "again" => q.confused
  <2>1. r.op = "get" /\ (r.passed # "no" => r.confused)
    BY <1>1, <1>4 DEF ConnectionCallOK
  <2>2. CASE s = "ok"
    <3>1. p = IF r.passed = "no" THEN "once" ELSE "again"
      BY <2>1, <2>2 DEF Passed
    <3> QED BY <1>1, <2>1, <2>2, <3>1
  <2>3. CASE s # "ok"
    <3>1. p = r.passed
      BY <2>1, <2>3 DEF Passed
    <3> QED BY <1>1, <2>1, <2>3, <3>1
  <2> QED BY <2>2, <2>3
<1>5. ConnectionCallOK(q, objects)
  BY <1>1, <1>2, <1>3, <1>4 DEF ConnectionCallOK
<1> QED BY <1>5 DEF q

LEMMA PerformInv ==
  ASSUME IInv, NEW t \in AllThreads, Perform(t)
  PROVE  IInv'
<1> DEFINE r == call[t]
<1>1. /\ r \in RequestType /\ r.status = "pending"
      /\ r.op \in {"test", "create", "put", "head", "get"}
      /\ r.bucket \in Bucket /\ r.kind \in Kind /\ r.hash \in Hash
      /\ r.passed \in {"no", "once", "again"}
  BY CallType DEF IInv, Perform
<1>b. PICK s \in IF s3up THEN Statuses(r) ELSE {"failed"} :
        /\ \E p \in Passed(r, s) : ResponseCompleteCallback(t, s, p)
        /\ buckets' = IF r.op = "create" /\ s = "ok" THEN buckets \cup {r.bucket} ELSE buckets
        /\ objects' = IF r.op = "put" /\ s = "ok"
                      THEN objects \cup {<<r.bucket, KeyOf(r)>>} ELSE objects
  BY DEF Perform
<1>a. PICK p \in Passed(r, s) : ResponseCompleteCallback(t, s, p)
  BY <1>b
<1> DEFINE q == [r EXCEPT !.status = s, !.passed = p]
<1>2. /\ s \in {"ok", "none", "exists", "failed"} /\ s \in Statuses(r) \cup {"failed"}
      /\ p \in {"no", "once", "again"}
  BY <1>1, <1>b, <1>a DEF Statuses, Passed
<1>3. /\ statusG' = s
      /\ call' = [call EXCEPT ![t] = q]
      /\ buckets' = IF r.op = "create" /\ s = "ok" THEN buckets \cup {r.bucket} ELSE buckets
      /\ objects' = IF r.op = "put" /\ s = "ok"
                    THEN objects \cup {<<r.bucket, KeyOf(r)>>} ELSE objects
      /\ UNCHANGED <<running, ready, s3up, retriesG, dataQueue, bucketOf, asked,
                     stored, flawed, unneeded, given, posts, asks, outages, starts>>
  <2>1. call' = [call EXCEPT ![t] = q]
    BY <1>1, <1>a DEF ResponseCompleteCallback, RequestType, IInv, TypeOK
  <2> QED BY <1>a, <1>b, <2>1 DEF Perform, ResponseCompleteCallback, historyVars, countVars
<1>4. /\ q.op = r.op /\ q.bucket = r.bucket /\ q.kind = r.kind /\ q.hash = r.hash
      /\ q.sure = r.sure /\ q.status = s /\ q \in RequestType
  BY <1>1, <1>2 DEF RequestType
<1>5. <<r.bucket, KeyOf(r)>> \in Bucket \X (Hash \X Kind)
  BY <1>1 DEF KeyOf, DataKey, GenerateFilemetaObjectkey, Kind
<1> HIDE DEF q
<1>6. call'[t] = q /\ \A u \in AllThreads : u # t => call'[u] = call[u]
  BY <1>3 DEF IInv, TypeOK
<1>7. TypeOK'
  <2>1. call' \in [AllThreads -> RequestType \cup {NoCall}]
    BY <1>3, <1>4 DEF IInv, TypeOK
  <2>2. objects' \subseteq Bucket \X (Hash \X Kind) /\ buckets' \subseteq Bucket
    BY <1>1, <1>3, <1>5 DEF IInv, TypeOK
  <2> QED BY <1>2, <1>3, <2>1, <2>2 DEF IInv, TypeOK
<1>8. objects \subseteq objects'
  BY <1>3
<1>9. ConnectionsInv'
  <2>1. ASSUME NEW u \in Thread, call'[u] # NoCall
        PROVE  ConnectionCallOK(call'[u], objects')
    <3>1. CASE u = t
      <4>1. ConnectionCallOK(r, objects)
        BY <2>1, <3>1 DEF IInv, ConnectionsInv, Perform
      <4>2. ConnectionCallOK(q, objects)
        BY <1>1, <1>2, <4>1, PerformConnectionOK DEF IInv, q
      <4>3. ConnectionCallOK(q, objects')
        BY <1>8, <4>2, CallStaysOK
      <4> QED BY <1>6, <3>1, <4>3
    <3>2. CASE u # t
      <4>1. call'[u] = call[u] /\ ConnectionCallOK(call[u], objects)
        BY <1>6, <2>1, <3>2, Threads DEF IInv, ConnectionsInv
      <4> QED BY <1>8, <4>1, CallStaysOK
    <3> QED BY <3>1, <3>2
  <2> QED BY <2>1 DEF ConnectionsInv
<1>10. DataThreadInv'
  <2>1. CASE t = DataThread
    <3>1. DataThreadCallOK(r, objects, flawed, bucketOf["data"])
      BY <2>1 DEF IInv, DataThreadInv, Perform
    <3>2. KeyOf(q) = KeyOf(r)
      BY <1>4 DEF KeyOf
    <3>3. DataThreadCallOK(q, objects', flawed, bucketOf["data"])
      BY <1>3, <1>4, <1>8, <3>1, <3>2 DEF DataThreadCallOK, Lengths
    <3> QED BY <1>3, <1>6, <2>1, <3>3 DEF DataThreadInv
  <2>2. CASE t # DataThread
    <3>1. call'[DataThread] = call[DataThread]
      BY <1>6, <2>2, Threads
    <3>2. ASSUME call[DataThread] # NoCall
          PROVE  DataThreadCallOK(call[DataThread], objects', flawed, bucketOf["data"])
      <4>1. DataThreadCallOK(call[DataThread], objects, flawed, bucketOf["data"])
        BY <3>2 DEF IInv, DataThreadInv
      <4> QED BY <1>8, <4>1, CallStaysOK
    <3> QED BY <1>3, <3>1, <3>2 DEF DataThreadInv
  <2> QED BY <2>1, <2>2
<1>11. AskedInv'
  BY <1>3, <1>4, <1>6, Threads DEF IInv, AskedInv, Perform
<1>12. ASSUME NEW h \in Hash, Data(h, objects'), ~Data(h, objects)
       PROVE  Lengths(h, objects') \/ h \in flawed'
  <2>1. r.op = "put" /\ <<r.bucket, KeyOf(r)>> = <<"data", DataKey(h)>>
    BY <1>3, <1>12 DEF Data
  <2>2. r.kind = "data" /\ r.hash = h
    BY <1>1, <2>1 DEF KeyOf, DataKey, GenerateFilemetaObjectkey, Kind
  <2>3. t = DataThread
    BY <2>1, Threads DEF IInv, ConnectionsInv, ConnectionCallOK, Perform
  <2>4. DataThreadCallOK(r, objects, flawed, bucketOf["data"])
    BY <2>3 DEF IInv, DataThreadInv, Perform
  <2> QED BY <1>3, <1>8, <2>1, <2>2, <2>4 DEF DataThreadCallOK, Lengths
<1>13. LengthsFirst' /\ UnneededIsStored' /\ StoredIsInBuckets' /\ GivenIsContent'
  BY <1>3, <1>8, <1>12, BlocksStay
<1> QED BY <1>7, <1>9, <1>10, <1>11, <1>13 DEF IInv

(* A call is made again.                                                   *)
LEMMA RetryInv ==
  ASSUME IInv, NEW t \in AllThreads, Retry(t)
  PROVE  IInv'
<1> DEFINE r == call[t]
           q == [r EXCEPT !.status = "pending", !.confused = @ \/ ~OwnStatus(t)]
<1>1. /\ r # NoCall /\ r \in RequestType /\ Calls(t, q)
      /\ retriesG' \in {-1, 0, 1}
      /\ UNCHANGED <<running, ready, storeVars, statusG, dataQueue, bucketOf, asked,
                     historyVars, countVars>>
  BY CallType DEF IInv, Retry, Answered, CountRetry
<1>2. /\ q.op = r.op /\ q.bucket = r.bucket /\ q.kind = r.kind /\ q.hash = r.hash
      /\ q.sure = r.sure /\ q.status = "pending" /\ q.passed = r.passed
      /\ q.confused = (r.confused \/ ~OwnStatus(t)) /\ q \in RequestType
  <2>1. r.confused \in BOOLEAN /\ (r.confused \/ ~OwnStatus(t)) \in BOOLEAN
    BY <1>1 DEF RequestType
  <2> QED BY <1>1, <2>1 DEF RequestType
<1>a. r.status = "ok" => ~OwnStatus(t)
  BY DEF Retry, S3StatusIsRetryable, OwnStatus
<1> HIDE DEF q
<1>3. /\ call' \in [AllThreads -> RequestType \cup {NoCall}] /\ call'[t] = q
      /\ \A u \in AllThreads : u # t => call'[u] = call[u]
  BY <1>1, <1>2, CallStep DEF IInv
<1>4. TypeOK'
  BY <1>1, <1>3 DEF IInv, TypeOK, storeVars, historyVars, countVars
<1>5. ConnectionsInv' /\ DataThreadInv'
  <2>1. CASE t \in Thread
    <3>1. ConnectionCallOK(q, objects)
      BY <1>1, <1>2, <1>a, <2>1 DEF IInv, ConnectionsInv, ConnectionCallOK
    <3> QED BY <1>1, <1>2, <2>1, <3>1, ConnectionCalls DEF storeVars, historyVars
  <2>2. CASE t = DataThread
    <3>1. DataThreadCallOK(r, objects, flawed, bucketOf["data"])
      BY <1>1, <2>2 DEF IInv, DataThreadInv
    <3>2. DataThreadCallOK(q, objects, flawed', bucketOf'["data"])
      BY <1>1, <1>2, <3>1 DEF DataThreadCallOK, historyVars
    <3> QED BY <1>1, <1>2, <2>2, <3>2, DataThreadCalls DEF storeVars
  <2> QED BY <2>1, <2>2, Threads
<1>6. AskedInv'
  BY <1>1, <1>2, <1>3, Threads DEF IInv, AskedInv
<1>7. LengthsFirst' /\ UnneededIsStored' /\ StoredIsInBuckets' /\ GivenIsContent'
  BY <1>1, BlocksStay DEF storeVars, historyVars
<1> QED BY <1>4, <1>5, <1>6, <1>7 DEF IInv

(* Returning leaves the store alone.                                       *)
LEMMA ReturnsStep ==
  ASSUME IInv, NEW t \in AllThreads, NEW op, Returns(t, op)
  PROVE  /\ call[t] # NoCall /\ call[t].op = op /\ call[t] \in RequestType
         /\ retriesG' \in {-1, 0, 1}
         /\ UNCHANGED <<running, ready, s3up, buckets, objects, statusG>>
  BY CallType DEF IInv, TypeOK, Returns, Answered, CountRetry, storeVars

(* A call of the data thread: the rest of the type invariant.              *)
LEMMA DataThreadType ==
  ASSUME IInv, NEW r \in RequestType \cup {NoCall}, Calls(DataThread, r),
         retriesG' \in {-1, 0, 1}, bucketOf' \in [Kind -> Bucket],
         stored' \subseteq Hash, flawed' \subseteq Hash,
         dataQueue' \in Seq(Hash),
         UNCHANGED <<running, ready, s3up, buckets, objects, statusG, asked, unneeded,
                     given, posts, asks, outages, starts>>
  PROVE  TypeOK'
<1>1. call' \in [AllThreads -> RequestType \cup {NoCall}]
  BY CallStep, Threads DEF IInv
<1> QED BY <1>1 DEF IInv, TypeOK

LEMMA DataThreadAsked ==
  ASSUME IInv, NEW r \in RequestType \cup {NoCall}, Calls(DataThread, r), asked' = asked
  PROVE  AskedInv'
  BY CallStep, Threads DEF IInv, AskedInv

LEMMA StoreDataInv ==
  ASSUME IInv, StoreData
  PROVE  IInv'
<1>1. CASE ready = "yes"
  <2> DEFINE r == Request("test", "data", "data", Head(dataQueue))
  <2>1. Head(dataQueue) \in Hash /\ Tail(dataQueue) \in Seq(Hash)
    BY DEF StoreData, IInv, TypeOK
  <2>2. r \in RequestType
    BY <2>1, RequestIsRequest DEF Bucket, Kind
  <2>3. DataThreadCallOK(r, objects, flawed', bucketOf'["data"])
    BY DEF DataThreadCallOK, Request
  <2>4. /\ Calls(DataThread, r) /\ dataQueue' = Tail(dataQueue)
        /\ UNCHANGED <<running, ready, s3up, buckets, objects, statusG, retriesG, asked,
                       bucketOf, stored, flawed, unneeded, given,
                       posts, asks, outages, starts>>
    BY <1>1 DEF StoreData, storeVars, interfVars, historyVars, countVars
  <2> HIDE DEF r
  <2>5. TypeOK'
    BY <2>1, <2>2, <2>4, DataThreadType DEF IInv, TypeOK
  <2>6. ConnectionsInv' /\ DataThreadInv' /\ AskedInv'
    BY <2>2, <2>3, <2>4, DataThreadCalls, DataThreadAsked
  <2>7. LengthsFirst' /\ UnneededIsStored' /\ StoredIsInBuckets' /\ GivenIsContent'
    BY <2>4, BlocksStay
  <2> QED BY <2>5, <2>6, <2>7 DEF IInv
<1>2. CASE ready # "yes"
  <2>1. Halt /\ UNCHANGED <<objects, historyVars>>
    BY <1>2 DEF StoreData, storeVars
  <2>2. TypeOK'
    BY <1>2, <2>1, HaltType
    DEF IInv, TypeOK, StoreData, storeVars, interfVars, historyVars, countVars
  <2> QED BY <2>1, <2>2, HaltInv DEF IInv
<1> QED BY <1>1, <1>2

(* A bucket is chosen.                                                     *)
LEMMA ChooseInv ==
  ASSUME IInv, call[DataThread] # NoCall, call[DataThread].op # "put",
         Choose(call[DataThread]), retriesG' \in {-1, 0, 1},
         UNCHANGED <<running, ready, s3up, buckets, objects, statusG, dataQueue, asked,
                     stored, unneeded, given, posts, asks, outages, starts>>
  PROVE  IInv'
<1> DEFINE r == call[DataThread]
           q == IF r.kind = "data" THEN Request("test", "filemeta", "filemeta", r.hash)
                ELSE Request("put", r.bucket, "filemeta", r.hash)
<1>1. /\ r.bucket \in Bucket /\ r.kind \in Kind /\ r.hash \in Hash
      /\ DataThreadCallOK(r, objects, flawed, bucketOf["data"])
  BY CallType, Threads DEF IInv, DataThreadInv
<1>2. q \in RequestType /\ Calls(DataThread, q)
  BY <1>1, RequestIsRequest DEF Choose, Bucket, Kind
<1>3. /\ bucketOf' = [bucketOf EXCEPT ![r.kind] = r.bucket]
      /\ flawed \subseteq flawed' /\ flawed' \subseteq Hash
      /\ r.bucket = "tmp-fallback" => r.hash \in flawed'
  BY <1>1 DEF Choose, IInv, TypeOK
<1>4. TypeOK'
  BY <1>1, <1>2, <1>3, DataThreadType DEF IInv, TypeOK
<1>5. DataThreadCallOK(q, objects, flawed', bucketOf'["data"])
  <2>1. CASE r.kind = "data"
    <3>1. bucketOf'["data"] = r.bucket
      BY <1>3, <2>1 DEF IInv, TypeOK, Kind
    <3>2. r.bucket = "data" \/ r.hash \in flawed'
      BY <1>1, <1>3, <2>1 DEF DataThreadCallOK
    <3> QED BY <2>1, <3>1, <3>2 DEF DataThreadCallOK, Request
  <2>2. CASE r.kind = "filemeta"
    <3>1. bucketOf'["data"] = bucketOf["data"]
      BY <1>3, <2>2 DEF IInv, TypeOK, Kind
    <3>2. r.bucket = "filemeta" \/ r.hash \in flawed'
      BY <1>1, <1>3, <2>2 DEF DataThreadCallOK
    <3>3. bucketOf["data"] = "data" \/ r.hash \in flawed'
      BY <1>1, <1>3, <2>2 DEF DataThreadCallOK
    <3> QED BY <2>2, <3>1, <3>2, <3>3 DEF DataThreadCallOK, Request
  <2> QED BY <1>1, <2>1, <2>2 DEF Kind
<1> HIDE DEF q
<1>6. ConnectionsInv' /\ DataThreadInv' /\ AskedInv'
  BY <1>2, <1>5, DataThreadCalls, DataThreadAsked
<1>7. LengthsFirst' /\ UnneededIsStored' /\ StoredIsInBuckets' /\ GivenIsContent'
  BY <1>3, BlocksStay
<1> QED BY <1>4, <1>6, <1>7 DEF IInv

LEMMA CheckBucketAccessInv ==
  ASSUME IInv, CheckBucketAccess
  PROVE  IInv'
<1> DEFINE r == call[DataThread]
<1>1. /\ r # NoCall /\ r.op = "test" /\ r \in RequestType /\ retriesG' \in {-1, 0, 1}
      /\ UNCHANGED <<running, ready, s3up, buckets, objects, statusG, dataQueue, asked,
                     stored, unneeded, given, posts, asks, outages, starts>>
  BY ReturnsStep, Threads DEF CheckBucketAccess, countVars
<1>2. CASE statusG = "ok"
  <2>1. Choose(r)
    BY <1>2 DEF CheckBucketAccess
  <2> QED BY <1>1, <2>1, ChooseInv
<1>3. CASE statusG # "ok"
  <2> DEFINE q == Request("create", r.bucket, r.kind, r.hash)
  <2>1. Calls(DataThread, q) /\ UNCHANGED <<bucketOf, flawed>>
    BY <1>3 DEF CheckBucketAccess
  <2>2. /\ r.bucket \in Bucket /\ r.kind \in Kind /\ r.hash \in Hash
        /\ DataThreadCallOK(r, objects, flawed, bucketOf["data"])
    BY <1>1, CallType, Threads DEF IInv, DataThreadInv
  <2>3. q \in RequestType
    BY <2>2, RequestIsRequest
  <2>4. DataThreadCallOK(q, objects, flawed', bucketOf'["data"])
    BY <1>1, <2>1, <2>2 DEF DataThreadCallOK, Request
  <2> HIDE DEF q
  <2>5. TypeOK'
    BY <1>1, <2>1, <2>3, DataThreadType DEF IInv, TypeOK
  <2>6. ConnectionsInv' /\ DataThreadInv' /\ AskedInv'
    BY <1>1, <2>1, <2>3, <2>4, DataThreadCalls, DataThreadAsked
  <2>7. LengthsFirst' /\ UnneededIsStored' /\ StoredIsInBuckets' /\ GivenIsContent'
    BY <1>1, <2>1, BlocksStay
  <2> QED BY <2>5, <2>6, <2>7 DEF IInv
<1> QED BY <1>2, <1>3

LEMMA AddBucketInv ==
  ASSUME IInv, AddBucket
  PROVE  IInv'
<1> DEFINE r == call[DataThread]
<1>1. /\ r # NoCall /\ r.op = "create" /\ r \in RequestType /\ retriesG' \in {-1, 0, 1}
      /\ UNCHANGED <<running, ready, s3up, buckets, objects, statusG, dataQueue, asked,
                     unneeded, given, posts, asks, outages, starts>>
  BY ReturnsStep, Threads DEF AddBucket, countVars
<1>2. /\ r.bucket \in Bucket /\ r.kind \in Kind /\ r.hash \in Hash
      /\ DataThreadCallOK(r, objects, flawed, bucketOf["data"])
  BY <1>1, CallType, Threads DEF IInv, DataThreadInv
<1>3. CASE statusG = "ok"
  <2>1. Choose(r) /\ stored' = stored
    BY <1>3 DEF AddBucket
  <2> QED BY <1>1, <2>1, ChooseInv
<1>4. CASE statusG # "ok" /\ r.bucket # "tmp-fallback"
  <2> DEFINE q == Request("test", "tmp-fallback", r.kind, r.hash)
  <2>1. Calls(DataThread, q) /\ UNCHANGED <<bucketOf, stored, flawed>>
    BY <1>4 DEF AddBucket
  <2>2. q \in RequestType
    BY <1>2, RequestIsRequest DEF Bucket
  <2>3. DataThreadCallOK(q, objects, flawed', bucketOf'["data"])
    BY <1>1, <1>2, <2>1 DEF DataThreadCallOK, Request
  <2> HIDE DEF q
  <2>4. TypeOK'
    BY <1>1, <2>1, <2>2, DataThreadType DEF IInv, TypeOK
  <2>5. ConnectionsInv' /\ DataThreadInv' /\ AskedInv'
    BY <1>1, <2>1, <2>2, <2>3, DataThreadCalls, DataThreadAsked
  <2>6. LengthsFirst' /\ UnneededIsStored' /\ StoredIsInBuckets' /\ GivenIsContent'
    BY <1>1, <2>1, BlocksStay
  <2> QED BY <2>4, <2>5, <2>6 DEF IInv
<1>5. CASE statusG # "ok" /\ r.bucket = "tmp-fallback"
  <2>1. /\ Calls(DataThread, NoCall) /\ bucketOf' = bucketOf
        /\ stored' = stored \cup {r.hash} /\ flawed' = flawed \cup {r.hash}
    BY <1>5 DEF AddBucket
  <2>2. TypeOK'
    BY <1>1, <1>2, <2>1, DataThreadType DEF IInv, TypeOK
  <2>3. ConnectionsInv' /\ DataThreadInv' /\ AskedInv'
    BY <1>1, <2>1, DataThreadCalls, DataThreadAsked
  <2>4. LengthsFirst' /\ UnneededIsStored' /\ GivenIsContent'
    BY <1>1, <2>1 DEF IInv, LengthsFirst, Data, Lengths, UnneededIsStored, GivenIsContent
  <2>5. StoredIsInBuckets'
    BY <1>1, <2>1 DEF IInv, StoredIsInBuckets
  <2> QED BY <2>2, <2>3, <2>4, <2>5 DEF IInv
<1> QED BY <1>3, <1>4, <1>5

LEMMA SaveFilemetaInv ==
  ASSUME IInv, SaveFilemeta
  PROVE  IInv'
<1> DEFINE r == call[DataThread]
<1>1. r # NoCall /\ r.kind = "filemeta"
  BY DEF SaveFilemeta, Answered
<1>2. /\ r.hash \in Hash
      /\ DataThreadCallOK(r, objects, flawed, bucketOf["data"])
      /\ bucketOf["data"] \in Bucket
  BY <1>1, CallType, Threads DEF IInv, TypeOK, DataThreadInv, Kind
<1>3. /\ flawed \subseteq flawed' /\ flawed' \subseteq Hash
      /\ r.status # "ok" => r.hash \in flawed'
  BY <1>2 DEF SaveFilemeta, PutIsOver, IInv, TypeOK
<1>4. UNCHANGED <<bucketOf, stored, unneeded, given, posts, asks, outages, starts>>
  BY DEF SaveFilemeta, countVars
<1>5. CASE r.hash \in Void
  <2>1. Halt /\ UNCHANGED <<ready, s3up, buckets, objects, statusG, retriesG>>
    BY <1>5 DEF SaveFilemeta, storeVars, interfVars
  <2>2. TypeOK'
    BY <1>3, <1>4, <2>1, HaltType DEF IInv, TypeOK
  <2>3. ConnectionsInv' /\ DataThreadInv' /\ AskedInv'
    BY <2>1, NoCalls, Threads DEF Halt, AskedInv
  <2>4. LengthsFirst' /\ UnneededIsStored' /\ StoredIsInBuckets' /\ GivenIsContent'
    BY <1>3, <1>4, <2>1, BlocksStay
  <2> QED BY <2>2, <2>3, <2>4 DEF IInv
<1>6. CASE r.hash \notin Void
  <2> DEFINE q == Request("put", bucketOf["data"], "data", r.hash)
  <2>1. Returns(DataThread, "put") /\ Calls(DataThread, q) /\ UNCHANGED <<dataQueue, asked>>
    BY <1>6 DEF SaveFilemeta
  <2>2. /\ r.op = "put" /\ retriesG' \in {-1, 0, 1}
        /\ UNCHANGED <<running, ready, s3up, buckets, objects, statusG>>
    BY <2>1, ReturnsStep, Threads
  <2>3. q \in RequestType
    BY <1>2, RequestIsRequest DEF Kind
  <2>4. Lengths(r.hash, objects) \/ r.hash \in flawed'
    BY <1>1, <1>2, <1>3, <2>2 DEF DataThreadCallOK, Lengths, KeyOf
  <2>5. bucketOf["data"] = "data" \/ r.hash \in flawed'
    BY <1>1, <1>2, <1>3 DEF DataThreadCallOK
  <2>6. DataThreadCallOK(q, objects, flawed', bucketOf'["data"])
    BY <2>4, <2>5 DEF DataThreadCallOK, Request
  <2> HIDE DEF q
  <2>7. TypeOK'
    BY <1>3, <1>4, <2>1, <2>2, <2>3, DataThreadType DEF IInv, TypeOK
  <2>8. ConnectionsInv' /\ DataThreadInv' /\ AskedInv'
    BY <2>1, <2>2, <2>3, <2>6, DataThreadCalls, DataThreadAsked
  <2>9. LengthsFirst' /\ UnneededIsStored' /\ StoredIsInBuckets' /\ GivenIsContent'
    BY <1>3, <1>4, <2>2, BlocksStay
  <2> QED BY <2>7, <2>8, <2>9 DEF IInv
<1> QED BY <1>5, <1>6

(* Both objects of a block are there, or it is flawed.                     *)
LEMMA SaveDataInv ==
  ASSUME IInv, SaveData
  PROVE  IInv'
<1> DEFINE r == call[DataThread]
<1>1. /\ r # NoCall /\ r.op = "put" /\ r.kind = "data" /\ retriesG' \in {-1, 0, 1}
      /\ Calls(DataThread, NoCall)
      /\ UNCHANGED <<running, ready, s3up, buckets, objects, statusG, dataQueue, bucketOf,
                     asked, unneeded, given, posts, asks, outages, starts>>
  BY ReturnsStep, Threads DEF SaveData, countVars
<1>2. r.hash \in Hash /\ DataThreadCallOK(r, objects, flawed, bucketOf["data"])
  BY <1>1, CallType, Threads DEF IInv, DataThreadInv
<1>3. /\ flawed \subseteq flawed' /\ flawed' \subseteq Hash
      /\ r.status # "ok" => r.hash \in flawed'
      /\ stored' = stored \cup {r.hash}
  BY <1>2 DEF SaveData, PutIsOver, IInv, TypeOK
<1>4. TypeOK'
  BY <1>1, <1>2, <1>3, DataThreadType DEF IInv, TypeOK
<1>5. ConnectionsInv' /\ DataThreadInv' /\ AskedInv'
  BY <1>1, DataThreadCalls, DataThreadAsked
<1>6. LengthsFirst' /\ UnneededIsStored' /\ GivenIsContent'
  BY <1>1, <1>3 DEF IInv, LengthsFirst, Data, Lengths, UnneededIsStored, GivenIsContent
<1>7. r.hash \in flawed' \/ (Lengths(r.hash, objects) /\ Data(r.hash, objects))
  BY <1>1, <1>2, <1>3 DEF DataThreadCallOK, Data, Lengths, KeyOf
<1>8. StoredIsInBuckets'
  BY <1>1, <1>3, <1>7 DEF IInv, StoredIsInBuckets, Data, Lengths
<1> QED BY <1>4, <1>5, <1>6, <1>8 DEF IInv

(* A call of a connection: the rest of the type invariant.                 *)
LEMMA ConnectionType ==
  ASSUME IInv, NEW t \in Thread, NEW r \in RequestType \cup {NoCall}, Calls(t, r),
         retriesG' \in {-1, 0, 1}, asked' \in [Thread -> Seq(Hash)],
         unneeded' \subseteq [hash : Hash, because : {"found", "misled", "unreached"}],
         asks' \in 0 .. MaxAsks, given' \subseteq Given,
         UNCHANGED <<running, ready, s3up, buckets, objects, statusG, dataQueue, bucketOf,
                     stored, flawed, posts, outages, starts>>
  PROVE  TypeOK'
<1>1. call' \in [AllThreads -> RequestType \cup {NoCall}]
  BY CallStep, Threads DEF IInv
<1> QED BY <1>1 DEF IInv, TypeOK

LEMMA ConnectionAsked ==
  ASSUME IInv, NEW t \in Thread, NEW r \in RequestType \cup {NoCall}, Calls(t, r),
         \A u \in Thread : u # t => asked'[u] = asked[u],
         r # NoCall /\ r.op \in {"test", "head"} => asked'[t] # <<>>
  PROVE  AskedInv'
<1>1. /\ call'[t] = r
      /\ \A u \in Thread : u # t => call'[u] = call[u]
  BY CallStep, Threads DEF IInv
<1> QED BY <1>1 DEF IInv, AskedInv

LEMMA ListOfHashes ==
  ASSUME NEW hs \in SetToSeqs(Hash)
  PROVE  hs \in Seq(Hash) /\ hs # <<>> /\ Head(hs) \in Hash
<1>1. Cardinality(Hash) \in Nat /\ Cardinality(Hash) # 0
  BY ConstantsAssumption, FS_CardinalityType, FS_EmptySet
<1>2. hs \in [1 .. Cardinality(Hash) -> Hash]
  BY DEF SetToSeqs
<1>3. hs \in Seq(Hash) /\ Len(hs) = Cardinality(Hash)
  BY <1>1, <1>2
<1> QED BY <1>1, <1>3

(* An answer leaves out hashes that it has not found: nothing is claimed.  *)
LEMMA LeavesOutStep ==
  ASSUME IInv, NEW S \in SUBSET Hash, NEW why \in {"misled", "unreached"}, LeavesOut(S, why)
  PROVE  /\ unneeded' \subseteq [hash : Hash, because : {"found", "misled", "unreached"}]
         /\ \A u \in unneeded' : u.because = "found" => u \in unneeded
BY DEF IInv, TypeOK, LeavesOut

LEMMA BuildNeededHashListInv ==
  ASSUME IInv, NEW t \in Thread, NEW hs \in SetToSeqs(Hash), BuildNeededHashList(t, hs)
  PROVE  IInv'
<1>1. /\ asks' \in 0 .. MaxAsks
      /\ UNCHANGED <<running, ready, s3up, buckets, objects, statusG, retriesG, dataQueue,
                     bucketOf, stored, flawed, given, posts, outages, starts>>
  <2>1. asks' \in 0 .. MaxAsks
    BY ConstantsAssumption DEF IInv, TypeOK, BuildNeededHashList, Begins
  <2> QED BY <2>1 DEF BuildNeededHashList, storeVars, interfVars
<1>a. /\ unneeded' \subseteq [hash : Hash, because : {"found", "misled", "unreached"}]
      /\ \A u \in unneeded' : u.because = "found" => u \in unneeded
  <2>1. CASE ready = "yes"
    BY <2>1 DEF BuildNeededHashList, IInv, TypeOK
  <2>2. CASE ready # "yes"
    <3>1. ToSet(hs) \subseteq Hash
      BY ListOfHashes DEF ToSet
    <3> QED BY <2>2, <3>1, LeavesOutStep DEF BuildNeededHashList
  <2> QED BY <2>1, <2>2
<1>2. LengthsFirst' /\ UnneededIsStored' /\ StoredIsInBuckets' /\ GivenIsContent'
  BY <1>1, <1>a, BlocksStay
<1>3. CASE ready = "yes"
  <2> DEFINE r == Request("test", "data", "data", Head(hs))
  <2>1. Calls(t, r) /\ asked' = [asked EXCEPT ![t] = hs]
    BY <1>3 DEF BuildNeededHashList
  <2>2. r \in RequestType
    BY ListOfHashes, RequestIsRequest DEF Bucket, Kind
  <2>3. ConnectionCallOK(r, objects)
    BY DEF ConnectionCallOK, Request
  <2> HIDE DEF r
  <2>4. /\ asked' \in [Thread -> Seq(Hash)] /\ asked'[t] # <<>>
        /\ \A u \in Thread : u # t => asked'[u] = asked[u]
    BY <2>1, ListOfHashes DEF IInv, TypeOK
  <2>5. TypeOK'
    BY <1>1, <1>a, <2>1, <2>2, <2>4, ConnectionType DEF IInv, TypeOK
  <2>6. ConnectionsInv' /\ DataThreadInv'
    BY <1>1, <2>1, <2>2, <2>3, ConnectionCalls
  <2>7. AskedInv'
    BY <2>1, <2>2, <2>4, ConnectionAsked
  <2> QED BY <1>2, <2>5, <2>6, <2>7 DEF IInv
<1>4. CASE ready # "yes"
  <2>1. UNCHANGED <<call, asked>>
    BY <1>4 DEF BuildNeededHashList
  <2>2. TypeOK'
    BY <1>1, <1>a, <2>1 DEF IInv, TypeOK
  <2>3. ConnectionsInv' /\ DataThreadInv' /\ AskedInv'
    BY <1>1, <2>1 DEF IInv, ConnectionsInv, DataThreadInv, AskedInv
  <2> QED BY <1>2, <2>2, <2>3 DEF IInv
<1> QED BY <1>3, <1>4

LEMMA CheckDataBucketInv ==
  ASSUME IInv, NEW t \in Thread, CheckDataBucket(t)
  PROVE  IInv'
<1>1. /\ call[t] # NoCall /\ call[t].op = "test" /\ retriesG' \in {-1, 0, 1}
      /\ UNCHANGED <<running, ready, s3up, buckets, objects, statusG, dataQueue, bucketOf,
                     stored, flawed, given, posts, asks, outages, starts>>
  BY ReturnsStep, Threads DEF CheckDataBucket, countVars
<1>a. /\ unneeded' \subseteq [hash : Hash, because : {"found", "misled", "unreached"}]
      /\ \A u \in unneeded' : u.because = "found" => u \in unneeded
  <2>1. CASE statusG = "ok"
    BY <2>1 DEF CheckDataBucket, IInv, TypeOK
  <2>2. CASE statusG # "ok"
    <3>1. ToSet(asked[t]) \subseteq Hash
      BY DEF ToSet, IInv, TypeOK
    <3> QED BY <2>2, <3>1, LeavesOutStep DEF CheckDataBucket
  <2> QED BY <2>1, <2>2
<1>2. LengthsFirst' /\ UnneededIsStored' /\ StoredIsInBuckets' /\ GivenIsContent'
  BY <1>1, <1>a, BlocksStay
<1>3. CASE statusG = "ok"
  <2> DEFINE r == Request("head", "data", "data", Head(asked[t]))
  <2>1. Calls(t, r) /\ asked' = asked
    BY <1>3 DEF CheckDataBucket
  <2>2. asked[t] # <<>> /\ Head(asked[t]) \in Hash
    BY <1>1 DEF IInv, AskedInv, TypeOK
  <2>3. r \in RequestType
    BY <2>2, RequestIsRequest DEF Bucket, Kind
  <2>4. ConnectionCallOK(r, objects)
    BY DEF ConnectionCallOK, Request
  <2> HIDE DEF r
  <2>5. TypeOK'
    BY <1>1, <1>a, <2>1, <2>3, ConnectionType DEF IInv, TypeOK
  <2>6. ConnectionsInv' /\ DataThreadInv'
    BY <1>1, <2>1, <2>3, <2>4, ConnectionCalls
  <2>7. AskedInv'
    BY <2>1, <2>2, <2>3, ConnectionAsked
  <2> QED BY <1>2, <2>5, <2>6, <2>7 DEF IInv
<1>4. CASE statusG # "ok"
  <2>1. Calls(t, NoCall) /\ asked' = [asked EXCEPT ![t] = <<>>]
    BY <1>4 DEF CheckDataBucket
  <2>2. /\ asked' \in [Thread -> Seq(Hash)]
        /\ \A u \in Thread : u # t => asked'[u] = asked[u]
    BY <2>1 DEF IInv, TypeOK
  <2>3. TypeOK'
    BY <1>1, <1>a, <2>1, <2>2, ConnectionType DEF IInv, TypeOK
  <2>4. ConnectionsInv' /\ DataThreadInv'
    BY <1>1, <2>1, ConnectionCalls
  <2>5. AskedInv'
    BY <2>1, <2>2, ConnectionAsked
  <2> QED BY <1>2, <2>3, <2>4, <2>5 DEF IInv
<1> QED BY <1>3, <1>4

(* What is left out of the answer has its data, if nobody set the status   *)
(* meanwhile, thus its lengths.                                            *)
LEMMA CheckKeyExistInBucketInv ==
  ASSUME IInv, NEW t \in Thread, CheckKeyExistInBucket(t)
  PROVE  IInv'
<1> DEFINE h == call[t].hash
           rest == Tail(asked[t])
           r == IF rest = <<>> THEN NoCall ELSE Request("head", "data", "data", Head(rest))
<1>1. /\ call[t] # NoCall /\ call[t].op = "head" /\ retriesG' \in {-1, 0, 1}
      /\ UNCHANGED <<running, ready, s3up, buckets, objects, statusG, dataQueue, bucketOf,
                     stored, flawed, given, posts, asks, outages, starts>>
  BY ReturnsStep, Threads DEF CheckKeyExistInBucket, countVars
<1>2. Calls(t, r) /\ asked' = [asked EXCEPT ![t] = rest]
  BY DEF CheckKeyExistInBucket
<1>3. h \in Hash /\ ConnectionCallOK(call[t], objects)
  BY <1>1, CallType, Threads DEF IInv, ConnectionsInv
<1>4. asked[t] # <<>> /\ asked[t] \in Seq(Hash)
  BY <1>1 DEF IInv, AskedInv, TypeOK
<1>5. rest \in Seq(Hash) /\ (rest # <<>> => Head(rest) \in Hash)
  BY <1>4
<1>6. r \in RequestType \cup {NoCall} /\ (r # NoCall => rest # <<>>)
  BY <1>5, RequestIsRequest DEF Bucket, Kind
<1>7. r # NoCall => ConnectionCallOK(r, objects)
  BY DEF ConnectionCallOK, Request
<1>8. /\ unneeded' \subseteq [hash : Hash, because : {"found", "misled", "unreached"}]
      /\ \A u \in unneeded' : u.because = "found" => u \in unneeded \/ Data(u.hash, objects)
  <2>1. CASE statusG = "ok" /\ OwnStatus(t)
    <3>1. LeavesOut({h}, "found")
      BY <2>1 DEF CheckKeyExistInBucket
    <3>2. Data(h, objects)
      BY <1>1, <1>3, <2>1 DEF ConnectionCallOK, OwnStatus
    <3> QED BY <1>3, <3>1, <3>2 DEF IInv, TypeOK, LeavesOut
  <2>2. CASE statusG = "ok" /\ ~OwnStatus(t)
    <3>1. LeavesOut({h}, "misled")
      BY <2>2 DEF CheckKeyExistInBucket
    <3> QED BY <1>3, <3>1, LeavesOutStep
  <2>3. CASE statusG # "ok"
    BY <2>3 DEF CheckKeyExistInBucket, IInv, TypeOK
  <2> QED BY <2>1, <2>2, <2>3
<1> HIDE DEF r, rest
<1>9. /\ asked' \in [Thread -> Seq(Hash)] /\ asked'[t] = rest
      /\ \A u \in Thread : u # t => asked'[u] = asked[u]
  BY <1>2, <1>5 DEF IInv, TypeOK
<1>10. TypeOK'
  BY <1>1, <1>2, <1>6, <1>8, <1>9, ConnectionType DEF IInv, TypeOK
<1>11. ConnectionsInv' /\ DataThreadInv'
  BY <1>1, <1>2, <1>6, <1>7, ConnectionCalls
<1>12. AskedInv'
  BY <1>2, <1>6, <1>9, ConnectionAsked
<1>13. LengthsFirst' /\ StoredIsInBuckets' /\ GivenIsContent'
  BY <1>1 DEF IInv, LengthsFirst, Data, Lengths, StoredIsInBuckets, GivenIsContent
<1>14. UnneededIsStored'
  BY <1>1, <1>8 DEF IInv, TypeOK, UnneededIsStored, LengthsFirst, Data, Lengths
<1> QED BY <1>10, <1>11, <1>12, <1>13, <1>14 DEF IInv

LEMMA RetrieveDataInv ==
  ASSUME IInv, NEW t \in Thread, NEW h \in Hash, RetrieveData(t, h)
  PROVE  IInv'
<1> DEFINE q == Request("get", "filemeta", "filemeta", h)
           r == [q EXCEPT !.sure = h \in stored \ flawed]
<1>1. /\ asks' \in 0 .. MaxAsks
      /\ UNCHANGED <<running, ready, s3up, buckets, objects, statusG, retriesG, dataQueue,
                     bucketOf, asked, stored, flawed, unneeded, given,
                     posts, outages, starts>>
  <2>1. asks' \in 0 .. MaxAsks
    BY ConstantsAssumption DEF IInv, TypeOK, RetrieveData, Begins
  <2> QED BY <2>1 DEF RetrieveData, storeVars, interfVars, historyVars
<1>2. Calls(t, r)
  BY DEF RetrieveData
<1>3. q \in RequestType
  BY RequestIsRequest DEF Bucket, Kind
<1>4. /\ r \in RequestType /\ r.op = "get" /\ r.bucket = "filemeta" /\ r.kind = "filemeta"
      /\ r.hash = h /\ r.status = "pending" /\ r.passed = "no"
      /\ (r.sure => h \in stored \ flawed)
  <2>1. /\ q.op = "get" /\ q.bucket = "filemeta" /\ q.kind = "filemeta"
        /\ q.hash = h /\ q.status = "pending" /\ q.passed = "no"
    BY DEF Request
  <2>2. ASSUME NEW b \in BOOLEAN, r = [q EXCEPT !.sure = b]
        PROVE  /\ r \in RequestType /\ r.sure = b
               /\ r.op = q.op /\ r.bucket = q.bucket /\ r.kind = q.kind
               /\ r.hash = q.hash /\ r.status = q.status /\ r.passed = q.passed
    BY <1>3, <2>2 DEF RequestType
  <2>3. (h \in stored \ flawed) \in BOOLEAN
    OBVIOUS
  <2> DEFINE b == h \in stored \ flawed
  <2>4. b \in BOOLEAN /\ r = [q EXCEPT !.sure = b]
    BY <2>3
  <2> HIDE DEF b, q, r
  <2>5. /\ r \in RequestType /\ r.sure = b
        /\ r.op = q.op /\ r.bucket = q.bucket /\ r.kind = q.kind
        /\ r.hash = q.hash /\ r.status = q.status /\ r.passed = q.passed
    BY <2>2, <2>4
  <2> QED BY <2>1, <2>5 DEF b
<1> HIDE DEF r
<1>5. ConnectionCallOK(r, objects)
  BY <1>4 DEF ConnectionCallOK, IInv, StoredIsInBuckets, Lengths, Data
<1>6. TypeOK'
  BY <1>1, <1>2, <1>4, ConnectionType DEF IInv, TypeOK
<1>7. ConnectionsInv' /\ DataThreadInv'
  BY <1>1, <1>2, <1>4, <1>5, ConnectionCalls
<1>8. AskedInv'
  BY <1>1, <1>2, <1>4, ConnectionAsked
<1>9. LengthsFirst' /\ UnneededIsStored' /\ StoredIsInBuckets' /\ GivenIsContent'
  BY <1>1, BlocksStay
<1> QED BY <1>6, <1>7, <1>8, <1>9 DEF IInv

(* A block that is surely stored has lengths, so that its data are asked   *)
(* for too.                                                                *)
LEMMA GetFilemetaValuesInv ==
  ASSUME IInv, NEW t \in Thread, GetFilemetaValues(t)
  PROVE  IInv'
<1> DEFINE q == Request("get", "data", "data", call[t].hash)
           r == IF call[t].passed # "no" THEN [q EXCEPT !.sure = call[t].sure] ELSE NoCall
<1>1. /\ call[t] # NoCall /\ call[t].op = "get" /\ retriesG' \in {-1, 0, 1}
      /\ UNCHANGED <<running, ready, s3up, buckets, objects, statusG, dataQueue, bucketOf,
                     asked, stored, flawed, unneeded, given,
                     posts, asks, outages, starts>>
  BY ReturnsStep, Threads DEF GetFilemetaValues, historyVars, countVars
<1>2. Calls(t, r)
  BY DEF GetFilemetaValues
<1>3. /\ call[t].hash \in Hash /\ call[t].sure \in BOOLEAN
      /\ ConnectionCallOK(call[t], objects)
  BY <1>1, CallType, Threads DEF IInv, ConnectionsInv
<1>4. q \in RequestType
  BY <1>3, RequestIsRequest DEF Bucket, Kind
<1>5. ASSUME r # NoCall
      PROVE  /\ r \in RequestType /\ r.op = "get" /\ r.bucket = "data" /\ r.kind = "data"
             /\ r.hash = call[t].hash /\ r.status = "pending" /\ r.passed = "no"
             /\ r.sure = call[t].sure
  <2>1. /\ q.op = "get" /\ q.bucket = "data" /\ q.kind = "data"
        /\ q.hash = call[t].hash /\ q.status = "pending" /\ q.passed = "no"
    BY DEF Request
  <2> QED BY <1>3, <1>4, <1>5, <2>1 DEF RequestType
<1> HIDE DEF r
<1>6. r # NoCall => ConnectionCallOK(r, objects)
  BY <1>1, <1>3, <1>5 DEF ConnectionCallOK
<1>7. TypeOK'
  BY <1>1, <1>2, <1>5, ConnectionType DEF IInv, TypeOK
<1>8. ConnectionsInv' /\ DataThreadInv'
  BY <1>1, <1>2, <1>5, <1>6, ConnectionCalls
<1>9. AskedInv'
  BY <1>1, <1>2, <1>5, ConnectionAsked
<1>10. LengthsFirst' /\ UnneededIsStored' /\ StoredIsInBuckets' /\ GivenIsContent'
  BY <1>1, BlocksStay
<1> QED BY <1>7, <1>8, <1>9, <1>10 DEF IInv

LEMMA GetDataInv ==
  ASSUME IInv, NEW t \in Thread, GetData(t)
  PROVE  IInv'
<1> DEFINE r == call[t]
           g == [hash |-> r.hash, value |-> Content(r), sure |-> r.sure,
                 lost |-> r.status = "failed", confused |-> r.confused]
<1>1. /\ r # NoCall /\ r.op = "get" /\ r.status # "pending" /\ retriesG' \in {-1, 0, 1}
      /\ Calls(t, NoCall) /\ given' = given \cup {g}
      /\ UNCHANGED <<running, ready, s3up, buckets, objects, statusG, dataQueue, bucketOf,
                     asked, stored, flawed, unneeded, posts, asks, outages, starts>>
  BY ReturnsStep, Threads DEF GetData, Returns, Answered, countVars
<1>2. /\ r.hash \in Hash /\ r.sure \in BOOLEAN /\ r.confused \in BOOLEAN
      /\ r.passed \in {"no", "once", "again"}
      /\ ConnectionCallOK(r, objects)
  BY <1>1, CallType, Threads DEF IInv, ConnectionsInv
<1>3. g \in Given
  BY <1>2 DEF Given, Content, Image
<1>4. ASSUME g.sure
      PROVE  \/ g.value = Image(g.hash)
             \/ g.value = "empty" /\ g.lost
             \/ g.value = "repeated" /\ g.confused
  <2>1. CASE r.passed = "no"
    BY <1>1, <1>2, <1>4, <2>1 DEF ConnectionCallOK, Content
  <2>2. CASE r.passed = "once"
    BY <2>2 DEF Content
  <2>3. CASE r.passed = "again"
    BY <1>1, <1>2, <2>3 DEF ConnectionCallOK, Content
  <2> QED BY <1>2, <2>1, <2>2, <2>3
<1> HIDE DEF g
<1>5. TypeOK'
  BY <1>1, <1>3, ConnectionType DEF IInv, TypeOK
<1>6. ConnectionsInv' /\ DataThreadInv'
  BY <1>1, ConnectionCalls
<1>7. AskedInv'
  BY <1>1, ConnectionAsked
<1>8. LengthsFirst' /\ UnneededIsStored' /\ StoredIsInBuckets'
  BY <1>1 DEF IInv, LengthsFirst, Data, Lengths, UnneededIsStored, StoredIsInBuckets
<1>9. GivenIsContent'
  BY <1>1, <1>4 DEF IInv, GivenIsContent
<1> QED BY <1>5, <1>6, <1>7, <1>8, <1>9 DEF IInv

-----------------------------------------------------------------------------
LEMMA InitInv == Init => IInv
<1> SUFFICES ASSUME Init PROVE IInv
  OBVIOUS
<1>1. TypeOK
  <2>1. <<>> \in Seq(Hash)
    OBVIOUS
  <2>2. {0} \subseteq (0 .. MaxPosts) \cap (0 .. MaxAsks)
                      \cap (0 .. MaxOutages) \cap (0 .. MaxStarts)
    BY ConstantsAssumption
  <2>3. bucketOf \in [Kind -> Bucket]
    BY KindsAreBuckets DEF Init
  <2> QED BY <2>1, <2>2, <2>3 DEF Init, TypeOK
<1>2. ConnectionsInv /\ DataThreadInv /\ AskedInv
  BY Threads DEF Init, ConnectionsInv, DataThreadInv, AskedInv
<1>3. LengthsFirst /\ UnneededIsStored /\ StoredIsInBuckets /\ GivenIsContent
  BY DEF Init, LengthsFirst, Data, Lengths, UnneededIsStored, StoredIsInBuckets,
         GivenIsContent
<1> QED BY <1>1, <1>2, <1>3 DEF IInv

LEMMA StutterInv ==
  ASSUME IInv, UNCHANGED vars
  PROVE  IInv'
<1>1. UNCHANGED <<objects, call, bucketOf, asked, historyVars>>
  BY DEF vars, storeVars
<1>2. TypeOK'
  BY DEF IInv, TypeOK, vars, storeVars, interfVars, historyVars, countVars
<1> QED BY <1>1, <1>2, QuietStep DEF IInv

LEMMA NextInv == IInv /\ [Next]_vars => IInv'
<1> SUFFICES ASSUME IInv, [Next]_vars PROVE IInv'
  OBVIOUS
<1>1. CASE DataThreadNext
  BY <1>1, StoreDataInv, CheckBucketAccessInv, AddBucketInv, SaveFilemetaInv, SaveDataInv
  DEF DataThreadNext
<1>2. ASSUME NEW t \in Thread, ConnectionNext(t)
      PROVE  IInv'
  BY <1>2, BuildNeededHashListInv, CheckDataBucketInv, CheckKeyExistInBucketInv,
     RetrieveDataInv, GetFilemetaValuesInv, GetDataInv
  DEF ConnectionNext
<1>3. ASSUME NEW t \in AllThreads, Perform(t) \/ Retry(t)
      PROVE  IInv'
  BY <1>3, PerformInv, RetryInv
<1>4. CASE Outage \/ Recovery \/ CreateFallbackBucket \/ Crash
  BY <1>4, StoreComesAndGoes, CreateFallbackBucketInv, CrashInv
<1>5. ASSUME NEW h \in Hash, PostData(h)
      PROVE  IInv'
  BY <1>5, PostDataInv
<1>6. ASSUME NEW addMissing \in BOOLEAN, InitBackend(addMissing)
      PROVE  IInv'
  BY <1>6, InitBackendInv
<1>7. CASE UNCHANGED vars
  BY <1>7, StutterInv
<1> QED BY <1>1, <1>2, <1>3, <1>4, <1>5, <1>6, <1>7 DEF Next

(* The invariant holds whatever the blocks, the threads, the outages and   *)
(* the stops of the server.                                                *)
THEOREM IInvCorrect == Spec => []IInv
BY InitInv, NextInv, PTL DEF Spec

(* Every variable has its type: what is asked of the store is a request of *)
(* minio_interface.c, and no list of hashes is read past its end.          *)
THEOREM TypeCorrect == Spec => []TypeOK
<1>1. IInv => TypeOK
  BY DEF IInv
<1> QED BY <1>1, IInvCorrect, PTL

(* A block that minio_build_needed_hash_list has found, with its own status*)
(* and not another call's, has its data where minio_retrieve_data looks,   *)
(* and its lengths too unless a put of it failed. Nothing is said of the   *)
(* blocks that the empty answer of an unreached bucket leaves out.         *)
THEOREM UnneededIsStoredCorrect == Spec => []UnneededIsStored
<1>1. IInv => UnneededIsStored
  BY DEF IInv
<1> QED BY <1>1, IInvCorrect, PTL

(* minio_store_data leaves the two objects of a block where they are       *)
(* looked for, unless a put failed or went to the fallback bucket.         *)
THEOREM StoredIsInBucketsCorrect == Spec => []StoredIsInBuckets
<1>1. IInv => StoredIsInBuckets
  BY DEF IInv
<1> QED BY <1>1, IInvCorrect, PTL

(* minio_retrieve_data gives what was put of a block that was stored when  *)
(* it was asked for; nothing if the store is lost meanwhile, and the same  *)
(* data several times only if the status of another call had it tried      *)
(* again.                                                                  *)
THEOREM GivenIsContentCorrect == Spec => []GivenIsContent
<1>1. IInv => GivenIsContent
  BY DEF IInv
<1> QED BY <1>1, IInvCorrect, PTL
=============================================================================
