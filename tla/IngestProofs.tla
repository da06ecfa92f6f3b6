---------------------------- MODULE IngestProofs ----------------------------
(***************************************************************************)
(* Ingest for any number of connections, meta data, blocks, stops and      *)
(* failed writes: what the server vouches for it holds, and a fault spoils *)
(* one block at most.                                                      *)
(***************************************************************************)
EXTENDS Ingest, TLAPS, FiniteSetTheorems

-----------------------------------------------------------------------------
(* Queues.                                                                 *)

LEMMA TailOfQueue ==
  ASSUME NEW S, NEW q \in Seq(S), q # <<>>
  PROVE  /\ Head(q) \in S
         /\ Tail(q) \in Seq(S)
         /\ ToSet(q) = {Head(q)} \cup ToSet(Tail(q))
<1>1. Head(q) \in S /\ Tail(q) \in Seq(S)
  OBVIOUS
<1>2. \A x \in ToSet(q) : x = Head(q) \/ x \in ToSet(Tail(q))
  <2> SUFFICES ASSUME NEW i \in DOMAIN q, i # 1
               PROVE  q[i] \in ToSet(Tail(q))
    BY DEF ToSet
  <2>1. i - 1 \in DOMAIN Tail(q) /\ Tail(q)[i - 1] = q[i]
    OBVIOUS
  <2> QED BY <2>1 DEF ToSet
<1>3. \A i \in DOMAIN Tail(q) : i + 1 \in DOMAIN q /\ Tail(q)[i] = q[i + 1]
  OBVIOUS
<1>4. Head(q) = q[1] /\ 1 \in DOMAIN q
  OBVIOUS
<1> QED BY <1>1, <1>2, <1>3, <1>4 DEF ToSet

LEMMA AppendToQueue ==
  ASSUME NEW S, NEW q \in Seq(S), NEW x \in S
  PROVE  /\ Append(q, x) \in Seq(S)
         /\ ToSet(Append(q, x)) = ToSet(q) \cup {x}
<1>1. /\ Append(q, x) \in Seq(S)
      /\ DOMAIN Append(q, x) = DOMAIN q \cup {Len(q) + 1}
      /\ Append(q, x)[Len(q) + 1] = x
      /\ \A i \in DOMAIN q : Append(q, x)[i] = q[i]
  OBVIOUS
<1> QED BY <1>1 DEF ToSet

LEMMA QueuedInSet ==
  \A h : Queued(h) <=> \E b \in ToSet(dataQ) : b.hash = h
  BY DEF Queued, ToSet

LEMMA EmptyQueue == ToSet(<<>>) = {}
  BY DEF ToSet

(* Appending an element that is not there keeps the elements distinct.     *)
Distinct(s) == \A i, j \in DOMAIN s : s[i] = s[j] => i = j

LEMMA AppendDistinct ==
  ASSUME NEW S, NEW s \in Seq(S), NEW x \in S, Distinct(s), x \notin ToSet(s)
  PROVE  Distinct(Append(s, x))
<1>1. /\ DOMAIN Append(s, x) = DOMAIN s \cup {Len(s) + 1}
      /\ Append(s, x)[Len(s) + 1] = x
      /\ \A i \in DOMAIN s : Append(s, x)[i] = s[i]
  OBVIOUS
<1>2. \A i \in DOMAIN s : s[i] # x
  BY DEF ToSet
<1> QED BY <1>1, <1>2 DEF Distinct

-----------------------------------------------------------------------------
(* Requests.                                                               *)

(* A step of the thread of connection c leaves the other threads alone.    *)
LEMMA ConnStep ==
  ASSUME NEW c \in Conn, NEW r \in Request, conn \in [Conn -> Request],
         conn' = [conn EXCEPT ![c] = r]
  PROVE  /\ conn' \in [Conn -> Request]
         /\ conn'[c] = r
         /\ \A d \in Conn \ {c} : conn'[d] = conn[d]
  OBVIOUS

LEMMA RequestFields ==
  ASSUME NEW r \in Request
  PROVE  /\ r.url \in Url \cup {"none"}
         /\ r.ask \in Seq(Hash)
         /\ r.needed \in Seq(Hash)
         /\ r.meta \subseteq Meta
         /\ r.blocks \in Seq(Block)
         /\ r = [url |-> r.url, ask |-> r.ask, needed |-> r.needed,
                 meta |-> r.meta, blocks |-> r.blocks]
  BY DEF Request

LEMMA IdleRequest == Idle \in Request /\ Idle.needed = <<>>
  BY DEF Idle, Request, Url

LEMMA ArraysAreSeqs == ASSUME NEW S PROVE Arrays(S) \subseteq Seq(S)
<1> SUFFICES ASSUME NEW n \in 1 .. MaxArray, NEW a \in [1 .. n -> S]
             PROVE  a \in Seq(S)
  BY DEF Arrays
<1>1. n \in Nat
  BY ConstantsAssumption
<1> QED BY <1>1

(* What a client posts is a request with no answer yet.                    *)
LEMMA MetaRequestType ==
  ASSUME NEW m \in Meta, NEW hs \in Seq(Hash)
  PROVE  MetaRequest(m, hs) \in Request /\ MetaRequest(m, hs).needed = <<>>
  BY DEF MetaRequest, Request, Url

LEMMA HashArrayRequestType ==
  ASSUME NEW hs \in Seq(Hash)
  PROVE  HashArrayRequest(hs) \in Request /\ HashArrayRequest(hs).needed = <<>>
  BY DEF HashArrayRequest, Request, Url

LEMMA DataArrayRequestType ==
  ASSUME NEW bs \in Seq(Block)
  PROVE  DataArrayRequest(bs) \in Request /\ DataArrayRequest(bs).needed = <<>>
  BY DEF DataArrayRequest, Request, Url

LEMMA PostIsReceive ==
  ASSUME NEW c \in Conn, Post(c)
  PROVE  \E r \in Request : r.needed = <<>> /\ Receive(c, r)
<1>1. ASSUME NEW m \in Meta, NEW hs \in Arrays(Hash) \cup {<<>>},
             Receive(c, MetaRequest(m, hs))
      PROVE  \E r \in Request : r.needed = <<>> /\ Receive(c, r)
  <2>1. hs \in Seq(Hash)
    <3>1. <<>> \in Seq(Hash)
      OBVIOUS
    <3> QED BY <3>1, ArraysAreSeqs
  <2> QED BY <1>1, <2>1, MetaRequestType
<1>2. ASSUME NEW hs \in Arrays(Hash), Receive(c, HashArrayRequest(hs))
      PROVE  \E r \in Request : r.needed = <<>> /\ Receive(c, r)
  <2>1. hs \in Seq(Hash)
    BY ArraysAreSeqs
  <2> QED BY <1>2, <2>1, HashArrayRequestType
<1>3. ASSUME NEW bs \in Arrays(Block), Receive(c, DataArrayRequest(bs))
      PROVE  \E r \in Request : r.needed = <<>> /\ Receive(c, r)
  <2>1. bs \in Seq(Block)
    BY ArraysAreSeqs
  <2> QED BY <1>3, <2>1, DataArrayRequestType
<1> QED BY <1>1, <1>2, <1>3 DEF Post

(* Nothing below depends on the length of what clients post: the steps of  *)
(* the server, with requests of any length.                                *)
AnyPost(c) == \E r \in Request : r.needed = <<>> /\ Receive(c, r)

AnyNext ==
    \/ \E c \in Conn : AnyPost(c) \/ Handler(c) \/ CreateResponse(c)
    \/ StoreSmeta
    \/ DataThread
    \/ Restart

LEMMA NextIsAny == Next => AnyNext
  BY PostIsReceive DEF Next, AnyNext, AnyPost

(* One turn of the loop of file_build_needed_hash_list: the answer grows   *)
(* by the hash that was looked for, or not at all.                         *)
LEMMA BuildStep ==
  ASSUME TypeOK, NEW c \in Conn, BuildNeededHashList(c)
  PROVE  LET h == Head(conn[c].ask) IN
         /\ h \in Hash
         /\ conn' \in [Conn -> Request]
         /\ \A d \in Conn \ {c} : conn'[d] = conn[d]
         /\ conn'[c].needed = IF Exists(h) \/ h \in ToSet(conn[c].needed)
                              THEN conn[c].needed ELSE Append(conn[c].needed, h)
<1> DEFINE h == Head(conn[c].ask)
           n == IF Exists(h) \/ h \in ToSet(conn[c].needed)
                THEN conn[c].needed ELSE Append(conn[c].needed, h)
           r == [conn[c] EXCEPT !.ask = Tail(conn[c].ask), !.needed = n]
<1>1. conn[c] \in Request /\ conn[c].ask # <<>>
  BY DEF TypeOK, BuildNeededHashList
<1>2. h \in Hash /\ Tail(conn[c].ask) \in Seq(Hash) /\ n \in Seq(Hash)
  BY <1>1, RequestFields
<1>3. conn' = [conn EXCEPT ![c] = r]
  BY DEF BuildNeededHashList
<1> HIDE DEF h, n
<1>4. r \in Request /\ r.needed = n
  <2> DEFINE q == conn[c]
             hs == Tail(q.ask)
  <2>1. q \in Request /\ hs \in Seq(Hash)
    BY <1>1, <1>2
  <2>2. r = [q EXCEPT !.ask = hs, !.needed = n]
    OBVIOUS
  <2> HIDE DEF r, q, hs
  <2> QED BY <1>2, <2>1, <2>2 DEF Request
<1> HIDE DEF r
<1>5. conn \in [Conn -> Request]
  BY DEF TypeOK
<1> QED BY <1>2, <1>3, <1>4, <1>5, ConnStep DEF h, n

LEMMA PushMetaStep ==
  ASSUME TypeOK, NEW c \in Conn, PushMeta(c)
  PROVE  /\ conn' \in [Conn -> Request]
         /\ \A d \in Conn : conn'[d].needed = conn[d].needed
         /\ \E m \in Meta : metaQ' = Append(metaQ, m) /\ vouched' = vouched \cup {m}
<1> DEFINE q == conn[c]
           r == [q EXCEPT !.meta = {}]
<1>1. q \in Request /\ conn \in [Conn -> Request]
  BY DEF TypeOK
<1>2. conn' = [conn EXCEPT ![c] = r]
  BY DEF PushMeta
<1>3. r \in Request /\ r.needed = q.needed
  <2>1. r = [q EXCEPT !.meta = {}]
    OBVIOUS
  <2> HIDE DEF q, r
  <2> QED BY <1>1, <2>1 DEF Request
<1>4. \E m \in Meta : metaQ' = Append(metaQ, m) /\ vouched' = vouched \cup {m}
  BY <1>1, RequestFields DEF PushMeta
<1> HIDE DEF r
<1> QED BY <1>1, <1>2, <1>3, <1>4, ConnStep

LEMMA PushDataStep ==
  ASSUME TypeOK, NEW c \in Conn, PushData(c)
  PROVE  /\ conn' \in [Conn -> Request]
         /\ \A d \in Conn : conn'[d].needed = conn[d].needed
         /\ \E b \in Block : dataQ' = Append(dataQ, b) /\ vouched' = vouched \cup {b.hash}
<1> DEFINE q == conn[c]
           bs == Tail(q.blocks)
           r == [q EXCEPT !.blocks = bs]
<1>1. q \in Request /\ conn \in [Conn -> Request]
  BY DEF TypeOK
<1>2. conn' = [conn EXCEPT ![c] = r]
  BY DEF PushData
<1>3. q.blocks # <<>> /\ q.blocks \in Seq(Block)
  BY <1>1, RequestFields DEF PushData
<1>4. Head(q.blocks) \in Block /\ bs \in Seq(Block)
  BY <1>3, TailOfQueue
<1>5. r \in Request /\ r.needed = q.needed
  <2>1. r = [q EXCEPT !.blocks = bs]
    OBVIOUS
  <2> HIDE DEF q, r, bs
  <2> QED BY <1>1, <1>4, <2>1 DEF Request
<1>6. \E b \in Block : dataQ' = Append(dataQ, b) /\ vouched' = vouched \cup {b.hash}
  BY <1>4 DEF PushData
<1> HIDE DEF r
<1> QED BY <1>1, <1>2, <1>5, <1>6, ConnStep

-----------------------------------------------------------------------------
(* Types.                                                                  *)

LEMMA BlockInHand ==
  ASSUME TypeOK, storer = "pop" <=> block = NoBlock, storer # "pop"
  PROVE  block \in Block /\ block.hash \in Hash /\ block.cmp \in CmpType
  BY DEF TypeOK, Block

LEMMA InitType == Init => TypeOK
<1> SUFFICES ASSUME Init PROVE TypeOK
  OBVIOUS
<1>1. conn \in [Conn -> Request]
  BY IdleRequest DEF Init
<1>2. <<>> \in Seq(Meta) /\ <<>> \in Seq(Block)
  OBVIOUS
<1>3. crashes \in 0 .. MaxCrashes /\ faults \in 0 .. MaxFaults /\ requests \in 0 .. MaxRequests
  BY ConstantsAssumption DEF Init
<1> QED BY <1>1, <1>2, <1>3 DEF Init, TypeOK

LEMMA NextType ==
  ASSUME TypeOK, storer = "pop" <=> block = NoBlock, [AnyNext]_vars
  PROVE  TypeOK'
<1> USE ConstantsAssumption
<1>1. CASE UNCHANGED vars
  BY <1>1 DEF TypeOK, vars, queueVars, storerVars, fileVars, boundVars
<1>2. ASSUME NEW c \in Conn, AnyPost(c) PROVE TypeOK'
  <2>1. PICK r \in Request : Receive(c, r)
    BY <1>2 DEF AnyPost
  <2>2. conn' \in [Conn -> Request]
    BY <2>1, ConnStep DEF TypeOK, Receive
  <2>3. requests' \in 0 .. MaxRequests
    BY <2>1 DEF TypeOK, Receive
  <2> QED BY <2>1, <2>2, <2>3 DEF TypeOK, Receive, queueVars, storerVars, fileVars
<1>3. ASSUME NEW c \in Conn, BuildNeededHashList(c) PROVE TypeOK'
  <2>1. conn' \in [Conn -> Request] /\ vouched' \subseteq Meta \cup Hash
    BY <1>3, BuildStep DEF BuildNeededHashList, TypeOK
  <2> QED BY <1>3, <2>1
          DEF TypeOK, BuildNeededHashList, queueVars, storerVars, fileVars, boundVars
<1>4. ASSUME NEW c \in Conn, PushMeta(c) PROVE TypeOK'
  <2>1. PICK m \in Meta : metaQ' = Append(metaQ, m) /\ vouched' = vouched \cup {m}
    BY <1>4, PushMetaStep
  <2>2. conn' \in [Conn -> Request]
    BY <1>4, PushMetaStep
  <2>3. metaQ' \in Seq(Meta) /\ vouched' \subseteq Meta \cup Hash
    BY <2>1 DEF TypeOK
  <2> QED BY <1>4, <2>2, <2>3 DEF TypeOK, PushMeta, storerVars, fileVars, boundVars
<1>5. ASSUME NEW c \in Conn, PushData(c) PROVE TypeOK'
  <2>1. PICK b \in Block : dataQ' = Append(dataQ, b) /\ vouched' = vouched \cup {b.hash}
    BY <1>5, PushDataStep
  <2>2. conn' \in [Conn -> Request]
    BY <1>5, PushDataStep
  <2>3. b.hash \in Hash
    BY DEF Block
  <2>4. dataQ' \in Seq(Block) /\ vouched' \subseteq Meta \cup Hash
    BY <2>1, <2>3 DEF TypeOK
  <2> QED BY <1>5, <2>2, <2>4 DEF TypeOK, PushData, storerVars, fileVars, boundVars
<1>6. ASSUME NEW c \in Conn, CreateResponse(c) PROVE TypeOK'
  <2>1. conn' \in [Conn -> Request]
    BY <1>6, IdleRequest, ConnStep DEF TypeOK, CreateResponse
  <2> QED BY <1>6, <2>1
          DEF TypeOK, CreateResponse, queueVars, storerVars, fileVars, boundVars
<1>7. ASSUME StoreSmeta PROVE TypeOK'
  <2>1. Head(metaQ) \in Meta /\ metaQ' \in Seq(Meta)
    BY <1>7, TailOfQueue DEF TypeOK, StoreSmeta
  <2>2. harmed' \subseteq Meta \cup Hash /\ faults' \in 0 .. MaxFaults
    <3>1. \/ UNCHANGED <<faults, harmed>>
          \/ faults' = faults /\ harmed' = harmed \cup {Head(metaQ)}
          \/ Fault(Head(metaQ))
      BY <1>7 DEF StoreSmeta, NoFault
    <3> QED BY <2>1, <3>1 DEF TypeOK, Fault
  <2>3. lines' \subseteq Meta /\ partial' \in BOOLEAN
    BY <1>7, <2>1 DEF TypeOK, StoreSmeta, Fault, NoFault
  <2>4. UNCHANGED <<conn, dataQ, storer, block, data, dotmeta, vouched, crashes, requests>>
    BY <1>7 DEF StoreSmeta, storerVars
  <2> QED BY <2>1, <2>2, <2>3, <2>4 DEF TypeOK
<1>8. ASSUME PopData PROVE TypeOK'
  <2>1. block' \in Block /\ dataQ' \in Seq(Block)
    BY <1>8, TailOfQueue DEF TypeOK, PopData
  <2> QED BY <1>8, <2>1 DEF TypeOK, PopData, fileVars, boundVars
<1>9. ASSUME SetMetadataToFileMeta PROVE TypeOK'
  <2>1. block.hash \in Hash /\ block.cmp \in CmpType
    BY <1>9, BlockInHand DEF SetMetadataToFileMeta
  <2>2. harmed' \subseteq Meta \cup Hash /\ faults' \in 0 .. MaxFaults
    BY <1>9, <2>1 DEF TypeOK, SetMetadataToFileMeta, Fault, NoFault
  <2>3. dotmeta' \in [Hash -> CmpType \cup {"absent"}]
    BY <1>9, <2>1 DEF TypeOK, SetMetadataToFileMeta
  <2> QED BY <1>9, <2>2, <2>3 DEF TypeOK, SetMetadataToFileMeta, queueVars
<1>10. ASSUME FileReplace PROVE TypeOK'
  <2>1. block.hash \in Hash
    BY <1>10, BlockInHand DEF FileReplace
  <2>2. harmed' \subseteq Meta \cup Hash /\ faults' \in 0 .. MaxFaults
    BY <1>10, <2>1 DEF TypeOK, FileReplace, Fault, NoFault
  <2>3. data' \in [Hash -> CmpType \cup {"absent", "torn"}]
    BY <1>10, <2>1 DEF TypeOK, FileReplace
  <2>4. storer' \in {"pop", "write"} /\ block' \in Block \cup {NoBlock}
    BY <1>10 DEF TypeOK, FileReplace
  <2> QED BY <1>10, <2>2, <2>3, <2>4 DEF TypeOK, FileReplace, queueVars
<1>11. ASSUME WriteData PROVE TypeOK'
  <2>1. block.hash \in Hash /\ block.cmp \in CmpType
    BY <1>11, BlockInHand DEF WriteData
  <2>2. harmed' \subseteq Meta \cup Hash /\ faults' \in 0 .. MaxFaults
    BY <1>11, <2>1 DEF TypeOK, WriteData, Fault, NoFault
  <2>3. data' \in [Hash -> CmpType \cup {"absent", "torn"}]
    BY <1>11, <2>1 DEF TypeOK, WriteData
  <2> QED BY <1>11, <2>2, <2>3 DEF TypeOK, WriteData, queueVars
<1>12. ASSUME Restart PROVE TypeOK'
  <2>1. conn' \in [Conn -> Request]
    BY <1>12, IdleRequest DEF Restart
  <2>2. ToSet(metaQ) \subseteq Meta
    BY DEF TypeOK, ToSet
  <2>3. harmed' \subseteq Meta \cup Hash /\ crashes' \in 0 .. MaxCrashes
    BY <1>12, <2>2 DEF TypeOK, Restart
  <2>4. metaQ' \in Seq(Meta) /\ dataQ' \in Seq(Block)
    BY <1>12 DEF Restart
  <2> QED BY <1>12, <2>1, <2>3, <2>4 DEF TypeOK, Restart, fileVars
<1> QED BY <1>1, <1>2, <1>3, <1>4, <1>5, <1>6, <1>7, <1>8, <1>9, <1>10, <1>11, <1>12
        DEF AnyNext, Handler, DataThread

-----------------------------------------------------------------------------
(* The answers.                                                            *)

LEMMA NextNeededOnce ==
  ASSUME TypeOK, NeededOnce, [AnyNext]_vars
  PROVE  NeededOnce'
<1> SUFFICES ASSUME NEW d \in Conn PROVE Distinct(conn'[d].needed)
  BY DEF NeededOnce, Distinct
<1>0. Distinct(conn[d].needed) /\ conn \in [Conn -> Request]
  BY DEF NeededOnce, Distinct, TypeOK
<1>1. CASE conn' = conn
  BY <1>0, <1>1
<1>2. Distinct(<<>>)
  BY DEF Distinct
<1>3. ASSUME NEW c \in Conn, AnyPost(c) PROVE Distinct(conn'[d].needed)
  <2>1. PICK r \in Request : r.needed = <<>> /\ Receive(c, r)
    BY <1>3 DEF AnyPost
  <2>2. conn' = [conn EXCEPT ![c] = r]
    BY <2>1 DEF Receive
  <2> QED BY <1>0, <1>2, <2>1, <2>2
<1>4. ASSUME NEW c \in Conn, BuildNeededHashList(c) PROVE Distinct(conn'[d].needed)
  <2> DEFINE h == Head(conn[c].ask)
  <2>1. CASE d # c
    BY <1>0, <1>4, <2>1, BuildStep
  <2>2. CASE d = c
    <3>1. h \in Hash /\ conn[c].needed \in Seq(Hash)
      BY <1>0, <1>4, BuildStep, RequestFields
    <3>2. conn'[c].needed = IF Exists(h) \/ h \in ToSet(conn[c].needed)
                            THEN conn[c].needed ELSE Append(conn[c].needed, h)
      BY <1>4, BuildStep
    <3> HIDE DEF h
    <3>3. h \notin ToSet(conn[c].needed) => Distinct(Append(conn[c].needed, h))
      BY <1>0, <2>2, <3>1, AppendDistinct
    <3> QED BY <1>0, <2>2, <3>2, <3>3
  <2> QED BY <2>1, <2>2
<1>5. ASSUME NEW c \in Conn, PushMeta(c) \/ PushData(c) PROVE Distinct(conn'[d].needed)
  BY <1>0, <1>5, PushMetaStep, PushDataStep
<1>6. ASSUME NEW c \in Conn, CreateResponse(c) PROVE Distinct(conn'[d].needed)
  BY <1>0, <1>2, <1>6, IdleRequest DEF CreateResponse
<1>7. ASSUME Restart PROVE Distinct(conn'[d].needed)
  BY <1>2, <1>7, IdleRequest DEF Restart
<1>8. StoreSmeta \/ DataThread \/ UNCHANGED vars => conn' = conn
  BY DEF StoreSmeta, DataThread, PopData, SetMetadataToFileMeta, FileReplace, WriteData, vars
<1> QED BY <1>1, <1>3, <1>4, <1>5, <1>6, <1>7, <1>8 DEF AnyNext, Handler

-----------------------------------------------------------------------------
(* The store.                                                              *)

LEMMA OneMore ==
  ASSUME NEW S, NEW T, NEW x, IsFiniteSet(S), T \subseteq S \cup {x}
  PROVE  /\ IsFiniteSet(T)
         /\ Cardinality(S) \in Nat /\ Cardinality(T) \in Nat
         /\ Cardinality(T) <= Cardinality(S) + 1
         /\ T \subseteq S => Cardinality(T) <= Cardinality(S)
<1>1. IsFiniteSet(S \cup {x}) /\ Cardinality(S) \in Nat
      /\ Cardinality(S \cup {x}) \in Nat
      /\ Cardinality(S \cup {x}) <= Cardinality(S) + 1
  BY FS_AddElement, FS_CardinalityType
<1>2. IsFiniteSet(T) /\ Cardinality(T) <= Cardinality(S \cup {x}) /\ Cardinality(T) \in Nat
  BY <1>1, FS_Subset, FS_CardinalityType
<1>3. T \subseteq S => Cardinality(T) <= Cardinality(S)
  BY FS_Subset
<1> QED BY <1>1, <1>2, <1>3

(* The part of the strengthening about the block files.                    *)
Whole == \A h \in Hash : Exists(h) => Readable(h) \/ BeingStored(h) \/ h \in harmed

Counted ==
    /\ IsFiniteSet(Spoiled)
    /\ Cardinality(Spoiled) + SpoiledSoon <= crashes + faults

StoreInv ==
    /\ storer = "pop" <=> block = NoBlock
    /\ Whole
    /\ Mislabelled => block.hash \in harmed
    /\ Counted

(* Nothing happens to the files: a fault, at most, of the other thread.    *)
LEMMA StoreUntouched ==
  ASSUME TypeOK, TypeOK', StoreInv, UNCHANGED <<storer, block, data, dotmeta>>,
         harmed \subseteq harmed', crashes' = crashes, faults <= faults'
  PROVE  StoreInv'
<1>1. \A h : /\ Exists(h)' <=> Exists(h)
             /\ Readable(h)' <=> Readable(h)
             /\ BeingStored(h)' <=> BeingStored(h)
  BY DEF Exists, Readable, BeingStored, StoredCmpType
<1>2. Spoiled' = Spoiled
  BY <1>1 DEF Spoiled
<1>3. (Mislabelled' <=> Mislabelled) /\ SpoiledSoon' = SpoiledSoon
  BY DEF Mislabelled, SpoiledSoon, StoredCmpType
<1>4. Cardinality(Spoiled) \in Nat /\ SpoiledSoon \in Nat
  BY FS_CardinalityType DEF StoreInv, Counted, SpoiledSoon
<1>5. crashes \in Nat /\ faults \in Nat /\ faults' \in Nat
  BY ConstantsAssumption DEF TypeOK
<1>6. Counted'
  BY <1>2, <1>3, <1>4, <1>5 DEF StoreInv, Counted
<1>7. Whole'
  BY <1>1 DEF StoreInv, Whole
<1> QED BY <1>3, <1>6, <1>7 DEF StoreInv

(* data_thread works on the file of the block in hand only.                *)
LEMMA OneBlockTouched ==
  ASSUME TypeOK, StoreInv, storer # "pop", block' \in {block, NoBlock},
         NEW b \in Hash, b = block.hash,
         \A h \in Hash \ {b} : data'[h] = data[h] /\ dotmeta'[h] = dotmeta[h]
  PROVE  /\ \A h \in Hash \ {b} :
               /\ Exists(h)' <=> Exists(h)
               /\ Readable(h)' <=> Readable(h)
               /\ ~BeingStored(h) /\ ~BeingStored(h)'
         /\ Spoiled' \subseteq Spoiled \cup {b}
         /\ block' = block => Spoiled' \subseteq Spoiled
         /\ Readable(b)' => Spoiled' \subseteq Spoiled
<1>1. block \in Block /\ block # NoBlock
  BY BlockInHand, ConstantsAssumption DEF StoreInv
<1>2. \A h \in Hash \ {b} :
         /\ Exists(h)' <=> Exists(h)
         /\ Readable(h)' <=> Readable(h)
         /\ ~BeingStored(h) /\ ~BeingStored(h)'
  BY <1>1 DEF Exists, Readable, BeingStored, StoredCmpType
<1>3. block' = block => BeingStored(b)'
  BY <1>1 DEF BeingStored
<1> QED BY <1>2, <1>3 DEF Spoiled

LEMMA WholeStep ==
  ASSUME TypeOK, StoreInv, storer # "pop", block' \in {block, NoBlock},
         NEW b \in Hash, b = block.hash, harmed \subseteq harmed',
         \A h \in Hash \ {b} : data'[h] = data[h] /\ dotmeta'[h] = dotmeta[h],
         block' = block \/ Readable(b)' \/ b \in harmed'
  PROVE  Whole'
<1>1. \A h \in Hash \ {b} : (Exists(h)' <=> Exists(h)) /\ (Readable(h)' <=> Readable(h)) /\ ~BeingStored(h)
  BY OneBlockTouched
<1>2. block' = block => BeingStored(b)'
  BY BlockInHand, ConstantsAssumption DEF StoreInv, BeingStored
<1> QED BY <1>1, <1>2 DEF StoreInv, Whole

(* Counting: as many more spoiled blocks as faults more, the one that is   *)
(* about to be spoiled included.                                           *)
LEMMA CountSame ==
  ASSUME NEW C \in Nat, NEW D \in Nat, NEW n \in {0, 1}, NEW k \in {0, 1},
         NEW a \in Nat, NEW b \in Nat, C + n <= a + b, D <= C, k <= n
  PROVE  D + k <= a + b
  OBVIOUS

LEMMA CountMoved ==
  ASSUME NEW C \in Nat, NEW D \in Nat, NEW n \in {0, 1}, NEW k \in {0, 1},
         NEW a \in Nat, NEW b \in Nat, C + n <= a + b, D <= C + 1, n = 1, k = 0
  PROVE  D + k <= a + b
  OBVIOUS

LEMMA CountMore ==
  ASSUME NEW C \in Nat, NEW D \in Nat, NEW n \in {0, 1}, NEW k \in {0, 1},
         NEW a \in Nat, NEW b \in Nat, C + n <= a + b, D <= C + 1, D <= C \/ k = 0
  PROVE  D + k <= (a + 1) + b /\ D + k <= a + (b + 1)
  OBVIOUS

OneFault ==
    \/ crashes' = crashes /\ faults' = faults + 1
    \/ crashes' = crashes + 1 /\ faults' = faults

LEMMA CountedStep ==
  ASSUME TypeOK, TypeOK', StoreInv, NEW x, Spoiled' \subseteq Spoiled \cup {x},
         \/ /\ crashes' = crashes /\ faults' = faults
            /\ \/ Spoiled' \subseteq Spoiled /\ (Mislabelled' => Mislabelled)
               \/ Mislabelled /\ ~Mislabelled'
         \/ /\ OneFault
            /\ Spoiled' \subseteq Spoiled \/ ~Mislabelled'
  PROVE  Counted'
<1> DEFINE C == Cardinality(Spoiled)
           D == Cardinality(Spoiled')
           n == SpoiledSoon
           k == SpoiledSoon'
<1>1. /\ IsFiniteSet(Spoiled')
      /\ C \in Nat /\ D \in Nat
      /\ D <= C + 1
      /\ Spoiled' \subseteq Spoiled => D <= C
  BY OneMore DEF StoreInv, Counted
<1>2. /\ n \in {0, 1} /\ k \in {0, 1}
      /\ Mislabelled => n = 1
      /\ ~Mislabelled => n = 0
      /\ Mislabelled' => k = 1
      /\ ~Mislabelled' => k = 0
  BY DEF SpoiledSoon
<1>3. (Mislabelled' => Mislabelled) => k <= n
  <2>1. \A i, j \in {0, 1} : (i = 1 => j = 1) => i <= j
    OBVIOUS
  <2>2. (Mislabelled' => Mislabelled) => (k = 1 => n = 1)
    <3>1. 1 # 0
      OBVIOUS
    <3> QED BY <1>2, <3>1, Zenon
  <2> QED BY <1>2, <2>1, <2>2, Zenon
<1>4. crashes \in Nat /\ faults \in Nat /\ crashes' \in Nat /\ faults' \in Nat
  BY ConstantsAssumption DEF TypeOK
<1>5. C + n <= crashes + faults
  BY DEF StoreInv, Counted
<1> HIDE DEF C, D, n, k
<1>6. SUFFICES D + k <= crashes' + faults'
  BY <1>1, <1>6, Zenon DEF Counted, D, k
<1>7. CASE /\ crashes' = crashes /\ faults' = faults
           /\ Spoiled' \subseteq Spoiled /\ (Mislabelled' => Mislabelled)
  <2>1. D <= C /\ k <= n
    BY <1>1, <1>3, <1>7, Zenon
  <2>2. D + k <= crashes + faults
    BY <1>1, <1>2, <1>4, <1>5, <2>1, CountSame, Zenon
  <2> QED BY <1>7, <2>2, Zenon
<1>8. CASE crashes' = crashes /\ faults' = faults /\ Mislabelled /\ ~Mislabelled'
  <2>1. n = 1 /\ k = 0
    BY <1>2, <1>8, Zenon
  <2>2. D + k <= crashes + faults
    BY <1>1, <1>2, <1>4, <1>5, <2>1, CountMoved, Zenon
  <2> QED BY <1>8, <2>2, Zenon
<1>9. CASE OneFault /\ (Spoiled' \subseteq Spoiled \/ ~Mislabelled')
  <2>1. D <= C \/ k = 0
    BY <1>1, <1>2, <1>9, Zenon
  <2>2. D + k <= (crashes + 1) + faults /\ D + k <= crashes + (faults + 1)
    BY <1>1, <1>2, <1>4, <1>5, <2>1, CountMore, Zenon
  <2> QED BY <1>9, <2>2, Zenon DEF OneFault
<1> QED BY <1>7, <1>8, <1>9, Zenon

LEMMA PopDataStore ==
  ASSUME TypeOK, TypeOK', StoreInv, PopData PROVE StoreInv'
<1>1. block' \in Block /\ block' # NoBlock
  BY ConstantsAssumption, TailOfQueue DEF TypeOK, PopData
<1>2. \A h : /\ Exists(h)' <=> Exists(h)
             /\ Readable(h)' <=> Readable(h)
             /\ ~BeingStored(h)
  BY DEF PopData, StoreInv, fileVars, Exists, Readable, StoredCmpType, BeingStored
<1>3. Spoiled' \subseteq Spoiled
  BY <1>2 DEF Spoiled
<1>4. ~Mislabelled'
  BY DEF PopData, Mislabelled
<1>5. UNCHANGED <<crashes, faults, harmed>>
  BY DEF PopData, boundVars
<1>6. Counted'
  BY <1>3, <1>4, <1>5, CountedStep
<1>7. Whole'
  BY <1>2, <1>5 DEF StoreInv, Whole
<1> QED BY <1>1, <1>4, <1>6, <1>7 DEF StoreInv, PopData

LEMMA SetMetadataStore ==
  ASSUME TypeOK, TypeOK', StoreInv, SetMetadataToFileMeta PROVE StoreInv'
<1>1. PICK b \in Hash : b = block.hash
  BY BlockInHand DEF SetMetadataToFileMeta, StoreInv
<1>2. /\ storer = "meta" /\ storer' = "open" /\ block' = block /\ crashes' = crashes
      /\ harmed \subseteq harmed'
      /\ \A h \in Hash \ {b} : data'[h] = data[h] /\ dotmeta'[h] = dotmeta[h]
  BY <1>1 DEF TypeOK, SetMetadataToFileMeta, NoFault, Fault
<1>3. Spoiled' \subseteq Spoiled
  BY <1>1, <1>2, OneBlockTouched
<1>4. ~Mislabelled
  BY <1>2 DEF Mislabelled
<1>5. \/ faults' = faults /\ ~Mislabelled'
      \/ faults' = faults + 1 /\ b \in harmed'
  <2>1. block.cmp # "absent" /\ block.hash \in Hash
    BY <1>2, BlockInHand DEF StoreInv, CmpType
  <2>2. CASE dotmeta' = [dotmeta EXCEPT ![block.hash] = block.cmp] /\ NoFault
    BY <1>2, <2>1, <2>2 DEF TypeOK, Mislabelled, StoredCmpType, NoFault
  <2>3. CASE Fault(block.hash)
    BY <1>1, <2>3 DEF Fault
  <2> QED BY <2>2, <2>3 DEF SetMetadataToFileMeta
<1>6. Counted'
  BY <1>2, <1>3, <1>4, <1>5, CountedStep, Zenon DEF OneFault
<1>7. Whole'
  BY <1>1, <1>2, WholeStep
<1>8. Mislabelled' => b \in harmed'
  <2>1. CASE faults' = faults /\ ~Mislabelled'
    BY <2>1
  <2>2. CASE b \in harmed'
    BY <2>2
  <2> QED BY <1>5, <2>1, <2>2
<1> QED BY <1>1, <1>2, <1>6, <1>7, <1>8 DEF StoreInv

LEMMA FileReplaceStore ==
  ASSUME TypeOK, TypeOK', StoreInv, FileReplace PROVE StoreInv'
<1>1. PICK b \in Hash : b = block.hash
  BY BlockInHand DEF FileReplace, StoreInv
<1>2. /\ storer = "open" /\ crashes' = crashes /\ block # NoBlock
      /\ harmed \subseteq harmed'
      /\ \A h \in Hash \ {b} : data'[h] = data[h] /\ dotmeta'[h] = dotmeta[h]
  BY <1>1 DEF TypeOK, StoreInv, FileReplace, NoFault, Fault
<1>3. CASE storer' = "write" /\ block' = block /\ NoFault
  <2>1. Spoiled' \subseteq Spoiled
    BY <1>1, <1>2, <1>3, OneBlockTouched
  <2>2. Mislabelled' => Mislabelled
    BY <1>2, <1>3 DEF Mislabelled, StoredCmpType, FileReplace
  <2>3. Counted'
    BY <1>2, <1>3, <2>1, <2>2, CountedStep, Zenon DEF NoFault
  <2>4. Whole'
    BY <1>1, <1>2, <1>3, WholeStep
  <2>5. Mislabelled' => b \in harmed'
    BY <1>1, <1>2, <2>2 DEF StoreInv
  <2> QED BY <1>1, <1>2, <1>3, <2>3, <2>4, <2>5 DEF StoreInv
<1>4. CASE storer' = "pop" /\ block' = NoBlock /\ Fault(block.hash)
  <2>1. Spoiled' \subseteq Spoiled \cup {b}
    BY <1>1, <1>2, <1>4, OneBlockTouched
  <2>2. ~Mislabelled'
    BY <1>4 DEF Mislabelled
  <2>3. Counted'
    BY <1>2, <1>4, <2>1, <2>2, CountedStep, Zenon DEF Fault, OneFault
  <2>4. b \in harmed'
    BY <1>1, <1>4 DEF Fault
  <2>5. Whole'
    BY <1>1, <1>2, <1>4, <2>4, WholeStep
  <2> QED BY <1>4, <2>2, <2>3, <2>5 DEF StoreInv
<1> QED BY <1>3, <1>4 DEF FileReplace

LEMMA WriteDataStore ==
  ASSUME TypeOK, TypeOK', StoreInv, WriteData PROVE StoreInv'
<1>1. PICK b \in Hash : b = block.hash
  BY BlockInHand DEF WriteData, StoreInv
<1>2. /\ storer = "write" /\ storer' = "pop" /\ block' = NoBlock /\ crashes' = crashes
      /\ harmed \subseteq harmed' /\ dotmeta' = dotmeta
      /\ \A h \in Hash \ {b} : data'[h] = data[h] /\ dotmeta'[h] = dotmeta[h]
  BY <1>1 DEF TypeOK, WriteData, NoFault, Fault, fileVars
<1>3. Spoiled' \subseteq Spoiled \cup {b} /\ (Readable(b)' => Spoiled' \subseteq Spoiled)
  BY <1>1, <1>2, OneBlockTouched
<1>4. ~Mislabelled'
  BY <1>2 DEF Mislabelled
<1>5. CASE data' = [data EXCEPT ![block.hash] = block.cmp] /\ NoFault
  <2>1. data'[b] = block.cmp /\ block.cmp \in CmpType
    BY <1>1, <1>2, <1>5, BlockInHand DEF TypeOK, StoreInv
  <2>2. Mislabelled \/ Readable(b)'
    BY <1>1, <1>2, <2>1 DEF Mislabelled, Readable, StoredCmpType
  <2>3. Counted'
    BY <1>2, <1>3, <1>4, <1>5, <2>2, CountedStep, Zenon DEF NoFault
  <2>4. Readable(b)' \/ b \in harmed'
    BY <1>1, <1>2, <2>2 DEF StoreInv
  <2>5. Whole'
    BY <1>1, <1>2, <2>4, WholeStep
  <2> QED BY <1>2, <1>4, <2>3, <2>5 DEF StoreInv
<1>6. CASE Fault(block.hash)
  <2>1. Counted'
    BY <1>2, <1>3, <1>4, <1>6, CountedStep, Zenon DEF Fault, OneFault
  <2>2. b \in harmed'
    BY <1>1, <1>6 DEF Fault
  <2>3. Whole'
    BY <1>1, <1>2, <2>2, WholeStep
  <2> QED BY <1>2, <1>4, <2>1, <2>3 DEF StoreInv
<1> QED BY <1>5, <1>6 DEF WriteData

LEMMA RestartStore ==
  ASSUME TypeOK, TypeOK', StoreInv, Restart PROVE StoreInv'
<1>1. /\ storer' = "pop" /\ block' = NoBlock /\ crashes' = crashes + 1 /\ faults' = faults
      /\ harmed \subseteq harmed' /\ data' = data /\ dotmeta' = dotmeta
      /\ \A h \in Hash : BeingStored(h) => h \in harmed'
  BY DEF Restart, fileVars
<1>2. \A h : /\ Exists(h)' <=> Exists(h)
             /\ Readable(h)' <=> Readable(h)
             /\ ~BeingStored(h)'
  BY <1>1 DEF Exists, Readable, StoredCmpType, BeingStored
<1>3. PICK x : Spoiled' \subseteq Spoiled \cup {x}
  BY <1>2 DEF Spoiled, BeingStored
<1>4. ~Mislabelled'
  BY <1>1 DEF Mislabelled
<1>5. Counted'
  BY <1>1, <1>3, <1>4, CountedStep, Zenon DEF OneFault
<1>6. Whole'
  BY <1>1, <1>2 DEF StoreInv, Whole
<1> QED BY <1>1, <1>4, <1>5, <1>6 DEF StoreInv

LEMMA NextStoreInv ==
  ASSUME TypeOK, TypeOK', StoreInv, [AnyNext]_vars
  PROVE  StoreInv'
<1>1. ASSUME \/ \E c \in Conn : AnyPost(c) \/ Handler(c) \/ CreateResponse(c)
             \/ UNCHANGED vars
      PROVE  StoreInv'
  <2>1. UNCHANGED <<storer, block, data, dotmeta, harmed, crashes, faults>>
    BY <1>1
       DEF AnyPost, Receive, Handler, BuildNeededHashList, PushMeta, PushData, CreateResponse,
           storerVars, fileVars, boundVars, vars
  <2>2. faults <= faults'
    BY <2>1, ConstantsAssumption DEF TypeOK
  <2> QED BY <2>1, <2>2, StoreUntouched
<1>2. ASSUME StoreSmeta PROVE StoreInv'
  <2>1. /\ UNCHANGED <<storer, block, data, dotmeta, crashes>>
        /\ harmed \subseteq harmed'
        /\ faults' = faults \/ faults' = faults + 1
    BY <1>2 DEF StoreSmeta, storerVars, Fault, NoFault
  <2>2. faults <= faults'
    BY <2>1, ConstantsAssumption DEF TypeOK
  <2> QED BY <2>1, <2>2, StoreUntouched
<1>3. DataThread => StoreInv'
  BY PopDataStore, SetMetadataStore, FileReplaceStore, WriteDataStore DEF DataThread
<1> QED BY <1>1, <1>2, <1>3, RestartStore DEF AnyNext

-----------------------------------------------------------------------------
(* What the server vouches for.                                            *)

(* Nothing is lost silently, and what is new is there.                     *)
LEMMA VouchedStep ==
  ASSUME TypeOK, VouchedIsHeld, harmed \subseteq harmed',
         \A x \in Meta \cup Hash : Held(x) => Held(x)' \/ x \in harmed',
         NEW Y, vouched' \subseteq vouched \cup Y,
         \A y \in Y : Held(y)' \/ y \in harmed'
  PROVE  VouchedIsHeld'
  BY DEF TypeOK, VouchedIsHeld

(* The queues grow, the files stay.                                        *)
LEMMA HeldInQueues ==
  ASSUME UNCHANGED <<block, lines, data, dotmeta>>,
         ToSet(metaQ) \subseteq ToSet(metaQ'), ToSet(dataQ) \subseteq ToSet(dataQ'),
         NEW x, Held(x)
  PROVE  Held(x)'
<1>1. /\ Readable(x)' <=> Readable(x)
      /\ BeingStored(x)' <=> BeingStored(x)
  BY DEF Readable, StoredCmpType, BeingStored
<1>2. Queued(x) => Queued(x)'
  <2>1. Queued(x)' <=> \E b \in ToSet(dataQ') : b.hash = x
    BY DEF Queued, ToSet
  <2> QED BY <2>1, QueuedInSet
<1> QED BY <1>1, <1>2 DEF Held

(* The queues stay, and the files but for that of block b.                 *)
LEMMA HeldInFiles ==
  ASSUME UNCHANGED <<metaQ, dataQ, lines>>, TypeOK, StoreInv, storer # "pop",
         block' \in {block, NoBlock}, NEW b \in Hash, b = block.hash,
         \A h \in Hash \ {b} : data'[h] = data[h] /\ dotmeta'[h] = dotmeta[h],
         block' = block \/ Readable(b)' \/ b \in harmed',
         NEW x, Held(x)
  PROVE  Held(x)' \/ x \in harmed'
<1>1. Queued(x)' <=> Queued(x)
  BY DEF Queued
<1>2. x \in Hash \ {b} => (Readable(x)' <=> Readable(x)) /\ ~BeingStored(x)
  BY OneBlockTouched
<1>3. block' = block => BeingStored(b)'
  BY BlockInHand, ConstantsAssumption DEF StoreInv, BeingStored
<1> QED BY <1>1, <1>2, <1>3 DEF Held

LEMMA NextVouched ==
  ASSUME TypeOK, StoreInv, VouchedIsHeld, [AnyNext]_vars
  PROVE  VouchedIsHeld'
<1>1. ASSUME \/ UNCHANGED vars
             \/ \E c \in Conn : AnyPost(c) \/ CreateResponse(c)
      PROVE  VouchedIsHeld'
  <2>1. UNCHANGED <<queueVars, block, lines, data, dotmeta, vouched, harmed>>
    BY <1>1 DEF AnyPost, Receive, CreateResponse, storerVars, fileVars, vars
  <2>2. UNCHANGED <<metaQ, dataQ>>
    BY <2>1 DEF queueVars
  <2>3. \A x : Held(x) => Held(x)'
    BY <2>1, <2>2, HeldInQueues
  <2> QED BY <2>1, <2>3 DEF VouchedIsHeld
<1>2. ASSUME NEW c \in Conn, BuildNeededHashList(c) PROVE VouchedIsHeld'
  <2> DEFINE h == Head(conn[c].ask)
  <2>1. /\ UNCHANGED <<metaQ, dataQ, storer, block, lines, data, dotmeta, harmed>>
        /\ vouched' = IF Exists(h) THEN vouched \cup {h} ELSE vouched
        /\ h \in Hash
    BY <1>2, BuildStep DEF BuildNeededHashList, queueVars, storerVars, fileVars
  <2>2. \A x : Held(x) => Held(x)'
    BY <2>1, HeldInQueues
  <2> HIDE DEF h
  <2>3. Exists(h) => Held(h) \/ h \in harmed
    BY <2>1 DEF StoreInv, Whole, Held
  <2> QED BY <2>1, <2>2, <2>3 DEF VouchedIsHeld
<1>3. ASSUME NEW c \in Conn, PushMeta(c) PROVE VouchedIsHeld'
  <2>1. PICK m \in Meta : metaQ' = Append(metaQ, m) /\ vouched' = vouched \cup {m}
    BY <1>3, PushMetaStep
  <2>2. UNCHANGED <<dataQ, block, lines, data, dotmeta, harmed>>
    BY <1>3 DEF PushMeta, storerVars, fileVars
  <2>3. metaQ \in Seq(Meta)
    BY DEF TypeOK
  <2>4. ToSet(metaQ') = ToSet(metaQ) \cup {m}
    BY <2>1, <2>3, AppendToQueue
  <2>5. \A x : Held(x) => Held(x)'
    BY <2>2, <2>4, HeldInQueues
  <2>6. Held(m)'
    BY <2>4 DEF Held
  <2> QED BY <2>1, <2>2, <2>5, <2>6 DEF VouchedIsHeld
<1>4. ASSUME NEW c \in Conn, PushData(c) PROVE VouchedIsHeld'
  <2>1. PICK b \in Block : dataQ' = Append(dataQ, b) /\ vouched' = vouched \cup {b.hash}
    BY <1>4, PushDataStep
  <2>2. UNCHANGED <<metaQ, block, lines, data, dotmeta, harmed>>
    BY <1>4 DEF PushData, storerVars, fileVars
  <2>3. dataQ \in Seq(Block) /\ b.hash \in Hash
    BY DEF TypeOK, Block
  <2>4. ToSet(dataQ') = ToSet(dataQ) \cup {b}
    BY <2>1, <2>3, AppendToQueue
  <2>5. \A x : Held(x) => Held(x)'
    BY <2>2, <2>4, HeldInQueues
  <2>6. Queued(b.hash)'
    <3>1. Queued(b.hash)' <=> \E e \in ToSet(dataQ') : e.hash = b.hash
      BY DEF Queued, ToSet
    <3> QED BY <2>4, <3>1
  <2>7. Held(b.hash)'
    BY <2>3, <2>6 DEF Held
  <2> QED BY <2>1, <2>2, <2>5, <2>7 DEF VouchedIsHeld
<1>5. ASSUME StoreSmeta PROVE VouchedIsHeld'
  <2> DEFINE m == Head(metaQ)
  <2>1. ToSet(metaQ) = {m} \cup ToSet(metaQ') /\ m \in Meta
    BY <1>5, TailOfQueue DEF TypeOK, StoreSmeta
  <2>2. /\ UNCHANGED <<dataQ, block, data, dotmeta, vouched>>
        /\ harmed \subseteq harmed' /\ lines \subseteq lines'
        /\ m \in lines' \/ m \in harmed'
    BY <1>5 DEF StoreSmeta, storerVars, Fault, NoFault
  <2> HIDE DEF m
  <2>3. \A x : /\ Readable(x)' <=> Readable(x)
               /\ BeingStored(x)' <=> BeingStored(x)
               /\ Queued(x)' <=> Queued(x)
    BY <2>2 DEF Readable, StoredCmpType, BeingStored, Queued
  <2>4. \A x : Held(x) => Held(x)' \/ x \in harmed'
    BY <2>1, <2>2, <2>3 DEF Held
  <2> QED BY <2>2, <2>4 DEF VouchedIsHeld
<1>6. ASSUME PopData PROVE VouchedIsHeld'
  <2>0. Head(dataQ) \in Block /\ ToSet(dataQ) = {Head(dataQ)} \cup ToSet(dataQ')
    BY <1>6, TailOfQueue DEF TypeOK, PopData
  <2>1. PICK b \in Block : b = Head(dataQ) /\ ToSet(dataQ) = {b} \cup ToSet(dataQ')
    BY <2>0
  <2>2. /\ UNCHANGED <<metaQ, lines, data, dotmeta, vouched, harmed>>
        /\ block = NoBlock /\ block' = b
    BY <1>6, <2>1 DEF PopData, fileVars, StoreInv
  <2>3. \A x : (Readable(x)' <=> Readable(x)) /\ ~BeingStored(x)
    BY <2>2 DEF Readable, StoredCmpType, BeingStored
  <2>4. \A x : Queued(x) => Queued(x)' \/ BeingStored(x)'
    <3>1. \A x : Queued(x)' <=> \E e \in ToSet(dataQ') : e.hash = x
      BY DEF Queued, ToSet
    <3>2. BeingStored(b.hash)'
      BY <2>1, <2>2, ConstantsAssumption DEF BeingStored
    <3> QED BY <2>1, <3>1, <3>2, QueuedInSet
  <2>5. \A x : Held(x) => Held(x)'
    BY <2>2, <2>3, <2>4 DEF Held
  <2> QED BY <2>2, <2>5 DEF VouchedIsHeld
<1>7. ASSUME SetMetadataToFileMeta \/ FileReplace \/ WriteData PROVE VouchedIsHeld'
  <2>1. storer # "pop"
    BY <1>7 DEF SetMetadataToFileMeta, FileReplace, WriteData
  <2>2. PICK b \in Hash : b = block.hash
    BY <2>1, BlockInHand DEF StoreInv
  <2>3. /\ UNCHANGED <<metaQ, dataQ, lines, vouched>>
        /\ block' \in {block, NoBlock}
        /\ harmed \subseteq harmed'
    BY <1>7 DEF SetMetadataToFileMeta, FileReplace, WriteData, queueVars, Fault, NoFault
  <2>4. \A h \in Hash \ {b} : data'[h] = data[h] /\ dotmeta'[h] = dotmeta[h]
    BY <1>7, <2>2 DEF TypeOK, SetMetadataToFileMeta, FileReplace, WriteData
  <2>5. block' = block \/ Readable(b)' \/ b \in harmed'
    <3>1. CASE SetMetadataToFileMeta
      BY <3>1 DEF SetMetadataToFileMeta
    <3>2. CASE FileReplace
      BY <2>2, <3>2 DEF FileReplace, Fault
    <3>3. CASE WriteData
      <4>1. CASE Fault(block.hash)
        BY <2>2, <4>1 DEF Fault
      <4>2. CASE data' = [data EXCEPT ![block.hash] = block.cmp] /\ NoFault
        <5>1. dotmeta' = dotmeta /\ storer = "write"
          BY <3>3 DEF WriteData
        <5>2. data'[b] = block.cmp /\ block.cmp \in CmpType
          BY <2>1, <2>2, <4>2, BlockInHand DEF TypeOK, StoreInv
        <5>3. Mislabelled \/ Readable(b)'
          BY <2>2, <5>1, <5>2 DEF Mislabelled, Readable, StoredCmpType
        <5> QED BY <2>2, <2>3, <5>3 DEF StoreInv
      <4> QED BY <3>3, <4>1, <4>2 DEF WriteData
    <3> QED BY <1>7, <3>1, <3>2, <3>3
  <2>6. \A x : Held(x) => Held(x)' \/ x \in harmed'
    BY <2>1, <2>2, <2>3, <2>4, <2>5, HeldInFiles
  <2> QED BY <2>3, <2>6 DEF VouchedIsHeld
<1>8. ASSUME Restart PROVE VouchedIsHeld'
  <2>1. /\ UNCHANGED <<lines, data, dotmeta, vouched>>
        /\ harmed' = harmed \cup ToSet(metaQ) \cup {h \in Hash : Queued(h) \/ BeingStored(h)}
    BY <1>8 DEF Restart, fileVars
  <2>2. \A x : Readable(x)' <=> Readable(x)
    BY <2>1 DEF Readable, StoredCmpType
  <2>3. \A x : Held(x) => Held(x)' \/ x \in harmed'
    BY <2>1, <2>2 DEF Held
  <2> QED BY <2>1, <2>3 DEF VouchedIsHeld
<1> QED BY <1>1, <1>2, <1>3, <1>4, <1>5, <1>6, <1>7, <1>8 DEF AnyNext, Handler, DataThread

-----------------------------------------------------------------------------
(* The inductive invariant.                                                *)

LEMMA IInvParts == IInv <=> TypeOK /\ StoreInv /\ VouchedIsHeld /\ NeededOnce
  BY DEF IInv, StoreInv, Whole, Counted

LEMMA InitIInv == Init => IInv
<1> SUFFICES ASSUME Init PROVE IInv
  OBVIOUS
<1>1. TypeOK
  BY InitType
<1>2. \A h \in Hash : ~Exists(h)
  BY DEF Init, Exists
<1>3. Spoiled = {}
  BY <1>2 DEF Spoiled
<1>4. ~Mislabelled /\ SpoiledSoon = 0
  BY DEF Init, Mislabelled, SpoiledSoon
<1>5. Counted
  <2>1. IsFiniteSet({}) /\ Cardinality({}) = 0
    BY FS_EmptySet
  <2>2. crashes + faults = 0
    BY DEF Init
  <2> QED BY <1>3, <1>4, <2>1, <2>2 DEF Counted
<1>6. StoreInv
  BY <1>2, <1>4, <1>5 DEF StoreInv, Whole, Init
<1>7. VouchedIsHeld
  BY DEF Init, VouchedIsHeld
<1>8. NeededOnce
  BY IdleRequest DEF Init, NeededOnce
<1> QED BY <1>1, <1>6, <1>7, <1>8, IInvParts

LEMMA AnyNextIInv == IInv /\ [AnyNext]_vars => IInv'
<1> SUFFICES ASSUME IInv, [AnyNext]_vars PROVE IInv'
  OBVIOUS
<1>1. TypeOK /\ StoreInv /\ VouchedIsHeld /\ NeededOnce
  BY IInvParts
<1>2. TypeOK'
  BY <1>1, NextType DEF StoreInv
<1>3. StoreInv'
  BY <1>1, <1>2, NextStoreInv
<1>4. VouchedIsHeld'
  BY <1>1, NextVouched
<1>5. NeededOnce'
  BY <1>1, NextNeededOnce
<1> QED BY <1>2, <1>3, <1>4, <1>5 DEF IInv, StoreInv, Whole, Counted

LEMMA NextIInv == IInv /\ [Next]_vars => IInv'
  BY NextIsAny, AnyNextIInv

(* The strengthening holds in every reachable state.                       *)
THEOREM IInvCorrect == Spec => []IInv
  BY InitIInv, NextIInv, PTL DEF Spec

(* Every variable keeps its type.                                          *)
THEOREM TypeCorrect == Spec => []TypeOK
<1>1. IInv => TypeOK
  BY DEF IInv
<1> QED BY <1>1, IInvCorrect, PTL

(* However connections, queues, the store threads, stops and failed writes *)
(* interleave, what the server has taken, or told a client not to send, it *)
(* still holds, but for what a stop or a failed write took.                *)
THEOREM VouchedIsHeldCorrect == Spec => []VouchedIsHeld
<1>1. IInv => VouchedIsHeld
  BY DEF IInv
<1> QED BY <1>1, IInvCorrect, PTL

(* No answer asks for a hash twice.                                        *)
THEOREM NeededOnceCorrect == Spec => []NeededOnce
<1>1. IInv => NeededOnce
  BY DEF IInv
<1> QED BY <1>1, IInvCorrect, PTL

(* For any number of blocks, stops and failed writes, there are never more *)
(* spoiled blocks than there were faults.                                  *)
THEOREM OneBlockPerFaultCorrect == Spec => []OneBlockPerFault
<1>1. IInv => OneBlockPerFault
  <2> SUFFICES ASSUME IInv PROVE OneBlockPerFault
    OBVIOUS
  <2> DEFINE C == Cardinality(Spoiled)
  <2>1. C \in Nat /\ SpoiledSoon \in {0, 1} /\ C + SpoiledSoon <= crashes + faults
    BY FS_CardinalityType DEF IInv, SpoiledSoon
  <2>2. crashes \in Nat /\ faults \in Nat
    BY ConstantsAssumption DEF IInv, TypeOK
  <2> HIDE DEF C
  <2>3. C <= crashes + faults
    BY <2>1, <2>2
  <2> QED BY <2>3 DEF OneBlockPerFault, C
<1> QED BY <1>1, IInvCorrect, PTL

(* The action of CompleteStays, by itself.                                 *)
CompleteStep ==
    \A h \in Hash :
        data[h] \in CmpType => data'[h] \in CmpType \/ faults' > faults

LEMMA NextComplete == IInv /\ [Next]_vars => [CompleteStep]_vars
<1> SUFFICES ASSUME IInv, Next, NEW h \in Hash, data[h] \in CmpType
             PROVE  data'[h] \in CmpType \/ faults' > faults
  BY DEF CompleteStep
<1>1. TypeOK /\ StoreInv
  BY IInvParts
<1>2. ASSUME NEW x, Fault(x) PROVE faults' > faults
  BY <1>1, <1>2, ConstantsAssumption DEF Fault, TypeOK
<1>3. CASE data' = data
  BY <1>3
<1>4. CASE FileReplace
  <2>1. Exists(h) /\ (Exists(block.hash) => data' = data \/ Fault(block.hash))
    BY <1>4 DEF Exists, FileReplace, CmpType
  <2>2. CASE h = block.hash
    BY <1>2, <2>1, <2>2
  <2>3. CASE h # block.hash
    BY <1>1, <1>4, <2>3 DEF FileReplace, TypeOK
  <2> QED BY <2>2, <2>3
<1>5. CASE WriteData
  <2>1. block.hash \in Hash /\ block.cmp \in CmpType
    BY <1>1, <1>5, BlockInHand DEF WriteData, StoreInv
  <2>2. CASE data' = [data EXCEPT ![block.hash] = block.cmp]
    BY <1>1, <2>1, <2>2 DEF TypeOK
  <2>3. CASE Fault(block.hash)
    BY <1>2, <2>3
  <2> QED BY <1>5, <2>2, <2>3 DEF WriteData
<1>6. \/ data' = data \/ FileReplace \/ WriteData
  BY PostIsReceive
     DEF Next, Receive, Handler, BuildNeededHashList, PushMeta, PushData, CreateResponse,
         StoreSmeta, DataThread, PopData, SetMetadataToFileMeta, Restart, fileVars
<1> QED BY <1>3, <1>4, <1>5, <1>6

(* A complete block file is never made incomplete but by a failed write.   *)
THEOREM CompleteStaysCorrect == Spec => CompleteStays
<1>1. CompleteStays <=> [][CompleteStep]_vars
  BY PTL DEF CompleteStays, CompleteStep
<1> QED BY <1>1, NextComplete, IInvCorrect, PTL DEF Spec
=============================================================================
