---------------------------- MODULE BackupProofs ----------------------------
(***************************************************************************)
(* Backup for any files, blocks and connections: the client is a client    *)
(* and the server a server, an answer is worth to the thread that waits    *)
(* for it what the client makes of it, and a cached file is held. The      *)
(* proof joins those of SaveFileProofs and IngestProofs.                   *)
(***************************************************************************)
EXTENDS Backup, FiniteSetTheorems, TLAPS

CP == INSTANCE SaveFileProofs
      WITH crashes <- clientCrashes, MaxCrashes <- MaxClientCrashes

SP == INSTANCE IngestProofs WITH Meta <- File

-----------------------------------------------------------------------------
(* The modules and their proofs are about the same.                        *)

LEMMA SameConstants == CP!ConstantsAssumption /\ SP!ConstantsAssumption
  BY ConstantsAssumption
  DEF CP!ConstantsAssumption, C!ConstantsAssumption, SP!ConstantsAssumption,
      S!ConstantsAssumption, SP!Block, S!Block, SP!CmpType, S!CmpType

LEMMA SameClientVars == (UNCHANGED C!vars) => UNCHANGED CP!vars
  BY DEF CP!vars, C!vars, CP!threadVars, C!threadVars, CP!otherVars, C!otherVars

LEMMA SameOperators ==
  /\ \A s : C!LetsSendAllThatNow(s) <=> CP!LetsSendAllThatNow(s)
  /\ \A f, hs : C!SendMetaData(f, hs) <=> CP!SendMetaData(f, hs)
  /\ \A h : C!FindHashInList(h) = CP!FindHashInList(h)
  /\ \A s, i : C!RemoveAt(s, i) = CP!RemoveAt(s, i)
  /\ \A s : C!Reverse(s) = CP!Reverse(s)
  /\ \A s : C!ToSet(s) = CP!ToSet(s)
  /\ \A hs : C!Answers(hs) = CP!Answers(hs)
<1>1. \A s : C!LetsSendAllThatNow(s) <=> CP!LetsSendAllThatNow(s)
  BY DEF C!LetsSendAllThatNow, CP!LetsSendAllThatNow
<1>2. \A f, hs : C!SendMetaData(f, hs) <=> CP!SendMetaData(f, hs)
  BY DEF C!SendMetaData, CP!SendMetaData
<1>3. \A h : C!FindHashInList(h) = CP!FindHashInList(h)
  BY DEF C!FindHashInList, CP!FindHashInList
<1>4. \A s, i : C!RemoveAt(s, i) = CP!RemoveAt(s, i)
  BY DEF C!RemoveAt, CP!RemoveAt
<1>5. \A s : C!Reverse(s) = CP!Reverse(s)
  BY DEF C!Reverse, CP!Reverse
<1>6. \A s : C!ToSet(s) = CP!ToSet(s)
  BY DEF C!ToSet, CP!ToSet
<1>7. \A hs : C!Answers(hs) = CP!Answers(hs)
  BY DEF C!Answers, CP!Answers, C!SetToSeqs, CP!SetToSeqs, C!ToSet, CP!ToSet, C!Cardinality, CP!Cardinality
<1> QED BY <1>1, <1>2, <1>3, <1>4, <1>5, <1>6, <1>7

LEMMA SameClient == C!Next => CP!Next
<1> USE SameOperators DEF C!threadVars, C!otherVars, CP!threadVars, CP!otherVars
<1>1. \A f \in File : C!ProcessSmallFile(f) \/ C!ProcessBigFile(f)
                       => CP!ProcessSmallFile(f) \/ CP!ProcessBigFile(f)
  BY DEF C!ProcessSmallFile, C!ProcessBigFile, CP!ProcessSmallFile, CP!ProcessBigFile
<1>2. C!ReadBlock => CP!ReadBlock
  BY DEF C!ReadBlock, CP!ReadBlock
<1>3. C!EndOfFile => CP!EndOfFile
  BY DEF C!EndOfFile, CP!EndOfFile
<1>4. C!FinishBigFile => CP!FinishBigFile
  BY DEF C!FinishBigFile, CP!FinishBigFile
<1>5. C!ReadError => CP!ReadError
  BY DEF C!ReadError, CP!ReadError
<1>6. (C!MetaPosted => CP!MetaPosted) /\ (C!MetaKept => CP!MetaKept)
  BY DEF C!MetaPosted, CP!MetaPosted, C!MetaKept, CP!MetaKept
<1>7. /\ C!HashArrayPosted => CP!HashArrayPosted
      /\ C!HashArrayNotPosted => CP!HashArrayNotPosted
  BY DEF C!HashArrayPosted, CP!HashArrayPosted, C!HashArrayNotPosted, CP!HashArrayNotPosted
<1>8. C!PickBlock => CP!PickBlock
  BY DEF C!PickBlock, CP!PickBlock
<1>9. C!SendRest => CP!SendRest
  BY DEF C!SendRest, CP!SendRest
<1>10. (C!DataArrayPosted => CP!DataArrayPosted) /\ (C!DataArrayKept => CP!DataArrayKept)
  BY DEF C!DataArrayPosted, CP!DataArrayPosted, C!DataArrayKept, CP!DataArrayKept
<1>11. C!DbSaveMetaData => CP!DbSaveMetaData
  BY DEF C!DbSaveMetaData, CP!DbSaveMetaData
<1>12. \A x \in C!Item : x \in CP!Item /\ (C!Vouch(x) => CP!Vouch(x))
  BY DEF C!Vouch, CP!Vouch, C!Item, CP!Item
<1>13. \A post : C!Transmit(post) => CP!Transmit(post)
  BY DEF C!Transmit, CP!Transmit
<1>14. C!CrashAndRestart => CP!CrashAndRestart
  BY DEF C!CrashAndRestart, CP!CrashAndRestart
<1> HIDE SameOperators
<1> QED
  BY <1>1, <1>2, <1>3, <1>4, <1>5, <1>6, <1>7, <1>8, <1>9, <1>10, <1>11, <1>12, <1>13,
     <1>14 DEF C!Next, CP!Next

LEMMA SameReceive ==
  ASSUME NEW c \in Conn, NEW r, S!Receive(c, r)
  PROVE  SP!Receive(c, r)
  BY DEF S!Receive, S!Idle, S!queueVars, S!storerVars, S!fileVars,
         SP!Receive, SP!Idle, SP!queueVars, SP!storerVars, SP!fileVars

LEMMA SameHandler ==
  ASSUME NEW c \in Conn
  PROVE  /\ S!Handler(c) => SP!Handler(c)
         /\ S!CreateResponse(c) => SP!CreateResponse(c)
         /\ S!Answered(c) <=> SP!Answered(c)
  BY DEF S!Handler, S!CreateResponse, S!BuildNeededHashList, S!PushMeta, S!PushData,
         S!Answered, S!Idle, S!Exists, S!ToSet, S!queueVars, S!storerVars, S!fileVars,
         S!boundVars,
         SP!Handler, SP!CreateResponse, SP!BuildNeededHashList, SP!PushMeta, SP!PushData,
         SP!Answered, SP!Idle, SP!Exists, SP!ToSet, SP!queueVars, SP!storerVars,
         SP!fileVars, SP!boundVars

LEMMA SameStore ==
  /\ S!StoreSmeta => SP!StoreSmeta
  /\ S!DataThread => SP!DataThread
  /\ S!Restart => SP!Restart
  BY DEF S!StoreSmeta, S!DataThread, S!PopData, S!SetMetadataToFileMeta, S!FileReplace,
         S!WriteData, S!Restart, S!Fault, S!NoFault, S!Exists, S!Queued, S!BeingStored,
         S!Idle, S!ToSet, S!queueVars, S!storerVars, S!fileVars, S!boundVars,
         SP!StoreSmeta, SP!DataThread, SP!PopData, SP!SetMetadataToFileMeta, SP!FileReplace,
         SP!WriteData, SP!Restart, SP!Fault, SP!NoFault, SP!Exists, SP!Queued,
         SP!BeingStored, SP!Idle, SP!ToSet, SP!queueVars, SP!storerVars, SP!fileVars,
         SP!boundVars

-----------------------------------------------------------------------------
(* Sequences.                                                              *)

LEMMA HeadAndTail ==
  ASSUME NEW T, NEW s \in Seq(T), s # <<>>
  PROVE  /\ Head(s) \in T
         /\ Tail(s) \in Seq(T)
         /\ ToSet(s) = {Head(s)} \cup ToSet(Tail(s))
<1>1. SP!ToSet(s) = ToSet(s) /\ SP!ToSet(Tail(s)) = ToSet(Tail(s))
  BY DEF SP!ToSet, ToSet
<1>2. SP!ConstantsAssumption
  BY SameConstants
<1> QED BY <1>1, <1>2, SP!TailOfQueue

LEMMA Appended ==
  ASSUME NEW T, NEW s \in Seq(T), NEW x \in T
  PROVE  /\ Append(s, x) \in Seq(T)
         /\ ToSet(Append(s, x)) = ToSet(s) \cup {x}
<1>1. /\ SP!ToSet(s) = ToSet(s)
      /\ SP!ToSet(Append(s, x)) = ToSet(Append(s, x))
  BY DEF SP!ToSet, ToSet
<1>2. SP!ConstantsAssumption
  BY SameConstants
<1> QED BY <1>1, <1>2, SP!AppendToQueue

LEMMA NoElements == ToSet(<<>>) = {}
  BY DEF ToSet

(* A list without repetition is one of those of its elements.              *)
LEMMA ListOfItsElements ==
  ASSUME NEW T, NEW s \in Seq(T), \A i, j \in DOMAIN s : s[i] = s[j] => i = j
  PROVE  s \in SetToSeqs(ToSet(s)) /\ IsFiniteSet(ToSet(s))
<1> DEFINE n == Len(s)
<1>1. n \in Nat /\ DOMAIN s = 1 .. n
  OBVIOUS
<1>2. s \in [1 .. n -> ToSet(s)] /\ \A x \in ToSet(s) : \E i \in 1 .. n : s[i] = x
  BY <1>1 DEF ToSet
<1>3. s \in Surjection(1 .. n, ToSet(s)) /\ s \in Injection(1 .. n, ToSet(s))
  BY <1>1, <1>2 DEF Surjection, Injection, IsInjective
<1>4. IsFiniteSet(1 .. n) /\ Cardinality(1 .. n) = n
  BY <1>1, FS_Interval
<1>5. IsFiniteSet(ToSet(s)) /\ Cardinality(ToSet(s)) = n
  BY <1>3, <1>4, FS_Surjection
<1> QED BY <1>1, <1>2, <1>5 DEF SetToSeqs

(* SetToSeq is a list of the elements of a finite set.                     *)
LEMMA SomeOrder ==
  ASSUME NEW X, IsFiniteSet(X), NEW T, X \subseteq T
  PROVE  SetToSeq(X) \in Seq(T) /\ ToSet(SetToSeq(X)) = X
<1> DEFINE c == Cardinality(X)
           P(f) == f \in [1 .. c -> X] /\ IsInjective(f)
<1>1. c \in Nat /\ ExistsBijection(1 .. c, X)
  BY FS_CardinalityType
<1>2. PICK f : f \in Bijection(1 .. c, X)
  BY <1>1 DEF ExistsBijection
<1>3. P(f)
  BY <1>2 DEF Bijection, Injection, IsInjective
<1>4. SetToSeq(X) \in [1 .. c -> X] /\ IsInjective(SetToSeq(X))
  BY <1>3 DEF SetToSeq
<1>5. SetToSeq(X) \in Injection(1 .. c, X)
  BY <1>4 DEF Injection
<1>6. Cardinality(1 .. c) = Cardinality(X)
  BY <1>1, FS_Interval
<1>7. SetToSeq(X) \in Surjection(1 .. c, X)
  BY <1>5, <1>6, FS_Injection
<1>8. ToSet(SetToSeq(X)) = X
  BY <1>4, <1>7 DEF ToSet, Surjection
<1>9. SetToSeq(X) \in Seq(T)
  BY <1>1, <1>4
<1> QED BY <1>8, <1>9

(* It is as long as the set is large.                                      *)
LEMMA OrderLength ==
  ASSUME NEW X, IsFiniteSet(X)
  PROVE  Len(SetToSeq(X)) = Cardinality(X)
<1> DEFINE c == Cardinality(X)
           P(f) == f \in [1 .. c -> X] /\ IsInjective(f)
<1>1. c \in Nat /\ ExistsBijection(1 .. c, X)
  BY FS_CardinalityType
<1>2. PICK f : f \in Bijection(1 .. c, X)
  BY <1>1 DEF ExistsBijection
<1>3. P(f)
  BY <1>2 DEF Bijection, Injection, IsInjective
<1>4. SetToSeq(X) \in [1 .. c -> X]
  BY <1>3 DEF SetToSeq
<1> HIDE DEF c
<1> QED BY <1>1, <1>4 DEF c

LEMMA FinitelyMany ==
  ASSUME NEW T, NEW s \in Seq(T)
  PROVE  IsFiniteSet(ToSet(s))
<1>1. s \in Surjection(1 .. Len(s), ToSet(s))
  BY DEF Surjection, ToSet
<1>2. IsFiniteSet(1 .. Len(s))
  BY FS_Interval
<1> QED BY <1>1, <1>2, FS_Surjection

-----------------------------------------------------------------------------
(* The invariant.                                                          *)

(* What is kept, and what 'reconnected' posts, are the meta data of a file *)
(* or some blocks.                                                         *)
PostShape(p) ==
    \/ \E f \in File : p = {f}
    \/ \E hs \in Seq(Hash) : p = ToSet(hs)

RowsInv == \A p \in kept \cup todo : PostShape(p)

(* The hashes that go with the meta data of a small file are those of the  *)
(* blocks in memory.                                                       *)
ListInv == place = "meta" /\ file \in Small => lists[file] = hdl

(* What a request will have the server vouch for when it is answered.      *)
Due(q) == q.meta \cup {b.hash : b \in ToSet(q.blocks)}

(* The request q is about the hashes H: they are to be looked for, found   *)
(* missing, or vouched for.                                                *)
Asked(q, H) ==
    /\ ToSet(q.ask) \cup ToSet(q.needed) \subseteq H
    /\ H \subseteq ToSet(q.ask) \cup ToSet(q.needed) \cup vouched

UnderWay(q) ==
    /\ q.url # "none"
    /\ \A m, n \in q.meta : m = n

SavingInv ==
    /\ saving \in Conn \cup {NoConn, Broken}
    /\ saving \in Conn =>
         /\ UnderWay(conn[saving])
         /\ Posting
         /\ place = "meta" => {file} \subseteq vouched \cup Due(conn[saving])
         /\ place = "hashs" \/ (place = "meta" /\ file \in Small)
               => Asked(conn[saving], ToSet(hdl))
         /\ place = "data" => ToSet(array) \subseteq vouched \cup Due(conn[saving])

ResendingInv ==
    /\ resending \in Conn \cup {NoConn, Broken}
    /\ resending \in Conn =>
         /\ UnderWay(conn[resending])
         /\ resending # saving
         /\ row \subseteq vouched \cup Due(conn[resending])

BInv ==
    /\ CP!IInv
    /\ SP!IInv
    /\ RowsInv
    /\ ListInv
    /\ SavingInv
    /\ ResendingInv

-----------------------------------------------------------------------------
(* Requests.                                                               *)

LEMMA Constants ==
  /\ Content \in [File -> Seq(Hash)] /\ Small \subseteq File /\ File \cap Hash = {}
  /\ Compression \in SP!CmpType /\ NoConn \notin Conn /\ Broken \notin Conn
  /\ Broken # NoConn /\ NoFile \notin File
  BY ConstantsAssumption DEF C!ConstantsAssumption, S!CmpType, SP!CmpType

LEMMA BlocksType ==
  ASSUME NEW hs \in Seq(Hash)
  PROVE  /\ Blocks(hs) \in Seq(SP!Block)
         /\ {b.hash : b \in ToSet(Blocks(hs))} = ToSet(hs)
<1> DEFINE bs == Blocks(hs)
<1>1. bs = [i \in 1 .. Len(hs) |-> NewHashData(hs[i])] /\ DOMAIN hs = 1 .. Len(hs)
  BY DEF Blocks
<1>2. \A h \in Hash : NewHashData(h) \in SP!Block /\ NewHashData(h).hash = h
  BY Constants DEF NewHashData, SP!Block
<1>3. bs \in Seq(SP!Block)
  BY <1>1, <1>2
<1>4. \A i \in 1 .. Len(hs) : hs[i] \in Hash /\ bs[i].hash = hs[i]
  BY <1>1, <1>2
<1>5. DOMAIN bs = DOMAIN hs
  BY <1>1
<1> HIDE DEF bs
<1>6. {b.hash : b \in ToSet(bs)} = ToSet(hs)
  BY <1>1, <1>4, <1>5 DEF ToSet
<1> QED BY <1>3, <1>6 DEF bs

(* What a post is when it reaches the server.                              *)
Fresh(q, X, hs) ==
    /\ q \in SP!Request
    /\ UnderWay(q)
    /\ q.needed = <<>>
    /\ q.ask = hs
    /\ Due(q) = X

LEMMA MetaFresh ==
  ASSUME NEW f \in File, NEW hs \in Seq(Hash)
  PROVE  Fresh(S!MetaRequest(f, hs), {f}, hs)
<1> DEFINE q == S!MetaRequest(f, hs)
<1>1. /\ q.url = "/Meta.json" /\ q.ask = hs /\ q.needed = <<>> /\ q.meta = {f}
      /\ q.blocks = <<>>
  BY DEF S!MetaRequest
<1>2. q \in SP!Request
  <2>1. <<>> \in Seq(Hash) /\ <<>> \in Seq(SP!Block)
    OBVIOUS
  <2> QED BY <2>1 DEF S!MetaRequest, SP!Request, SP!Url
<1> HIDE DEF q
<1>3. ToSet(q.blocks) = {}
  BY <1>1, NoElements
<1>4. Due(q) = q.meta
  BY <1>3 DEF Due
<1>5. Fresh(q, {f}, hs)
  BY <1>1, <1>2, <1>4 DEF Fresh, UnderWay
<1> QED BY <1>5 DEF q

LEMMA HashArrayFresh ==
  ASSUME NEW hs \in Seq(Hash)
  PROVE  Fresh(S!HashArrayRequest(hs), {}, hs)
<1> DEFINE q == S!HashArrayRequest(hs)
<1>1. /\ q.url = "/Hash_Array.json" /\ q.ask = hs /\ q.needed = <<>> /\ q.meta = {}
      /\ q.blocks = <<>>
  BY DEF S!HashArrayRequest
<1>2. q \in SP!Request
  <2>1. <<>> \in Seq(Hash) /\ <<>> \in Seq(SP!Block)
    OBVIOUS
  <2> QED BY <2>1 DEF S!HashArrayRequest, SP!Request, SP!Url
<1> HIDE DEF q
<1>3. ToSet(q.blocks) = {}
  BY <1>1, NoElements
<1>4. Due(q) = q.meta
  BY <1>3 DEF Due
<1>5. Fresh(q, {}, hs)
  BY <1>1, <1>2, <1>4 DEF Fresh, UnderWay
<1> QED BY <1>5 DEF q

LEMMA DataArrayFresh ==
  ASSUME NEW hs \in Seq(Hash)
  PROVE  Fresh(S!DataArrayRequest(Blocks(hs)), ToSet(hs), <<>>)
<1> DEFINE bs == Blocks(hs)
           q == S!DataArrayRequest(bs)
<1>0. bs \in Seq(SP!Block) /\ {b.hash : b \in ToSet(bs)} = ToSet(hs)
  BY BlocksType
<1> HIDE DEF bs
<1>1. /\ q.url = "/Data_Array.json" /\ q.ask = <<>> /\ q.needed = <<>> /\ q.meta = {}
      /\ q.blocks = bs
  BY DEF S!DataArrayRequest
<1>2. q \in SP!Request
  BY <1>0 DEF S!DataArrayRequest, SP!Request, SP!Url
<1> HIDE DEF q
<1>3. Fresh(q, ToSet(hs), <<>>)
  BY <1>0, <1>1, <1>2 DEF Fresh, UnderWay, Due
<1> QED BY <1>3 DEF q, bs

LEMMA SaveRequestFresh ==
  ASSUME CP!TypeOK, CP!ThreadInv, ListInv, Posting
  PROVE  /\ place = "meta" => \E hs \in Seq(Hash) :
                /\ Fresh(SaveRequest, {file}, hs)
                /\ file \in Small => hs = hdl
         /\ place = "hashs" => Fresh(SaveRequest, {}, hdl)
         /\ place = "data" => Fresh(SaveRequest, ToSet(array), <<>>)
<1>1. hdl \in Seq(Hash) /\ array \in Seq(Hash)
  BY DEF CP!TypeOK
<1>2. CASE place = "meta"
  <2> DEFINE hs == IF file \in Small THEN lists[file] ELSE <<>>
  <2>1. file \in File
    BY <1>2 DEF CP!TypeOK, CP!ThreadInv
  <2>2. hs \in Seq(Hash) /\ (file \in Small => hs = hdl)
    BY <1>2, <2>1 DEF CP!TypeOK, ListInv
  <2>3. SaveRequest = S!MetaRequest(file, hs)
    BY <1>2 DEF SaveRequest, MetaPost
  <2> HIDE DEF hs
  <2>4. Fresh(SaveRequest, {file}, hs)
    BY <2>1, <2>2, <2>3, MetaFresh
  <2> QED BY <1>2, <2>2, <2>4
<1>3. CASE place = "hashs"
  <2>1. SaveRequest = S!HashArrayRequest(hdl)
    BY <1>3 DEF SaveRequest
  <2> QED BY <1>1, <1>3, <2>1, HashArrayFresh
<1>4. CASE place = "data"
  <2>1. SaveRequest = S!DataArrayRequest(Blocks(array))
    BY <1>4 DEF SaveRequest
  <2> QED BY <1>1, <1>4, <2>1, DataArrayFresh
<1> QED BY <1>2, <1>3, <1>4 DEF Posting

LEMMA RowRequestFresh ==
  ASSUME lists \in [File -> Seq(Hash)], NEW p, PostShape(p)
  PROVE  \E hs : Fresh(RowRequest(p), p, hs)
<1>1. CASE p \subseteq Hash
  <2>1. IsFiniteSet(p)
    <3>1. \A f : IsFiniteSet({f})
      BY FS_Singleton
    <3> QED BY <3>1, FinitelyMany DEF PostShape
  <2>2. SetToSeq(p) \in Seq(Hash) /\ ToSet(SetToSeq(p)) = p
    BY <1>1, <2>1, SomeOrder
  <2>3. RowRequest(p) = S!DataArrayRequest(Blocks(SetToSeq(p)))
    BY <1>1 DEF RowRequest
  <2> DEFINE hs == SetToSeq(p)
  <2> HIDE DEF hs
  <2>4. Fresh(S!DataArrayRequest(Blocks(hs)), p, <<>>)
    BY <2>2, DataArrayFresh DEF hs
  <2> QED BY <2>3, <2>4 DEF hs
<1>2. CASE ~(p \subseteq Hash)
  <2>1. \A hs \in Seq(Hash) : ToSet(hs) \subseteq Hash
    BY DEF ToSet
  <2>2. PICK f \in File : p = {f}
    BY <1>2, <2>1 DEF PostShape
  <2> DEFINE hs == IF f \in Small THEN lists[f] ELSE <<>>
  <2>3. hs \in Seq(Hash)
    OBVIOUS
  <2>4. RowRequest(p) = S!MetaRequest(f, hs)
    <3>1. (CHOOSE g \in p : TRUE) = f
      BY <2>2
    <3> QED BY <1>2, <3>1 DEF RowRequest, MetaPost
  <2> HIDE DEF hs
  <2> QED BY <2>2, <2>3, <2>4, MetaFresh
<1> QED BY <1>1, <1>2

-----------------------------------------------------------------------------
(* The thread of a request goes on: what it owes it still owes, or the     *)
(* server vouches for it.                                                  *)
GoesOn(c) ==
    /\ UnderWay(conn'[c])
    /\ vouched \subseteq vouched'
    /\ Due(conn[c]) \subseteq vouched' \cup Due(conn'[c])
    /\ \A H : Asked(conn[c], H) => Asked(conn[c], H)'

LEMMA UntouchedGoesOn ==
  ASSUME NEW c \in Conn, UnderWay(conn[c]), conn'[c] = conn[c], vouched \subseteq vouched'
  PROVE  GoesOn(c)
  BY DEF GoesOn, UnderWay, Asked

LEMMA TouchedConn ==
  ASSUME SP!TypeOK, NEW c \in Conn, NEW r, conn' = [conn EXCEPT ![c] = r]
  PROVE  /\ conn[c] \in SP!Request
         /\ conn'[c] = r
         /\ \A d \in Conn \ {c} : conn'[d] = conn[d]
  BY DEF SP!TypeOK

LEMMA Fields ==
  ASSUME NEW q \in SP!Request
  PROVE  /\ q.ask \in Seq(Hash) /\ q.needed \in Seq(Hash) /\ q.meta \subseteq File
         /\ q.blocks \in Seq(SP!Block)
         /\ \A a, n : /\ [q EXCEPT !.ask = a, !.needed = n].url = q.url
                      /\ [q EXCEPT !.ask = a, !.needed = n].ask = a
                      /\ [q EXCEPT !.ask = a, !.needed = n].needed = n
                      /\ [q EXCEPT !.ask = a, !.needed = n].meta = q.meta
                      /\ [q EXCEPT !.ask = a, !.needed = n].blocks = q.blocks
         /\ \A m : /\ [q EXCEPT !.meta = m].url = q.url
                   /\ [q EXCEPT !.meta = m].ask = q.ask
                   /\ [q EXCEPT !.meta = m].needed = q.needed
                   /\ [q EXCEPT !.meta = m].meta = m
                   /\ [q EXCEPT !.meta = m].blocks = q.blocks
         /\ \A b : /\ [q EXCEPT !.blocks = b].url = q.url
                   /\ [q EXCEPT !.blocks = b].ask = q.ask
                   /\ [q EXCEPT !.blocks = b].needed = q.needed
                   /\ [q EXCEPT !.blocks = b].meta = q.meta
                   /\ [q EXCEPT !.blocks = b].blocks = b
  BY DEF SP!Request

LEMMA BuildGoesOn ==
  ASSUME SP!TypeOK, NEW c \in Conn, S!BuildNeededHashList(c)
  PROVE  /\ \A d \in Conn : UnderWay(conn[d]) => GoesOn(d)
         /\ vouched' = vouched \/ \E x \in C!Item : vouched' = vouched \cup {x}
<1> DEFINE q == conn[c]
           h == Head(q.ask)
           t == Tail(q.ask)
           n == IF S!Exists(h) \/ h \in ToSet(q.needed)
                THEN q.needed ELSE Append(q.needed, h)
           r == [q EXCEPT !.ask = t, !.needed = n]
<1>1. /\ q.ask # <<>> /\ conn' = [conn EXCEPT ![c] = r]
      /\ vouched' = IF S!Exists(h) THEN vouched \cup {h} ELSE vouched
  BY DEF S!BuildNeededHashList, S!ToSet, ToSet
<1>2. /\ q \in SP!Request /\ conn'[c] = r
      /\ \A d \in Conn \ {c} : conn'[d] = conn[d]
  <2> HIDE DEF r
  <2>1. conn' = [conn EXCEPT ![c] = r]
    BY <1>1
  <2> QED BY <2>1, TouchedConn
<1>3. q.ask \in Seq(Hash) /\ q.needed \in Seq(Hash)
  BY <1>2, Fields
<1> HIDE DEF q
<1>4. h \in Hash /\ ToSet(q.ask) = {h} \cup ToSet(t)
  BY <1>1, <1>3, HeadAndTail
<1>5. \/ n = q.needed /\ (h \in ToSet(q.needed) \/ h \in vouched')
      \/ ToSet(n) = ToSet(q.needed) \cup {h}
  BY <1>1, <1>3, <1>4, Appended
<1>6. r.url = q.url /\ r.ask = t /\ r.needed = n /\ r.meta = q.meta /\ r.blocks = q.blocks
  <2> HIDE DEF t, n
  <2> QED BY <1>2, Fields
<1> HIDE DEF h, t, n, r
<1>7. vouched \subseteq vouched'
  BY <1>1
<1>8. ASSUME UnderWay(conn[c]) PROVE GoesOn(c)
  <2>1. Due(r) = Due(q) /\ UnderWay(r)
    BY <1>6, <1>8 DEF Due, UnderWay, q
  <2>2. ASSUME NEW H, Asked(q, H) PROVE Asked(conn[c], H)'
    BY <1>2, <1>4, <1>5, <1>6, <1>7, <2>2 DEF Asked
  <2> QED BY <1>2, <1>7, <2>1, <2>2 DEF GoesOn, q
<1>9. \A d \in Conn \ {c} : UnderWay(conn[d]) => GoesOn(d)
  BY <1>2, <1>7, UntouchedGoesOn
<1>10. h \in C!Item
  BY <1>4 DEF C!Item
<1> QED BY <1>1, <1>8, <1>9, <1>10

LEMMA PushMetaGoesOn ==
  ASSUME SP!TypeOK, NEW c \in Conn, S!PushMeta(c)
  PROVE  /\ \A d \in Conn : UnderWay(conn[d]) => GoesOn(d)
         /\ \E x \in C!Item : vouched' = vouched \cup {x}
<1> DEFINE q == conn[c]
           r == [q EXCEPT !.meta = {}]
<1>1. PICK m \in q.meta : vouched' = vouched \cup {m}
  BY DEF S!PushMeta
<1>2. /\ q \in SP!Request /\ conn'[c] = r
      /\ \A d \in Conn \ {c} : conn'[d] = conn[d]
  <2>1. conn' = [conn EXCEPT ![c] = r]
    BY DEF S!PushMeta
  <2> HIDE DEF r
  <2> QED BY <2>1, TouchedConn
<1>3. m \in C!Item
  BY <1>1, <1>2, Fields DEF C!Item
<1> HIDE DEF q
<1>4. /\ r.url = q.url /\ r.ask = q.ask /\ r.needed = q.needed /\ r.meta = {}
      /\ r.blocks = q.blocks
  BY <1>2, Fields
<1> HIDE DEF r
<1>5. ASSUME UnderWay(conn[c]) PROVE GoesOn(c)
  <2>1. q.meta \subseteq vouched' /\ q.url # "none"
    BY <1>1, <1>5 DEF UnderWay, q
  <2>2. UnderWay(r) /\ Due(q) \subseteq vouched' \cup Due(r)
    BY <1>4, <2>1 DEF UnderWay, Due
  <2>3. ASSUME NEW H, Asked(q, H) PROVE Asked(conn[c], H)'
    BY <1>1, <1>2, <1>4, <2>3 DEF Asked
  <2> QED BY <1>1, <1>2, <2>2, <2>3 DEF GoesOn, q
<1>6. \A d \in Conn \ {c} : UnderWay(conn[d]) => GoesOn(d)
  BY <1>1, <1>2, UntouchedGoesOn
<1> QED BY <1>1, <1>3, <1>5, <1>6

LEMMA PushDataGoesOn ==
  ASSUME SP!TypeOK, NEW c \in Conn, S!PushData(c)
  PROVE  /\ \A d \in Conn : UnderWay(conn[d]) => GoesOn(d)
         /\ \E x \in C!Item : vouched' = vouched \cup {x}
<1> DEFINE q == conn[c]
           b == Head(q.blocks)
           t == Tail(q.blocks)
           r == [q EXCEPT !.blocks = t]
<1>1. q.blocks # <<>> /\ conn' = [conn EXCEPT ![c] = r] /\ vouched' = vouched \cup {b.hash}
  BY DEF S!PushData
<1>2. /\ q \in SP!Request /\ conn'[c] = r
      /\ \A d \in Conn \ {c} : conn'[d] = conn[d]
  <2> HIDE DEF r
  <2>1. conn' = [conn EXCEPT ![c] = r]
    BY <1>1
  <2> QED BY <2>1, TouchedConn
<1>3. b \in SP!Block /\ ToSet(q.blocks) = {b} \cup ToSet(t)
  <2>1. q.blocks \in Seq(SP!Block)
    BY <1>2, Fields
  <2> QED BY <1>1, <2>1, HeadAndTail
<1>4. b.hash \in C!Item
  BY <1>3 DEF SP!Block, C!Item
<1> HIDE DEF q
<1>5. /\ r.url = q.url /\ r.ask = q.ask /\ r.needed = q.needed /\ r.meta = q.meta
      /\ r.blocks = t
  <2> HIDE DEF t
  <2> QED BY <1>2, Fields
<1> HIDE DEF b, t, r
<1>6. ASSUME UnderWay(conn[c]) PROVE GoesOn(c)
  <2>1. UnderWay(r) /\ Due(q) \subseteq vouched' \cup Due(r)
    BY <1>1, <1>3, <1>5, <1>6 DEF UnderWay, Due, q
  <2>2. ASSUME NEW H, Asked(q, H) PROVE Asked(conn[c], H)'
    BY <1>1, <1>2, <1>5, <2>2 DEF Asked
  <2> QED BY <1>1, <1>2, <2>1, <2>2 DEF GoesOn, q
<1>7. \A d \in Conn \ {c} : UnderWay(conn[d]) => GoesOn(d)
  BY <1>1, <1>2, UntouchedGoesOn
<1> QED BY <1>1, <1>4, <1>6, <1>7

LEMMA HandlerGoesOn ==
  ASSUME SP!TypeOK, NEW c \in Conn, S!Handler(c)
  PROVE  /\ \A d \in Conn : UnderWay(conn[d]) => GoesOn(d)
         /\ vouched' = vouched \/ \E x \in C!Item : vouched' = vouched \cup {x}
  BY BuildGoesOn, PushMetaGoesOn, PushDataGoesOn DEF S!Handler

LEMMA ReceiveGoesOn ==
  ASSUME SP!TypeOK, NEW c \in Conn, NEW r, S!Receive(c, r)
  PROVE  /\ conn'[c] = r /\ vouched' = vouched
         /\ ~UnderWay(conn[c])
         /\ \A d \in Conn : UnderWay(conn[d]) => GoesOn(d)
<1>1. conn[c] = S!Idle /\ conn' = [conn EXCEPT ![c] = r] /\ vouched' = vouched
  BY DEF S!Receive
<1>2. ~UnderWay(conn[c])
  BY <1>1 DEF UnderWay, S!Idle
<1>3. conn'[c] = r /\ \A d \in Conn \ {c} : conn'[d] = conn[d]
  BY <1>1, TouchedConn
<1> QED BY <1>1, <1>2, <1>3, UntouchedGoesOn

LEMMA ResponseGoesOn ==
  ASSUME SP!TypeOK, NEW c \in Conn, S!CreateResponse(c)
  PROVE  /\ vouched' = vouched
         /\ \A d \in Conn \ {c} : UnderWay(conn[d]) => GoesOn(d)
<1>1. conn' = [conn EXCEPT ![c] = S!Idle] /\ vouched' = vouched
  BY DEF S!CreateResponse
<1>2. \A d \in Conn \ {c} : conn'[d] = conn[d]
  BY <1>1, TouchedConn
<1> QED BY <1>1, <1>2, UntouchedGoesOn

LEMMA StoreLeavesConn ==
  ASSUME S!StoreSmeta \/ S!DataThread
  PROVE  conn' = conn /\ vouched' = vouched
  BY DEF S!StoreSmeta, S!DataThread, S!PopData, S!SetMetadataToFileMeta, S!FileReplace,
         S!WriteData

(* What the server does by itself.                                         *)
LEMMA ServerGoesOn ==
  ASSUME SP!TypeOK, Server
  PROVE  /\ \A d \in {saving, resending} \cap Conn : UnderWay(conn[d]) => GoesOn(d)
         /\ vouched' = vouched \/ \E x \in C!Item : vouched' = vouched \cup {x}
<1>1. ASSUME NEW c \in Conn, S!Handler(c)
      PROVE  /\ \A d \in Conn : UnderWay(conn[d]) => GoesOn(d)
             /\ vouched' = vouched \/ \E x \in C!Item : vouched' = vouched \cup {x}
  BY <1>1, HandlerGoesOn
<1>2. ASSUME NEW c \in Conn \ {saving, resending}, S!CreateResponse(c)
      PROVE  /\ \A d \in Conn \ {c} : UnderWay(conn[d]) => GoesOn(d)
             /\ vouched' = vouched
  BY <1>2, ResponseGoesOn
<1>3. ASSUME S!StoreSmeta \/ S!DataThread
      PROVE  /\ \A d \in Conn : UnderWay(conn[d]) => GoesOn(d)
             /\ vouched' = vouched
  BY <1>3, StoreLeavesConn, UntouchedGoesOn
<1> QED BY <1>1, <1>2, <1>3 DEF Server

-----------------------------------------------------------------------------
(* Each side does what its module says.                                    *)

LEMMA SaveThreadLeaves ==
  ASSUME SaveThread
  PROVE  C!Next /\ vouched' = vouched /\ ~Posting /\ UNCHANGED <<serverVars, postVars>>
<1>1. C!Next
  BY DEF SaveThread, C!Next
<1>2. vouched' = vouched /\ place \in {"idle", "read", "pick", "cache"}
  BY DEF SaveThread, C!ProcessSmallFile, C!ProcessBigFile, C!ReadBlock, C!EndOfFile,
         C!FinishBigFile, C!ReadError, C!PickBlock, C!SendRest, C!DbSaveMetaData
<1> QED BY <1>1, <1>2 DEF SaveThread, Posting

LEMMA PostEnds ==
  /\ PostOk => C!Next /\ vouched' = vouched
  /\ PostFails => C!Next /\ vouched' = vouched
  BY DEF PostOk, PostFails, C!Next, C!MetaPosted, C!HashArrayPosted, C!DataArrayPosted,
         C!MetaKept, C!HashArrayNotPosted, C!DataArrayKept

LEMMA ClientNext ==
  ASSUME SP!TypeOK, [Next]_vars
  PROVE  [C!Next]_(C!vars)
<1> USE DEF clientVars, threadVars, C!vars, C!threadVars, C!otherVars
<1>1. CASE SaveThread
  BY <1>1, SaveThreadLeaves
<1>2. CASE PostUrl
  BY <1>2 DEF PostUrl, S!Receive
<1>3. CASE PostOk \/ PostFails
  BY <1>3, PostEnds
<1>4. CASE BeginPass \/ RowFails
  BY <1>4 DEF BeginPass, RowFails
<1>5. CASE PostRow
  BY <1>5 DEF PostRow, S!Receive
<1>6. CASE RowOk
  <2>1. C!Transmit(row)
    BY <1>6 DEF RowOk
  <2>2. CASE row \in kept
    BY <2>1, <2>2 DEF C!Next
  <2>3. CASE row \notin kept
    BY <2>1, <2>3 DEF C!Transmit
  <2> QED BY <2>2, <2>3
<1>7. CASE Server
  <2>1. UNCHANGED clientVars
    BY <1>7 DEF Server
  <2>2. CASE vouched' = vouched
    BY <2>1, <2>2
  <2>3. ASSUME NEW x \in C!Item, vouched' = vouched \cup {x}, x \notin vouched
        PROVE  C!Next
    <3>1. C!Vouch(x)
      BY <2>1, <2>3 DEF C!Vouch
    <3> QED BY <3>1 DEF C!Next
  <2> QED BY <1>7, <2>2, <2>3, ServerGoesOn
<1>8. CASE ServerRestart
  BY <1>8 DEF ServerRestart, S!Restart
<1>9. CASE ClientRestart
  BY <1>9 DEF ClientRestart, C!Next
<1>10. CASE UNCHANGED vars
  BY <1>10 DEF vars
<1> QED BY <1>1, <1>2, <1>3, <1>4, <1>5, <1>6, <1>7, <1>8, <1>9, <1>10 DEF Next

LEMMA ServerUntouched ==
  ASSUME UNCHANGED <<serverVars, vouched>>
  PROVE  UNCHANGED SP!vars
  BY DEF serverVars, SP!vars, SP!queueVars, SP!storerVars, SP!fileVars, SP!boundVars

LEMMA Received ==
  ASSUME NEW c \in Conn, NEW r, NEW X, NEW hs, Fresh(r, X, hs), S!Receive(c, r)
  PROVE  SP!AnyNext
<1>1. r \in SP!Request /\ r.needed = <<>> /\ SP!Receive(c, r)
  BY SameReceive DEF Fresh
<1> QED BY <1>1 DEF SP!AnyNext, SP!AnyPost

LEMMA ServerNext ==
  ASSUME BInv, [Next]_vars
  PROVE  [SP!AnyNext]_(SP!vars)
<1>0. CP!TypeOK /\ CP!ThreadInv /\ ListInv /\ lists \in [File -> Seq(Hash)]
  BY DEF BInv, CP!IInv, CP!TypeOK
<1>1. CASE SaveThread
  BY <1>1, SaveThreadLeaves, ServerUntouched
<1>2. CASE PostUrl
  <2>1. PICK c \in Conn : S!Receive(c, SaveRequest)
    BY <1>2 DEF PostUrl
  <2>2. \E X, hs : Fresh(SaveRequest, X, hs)
    BY <1>0, <1>2, SaveRequestFresh DEF PostUrl, Posting
  <2> QED BY <2>1, <2>2, Received
<1>3. CASE PostOk
  BY <1>3, SameHandler DEF PostOk, SP!AnyNext
<1>4. CASE PostFails
  BY <1>4, PostEnds, ServerUntouched DEF PostFails
<1>5. CASE BeginPass \/ RowFails
  BY <1>5, ServerUntouched DEF BeginPass, RowFails
<1>6. CASE PostRow
  <2>1. PICK p \in todo, c \in Conn : S!Receive(c, RowRequest(p))
    BY <1>6 DEF PostRow
  <2>2. \E hs : Fresh(RowRequest(p), p, hs)
    BY <1>0, <2>1, RowRequestFresh DEF BInv, RowsInv
  <2> QED BY <2>1, <2>2, Received
<1>7. CASE RowOk
  BY <1>7, SameHandler DEF RowOk, SP!AnyNext
<1>8. CASE Server
  BY <1>8, SameHandler, SameStore DEF Server, SP!AnyNext
<1>9. CASE ServerRestart
  BY <1>9, SameStore DEF ServerRestart, SP!AnyNext
<1>10. CASE ClientRestart
  BY <1>10, ServerUntouched DEF ClientRestart, C!CrashAndRestart
<1>11. CASE UNCHANGED vars
  BY <1>11, ServerUntouched DEF vars
<1> QED BY <1>1, <1>2, <1>3, <1>4, <1>5, <1>6, <1>7, <1>8, <1>9, <1>10, <1>11 DEF Next

-----------------------------------------------------------------------------
(* The invariant is inductive.                                             *)

LEMMA RowsNext ==
  ASSUME BInv, [Next]_vars
  PROVE  RowsInv'
<1>1. [C!Next]_(C!vars)
  BY ClientNext DEF BInv, SP!IInv
<1>2. \A p \in kept' : p \in kept \/ PostShape(p)
  <2>1. CASE UNCHANGED C!vars
    BY <2>1 DEF C!vars
  <2>2. CASE C!MetaKept
    <3>1. file \in File
      BY <2>2 DEF C!MetaKept, BInv, CP!IInv, CP!TypeOK, CP!ThreadInv
    <3> QED BY <2>2, <3>1 DEF C!MetaKept, PostShape
  <2>3. CASE C!DataArrayKept
    <3>1. array \in Seq(Hash) /\ C!ToSet(array) = ToSet(array)
      BY DEF BInv, CP!IInv, CP!TypeOK, C!ToSet, ToSet
    <3> QED BY <2>3, <3>1 DEF C!DataArrayKept, PostShape
  <2>4. CASE \E p \in kept : C!Transmit(p)
    BY <2>4 DEF C!Transmit
  <2>5. ASSUME C!Next, ~C!MetaKept, ~C!DataArrayKept, ~\E p \in kept : C!Transmit(p)
        PROVE  kept' = kept
    BY <2>5 DEF C!Next, C!ProcessSmallFile, C!ProcessBigFile, C!ReadBlock, C!EndOfFile,
       C!FinishBigFile, C!ReadError, C!MetaPosted, C!HashArrayPosted,
       C!HashArrayNotPosted, C!PickBlock, C!SendRest, C!DataArrayPosted,
       C!DbSaveMetaData, C!Vouch, C!CrashAndRestart
  <2> QED BY <1>1, <2>1, <2>2, <2>3, <2>4, <2>5
<1>3. todo' \subseteq kept \cup todo
  BY DEF Next, vars, postVars, SaveThread, PostUrl, PostOk, PostFails, BeginPass, PostRow,
         RowOk, RowFails, Server, ServerRestart, ClientRestart
<1>4. \A p \in kept \cup todo : PostShape(p)
  BY DEF BInv, RowsInv
<1> QED BY <1>2, <1>3, <1>4 DEF RowsInv, PostShape

LEMMA ListNext ==
  ASSUME BInv, [Next]_vars
  PROVE  ListInv'
<1>1. [C!Next]_(C!vars)
  BY ClientNext DEF BInv, SP!IInv
<1>2. CP!TypeOK /\ CP!ThreadInv /\ ListInv
  BY DEF BInv, CP!IInv
<1>3. ASSUME NEW f \in File, C!ProcessSmallFile(f) PROVE ListInv'
  BY <1>2, <1>3 DEF C!ProcessSmallFile, C!SendMetaData, CP!TypeOK, ListInv
<1>4. ASSUME NEW f \in File, C!ProcessBigFile(f) PROVE ListInv'
  BY <1>4 DEF C!ProcessBigFile, ListInv
<1>5. CASE C!FinishBigFile \/ C!ReadError
  BY <1>2, <1>5 DEF C!FinishBigFile, C!ReadError, CP!ThreadInv, ListInv
<1>6. CASE (\E x \in C!Item : C!Vouch(x)) \/ (\E p \in kept : C!Transmit(p)) \/ UNCHANGED C!vars
  BY <1>2, <1>6 DEF C!Vouch, C!Transmit, C!vars, C!threadVars, C!otherVars, ListInv
<1>7. CASE C!ReadBlock \/ C!EndOfFile
  BY <1>7 DEF C!ReadBlock, C!EndOfFile, C!LetsSendAllThatNow, ListInv
<1>8. CASE \/ C!MetaPosted \/ C!MetaKept \/ C!HashArrayPosted \/ C!HashArrayNotPosted
           \/ C!PickBlock \/ C!SendRest \/ C!DataArrayPosted \/ C!DataArrayKept
           \/ C!DbSaveMetaData \/ C!CrashAndRestart
  <2>1. place' # "meta"
    BY <1>8 DEF C!MetaPosted, C!MetaKept, C!HashArrayPosted,
       C!HashArrayNotPosted, C!PickBlock, C!SendRest, C!DataArrayPosted, C!DataArrayKept,
       C!DbSaveMetaData, C!CrashAndRestart
  <2> QED BY <2>1 DEF ListInv
<1> QED BY <1>1, <1>3, <1>4, <1>5, <1>6, <1>7, <1>8 DEF C!Next

LEMMA SavingStays ==
  ASSUME SavingInv, saving' = saving, saving \in Conn => GoesOn(saving),
         UNCHANGED <<place, file, hdl, array>>
  PROVE  SavingInv'
<1> SUFFICES ASSUME saving \in Conn
             PROVE  /\ UnderWay(conn[saving])'
                    /\ Posting'
                    /\ place = "meta" => {file} \subseteq vouched' \cup Due(conn'[saving])
                    /\ place = "hashs" \/ (place = "meta" /\ file \in Small)
                          => Asked(conn[saving], ToSet(hdl))'
                    /\ place = "data" =>
                          ToSet(array) \subseteq vouched' \cup Due(conn'[saving])
  BY DEF SavingInv, UnderWay, Due
<1>1. Posting'
  BY DEF Posting, SavingInv
<1>2. UnderWay(conn[saving])'
  BY DEF GoesOn, UnderWay
<1>3. place = "hashs" \/ (place = "meta" /\ file \in Small)
        => Asked(conn[saving], ToSet(hdl))'
  <2> DEFINE H == ToSet(hdl)
  <2>1. H' = H
    BY DEF ToSet
  <2>2. place = "hashs" \/ (place = "meta" /\ file \in Small) => Asked(conn[saving], H)
    BY DEF SavingInv
  <2> HIDE DEF H
  <2>3. place = "hashs" \/ (place = "meta" /\ file \in Small) => Asked(conn[saving], H)'
    BY <2>1, <2>2 DEF GoesOn, Asked
  <2> QED BY <2>3 DEF H
<1>4. vouched \cup Due(conn[saving]) \subseteq vouched' \cup Due(conn'[saving])
  BY DEF GoesOn
<1> QED BY <1>1, <1>2, <1>3, <1>4 DEF SavingInv

LEMMA ResendingStays ==
  ASSUME ResendingInv, resending' = resending, row' = row,
         resending \in Conn => GoesOn(resending) /\ saving' # resending
  PROVE  ResendingInv'
  BY DEF ResendingInv, GoesOn, UnderWay, Due

(* A request that has just been received.                                  *)
LEMMA FreshAsks ==
  ASSUME NEW q, NEW X, NEW hs, Fresh(q, X, hs)
  PROVE  Asked(q, ToSet(hs))
<1>1. q.needed = <<>> /\ q.ask = hs
  BY DEF Fresh
<1> QED BY <1>1, NoElements DEF Asked

LEMMA SavingNext ==
  ASSUME BInv, [Next]_vars
  PROVE  SavingInv'
<1> USE DEF clientVars, threadVars, postVars
<1>0. /\ SavingInv /\ ResendingInv /\ SP!TypeOK /\ CP!TypeOK /\ CP!ThreadInv /\ ListInv
      /\ saving \in Conn => UnderWay(conn[saving])
  BY DEF BInv, SP!IInv, CP!IInv, SavingInv
<1>1. CASE SaveThread
  <2>1. saving \notin Conn /\ saving' = saving
    BY <1>0, <1>1, SaveThreadLeaves DEF SavingInv
  <2> QED BY <1>0, <2>1 DEF SavingInv
<1>2. CASE PostUrl
  <2>1. PICK c \in Conn : S!Receive(c, SaveRequest) /\ saving' = c
    BY <1>2 DEF PostUrl
  <2>2. /\ Posting /\ UNCHANGED <<place, file, hdl, array>>
        /\ conn'[c] = SaveRequest /\ vouched' = vouched
    BY <1>0, <1>2, <2>1, ReceiveGoesOn DEF PostUrl
  <2>3. Posting'
    BY <2>2 DEF Posting
  <2>4. \E X, hs : Fresh(SaveRequest, X, hs)
    BY <1>0, <2>2, SaveRequestFresh DEF Posting
  <2>5. UnderWay(conn'[c])
    BY <2>2, <2>4 DEF Fresh
  <2>6. place = "meta" => {file} \subseteq Due(conn'[c])
    BY <1>0, <2>2, SaveRequestFresh DEF Fresh
  <2>7. place = "hashs" \/ (place = "meta" /\ file \in Small)
           => Asked(SaveRequest, ToSet(hdl))
    <3>1. place = "hashs" \/ (place = "meta" /\ file \in Small)
            => \E X : Fresh(SaveRequest, X, hdl)
      BY <1>0, <2>2, SaveRequestFresh
    <3> QED BY <3>1, FreshAsks
  <2>8. place = "data" => ToSet(array) \subseteq Due(conn'[c])
    BY <1>0, <2>2, SaveRequestFresh DEF Fresh
  <2>9. ToSet(hdl)' = ToSet(hdl) /\ ToSet(array)' = ToSet(array)
    BY <2>2 DEF ToSet
  <2>10. place = "hashs" \/ (place = "meta" /\ file \in Small)
           => Asked(conn[saving], ToSet(hdl))'
    BY <2>1, <2>2, <2>7, <2>9 DEF Asked
  <2>11. UnderWay(conn[saving])' /\ Due(conn[saving])' = Due(conn'[c])
    BY <2>1, <2>5 DEF UnderWay, Due
  <2> QED BY <2>1, <2>2, <2>3, <2>6, <2>8, <2>9, <2>10, <2>11 DEF SavingInv
<1>3. CASE PostOk \/ PostFails \/ ClientRestart
  BY <1>3, Constants DEF PostOk, PostFails, ClientRestart, SavingInv
<1>4. CASE BeginPass \/ RowFails
  <2>1. UNCHANGED <<saving, conn, vouched, place, file, hdl, array>>
    BY <1>4 DEF BeginPass, RowFails, serverVars
  <2>2. saving \in Conn => GoesOn(saving)
    BY <1>0, <2>1, UntouchedGoesOn
  <2> QED BY <1>0, <2>1, <2>2, SavingStays
<1>5. CASE PostRow
  <2>1. PICK p \in todo, c \in Conn : S!Receive(c, RowRequest(p))
    BY <1>5 DEF PostRow
  <2>2. saving \in Conn => GoesOn(saving)
    BY <1>0, <2>1, ReceiveGoesOn
  <2>3. UNCHANGED <<saving, place, file, hdl, array>>
    BY <1>5 DEF PostRow
  <2> QED BY <1>0, <2>2, <2>3, SavingStays
<1>6. CASE RowOk
  <2>1. resending \in Conn /\ S!CreateResponse(resending)
        /\ UNCHANGED <<saving, place, file, hdl, array>>
    BY <1>6 DEF RowOk, C!Transmit, C!threadVars
  <2>2. saving \in Conn => GoesOn(saving)
    BY <1>0, <2>1, ResponseGoesOn DEF ResendingInv
  <2> QED BY <1>0, <2>1, <2>2, SavingStays
<1>7. CASE Server
  <2>1. UNCHANGED <<saving, place, file, hdl, array>>
    BY <1>7 DEF Server
  <2>2. saving \in Conn => GoesOn(saving)
    BY <1>0, <1>7, ServerGoesOn
  <2> QED BY <1>0, <2>1, <2>2, SavingStays
<1>8. CASE ServerRestart
  <2>1. saving' \in {NoConn, Broken}
    BY <1>0, <1>8 DEF ServerRestart, Cut, SavingInv
  <2> QED BY <2>1, Constants DEF SavingInv
<1>9. CASE UNCHANGED vars
  <2>1. UNCHANGED <<saving, conn, vouched, place, file, hdl, array>>
    BY <1>9 DEF vars, serverVars
  <2>2. saving \in Conn => GoesOn(saving)
    BY <1>0, <2>1, UntouchedGoesOn
  <2> QED BY <1>0, <2>1, <2>2, SavingStays
<1> QED BY <1>1, <1>2, <1>3, <1>4, <1>5, <1>6, <1>7, <1>8, <1>9 DEF Next

LEMMA ResendingNext ==
  ASSUME BInv, [Next]_vars
  PROVE  ResendingInv'
<1> USE DEF clientVars, threadVars, postVars
<1>0. /\ SavingInv /\ ResendingInv /\ SP!TypeOK /\ RowsInv /\ lists \in [File -> Seq(Hash)]
      /\ resending \in Conn => UnderWay(conn[resending]) /\ resending # saving
  BY DEF BInv, SP!IInv, CP!IInv, CP!TypeOK, ResendingInv
<1>1. CASE SaveThread \/ BeginPass \/ UNCHANGED vars
  <2>1. UNCHANGED <<resending, row, saving, conn, vouched>>
    BY <1>1, SaveThreadLeaves DEF BeginPass, vars, serverVars
  <2>2. resending \in Conn => GoesOn(resending)
    BY <1>0, <2>1, UntouchedGoesOn
  <2> QED BY <1>0, <2>1, <2>2, ResendingStays
<1>2. CASE PostUrl
  <2>1. PICK c \in Conn : S!Receive(c, SaveRequest) /\ saving' = c
    BY <1>2 DEF PostUrl
  <2>2. resending \in Conn => GoesOn(resending) /\ saving' # resending
    BY <1>0, <2>1, ReceiveGoesOn
  <2>3. UNCHANGED <<resending, row>>
    BY <1>2 DEF PostUrl
  <2> QED BY <1>0, <2>2, <2>3, ResendingStays
<1>3. CASE PostOk
  <2>1. saving \in Conn /\ S!CreateResponse(saving) /\ saving' = NoConn
        /\ UNCHANGED <<resending, row>>
    BY <1>3 DEF PostOk
  <2>2. resending \in Conn => GoesOn(resending) /\ saving' # resending
    BY <1>0, <2>1, ResponseGoesOn, Constants
  <2> QED BY <1>0, <2>1, <2>2, ResendingStays
<1>4. CASE PostFails
  <2>1. UNCHANGED <<resending, row, conn, vouched>> /\ saving' = NoConn
    BY <1>4, PostEnds DEF PostFails, serverVars
  <2>2. resending \in Conn => GoesOn(resending) /\ saving' # resending
    BY <1>0, <2>1, UntouchedGoesOn, Constants
  <2> QED BY <1>0, <2>1, <2>2, ResendingStays
<1>5. CASE PostRow
  <2>1. PICK p \in todo, c \in Conn :
           S!Receive(c, RowRequest(p)) /\ resending' = c /\ row' = p
    BY <1>5 DEF PostRow
  <2>2. /\ conn'[c] = RowRequest(p) /\ vouched' = vouched /\ ~UnderWay(conn[c])
        /\ saving' = saving
    BY <1>0, <1>5, <2>1, ReceiveGoesOn DEF PostRow
  <2>3. PICK hs : Fresh(RowRequest(p), p, hs)
    BY <1>0, <2>1, RowRequestFresh DEF RowsInv
  <2>4. UnderWay(conn'[c]) /\ Due(conn'[c]) = p
    BY <2>2, <2>3 DEF Fresh
  <2>5. c # saving
    BY <1>0, <2>2 DEF SavingInv
  <2>6. UnderWay(conn[resending])' /\ Due(conn[resending])' = p
    BY <2>1, <2>4 DEF UnderWay, Due
  <2> QED BY <2>1, <2>2, <2>5, <2>6 DEF ResendingInv
<1>6. CASE RowOk \/ RowFails \/ ClientRestart
  BY <1>6, Constants DEF RowOk, RowFails, ClientRestart, ResendingInv
<1>7. CASE Server
  <2>1. UNCHANGED <<resending, row, saving>>
    BY <1>7 DEF Server
  <2>2. resending \in Conn => GoesOn(resending)
    BY <1>0, <1>7, ServerGoesOn
  <2> QED BY <1>0, <2>1, <2>2, ResendingStays
<1>8. CASE ServerRestart
  <2>1. resending' \in {NoConn, Broken}
    BY <1>0, <1>8 DEF ServerRestart, Cut, ResendingInv
  <2> QED BY <2>1, Constants DEF ResendingInv
<1> QED BY <1>1, <1>2, <1>3, <1>4, <1>5, <1>6, <1>7, <1>8 DEF Next

LEMMA InitBInv == Init => BInv
<1> SUFFICES ASSUME Init PROVE BInv
  OBVIOUS
<1>1. C!Init /\ S!Init
  BY DEF Init
<1>2. CP!Init
  BY <1>1 DEF C!Init, CP!Init
<1>3. SP!Init
  BY <1>1 DEF S!Init, SP!Init, S!Idle, SP!Idle
<1>4. CP!IInv
  BY <1>2, SameConstants, CP!InitInv
<1>5. SP!IInv
  BY <1>3, SameConstants, SP!InitIInv
<1>6. RowsInv
  BY <1>1 DEF Init, C!Init, RowsInv
<1>7. ListInv
  BY <1>1 DEF C!Init, ListInv
<1>8. SavingInv /\ ResendingInv
  BY Constants DEF Init, SavingInv, ResendingInv
<1> QED BY <1>4, <1>5, <1>6, <1>7, <1>8 DEF BInv

LEMMA NextBInv == BInv /\ [Next]_vars => BInv'
<1> SUFFICES ASSUME BInv, [Next]_vars PROVE BInv'
  OBVIOUS
<1>1. CP!IInv'
  <2>1. [C!Next]_(C!vars)
    BY ClientNext DEF BInv, SP!IInv
  <2>2. [CP!Next]_(CP!vars)
    BY <2>1, SameClient, SameClientVars
  <2>3. CP!IInv
    BY DEF BInv
  <2> QED BY <2>2, <2>3, SameConstants, CP!NextInv
<1>2. SP!IInv'
  <2>1. SP!IInv
    BY DEF BInv
  <2> QED BY <2>1, ServerNext, SameConstants, SP!AnyNextIInv
<1> QED BY <1>1, <1>2, RowsNext, ListNext, SavingNext, ResendingNext DEF BInv

(* Client, server and what is between them, in every reachable state.      *)
THEOREM BInvCorrect == Spec => []BInv
  BY InitBInv, NextBInv, PTL DEF Spec

(* The client of the composition is the one of SaveFile: what its module   *)
(* assumes of answers, the server and the connections provide.             *)
THEOREM ClientSpecCorrect == Spec => ClientSpec
<1>1. Init => C!Init
  BY DEF Init
<1>2. BInv /\ [Next]_vars => [C!Next]_(C!vars)
  BY ClientNext DEF BInv, SP!IInv
<1> QED BY <1>1, <1>2, BInvCorrect, PTL DEF Spec, ClientSpec, C!Spec

LEMMA AnswerToHashes ==
  ASSUME BInv, NEW c \in Conn, S!Answered(c), Asked(conn[c], ToSet(hdl))
  PROVE  conn[c].needed \in C!Answers(hdl)
<1> DEFINE n == conn[c].needed
<1>1. conn[c].ask = <<>> /\ conn[c] \in SP!Request
  BY DEF S!Answered, BInv, SP!IInv, SP!TypeOK
<1>2. n \in Seq(Hash)
  BY <1>1, Fields
<1>3. \A i, j \in DOMAIN n : n[i] = n[j] => i = j
  BY DEF BInv, SP!IInv, SP!NeededOnce
<1>4. ToSet(n) \subseteq ToSet(hdl) /\ ToSet(hdl) \ ToSet(n) \subseteq vouched
  BY <1>1, NoElements DEF Asked
<1> HIDE DEF n
<1>5. n \in SetToSeqs(ToSet(n))
  BY <1>2, <1>3, ListOfItsElements
<1>6. n \in C!SetToSeqs(ToSet(n))
  BY <1>5 DEF C!SetToSeqs, SetToSeqs, C!Cardinality, Cardinality
<1>7. C!ToSet(hdl) = ToSet(hdl)
  BY DEF C!ToSet, ToSet
<1>8. n \in C!Answers(hdl)
  BY <1>4, <1>6, <1>7 DEF C!Answers
<1> QED BY <1>8 DEF n

(* An answer is worth to the thread that waits for it what SaveFile says,  *)
(* whatever other connections, the store threads and stops did meanwhile.  *)
THEOREM AnswerIsWorthCorrect == Spec => []AnswerIsWorth
<1>1. BInv => AnswerIsWorth
  <2> SUFFICES ASSUME BInv PROVE AnswerIsWorth
    OBVIOUS
  <2>1. \A c \in Conn : S!Answered(c) => Due(conn[c]) = {}
    BY NoElements DEF S!Answered, Due
  <2>2. ASSUME saving \in Conn, S!Answered(saving)
        PROVE  CASE place = "meta" ->
                      /\ file \in vouched
                      /\ file \in Small => conn[saving].needed \in C!Answers(hdl)
                 [] place = "hashs" -> conn[saving].needed \in C!Answers(hdl)
                 [] place = "data" -> ToSet(array) \subseteq vouched
    <3>1. /\ Posting
          /\ place = "meta" => file \in vouched
          /\ place = "hashs" \/ (place = "meta" /\ file \in Small)
                => Asked(conn[saving], ToSet(hdl))
          /\ place = "data" => ToSet(array) \subseteq vouched
      BY <2>1, <2>2 DEF BInv, SavingInv
    <3> QED BY <2>2, <3>1, AnswerToHashes DEF Posting
  <2>3. resending \in Conn /\ S!Answered(resending) => row \subseteq vouched
    BY <2>1 DEF BInv, ResendingInv
  <2> QED BY <2>2, <2>3 DEF AnswerIsWorth
<1> QED BY <1>1, BInvCorrect, PTL

(* A cached file is on the server, or kept, whole; except for what a stop  *)
(* or a failed write took.                                                 *)
THEOREM CachedIsHeldCorrect == Spec => []CachedIsHeld
<1>1. BInv => CachedIsHeld
  <2> SUFFICES ASSUME BInv, NEW f \in cached \ flawed, NEW x \in Items(f)
               PROVE  S!Held(x) \/ x \in harmed \/ x \in UNION kept
    BY DEF CachedIsHeld
  <2>1. CP!Safe(x)
    <3>1. ToSet(Content[f]) = CP!ToSet(Content[f])
      BY DEF ToSet, CP!ToSet
    <3> QED BY <3>1 DEF BInv, CP!IInv, CP!CachedInv, Items
  <2>2. CASE x \in vouched
    <3>1. SP!Held(x) \/ x \in harmed
      BY <2>2 DEF BInv, SP!IInv, SP!VouchedIsHeld
    <3>2. SP!Held(x) <=> S!Held(x)
      BY DEF SP!Held, S!Held, SP!ToSet, S!ToSet, SP!Queued, S!Queued, SP!BeingStored,
             S!BeingStored, SP!Readable, S!Readable, SP!StoredCmpType, S!StoredCmpType,
             SP!CmpType, S!CmpType
    <3> QED BY <3>1, <3>2
  <2>3. CASE \E post \in kept : x \in post
    BY <2>3
  <2> QED BY <2>1, <2>2, <2>3 DEF CP!Safe
<1> QED BY <1>1, BInvCorrect, PTL
-----------------------------------------------------------------------------
(* The server of the composition. Ingest's clients post arrays of some     *)
(* length: those of the client are not longer, and never empty.            *)

(* Blocks come into memory from a small file, or until they fill a buffer; *)
(* those that are needed only go from 'needed' to 'array'.                 *)
LengthsInv ==
    /\ place = "read" => Len(hdl) < BufferLen
    /\ place = "hashs" => Len(hdl) \in 1 .. MaxArray
    /\ place = "meta" /\ file \in Small => Len(hdl) <= MaxArray
    /\ place \in {"pick", "data"} => Len(array) + Len(needed) <= MaxArray
    /\ place = "data" => array # <<>>
    /\ \A f \in Small : Len(lists[f]) <= MaxArray

(* What is kept is a file's meta data, or the blocks of an array that fits.*)
FitPost(p) ==
    \/ \E f \in File : p = {f}
    \/ \E hs \in Seq(Hash) : p = ToSet(hs) /\ Len(hs) \in 1 .. MaxArray

FitRows == \A p \in kept \cup todo : FitPost(p)

LEMMA Bounds ==
  /\ MaxArray \in Nat /\ BufferLen \in Nat /\ 0 < BufferLen /\ BufferLen <= MaxArray
  /\ \A f \in Small : f \in File /\ Len(Content[f]) <= MaxArray
  BY ConstantsAssumption, ArraysFit DEF C!ConstantsAssumption, S!ConstantsAssumption

(* A list has at most as many elements as its length says.                 *)
LEMMA FewElements ==
  ASSUME NEW T, NEW s \in Seq(T)
  PROVE  /\ IsFiniteSet(ToSet(s))
         /\ Cardinality(ToSet(s)) \in Nat
         /\ Cardinality(ToSet(s)) <= Len(s)
         /\ s # <<>> => Cardinality(ToSet(s)) # 0
<1>1. s \in Surjection(1 .. Len(s), ToSet(s))
  BY DEF Surjection, ToSet
<1> DEFINE n == Len(s)
<1>n. n \in Nat
  OBVIOUS
<1>2. IsFiniteSet(1 .. n) /\ Cardinality(1 .. n) = n
  <2> HIDE DEF n
  <2> QED BY <1>n, FS_Interval
<1>3. IsFiniteSet(ToSet(s)) /\ Cardinality(ToSet(s)) <= Len(s)
  BY <1>1, <1>2, FS_Surjection
<1>4. s # <<>> => s[1] \in ToSet(s)
  BY DEF ToSet
<1> QED BY <1>3, <1>4, FS_CardinalityType, FS_EmptySet

(* The answer is not longer than the list it answers.                      *)
LEMMA ShortAnswer ==
  ASSUME hdl \in Seq(Hash), NEW a \in C!Answers(hdl)
  PROVE  a \in Seq(Hash) /\ Len(a) <= Len(hdl)
<1>1. a \in CP!Answers(hdl)
  BY SameOperators
<1>2. /\ a \in Seq(Hash)
      /\ CP!Distinct(a)
      /\ CP!ToSet(a) \subseteq CP!ToSet(hdl)
  BY <1>1, SameConstants, CP!AnswersCorrect
<1>3. \A i, j \in DOMAIN a : a[i] = a[j] => i = j
  BY <1>2 DEF CP!Distinct
<1>4. ToSet(a) \subseteq ToSet(hdl)
  BY <1>2 DEF CP!ToSet, ToSet
<1>5. Cardinality(ToSet(hdl)) <= Len(hdl) /\ IsFiniteSet(ToSet(hdl))
  BY FewElements
<1> DEFINE n == Len(a)
<1>n. n \in Nat /\ DOMAIN a = 1 .. n
  BY <1>2
<1>6. a \in Injection(1 .. n, ToSet(hdl))
  <2>1. a \in [1 .. n -> ToSet(hdl)]
    <3>1. \A i \in 1 .. n : a[i] \in ToSet(a)
      BY <1>n DEF ToSet
    <3>2. \A i \in 1 .. n : a[i] \in ToSet(hdl)
      BY <1>4, <3>1
    <3>3. a = [i \in 1 .. n |-> a[i]]
      BY <1>2
    <3> QED BY <3>2, <3>3
  <2>2. IsInjective(a)
    BY <1>3 DEF IsInjective
  <2> HIDE DEF n
  <2> QED BY <1>3, <1>n, <2>1 DEF Injection, IsInjective
<1>7. Cardinality(1 .. n) = n
  <2> HIDE DEF n
  <2> QED BY <1>n, FS_Interval
<1>8. Len(a) <= Cardinality(ToSet(hdl))
  BY <1>5, <1>6, <1>7, FS_Injection
<1>9. Len(a) \in Nat /\ Len(hdl) \in Nat /\ Cardinality(ToSet(hdl)) \in Nat
  BY <1>2, <1>5, FS_CardinalityType
<1> QED BY <1>2, <1>5, <1>8, <1>9

LEMMA LengthsNext ==
  ASSUME CP!TypeOK, CP!ThreadInv, LengthsInv, [C!Next]_(C!vars)
  PROVE  LengthsInv'
<1> USE Bounds
<1>0. /\ hdl \in Seq(Hash) /\ array \in Seq(Hash) /\ needed \in Seq(Hash)
      /\ unread \in Seq(Hash)
      /\ lists \in [File -> Seq(Hash)]
      /\ Content \in [File -> Seq(Hash)]
      /\ Len(<<>>) = 0
  BY Constants DEF CP!TypeOK
<1>1. ASSUME NEW f \in File, C!ProcessSmallFile(f) PROVE LengthsInv'
  <2>1. /\ place' = "meta" /\ Len(hdl') <= MaxArray
        /\ lists' = [lists EXCEPT ![f] = hdl']
    BY <1>0, <1>1 DEF C!ProcessSmallFile, C!SendMetaData
  <2>2. \A g \in Small : Len(lists'[g]) <= MaxArray
    BY <1>0, <2>1 DEF LengthsInv
  <2> QED BY <2>1, <2>2 DEF LengthsInv
<1>2. ASSUME NEW f \in File, C!ProcessBigFile(f) PROVE LengthsInv'
  <2>1. f \notin Small /\ file' = f /\ hdl' = hdl /\ hdl = <<>>
    BY <1>2 DEF C!ProcessBigFile, CP!ThreadInv
  <2>2. place' \in {"read", "meta"}
    BY <1>2 DEF C!ProcessBigFile, C!SendMetaData
  <2>3. \A g \in Small : lists'[g] = lists[g]
    BY <1>0, <1>2, <2>1 DEF C!ProcessBigFile, C!SendMetaData
  <2> QED BY <1>0, <2>1, <2>2, <2>3 DEF LengthsInv
<1>3. CASE C!ReadBlock
  <2>1. /\ place = "read" /\ hdl' = <<Head(unread)>> \o hdl /\ lists' = lists
        /\ IF Len(hdl') >= BufferLen THEN place' = "hashs" ELSE place' = place
    BY <1>3 DEF C!ReadBlock, C!LetsSendAllThatNow, C!otherVars
  <2>2. Len(hdl') = Len(hdl) + 1
    BY <1>0, <1>3, <2>1 DEF C!ReadBlock
  <2> QED BY <1>0, <2>1, <2>2 DEF LengthsInv
<1>4. CASE C!EndOfFile
  <2>1. /\ place = "read" /\ hdl' = hdl /\ lists' = lists
        /\ IF hdl # <<>> THEN place' = "hashs" ELSE place' = place
    BY <1>4 DEF C!EndOfFile, C!LetsSendAllThatNow, C!otherVars
  <2>2. hdl # <<>> => Len(hdl) \in Nat \ {0}
    BY <1>0
  <2> QED BY <1>0, <2>1, <2>2 DEF LengthsInv
<1>5. CASE C!FinishBigFile \/ C!ReadError
  <2>1. place' = "meta" /\ file' = file /\ file \notin Small
    BY <1>5 DEF C!FinishBigFile, C!ReadError, C!SendMetaData, CP!ThreadInv
  <2>2. \A g \in Small : lists'[g] = lists[g]
    BY <1>0, <1>5, <2>1 DEF C!FinishBigFile, C!ReadError, C!SendMetaData
  <2> QED BY <2>1, <2>2 DEF LengthsInv
<1>6. CASE C!MetaPosted \/ C!MetaKept
  <2>1. /\ place = "meta" /\ array' = array /\ array = <<>> /\ lists' = lists
        /\ IF file \in Small
           THEN place' = "pick" /\ needed' \in C!Answers(hdl) \cup {hdl}
           ELSE place' = "cache"
    BY <1>6 DEF C!MetaPosted, C!MetaKept, C!otherVars, CP!ThreadInv
  <2>2. file \in Small => Len(needed') \in Nat /\ Len(needed') <= Len(hdl)
    BY <1>0, <2>1, ShortAnswer
  <2> QED BY <1>0, <2>1, <2>2 DEF LengthsInv
<1>7. CASE C!HashArrayPosted \/ C!HashArrayNotPosted
  <2>1. /\ place = "hashs" /\ array' = array /\ array = <<>> /\ lists' = lists
        /\ place' = "pick" /\ needed' \in C!Answers(hdl) \cup {hdl}
    BY <1>7 DEF C!HashArrayPosted, C!HashArrayNotPosted, C!otherVars, CP!ThreadInv
  <2>2. Len(needed') \in Nat /\ Len(needed') <= Len(hdl)
    BY <1>0, <2>1, ShortAnswer
  <2> QED BY <1>0, <2>1, <2>2 DEF LengthsInv
<1>8. CASE C!PickBlock
  <2>1. /\ place = "pick" /\ place' \in {"pick", "data"} /\ needed # <<>>
        /\ needed' = Tail(needed) /\ array' = Append(array, Head(needed))
        /\ lists' = lists
    BY <1>8 DEF C!PickBlock, C!otherVars
  <2>2. Len(needed') = Len(needed) - 1 /\ Len(array') = Len(array) + 1 /\ array' # <<>>
    BY <1>0, <2>1
  <2> QED BY <1>0, <2>1, <2>2 DEF LengthsInv
<1>9. CASE C!SendRest
  BY <1>0, <1>9 DEF C!SendRest, C!otherVars, LengthsInv
<1>10. CASE C!DataArrayPosted \/ C!DataArrayKept
  <2>1. /\ place = "data" /\ place' = "pick" /\ array' = <<>> /\ needed' = needed
        /\ lists' = lists
    BY <1>10 DEF C!DataArrayPosted, C!DataArrayKept, C!otherVars
  <2> QED BY <1>0, <2>1 DEF LengthsInv
<1>11. CASE C!DbSaveMetaData \/ C!CrashAndRestart
  BY <1>11 DEF C!DbSaveMetaData, C!CrashAndRestart, C!otherVars, LengthsInv
<1>12. CASE (\E x \in C!Item : C!Vouch(x)) \/ (\E p \in kept : C!Transmit(p)) \/ UNCHANGED C!vars
  <2>1. UNCHANGED <<place, file, hdl, array, needed, lists>>
    BY <1>12 DEF C!Vouch, C!Transmit, C!vars, C!threadVars, C!otherVars
  <2> QED BY <2>1 DEF LengthsInv
<1> QED BY <1>1, <1>2, <1>3, <1>4, <1>5, <1>6, <1>7, <1>8, <1>9, <1>10, <1>11, <1>12 DEF C!Next

LEMMA FitRowsNext ==
  ASSUME CP!TypeOK, CP!ThreadInv, LengthsInv, FitRows, [Next]_vars, [C!Next]_(C!vars)
  PROVE  FitRows'
<1>1. \A p \in kept' : p \in kept \/ FitPost(p)
  <2>1. CASE UNCHANGED C!vars
    BY <2>1 DEF C!vars
  <2>2. CASE C!MetaKept
    <3>1. file \in File
      BY <2>2 DEF C!MetaKept, CP!TypeOK, CP!ThreadInv
    <3> QED BY <2>2, <3>1 DEF C!MetaKept, FitPost
  <2>3. CASE C!DataArrayKept
    <3>1. array \in Seq(Hash) /\ needed \in Seq(Hash) /\ C!ToSet(array) = ToSet(array)
      BY DEF CP!TypeOK, C!ToSet, ToSet
    <3>2. Len(array) \in Nat \ {0} /\ Len(array) + Len(needed) <= MaxArray
      BY <2>3, <3>1 DEF C!DataArrayKept, LengthsInv
    <3>3. Len(array) \in 1 .. MaxArray
      BY <3>1, <3>2, Bounds
    <3> QED BY <2>3, <3>1, <3>3 DEF C!DataArrayKept, FitPost
  <2>4. CASE \E p \in kept : C!Transmit(p)
    BY <2>4 DEF C!Transmit
  <2>5. ASSUME C!Next, ~C!MetaKept, ~C!DataArrayKept, ~\E p \in kept : C!Transmit(p)
        PROVE  kept' = kept
    BY <2>5 DEF C!Next, C!ProcessSmallFile, C!ProcessBigFile, C!ReadBlock, C!EndOfFile,
       C!FinishBigFile, C!ReadError, C!MetaPosted, C!HashArrayPosted,
       C!HashArrayNotPosted, C!PickBlock, C!SendRest, C!DataArrayPosted,
       C!DbSaveMetaData, C!Vouch, C!CrashAndRestart
  <2> QED BY <2>1, <2>2, <2>3, <2>4, <2>5
<1>2. todo' \subseteq kept \cup todo
  BY DEF Next, vars, postVars, SaveThread, PostUrl, PostOk, PostFails, BeginPass, PostRow,
         RowOk, RowFails, Server, ServerRestart, ClientRestart
<1> QED BY <1>1, <1>2 DEF FitRows, FitPost

(* A list that fits is one of those Ingest's clients may post.             *)
LEMMA Fits ==
  ASSUME NEW T, NEW s \in Seq(T), Len(s) \in 1 .. MaxArray
  PROVE  s \in S!Arrays(T)
<1>1. s \in [1 .. Len(s) -> T]
  OBVIOUS
<1> QED BY <1>1 DEF S!Arrays

LEMMA MetaFits ==
  ASSUME lists \in [File -> Seq(Hash)], LengthsInv, NEW f \in File, NEW c \in Conn,
         S!Receive(c, MetaPost(f))
  PROVE  S!Post(c)
<1> DEFINE hs == IF f \in Small THEN lists[f] ELSE <<>>
<1>1. hs \in Seq(Hash) /\ Len(hs) <= MaxArray
  BY Bounds DEF LengthsInv
<1>2. S!Receive(c, S!MetaRequest(f, hs))
  BY DEF MetaPost
<1> HIDE DEF hs
<1>3. hs = <<>> \/ Len(hs) \in 1 .. MaxArray
  BY <1>1, Bounds
<1>4. hs \in S!Arrays(Hash) \cup {<<>>}
  BY <1>1, <1>3, Fits
<1> QED BY <1>2, <1>4 DEF S!Post

LEMMA BlocksFit ==
  ASSUME NEW hs \in Seq(Hash), Len(hs) \in 1 .. MaxArray, NEW c \in Conn,
         S!Receive(c, S!DataArrayRequest(Blocks(hs)))
  PROVE  S!Post(c)
<1> DEFINE bs == Blocks(hs)
<1>1. /\ DOMAIN bs = DOMAIN hs
      /\ \A i \in DOMAIN bs : bs[i].cmp = Compression
  BY DEF Blocks, NewHashData
<1>2. bs \in Seq(S!Block)
  BY BlocksType DEF SP!Block, S!Block, SP!CmpType, S!CmpType
<1>3. 1 \in DOMAIN bs /\ Len(bs) = Len(hs)
  <2>1. bs = [i \in 1 .. Len(hs) |-> NewHashData(hs[i])]
    BY DEF Blocks
  <2> QED BY <2>1
<1>4. S!Receive(c, S!DataArrayRequest(bs))
  OBVIOUS
<1> HIDE DEF bs
<1>5. bs \in S!Arrays(S!Block)
  BY <1>2, <1>3, Fits
<1>6. \A i \in DOMAIN bs : bs[i].cmp = bs[1].cmp
  BY <1>1, <1>3
<1> QED BY <1>4, <1>5, <1>6 DEF S!Post

LEMMA SaveRequestFits ==
  ASSUME CP!TypeOK, CP!ThreadInv, LengthsInv, Posting, NEW c \in Conn,
         S!Receive(c, SaveRequest)
  PROVE  S!Post(c)
<1>1. /\ hdl \in Seq(Hash) /\ array \in Seq(Hash) /\ needed \in Seq(Hash)
      /\ lists \in [File -> Seq(Hash)]
  BY DEF CP!TypeOK
<1>2. CASE place = "meta"
  <2>1. file \in File /\ SaveRequest = MetaPost(file)
    BY <1>2 DEF CP!TypeOK, CP!ThreadInv, SaveRequest
  <2> QED BY <1>1, <2>1, MetaFits
<1>3. CASE place = "hashs"
  <2>1. SaveRequest = S!HashArrayRequest(hdl) /\ Len(hdl) \in 1 .. MaxArray
    BY <1>3 DEF SaveRequest, LengthsInv
  <2>2. hdl \in S!Arrays(Hash)
    BY <1>1, <2>1, Fits
  <2> QED BY <2>1, <2>2 DEF S!Post
<1>4. CASE place = "data"
  <2>1. SaveRequest = S!DataArrayRequest(Blocks(array))
    BY <1>4 DEF SaveRequest
  <2>2. Len(array) \in 1 .. MaxArray
    BY <1>1, <1>4, Bounds DEF LengthsInv
  <2> QED BY <1>1, <2>1, <2>2, BlocksFit
<1> QED BY <1>2, <1>3, <1>4 DEF Posting

LEMMA RowRequestFits ==
  ASSUME lists \in [File -> Seq(Hash)], LengthsInv, NEW p, FitPost(p), NEW c \in Conn,
         S!Receive(c, RowRequest(p))
  PROVE  S!Post(c)
<1>1. CASE p \subseteq Hash
  <2>1. PICK hs \in Seq(Hash) : p = ToSet(hs) /\ Len(hs) \in 1 .. MaxArray
    <3>1. \A f \in File : ~({f} \subseteq Hash)
      BY Constants
    <3> QED BY <1>1, <3>1 DEF FitPost
  <2> DEFINE s == SetToSeq(p)
  <2>2. s \in Seq(Hash) /\ ToSet(s) = p
    BY <1>1, <2>1, FewElements, SomeOrder
  <2>3. Len(s) = Cardinality(p)
    BY <2>1, FewElements, OrderLength
  <2>4. Len(s) \in 1 .. MaxArray
    <3>1. hs # <<>> /\ Len(hs) <= MaxArray /\ Len(hs) \in Nat
      BY <2>1
    <3> HIDE DEF s
    <3> QED BY <2>1, <2>3, <3>1, FewElements, Bounds
  <2>5. S!Receive(c, S!DataArrayRequest(Blocks(s)))
    BY <1>1 DEF RowRequest
  <2> HIDE DEF s
  <2> QED BY <2>2, <2>4, <2>5, BlocksFit
<1>2. CASE ~(p \subseteq Hash)
  <2>1. \A hs \in Seq(Hash) : ToSet(hs) \subseteq Hash
    BY DEF ToSet
  <2>2. PICK f \in File : p = {f}
    BY <1>2, <2>1 DEF FitPost
  <2>3. (CHOOSE g \in p : TRUE) = f
    BY <2>2
  <2> QED BY <1>2, <2>3, MetaFits DEF RowRequest
<1> QED BY <1>1, <1>2

(* Each step of the whole is a step of the server, or leaves it alone.     *)
LEMMA ServerStep ==
  ASSUME BInv, LengthsInv, FitRows, [Next]_vars
  PROVE  [S!Next]_(S!vars)
<1>0. /\ CP!TypeOK /\ CP!ThreadInv
      /\ lists \in [File -> Seq(Hash)]
  BY DEF BInv, CP!IInv, CP!TypeOK
<1>a. UNCHANGED <<serverVars, vouched>> => UNCHANGED S!vars
  BY DEF serverVars, S!vars, S!queueVars, S!storerVars, S!fileVars, S!boundVars
<1>1. CASE SaveThread
  BY <1>1, <1>a, SaveThreadLeaves
<1>2. CASE PostUrl
  <2>1. PICK c \in Conn : S!Receive(c, SaveRequest)
    BY <1>2 DEF PostUrl
  <2>2. S!Post(c)
    BY <1>0, <1>2, <2>1, SaveRequestFits DEF PostUrl
  <2> QED BY <2>2 DEF S!Next
<1>3. CASE PostOk
  BY <1>3 DEF PostOk, S!Next
<1>4. CASE PostFails
  BY <1>4, <1>a, PostEnds DEF PostFails
<1>5. CASE BeginPass \/ RowFails
  BY <1>5, <1>a DEF BeginPass, RowFails
<1>6. CASE PostRow
  <2>1. PICK p \in todo, c \in Conn : S!Receive(c, RowRequest(p))
    BY <1>6 DEF PostRow
  <2>2. FitPost(p)
    BY DEF FitRows
  <2>3. S!Post(c)
    BY <1>0, <2>1, <2>2, RowRequestFits
  <2> QED BY <2>3 DEF S!Next
<1>7. CASE RowOk
  BY <1>7 DEF RowOk, S!Next
<1>8. CASE Server
  BY <1>8 DEF Server, S!Next
<1>9. CASE ServerRestart
  BY <1>9 DEF ServerRestart, S!Next
<1>10. CASE ClientRestart
  BY <1>10, <1>a DEF ClientRestart, C!CrashAndRestart
<1>11. CASE UNCHANGED vars
  BY <1>11, <1>a DEF vars
<1> QED BY <1>1, <1>2, <1>3, <1>4, <1>5, <1>6, <1>7, <1>8, <1>9, <1>10, <1>11 DEF Next

(* The server of the composition is the one of Ingest: whatever was kept,  *)
(* resent or cut, the client posts what Ingest's clients may.              *)
THEOREM ServerSpecCorrect == Spec => ServerSpec
<1>1. Init => S!Init /\ LengthsInv /\ FitRows
  <2> SUFFICES ASSUME Init PROVE S!Init /\ LengthsInv /\ FitRows
    OBVIOUS
  <2>1. LengthsInv
    BY Bounds DEF Init, C!Init, LengthsInv
  <2> QED BY <2>1 DEF Init, C!Init, FitRows
<1>2. BInv /\ LengthsInv /\ FitRows /\ [Next]_vars
        => [S!Next]_(S!vars) /\ LengthsInv' /\ FitRows'
  <2> SUFFICES ASSUME BInv, LengthsInv, FitRows, [Next]_vars
               PROVE  [S!Next]_(S!vars) /\ LengthsInv' /\ FitRows'
    OBVIOUS
  <2>1. CP!TypeOK /\ CP!ThreadInv /\ SP!TypeOK
    BY DEF BInv, CP!IInv, SP!IInv
  <2>2. [C!Next]_(C!vars)
    BY <2>1, ClientNext
  <2>3. [S!Next]_(S!vars)
    BY ServerStep
  <2> QED BY <2>1, <2>2, <2>3, LengthsNext, FitRowsNext
<1> QED BY <1>1, <1>2, BInvCorrect, PTL DEF Spec, ServerSpec, S!Spec
=============================================================================
