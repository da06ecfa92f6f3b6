--------------------------- MODULE RestoreProofs ---------------------------
(***************************************************************************)
(* Restore for any files, any blocks, any size of the batches and any      *)
(* number of requests the server receives meanwhile: a file that was sound *)
(* when it was chosen and was not disturbed is restored as it was saved.   *)
(* That the server keeps its types comes from IngestProofs.                *)
(***************************************************************************)
EXTENDS Restore, SequenceTheorems, TLAPS

P == INSTANCE IngestProofs

(* The program asks for a file, hash after hash.                           *)
ProgramInv ==
    /\ file = NoFile => list = <<>> /\ reader = "none" /\ out = <<>>
    /\ reader = "none" => header = <<>> /\ buffer = <<>>
    /\ reader \in {"open", "read", "concat"} => header # <<>>
    /\ file # NoFile => ToSet(header) \cup ToSet(list) \subseteq ToSet(Content[file])
    /\ reader = "read" => S!Exists(Head(header))

(* data_thread has a block, or waits for one.                              *)
HandInv == storer = "pop" <=> block = NoBlock

(* The blocks of a sound file are complete, stored again or not.           *)
SoundInv ==
    sound => file \in Meta /\ \A h \in ToSet(Content[file]) : data[h] \in S!CmpType

(* The block that is read is compressed as its '.meta' file said, and, if  *)
(* it is being stored, it will still be; unless the '.meta' file could not *)
(* be read.                                                                *)
Mistaken == cmptype = "none" /\ Head(header) \in unread

ReaderInv ==
    sound /\ ~Mistaken =>
        /\ reader \in {"open", "read"} =>
              /\ data[Head(header)] = cmptype
              /\ S!BeingStored(Head(header)) => block.cmp = cmptype
        /\ reader \in {"read", "concat"} => bytes = cmptype

(* What was written, what was read, what is asked and what is not, in this *)
(* order, are the content but for the blocks that were unread.             *)
Pieces(o, b, h, l) == (o \o b) \o (h \o l)

PiecesInv ==
    sound /\ ~printed /\ file \notin harmed
        => Restores(Pieces(out, buffer, header, list), Content[file])

IInv ==
    /\ TypeOK
    /\ ProgramInv
    /\ HandInv
    /\ SoundInv
    /\ ReaderInv
    /\ PiecesInv

-----------------------------------------------------------------------------
(* Sequences.                                                              *)

LEMMA ElementsOfTail ==
  ASSUME NEW T, NEW q \in Seq(T), q # <<>>
  PROVE  /\ Head(q) \in T /\ Tail(q) \in Seq(T)
         /\ Head(q) \in ToSet(q) /\ ToSet(Tail(q)) \subseteq ToSet(q)
<1>1. Head(q) \in T /\ Tail(q) \in Seq(T) /\ 1 \in DOMAIN q /\ Head(q) = q[1]
  OBVIOUS
<1>2. \A i \in DOMAIN Tail(q) : i + 1 \in DOMAIN q /\ Tail(q)[i] = q[i + 1]
  OBVIOUS
<1> QED BY <1>1, <1>2 DEF ToSet

LEMMA NoElements == ToSet(<<>>) = {}
  BY DEF ToSet

(* A batch and what is left of the list are the list.                      *)
LEMMA BatchOfList ==
  ASSUME NEW T, NEW q \in Seq(T), q # <<>>, NEW n \in Nat \ {0},
         NEW k, k = IF Len(q) < n THEN Len(q) ELSE n
  PROVE  /\ SubSeq(q, 1, k) \in Seq(T) /\ SubSeq(q, n + 1, Len(q)) \in Seq(T)
         /\ SubSeq(q, 1, k) \o SubSeq(q, n + 1, Len(q)) = q
         /\ ToSet(SubSeq(q, 1, k)) \cup ToSet(SubSeq(q, n + 1, Len(q))) \subseteq ToSet(q)
<1>1. k \in 1 .. Len(q) /\ Len(q) \in Nat \ {0}
  OBVIOUS
<1>2. /\ SubSeq(q, 1, k) \in Seq(T) /\ Len(SubSeq(q, 1, k)) = k
      /\ \A i \in 1 .. k : SubSeq(q, 1, k)[i] = q[i]
  BY <1>1
<1>3. /\ SubSeq(q, n + 1, Len(q)) \in Seq(T)
      /\ Len(SubSeq(q, n + 1, Len(q))) = IF n < Len(q) THEN Len(q) - n ELSE 0
      /\ \A i \in 1 .. Len(q) - n : SubSeq(q, n + 1, Len(q))[i] = q[n + i]
  BY <1>1
<1>4. SubSeq(q, 1, k) \o SubSeq(q, n + 1, Len(q)) = q
  <2>1. CASE n < Len(q)
    <3>1. k = n /\ 1 \in 1 .. Len(q) + 1 /\ n \in 1 - 1 .. Len(q) /\ Len(q) \in n .. Len(q)
      BY <2>1, <1>1
    <3>2. SubSeq(q, 1, n) \o SubSeq(q, n + 1, Len(q)) = SubSeq(q, 1, Len(q))
      BY <3>1, ConcatAdjacentSubSeq
    <3> QED BY <3>1, <3>2, SubSeqFull
  <2>2. CASE ~(n < Len(q))
    <3>1. k = Len(q) /\ SubSeq(q, n + 1, Len(q)) = <<>>
      BY <2>2, <1>1, <1>3
    <3>2. SubSeq(q, 1, Len(q)) = q
      BY SubSeqFull
    <3> QED BY <3>1, <3>2, ConcatEmptySeq
  <2> QED BY <2>1, <2>2
<1>5. ToSet(SubSeq(q, 1, k)) \subseteq ToSet(q)
  BY <1>1, <1>2 DEF ToSet
<1>6. ToSet(SubSeq(q, n + 1, Len(q))) \subseteq ToSet(q)
  <2>1. \A i \in DOMAIN SubSeq(q, n + 1, Len(q)) :
           n + i \in DOMAIN q /\ SubSeq(q, n + 1, Len(q))[i] = q[n + i]
    BY <1>3
  <2> QED BY <2>1 DEF ToSet
<1> QED BY <1>2, <1>3, <1>4, <1>5, <1>6

Join(s, t) == s \o t

LEMMA JoinType ==
  ASSUME NEW T, NEW s \in Seq(T), NEW t \in Seq(T)
  PROVE  Join(s, t) \in Seq(T)
  BY DEF Join

LEMMA JoinAssociative ==
  ASSUME NEW T, NEW s \in Seq(T), NEW t \in Seq(T), NEW u \in Seq(T)
  PROVE  Join(Join(s, t), u) = Join(s, Join(t, u))
  BY ConcatAssociative DEF Join

(* A block that goes from what is asked to what is read keeps its place.   *)
LEMMA BlockMoves ==
  ASSUME NEW T, NEW s \in Seq(T), NEW b \in Seq(T), NEW h \in Seq(T), NEW l \in Seq(T),
         h # <<>>
  PROVE  Pieces(s, Append(b, Head(h)), Tail(h), l) = Pieces(s, b, h, l)
<1> DEFINE x == <<Head(h)>>
           t == Tail(h)
<1>1. x \in Seq(T) /\ t \in Seq(T) /\ h = Join(x, t)
  BY DEF Join
<1>2. Append(b, Head(h)) = Join(b, x)
  BY AppendIsConcat DEF Join
<1> HIDE DEF x, t
<1>3. /\ Pieces(s, Append(b, Head(h)), t, l) = Join(Join(s, Join(b, x)), Join(t, l))
      /\ Pieces(s, b, h, l) = Join(Join(s, b), Join(Join(x, t), l))
  BY <1>1, <1>2 DEF Pieces, Join
<1>4. Join(s, Join(b, x)) = Join(Join(s, b), x)
  BY <1>1, JoinAssociative
<1>5. Join(s, b) \in Seq(T) /\ Join(t, l) \in Seq(T)
  BY <1>1, JoinType
<1>6. Join(Join(Join(s, b), x), Join(t, l)) = Join(Join(s, b), Join(x, Join(t, l)))
  BY <1>1, <1>5, JoinAssociative
<1>7. Join(x, Join(t, l)) = Join(Join(x, t), l)
  BY <1>1, JoinAssociative
<1> QED BY <1>3, <1>4, <1>6, <1>7 DEF t

(* The pieces that are read go to the file.                                *)
LEMMA BufferMoves ==
  ASSUME NEW T, NEW s \in Seq(T), NEW b \in Seq(T), NEW l \in Seq(T)
  PROVE  Pieces(s \o b, <<>>, <<>>, l) = Pieces(s, b, <<>>, l)
<1>1. s \o b \in Seq(T)
  OBVIOUS
<1>2. (s \o b) \o <<>> = s \o b
  BY <1>1, ConcatEmptySeq
<1> QED BY <1>2 DEF Pieces

(* What is restored stays so when more blocks are unread.                  *)
LEMMA RestoresStays ==
  ASSUME unread \subseteq unread', NEW p, NEW c, Restores(p, c)
  PROVE  Restores(p, c)'
  BY DEF Restores

(* w is s, of length j, followed by t, of length m.                        *)
Joined(w, s, t, j, m) ==
    /\ Len(w) = j + m
    /\ \A i \in 1 .. j + m : w[i] = IF i <= j THEN s[i] ELSE t[i - j]

LEMMA ConcatJoins ==
  ASSUME NEW T, NEW s \in Seq(T), NEW t \in Seq(T), NEW j \in Nat, NEW m \in Nat,
         Len(s) = j, Len(t) = m, NEW w, w = s \o t
  PROVE  Joined(w, s, t, j, m)
  BY ConcatProperties DEF Joined

(* A block that is unread may be replaced by any piece.                    *)
LEMMA BlockReplaced ==
  ASSUME NEW T, NEW s \in Seq(T), NEW b \in Seq(T), NEW h \in Seq(T), NEW l \in Seq(T),
         h # <<>>, NEW x \in T, NEW c \in Seq(T), Restores(Pieces(s, b, h, l), c),
         unread \subseteq unread', Head(h) \in unread'
  PROVE  Restores(Pieces(s, Append(b, x), Tail(h), l), c)'
<1> DEFINE k == Len(s) + Len(b) + 1
           n == Len(h) + Len(l)
           p == Pieces(s, b, h, l)
           q == Pieces(s, Append(b, x), Tail(h), l)
           u == s \o b
           v == h \o l
           y == s \o Append(b, x)
           z == Tail(h) \o l
<1>1. /\ u \in Seq(T) /\ Len(u) = k - 1
      /\ y \in Seq(T) /\ Len(y) = k /\ k \in Nat \ {0}
      /\ \A i \in 1 .. k - 1 : y[i] = u[i]
  OBVIOUS
<1>2. /\ v \in Seq(T) /\ Len(v) = n /\ v[1] = Head(h)
      /\ z \in Seq(T) /\ Len(z) = n - 1 /\ n \in Nat \ {0}
      /\ \A i \in 1 .. n - 1 : z[i] = v[i + 1]
  OBVIOUS
<1>3. p = u \o v /\ q = y \o z
  BY DEF Pieces
<1> HIDE DEF k, n, p, q, u, v, y, z
<1>4. /\ Len(p) = Len(q)
      /\ \A i \in 1 .. Len(p) : i # k => q[i] = p[i]
      /\ p[k] = Head(h)
  <2>0. n \in Nat \ {0} /\ n - 1 \in Nat /\ k - 1 \in Nat /\ k \in Nat
    BY <1>1, <1>2
  <2>1. /\ Len(p) = (k - 1) + n /\ n \in Nat \ {0}
        /\ \A i \in 1 .. (k - 1) + n : p[i] = IF i <= k - 1 THEN u[i] ELSE v[i - (k - 1)]
    <3>1. Joined(p, u, v, k - 1, n)
      BY <1>1, <1>2, <1>3, <2>0, ConcatJoins
    <3> QED BY <2>0, <3>1 DEF Joined
  <2>2. /\ Len(q) = k + (n - 1)
        /\ \A i \in 1 .. k + (n - 1) : q[i] = IF i <= k THEN y[i] ELSE z[i - k]
    <3>1. Joined(q, y, z, k, n - 1)
      BY <1>1, <1>2, <1>3, <2>0, ConcatJoins
    <3> QED BY <3>1 DEF Joined
  <2>3. \A i \in 1 .. n - 1 : z[i] = v[i + 1]
    BY <1>2
  <2>4. ASSUME NEW i \in 1 .. Len(p), i # k PROVE q[i] = p[i]
    <3>1. i \in 1 .. (k - 1) + n /\ i \in 1 .. k + (n - 1) /\ i \in Nat /\ k \in Nat
      BY <1>1, <2>1
    <3>2. CASE i <= k - 1
      <4>1. p[i] = u[i] /\ q[i] = y[i] /\ i \in 1 .. k - 1
        BY <2>1, <2>2, <3>1, <3>2
      <4> QED BY <1>1, <4>1
    <3>3. CASE ~(i <= k - 1)
      <4>1. ~(i <= k) /\ i - k \in 1 .. n - 1 /\ i - (k - 1) = (i - k) + 1
        BY <1>1, <2>1, <2>4, <3>1, <3>3
      <4>2. p[i] = v[i - (k - 1)] /\ q[i] = z[i - k]
        BY <2>1, <2>2, <3>1, <3>3, <4>1
      <4> QED BY <2>3, <4>1, <4>2
    <3> QED BY <3>2, <3>3
  <2>5. p[k] = v[1]
    <3>1. k \in 1 .. (k - 1) + n /\ ~(k <= k - 1) /\ k - (k - 1) = 1
      BY <2>0
    <3>2. p[k] = v[k - (k - 1)]
      BY <2>1, <3>1, Zenon
    <3> QED BY <3>1, <3>2
  <2>6. Len(p) = Len(q)
    BY <1>1, <2>1, <2>2
  <2> QED BY <1>2, <2>4, <2>5, <2>6
<1>5. Len(p) = Len(c) /\ \A i \in DOMAIN c : p[i] = c[i] \/ c[i] \in unread
  BY DEF Restores, p
<1>6. ASSUME NEW i \in DOMAIN c PROVE q[i] = c[i] \/ c[i] \in unread'
  <2>1. i \in 1 .. Len(p)
    BY <1>5
  <2> QED BY <1>4, <1>5, <2>1
<1>7. Len(q) = Len(c)
  BY <1>4, <1>5
<1> QED BY <1>6, <1>7 DEF Restores, q

-----------------------------------------------------------------------------
(* The server.                                                             *)

LEMMA Constants ==
  /\ S!ConstantsAssumption
  /\ \A m \in Meta : Content[m] \in Seq(Hash)
  /\ NoFile \notin Meta /\ Batch \in Nat \ {0}
  BY ConstantsAssumption

LEMMA SameConstants == P!ConstantsAssumption
  BY Constants
  DEF P!ConstantsAssumption, S!ConstantsAssumption, P!Block, S!Block, P!CmpType, S!CmpType

LEMMA SameType == P!TypeOK <=> S!TypeOK
  BY DEF P!TypeOK, S!TypeOK, P!Block, S!Block, P!CmpType, S!CmpType, P!Request,
         S!Request, P!Url, S!Url

LEMMA SameNext == S!Next => P!Next
  BY DEF S!Next, S!Post, S!Handler, S!CreateResponse, S!StoreSmeta, S!DataThread,
         S!Restart, S!Receive, S!MetaRequest, S!HashArrayRequest, S!DataArrayRequest,
         S!Arrays, S!Idle, S!BuildNeededHashList, S!PushMeta, S!PushData, S!Answered,
         S!PopData, S!SetMetadataToFileMeta, S!FileReplace, S!WriteData, S!Fault,
         S!NoFault, S!Exists, S!Queued, S!BeingStored, S!Block, S!CmpType, S!ToSet,
         S!queueVars, S!storerVars, S!fileVars, S!boundVars,
         P!Next, P!Post, P!Handler, P!CreateResponse, P!StoreSmeta, P!DataThread,
         P!Restart, P!Receive, P!MetaRequest, P!HashArrayRequest, P!DataArrayRequest,
         P!Arrays, P!Idle, P!BuildNeededHashList, P!PushMeta, P!PushData, P!Answered,
         P!PopData, P!SetMetadataToFileMeta, P!FileReplace, P!WriteData, P!Fault,
         P!NoFault, P!Exists, P!Queued, P!BeingStored, P!Block, P!CmpType, P!ToSet,
         P!queueVars, P!storerVars, P!fileVars, P!boundVars

(* The server keeps its types: IngestProofs says so.                       *)
LEMMA ServerType ==
  ASSUME S!TypeOK, HandInv, S!Next
  PROVE  S!TypeOK'
<1>1. P!TypeOK /\ P!AnyNext
  <2> HIDE DEF P!TypeOK, P!Next, P!AnyNext
  <2> QED BY SameType, SameNext, SameConstants, P!NextIsAny
<1>2. P!TypeOK'
  <2> HIDE DEF P!TypeOK, P!AnyNext, P!vars
  <2> QED BY <1>1, P!NextType, SameConstants DEF HandInv
<1> QED BY <1>2
  DEF P!TypeOK, S!TypeOK, P!Block, S!Block, P!CmpType, S!CmpType, P!Request,
      S!Request, P!Url, S!Url

(* What a step may do to the file of block h.                              *)
BlockStep(h) ==
    \/ data'[h] = data[h]
    \/ data[h] = "absent" /\ data'[h] # "absent"
    \/ S!BeingStored(h) /\ block' = NoBlock /\ data'[h] = block.cmp
    \/ block' = NoBlock /\ data'[h] = "torn"

StoreStep ==
    /\ HandInv'
    /\ harmed \subseteq harmed'
    /\ \A h \in Hash : BlockStep(h)

(* A part of the server that leaves data_thread alone.                     *)
LEMMA StoreUntouched ==
  ASSUME HandInv, UNCHANGED <<storer, block, data>>, harmed \subseteq harmed'
  PROVE  StoreStep
  BY DEF StoreStep, HandInv, BlockStep

LEMMA ServerStore ==
  ASSUME S!TypeOK, HandInv, S!Next
  PROVE  StoreStep
<1>1. ASSUME NEW c \in Conn, S!Post(c) \/ S!Handler(c) \/ S!CreateResponse(c)
      PROVE  StoreStep
  <2>1. UNCHANGED <<storer, block, data, harmed>>
    BY <1>1 DEF S!Post, S!Handler, S!CreateResponse, S!Receive, S!BuildNeededHashList,
                S!PushMeta, S!PushData, S!storerVars, S!fileVars
  <2> QED BY <2>1, StoreUntouched
<1>2. CASE S!StoreSmeta
  BY <1>2, StoreUntouched DEF S!StoreSmeta, S!storerVars, S!Fault, S!NoFault
<1>3. CASE S!PopData
  <2>1. block \in S!Block \cup {NoBlock} /\ dataQ \in Seq(S!Block)
    BY DEF S!TypeOK
  <2>2. Head(dataQ) \in S!Block /\ NoBlock \notin S!Block
    BY <2>1, <1>3, Constants DEF S!PopData, S!ConstantsAssumption
  <2> QED BY <1>3, <2>2 DEF S!PopData, S!fileVars, StoreStep, HandInv, BlockStep
<1>4. CASE S!SetMetadataToFileMeta
  BY <1>4 DEF S!SetMetadataToFileMeta, S!Fault, S!NoFault, StoreStep, HandInv, BlockStep
<1>5. CASE S!FileReplace
  <2>1. data \in [Hash -> S!CmpType \cup {"absent", "torn"}]
    BY DEF S!TypeOK
  <2> QED BY <1>5, <2>1 DEF S!FileReplace, S!Fault, S!NoFault, S!Exists, StoreStep, HandInv,
                            BlockStep
<1>6. CASE S!WriteData
  <2>1. data \in [Hash -> S!CmpType \cup {"absent", "torn"}] /\ block # NoBlock
    BY <1>6 DEF S!TypeOK, S!WriteData, HandInv
  <2> QED BY <1>6, <2>1 DEF S!WriteData, S!Fault, S!NoFault, S!BeingStored, StoreStep, HandInv,
                            BlockStep
<1>7. CASE S!Restart
  BY <1>7 DEF S!Restart, S!fileVars, StoreStep, HandInv, BlockStep
<1> QED BY <1>1, <1>2, <1>3, <1>4, <1>5, <1>6, <1>7 DEF S!Next, S!DataThread

(* A failed write of the program is the only step that is not the server's.*)
OutStep ==
    /\ file \in Meta /\ S!Fault(file)
    /\ UNCHANGED <<conn, metaQ, dataQ, storer, block, lines, partial, data, dotmeta,
                   vouched, crashes, requests>>

LEMMA OutStepStore ==
  ASSUME S!TypeOK, HandInv, OutStep
  PROVE  S!TypeOK' /\ StoreStep
<1>1. harmed' \subseteq Meta \cup Hash /\ faults' \in 0 .. MaxFaults /\ harmed \subseteq harmed'
  <2>1. faults \in 0 .. MaxFaults /\ MaxFaults \in Nat /\ faults < MaxFaults
        /\ faults' = faults + 1
    BY Constants DEF S!TypeOK, OutStep, S!Fault, S!ConstantsAssumption
  <2> QED BY <2>1 DEF S!TypeOK, OutStep, S!Fault
<1>2. S!TypeOK'
  BY <1>1 DEF S!TypeOK, OutStep
<1>3. UNCHANGED <<storer, block, data>>
  BY DEF OutStep
<1> QED BY <1>1, <1>2, <1>3, StoreUntouched

LEMMA StillStore ==
  ASSUME S!TypeOK, HandInv, UNCHANGED serverVars
  PROVE  S!TypeOK' /\ StoreStep
<1>1. S!TypeOK'
  BY DEF S!TypeOK, serverVars
<1>2. UNCHANGED <<storer, block, data>> /\ harmed \subseteq harmed'
  BY DEF serverVars
<1> QED BY <1>1, <1>2, StoreUntouched

-----------------------------------------------------------------------------
(* A file that stays sound.                                                *)

LEMMA StaysSound ==
  ASSUME Watch, sound', file # NoFile
  PROVE  sound /\ ~Disturbed' /\ file' # NoFile
  BY DEF Watch

(* What it means for the blocks of the file not to be disturbed.           *)
LEMMA Undisturbed ==
  ASSUME ~Disturbed', NEW h \in Hash, h \in ToSet(Content[file'])
  PROVE  data'[h] # "absent" =>
           \/ S!BeingStored(h)'
           \/ data'[h] \in S!CmpType /\ S!StoredCmpType(h)' = data'[h]
  BY DEF Disturbed, S!Spoiled, S!Exists, S!Readable, S!StoredCmpType, S!BeingStored

LEMMA UndisturbedReader ==
  ASSUME ~Disturbed', reader' \in {"open", "read"}, S!BeingStored(Head(header))'
  PROVE  {cmptype', data'[Head(header')]} \cap S!CmpType = {block'.cmp}
  BY DEF Disturbed

(* The hashes of a file, and those the program and the thread have, are    *)
(* hashes.                                                                 *)
LEMMA HashesOfFile ==
  ASSUME NEW m \in Meta
  PROVE  ToSet(Content[m]) \subseteq Hash
<1>1. Content[m] \in Seq(Hash)
  BY Constants
<1> QED BY <1>1 DEF ToSet

LEMMA SoundStep ==
  ASSUME IInv, StoreStep, Watch, file # NoFile, file' = file
  PROVE  SoundInv'
<1>0. file \in Meta
  BY DEF IInv, TypeOK
<1> SUFFICES ASSUME sound', NEW h \in ToSet(Content[file])
             PROVE  data'[h] \in S!CmpType
  BY <1>0 DEF SoundInv, S!CmpType
<1>1. sound /\ ~Disturbed'
  BY StaysSound
<1>2. file \in Meta /\ data[h] \in S!CmpType /\ h \in Hash
  BY <1>1, HashesOfFile DEF IInv, SoundInv
<1>3. CASE data'[h] = data[h]
  BY <1>2, <1>3
<1>4. CASE S!BeingStored(h) /\ data'[h] = block.cmp
  <2>1. block \in S!Block
    BY <1>4 DEF S!BeingStored, IInv, TypeOK, S!TypeOK
  <2> QED BY <1>2, <1>4, <2>1 DEF S!Block
<1>5. ~(block' = NoBlock /\ data'[h] = "torn")
  <2> SUFFICES ASSUME block' = NoBlock, data'[h] = "torn" PROVE FALSE
    OBVIOUS
  <2>1. ~S!BeingStored(h)'
    BY DEF S!BeingStored
  <2> QED BY <1>1, <1>2, <2>1, Undisturbed DEF S!CmpType
<1>6. data[h] # "absent"
  BY <1>2 DEF S!CmpType
<1> QED BY <1>2, <1>3, <1>4, <1>5, <1>6 DEF StoreStep, BlockStep

(* What is known of the block that is read stays true while the thread of  *)
(* the request does not move.                                              *)
LEMMA ReaderStays ==
  ASSUME IInv, StoreStep, Watch, file # NoFile, file' = file,
         UNCHANGED <<readerVars, misreadVars>>
  PROVE  ReaderInv'
<1> SUFFICES ASSUME sound', ~Mistaken' PROVE ReaderInv'
  BY DEF ReaderInv
<1>1. sound /\ ~Mistaken /\ ~Disturbed' /\ UNCHANGED <<reader, header, cmptype, bytes>>
  BY StaysSound DEF readerVars, misreadVars, Mistaken
<1>2. ASSUME reader \in {"open", "read"}
      PROVE  /\ data'[Head(header)] = cmptype
             /\ S!BeingStored(Head(header))' => block'.cmp = cmptype
  <2> DEFINE h == Head(header)
  <2>1. header \in Seq(Hash) /\ header # <<>> /\ cmptype \in S!CmpType
    BY <1>2 DEF IInv, TypeOK, ProgramInv
  <2>2. h \in Hash /\ h \in ToSet(header)
    BY <2>1, ElementsOfTail
  <2>3. h \in ToSet(Content[file])
    BY <2>2 DEF IInv, ProgramInv
  <2>4. data[h] = cmptype /\ (S!BeingStored(h) => block.cmp = cmptype)
    BY <1>1, <1>2 DEF IInv, ReaderInv
  <2>5. data'[h] \in S!CmpType
    BY <2>3, SoundStep DEF SoundInv
  <2>6. data'[h] = cmptype
    BY <2>1, <2>2, <2>4, <2>5 DEF StoreStep, BlockStep, S!CmpType
  <2>7. ASSUME S!BeingStored(h)' PROVE block'.cmp = cmptype
    <3>1. S!BeingStored(Head(header))' /\ reader' \in {"open", "read"}
      BY <1>1, <1>2, <2>7
    <3>2. {cmptype, data'[h]} \cap S!CmpType = {block'.cmp}
      BY <1>1, <3>1, UndisturbedReader
    <3> QED BY <2>1, <2>6, <3>2
  <2> QED BY <2>6, <2>7, <1>1
<1>3. reader \in {"read", "concat"} => bytes = cmptype
  BY <1>1 DEF IInv, ReaderInv
<1> QED BY <1>1, <1>2, <1>3 DEF ReaderInv, S!BeingStored

(* A step that keeps what the pieces are.                                  *)
LEMMA PiecesStep ==
  ASSUME IInv, StoreStep, Watch, file # NoFile, file' = file, printed => printed',
         unread \subseteq unread',
         \/ printed'
         \/ sound => Pieces(out', buffer', header', list') = Pieces(out, buffer, header, list)
  PROVE  PiecesInv'
<1> SUFFICES ASSUME sound', ~printed', file' \notin harmed'
             PROVE  Restores(Pieces(out, buffer, header, list), Content[file])'
  BY DEF PiecesInv
<1>1. sound /\ ~printed /\ file \notin harmed
  BY StaysSound DEF StoreStep
<1>2. PICK p : p = Pieces(out, buffer, header, list)
  OBVIOUS
<1>3. PICK c : c = Content[file]
  OBVIOUS
<1>4. Restores(p, c)'
  BY <1>1, <1>2, <1>3, RestoresStays DEF IInv, PiecesInv
<1>5. Pieces(out', buffer', header', list') = p /\ Content[file'] = c
  BY <1>1, <1>2, <1>3
<1> QED BY <1>4, <1>5 DEF Restores

(* A step that moves no piece.                                             *)
LEMMA PiecesStay ==
  ASSUME IInv, StoreStep, Watch, file # NoFile, file' = file, printed => printed',
         UNCHANGED <<list, out>>, unread \subseteq unread',
         UNCHANGED <<header, buffer>> \/ printed'
  PROVE  PiecesInv'
  BY PiecesStep

-----------------------------------------------------------------------------
(* The steps.                                                              *)

(* What a step of the program or of its request must keep of the types.    *)
RestType ==
    /\ file \in Meta \cup {NoFile}
    /\ list \in Seq(Hash)
    /\ out \in Seq(Piece)
    /\ printed \in BOOLEAN
    /\ reader \in {"none", "cmptype", "open", "read", "concat"}
    /\ header \in Seq(Hash)
    /\ cmptype \in S!CmpType
    /\ bytes \in S!CmpType \cup {"absent", "torn"}
    /\ bytes # "absent" <=> reader \in {"read", "concat"}
    /\ buffer \in Seq(Piece)
    /\ unread \subseteq Hash
    /\ unsized \subseteq Hash

LEMMA TypeParts == TypeOK <=> S!TypeOK /\ RestType /\ sound \in BOOLEAN
  BY DEF TypeOK, RestType

LEMMA SoundType ==
  ASSUME IInv, Watch
  PROVE  sound' \in BOOLEAN
  BY DEF Watch, IInv, TypeOK

LEMMA CreateFileInv ==
  ASSUME IInv, NEW m \in Meta, CreateFile(m), Watch
  PROVE  IInv'
<1>1. /\ file = NoFile /\ file' = m /\ list' = Content[m] /\ m # NoFile
      /\ UNCHANGED <<serverVars, out, printed, readerVars, misreadVars>>
  BY Constants DEF CreateFile
<1>2. /\ list = <<>> /\ reader = "none" /\ out = <<>> /\ header = <<>> /\ buffer = <<>>
  BY <1>1 DEF IInv, ProgramInv
<1>3. S!TypeOK' /\ StoreStep
  BY <1>1, StillStore DEF IInv, TypeOK
<1>4. TypeOK'
  <2>1. RestType'
    BY <1>1, Constants DEF IInv, TypeOK, RestType, readerVars, misreadVars, S!CmpType
  <2> QED BY <1>3, <2>1, SoundType, TypeParts DEF TypeOK, RestType
<1>5. ProgramInv'
  BY <1>1, <1>2, NoElements DEF ProgramInv, readerVars
<1>6. SoundInv'
  <2> SUFFICES ASSUME sound', NEW h \in ToSet(Content[m])
               PROVE  data'[h] \in S!CmpType
    BY <1>1 DEF SoundInv, S!CmpType
  <2>1. S!Readable(h) /\ data' = data
    BY <1>1 DEF Watch, serverVars
  <2> QED BY <2>1 DEF S!Readable
<1>7. ReaderInv'
  BY <1>1, <1>2 DEF ReaderInv, readerVars
<1>8. PiecesInv'
  <2>1. Content[m] \in Seq(Hash) /\ <<>> \in Seq(Hash)
    BY Constants
  <2>2. Pieces(<<>>, <<>>, <<>>, Content[m]) = Content[m]
    BY <2>1 DEF Pieces
  <2> QED BY <1>1, <1>2, <2>2 DEF PiecesInv, Restores, readerVars
<1> QED BY <1>3, <1>4, <1>5, <1>6, <1>7, <1>8 DEF IInv, StoreStep

LEMMA GetHashArrayInv ==
  ASSUME IInv, GetHashArray, Watch
  PROVE  IInv'
<1> DEFINE k == IF Len(list) < Batch THEN Len(list) ELSE Batch
<1>1. /\ reader = "none" /\ list # <<>> /\ reader' = "cmptype" /\ buffer' = <<>>
      /\ header' = SubSeq(list, 1, k) /\ list' = SubSeq(list, Batch + 1, Len(list))
      /\ UNCHANGED <<serverVars, file, out, printed, cmptype, bytes, unread, unsized>>
  BY DEF GetHashArray, misreadVars
<1>2. /\ header = <<>> /\ buffer = <<>> /\ file # NoFile /\ list \in Seq(Hash)
  BY <1>1 DEF IInv, TypeOK, ProgramInv
<1>3. /\ header' \in Seq(Hash) /\ list' \in Seq(Hash)
      /\ header' \o list' = list
      /\ ToSet(header') \cup ToSet(list') \subseteq ToSet(list)
  <2> HIDE DEF k
  <2>1. k = IF Len(list) < Batch THEN Len(list) ELSE Batch
    BY DEF k
  <2> QED BY <1>1, <1>2, <2>1, BatchOfList, Constants
<1>4. S!TypeOK' /\ StoreStep
  BY <1>1, StillStore DEF IInv, TypeOK
<1>5. TypeOK'
  <2>1. RestType'
    BY <1>1, <1>3 DEF IInv, TypeOK, RestType, S!CmpType
  <2> QED BY <1>4, <2>1, SoundType, TypeParts DEF TypeOK, RestType
<1>6. ProgramInv'
  BY <1>1, <1>2, <1>3 DEF IInv, ProgramInv
<1>7. SoundInv'
  BY <1>1, <1>2, <1>4, SoundStep
<1>8. ReaderInv'
  BY <1>1 DEF ReaderInv
<1>9. PiecesInv'
  <2>1. Pieces(out, <<>>, header', list') = Pieces(out, <<>>, <<>>, list)
    <3> HIDE DEF k
    <3>1. <<>> \o (header' \o list') = header' \o list'
      BY <1>3
    <3>2. Pieces(out, <<>>, header', list') = Pieces(out, <<>>, <<>>, header' \o list')
      BY <3>1 DEF Pieces
    <3> QED BY <1>3, <3>2
  <2> QED BY <1>1, <1>2, <1>4, <2>1, PiecesStep
<1> QED BY <1>4, <1>5, <1>6, <1>7, <1>8, <1>9 DEF IInv, StoreStep

LEMMA WriteAnswerInv ==
  ASSUME IInv, WriteAnswer, Watch
  PROVE  IInv'
<1>1. /\ reader = "cmptype" /\ header = <<>> /\ reader' = "none" /\ header' = <<>>
      /\ buffer' = <<>> /\ cmptype' = "none" /\ bytes' = "absent"
      /\ UNCHANGED <<file, list, printed, data, unread, unsized>>
  BY DEF WriteAnswer, EndOfGet, NoBlockRead, misreadVars
<1>2. file # NoFile /\ file \in Meta
  BY <1>1 DEF IInv, ProgramInv, TypeOK
<1>3. S!TypeOK' /\ StoreStep
  <2>1. CASE UNCHANGED <<harmed, faults>>
    <3>1. UNCHANGED serverVars
      BY <2>1 DEF WriteAnswer, serverVars
    <3> QED BY <3>1, StillStore DEF IInv, TypeOK
  <2>2. CASE S!Fault(file)
    <3>1. OutStep
      BY <1>2, <2>2 DEF WriteAnswer, OutStep
    <3> QED BY <3>1, OutStepStore DEF IInv, TypeOK
  <2> QED BY <2>1, <2>2 DEF WriteAnswer
<1>4. TypeOK'
  <2>1. out' \in Seq(Piece)
    <3>1. out \in Seq(Piece) /\ buffer \in Seq(Piece)
      BY DEF IInv, TypeOK
    <3>2. out \o buffer \in Seq(Piece)
      BY <3>1, ConcatProperties
    <3> QED BY <3>1, <3>2 DEF WriteAnswer
  <2>2. RestType'
    BY <1>1, <2>1 DEF IInv, TypeOK, RestType, S!CmpType
  <2> QED BY <1>3, <2>2, SoundType, TypeParts DEF TypeOK, RestType
<1>5. ProgramInv'
  BY <1>1, <1>2, NoElements DEF IInv, ProgramInv
<1>6. SoundInv'
  BY <1>1, <1>2, <1>3, SoundStep
<1>7. ReaderInv'
  BY <1>1 DEF ReaderInv
<1>8. PiecesInv'
  <2>1. out' = out \o buffer \/ file \in harmed'
    BY <1>1 DEF WriteAnswer, S!Fault
  <2>2. out \in Seq(Piece) /\ buffer \in Seq(Piece) /\ list \in Seq(Piece)
    BY DEF IInv, TypeOK, Piece
  <2>3. Pieces(out \o buffer, <<>>, <<>>, list) = Pieces(out, buffer, <<>>, list)
    BY <2>2, BufferMoves
  <2>4. CASE file \in harmed'
    BY <1>1, <2>4 DEF PiecesInv
  <2>5. CASE out' = out \o buffer
    BY <1>1, <1>2, <1>3, <2>3, <2>5, PiecesStep
  <2> QED BY <2>1, <2>4, <2>5
<1> QED BY <1>3, <1>4, <1>5, <1>6, <1>7, <1>8 DEF IInv, StoreStep

LEMMA GetFailsInv ==
  ASSUME IInv, GetFails, Watch
  PROVE  IInv'
<1>1. /\ reader # "none" /\ reader' = "none" /\ header' = <<>> /\ buffer' = <<>>
      /\ cmptype' = "none" /\ bytes' = "absent" /\ printed' = TRUE
      /\ UNCHANGED <<serverVars, file, list, out, unread, unsized>>
  BY DEF GetFails, EndOfGet, NoBlockRead, misreadVars
<1>2. file # NoFile
  BY <1>1 DEF IInv, ProgramInv
<1>3. S!TypeOK' /\ StoreStep
  BY <1>1, StillStore DEF IInv, TypeOK
<1>4. TypeOK'
  <2>1. RestType'
    BY <1>1 DEF IInv, TypeOK, RestType, S!CmpType
  <2> QED BY <1>3, <2>1, SoundType, TypeParts DEF TypeOK, RestType
<1>5. ProgramInv'
  BY <1>1, <1>2, NoElements DEF IInv, ProgramInv
<1>6. SoundInv'
  BY <1>1, <1>2, <1>3, SoundStep
<1>7. ReaderInv' /\ PiecesInv'
  BY <1>1 DEF ReaderInv, PiecesInv
<1> QED BY <1>3, <1>4, <1>5, <1>6, <1>7 DEF IInv, StoreStep

(* The head of what the thread has to read is a block of the file.         *)
LEMMA HeadOfHeader ==
  ASSUME IInv, header # <<>>, file # NoFile
  PROVE  /\ Head(header) \in Hash /\ Tail(header) \in Seq(Hash)
         /\ Head(header) \in ToSet(Content[file])
         /\ ToSet(Tail(header)) \subseteq ToSet(header)
<1>1. header \in Seq(Hash) /\ ToSet(header) \subseteq ToSet(Content[file])
  BY DEF IInv, TypeOK, ProgramInv
<1> QED BY <1>1, ElementsOfTail

LEMMA ReadCmpTypeInv ==
  ASSUME IInv, ReadCmpType, Watch
  PROVE  IInv'
<1> DEFINE h == Head(header)
<1>1. /\ reader = "cmptype" /\ header # <<>> /\ reader' = "open"
      /\ UNCHANGED <<serverVars, file, list, out, printed, header, bytes, buffer, unsized>>
      /\ \/ cmptype' = S!StoredCmpType(h) /\ unread' = unread
         \/ cmptype' = "none" /\ unread' = unread \cup {h}
  BY DEF ReadCmpType, programVars, misreadVars, Misread
<1>2. file # NoFile
  BY <1>1 DEF IInv, ProgramInv
<1>3. S!TypeOK' /\ StoreStep
  BY <1>1, StillStore DEF IInv, TypeOK
<1>4. cmptype' \in S!CmpType /\ unread \subseteq unread' /\ unread' \subseteq Hash
  <2>1. dotmeta \in [Hash -> S!CmpType \cup {"absent"}] /\ unread \subseteq Hash
    BY DEF IInv, TypeOK, S!TypeOK
  <2>2. h \in Hash
    BY <1>1, <1>2, HeadOfHeader
  <2> HIDE DEF h
  <2> QED BY <1>1, <2>1, <2>2 DEF S!StoredCmpType, S!CmpType
<1>5. TypeOK'
  <2>1. RestType'
    BY <1>1, <1>4 DEF IInv, TypeOK, RestType, S!CmpType
  <2> QED BY <1>3, <2>1, SoundType, TypeParts DEF TypeOK, RestType
<1>6. ProgramInv'
  BY <1>1, <1>2 DEF IInv, ProgramInv
<1>7. SoundInv'
  BY <1>1, <1>2, <1>3, SoundStep
<1>8. ReaderInv'
  <2> SUFFICES ASSUME sound', ~Mistaken'
               PROVE  data[h] = cmptype' /\ (S!BeingStored(h) => block.cmp = cmptype')
    BY <1>1 DEF ReaderInv, S!BeingStored, serverVars
  <2>0. cmptype' = S!StoredCmpType(h)
    BY <1>1 DEF Mistaken
  <2>1. sound /\ ~Disturbed' /\ UNCHANGED <<data, block, dotmeta>>
    BY <1>1, <1>2, StaysSound DEF serverVars
  <2>2. h \in Hash /\ h \in ToSet(Content[file])
    BY <1>1, <1>2, HeadOfHeader
  <2>3. data[h] \in S!CmpType
    BY <2>1, <2>2 DEF IInv, SoundInv
  <2>4. CASE S!BeingStored(h)
    <3>1. S!BeingStored(Head(header))' /\ reader' \in {"open", "read"}
      BY <1>1, <2>1, <2>4 DEF S!BeingStored
    <3>2. {cmptype', data[h]} \cap S!CmpType = {block.cmp}
      BY <1>1, <2>1, <3>1, UndisturbedReader
    <3> QED BY <1>4, <2>3, <3>2
  <2>5. CASE ~S!BeingStored(h)
    <3>1. ~S!BeingStored(h)' /\ data'[h] # "absent"
      BY <1>1, <2>1, <2>3, <2>5 DEF S!BeingStored, S!CmpType
    <3>2. S!StoredCmpType(h)' = data'[h]
      BY <1>1, <2>1, <2>2, <3>1, Undisturbed
    <3>3. S!StoredCmpType(h)' = S!StoredCmpType(h)
      BY <1>1, <2>1 DEF S!StoredCmpType
    <3> QED BY <2>0, <2>1, <2>5, <3>2, <3>3
  <2> QED BY <2>4, <2>5
<1>9. PiecesInv'
  BY <1>1, <1>2, <1>3, <1>4, PiecesStay
<1> QED BY <1>3, <1>5, <1>6, <1>7, <1>8, <1>9 DEF IInv, StoreStep

(* A block that is left out although it could be given back was unread.    *)
LEMMA LeaveOutInv ==
  ASSUME IInv, LeaveOut, Watch, reader \in {"open", "read"},
         UNCHANGED <<serverVars, programVars, unsized>>,
         \/ unread' = unread \cup {Head(header)}
         \/ unread' = unread /\ ~S!Exists(Head(header))
  PROVE  IInv'
<1> DEFINE h == Head(header)
<1>1. /\ header' = Tail(header) /\ reader' = "cmptype" /\ cmptype' = "none"
      /\ bytes' = "absent" /\ buffer' = Append(buffer, LeftOut)
      /\ UNCHANGED <<serverVars, file, list, out, printed, unsized>>
  BY DEF LeaveOut, NextHash, NoBlockRead, programVars
<1>2. file # NoFile /\ header # <<>> /\ file \in Meta
  BY DEF IInv, ProgramInv, TypeOK
<1>3. S!TypeOK' /\ StoreStep
  BY <1>1, StillStore DEF IInv, TypeOK
<1>4. h \in Hash /\ h \in ToSet(Content[file])
  BY <1>2, HeadOfHeader
<1>5. TypeOK'
  <2>1. buffer' \in Seq(Piece)
    <3>1. LeftOut \in Piece /\ buffer \in Seq(Piece)
      BY DEF IInv, TypeOK, Piece
    <3> QED BY <1>1, <3>1
  <2>2. unread' \subseteq Hash
    BY <1>4 DEF IInv, TypeOK
  <2>3. RestType'
    BY <1>1, <1>2, <2>1, <2>2, HeadOfHeader DEF IInv, TypeOK, RestType, S!CmpType
  <2> QED BY <1>3, <2>3, SoundType, TypeParts DEF TypeOK, RestType
<1>6. ProgramInv'
  BY <1>1, <1>2, HeadOfHeader DEF IInv, ProgramInv
<1>7. SoundInv'
  BY <1>1, <1>2, <1>3, SoundStep
<1>8. ReaderInv'
  BY <1>1 DEF ReaderInv
<1>9. PiecesInv'
  <2> SUFFICES ASSUME sound', ~printed', file' \notin harmed'
               PROVE  Restores(Pieces(out, buffer, header, list), Content[file])'
    BY DEF PiecesInv
  <2>1. sound /\ ~printed /\ file \notin harmed
    BY <1>1, <1>2, <1>3, StaysSound DEF StoreStep
  <2>2. h \in unread' /\ unread \subseteq unread'
    <3>1. data[h] \in S!CmpType
      BY <1>4, <2>1 DEF IInv, SoundInv
    <3> QED BY <3>1 DEF S!Exists, S!CmpType
  <2>3. PICK o \in Seq(Piece), b \in Seq(Piece), q \in Seq(Piece), l \in Seq(Piece),
             c \in Seq(Piece) :
          o = out /\ b = buffer /\ q = header /\ l = list /\ c = Content[file]
    BY <1>2, Constants DEF IInv, TypeOK, Piece
  <2>4. Restores(Pieces(o, b, q, l), c)
    BY <2>1, <2>3 DEF IInv, PiecesInv
  <2>5. LeftOut \in Piece /\ q # <<>> /\ Head(q) \in unread'
    BY <1>2, <2>2, <2>3 DEF Piece
  <2>6. Restores(Pieces(o, Append(b, LeftOut), Tail(q), l), c)'
    BY <2>2, <2>4, <2>5, BlockReplaced
  <2>7. /\ Pieces(out', buffer', header', list') = Pieces(o, Append(b, LeftOut), Tail(q), l)
        /\ Content[file'] = c
    BY <1>1, <2>3
  <2> QED BY <2>6, <2>7 DEF Restores
<1> QED BY <1>3, <1>5, <1>6, <1>7, <1>8, <1>9 DEF IInv, StoreStep

LEMMA OpenBlockInv ==
  ASSUME IInv, OpenBlock, Watch
  PROVE  IInv'
<1> DEFINE h == Head(header)
<1>1. reader = "open" /\ UNCHANGED <<serverVars, file, list, out, printed>>
  BY DEF OpenBlock, programVars
<1>2. file # NoFile /\ header # <<>> /\ bytes = "absent" /\ UNCHANGED data
  BY <1>1 DEF IInv, ProgramInv, TypeOK, serverVars
<1>3. S!TypeOK' /\ StoreStep
  BY <1>1, StillStore DEF IInv, TypeOK
<1>4. SoundInv'
  BY <1>1, <1>2, <1>3, SoundStep
<1>5. h \in Hash /\ h \in ToSet(Content[file])
  BY <1>2, HeadOfHeader
<1>6. ASSUME S!Exists(h), bytes' = data[h], reader' = "read",
             UNCHANGED <<cmptype, header, buffer, misreadVars>>
      PROVE  IInv'
  <2>1. UNCHANGED <<cmptype, header, buffer, unread, unsized>>
    BY <1>6 DEF misreadVars
  <2>2. data[h] \in S!CmpType \cup {"torn"}
    <3>1. data \in [Hash -> S!CmpType \cup {"absent", "torn"}]
      BY DEF IInv, TypeOK, S!TypeOK
    <3> QED BY <1>5, <1>6, <3>1 DEF S!Exists
  <2>3. TypeOK'
    <3>1. RestType'
      BY <1>1, <1>6, <2>1, <2>2 DEF IInv, TypeOK, RestType, S!CmpType
    <3> QED BY <1>3, <3>1, SoundType, TypeParts DEF TypeOK, RestType
  <2>4. ProgramInv'
    BY <1>1, <1>2, <1>6, <2>1 DEF IInv, ProgramInv, S!Exists
  <2>5. ReaderInv'
    <3> SUFFICES ASSUME sound', ~Mistaken'
                 PROVE  data[h] = cmptype /\ (S!BeingStored(h) => block.cmp = cmptype)
      BY <1>1, <1>2, <1>6, <2>1 DEF ReaderInv, S!BeingStored, serverVars
    <3>1. sound /\ ~Mistaken
      BY <1>2, <2>1, StaysSound DEF Mistaken
    <3> QED BY <1>1, <3>1 DEF IInv, ReaderInv
  <2>6. PiecesInv'
    BY <1>1, <1>2, <1>3, <2>1, PiecesStay
  <2> QED BY <1>3, <1>4, <2>3, <2>4, <2>5, <2>6 DEF IInv, StoreStep
<1>7. ASSUME LeaveOut, \/ ~S!Exists(h) /\ UNCHANGED misreadVars
                       \/ Misread({h}, {})
      PROVE  IInv'
  <2>1. /\ unsized' = unsized
        /\ \/ unread' = unread \cup {h}
           \/ unread' = unread /\ ~S!Exists(h)
    BY <1>7 DEF Misread, misreadVars
  <2>2. UNCHANGED <<serverVars, programVars, unsized>> /\ LeaveOut
    BY <1>1, <1>7, <2>1 DEF programVars
  <2> HIDE DEF IInv, LeaveOut, Watch
  <2> QED BY <1>1, <2>1, <2>2, LeaveOutInv
<1> QED BY <1>6, <1>7 DEF OpenBlock

LEMMA ReadBlockInv ==
  ASSUME IInv, ReadBlock, Watch
  PROVE  IInv'
<1> DEFINE h == Head(header)
           now == data[h]
<1>1. reader = "read" /\ UNCHANGED <<serverVars, file, list, out, printed>>
  BY DEF ReadBlock, programVars
<1>2. file # NoFile /\ header # <<>> /\ bytes # "absent"
  BY <1>1 DEF IInv, ProgramInv, TypeOK
<1>3. S!TypeOK' /\ StoreStep
  BY <1>1, StillStore DEF IInv, TypeOK
<1>4. CASE LeaveOut /\ Misread({h}, {})
  <2>1. unsized' = unsized /\ unread' = unread \cup {h}
    BY <1>4 DEF Misread
  <2> QED BY <1>1, <1>4, <2>1, LeaveOutInv DEF programVars
<1>5. ASSUME reader' = "concat", UNCHANGED <<header, cmptype, buffer, unread>>,
             bytes' \in S!CmpType \cup {"torn"}, unsized' \subseteq Hash,
             sound' /\ ~Mistaken => bytes' = cmptype
      PROVE  IInv'
  <2>1. TypeOK'
    <3>1. RestType'
      BY <1>1, <1>5 DEF IInv, TypeOK, RestType, S!CmpType
    <3> QED BY <1>3, <3>1, SoundType, TypeParts DEF TypeOK, RestType
  <2>2. ProgramInv'
    BY <1>1, <1>2, <1>5 DEF IInv, ProgramInv
  <2>3. SoundInv'
    BY <1>1, <1>2, <1>3, SoundStep
  <2>4. ReaderInv'
    BY <1>5 DEF ReaderInv, Mistaken
  <2>5. PiecesInv'
    BY <1>1, <1>2, <1>3, <1>5, PiecesStay
  <2> QED BY <1>3, <2>1, <2>2, <2>3, <2>4, <2>5 DEF IInv, StoreStep
<1>6. ASSUME reader' = "concat", UNCHANGED <<header, cmptype, buffer, misreadVars>>,
             bytes' \in CASE bytes = now    -> {bytes}
                           [] bytes = "torn" -> {bytes, now}
                           [] OTHER          -> {bytes, "torn"}
      PROVE  IInv'
  <2>1. now \in S!CmpType \cup {"torn"}
    <3>1. data \in [Hash -> S!CmpType \cup {"absent", "torn"}] /\ now # "absent"
      BY <1>1 DEF IInv, TypeOK, S!TypeOK, ProgramInv, S!Exists
    <3> QED BY <1>2, <3>1, HeadOfHeader
  <2>2. bytes \in S!CmpType \cup {"torn"} /\ unsized \subseteq Hash
    BY <1>2 DEF IInv, TypeOK
  <2>3. sound /\ ~Mistaken => bytes = cmptype /\ now = cmptype
    BY <1>1 DEF IInv, ReaderInv
  <2>4. sound' => sound
    BY <1>1, <1>2, StaysSound
  <2> HIDE DEF now
  <2>5. bytes' \in S!CmpType \cup {"torn"} /\ (sound /\ ~Mistaken => bytes' = cmptype)
    BY <1>6, <2>1, <2>2, <2>3
  <2> QED BY <1>5, <1>6, <2>2, <2>4, <2>5 DEF misreadVars
<1>7. ASSUME bytes' = "torn", reader' = "concat", Misread({}, {h}),
             UNCHANGED <<header, cmptype, buffer>>
      PROVE  IInv'
  <2>1. h \in Hash /\ h \in ToSet(Content[file])
    BY <1>2, HeadOfHeader
  <2>2. unread' = unread /\ unsized' = unsized \cup {h} /\ unsized' \subseteq Hash
    BY <1>7, <2>1 DEF Misread, IInv, TypeOK
  <2>3. ~sound'
    <3> SUFFICES ASSUME sound' PROVE FALSE
      OBVIOUS
    <3>1. ~Disturbed'
      BY <1>1, <1>2, StaysSound
    <3> QED BY <1>1, <2>1, <2>2, <3>1 DEF Disturbed
  <2> QED BY <1>5, <1>7, <2>2, <2>3
<1> QED BY <1>4, <1>6, <1>7 DEF ReadBlock

LEMMA ConcatInv ==
  ASSUME IInv, Concat, Watch
  PROVE  IInv'
<1> DEFINE piece == IF bytes = cmptype THEN Head(header) ELSE Garbage
<1>1. /\ reader = "concat" /\ reader' = "cmptype" /\ header' = Tail(header)
      /\ cmptype' = "none" /\ bytes' = "absent" /\ buffer' = Append(buffer, piece)
      /\ UNCHANGED <<serverVars, file, list, out, printed, unread, unsized>>
  BY DEF Concat, NextHash, NoBlockRead, programVars, misreadVars
<1>2. file # NoFile /\ header # <<>> /\ file \in Meta
  BY <1>1 DEF IInv, ProgramInv, TypeOK
<1>3. S!TypeOK' /\ StoreStep
  BY <1>1, StillStore DEF IInv, TypeOK
<1>4. TypeOK'
  <2>1. buffer' \in Seq(Piece)
    <3>1. piece \in Piece /\ buffer \in Seq(Piece)
      BY <1>2, HeadOfHeader DEF IInv, TypeOK, Piece
    <3> HIDE DEF piece
    <3> QED BY <1>1, <3>1
  <2>2. RestType'
    BY <1>1, <1>2, <2>1, HeadOfHeader DEF IInv, TypeOK, RestType, S!CmpType
  <2> QED BY <1>3, <2>2, SoundType, TypeParts DEF TypeOK, RestType
<1>5. ProgramInv'
  BY <1>1, <1>2, HeadOfHeader DEF IInv, ProgramInv
<1>6. SoundInv'
  BY <1>1, <1>2, <1>3, SoundStep
<1>7. ReaderInv'
  BY <1>1 DEF ReaderInv
<1>8. PiecesInv'
  <2>1. /\ out \in Seq(Piece) /\ buffer \in Seq(Piece) /\ list \in Seq(Piece)
        /\ header \in Seq(Piece)
    BY DEF IInv, TypeOK, Piece
  <2>2. CASE bytes = cmptype
    <3>1. Pieces(out, Append(buffer, Head(header)), Tail(header), list)
              = Pieces(out, buffer, header, list)
      BY <1>2, <2>1, BlockMoves
    <3> QED BY <1>1, <1>2, <1>3, <2>2, <3>1, PiecesStep
  <2>3. CASE bytes # cmptype
    <3> SUFFICES ASSUME sound', ~printed', file' \notin harmed'
                 PROVE  Restores(Pieces(out, buffer, header, list), Content[file])'
      BY DEF PiecesInv
    <3>1. sound /\ ~printed /\ file \notin harmed
      BY <1>1, <1>2, <1>3, StaysSound DEF StoreStep
    <3>2. Head(header) \in unread' /\ unread \subseteq unread'
      BY <1>1, <2>3, <3>1 DEF IInv, ReaderInv, Mistaken
    <3>3. PICK o \in Seq(Piece), b \in Seq(Piece), q \in Seq(Piece), l \in Seq(Piece),
               c \in Seq(Piece) :
            o = out /\ b = buffer /\ q = header /\ l = list /\ c = Content[file]
      BY <1>2, <2>1, Constants DEF IInv, TypeOK, Piece
    <3>4. Restores(Pieces(o, b, q, l), c)
      BY <3>1, <3>3 DEF IInv, PiecesInv
    <3>5. Garbage \in Piece /\ q # <<>> /\ Head(q) \in unread'
      BY <1>2, <3>2, <3>3 DEF Piece
    <3>6. Restores(Pieces(o, Append(b, Garbage), Tail(q), l), c)'
      BY <3>2, <3>4, <3>5, BlockReplaced
    <3>7. /\ Pieces(out', buffer', header', list') = Pieces(o, Append(b, Garbage), Tail(q), l)
          /\ Content[file'] = c
      BY <1>1, <2>3, <3>3
    <3> QED BY <3>6, <3>7 DEF Restores
  <2> QED BY <2>2, <2>3
<1> QED BY <1>3, <1>4, <1>5, <1>6, <1>7, <1>8 DEF IInv, StoreStep

(* Nothing is said of a program that has no file yet.                      *)
LEMMA NoFileNotSound ==
  ASSUME Watch, file' = NoFile
  PROVE  SoundInv' /\ ReaderInv' /\ PiecesInv'
<1>1. ~sound'
  BY DEF Watch
<1> QED BY <1>1 DEF SoundInv, ReaderInv, PiecesInv

LEMMA UncompressFailsInv ==
  ASSUME IInv, UncompressFails, Watch
  PROVE  IInv'
<1>1. /\ reader = "concat" /\ ~Uncompressed /\ UNCHANGED <<file, list, out, unread, unsized>>
  BY DEF UncompressFails, misreadVars
<1>2. file # NoFile /\ header # <<>>
  BY <1>1 DEF IInv, ProgramInv
<1>3. ~sound'
  <2> SUFFICES ASSUME sound' PROVE FALSE
    OBVIOUS
  <2>1. cmptype = "zlib" /\ bytes # "zlib"
    BY <1>1 DEF Uncompressed
  <2> QED BY <1>1, <1>2, <2>1, StaysSound DEF IInv, ReaderInv, Mistaken
<1>4. S!TypeOK' /\ StoreStep
  <2>1. CASE UNCHANGED serverVars
    BY <2>1, StillStore DEF IInv, TypeOK
  <2>2. CASE S!Restart
    BY <2>2, ServerType, ServerStore DEF IInv, TypeOK, S!Next
  <2> QED BY <2>1, <2>2 DEF UncompressFails
<1>5. /\ header' \in {Tail(header), <<>>} /\ reader' \in {"cmptype", "none"}
      /\ reader' = "none" => header' = <<>> /\ buffer' = <<>>
      /\ buffer' \in {buffer, <<>>, <<Garbage>>} /\ printed' \in BOOLEAN
      /\ cmptype' = "none" /\ bytes' = "absent"
  BY DEF UncompressFails, NextHash, EndOfGet, NoBlockRead, IInv, TypeOK
<1>6. TypeOK'
  <2>1. buffer' \in Seq(Piece) /\ header' \in Seq(Hash)
    <3>1. Garbage \in Piece /\ Tail(header) \in Seq(Hash)
      BY <1>2, HeadOfHeader DEF Piece
    <3>2. <<>> \in Seq(Piece) /\ <<Garbage>> \in Seq(Piece) /\ <<>> \in Seq(Hash)
      BY <3>1
    <3>3. buffer \in Seq(Piece)
      BY DEF IInv, TypeOK
    <3> QED BY <1>5, <3>1, <3>2, <3>3
  <2>2. RestType'
    BY <1>1, <1>5, <2>1 DEF IInv, TypeOK, RestType, S!CmpType
  <2> QED BY <1>4, <2>2, SoundType, TypeParts DEF TypeOK, RestType
<1>7. ProgramInv'
  BY <1>1, <1>2, <1>5, HeadOfHeader, NoElements DEF IInv, ProgramInv
<1> QED BY <1>3, <1>4, <1>6, <1>7
    DEF IInv, StoreStep, SoundInv, ReaderInv, PiecesInv

LEMMA PostIsServers ==
  ASSUME NEW c \in Conn, Post(c)
  PROVE  S!Post(c)
  BY DEF Post, S!Post

LEMMA ServerInv ==
  ASSUME IInv, Server, Watch
  PROVE  IInv'
<1>1. S!Next /\ UNCHANGED <<programVars, readerVars, misreadVars>>
  BY PostIsServers DEF Server, S!Next
<1>2. S!TypeOK' /\ StoreStep
  BY <1>1, ServerType, ServerStore DEF IInv, TypeOK
<1>3. UNCHANGED <<file, list, out, printed, reader, header, cmptype, bytes, buffer,
                  unread, unsized>>
  BY <1>1 DEF programVars, readerVars, misreadVars
<1>4. TypeOK'
  <2>1. RestType'
    BY <1>3 DEF IInv, TypeOK, RestType, S!CmpType
  <2> QED BY <1>2, <2>1, SoundType, TypeParts DEF TypeOK, RestType
<1>5. ProgramInv'
  <2>1. reader = "read" => S!Exists(Head(header))'
    <3> SUFFICES ASSUME reader = "read" PROVE data'[Head(header)] # "absent"
      BY <1>3 DEF S!Exists
    <3>1. header # <<>> /\ file # NoFile /\ data[Head(header)] # "absent"
      BY DEF IInv, ProgramInv, S!Exists
    <3>2. Head(header) \in Hash
      BY <3>1, HeadOfHeader
    <3>3. S!BeingStored(Head(header)) => block.cmp # "absent"
      BY DEF S!BeingStored, IInv, TypeOK, S!TypeOK, S!Block, S!CmpType
    <3> QED BY <1>2, <3>1, <3>2, <3>3 DEF StoreStep, BlockStep
  <2> QED BY <1>3, <2>1 DEF IInv, ProgramInv, S!Exists
<1>6. CASE file = NoFile
  BY <1>2, <1>3, <1>4, <1>5, <1>6, NoFileNotSound DEF IInv, StoreStep
<1>7. CASE file # NoFile
  <2>1. SoundInv' /\ ReaderInv' /\ PiecesInv'
    BY <1>1, <1>2, <1>3, <1>7, SoundStep, ReaderStays, PiecesStay
  <2> QED BY <1>2, <1>4, <1>5, <2>1 DEF IInv, StoreStep
<1> QED BY <1>6, <1>7

LEMMA RestartInv ==
  ASSUME IInv, Restart, Watch
  PROVE  IInv'
<1>1. /\ S!Next /\ reader' = "none" /\ header' = <<>> /\ buffer' = <<>>
      /\ cmptype' = "none" /\ bytes' = "absent"
      /\ printed' = (printed \/ reader # "none")
      /\ UNCHANGED <<file, list, out, unread, unsized>>
  BY DEF Restart, EndOfGet, NoBlockRead, S!Next, misreadVars
<1>2. S!TypeOK' /\ StoreStep
  BY <1>1, ServerType, ServerStore DEF IInv, TypeOK
<1>3. TypeOK'
  <2>1. RestType'
    BY <1>1 DEF IInv, TypeOK, RestType, S!CmpType
  <2> QED BY <1>2, <2>1, SoundType, TypeParts DEF TypeOK, RestType
<1>4. ProgramInv'
  BY <1>1, NoElements DEF IInv, ProgramInv
<1>5. CASE file = NoFile
  BY <1>1, <1>2, <1>3, <1>4, <1>5, NoFileNotSound DEF IInv, StoreStep
<1>6. CASE file # NoFile
  <2>1. SoundInv'
    BY <1>1, <1>2, <1>6, SoundStep
  <2>2. ReaderInv'
    BY <1>1 DEF ReaderInv
  <2>3. PiecesInv'
    <3>1. UNCHANGED <<header, buffer>> \/ printed'
      BY <1>1 DEF IInv, ProgramInv
    <3> QED BY <1>1, <1>2, <1>6, <3>1, PiecesStay
  <2> QED BY <1>2, <1>3, <1>4, <2>1, <2>2, <2>3 DEF IInv, StoreStep
<1> QED BY <1>5, <1>6

LEMMA StutterInv ==
  ASSUME IInv, UNCHANGED vars
  PROVE  IInv'
<1>1. S!TypeOK'
  BY StillStore DEF IInv, TypeOK, vars
<1>2. TypeOK'
  <2>1. RestType' /\ sound' \in BOOLEAN
    BY DEF IInv, TypeOK, RestType, S!CmpType, vars, programVars, readerVars, misreadVars
  <2> QED BY <1>1, <2>1, TypeParts DEF TypeOK, RestType
<1> QED BY <1>2
    DEF IInv, ProgramInv, HandInv, SoundInv, ReaderInv, PiecesInv, Mistaken, Restores, vars,
        serverVars, programVars, readerVars, misreadVars, S!Exists, S!BeingStored, S!CmpType

-----------------------------------------------------------------------------
(* The theorems.                                                           *)

LEMMA InitInv == Init => IInv
<1> SUFFICES ASSUME Init PROVE IInv
  OBVIOUS
<1>1. S!TypeOK
  <2>1. P!Init
    BY DEF Init, S!Init, P!Init, S!Idle, P!Idle
  <2>2. P!TypeOK
    <3> HIDE DEF P!Init, P!TypeOK
    <3> QED BY <2>1, P!InitType, SameConstants
  <2> QED BY <2>2, SameType
<1>2. TypeOK
  <2>1. <<>> \in Seq(Hash) /\ <<>> \in Seq(Piece)
    OBVIOUS
  <2>2. RestType /\ sound \in BOOLEAN
    BY <2>1 DEF Init, RestType, S!CmpType
  <2> QED BY <1>1, <2>2, TypeParts
<1> QED BY <1>2
    DEF Init, S!Init, IInv, ProgramInv, HandInv, SoundInv, ReaderInv, PiecesInv

LEMMA NextInv == IInv /\ [Next]_vars => IInv'
<1> SUFFICES ASSUME IInv, [Next]_vars PROVE IInv'
  OBVIOUS
<1>1. CASE UNCHANGED vars
  BY <1>1, StutterInv
<1>2. CASE Next
  <2>1. Watch
    BY <1>2 DEF Next
  <2>2. ASSUME NEW m \in Meta, CreateFile(m) PROVE IInv'
    BY <2>1, <2>2, CreateFileInv
  <2>3. CASE Program
    BY <2>1, <2>3, GetHashArrayInv, WriteAnswerInv DEF Program
  <2>4. CASE GetFails
    BY <2>1, <2>4, GetFailsInv
  <2>5. CASE RetrieveData
    BY <2>1, <2>5, ReadCmpTypeInv, OpenBlockInv, ReadBlockInv, ConcatInv,
       UncompressFailsInv DEF RetrieveData
  <2>6. CASE Server
    BY <2>1, <2>6, ServerInv
  <2>7. CASE Restart
    BY <2>1, <2>7, RestartInv
  <2> QED BY <1>2, <2>2, <2>3, <2>4, <2>5, <2>6, <2>7 DEF Next
<1> QED BY <1>1, <1>2

(* What is known of the file that is restored and of the block that is     *)
(* read, from cdpfglrestore and the thread of its request, is inductive.   *)
THEOREM IInvCorrect == Spec => []IInv
<1> QED BY InitInv, NextInv, PTL DEF Spec

(* The program, the thread of its request and the server keep their types. *)
THEOREM TypeCorrect == Spec => []TypeOK
<1>1. IInv => TypeOK
  BY DEF IInv
<1> QED BY <1>1, IInvCorrect, PTL

(* A file that was sound when it was chosen and was not disturbed is       *)
(* restored as it was saved, unless an error is printed or a write failed, *)
(* and but for the blocks that the server could not read.                  *)
THEOREM RestoredIsContentCorrect == Spec => []RestoredIsContent
<1>1. IInv => RestoredIsContent
  <2> SUFFICES ASSUME IInv, Ended, sound, ~printed, file \notin harmed
               PROVE  Restores(out, Content[file])
    BY DEF RestoredIsContent
  <2>1. list = <<>> /\ header = <<>> /\ buffer = <<>>
    BY DEF IInv, ProgramInv, Ended
  <2>2. Restores(Pieces(out, <<>>, <<>>, <<>>), Content[file])
    BY <2>1 DEF IInv, PiecesInv
  <2>3. out \in Seq(Piece)
    BY DEF IInv, TypeOK
  <2>4. out \o <<>> = out /\ <<>> \o <<>> = <<>>
    BY <2>3, ConcatEmptySeq
  <2> QED BY <2>2, <2>4 DEF Pieces
<1> QED BY <1>1, IInvCorrect, PTL

(* Reading such a file does not make the thread of the request uncompress  *)
(* what is not compressed, where it would free its data twice.             *)
THEOREM UncompressIsSafeCorrect == Spec => []UncompressIsSafe
<1>1. IInv => UncompressIsSafe
  BY DEF IInv, ReaderInv, UncompressIsSafe, Uncompressed, Mistaken
<1> QED BY <1>1, IInvCorrect, PTL
=============================================================================
