--------------------------- MODULE SaveFileProofs ---------------------------
(***************************************************************************)
(* SaveFile for any files, blocks, length of buffers and crashes: the list *)
(* of the hashes of a cached file is its content, a cached file is safe,   *)
(* and the blocks the server asks for are in memory.                       *)
(***************************************************************************)
EXTENDS SaveFile, TLAPS, FiniteSetTheorems, SequenceTheorems, WellFoundedInduction

-----------------------------------------------------------------------------
(* Sequences and the sets of their elements.                               *)

LEMMA EmptyToSet == ToSet(<<>>) = {}
  BY DEF ToSet

LEMMA ToSetType ==
  ASSUME NEW S, NEW s \in Seq(S)
  PROVE  ToSet(s) \subseteq S
  BY DEF ToSet

LEMMA ToSetOfHeadTail ==
  ASSUME NEW S, NEW s \in Seq(S), s # <<>>
  PROVE  /\ Head(s) \in S
         /\ Tail(s) \in Seq(S)
         /\ ToSet(s) = {Head(s)} \cup ToSet(Tail(s))
<1>1. Head(s) \in S /\ Tail(s) \in Seq(S)
  OBVIOUS
<1>2. ASSUME NEW i \in DOMAIN s, i # 1
      PROVE  s[i] \in ToSet(Tail(s))
  <2>1. i - 1 \in DOMAIN Tail(s) /\ Tail(s)[i - 1] = s[i]
    BY <1>2
  <2> QED BY <2>1 DEF ToSet
<1>3. \A i \in DOMAIN Tail(s) : i + 1 \in DOMAIN s /\ Tail(s)[i] = s[i + 1]
  OBVIOUS
<1>4. Head(s) = s[1] /\ 1 \in DOMAIN s
  OBVIOUS
<1> QED BY <1>1, <1>2, <1>3, <1>4 DEF ToSet

LEMMA ToSetOfAppend ==
  ASSUME NEW S, NEW s \in Seq(S), NEW x \in S
  PROVE  /\ Append(s, x) \in Seq(S)
         /\ ToSet(Append(s, x)) = ToSet(s) \cup {x}
<1>1. /\ Append(s, x) \in Seq(S)
      /\ DOMAIN Append(s, x) = DOMAIN s \cup {Len(s) + 1}
      /\ Append(s, x)[Len(s) + 1] = x
      /\ \A i \in DOMAIN s : Append(s, x)[i] = s[i]
  OBVIOUS
<1> QED BY <1>1 DEF ToSet

LEMMA ToSetOfPrepend ==
  ASSUME NEW S, NEW s \in Seq(S), NEW x \in S
  PROVE  /\ <<x>> \o s \in Seq(S)
         /\ ToSet(<<x>> \o s) = ToSet(s) \cup {x}
<1> DEFINE t == <<x>> \o s
<1>1. /\ t \in Seq(S)
      /\ DOMAIN t = 1 .. Len(s) + 1
      /\ t[1] = x
      /\ \A i \in 2 .. Len(s) + 1 : t[i] = s[i - 1]
  OBVIOUS
<1>2. \A i \in DOMAIN s : i + 1 \in DOMAIN t /\ t[i + 1] = s[i]
  BY <1>1
<1>3. \A i \in DOMAIN t : i = 1 \/ (i - 1 \in DOMAIN s /\ t[i] = s[i - 1])
  BY <1>1
<1>4. 1 \in DOMAIN t
  BY <1>1
<1> HIDE DEF t
<1>5. ToSet(t) = ToSet(s) \cup {x}
  BY <1>1, <1>2, <1>3, <1>4 DEF ToSet
<1> QED BY <1>1, <1>5 DEF t

LEMMA ToSetIsFinite ==
  ASSUME NEW S, NEW s \in Seq(S)
  PROVE  IsFiniteSet(ToSet(s))
<1>1. s \in Surjection(1 .. Len(s), ToSet(s))
  BY DEF Surjection, ToSet
<1>2. IsFiniteSet(1 .. Len(s))
  BY FS_Interval
<1> QED BY <1>1, <1>2, FS_Surjection

(* Removing the element at position i leaves all the others.               *)
LEMMA ElementsOfRemoveAt ==
  ASSUME NEW S, NEW s \in Seq(S), NEW i \in 1 .. Len(s)
  PROVE  /\ RemoveAt(s, i) \in Seq(S)
         /\ \A x \in ToSet(s) : x = s[i] \/ x \in ToSet(RemoveAt(s, i))
<1> DEFINE a == SubSeq(s, 1, i - 1)
           b == SubSeq(s, i + 1, Len(s))
<1>1. /\ a \in Seq(S) /\ Len(a) = i - 1
      /\ \A j \in 1 .. i - 1 : a[j] = s[j]
  OBVIOUS
<1>2. /\ b \in Seq(S) /\ Len(b) = Len(s) - i
      /\ \A j \in 1 .. Len(s) - i : b[j] = s[i + j]
  OBVIOUS
<1>3. RemoveAt(s, i) = a \o b
  BY DEF RemoveAt
<1> HIDE DEF a, b
<1>4. /\ a \o b \in Seq(S)
      /\ Len(a \o b) = Len(s) - 1
      /\ \A j \in 1 .. Len(s) - 1 :
            (a \o b)[j] = IF j <= i - 1 THEN a[j] ELSE b[j - (i - 1)]
  <2>1. /\ a \o b \in Seq(S)
        /\ Len(a \o b) = Len(a) + Len(b)
        /\ \A j \in 1 .. Len(a) + Len(b) :
              (a \o b)[j] = IF j <= Len(a) THEN a[j] ELSE b[j - Len(a)]
    BY <1>1, <1>2, ConcatProperties
  <2>2. Len(a) + Len(b) = Len(s) - 1
    BY <1>1, <1>2
  <2> QED BY <1>1, <2>1, <2>2
<1>5. ASSUME NEW k \in 1 .. Len(s), k # i
      PROVE  s[k] \in ToSet(a \o b)
  <2>1. CASE k < i
    <3>1. k \in 1 .. Len(s) - 1 /\ (a \o b)[k] = s[k]
      BY <1>1, <1>4, <2>1
    <3>2. k \in DOMAIN (a \o b)
      BY <1>4, <3>1
    <3> QED BY <3>1, <3>2 DEF ToSet
  <2>2. CASE k > i
    <3>1. k - i \in 1 .. Len(s) - i /\ b[k - i] = s[k]
      BY <1>2, <2>2
    <3>2. k - 1 \in 1 .. Len(s) - 1 /\ ~(k - 1 <= i - 1)
      BY <2>2
    <3>5. (a \o b)[k - 1] = b[(k - 1) - (i - 1)]
      BY <1>4, <3>2
    <3>3. (k - 1) - (i - 1) = k - i
      OBVIOUS
    <3>4. k - 1 \in DOMAIN (a \o b)
      BY <1>4, <3>2
    <3>6. (a \o b)[k - 1] = s[k]
      BY <3>1, <3>3, <3>5
    <3> QED BY <3>4, <3>6 DEF ToSet
  <2> QED BY <1>5, <2>1, <2>2
<1>6. \A x \in ToSet(s) : x = s[i] \/ x \in ToSet(a \o b)
  <2> SUFFICES ASSUME NEW k \in DOMAIN s
               PROVE  s[k] = s[i] \/ s[k] \in ToSet(a \o b)
    BY DEF ToSet
  <2>1. k \in 1 .. Len(s)
    OBVIOUS
  <2> QED BY <1>5, <2>1
<1> QED BY <1>3, <1>4, <1>6

LEMMA RemoveFirstElement ==
  ASSUME NEW S, NEW s \in Seq(S), s # <<>>
  PROVE  RemoveAt(s, 1) = Tail(s)
<1>1. SubSeq(s, 1, 0) = <<>>
  BY SubSeqEmpty
<1>2. SubSeq(s, 2, Len(s)) = Tail(s)
  BY TailIsSubSeq
<1>3. <<>> \o Tail(s) = Tail(s)
  <2>1. Tail(s) \in Seq(S)
    OBVIOUS
  <2> QED BY <2>1, ConcatEmptySeq
<1> QED BY <1>1, <1>2, <1>3 DEF RemoveAt

-----------------------------------------------------------------------------
(* Reversing.                                                              *)

LEMMA ReverseType ==
  ASSUME NEW S, NEW s \in Seq(S)
  PROVE  /\ Reverse(s) \in Seq(S)
         /\ Len(Reverse(s)) = Len(s)
         /\ \A i \in 1 .. Len(s) : Reverse(s)[i] = s[(Len(s) - i) + 1]
  BY DEF Reverse

LEMMA ReverseEmpty == Reverse(<<>>) = <<>>
  BY DEF Reverse

(* What is put before a list is after it when the list is reversed.        *)
ReverseRead(x, s, u)   == Reverse(<<x>> \o s) \o u
ReverseUnread(x, s, u) == Reverse(s) \o (<<x>> \o u)

LEMMA ReverseOfPrepend ==
  ASSUME NEW S, NEW s \in Seq(S), NEW x \in S, NEW u \in Seq(S)
  PROVE  ReverseRead(x, s, u) = ReverseUnread(x, s, u)
<1> DEFINE xs == <<x>> \o s
           xu == <<x>> \o u
<1>1. /\ xs \in Seq(S) /\ Len(xs) = Len(s) + 1 /\ xs[1] = x
      /\ \A i \in 1 .. Len(s) : xs[i + 1] = s[i]
  OBVIOUS
<1>2. /\ xu \in Seq(S) /\ Len(xu) = Len(u) + 1 /\ xu[1] = x
      /\ \A i \in 1 .. Len(u) : xu[i + 1] = u[i]
  OBVIOUS
<1> HIDE DEF xs, xu
<1>3. /\ Reverse(xs) \in Seq(S) /\ Len(Reverse(xs)) = Len(s) + 1
      /\ \A i \in 1 .. Len(s) + 1 : Reverse(xs)[i] = xs[(Len(s) + 1 - i) + 1]
  BY <1>1, ReverseType
<1>4. /\ Reverse(s) \in Seq(S) /\ Len(Reverse(s)) = Len(s)
      /\ \A i \in 1 .. Len(s) : Reverse(s)[i] = s[(Len(s) - i) + 1]
  BY ReverseType
<1> DEFINE rs  == Reverse(s)
           rxs == Reverse(xs)
<1> HIDE DEF rs, rxs
<1>5. /\ rxs \in Seq(S) /\ Len(rxs) = Len(s) + 1
      /\ rs \in Seq(S) /\ Len(rs) = Len(s)
      /\ rxs[Len(s) + 1] = x
      /\ \A i \in 1 .. Len(s) : rxs[i] = rs[i]
  <2>1. rxs[Len(s) + 1] = x
    BY <1>1, <1>3 DEF rxs
  <2>2. ASSUME NEW i \in 1 .. Len(s)
        PROVE  rxs[i] = rs[i]
    <3>1. (Len(s) - i) + 1 \in 1 .. Len(s) /\ (Len(s) + 1 - i) + 1 = ((Len(s) - i) + 1) + 1
      OBVIOUS
    <3>2. xs[((Len(s) - i) + 1) + 1] = s[(Len(s) - i) + 1]
      BY <3>1, <1>1
    <3>3. rxs[i] = xs[(Len(s) + 1 - i) + 1]
      <4>1. i \in 1 .. Len(s) + 1
        OBVIOUS
      <4> QED BY <4>1, <1>3 DEF rxs
    <3>4. rs[i] = s[(Len(s) - i) + 1]
      BY <1>4 DEF rs
    <3> QED BY <3>1, <3>2, <3>3, <3>4
  <2> QED BY <2>1, <2>2, <1>3, <1>4 DEF rs, rxs
<1>6. /\ rxs \o u \in Seq(S) /\ Len(rxs \o u) = Len(s) + 1 + Len(u)
      /\ \A i \in 1 .. Len(s) + 1 + Len(u) :
            (rxs \o u)[i] = IF i <= Len(s) + 1 THEN rxs[i] ELSE u[i - (Len(s) + 1)]
  <2>1. /\ rxs \o u \in Seq(S)
        /\ Len(rxs \o u) = Len(rxs) + Len(u)
        /\ \A i \in 1 .. Len(rxs) + Len(u) :
              (rxs \o u)[i] = IF i <= Len(rxs) THEN rxs[i] ELSE u[i - Len(rxs)]
    <3>1. rxs \in Seq(S)
      BY <1>5
    <3> QED BY <3>1, ConcatProperties
  <2>2. Len(rxs) = Len(s) + 1
    BY <1>5
  <2> QED BY <2>1, <2>2
<1>7. /\ rs \o xu \in Seq(S) /\ Len(rs \o xu) = Len(s) + (Len(u) + 1)
      /\ \A i \in 1 .. Len(s) + (Len(u) + 1) :
            (rs \o xu)[i] = IF i <= Len(s) THEN rs[i] ELSE xu[i - Len(s)]
  <2>1. /\ rs \o xu \in Seq(S)
        /\ Len(rs \o xu) = Len(rs) + Len(xu)
        /\ \A i \in 1 .. Len(rs) + Len(xu) :
              (rs \o xu)[i] = IF i <= Len(rs) THEN rs[i] ELSE xu[i - Len(rs)]
    <3>1. rs \in Seq(S)
      BY <1>5
    <3>2. xu \in Seq(S)
      BY <1>2
    <3> QED BY <3>1, <3>2, ConcatProperties
  <2>2. Len(rs) = Len(s) /\ Len(xu) = Len(u) + 1
    BY <1>2, <1>5
  <2> QED BY <2>1, <2>2
<1>8. ASSUME NEW i \in 1 .. Len(s) + 1 + Len(u)
      PROVE  (rxs \o u)[i] = (rs \o xu)[i]
  <2>1. CASE i <= Len(s)
    BY <2>1, <1>5, <1>6, <1>7
  <2>2. CASE i = Len(s) + 1
    BY <2>2, <1>2, <1>5, <1>6, <1>7
  <2>3. CASE i > Len(s) + 1
    <3>1. i - (Len(s) + 1) \in 1 .. Len(u) /\ (i - (Len(s) + 1)) + 1 = i - Len(s)
      BY <2>3
    <3>2. xu[i - Len(s)] = u[i - (Len(s) + 1)]
      BY <3>1, <1>2
    <3> QED BY <3>2, <2>3, <1>6, <1>7
  <2>4. i <= Len(s) \/ i = Len(s) + 1 \/ i > Len(s) + 1
    OBVIOUS
  <2> QED BY <2>1, <2>2, <2>3, <2>4
<1>9. rxs \o u = rs \o xu
  <2>1. Len(rxs \o u) = Len(rs \o xu) /\ Len(rxs \o u) = Len(s) + 1 + Len(u)
    BY <1>6, <1>7
  <2> QED BY <1>6, <1>7, <1>8, <2>1, SeqEqual
<1> QED BY <1>9 DEF rs, rxs, xs, xu, ReverseRead, ReverseUnread

-----------------------------------------------------------------------------
(* The block that is looked for in memory, and the answers of the server.  *)

LEMMA NatHasMinimum ==
  ASSUME NEW T \in SUBSET Nat, T # {}
  PROVE  \E i \in T : \A j \in T : i <= j
<1> DEFINE R == OpToRel(<, Nat)
<1>1. \A i, j \in Nat : j < i => <<j, i>> \in R
  BY DEF OpToRel
<1>2. IsWellFoundedOn(R, Nat)
  BY NatLessThanWellFounded
<1> HIDE DEF R
<1>3. PICK i \in T : \A j \in T : ~ (<<j, i>> \in R)
  BY <1>2, WFMin
<1>4. \A j \in T : ~ (j < i)
  BY <1>1, <1>3
<1> QED BY <1>4

LEMMA FindHashInListCorrect ==
  ASSUME hdl \in Seq(Hash), NEW h \in ToSet(hdl)
  PROVE  /\ FindHashInList(h) \in 1 .. Len(hdl)
         /\ hdl[FindHashInList(h)] = h
         /\ h = Head(hdl) => FindHashInList(h) = 1
<1> DEFINE First(i) == hdl[i] = h /\ \A j \in DOMAIN hdl : hdl[j] = h => i <= j
           T == {i \in DOMAIN hdl : hdl[i] = h}
<1>1. T \in SUBSET Nat /\ T # {}
  BY DEF ToSet
<1>2. PICK i \in T : \A j \in T : i <= j
  <2> HIDE DEF T
  <2> QED BY <1>1, NatHasMinimum
<1>3. \E k \in DOMAIN hdl : First(k)
  BY <1>2
<1>4. FindHashInList(h) = CHOOSE k \in DOMAIN hdl : First(k)
  BY DEF FindHashInList
<1>5. FindHashInList(h) \in DOMAIN hdl /\ First(FindHashInList(h))
  <2> HIDE DEF First
  <2> QED BY <1>3, <1>4
<1>6. ASSUME h = Head(hdl)
      PROVE  FindHashInList(h) = 1
  <2>1. 1 \in DOMAIN hdl /\ hdl[1] = h
    BY <1>5, <1>6
  <2>2. FindHashInList(h) <= 1 /\ FindHashInList(h) \in 1 .. Len(hdl)
    BY <1>5, <2>1
  <2> QED BY <2>2
<1> QED BY <1>5, <1>6

Distinct(s) == \A i, j \in DOMAIN s : s[i] = s[j] => i = j

(* An answer asks for distinct hashes of the list, and the server vouches  *)
(* for the others.                                                         *)
LEMMA AnswersCorrect ==
  ASSUME hdl \in Seq(Hash), NEW a \in Answers(hdl)
  PROVE  /\ a \in Seq(Hash)
         /\ Distinct(a)
         /\ ToSet(a) \subseteq ToSet(hdl)
         /\ ToSet(hdl) \ ToSet(a) \subseteq vouched
<1>1. PICK m \in SUBSET ToSet(hdl) : /\ ToSet(hdl) \ m \subseteq vouched
                                    /\ a \in SetToSeqs(m)
  BY DEF Answers
<1>2. IsFiniteSet(m) /\ Cardinality(m) \in Nat
  BY ToSetIsFinite, FS_Subset, FS_CardinalityType
<1> DEFINE n == Cardinality(m)
<1>3. a \in [1 .. n -> m] /\ \A i, j \in 1 .. n : i # j => a[i] # a[j]
  BY <1>1 DEF SetToSeqs
<1>4. m \subseteq Hash
  BY ToSetType
<1> HIDE DEF n
<1>5. n \in Nat /\ n = Cardinality(m)
  BY <1>2 DEF n
<1>6. a \in Injection(1 .. n, m)
  BY <1>3 DEF Injection, IsInjective
<1>7. a \in Surjection(1 .. n, m)
  <2>1. Cardinality(1 .. n) = n
    BY <1>5, FS_Interval
  <2> QED BY <1>2, <1>5, <1>6, <2>1, FS_Injection
<1>8. ToSet(a) = m
  BY <1>3, <1>7 DEF ToSet, Surjection
<1>9. a \in Seq(Hash)
  BY <1>3, <1>4, <1>5
<1>10. Distinct(a)
  BY <1>3 DEF Distinct
<1> QED BY <1>1, <1>8, <1>9, <1>10

-----------------------------------------------------------------------------
(* The inductive invariant.                                                *)

(* The file in hand, if it could be read so far.                           *)
Readable == place # "idle" /\ file \notin flawed

(* What the thread has in hand between two files, and what it has not at   *)
(* some places.                                                            *)
ThreadInv ==
    /\ place = "idle" <=> file = NoFile
    /\ place = "idle" => hdl = <<>> /\ savedList = <<>> /\ unread = <<>> /\ ~eof
    /\ file \notin cached
    /\ place \notin {"pick", "data"} => array = <<>>
    /\ place \in {"read", "hashs"} => file \notin Small
    /\ file \in Small => unread = <<>>

(* What was read of a big file, in reverse, and what was not make its      *)
(* content.                                                                *)
OrderInv ==
    Readable =>
      /\ place = "read" => /\ Content[file] = Reverse(hdl \o savedList) \o unread
                           /\ eof => hdl = <<>>
      /\ place \in {"hashs", "pick", "data"} /\ file \notin Small =>
            Content[file] = Reverse(savedList) \o unread
      /\ eof => unread = <<>>
      /\ place \in {"meta", "cache"} => unread = <<>> /\ lists[file] = Content[file]
      /\ place = "meta" /\ file \notin Small => hdl = <<>>
      /\ file \in Small => lists[file] = Content[file]

(* Where a block of the file in hand is, before it is safe.                *)
InHand(h) ==
    \/ h \in ToSet(unread)
    \/ place \in {"read", "hashs", "meta"} /\ h \in ToSet(hdl)
    \/ place \in {"pick", "data"} /\ h \in ToSet(needed) \cup ToSet(array)

BlocksInv == Readable => \A h \in ToSet(Content[file]) : Safe(h) \/ InHand(h)

MetaInv ==
    \/ place = "cache"
    \/ file \in Small /\ place \in {"pick", "data"}
    => Safe(file)

(* An answer has no hash twice; the list that takes its place when there   *)
(* is none is the one in memory, and both get shorter together.            *)
PickInv ==
    place \in {"pick", "data"} =>
        needed = hdl \/ (Distinct(needed) /\ ToSet(needed) \subseteq ToSet(hdl))

CachedInv ==
    \A f \in cached \ flawed :
        lists[f] = Content[f] /\ Safe(f) /\ \A h \in ToSet(Content[f]) : Safe(h)

IInv ==
    /\ TypeOK
    /\ ThreadInv
    /\ OrderInv
    /\ BlocksInv
    /\ MetaInv
    /\ PickInv
    /\ CachedInv

LEMMA ConstantsTypes ==
  /\ Content \in [File -> Seq(Hash)] /\ Small \subseteq File /\ NoFile \notin File
  /\ BufferLen \in Nat /\ MaxCrashes \in Nat
  BY ConstantsAssumption

LEMMA FileInHand ==
  ASSUME TypeOK, ThreadInv, place # "idle"
  PROVE  file \in File /\ Content[file] \in Seq(Hash)
  BY ConstantsTypes DEF TypeOK, ThreadInv

(* What is safe stays safe: a post leaves the database when the server has *)
(* what it holds.                                                          *)
LEMMA SafeGrows ==
  ASSUME vouched \subseteq vouched',
         \A post \in kept : post \in kept' \/ post \subseteq vouched'
  PROVE  \A x : Safe(x) => Safe(x)'
  BY DEF Safe

LEMMA CachedStays ==
  ASSUME CachedInv, \A x : Safe(x) => Safe(x)', cached' = cached,
         \A f \in cached : (f \in flawed' <=> f \in flawed) /\ lists'[f] = lists[f]
  PROVE  CachedInv'
  BY DEF CachedInv

-----------------------------------------------------------------------------
LEMMA InitInv == Init => IInv
<1> SUFFICES ASSUME Init PROVE IInv
  OBVIOUS
<1> USE ConstantsTypes
<1>1. TypeOK
  <2>1. <<>> \in Seq(Hash)
    OBVIOUS
  <2>2. crashes \in 0 .. MaxCrashes /\ kept \subseteq SUBSET Item
    BY DEF Init
  <2>3. lists \in [File -> Seq(Hash)]
    BY <2>1 DEF Init
  <2> QED BY <2>1, <2>2, <2>3 DEF Init, TypeOK
<1>2. ThreadInv
  BY DEF Init, ThreadInv
<1>4. MetaInv /\ PickInv
  BY DEF Init, MetaInv, PickInv
<1>5. CachedInv
  BY DEF Init, CachedInv
<1>3. OrderInv /\ BlocksInv
  BY DEF Init, OrderInv, BlocksInv, Readable
<1> QED BY <1>1, <1>2, <1>3, <1>4, <1>5 DEF IInv

-----------------------------------------------------------------------------
(* Reading.                                                                *)

LEMMA ProcessSmallFileInv ==
  ASSUME IInv, NEW f \in File, ProcessSmallFile(f)
  PROVE  IInv'
<1> USE ConstantsTypes DEF IInv
<1>1. f \in Small /\ f \notin cached /\ place = "idle" /\ place' = "meta" /\ file' = f
  BY DEF ProcessSmallFile, SendMetaData
<1>2. hdl' \in Seq(Hash) /\ lists' = [lists EXCEPT ![f] = hdl']
  <2>1. <<>> \in Seq(Hash)
    OBVIOUS
  <2> QED BY <2>1 DEF ProcessSmallFile, SendMetaData
<1>3. TypeOK'
  BY <1>1, <1>2 DEF ProcessSmallFile, TypeOK
<1>4. ThreadInv'
  BY <1>1 DEF ProcessSmallFile, ThreadInv, TypeOK
<1>5. Readable' => hdl' = Content[f] /\ lists'[f] = Content[f] /\ unread' = <<>>
                   /\ savedList' = <<>>
  BY <1>1, <1>2 DEF ProcessSmallFile, Readable, ThreadInv, TypeOK
<1>6. OrderInv'
  BY <1>1, <1>5 DEF OrderInv
<1>7. BlocksInv'
  BY <1>1, <1>5 DEF BlocksInv, InHand
<1>8. MetaInv' /\ PickInv'
  BY <1>1 DEF MetaInv, PickInv
<1>9. CachedInv'
  <2>1. \A x : Safe(x) => Safe(x)'
    BY SafeGrows DEF ProcessSmallFile
  <2>2. \A g \in cached : (g \in flawed' <=> g \in flawed) /\ lists'[g] = lists[g]
    BY <1>1, <1>2 DEF ProcessSmallFile, TypeOK
  <2> QED BY <2>1, <2>2, CachedStays DEF ProcessSmallFile
<1> QED BY <1>3, <1>4, <1>6, <1>7, <1>8, <1>9

LEMMA ProcessBigFileInv ==
  ASSUME IInv, NEW f \in File, ProcessBigFile(f)
  PROVE  IInv'
<1> USE ConstantsTypes DEF IInv
<1>1. /\ f \notin Small /\ f \notin cached /\ place = "idle" /\ file' = f
      /\ place' \in {"read", "meta"}
      /\ hdl' = <<>> /\ savedList' = <<>> /\ array' = <<>> /\ ~eof'
  BY DEF ProcessBigFile, SendMetaData, ThreadInv
<1>2. /\ lists' = lists \/ lists' = [lists EXCEPT ![f] = <<>>]
      /\ flawed' = flawed \ {f} \/ flawed' = flawed \cup {f}
      /\ unread' = <<>> \/ unread' = Content[f]
  BY DEF ProcessBigFile, SendMetaData, ThreadInv
<1>3. TypeOK'
  <2>1. <<>> \in Seq(Hash)
    OBVIOUS
  <2>2. lists' \in [File -> Seq(Hash)]
    BY <1>2, <2>1 DEF TypeOK
  <2> QED BY <1>1, <1>2, <2>1, <2>2 DEF ProcessBigFile, TypeOK
<1>4. ThreadInv'
  BY <1>1 DEF ProcessBigFile, ThreadInv, TypeOK
<1>5. Readable' => place' = "read" /\ unread' = Content[f]
  BY <1>1 DEF ProcessBigFile, SendMetaData, Readable
<1>6. OrderInv'
  <2>1. Content[f] \in Seq(Hash)
    OBVIOUS
  <2>2. <<>> \o <<>> = <<>> /\ <<>> \o Content[f] = Content[f]
    BY <2>1
  <2> QED BY <1>1, <1>5, <2>2, ReverseEmpty DEF OrderInv
<1>7. BlocksInv'
  BY <1>1, <1>5 DEF BlocksInv, InHand
<1>8. MetaInv' /\ PickInv'
  BY <1>1 DEF MetaInv, PickInv
<1>9. CachedInv'
  <2>1. \A x : Safe(x) => Safe(x)'
    BY SafeGrows DEF ProcessBigFile
  <2>2. \A g \in cached : (g \in flawed' <=> g \in flawed) /\ lists'[g] = lists[g]
    BY <1>1, <1>2 DEF TypeOK
  <2> QED BY <2>1, <2>2, CachedStays DEF ProcessBigFile
<1> QED BY <1>3, <1>4, <1>6, <1>7, <1>8, <1>9

(* Steps that leave the cache, its history and the posts alone.            *)
LEMMA NothingElse ==
  ASSUME IInv, UNCHANGED <<kept, cached, vouched, otherVars>>
  PROVE  CachedInv' /\ \A x : Safe(x) => Safe(x)'
<1>1. \A x : Safe(x) => Safe(x)'
  BY SafeGrows
<1>2. \A g \in cached : (g \in flawed' <=> g \in flawed) /\ lists'[g] = lists[g]
  BY DEF otherVars
<1> QED BY <1>1, <1>2, CachedStays DEF IInv

LEMMA ReadBlockInv ==
  ASSUME IInv, ReadBlock
  PROVE  IInv'
<1> USE DEF IInv
<1>1. /\ place = "read" /\ file \in File /\ file' = file /\ eof' = eof /\ file \notin Small
      /\ place' \in {"read", "hashs"} /\ unread # <<>>
      /\ unread' = Tail(unread) /\ hdl' = <<Head(unread)>> \o hdl
      /\ UNCHANGED <<needed, array, kept, cached, vouched, otherVars>>
  BY FileInHand DEF ReadBlock, LetsSendAllThatNow, ThreadInv
<1>2. \/ place' = "read" /\ savedList' = savedList
      \/ place' = "hashs" /\ savedList' = hdl' \o savedList
  BY <1>1 DEF ReadBlock, LetsSendAllThatNow
<1>3. unread \in Seq(Hash) /\ hdl \in Seq(Hash) /\ savedList \in Seq(Hash)
  BY DEF TypeOK
<1>4. /\ Head(unread) \in Hash /\ unread' \in Seq(Hash)
      /\ ToSet(unread) = {Head(unread)} \cup ToSet(unread')
      /\ unread = <<Head(unread)>> \o unread'
  <2>1. unread = <<Head(unread)>> \o Tail(unread)
    BY <1>1, <1>3
  <2> QED BY <1>1, <1>3, <2>1, ToSetOfHeadTail
<1>5. hdl' \in Seq(Hash) /\ ToSet(hdl') = ToSet(hdl) \cup {Head(unread)}
  BY <1>1, <1>3, <1>4, ToSetOfPrepend
<1>6. TypeOK'
  <2>1. savedList' \in Seq(Hash)
    BY <1>2, <1>3, <1>5, ConcatProperties
  <2> QED BY <1>1, <1>4, <1>5, <2>1 DEF TypeOK, otherVars
<1>7. ThreadInv'
  BY <1>1 DEF ThreadInv, otherVars
<1>8. Readable' => Readable
  BY <1>1 DEF Readable, otherVars
<1>9. OrderInv'
  <2>1. SUFFICES ASSUME Readable'
                 PROVE  /\ ~eof
                        /\ Content[file] = Reverse(hdl' \o savedList) \o unread'
    BY <1>1, <1>2 DEF OrderInv
  <2>2. Content[file] = Reverse(hdl \o savedList) \o unread /\ (eof => unread = <<>>)
    BY <1>1, <1>8, <2>1 DEF OrderInv
  <2> DEFINE x == Head(unread)
             s == hdl \o savedList
  <2>3. s \in Seq(Hash)
    BY <1>3, ConcatProperties
  <2>4. hdl' \o savedList = <<x>> \o s
    <3>1. <<x>> \in Seq(Hash)
      BY <1>4
    <3>2. (<<x>> \o hdl) \o savedList = <<x>> \o (hdl \o savedList)
      BY <1>3, <3>1, ConcatAssociative
    <3> QED BY <1>1, <3>2
  <2> HIDE DEF x, s
  <2>5. x \in Hash /\ unread = <<x>> \o unread'
    BY <1>4 DEF x
  <2>6. Reverse(<<x>> \o s) \o unread' = Reverse(s) \o (<<x>> \o unread')
    <3>1. x \in Hash
      BY <2>5
    <3>2. unread' \in Seq(Hash)
      BY <1>4
    <3>3. ReverseRead(x, s, unread') = ReverseUnread(x, s, unread')
      BY <2>3, <3>1, <3>2, ReverseOfPrepend
    <3> QED BY <3>3 DEF ReverseRead, ReverseUnread
  <2>7. Content[file] = Reverse(s) \o unread
    BY <2>2 DEF s
  <2> QED BY <1>1, <2>2, <2>4, <2>5, <2>6, <2>7
<1>10. BlocksInv'
  BY <1>1, <1>4, <1>5, <1>8, NothingElse DEF BlocksInv, InHand
<1>11. MetaInv' /\ PickInv'
  BY <1>1 DEF MetaInv, PickInv
<1>12. CachedInv'
  BY <1>1, NothingElse
<1> QED BY <1>6, <1>7, <1>9, <1>10, <1>11, <1>12

LEMMA EndOfFileInv ==
  ASSUME IInv, EndOfFile
  PROVE  IInv'
<1> USE DEF IInv
<1>1. /\ place = "read" /\ file \in File /\ file' = file /\ eof' /\ file \notin Small
      /\ unread = <<>> /\ unread' = <<>> /\ hdl' = hdl
      /\ UNCHANGED <<needed, array, kept, cached, vouched, otherVars>>
  BY FileInHand DEF EndOfFile, ThreadInv
<1>2. \/ place' = "read" /\ savedList' = savedList /\ hdl = <<>>
      \/ place' = "hashs" /\ savedList' = hdl \o savedList
  BY <1>1 DEF EndOfFile, LetsSendAllThatNow
<1>3. hdl \in Seq(Hash) /\ savedList \in Seq(Hash)
  BY DEF TypeOK
<1>4. TypeOK'
  <2>1. savedList' \in Seq(Hash)
    BY <1>2, <1>3, ConcatProperties
  <2>2. eof' \in BOOLEAN
    BY DEF EndOfFile
  <2> QED BY <1>1, <1>2, <2>1, <2>2 DEF TypeOK, otherVars
<1>5. ThreadInv'
  BY <1>1, <1>2 DEF ThreadInv
<1>6. Readable' => Readable
  BY <1>1 DEF Readable, otherVars
<1>7. OrderInv'
  <2>1. SUFFICES ASSUME Readable'
                 PROVE  /\ place' = "read" => Content[file] = Reverse(hdl \o savedList') \o <<>>
                        /\ place' = "hashs" => Content[file] = Reverse(savedList') \o <<>>
    BY <1>1, <1>2 DEF OrderInv
  <2>2. Content[file] = Reverse(hdl \o savedList) \o <<>>
    BY <1>1, <1>6, <2>1 DEF OrderInv
  <2> QED BY <1>2, <2>2
<1>8. BlocksInv'
  BY <1>1, <1>2, <1>6, NothingElse DEF BlocksInv, InHand
<1>9. MetaInv' /\ PickInv'
  BY <1>2 DEF MetaInv, PickInv
<1>10. CachedInv'
  BY <1>1, NothingElse
<1> QED BY <1>4, <1>5, <1>7, <1>8, <1>9, <1>10

(* The list of the hashes of the file in hand goes to its meta data.       *)
LEMMA OtherLists ==
  ASSUME IInv, UNCHANGED <<kept, cached, vouched>>, file \in File,
         NEW hs, lists' = [lists EXCEPT ![file] = hs],
         flawed' = flawed \/ flawed' = flawed \cup {file}
  PROVE  CachedInv' /\ \A x : Safe(x) => Safe(x)'
<1>1. \A x : Safe(x) => Safe(x)'
  BY SafeGrows
<1>2. \A g \in cached : (g \in flawed' <=> g \in flawed) /\ lists'[g] = lists[g]
  BY DEF IInv, TypeOK, ThreadInv
<1> QED BY <1>1, <1>2, CachedStays DEF IInv

LEMMA FinishBigFileInv ==
  ASSUME IInv, FinishBigFile
  PROVE  IInv'
<1> USE DEF IInv
<1>1. /\ place = "read" /\ file \in File /\ eof /\ file \notin Small /\ place' = "meta"
      /\ lists' = [lists EXCEPT ![file] = Reverse(savedList)]
      /\ UNCHANGED <<file, unread, eof, hdl, savedList, needed, array, kept, cached,
                     vouched, flawed, crashes>>
  BY FileInHand DEF FinishBigFile, SendMetaData, ThreadInv
<1>2. savedList \in Seq(Hash) /\ Reverse(savedList) \in Seq(Hash)
  BY ReverseType DEF TypeOK
<1>3. TypeOK'
  BY <1>1, <1>2 DEF TypeOK
<1>4. ThreadInv'
  BY <1>1 DEF ThreadInv
<1>5. Readable' => Readable
  BY <1>1 DEF Readable
<1>6. Readable => /\ unread = <<>> /\ hdl = <<>>
                  /\ Reverse(savedList) = Content[file]
  <2>1. <<>> \o savedList = savedList
    BY <1>2, ConcatEmptySeq
  <2>2. Reverse(savedList) \o <<>> = Reverse(savedList)
    BY <1>2, ConcatEmptySeq
  <2> QED BY <1>1, <2>1, <2>2 DEF OrderInv
<1>7. lists'[file] = Reverse(savedList)
  BY <1>1 DEF TypeOK
<1>8. OrderInv'
  BY <1>1, <1>5, <1>6, <1>7 DEF OrderInv
<1>9. CachedInv' /\ \A x : Safe(x) => Safe(x)'
  BY <1>1, OtherLists
<1>10. BlocksInv'
  BY <1>1, <1>5, <1>9 DEF BlocksInv, InHand
<1>11. MetaInv' /\ PickInv'
  BY <1>1 DEF MetaInv, PickInv
<1> QED BY <1>3, <1>4, <1>8, <1>9, <1>10, <1>11

LEMMA ReadErrorInv ==
  ASSUME IInv, ReadError
  PROVE  IInv'
<1> USE DEF IInv
<1>1. /\ place = "read" /\ file \in File /\ file \notin Small /\ place' = "meta"
      /\ hdl' = <<>> /\ flawed' = flawed \cup {file}
      /\ lists' = [lists EXCEPT ![file] = savedList]
      /\ UNCHANGED <<file, unread, eof, savedList, needed, array, kept, cached,
                     vouched, crashes>>
  BY FileInHand DEF ReadError, SendMetaData, ThreadInv
<1>2. TypeOK'
  <2>1. <<>> \in Seq(Hash)
    OBVIOUS
  <2> QED BY <1>1, <2>1 DEF TypeOK
<1>3. ThreadInv'
  BY <1>1 DEF ThreadInv
<1>4. ~Readable'
  BY <1>1 DEF Readable
<1>5. OrderInv' /\ BlocksInv'
  BY <1>4 DEF OrderInv, BlocksInv
<1>6. MetaInv' /\ PickInv'
  BY <1>1 DEF MetaInv, PickInv
<1>7. CachedInv'
  BY <1>1, OtherLists
<1> QED BY <1>2, <1>3, <1>5, <1>6, <1>7

-----------------------------------------------------------------------------
(* Posting.                                                                *)

(* A small file and its answer, or a big one that is finished: what is in  *)
(* memory was safe, is vouched for, or is asked for.                       *)
LEMMA MetaDoneInv ==
  ASSUME IInv, place = "meta",
         UNCHANGED <<file, unread, eof, hdl, savedList, array, cached, vouched,
                     otherVars>>,
         kept \subseteq kept', kept' \subseteq SUBSET Item, Safe(file)',
         \/ /\ file \in Small /\ place' = "pick" /\ needed' \in Seq(Hash)
            /\ needed' = hdl \/ (Distinct(needed') /\ ToSet(needed') \subseteq ToSet(hdl))
            /\ \A h \in ToSet(hdl) : h \in ToSet(needed') \/ h \in vouched
         \/ file \notin Small /\ place' = "cache" /\ needed' = needed
  PROVE  IInv'
<1> USE DEF IInv
<1>1. file \in File
  BY FileInHand
<1>2. TypeOK'
  BY DEF TypeOK, otherVars
<1>3. ThreadInv'
  BY DEF ThreadInv
<1>4. Readable' => Readable
  BY DEF Readable, otherVars
<1>5. OrderInv'
  BY <1>4 DEF OrderInv, otherVars
<1>6. \A x : Safe(x) => Safe(x)'
  BY SafeGrows
<1>7. \A h \in vouched : Safe(h)'
  BY DEF Safe
<1>8. BlocksInv'
  <2>1. SUFFICES ASSUME Readable', NEW h \in ToSet(Content[file])
                 PROVE  Safe(h)' \/ InHand(h)'
    BY DEF BlocksInv
  <2>2. Safe(h) \/ h \in ToSet(hdl)
    BY <1>4, <2>1, EmptyToSet DEF BlocksInv, InHand, OrderInv
  <2>3. CASE file \in Small
    BY <1>6, <1>7, <2>2, <2>3 DEF InHand
  <2>4. CASE file \notin Small
    <3>1. ToSet(hdl) = {}
      BY <1>4, <2>1, <2>4, EmptyToSet DEF OrderInv
    <3> QED BY <1>6, <2>2, <3>1
  <2> QED BY <2>3, <2>4
<1>9. MetaInv' /\ PickInv'
  BY DEF MetaInv, PickInv
<1>10. CachedInv'
  <2>1. \A g \in cached : (g \in flawed' <=> g \in flawed) /\ lists'[g] = lists[g]
    BY DEF otherVars
  <2> QED BY <1>6, <2>1, CachedStays
<1> QED BY <1>2, <1>3, <1>5, <1>8, <1>9, <1>10

LEMMA MetaPostedInv ==
  ASSUME IInv, MetaPosted
  PROVE  IInv'
<1>1. hdl \in Seq(Hash) /\ kept \subseteq SUBSET Item
  BY DEF IInv, TypeOK
<1>2. Safe(file)'
  BY DEF MetaPosted, Safe
<1>3. CASE file \in Small
  <2>1. needed' \in Answers(hdl) /\ place' = "pick"
    BY <1>3 DEF MetaPosted
  <2>2. /\ needed' \in Seq(Hash) /\ Distinct(needed') /\ ToSet(needed') \subseteq ToSet(hdl)
        /\ ToSet(hdl) \ ToSet(needed') \subseteq vouched
    BY <1>1, <2>1, AnswersCorrect
  <2> QED BY <1>1, <1>2, <1>3, <2>1, <2>2, MetaDoneInv DEF MetaPosted
<1>4. CASE file \notin Small
  <2>1. place' = "cache" /\ needed' = needed
    BY <1>4 DEF MetaPosted
  <2> QED BY <1>1, <1>2, <1>4, <2>1, MetaDoneInv DEF MetaPosted
<1> QED BY <1>3, <1>4

LEMMA MetaKeptInv ==
  ASSUME IInv, MetaKept
  PROVE  IInv'
<1>1. hdl \in Seq(Hash) /\ kept \subseteq SUBSET Item /\ file \in File
  BY FileInHand DEF IInv, TypeOK, MetaKept
<1>2. Safe(file)' /\ kept \subseteq kept' /\ kept' \subseteq SUBSET Item
  BY <1>1 DEF MetaKept, Safe, Item
<1>3. CASE file \in Small
  BY <1>1, <1>2, <1>3, MetaDoneInv DEF MetaKept
<1>4. CASE file \notin Small
  BY <1>1, <1>2, <1>4, MetaDoneInv DEF MetaKept
<1> QED BY <1>3, <1>4

(* The hashes of a buffer have their answer, or the one that takes its     *)
(* place.                                                                  *)
LEMMA HashArrayInv ==
  ASSUME IInv, HashArrayPosted \/ HashArrayNotPosted
  PROVE  IInv'
<1> USE DEF IInv
<1>1. /\ place = "hashs" /\ place' = "pick" /\ file \in File /\ file \notin Small
      /\ UNCHANGED <<file, unread, eof, hdl, savedList, array, kept, cached,
                     vouched, otherVars>>
  BY FileInHand DEF HashArrayPosted, HashArrayNotPosted, ThreadInv
<1>2. hdl \in Seq(Hash)
  BY DEF TypeOK
<1>3. /\ needed' \in Seq(Hash)
      /\ needed' = hdl \/ (Distinct(needed') /\ ToSet(needed') \subseteq ToSet(hdl))
      /\ \A h \in ToSet(hdl) : h \in ToSet(needed') \/ h \in vouched
  <2>1. CASE needed' \in Answers(hdl)
    <3>1. /\ needed' \in Seq(Hash) /\ Distinct(needed') /\ ToSet(needed') \subseteq ToSet(hdl)
          /\ ToSet(hdl) \ ToSet(needed') \subseteq vouched
      BY <1>2, <2>1, AnswersCorrect
    <3> QED BY <3>1
  <2>2. CASE needed' = hdl
    BY <1>2, <2>2
  <2> QED BY <2>1, <2>2 DEF HashArrayPosted, HashArrayNotPosted
<1>4. TypeOK'
  BY <1>1, <1>3 DEF TypeOK, otherVars
<1>5. ThreadInv'
  BY <1>1 DEF ThreadInv
<1>6. Readable' => Readable
  BY <1>1 DEF Readable, otherVars
<1>7. OrderInv'
  BY <1>1, <1>6 DEF OrderInv
<1>8. CachedInv' /\ \A x : Safe(x) => Safe(x)'
  BY <1>1, NothingElse
<1>9. \A h \in vouched : Safe(h)'
  BY <1>1 DEF Safe
<1>10. BlocksInv'
  BY <1>1, <1>3, <1>6, <1>8, <1>9 DEF BlocksInv, InHand
<1>11. MetaInv' /\ PickInv'
  BY <1>1, <1>3 DEF MetaInv, PickInv
<1> QED BY <1>4, <1>5, <1>7, <1>8, <1>10, <1>11

(* The block that was asked for is in memory, and the others stay there.   *)
LEMMA PickBlockInv ==
  ASSUME IInv, PickBlock
  PROVE  IInv'
<1> USE DEF IInv
<1> DEFINE h == Head(needed)
           i == FindHashInList(h)
<1>1. /\ place = "pick" /\ place' \in {"pick", "data"} /\ file \in File /\ needed # <<>>
      /\ needed' = Tail(needed) /\ array' = Append(array, h) /\ hdl' = RemoveAt(hdl, i)
      /\ UNCHANGED <<file, unread, eof, savedList, kept, cached, vouched, otherVars>>
  BY FileInHand DEF PickBlock
<1>2. hdl \in Seq(Hash) /\ needed \in Seq(Hash) /\ array \in Seq(Hash)
  BY DEF TypeOK
<1>3. /\ h \in Hash /\ needed' \in Seq(Hash)
      /\ ToSet(needed) = {h} \cup ToSet(needed')
  BY <1>1, <1>2, ToSetOfHeadTail
<1>4. array' \in Seq(Hash) /\ ToSet(array') = ToSet(array) \cup {h}
  BY <1>1, <1>2, <1>3, ToSetOfAppend
<1>5. h \in ToSet(hdl)
  BY <1>1, <1>3 DEF PickInv
<1>6. i \in 1 .. Len(hdl) /\ hdl[i] = h /\ (h = Head(hdl) => i = 1)
  BY <1>2, <1>5, FindHashInListCorrect
<1> HIDE DEF h, i
<1>7. hdl' \in Seq(Hash) /\ \A x \in ToSet(hdl) : x = h \/ x \in ToSet(hdl')
  BY <1>1, <1>2, <1>6, ElementsOfRemoveAt
<1>8. TypeOK'
  BY <1>1, <1>3, <1>4, <1>7 DEF TypeOK, otherVars
<1>9. ThreadInv'
  BY <1>1 DEF ThreadInv
<1>10. Readable' => Readable
  BY <1>1 DEF Readable, otherVars
<1>11. OrderInv'
  BY <1>1, <1>10 DEF OrderInv, otherVars
<1>12. CachedInv' /\ \A x : Safe(x) => Safe(x)'
  BY <1>1, NothingElse
<1>13. BlocksInv'
  BY <1>1, <1>3, <1>4, <1>10, <1>12 DEF BlocksInv, InHand
<1>14. MetaInv'
  BY <1>1, <1>12 DEF MetaInv
<1>15. PickInv'
  <2>1. CASE needed = hdl
    <3>1. i = 1
      BY <1>6, <2>1 DEF h
    <3>2. hdl' = Tail(hdl)
      BY <1>1, <1>2, <2>1, <3>1, RemoveFirstElement
    <3> QED BY <1>1, <2>1, <3>2 DEF PickInv
  <2>2. CASE Distinct(needed) /\ ToSet(needed) \subseteq ToSet(hdl)
    <3>1. \A k \in DOMAIN needed' : k + 1 \in DOMAIN needed /\ needed'[k] = needed[k + 1]
      BY <1>1, <1>2
    <3>2. DOMAIN needed' \subseteq Nat \ {0}
      BY <1>3
    <3>3. Distinct(needed')
      BY <2>2, <3>1, <3>2 DEF Distinct
    <3>4. 1 \in DOMAIN needed /\ needed[1] = h
      BY <1>1, <1>2 DEF h
    <3>5. \A k \in DOMAIN needed' : needed'[k] # h
      BY <2>2, <3>1, <3>2, <3>4 DEF Distinct
    <3>6. h \notin ToSet(needed')
      BY <3>5 DEF ToSet
    <3> QED BY <1>3, <1>7, <2>2, <3>3, <3>6 DEF PickInv
  <2> QED BY <1>1, <2>1, <2>2 DEF PickInv
<1> QED BY <1>8, <1>9, <1>11, <1>12, <1>13, <1>14, <1>15

LEMMA SendRestInv ==
  ASSUME IInv, SendRest
  PROVE  IInv'
<1> USE DEF IInv
<1>1. /\ place = "pick" /\ needed = <<>> /\ file \in File
      /\ UNCHANGED <<file, unread, eof, savedList, needed, array, kept, cached,
                     vouched, otherVars>>
  BY FileInHand DEF SendRest
<1>2. \/ place' = "data" /\ hdl' = hdl
      \/ /\ array = <<>> /\ hdl' = <<>>
         /\ place' = IF file \in Small THEN "cache" ELSE "read"
  BY DEF SendRest
<1>3. <<>> \in Seq(Hash) /\ savedList \in Seq(Hash)
  BY DEF TypeOK
<1>4. TypeOK'
  BY <1>1, <1>2, <1>3 DEF TypeOK, otherVars
<1>5. ThreadInv'
  BY <1>1, <1>2 DEF ThreadInv
<1>6. Readable' => Readable
  BY <1>1 DEF Readable, otherVars
<1>7. OrderInv'
  <2>1. <<>> \o savedList = savedList
    BY <1>3, ConcatEmptySeq
  <2>2. CASE place' = "data"
    BY <1>1, <1>6, <2>2 DEF OrderInv, otherVars
  <2>3. CASE place' = "read" /\ file \notin Small /\ hdl' = <<>>
    BY <1>1, <1>6, <2>1, <2>3 DEF OrderInv, otherVars
  <2>4. CASE place' = "cache" /\ file \in Small
    BY <1>1, <1>6, <2>4 DEF OrderInv, ThreadInv, otherVars
  <2> QED BY <1>2, <2>2, <2>3, <2>4
<1>8. CachedInv' /\ \A x : Safe(x) => Safe(x)'
  BY <1>1, NothingElse
<1>9. BlocksInv'
  BY <1>1, <1>2, <1>6, <1>8, EmptyToSet DEF BlocksInv, InHand
<1>10. MetaInv'
  BY <1>1, <1>2, <1>8 DEF MetaInv
<1>11. PickInv'
  BY <1>1, <1>2 DEF PickInv
<1> QED BY <1>4, <1>5, <1>7, <1>8, <1>9, <1>10, <1>11

(* An array is taken by the server or kept.                                *)
LEMMA DataArrayInv ==
  ASSUME IInv, DataArrayPosted \/ DataArrayKept
  PROVE  IInv'
<1> USE DEF IInv
<1>1. /\ place = "data" /\ place' = "pick" /\ file \in File /\ array' = <<>>
      /\ UNCHANGED <<file, unread, eof, hdl, savedList, needed, cached, vouched,
                     otherVars>>
  BY FileInHand DEF DataArrayPosted, DataArrayKept
<1>2. ToSet(array) \subseteq Hash
  BY ToSetType DEF TypeOK
<1>3. kept \subseteq kept' /\ kept' \subseteq SUBSET Item
  BY <1>2 DEF DataArrayPosted, DataArrayKept, TypeOK, Item
<1>4. \A h \in ToSet(array) : Safe(h)'
  BY DEF DataArrayPosted, DataArrayKept, Safe
<1>5. \A x : Safe(x) => Safe(x)'
  BY <1>1, <1>3, SafeGrows
<1>6. TypeOK'
  <2>1. <<>> \in Seq(Hash)
    OBVIOUS
  <2> QED BY <1>1, <1>3, <2>1 DEF TypeOK, otherVars
<1>7. ThreadInv'
  BY <1>1 DEF ThreadInv
<1>8. Readable' => Readable
  BY <1>1 DEF Readable, otherVars
<1>9. OrderInv'
  BY <1>1, <1>8 DEF OrderInv, otherVars
<1>10. BlocksInv'
  BY <1>1, <1>4, <1>5, <1>8 DEF BlocksInv, InHand
<1>11. MetaInv' /\ PickInv'
  BY <1>1, <1>5 DEF MetaInv, PickInv
<1>12. CachedInv'
  BY <1>1, <1>5, CachedStays DEF otherVars
<1> QED BY <1>6, <1>7, <1>9, <1>10, <1>11, <1>12

(* When the file is written in the cache nothing of it is in hand.         *)
LEMMA DbSaveMetaDataInv ==
  ASSUME IInv, DbSaveMetaData
  PROVE  IInv'
<1> USE DEF IInv
<1>1. /\ place = "cache" /\ place' = "idle" /\ file \in File /\ file' = NoFile
      /\ cached' = cached \cup {file} /\ array = <<>>
      /\ unread' = <<>> /\ ~eof' /\ hdl' = <<>> /\ savedList' = <<>>
      /\ UNCHANGED <<needed, array, kept, vouched, otherVars>>
  BY FileInHand DEF DbSaveMetaData, ThreadInv
<1>2. TypeOK'
  <2>1. <<>> \in Seq(Hash)
    OBVIOUS
  <2>2. eof' \in BOOLEAN
    BY DEF DbSaveMetaData
  <2> QED BY <1>1, <2>1, <2>2 DEF TypeOK, otherVars
<1>3. ThreadInv'
  BY <1>1, ConstantsTypes DEF ThreadInv, TypeOK
<1>4. OrderInv' /\ BlocksInv'
  BY <1>1 DEF OrderInv, BlocksInv, Readable
<1>5. MetaInv' /\ PickInv'
  BY <1>1 DEF MetaInv, PickInv
<1>6. \A x : Safe(x) => Safe(x)'
  BY <1>1, SafeGrows
<1>7. file \notin flawed => /\ lists[file] = Content[file] /\ Safe(file)
                            /\ \A h \in ToSet(Content[file]) : Safe(h)
  <2> SUFFICES ASSUME file \notin flawed
               PROVE  /\ lists[file] = Content[file] /\ Safe(file)
                      /\ \A h \in ToSet(Content[file]) : Safe(h)
    OBVIOUS
  <2>1. Readable
    BY <1>1 DEF Readable
  <2>2. unread = <<>> /\ lists[file] = Content[file]
    BY <1>1, <2>1 DEF OrderInv
  <2>3. Safe(file)
    BY <1>1 DEF MetaInv
  <2>4. \A h \in ToSet(Content[file]) : Safe(h)
    BY <1>1, <2>1, <2>2, EmptyToSet DEF BlocksInv, InHand
  <2> QED BY <2>2, <2>3, <2>4
<1>8. CachedInv'
  BY <1>1, <1>6, <1>7 DEF CachedInv, otherVars
<1> QED BY <1>2, <1>3, <1>4, <1>5, <1>8

-----------------------------------------------------------------------------
(* The rest of the system.                                                 *)

(* Others make things safe, and nothing unsafe.                            *)
LEMMA OthersInv ==
  ASSUME IInv, UNCHANGED <<threadVars, cached, otherVars>>,
         vouched \subseteq vouched', vouched' \subseteq Item, kept' \subseteq SUBSET Item,
         \A post \in kept : post \in kept' \/ post \subseteq vouched'
  PROVE  IInv'
<1> USE DEF IInv, threadVars, otherVars
<1>1. \A x : Safe(x) => Safe(x)'
  BY SafeGrows
<1>2. TypeOK'
  BY DEF TypeOK
<1>3. ThreadInv'
  BY DEF ThreadInv
<1>4. OrderInv'
  BY DEF OrderInv, Readable
<1>5. BlocksInv'
  BY <1>1 DEF BlocksInv, Readable, InHand
<1>6. MetaInv' /\ PickInv'
  BY <1>1 DEF MetaInv, PickInv
<1>7. CachedInv'
  BY <1>1, CachedStays
<1> QED BY <1>2, <1>3, <1>4, <1>5, <1>6, <1>7

LEMMA VouchInv ==
  ASSUME IInv, NEW x \in Item, Vouch(x)
  PROVE  IInv'
<1>1. vouched' \subseteq Item /\ kept' \subseteq SUBSET Item
  BY DEF Vouch, IInv, TypeOK
<1> QED BY <1>1, OthersInv DEF Vouch

LEMMA TransmitInv ==
  ASSUME IInv, NEW post \in kept, Transmit(post)
  PROVE  IInv'
<1>1. vouched' \subseteq Item /\ kept' \subseteq SUBSET Item
  BY DEF Transmit, IInv, TypeOK
<1> QED BY <1>1, OthersInv DEF Transmit

(* A file that was in hand is not in the cache.                            *)
LEMMA CrashAndRestartInv ==
  ASSUME IInv, CrashAndRestart
  PROVE  IInv'
<1> USE DEF IInv
<1>1. /\ place' = "idle" /\ file' = NoFile /\ unread' = <<>> /\ ~eof' /\ hdl' = <<>>
      /\ savedList' = <<>> /\ needed' = <<>> /\ array' = <<>>
      /\ UNCHANGED <<kept, cached, vouched, lists, flawed>>
  BY DEF CrashAndRestart
<1>2. TypeOK'
  <2>1. <<>> \in Seq(Hash)
    OBVIOUS
  <2>2. eof' \in BOOLEAN
    BY DEF CrashAndRestart
  <2>3. crashes' \in 0 .. MaxCrashes
    BY ConstantsTypes DEF CrashAndRestart, TypeOK
  <2> QED BY <1>1, <2>1, <2>2, <2>3 DEF TypeOK
<1>3. ThreadInv'
  BY <1>1, ConstantsTypes DEF ThreadInv, TypeOK
<1>4. OrderInv' /\ BlocksInv'
  BY <1>1 DEF OrderInv, BlocksInv, Readable
<1>5. MetaInv' /\ PickInv'
  BY <1>1 DEF MetaInv, PickInv
<1>6. CachedInv'
  <2>1. \A x : Safe(x) => Safe(x)'
    BY <1>1, SafeGrows
  <2> QED BY <1>1, <2>1, CachedStays
<1> QED BY <1>2, <1>3, <1>4, <1>5, <1>6

-----------------------------------------------------------------------------
LEMMA NextInv == IInv /\ [Next]_vars => IInv'
<1> SUFFICES ASSUME IInv, [Next]_vars PROVE IInv'
  OBVIOUS
<1>1. ASSUME NEW f \in File, ProcessSmallFile(f) \/ ProcessBigFile(f)
      PROVE  IInv'
  BY <1>1, ProcessSmallFileInv, ProcessBigFileInv
<1>2. CASE ReadBlock \/ EndOfFile \/ FinishBigFile \/ ReadError
  BY <1>2, ReadBlockInv, EndOfFileInv, FinishBigFileInv, ReadErrorInv
<1>3. CASE MetaPosted \/ MetaKept \/ HashArrayPosted \/ HashArrayNotPosted
  BY <1>3, MetaPostedInv, MetaKeptInv, HashArrayInv
<1>4. CASE PickBlock \/ SendRest \/ DataArrayPosted \/ DataArrayKept
  BY <1>4, PickBlockInv, SendRestInv, DataArrayInv
<1>5. CASE DbSaveMetaData \/ CrashAndRestart
  BY <1>5, DbSaveMetaDataInv, CrashAndRestartInv
<1>6. ASSUME NEW x \in Item, Vouch(x) PROVE IInv'
  BY <1>6, VouchInv
<1>7. ASSUME NEW post \in kept, Transmit(post) PROVE IInv'
  BY <1>7, TransmitInv
<1>8. CASE UNCHANGED vars
  <2>1. vouched' \subseteq Item /\ kept' \subseteq SUBSET Item
    BY <1>8 DEF vars, IInv, TypeOK
  <2> QED BY <1>8, <2>1, OthersInv DEF vars
<1> QED BY <1>1, <1>2, <1>3, <1>4, <1>5, <1>6, <1>7, <1>8 DEF Next

(* The invariant about the file in hand and the cached ones is inductive,  *)
(* for any files and blocks: each block of the file is still to be read,   *)
(* in memory, in the array, asked for, kept, or vouched for.               *)
THEOREM IInvCorrect == Spec => []IInv
BY InitInv, NextInv, PTL DEF Spec

(* The variables of the save thread keep their types.                      *)
THEOREM TypeCorrect == Spec => []TypeOK
<1>1. IInv => TypeOK
  BY DEF IInv
<1> QED BY <1>1, IInvCorrect, PTL

(* client.c:1045 to 1063: whatever the number of buffers, the hashes that  *)
(* are sent with the meta data are those of the file, in their order.      *)
THEOREM ListIsContentCorrect == Spec => []ListIsContent
<1>1. IInv => ListIsContent
  BY DEF IInv, CachedInv, ListIsContent
<1> QED BY <1>1, IInvCorrect, PTL

(* client.c:881 and 1083: a file is cached when its meta data and each of  *)
(* its blocks have been taken by the server or are kept.                   *)
THEOREM CachedIsSafeCorrect == Spec => []CachedIsSafe
<1>1. IInv => CachedIsSafe
  BY DEF IInv, CachedInv, CachedIsSafe
<1> QED BY <1>1, IInvCorrect, PTL

(* client.c:538: find_hash_in_list always finds the block that is asked    *)
(* for, though each one that was found has left the list.                  *)
THEOREM NeededIsInMemoryCorrect == Spec => []NeededIsInMemory
<1>1. IInv => NeededIsInMemory
  BY DEF IInv, PickInv, NeededIsInMemory
<1> QED BY <1>1, IInvCorrect, PTL
=============================================================================
