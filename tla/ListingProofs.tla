-------------------------- MODULE ListingProofs ---------------------------
(***************************************************************************)
(* The list of saved files, on both sides. First Versions, for any files,  *)
(* any number of versions, any times, any options and any queries: the     *)
(* strengthening IInv is inductive, hence the latest version is the one    *)
(* restored when one is, every version asked for is restored or listed     *)
(* once, and nothing is overwritten. The proof rests on what sorting       *)
(* twice, prepending and keep_latests_meta_data_t_in_list do to a list.    *)
(*                                                                         *)
(* Then Catalogue, for any meta data, any queries, buffers of any sizes    *)
(* and lines cut anywhere: CatalogueIInv is inductive, hence a version     *)
(* stored before a query that asks for it is listed, with its own meta     *)
(* data, and nothing else is. The proof rests on what the reader of lines  *)
(* makes of a text that is the lines of the versions one after the other,  *)
(* and of a buffer that begins or ends inside one of them.                 *)
(***************************************************************************)
EXTENDS Versions, Catalogue, TLAPS, FiniteSetTheorems, SequenceTheorems, WellFoundedInduction

-----------------------------------------------------------------------------
(* Numbers: a set of them has a least one, hence induction over a set.     *)
LEMMA Least ==
  ASSUME NEW S \in SUBSET Nat, S # {}
  PROVE  \E n \in S : \A m \in S : n <= m
<1> DEFINE R == OpToRel(<, Nat)
<1>1. IsWellFoundedOn(R, Nat)
  BY NatLessThanWellFounded
<1>2. \A x, y \in Nat : <<y, x>> \in R <=> y < x
  BY DEF OpToRel
<1> HIDE DEF R
<1>3. PICK x \in S : \A y \in S : ~(<<y, x>> \in R)
  BY <1>1, WFMin
<1>4. ASSUME NEW y \in S PROVE x <= y
  <2>1. x \in Nat /\ y \in Nat
    OBVIOUS
  <2>2. ~(y < x)
    BY <1>2, <1>3, <2>1
  <2> QED BY <2>1, <2>2
<1> QED BY <1>4

LEMMA Induction ==
  ASSUME NEW S, 0 \in S, \A n \in Nat : n \in S => n + 1 \in S
  PROVE  Nat \subseteq S
<1> SUFFICES ASSUME Nat \ S # {} PROVE FALSE
  OBVIOUS
<1> PICK n \in Nat \ S : \A m \in Nat \ S : n <= m
  BY Least
<1>1. n # 0 /\ n - 1 \in Nat
  OBVIOUS
<1> QED BY <1>1

(* A finite set of numbers has a greatest one.                             *)
LEMMA Greatest ==
  ASSUME NEW n \in Nat, NEW S \in SUBSET (0 .. n), S # {}
  PROVE  \E m \in S : \A k \in S : k <= m
<1> DEFINE T == {n - k : k \in S}
<1>1. T \in SUBSET Nat /\ T # {}
  <2>1. \A k \in S : k \in 0 .. n
    OBVIOUS
  <2>2. \A k \in S : n - k \in Nat
    BY <2>1
  <2> QED BY <2>2
<1> PICK t \in T : \A u \in T : t <= u
  BY <1>1, Least
<1>2. PICK m \in S : t = n - m
  OBVIOUS
<1>3. ASSUME NEW k \in S PROVE k <= m
  <2>1. n - k \in T
    OBVIOUS
  <2>2. t <= n - k
    BY <2>1
  <2> QED BY <1>2, <2>2
<1> QED BY <1>3

LEMMA IntervalFacts ==
  ASSUME NEW n \in Nat
  PROVE  IsFiniteSet(1 .. n) /\ Cardinality(1 .. n) = n
BY FS_Interval

-----------------------------------------------------------------------------
(* Orders: a finite set with a strict total order can be put in that       *)
(* order. The place of an element is the number of those before it.        *)
LEMMA InOrder ==
  ASSUME NEW S, IsFiniteSet(S), NEW R,
         \A x \in S : <<x, x>> \notin R,
         \A x, y, z \in S : <<x, y>> \in R /\ <<y, z>> \in R => <<x, z>> \in R,
         \A x, y \in S : x = y \/ <<x, y>> \in R \/ <<y, x>> \in R
  PROVE  \E s \in SetToSeqs(S) : \A i, j \in DOMAIN s : i < j => <<s[i], s[j]>> \in R
<1> DEFINE n == Cardinality(S)
           Below(x) == {y \in S : <<y, x>> \in R}
           rank == [x \in S |-> Cardinality(Below(x)) + 1]
<1>1. n \in Nat
  BY FS_CardinalityType
<1>2. ASSUME NEW x \in S
      PROVE  IsFiniteSet(Below(x)) /\ Cardinality(Below(x)) \in Nat /\ Cardinality(Below(x)) < n
  <2>1. Below(x) \in SUBSET S /\ x \notin Below(x)
    OBVIOUS
  <2> HIDE DEF Below
  <2>2. IsFiniteSet(Below(x)) /\ Cardinality(Below(x)) <= n /\ Cardinality(Below(x)) # n
    BY <2>1, FS_Subset
  <2>3. Cardinality(Below(x)) \in Nat
    BY <2>2, FS_CardinalityType
  <2> QED BY <1>1, <2>2, <2>3
<1>3. ASSUME NEW x \in S, NEW y \in S, <<x, y>> \in R PROVE rank[x] < rank[y]
  <2>1. Below(x) \in SUBSET Below(y) /\ x \in Below(y) /\ x \notin Below(x)
    BY <1>3
  <2>2. IsFiniteSet(Below(y)) /\ Cardinality(Below(x)) \in Nat /\ Cardinality(Below(y)) \in Nat
    BY <1>2
  <2>3. rank[x] = Cardinality(Below(x)) + 1 /\ rank[y] = Cardinality(Below(y)) + 1
    OBVIOUS
  <2> HIDE DEF Below, rank
  <2>4. Cardinality(Below(x)) <= Cardinality(Below(y)) /\ Cardinality(Below(x)) # Cardinality(Below(y))
    BY <2>1, <2>2, FS_Subset
  <2> QED BY <2>2, <2>3, <2>4
<1>4. rank \in [S -> 1 .. n]
  <2>1. \A x \in S : Cardinality(Below(x)) + 1 \in 1 .. n
    BY <1>1, <1>2
  <2> HIDE DEF Below, n
  <2> QED BY <2>1
<1> HIDE DEF n, Below, rank
<1>5. ASSUME NEW x \in S, NEW y \in S, rank[x] = rank[y] PROVE x = y
  <2>1. rank[x] \in Nat /\ rank[y] \in Nat
    BY <1>1, <1>4
  <2>2. ~(<<x, y>> \in R) /\ ~(<<y, x>> \in R)
    BY <1>3, <1>5, <2>1
  <2> QED BY <2>2
<1>6. rank \in Injection(S, 1 .. n)
  BY <1>4, <1>5 DEF Injection, IsInjective
<1>7. IsFiniteSet(1 .. n) /\ Cardinality(1 .. n) = n
  BY <1>1, FS_Interval
<1>8. rank \in Surjection(S, 1 .. n)
  BY <1>6, <1>7, FS_Injection DEF n
<1>9. \A i \in 1 .. n : \E x \in S : rank[x] = i
  BY <1>8 DEF Surjection
<1> DEFINE s == [i \in 1 .. n |-> CHOOSE x \in S : rank[x] = i]
<1>10. s \in [1 .. n -> S] /\ \A i \in 1 .. n : rank[s[i]] = i
  BY <1>9
<1> HIDE DEF s
<1>11. s \in SetToSeqs(S)
  BY <1>10 DEF SetToSeqs, n
<1>12. ASSUME NEW i \in 1 .. n, NEW j \in 1 .. n, i < j PROVE <<s[i], s[j]>> \in R
  <2>1. s[i] \in S /\ s[j] \in S /\ rank[s[i]] = i /\ rank[s[j]] = j
    BY <1>10
  <2>2. s[i] # s[j]
    BY <1>1, <1>12, <2>1
  <2>3. ~(<<s[j], s[i]>> \in R)
    BY <1>1, <1>3, <1>12, <2>1
  <2> QED BY <2>1, <2>2, <2>3
<1>13. DOMAIN s = 1 .. n
  BY <1>10
<1> QED BY <1>11, <1>12, <1>13

(* A list that has each element of M once.                                 *)
Enumerates(l, M) == l \in Seq(M) /\ IsInjective(l) /\ ToSet(l) = M

LEMMA EnumeratesFacts ==
  ASSUME NEW M, NEW l, Enumerates(l, M)
  PROVE  /\ l \in Seq(M)
         /\ Len(l) \in Nat /\ DOMAIN l = 1 .. Len(l) /\ l \in [1 .. Len(l) -> M]
         /\ \A i, j \in 1 .. Len(l) : l[i] = l[j] => i = j
         /\ \A v \in M : \E i \in 1 .. Len(l) : l[i] = v
         /\ l = <<>> <=> M = {}
<1>1. Len(l) \in Nat /\ DOMAIN l = 1 .. Len(l) /\ l \in [1 .. Len(l) -> M]
  BY LenProperties DEF Enumerates
<1>2. \A v \in M : \E i \in 1 .. Len(l) : l[i] = v
  BY <1>1 DEF Enumerates, ToSet
<1>3. l = <<>> => M = {}
  BY <1>2
<1>4. M = {} => l = <<>>
  BY <1>1 DEF Enumerates
<1> QED BY <1>1, <1>2, <1>3, <1>4 DEF Enumerates, IsInjective

LEMMA EnumeratesNothing ==
  ASSUME NEW M, NEW l, Enumerates(l, M)
  PROVE  l = <<>> <=> M = {}
BY EnumeratesFacts

LEMMA EnumeratesIf ==
  ASSUME NEW M, NEW l, l \in Seq(M),
         \A i, j \in 1 .. Len(l) : l[i] = l[j] => i = j,
         \A v \in M : \E i \in 1 .. Len(l) : l[i] = v
  PROVE  Enumerates(l, M)
<1>1. DOMAIN l = 1 .. Len(l)
  OBVIOUS
<1>2. ToSet(l) = M
  BY <1>1 DEF ToSet
<1> QED BY <1>1, <1>2 DEF Enumerates, IsInjective

LEMMA EnumeratesLength ==
  ASSUME NEW M, NEW l, Enumerates(l, M)
  PROVE  IsFiniteSet(M) /\ Len(l) = Cardinality(M)
<1>1. /\ Len(l) \in Nat /\ l \in [1 .. Len(l) -> M]
      /\ \A i, j \in 1 .. Len(l) : l[i] = l[j] => i = j
      /\ \A v \in M : \E i \in 1 .. Len(l) : l[i] = v
  BY EnumeratesFacts
<1>2. l \in Surjection(1 .. Len(l), M) /\ l \in Injection(1 .. Len(l), M)
  BY <1>1 DEF Surjection, Injection, IsInjective
<1>3. IsFiniteSet(1 .. Len(l)) /\ Cardinality(1 .. Len(l)) = Len(l)
  BY <1>1, FS_Interval
<1> QED BY <1>2, <1>3, FS_Surjection

(* A sequence without repetition of the elements of a finite set has them  *)
(* all if it is as long as the set.                                        *)
LEMMA SeqsEnumerate ==
  ASSUME NEW S, IsFiniteSet(S), NEW s \in SetToSeqs(S)
  PROVE  /\ Enumerates(s, S) /\ Len(s) = Cardinality(S)
         /\ DOMAIN s = 1 .. Cardinality(S)
<1> DEFINE n == Cardinality(S)
<1>1. n \in Nat
  BY FS_CardinalityType
<1>2. s \in [1 .. n -> S] /\ \A i, j \in 1 .. n : s[i] = s[j] => i = j
  BY DEF SetToSeqs
<1>3. s \in Seq(S) /\ Len(s) = n
  BY <1>1, <1>2
<1>4. s \in Injection(1 .. n, S)
  BY <1>2 DEF Injection, IsInjective
<1>5. IsFiniteSet(1 .. n) /\ Cardinality(1 .. n) = n
  BY <1>1, FS_Interval
<1>6. s \in Surjection(1 .. n, S)
  BY <1>4, <1>5, FS_Injection
<1>7. ToSet(s) = S
  BY <1>2, <1>6 DEF ToSet, Surjection
<1> QED BY <1>2, <1>3, <1>7 DEF Enumerates, IsInjective

-----------------------------------------------------------------------------
(* Lists of versions. A list is ascending when no element comes before an  *)
(* earlier one; it rises when those of the same name and date are in the   *)
(* order they were saved in, it falls when they are in the opposite order. *)
LinesOK == lines \in Seq([name : Name, mtime : Time])

SameKey(v, w) == lines[v].name = lines[w].name /\ lines[v].mtime = lines[w].mtime

Ascending(l) == \A i, j \in DOMAIN l : i < j => ~ComesBefore(l[j], l[i])
Rising(l)    == \A i, j \in DOMAIN l : i < j /\ SameKey(l[i], l[j]) => l[i] < l[j]
Falling(l)   == \A i, j \in DOMAIN l : i < j /\ SameKey(l[i], l[j]) => l[i] > l[j]

(* The versions of M that are the latest of their file in M.               *)
Latest(M) == {v \in M : ~\E w \in M : LaterVersion(w, v)}

LEMMA LineFacts ==
  ASSUME LinesOK
  PROVE  /\ DOMAIN lines = 1 .. Len(lines) /\ Len(lines) \in Nat
         /\ DOMAIN lines \subseteq Nat
         /\ \A v \in DOMAIN lines :
              /\ lines[v] \in [name : Name, mtime : Time]
              /\ lines[v].name \in Name /\ lines[v].mtime \in Time
              /\ lines[v].name \in Nat \ {0} /\ lines[v].mtime \in Nat \ {0}
<1>1. NbNames \in Nat /\ NbTimes \in Nat
  BY ConstantsAssumption
<1>2. Name \subseteq Nat \ {0} /\ Time \subseteq Nat \ {0}
  BY <1>1 DEF Name, Time
<1>3. /\ DOMAIN lines = 1 .. Len(lines) /\ Len(lines) \in Nat
      /\ \A v \in 1 .. Len(lines) : lines[v] \in [name : Name, mtime : Time]
  BY LenProperties, ElementOfSeq DEF LinesOK
<1>4. \A v \in 1 .. Len(lines) : lines[v].name \in Name /\ lines[v].mtime \in Time
  BY <1>3
<1>5. DOMAIN lines \subseteq Nat
  BY <1>3
<1>6. \A v \in 1 .. Len(lines) : lines[v].name \in Nat \ {0} /\ lines[v].mtime \in Nat \ {0}
  BY <1>2, <1>4
<1> QED BY <1>3, <1>4, <1>5, <1>6

(* The order in which two places of a list are sorted.                     *)
PlacedBefore(l, i, j) ==
    \/ ComesBefore(l[i], l[j])
    \/ ~ComesBefore(l[j], l[i]) /\ i < j

LEMMA PlacedBeforeOrders ==
  ASSUME LinesOK, NEW l \in Seq(DOMAIN lines)
  PROVE  /\ \A i \in DOMAIN l : ~PlacedBefore(l, i, i)
         /\ \A i, j, k \in DOMAIN l :
              PlacedBefore(l, i, j) /\ PlacedBefore(l, j, k) => PlacedBefore(l, i, k)
         /\ \A i, j \in DOMAIN l : i = j \/ PlacedBefore(l, i, j) \/ PlacedBefore(l, j, i)
<1>1. \A i \in DOMAIN l : i \in Nat /\ l[i] \in DOMAIN lines
  OBVIOUS
<1>2. \A i \in DOMAIN l : /\ i \in Nat
                          /\ lines[l[i]].name \in Nat /\ lines[l[i]].mtime \in Nat
  BY <1>1, LineFacts
<1>3. ASSUME NEW i \in DOMAIN l PROVE ~PlacedBefore(l, i, i)
  BY <1>2 DEF PlacedBefore, ComesBefore
<1>4. ASSUME NEW i \in DOMAIN l, NEW j \in DOMAIN l, NEW k \in DOMAIN l,
             PlacedBefore(l, i, j), PlacedBefore(l, j, k)
      PROVE  PlacedBefore(l, i, k)
  <2>1. /\ i \in Nat /\ lines[l[i]].name \in Nat /\ lines[l[i]].mtime \in Nat
        /\ j \in Nat /\ lines[l[j]].name \in Nat /\ lines[l[j]].mtime \in Nat
        /\ k \in Nat /\ lines[l[k]].name \in Nat /\ lines[l[k]].mtime \in Nat
    BY <1>2
  <2> QED BY <1>4, <2>1, SMTT(30) DEF PlacedBefore, ComesBefore
<1>5. ASSUME NEW i \in DOMAIN l, NEW j \in DOMAIN l
      PROVE  i = j \/ PlacedBefore(l, i, j) \/ PlacedBefore(l, j, i)
  <2>1. /\ i \in Nat /\ lines[l[i]].name \in Nat /\ lines[l[i]].mtime \in Nat
        /\ j \in Nat /\ lines[l[j]].name \in Nat /\ lines[l[j]].mtime \in Nat
    BY <1>2
  <2> QED BY <2>1 DEF PlacedBefore, ComesBefore
<1> QED BY <1>3, <1>4, <1>5

(* Sorting is a permutation of the places.                                 *)
LEMMA SortedFacts ==
  ASSUME LinesOK, NEW l \in Seq(DOMAIN lines)
  PROVE  \E p \in [1 .. Len(l) -> 1 .. Len(l)] :
           /\ \A i, j \in 1 .. Len(l) : p[i] = p[j] => i = j
           /\ \A k \in 1 .. Len(l) : \E i \in 1 .. Len(l) : p[i] = k
           /\ Sorted(l) = [i \in 1 .. Len(l) |-> l[p[i]]]
           /\ \A i, j \in 1 .. Len(l) : i < j => PlacedBefore(l, p[i], p[j])
<1> DEFINE S == DOMAIN l
           R == {r \in S \X S : PlacedBefore(l, r[1], r[2])}
           place == CHOOSE s \in SetToSeqs(S) :
                      \A i, j \in DOMAIN s : i < j => PlacedBefore(l, s[i], s[j])
<1>1. S = 1 .. Len(l) /\ Len(l) \in Nat
  OBVIOUS
<1>2. Sorted(l) = [i \in DOMAIN l |-> l[place[i]]]
  BY DEF Sorted, Ordered, PlacedBefore
<1>3. IsFiniteSet(S) /\ Cardinality(S) = Len(l)
  <2>1. IsFiniteSet(1 .. Len(l)) /\ Cardinality(1 .. Len(l)) = Len(l)
    BY LenProperties, IntervalFacts
  <2> QED BY <1>1, <2>1
<1>4. \A i, j \in S : <<i, j>> \in R <=> PlacedBefore(l, i, j)
  OBVIOUS
<1> HIDE DEF R, S
<1>5. /\ \A x \in S : <<x, x>> \notin R
      /\ \A x, y, z \in S : <<x, y>> \in R /\ <<y, z>> \in R => <<x, z>> \in R
      /\ \A x, y \in S : x = y \/ <<x, y>> \in R \/ <<y, x>> \in R
  BY <1>4, PlacedBeforeOrders DEF S
<1>6. \E s \in SetToSeqs(S) : \A i, j \in DOMAIN s : i < j => <<s[i], s[j]>> \in R
  BY <1>3, <1>5, InOrder
<1>7. PICK s : /\ s \in SetToSeqs(S)
               /\ \A i, j \in DOMAIN s : i < j => <<s[i], s[j]>> \in R
  BY <1>6
<1>8. Enumerates(s, S) /\ DOMAIN s = 1 .. Len(l)
  BY <1>3, <1>7, SeqsEnumerate
<1>9. \A i, j \in DOMAIN s : i < j => PlacedBefore(l, s[i], s[j])
  <2>1. \A i \in DOMAIN s : s[i] \in S
    BY <1>8 DEF Enumerates
  <2> QED BY <2>1, <1>7, <1>4
<1>10. /\ place \in SetToSeqs(S)
       /\ \A i, j \in DOMAIN place : i < j => PlacedBefore(l, place[i], place[j])
  BY <1>7, <1>9
<1> HIDE DEF place
<1>11. Enumerates(place, S) /\ DOMAIN place = 1 .. Len(l) /\ Len(place) = Len(l)
  BY <1>3, <1>10, SeqsEnumerate
<1>12. /\ place \in [1 .. Len(l) -> 1 .. Len(l)]
       /\ \A i, j \in 1 .. Len(l) : place[i] = place[j] => i = j
       /\ \A k \in 1 .. Len(l) : \E i \in 1 .. Len(l) : place[i] = k
  <2>1. /\ place \in [1 .. Len(place) -> S]
        /\ \A i, j \in 1 .. Len(place) : place[i] = place[j] => i = j
        /\ \A k \in S : \E i \in 1 .. Len(place) : place[i] = k
    BY <1>11, EnumeratesFacts
  <2>2. Len(place) = Len(l)
    BY <1>11
  <2> QED BY <1>1, <2>1, <2>2
<1> QED BY <1>1, <1>2, <1>10, <1>11, <1>12 DEF S

(* What it keeps of the list.                                              *)
LEMMA SortedKeeps ==
  ASSUME LinesOK, NEW M \in SUBSET DOMAIN lines, NEW l, Enumerates(l, M)
  PROVE  /\ Enumerates(Sorted(l), M)
         /\ Ascending(Sorted(l))
         /\ Falling(l) => Falling(Sorted(l))
         /\ Rising(l) => Rising(Sorted(l))
<1> DEFINE n == Len(l)
<1> PICK s : s = Sorted(l)
  OBVIOUS
<1>1. /\ l \in Seq(DOMAIN lines) /\ n \in Nat /\ DOMAIN l = 1 .. n /\ l \in [1 .. n -> M]
      /\ \A i, j \in 1 .. n : l[i] = l[j] => i = j
      /\ \A v \in M : \E i \in 1 .. n : l[i] = v
  <2>1. /\ l \in Seq(M) /\ n \in Nat /\ DOMAIN l = 1 .. n /\ l \in [1 .. n -> M]
        /\ \A i, j \in 1 .. n : l[i] = l[j] => i = j
        /\ \A v \in M : \E i \in 1 .. n : l[i] = v
    BY ONLY Enumerates(l, M), EnumeratesFacts, SMTT(30)
  <2>2. l \in Seq(DOMAIN lines)
    BY <2>1
  <2> QED BY <2>1, <2>2
<1>2. PICK p :
           /\ p \in [1 .. n -> 1 .. n]
           /\ \A i, j \in 1 .. n : p[i] = p[j] => i = j
           /\ \A k \in 1 .. n : \E i \in 1 .. n : p[i] = k
           /\ s = [i \in 1 .. n |-> l[p[i]]]
           /\ \A i, j \in 1 .. n : i < j => PlacedBefore(l, p[i], p[j])
  BY <1>1, SortedFacts
<1> HIDE DEF n
<1>3. s \in [1 .. n -> M] /\ DOMAIN s = 1 .. n /\ \A i \in 1 .. n : s[i] = l[p[i]]
  BY <1>1, <1>2
<1>5. \A i, j \in 1 .. n : s[i] = s[j] => i = j
  <2> SUFFICES ASSUME NEW i \in 1 .. n, NEW j \in 1 .. n, s[i] = s[j] PROVE i = j
    OBVIOUS
  <2>1. l[p[i]] = l[p[j]] /\ p[i] \in 1 .. n /\ p[j] \in 1 .. n
    BY <1>2, <1>3
  <2>2. p[i] = p[j]
    BY <1>1, <2>1
  <2> QED BY <1>2, <2>2
<1>6. \A v \in M : \E i \in 1 .. n : s[i] = v
  <2> SUFFICES ASSUME NEW v \in M PROVE \E i \in 1 .. n : s[i] = v
    OBVIOUS
  <2>1. PICK k \in 1 .. n : l[k] = v
    BY <1>1
  <2>2. PICK i \in 1 .. n : p[i] = k
    BY <1>2
  <2> QED BY <1>3, <2>1, <2>2
<1>7. Enumerates(s, M)
  <2>1. s \in Seq(M) /\ Len(s) = n
    BY <1>1, <1>3
  <2> QED BY <2>1, <1>5, <1>6, EnumeratesIf
<1>8. \A i \in 1 .. n : l[i] \in DOMAIN lines
  BY <1>1
<1>9. \A v \in DOMAIN lines : lines[v].name \in Nat /\ lines[v].mtime \in Nat
  BY LineFacts
<1>10. ASSUME NEW i \in 1 .. n, NEW j \in 1 .. n, i < j
       PROVE  /\ ~ComesBefore(s[j], s[i])
              /\ SameKey(s[i], s[j]) => p[i] < p[j]
  <2>1. PlacedBefore(l, p[i], p[j]) /\ p[i] \in 1 .. n /\ p[j] \in 1 .. n
    BY <1>2, <1>10
  <2>2. s[i] = l[p[i]] /\ s[j] = l[p[j]] /\ s[i] \in DOMAIN lines /\ s[j] \in DOMAIN lines
    BY <1>3, <1>8, <2>1
  <2>3. /\ lines[s[i]].name \in Nat /\ lines[s[i]].mtime \in Nat
        /\ lines[s[j]].name \in Nat /\ lines[s[j]].mtime \in Nat
    BY <1>9, <2>2
  <2>4. \/ ComesBefore(s[i], s[j])
        \/ ~ComesBefore(s[j], s[i]) /\ p[i] < p[j]
    BY <2>1, <2>2 DEF PlacedBefore
  <2> QED BY <2>3, <2>4 DEF ComesBefore, SameKey
<1>11. Ascending(s)
  BY <1>3, <1>10 DEF Ascending
<1>12. ASSUME Falling(l) PROVE Falling(s)
  <2> SUFFICES ASSUME NEW i \in 1 .. n, NEW j \in 1 .. n, i < j, SameKey(s[i], s[j])
               PROVE  s[i] > s[j]
    BY <1>3 DEF Falling
  <2>1. p[i] < p[j] /\ p[i] \in 1 .. n /\ p[j] \in 1 .. n /\ s[i] = l[p[i]] /\ s[j] = l[p[j]]
    BY <1>2, <1>3, <1>10
  <2> QED BY <1>1, <1>12, <2>1 DEF Falling
<1>13. ASSUME Rising(l) PROVE Rising(s)
  <2> SUFFICES ASSUME NEW i \in 1 .. n, NEW j \in 1 .. n, i < j, SameKey(s[i], s[j])
               PROVE  s[i] < s[j]
    BY <1>3 DEF Rising
  <2>1. p[i] < p[j] /\ p[i] \in 1 .. n /\ p[j] \in 1 .. n /\ s[i] = l[p[i]] /\ s[j] = l[p[j]]
    BY <1>2, <1>3, <1>10
  <2> QED BY <1>1, <1>13, <2>1 DEF Rising
<1> QED BY <1>7, <1>11, <1>12, <1>13

LEMMA ReverseKeeps ==
  ASSUME LinesOK, NEW M \in SUBSET DOMAIN lines, NEW l, Enumerates(l, M)
  PROVE  /\ Enumerates(Reverse(l), M)
         /\ Falling(l) => Rising(Reverse(l))
         /\ Rising(l) => Falling(Reverse(l))
<1> DEFINE n == Len(l)
           s == Reverse(l)
<1>1. /\ n \in Nat /\ DOMAIN l = 1 .. n /\ l \in [1 .. n -> M]
      /\ \A i, j \in 1 .. n : l[i] = l[j] => i = j
      /\ \A v \in M : \E i \in 1 .. n : l[i] = v
  BY EnumeratesFacts
<1>2. s = [i \in 1 .. n |-> l[(n - i) + 1]]
  BY DEF Reverse
<1> HIDE DEF n, s
<1>3. \A i \in 1 .. n : (n - i) + 1 \in 1 .. n
  BY <1>1
<1>4. s \in [1 .. n -> M] /\ DOMAIN s = 1 .. n /\ \A i \in 1 .. n : s[i] = l[(n - i) + 1]
  BY <1>1, <1>2, <1>3
<1>6. ASSUME NEW i \in 1 .. n, NEW j \in 1 .. n, s[i] = s[j] PROVE i = j
  <2>1. (n - i) + 1 = (n - j) + 1
    BY <1>1, <1>3, <1>4, <1>6
  <2> QED BY <1>1, <2>1
<1>7. \A v \in M : \E i \in 1 .. n : s[i] = v
  <2> SUFFICES ASSUME NEW v \in M PROVE \E i \in 1 .. n : s[i] = v
    OBVIOUS
  <2>1. PICK k \in 1 .. n : l[k] = v
    BY <1>1
  <2>2. (n - k) + 1 \in 1 .. n /\ (n - ((n - k) + 1)) + 1 = k
    BY <1>1
  <2> QED BY <1>4, <2>1, <2>2
<1>8. Enumerates(s, M)
  <2>1. s \in Seq(M) /\ Len(s) = n
    BY <1>1, <1>4
  <2> QED BY <2>1, <1>6, <1>7, EnumeratesIf
<1>9. ASSUME NEW i \in 1 .. n, NEW j \in 1 .. n, i < j
      PROVE  \E a, b \in 1 .. n : a < b /\ s[i] = l[b] /\ s[j] = l[a]
  <2>1. (n - j) + 1 < (n - i) + 1
    BY <1>1, <1>9
  <2> QED BY <1>3, <1>4, <2>1
<1>10. \A v, w : SameKey(v, w) <=> SameKey(w, v)
  BY DEF SameKey
<1>11. \A i \in 1 .. n : l[i] \in Nat
  BY <1>1, LineFacts
<1>12. ASSUME Falling(l) PROVE Rising(s)
  <2> SUFFICES ASSUME NEW i \in 1 .. n, NEW j \in 1 .. n, i < j, SameKey(s[i], s[j])
               PROVE  s[i] < s[j]
    BY <1>4 DEF Rising
  <2>1. PICK a, b \in 1 .. n : a < b /\ s[i] = l[b] /\ s[j] = l[a]
    BY <1>9
  <2>2. l[a] > l[b]
    BY <1>1, <1>10, <1>12, <2>1 DEF Falling
  <2> QED BY <1>11, <2>1, <2>2
<1>13. ASSUME Rising(l) PROVE Falling(s)
  <2> SUFFICES ASSUME NEW i \in 1 .. n, NEW j \in 1 .. n, i < j, SameKey(s[i], s[j])
               PROVE  s[i] > s[j]
    BY <1>4 DEF Falling
  <2>1. PICK a, b \in 1 .. n : a < b /\ s[i] = l[b] /\ s[j] = l[a]
    BY <1>9
  <2>2. l[a] < l[b]
    BY <1>1, <1>10, <1>13, <2>1 DEF Rising
  <2> QED BY <1>11, <2>1, <2>2
<1> QED BY <1>8, <1>12, <1>13 DEF s

(* The versions that a query selects, as the file has them.                *)
LEMMA MatchingFacts ==
  ASSUME LinesOK, NEW q
  PROVE  /\ Matching(q) \in SUBSET DOMAIN lines
         /\ IsFiniteSet(Matching(q))
         /\ Enumerates(Ordered(Matching(q), <), Matching(q))
         /\ Rising(Ordered(Matching(q), <))
<1> DEFINE S == Matching(q)
           R == {r \in S \X S : r[1] < r[2]}
           o == Ordered(S, <)
<1>1. S \in SUBSET DOMAIN lines /\ S \subseteq Nat
  BY LineFacts DEF Matching
<1>2. IsFiniteSet(S)
  <2>1. IsFiniteSet(1 .. Len(lines))
    BY LineFacts, FS_Interval
  <2> QED BY <1>1, <2>1, LineFacts, FS_Subset
<1> HIDE DEF S
<1>3. \A i, j \in S : <<i, j>> \in R <=> i < j
  OBVIOUS
<1>4. o = CHOOSE s \in SetToSeqs(S) : \A i, j \in DOMAIN s : i < j => s[i] < s[j]
  BY DEF Ordered
<1> HIDE DEF R, o
<1>5. /\ \A x \in S : <<x, x>> \notin R
      /\ \A x, y, z \in S : <<x, y>> \in R /\ <<y, z>> \in R => <<x, z>> \in R
      /\ \A x, y \in S : x = y \/ <<x, y>> \in R \/ <<y, x>> \in R
  <2>1. \A x \in S : x \in Nat
    BY <1>1
  <2> QED BY <1>3, <2>1
<1>6. \E s \in SetToSeqs(S) : \A i, j \in DOMAIN s : i < j => <<s[i], s[j]>> \in R
  BY <1>2, <1>5, InOrder
<1>7. PICK s \in SetToSeqs(S) : \A i, j \in DOMAIN s : i < j => <<s[i], s[j]>> \in R
  BY <1>6
<1>8. \A i, j \in DOMAIN s : i < j => s[i] < s[j]
  <2>1. Enumerates(s, S)
    BY <1>2, SeqsEnumerate
  <2>2. \A i \in DOMAIN s : s[i] \in S
    BY <2>1 DEF Enumerates
  <2> QED BY <1>3, <1>7, <2>2
<1>9. o \in SetToSeqs(S) /\ \A i, j \in DOMAIN o : i < j => o[i] < o[j]
  BY <1>4, <1>8
<1>10. Enumerates(o, S)
  BY <1>2, <1>9, SeqsEnumerate
<1> QED BY <1>1, <1>2, <1>9, <1>10 DEF S, o, Rising

-----------------------------------------------------------------------------
(* keep_latests_meta_data_t_in_list: what one element does to what is kept. *)
Keep(kept, v) ==
    IF kept = <<>> \/ lines[Last(kept)].name # lines[v].name
    THEN Append(kept, v)
    ELSE IF lines[Last(kept)].mtime < lines[v].mtime
         THEN Append(Front(kept), v) ELSE kept

(* What one element does to a list: append, prepend, or keep the latest    *)
(* version.                                                                *)
Adds(how, kept, x) ==
    CASE how = "append"  -> Append(kept, x)
      [] how = "prepend" -> <<x>> \o kept
      [] how = "keep"    -> Keep(kept, x)

(* g[s] is what is made of the places s of l.                              *)
Folds(how, g, l, D) ==
    g = [s \in SUBSET D |->
            IF s = {} THEN <<>> ELSE LET x == Max(s) IN Adds(how, g[s \ {x}], l[x])]

(* The folds of the lists are of these.                                    *)
LEMMA KeepLatestsFolds ==
  ASSUME NEW l
  PROVE  KeepLatests(l) = (LET g == CHOOSE g : Folds("keep", g, l, DOMAIN l) IN g[DOMAIN l])
BY DEF KeepLatests, FoldLeft, MapThenFoldSet, Keep, Adds, Folds

LEMMA AppendFolds ==
  ASSUME NEW l
  PROVE  FoldLeft(Append, <<>>, l) = (LET g == CHOOSE g : Folds("append", g, l, DOMAIN l) IN g[DOMAIN l])
BY DEF FoldLeft, MapThenFoldSet, Adds, Folds

LEMMA PrependFolds ==
  ASSUME NEW l
  PROVE  Prepended(l) = (LET g == CHOOSE g : Folds("prepend", g, l, DOMAIN l) IN g[DOMAIN l])
BY DEF Prepended, FoldLeft, MapThenFoldSet, Adds, Folds

LEMMA MaxFacts ==
  ASSUME NEW n \in Nat
  PROVE  /\ \A s \in SUBSET (1 .. n) : s # {} => Max(s) \in s
         /\ \A s \in SUBSET (1 .. n + 1) : n + 1 \in s => Max(s) = n + 1
<1>1. ASSUME NEW s \in SUBSET (1 .. n), s # {} PROVE Max(s) \in s
  <2>1. s \in SUBSET (0 .. n)
    OBVIOUS
  <2>2. \E m \in s : \A k \in s : k <= m
    BY <1>1, <2>1, Greatest
  <2>3. PICK m \in s : \A k \in s : m >= k
    <3>1. \A k \in s : k \in Nat
      OBVIOUS
    <3> QED BY <2>2, <3>1
  <2> QED BY <2>3 DEF Max
<1>2. ASSUME NEW s \in SUBSET (1 .. n + 1), n + 1 \in s PROVE Max(s) = n + 1
  <2>1. \A k \in s : k \in 1 .. n + 1 /\ n + 1 >= k
    OBVIOUS
  <2>2. \A x \in s : (\A y \in s : x >= y) => x = n + 1
    BY <1>2, <2>1
  <2>3. Max(s) \in s /\ \A y \in s : Max(s) >= y
    BY <1>2, <2>1 DEF Max
  <2> QED BY <2>2, <2>3
<1> QED BY <1>1, <1>2

(* There is such a fold: the places of a list are finitely many.           *)
LEMMA FoldExists ==
  ASSUME NEW how, NEW l, NEW n \in Nat
  PROVE  \E g : Folds(how, g, l, 1 .. n)
<1> DEFINE S == {m \in Nat : \E g : Folds(how, g, l, 1 .. m)}
<1>1. 0 \in S
  <2> DEFINE g == [s \in SUBSET {} |-> <<>>]
  <2>1. g = [s \in SUBSET {} |->
              IF s = {} THEN <<>> ELSE LET x == Max(s) IN Adds(how, g[s \ {x}], l[x])]
    OBVIOUS
  <2>2. 1 .. 0 = {}
    OBVIOUS
  <2>3. Folds(how, g, l, 1 .. 0)
    BY <2>1, <2>2 DEF Folds
  <2> QED BY <2>3
<1>2. ASSUME NEW m \in S PROVE m + 1 \in S
  <2>1. m \in Nat
    OBVIOUS
  <2>2. PICK g : Folds(how, g, l, 1 .. m)
    OBVIOUS
  <2> DEFINE E == SUBSET (1 .. m)
             D == SUBSET (1 .. m + 1)
             h == [s \in D |-> IF m + 1 \in s THEN Adds(how, g[s \ {m + 1}], l[m + 1]) ELSE g[s]]
             k == [s \in D |-> IF s = {} THEN <<>> ELSE Adds(how, h[s \ {Max(s)}], l[Max(s)])]
  <2>3. \A s \in E : g[s] = IF s = {} THEN <<>> ELSE Adds(how, g[s \ {Max(s)}], l[Max(s)])
    BY <2>2 DEF Folds
  <2>4. \A s \in E : s \in D /\ h[s] = g[s]
    BY <2>1
  <2>5. ASSUME NEW s \in D PROVE h[s] = IF s = {} THEN <<>> ELSE Adds(how, h[s \ {Max(s)}], l[Max(s)])
    <3>1. CASE m + 1 \in s
      <4>1. Max(s) = m + 1
        BY <2>1, <3>1, MaxFacts
      <4>2. s \ {m + 1} \in E
        BY <2>1
      <4>3. h[s] = Adds(how, g[s \ {m + 1}], l[m + 1])
        BY <3>1
      <4>4. h[s \ {m + 1}] = g[s \ {m + 1}]
        BY <2>4, <4>2
      <4> HIDE DEF h
      <4> QED BY <3>1, <4>1, <4>3, <4>4
    <3>2. CASE m + 1 \notin s
      <4>1. s \in E
        BY <2>1, <3>2
      <4>2. h[s] = g[s]
        BY <2>4, <4>1
      <4>3. CASE s = {}
        BY <2>3, <4>1, <4>2, <4>3
      <4>4. CASE s # {}
        <5>1. Max(s) \in s
          BY <2>1, <4>1, <4>4, MaxFacts
        <5>2. s \ {Max(s)} \in E
          BY <4>1
        <5>3. h[s \ {Max(s)}] = g[s \ {Max(s)}]
          BY <2>4, <5>2
        <5> HIDE DEF h
        <5> QED BY <2>3, <4>1, <4>2, <4>4, <5>3
      <4> QED BY <4>3, <4>4
    <3> QED BY <3>1, <3>2
  <2>6. DOMAIN h = D
    OBVIOUS
  <2>7. h = k
    <3>1. \A s \in D : h[s] = k[s]
      <4> HIDE DEF h, D
      <4> QED BY <2>5
    <3>2. h = [s \in D |-> h[s]]
      OBVIOUS
    <3>3. k = [s \in D |-> k[s]]
      OBVIOUS
    <3> HIDE DEF h, k, D
    <3> QED BY <3>1, <3>2, <3>3
  <2>8. Folds(how, h, l, 1 .. m + 1)
    <3> HIDE DEF h
    <3> QED BY <2>7 DEF Folds
  <2> HIDE DEF h
  <2> QED BY <2>1, <2>8
<1> HIDE DEF S
<1>3. Nat \subseteq S
  BY <1>1, <1>2, Induction
<1> QED BY <1>3 DEF S

(* What the list is after each place.                                      *)
Stages(kept, how, l, n) ==
    /\ kept[0] = <<>>
    /\ \A i \in 1 .. n : kept[i] = Adds(how, kept[i - 1], l[i])

LEMMA FoldSteps ==
  ASSUME NEW how, NEW l, NEW n \in Nat, NEW g, Folds(how, g, l, 1 .. n)
  PROVE  \E kept : Stages(kept, how, l, n) /\ kept[n] = g[1 .. n]
<1> DEFINE kept == [i \in 0 .. n |-> g[1 .. i]]
<1>4. \A s \in SUBSET (1 .. n) : g[s] = IF s = {} THEN <<>> ELSE Adds(how, g[s \ {Max(s)}], l[Max(s)])
  BY DEF Folds
<1>5. kept[0] = <<>>
  <2>1. 1 .. 0 = {} /\ 0 \in 0 .. n
    OBVIOUS
  <2> QED BY <1>4, <2>1
<1>6. ASSUME NEW i \in 1 .. n PROVE kept[i] = Adds(how, kept[i - 1], l[i])
  <2>1. /\ i \in 0 .. n /\ i - 1 \in 0 .. n /\ i - 1 \in Nat
        /\ 1 .. i \in SUBSET (1 .. n) /\ 1 .. i # {} /\ i \in 1 .. i
        /\ (1 .. i) \ {i} = 1 .. i - 1
    OBVIOUS
  <2>2. PICK m \in Nat : m + 1 = i
    BY <2>1
  <2>3. Max(1 .. i) = i
    <3>1. 1 .. m + 1 \in SUBSET (1 .. m + 1) /\ m + 1 \in 1 .. m + 1
      OBVIOUS
    <3>2. Max(1 .. m + 1) = m + 1
      BY <3>1, MaxFacts
    <3> QED BY <2>2, <3>2
  <2>4. g[1 .. i] = Adds(how, g[(1 .. i) \ {Max(1 .. i)}], l[Max(1 .. i)])
    <3> PICK s : s = 1 .. i
      OBVIOUS
    <3>1. s \in SUBSET (1 .. n) /\ s # {}
      BY <2>1
    <3>2. g[s] = IF s = {} THEN <<>> ELSE Adds(how, g[s \ {Max(s)}], l[Max(s)])
      BY <1>4, <3>1
    <3>3. g[s] = Adds(how, g[s \ {Max(s)}], l[Max(s)])
      BY <3>1, <3>2
    <3> QED BY <3>3
  <2>5. kept[i] = g[1 .. i] /\ kept[i - 1] = g[1 .. i - 1]
    BY <2>1
  <2> HIDE DEF kept
  <2>6. kept[i] = Adds(how, g[1 .. i - 1], l[i])
    BY <2>1, <2>3, <2>4, <2>5
  <2> QED BY <2>5, <2>6
<1>7. kept[n] = g[1 .. n]
  OBVIOUS
<1> HIDE DEF kept
<1> QED BY <1>5, <1>6, <1>7 DEF Stages

(* What is kept after each place.                                          *)
LEMMA KeepLatestsSteps ==
  ASSUME NEW l, NEW n \in Nat, DOMAIN l = 1 .. n
  PROVE  \E kept : /\ kept[0] = <<>>
                   /\ \A i \in 1 .. n : kept[i] = Keep(kept[i - 1], l[i])
                   /\ kept[n] = KeepLatests(l)
<1>h. PICK how : how = "keep"
  OBVIOUS
<1>1. PICK g : g = CHOOSE f : Folds(how, f, l, 1 .. n)
  OBVIOUS
<1>2. Folds(how, g, l, 1 .. n)
  BY <1>1, FoldExists
<1>3. KeepLatests(l) = g[1 .. n]
  BY <1>1, <1>h, KeepLatestsFolds
<1>4. PICK kept : Stages(kept, how, l, n) /\ kept[n] = g[1 .. n]
  BY <1>2, FoldSteps
<1>5. kept[0] = <<>> /\ \A i \in 1 .. n : kept[i] = Keep(kept[i - 1], l[i])
  BY <1>4, <1>h DEF Stages, Adds
<1> QED BY <1>3, <1>4, <1>5

(* The latest versions among the first i of the list.                      *)
Tops(l, i) == Latest({l[k] : k \in 1 .. i})

LEMMA LaterVersionOrders ==
  ASSUME LinesOK
  PROVE  /\ \A v, w \in DOMAIN lines :
              lines[v].name = lines[w].name =>
                v = w \/ LaterVersion(v, w) \/ LaterVersion(w, v)
         /\ \A v, w \in DOMAIN lines : LaterVersion(v, w) => ~LaterVersion(w, v) /\ v # w
<1>1. \A v \in DOMAIN lines :
        v \in Nat /\ lines[v].name \in Nat /\ lines[v].mtime \in Nat
  BY LineFacts
<1>2. ASSUME NEW v \in DOMAIN lines, NEW w \in DOMAIN lines
      PROVE  /\ lines[v].name = lines[w].name =>
                  v = w \/ LaterVersion(v, w) \/ LaterVersion(w, v)
             /\ LaterVersion(v, w) => ~LaterVersion(w, v) /\ v # w
  <2>1. /\ v \in Nat /\ lines[v].name \in Nat /\ lines[v].mtime \in Nat
        /\ w \in Nat /\ lines[w].name \in Nat /\ lines[w].mtime \in Nat
    BY <1>1
  <2> QED BY <2>1 DEF LaterVersion
<1> QED BY <1>2

(* One place of an ascending, falling list: every earlier element with the *)
(* same name is at the same date and later saved, or is older.             *)
LEMMA EarlierIsOlder ==
  ASSUME LinesOK, NEW l, NEW n \in Nat, DOMAIN l = 1 .. n, l \in [1 .. n -> DOMAIN lines],
         Ascending(l), Falling(l),
         NEW i \in 1 .. n, NEW k \in 1 .. n, k < i
  PROVE  /\ lines[l[k]].name <= lines[l[i]].name
         /\ lines[l[k]].name = lines[l[i]].name =>
              \/ lines[l[k]].mtime < lines[l[i]].mtime
              \/ lines[l[k]].mtime = lines[l[i]].mtime /\ l[k] > l[i]
<1>1. /\ l[i] \in DOMAIN lines /\ l[k] \in DOMAIN lines
      /\ lines[l[i]].name \in Nat /\ lines[l[i]].mtime \in Nat
      /\ lines[l[k]].name \in Nat /\ lines[l[k]].mtime \in Nat
  BY LineFacts
<1>2. ~ComesBefore(l[i], l[k])
  BY DEF Ascending
<1>3. SameKey(l[k], l[i]) => l[k] > l[i]
  BY DEF Falling
<1> QED BY <1>1, <1>2, <1>3 DEF ComesBefore, SameKey

(* What is kept after i places is the latest versions of each name among   *)
(* them, the last of which has the name of the i-th.                       *)
KeptOK(l, kept, i) ==
    /\ Enumerates(kept, Tops(l, i))
    /\ i > 0 => kept # <<>> /\ lines[Last(kept)].name = lines[l[i]].name

LEMMA AppendEnumerates ==
  ASSUME NEW M, NEW s, Enumerates(s, M), NEW v, v \notin M
  PROVE  Enumerates(Append(s, v), M \cup {v}) /\ Append(s, v) # <<>> /\ Last(Append(s, v)) = v
<1> PICK a : a = Append(s, v)
  OBVIOUS
<1>1. /\ Len(s) \in Nat /\ s \in Seq(M) /\ s \in [1 .. Len(s) -> M]
      /\ \A i, j \in 1 .. Len(s) : s[i] = s[j] => i = j
      /\ \A w \in M : \E i \in 1 .. Len(s) : s[i] = w
  BY ONLY Enumerates(s, M), EnumeratesFacts, SMTT(30)
<1>2. s \in Seq(M \cup {v})
  BY <1>1
<1>3. /\ a \in Seq(M \cup {v}) /\ Len(a) = Len(s) + 1
      /\ \A i \in 1 .. Len(s) : a[i] = s[i]
      /\ a[Len(s) + 1] = v
  BY <1>2, AppendProperties
<1>4. \A i \in 1 .. Len(s) : a[i] \in M
  BY <1>1, <1>3
<1>5. ASSUME NEW i \in 1 .. Len(a), NEW j \in 1 .. Len(a), a[i] = a[j] PROVE i = j
  <2>1. i \in 1 .. Len(s) \/ i = Len(s) + 1
    BY <1>1, <1>3
  <2>2. j \in 1 .. Len(s) \/ j = Len(s) + 1
    BY <1>1, <1>3
  <2>3. CASE i \in 1 .. Len(s) /\ j \in 1 .. Len(s)
    BY <1>1, <1>3, <1>5, <2>3
  <2> QED BY <1>3, <1>4, <1>5, <2>1, <2>2, <2>3
<1>6. ASSUME NEW w \in M \cup {v} PROVE \E i \in 1 .. Len(a) : a[i] = w
  <2>1. CASE w = v
    <3>1. Len(s) + 1 \in 1 .. Len(a)
      BY <1>1, <1>3
    <3> QED BY <1>3, <2>1, <3>1
  <2>2. CASE w \in M
    <3>1. PICK i \in 1 .. Len(s) : s[i] = w
      BY <1>1, <2>2
    <3>2. i \in 1 .. Len(a) /\ a[i] = w
      BY <1>1, <1>3, <3>1
    <3> QED BY <3>2
  <2> QED BY <2>1, <2>2
<1>7. Enumerates(a, M \cup {v})
  <2> PICK N : N = M \cup {v}
    OBVIOUS
  <2>1. a \in Seq(N) /\ \A w \in N : \E i \in 1 .. Len(a) : a[i] = w
    BY <1>3, <1>6
  <2>2. \A i, j \in 1 .. Len(a) : a[i] = a[j] => i = j
    BY <1>5
  <2>3. Enumerates(a, N)
    BY ONLY <2>1, <2>2, EnumeratesIf
  <2> QED BY <2>3
<1>8. a # <<>> /\ Last(a) = v
  BY <1>1, <1>3 DEF Last
<1> QED BY <1>7, <1>8

LEMMA FrontEnumerates ==
  ASSUME NEW M, NEW s, Enumerates(s, M), s # <<>>
  PROVE  Last(s) \in M /\ Enumerates(Front(s), M \ {Last(s)})
<1> PICK a : a = Front(s)
  OBVIOUS
<1> PICK n : n = Len(s) - 1
  OBVIOUS
<1>1. /\ Len(s) \in Nat /\ s \in Seq(M) /\ s \in [1 .. Len(s) -> M]
      /\ \A i, j \in 1 .. Len(s) : s[i] = s[j] => i = j
      /\ \A w \in M : \E i \in 1 .. Len(s) : s[i] = w
  BY ONLY Enumerates(s, M), EnumeratesFacts, SMTT(30)
<1>2. Len(s) = n + 1 /\ n \in Nat
  BY <1>1, EmptySeq
<1>3. a = [i \in 1 .. n |-> s[i]]
  BY <1>1, <1>2 DEF Front
<1>4. Last(s) = s[n + 1] /\ n + 1 \in 1 .. Len(s)
  BY <1>2 DEF Last
<1>5. \A i \in 1 .. n : a[i] = s[i] /\ s[i] \in M /\ s[i] # Last(s)
  BY <1>1, <1>2, <1>3, <1>4
<1>6. a \in Seq(M \ {Last(s)}) /\ Len(a) = n
  BY <1>2, <1>3, <1>5
<1>7. \A i, j \in 1 .. Len(a) : a[i] = a[j] => i = j
  BY <1>1, <1>2, <1>5, <1>6
<1>8. ASSUME NEW w \in M \ {Last(s)} PROVE \E i \in 1 .. Len(a) : a[i] = w
  <2>1. PICK i \in 1 .. Len(s) : s[i] = w
    BY <1>1
  <2>2. i \in 1 .. n
    BY <1>2, <1>4, <2>1
  <2> QED BY <1>5, <1>6, <2>1, <2>2
<1>9. Enumerates(a, M \ {Last(s)})
  <2> PICK N : N = M \ {Last(s)}
    OBVIOUS
  <2>1. a \in Seq(N) /\ \A w \in N : \E i \in 1 .. Len(a) : a[i] = w
    BY <1>6, <1>8
  <2>2. Enumerates(a, N)
    BY <2>1, <1>7, EnumeratesIf
  <2> QED BY <2>2
<1> QED BY <1>1, <1>4, <1>9

LEMMA KeepKeeps ==
  ASSUME LinesOK, NEW l, NEW n \in Nat, DOMAIN l = 1 .. n, l \in [1 .. n -> DOMAIN lines],
         \A i, j \in 1 .. n : l[i] = l[j] => i = j,
         Ascending(l), Falling(l),
         NEW i \in 1 .. n, NEW kept, KeptOK(l, kept, i - 1)
  PROVE  KeptOK(l, Keep(kept, l[i]), i)
<1> DEFINE v == l[i]
           old == {l[k] : k \in 1 .. i - 1}
           new == {l[k] : k \in 1 .. i}
<1>1. /\ i \in Nat /\ i > 0 /\ 1 .. i - 1 \subseteq 1 .. n /\ i - 1 \in Nat
      /\ \A k \in 1 .. i - 1 : k \in 1 .. n /\ k < i
  OBVIOUS
<1>2. /\ new = old \cup {v} /\ v \notin old /\ old \subseteq DOMAIN lines /\ v \in DOMAIN lines
  <2>1. 1 .. i = (1 .. i - 1) \cup {i}
    OBVIOUS
  <2> QED BY <1>1, <2>1
<1>3. \A w \in DOMAIN lines :
        w \in Nat /\ lines[w].name \in Nat /\ lines[w].mtime \in Nat
  BY LineFacts
<1>4. \A w \in old :
        /\ lines[w].name <= lines[v].name
        /\ lines[w].name = lines[v].name =>
              \/ lines[w].mtime < lines[v].mtime
              \/ lines[w].mtime = lines[v].mtime /\ w > v
  <2> SUFFICES ASSUME NEW k \in 1 .. i - 1
               PROVE  /\ lines[l[k]].name <= lines[v].name
                      /\ lines[l[k]].name = lines[v].name =>
                           \/ lines[l[k]].mtime < lines[v].mtime
                           \/ lines[l[k]].mtime = lines[v].mtime /\ l[k] > v
    OBVIOUS
  <2>1. k \in 1 .. n /\ k < i
    BY <1>1
  <2> QED BY <2>1, EarlierIsOlder
<1>5. Enumerates(kept, Latest(old))
  BY DEF KeptOK, Tops
<1>6. i - 1 > 0 => kept # <<>> /\ lines[Last(kept)].name = lines[l[i - 1]].name
  BY DEF KeptOK
<1>7. kept = <<>> <=> old = {}
  <2>1. kept = <<>> <=> Latest(old) = {}
    <3> PICK T : T = Latest(old)
      OBVIOUS
    <3>1. Enumerates(kept, T)
      BY <1>5
    <3>2. kept = <<>> <=> T = {}
      BY <3>1, EnumeratesNothing
    <3> QED BY <3>2
  <2>2. old = {} => Latest(old) = {}
    BY DEF Latest
  <2>3. old # {} => i - 1 > 0
    BY <1>1
  <2> QED BY <1>6, <2>1, <2>2, <2>3
<1>8. kept # <<>> => Last(kept) \in Latest(old) /\ Enumerates(Front(kept), Latest(old) \ {Last(kept)})
  BY <1>5, FrontEnumerates
<1>9. Latest(old) \subseteq old
  BY DEF Latest
<1>10. \A w \in old : w # v
  BY <1>2
(* All names are before that of v when the last is another.                *)
<1>11. ASSUME kept # <<>>, lines[Last(kept)].name # lines[v].name
       PROVE  \A w \in old : lines[w].name # lines[v].name
  <2>1. i - 1 > 0 /\ lines[l[i - 1]].name # lines[v].name
    <3>1. i - 1 > 0
      BY <1>1, <1>7, <1>11
    <3> QED BY <1>6, <1>11, <3>1
  <2>2. l[i - 1] \in old /\ i - 1 \in 1 .. n
    BY <1>1, <2>1
  <2>3. lines[l[i - 1]].name < lines[v].name
    BY <1>2, <1>3, <1>4, <2>1, <2>2
  <2>4. ASSUME NEW k \in 1 .. i - 1 PROVE lines[l[k]].name < lines[v].name
    <3>1. k \in 1 .. n /\ (k = i - 1 \/ k < i - 1)
      BY <1>1
    <3>2. lines[l[k]].name <= lines[l[i - 1]].name
      <4>1. CASE k = i - 1
        BY <1>2, <1>3, <2>2, <4>1
      <4>2. CASE k < i - 1
        BY <2>2, <3>1, <4>2, EarlierIsOlder
      <4> QED BY <3>1, <4>1, <4>2
    <3>3. lines[l[k]].name \in Nat /\ lines[l[i - 1]].name \in Nat /\ lines[v].name \in Nat
      BY <1>2, <1>3, <2>2, <3>1
    <3> QED BY <2>3, <3>2, <3>3
  <2>5. \A w \in old : lines[w].name < lines[v].name
    BY <2>4
  <2> HIDE DEF old, v
  <2>6. \A w \in old : lines[w].name \in Nat /\ lines[v].name \in Nat
    BY <1>2, <1>3
  <2> QED BY <2>5, <2>6
<1> HIDE DEF old, new, v
<1>12. CASE kept = <<>> \/ lines[Last(kept)].name # lines[v].name
  <2>1. \A w \in old : lines[w].name # lines[v].name
    BY <1>7, <1>11, <1>12
  <2>2. Latest(new) = Latest(old) \cup {v}
    <3>1. \A w \in old : ~LaterVersion(w, v) /\ ~LaterVersion(v, w)
      BY <2>1 DEF LaterVersion
    <3>2. ~LaterVersion(v, v)
      BY <1>2, LaterVersionOrders
    <3> QED BY <1>2, <3>1, <3>2 DEF Latest
  <2>3. Keep(kept, v) = Append(kept, v)
    BY <1>12 DEF Keep
  <2>4. v \notin Latest(old)
    BY <1>2, <1>9
  <2>5. Enumerates(Append(kept, v), Latest(old) \cup {v}) /\ Append(kept, v) # <<>>
        /\ Last(Append(kept, v)) = v
    BY <1>5, <2>4, AppendEnumerates
  <2> QED BY <2>2, <2>3, <2>5 DEF KeptOK, Tops, new, v
<1>13. CASE kept # <<>> /\ lines[Last(kept)].name = lines[v].name
  <2> PICK u : u = Last(kept)
    OBVIOUS
  <2>1. u \in Latest(old) /\ u \in old /\ lines[u].name = lines[v].name
        /\ Enumerates(Front(kept), Latest(old) \ {u})
    BY <1>8, <1>9, <1>13
  <2>2. ASSUME NEW w \in Latest(old), lines[w].name = lines[v].name PROVE w = u
    <3>1. ~LaterVersion(w, u) /\ ~LaterVersion(u, w) /\ w \in DOMAIN lines /\ u \in DOMAIN lines
      BY <1>2, <1>9, <2>1 DEF Latest
    <3> QED BY <2>1, <2>2, <3>1, LaterVersionOrders
  <2>3. CASE lines[u].mtime < lines[v].mtime
    <3>1. Keep(kept, v) = Append(Front(kept), v)
      BY <1>13, <2>3 DEF Keep
    <3>2. ASSUME NEW w \in old, lines[w].name = lines[v].name
          PROVE  LaterVersion(v, w) /\ ~LaterVersion(w, v)
      <4>1. ~LaterVersion(w, u) /\ lines[w].name = lines[u].name
        BY <2>1, <3>2 DEF Latest
      <4>2. lines[w].mtime \in Nat /\ lines[u].mtime \in Nat /\ lines[v].mtime \in Nat
        BY <1>2, <1>3, <2>1
      <4>3. lines[w].mtime < lines[v].mtime
        BY <2>3, <4>1, <4>2 DEF LaterVersion
      <4> QED BY <3>2, <4>2, <4>3 DEF LaterVersion
    <3>3. \A w \in old : lines[w].name # lines[v].name =>
            ~LaterVersion(v, w) /\ ~LaterVersion(w, v)
      BY DEF LaterVersion
    <3>4. ~LaterVersion(v, v)
      BY <1>2, LaterVersionOrders
    <3>5. Latest(new) = (Latest(old) \ {u}) \cup {v}
      <4>1. v \in Latest(new)
        BY <1>2, <3>2, <3>3, <3>4 DEF Latest
      <4>2. \A w \in Latest(old) \ {u} : w \in Latest(new)
        BY <1>2, <1>9, <2>2, <3>3 DEF Latest
      <4>3. \A w \in Latest(new) : w = v \/ w \in Latest(old) \ {u}
        BY <1>2, <2>1, <3>2 DEF Latest
      <4> QED BY <4>1, <4>2, <4>3
    <3>6. v \notin Latest(old) \ {u}
      BY <1>2, <1>9
    <3>7. Enumerates(Append(Front(kept), v), (Latest(old) \ {u}) \cup {v})
          /\ Append(Front(kept), v) # <<>> /\ Last(Append(Front(kept), v)) = v
      <4> PICK f : f = Front(kept)
        OBVIOUS
      <4> PICK N : N = Latest(old) \ {u}
        OBVIOUS
      <4>1. Enumerates(f, N) /\ v \notin N
        BY <2>1, <3>6
      <4>2. Enumerates(Append(f, v), N \cup {v}) /\ Append(f, v) # <<>> /\ Last(Append(f, v)) = v
        BY ONLY <4>1, AppendEnumerates
      <4> QED BY <4>2
    <3> QED BY <3>1, <3>5, <3>7 DEF KeptOK, Tops, new, v
  <2>4. CASE ~(lines[u].mtime < lines[v].mtime)
    <3>1. Keep(kept, v) = kept
      BY <1>13, <2>4 DEF Keep
    <3>2. lines[u].mtime = lines[v].mtime /\ u > v
      BY <1>4, <2>1, <2>4
    <3>3. LaterVersion(u, v)
      BY <2>1, <3>2 DEF LaterVersion
    <3>4. \A w \in Latest(old) : ~LaterVersion(v, w)
      <4> SUFFICES ASSUME NEW w \in Latest(old), LaterVersion(v, w) PROVE FALSE
        OBVIOUS
      <4>1. w = u
        BY <2>2 DEF LaterVersion
      <4> QED BY <1>2, <2>1, <3>3, <4>1, LaterVersionOrders
    <3>5. Latest(new) = Latest(old)
      <4>1. v \notin Latest(new)
        BY <1>2, <2>1, <3>3 DEF Latest
      <4>2. \A w \in Latest(old) : w \in Latest(new)
        BY <1>2, <3>4 DEF Latest
      <4>3. \A w \in Latest(new) : w \in Latest(old)
        BY <1>2, <4>1 DEF Latest
      <4> QED BY <4>2, <4>3
    <3> QED BY <1>5, <1>13, <3>1, <3>5 DEF KeptOK, Tops, new, v
  <2> QED BY <2>3, <2>4
<1> QED BY <1>12, <1>13 DEF v

LEMMA KeepLatestsKeeps ==
  ASSUME LinesOK, NEW M \in SUBSET DOMAIN lines, NEW l, Enumerates(l, M),
         Ascending(l), Falling(l)
  PROVE  Enumerates(KeepLatests(l), Latest(M))
<1> DEFINE n == Len(l)
<1>1. /\ n \in Nat /\ DOMAIN l = 1 .. n /\ l \in [1 .. n -> M]
      /\ \A i, j \in 1 .. n : l[i] = l[j] => i = j
      /\ \A v \in M : \E i \in 1 .. n : l[i] = v
  BY EnumeratesFacts
<1>2. l \in [1 .. n -> DOMAIN lines]
  BY <1>1
<1>3. PICK kept : /\ kept[0] = <<>>
                  /\ \A i \in 1 .. n : kept[i] = Keep(kept[i - 1], l[i])
                  /\ kept[n] = KeepLatests(l)
  BY <1>1, KeepLatestsSteps
<1> HIDE DEF n
<1> DEFINE S == {i \in Nat : i <= n => KeptOK(l, kept[i], i)}
<1>4. 0 \in S
  <2>1. {l[k] : k \in 1 .. 0} = {}
    OBVIOUS
  <2>2. Tops(l, 0) = {}
    BY <2>1 DEF Tops, Latest
  <2>3. Enumerates(<<>>, {})
    BY DEF Enumerates, IsInjective, ToSet
  <2>4. KeptOK(l, <<>>, 0)
    <3>1. ~(0 > 0)
      OBVIOUS
    <3> PICK T : T = Tops(l, 0)
      OBVIOUS
    <3>2. Enumerates(<<>>, T)
      BY <2>2, <2>3
    <3> QED BY <3>1, <3>2 DEF KeptOK
  <2> QED BY <1>3, <2>4
<1>5. ASSUME NEW i \in S PROVE i + 1 \in S
  <2>1. i \in Nat /\ i + 1 \in Nat
    OBVIOUS
  <2> SUFFICES ASSUME i + 1 <= n PROVE KeptOK(l, kept[i + 1], i + 1)
    BY <2>1
  <2>2. KeptOK(l, kept[i], i) /\ i + 1 \in 1 .. n /\ (i + 1) - 1 = i
    BY <1>1, <2>1
  <2>3. kept[i + 1] = Keep(kept[i], l[i + 1])
    BY <1>3, <2>2
  <2> HIDE DEF S
  <2>4. KeptOK(l, kept[i], (i + 1) - 1)
    BY <2>2
  <2>5. KeptOK(l, Keep(kept[i], l[i + 1]), i + 1)
    BY <1>1, <1>2, <2>2, <2>4, KeepKeeps
  <2> QED BY <2>3, <2>5
<1> HIDE DEF S
<1>6. n \in S
  BY <1>1, <1>4, <1>5, Induction
<1>7. KeptOK(l, KeepLatests(l), n)
  BY <1>1, <1>3, <1>6 DEF S
<1>8. {l[k] : k \in 1 .. n} = M
  BY <1>1
<1> QED BY <1>7, <1>8 DEF KeptOK, Tops

-----------------------------------------------------------------------------
(* The files that the program has from the server.                         *)
LEMMA LastIsLatest ==
  ASSUME LinesOK, NEW M \in SUBSET DOMAIN lines, NEW l, Enumerates(l, M),
         Ascending(l), Rising(l), l # <<>>
  PROVE  Last(l) \in Latest(M)
<1> PICK n : n = Len(l)
  OBVIOUS
<1>1. /\ n \in Nat /\ DOMAIN l = 1 .. n /\ l \in [1 .. n -> M]
      /\ \A v \in M : \E i \in 1 .. n : l[i] = v
  BY EnumeratesFacts
<1>2. n # 0
  BY EmptySeq DEF Enumerates
<1>3. n \in 1 .. n /\ Last(l) = l[n] /\ l[n] \in M
  BY <1>1, <1>2 DEF Last
<1>4. ASSUME NEW w \in M, LaterVersion(w, l[n]) PROVE FALSE
  <2>1. PICK i \in 1 .. n : l[i] = w
    BY <1>1
  <2>2. i # n
    BY <1>3, <1>4, <2>1, LaterVersionOrders
  <2>3. i < n
    BY <1>1, <2>2
  <2>4. ~ComesBefore(l[n], w) /\ (SameKey(w, l[n]) => w < l[n])
    BY <1>1, <1>3, <2>1, <2>3 DEF Ascending, Rising
  <2>5. /\ w \in Nat /\ lines[w].name \in Nat /\ lines[w].mtime \in Nat
        /\ l[n] \in Nat /\ lines[l[n]].name \in Nat /\ lines[l[n]].mtime \in Nat
    BY <1>3, LineFacts
  <2> QED BY <1>4, <2>4, <2>5 DEF LaterVersion, ComesBefore, SameKey
<1> QED BY <1>3, <1>4 DEF Latest

LEMMA FilesFacts ==
  ASSUME LinesOK, NEW q
  PROVE  /\ Matching(q) \in SUBSET DOMAIN lines
         /\ q.latest => Enumerates(FilesFromServer(q), Latest(Matching(q)))
         /\ ~q.latest => Enumerates(FilesFromServer(q), Matching(q))
         /\ Ascending(FilesFromServer(q))
         /\ FilesFromServer(q) = <<>> => Matching(q) = {}
         /\ FilesFromServer(q) # <<>> => Last(FilesFromServer(q)) \in Latest(Matching(q))
<1> PICK M : M = Matching(q)
  OBVIOUS
<1> PICK o : o = Ordered(Matching(q), <)
  OBVIOUS
<1> PICK s : s = Sorted(Reverse(o))
  OBVIOUS
<1> PICK r : r = Sorted(Reverse(s))
  OBVIOUS
<1>1. M \in SUBSET DOMAIN lines /\ Enumerates(o, M) /\ Rising(o)
  BY MatchingFacts
<1>2. Enumerates(Reverse(o), M) /\ Falling(Reverse(o))
  BY <1>1, ReverseKeeps
<1>3. Enumerates(s, M) /\ Ascending(s) /\ Falling(s)
  BY <1>1, <1>2, SortedKeeps
<1>4. Enumerates(Reverse(s), M) /\ Rising(Reverse(s))
  BY <1>1, <1>3, ReverseKeeps
<1>5. Enumerates(r, M) /\ Ascending(r) /\ Rising(r)
  BY <1>1, <1>4, SortedKeeps
<1>6. r = <<>> <=> M = {}
  BY <1>5, EnumeratesNothing
<1>7. r # <<>> => Last(r) \in Latest(M)
  BY <1>1, <1>5, LastIsLatest
<1>8. CASE ~q.latest
  <2>1. FilesFromServer(q) = r
    BY <1>8 DEF FilesFromServer, ListOfFiles
  <2> QED BY <1>1, <1>5, <1>6, <1>7, <1>8, <2>1
<1>9. CASE q.latest
  <2> PICK k : k = KeepLatests(s)
    OBVIOUS
  <2> PICK L : L = Latest(M)
    OBVIOUS
  <2> PICK f : f = Sorted(Reverse(k))
    OBVIOUS
  <2>1. FilesFromServer(q) = f
    BY <1>9 DEF FilesFromServer, ListOfFiles
  <2>2. L \in SUBSET DOMAIN lines
    BY <1>1 DEF Latest
  <2>3. Enumerates(k, L)
    BY <1>1, <1>3, KeepLatestsKeeps
  <2>4. Enumerates(Reverse(k), L)
    BY <2>2, <2>3, ReverseKeeps
  <2>5. Enumerates(f, L) /\ Ascending(f)
    BY <2>2, <2>4, SortedKeeps
  <2>6. f = <<>> <=> L = {}
    BY <2>5, EnumeratesNothing
  <2>7. f # <<>> => Last(f) \in L
    BY <2>5, FrontEnumerates
  <2>8. L = {} => M = {}
    BY <1>6, <1>7
  <2> QED BY <1>1, <1>9, <2>1, <2>5, <2>6, <2>7, <2>8
<1> QED BY <1>8, <1>9

-----------------------------------------------------------------------------
(* The name of a restored file: none of the directory.                     *)
LEMMA UniqueIsFree ==
  ASSUME IsFiniteSet(DOMAIN dir), NEW v
  PROVE  \E n \in Nat : UniqueFilename(v) = Target(v, n) /\ ~FileExists(Target(v, n))
<1> PICK C : C = Cardinality(DOMAIN dir)
  OBVIOUS
<1>1. C \in Nat
  BY FS_CardinalityType
<1> DEFINE free == {n \in 0 .. C : ~FileExists(Target(v, n))}
<1>2. \A m, n : Target(v, m) = Target(v, n) => m = n
  <2>1. \A n : Target(v, n).number = n
    BY DEF Target
  <2> QED BY <2>1
<1>3. free # {}
  <2> SUFFICES ASSUME \A n \in 0 .. C : Target(v, n) \in DOMAIN dir PROVE FALSE
    BY DEF FileExists
  <2> DEFINE f == [n \in 0 .. C |-> Target(v, n)]
  <2>1. f \in [0 .. C -> DOMAIN dir]
    OBVIOUS
  <2>2. \A m, n \in 0 .. C : f[m] = f[n] => m = n
    BY <1>2
  <2>3. IsFiniteSet(0 .. C) /\ Cardinality(0 .. C) = C + 1
    BY <1>1, FS_Interval
  <2> HIDE DEF f
  <2>4. Cardinality(DOMAIN dir) < Cardinality(0 .. C)
    BY <1>1, <2>3
  <2> PICK D : D = 0 .. C
    OBVIOUS
  <2> PICK E : E = DOMAIN dir
    OBVIOUS
  <2>5. /\ f \in [D -> E] /\ IsFiniteSet(D) /\ IsFiniteSet(E)
        /\ Cardinality(E) < Cardinality(D)
    BY <2>1, <2>3, <2>4
  <2>6. \A m, n \in D : f[m] = f[n] => m = n
    BY <2>2
  <2> QED BY ONLY <2>5, <2>6, FS_PigeonHole
<1>4. free \in SUBSET Nat
  BY <1>1
<1>5. \E n \in free : \A m \in free : n <= m
  BY <1>3, <1>4, Least
<1>6. PICK n : n = CHOOSE m \in free : \A k \in free : m <= k
  OBVIOUS
<1>7. n \in free
  BY <1>5, <1>6
<1>8. UniqueFilename(v) = Target(v, n)
  BY <1>6 DEF UniqueFilename
<1> QED BY <1>4, <1>7, <1>8

-----------------------------------------------------------------------------
(* The strengthening is inductive. What a step leaves alone.               *)
LEMMA TypeFacts ==
  ASSUME IInv
  PROVE  /\ LinesOK
         /\ list \in Seq(DOMAIN lines)
         /\ seen \subseteq DOMAIN lines
         /\ Restored \subseteq DOMAIN lines
<1>1. LinesOK /\ seen \subseteq DOMAIN lines /\ ToSet(list) \subseteq DOMAIN lines
  BY DEF IInv, TypeOK, LinesOK
<1>2. list \in Seq(Nat)
  BY DEF IInv, ListsOK
<1>3. Restored \subseteq seen
  BY DEF IInv, StepsOK
<1>4. list \in Seq(DOMAIN lines)
  <2>1. /\ Len(list) \in Nat /\ DOMAIN list = 1 .. Len(list)
        /\ list = [i \in 1 .. Len(list) |-> list[i]]
    BY <1>2, LenProperties
  <2>2. \A i \in 1 .. Len(list) : list[i] \in DOMAIN lines
    BY <1>1, <2>1 DEF ToSet
  <2> QED BY <2>1, <2>2
<1> QED BY <1>1, <1>3, <1>4

LEMMA VersionsOfHost ==
  ASSUME IInv
  PROVE  \A v \in DOMAIN lines :
            /\ v \in Nat /\ v # User /\ v # Made
            /\ lines[v].mtime \in Time
            /\ SmetaOnScreen(v) \in
                  [type : {"file", "directory", "link"}, date : Time, name : Name]
<1>1. LinesOK
  BY TypeFacts
<1>2. \A v \in DOMAIN lines : v \in Nat \ {0} /\ lines[v].name \in Name /\ lines[v].mtime \in Time
  BY <1>1, LineFacts
<1>3. \A f \in Name : Kind[f] \in {"file", "directory", "link"}
  BY ConstantsAssumption
<1> QED BY <1>2, <1>3 DEF User, Made, SmetaOnScreen

LEMMA HeadAndTail ==
  ASSUME NEW S, NEW l \in Seq(S), l # <<>>
  PROVE  /\ Head(l) \in S /\ Head(l) = l[1] /\ 1 \in DOMAIN l
         /\ Tail(l) \in Seq(S) /\ Len(l) = Len(Tail(l)) + 1 /\ Len(Tail(l)) \in Nat
         /\ \A i \in DOMAIN Tail(l) : i + 1 \in DOMAIN l /\ Tail(l)[i] = l[i + 1]
         /\ ToSet(l) = {Head(l)} \cup ToSet(Tail(l))
         /\ IsInjective(l) => IsInjective(Tail(l)) /\ Head(l) \notin ToSet(Tail(l))
<1> PICK t : t = Tail(l)
  OBVIOUS
<1> PICK n : n = Len(t)
  OBVIOUS
<1>1. /\ Head(l) \in S /\ Head(l) = l[1] /\ 1 \in DOMAIN l
      /\ t \in Seq(S) /\ Len(l) = n + 1 /\ n \in Nat
      /\ DOMAIN t = 1 .. n /\ DOMAIN l = 1 .. n + 1
  BY HeadTailProperties, LenProperties, EmptySeq
<1>2. \A i \in 1 .. n : i + 1 \in DOMAIN l /\ t[i] = l[i + 1]
  BY <1>1, HeadTailProperties
<1>3. ToSet(l) = {Head(l)} \cup ToSet(t)
  <2>1. ASSUME NEW i \in 1 .. n + 1 PROVE l[i] \in {Head(l)} \cup ToSet(t)
    <3>1. CASE i = 1
      BY <1>1, <3>1
    <3>2. CASE i # 1
      <4>1. i - 1 \in 1 .. n /\ (i - 1) + 1 = i
        BY <1>1, <3>2
      <4> QED BY <1>1, <1>2, <4>1 DEF ToSet
    <3> QED BY <3>1, <3>2
  <2> QED BY <1>1, <1>2, <2>1 DEF ToSet
<1>4. ASSUME IsInjective(l) PROVE IsInjective(t) /\ Head(l) \notin ToSet(t)
  <2>1. \A i, j \in 1 .. n + 1 : l[i] = l[j] => i = j
    BY <1>1, <1>4 DEF IsInjective
  <2>2. \A i, j \in 1 .. n : t[i] = t[j] => i = j
    <3> SUFFICES ASSUME NEW i \in 1 .. n, NEW j \in 1 .. n, t[i] = t[j] PROVE i = j
      OBVIOUS
    <3>1. i + 1 \in 1 .. n + 1 /\ j + 1 \in 1 .. n + 1 /\ l[i + 1] = l[j + 1]
      BY <1>1, <1>2
    <3>2. i + 1 = j + 1
      BY <2>1, <3>1
    <3> QED BY <1>1, <3>2
  <2>3. \A i \in 1 .. n : t[i] # l[1]
    <3> SUFFICES ASSUME NEW i \in 1 .. n, t[i] = l[1] PROVE FALSE
      OBVIOUS
    <3>1. i + 1 \in 1 .. n + 1 /\ 1 \in 1 .. n + 1 /\ l[i + 1] = l[1]
      BY <1>1, <1>2
    <3>2. i + 1 = 1
      BY <2>1, <3>1
    <3> QED BY <1>1, <3>2
  <2> QED BY <1>1, <2>2, <2>3 DEF IsInjective, ToSet
<1> QED BY <1>1, <1>2, <1>3, <1>4

LEMMA AscendingOnScreen ==
  ASSUME LinesOK, NEW l \in Seq(DOMAIN lines), Ascending(l)
  PROVE  \A i, j \in DOMAIN l :
            i < j => NotAfter(SmetaOnScreen(l[i]), SmetaOnScreen(l[j]))
<1> SUFFICES ASSUME NEW i \in DOMAIN l, NEW j \in DOMAIN l, i < j
             PROVE  NotAfter(SmetaOnScreen(l[i]), SmetaOnScreen(l[j]))
  OBVIOUS
<1>1. l[i] \in DOMAIN lines /\ l[j] \in DOMAIN lines
  OBVIOUS
<1>2. /\ lines[l[i]].name \in Nat /\ lines[l[i]].mtime \in Nat
      /\ lines[l[j]].name \in Nat /\ lines[l[j]].mtime \in Nat
  BY <1>1, LineFacts
<1>3. ~ComesBefore(l[j], l[i])
  BY DEF Ascending
<1> QED BY <1>2, <1>3 DEF ComesBefore, NotAfter, SmetaOnScreen

(* A list of what was asked for, in order, is what the invariant wants of  *)
(* the beginning of a list of files.                                       *)
Begins ==
    /\ LinesOK
    /\ seen \subseteq DOMAIN lines
    /\ Enumerates(list, Asked)
    /\ Ascending(list)
    /\ Restored = {}
    /\ screen = <<>>

LEMMA BeginsRight == Begins => Restoring /\ Listing
<1> SUFFICES ASSUME Begins PROVE Restoring /\ Listing
  OBVIOUS
<1> PICK A : A = Asked
  OBVIOUS
<1>1. A \subseteq DOMAIN lines
  BY DEF Begins, Asked
<1>2. Enumerates(list, A)
  BY DEF Begins
<1>3. ToSet(list) = A /\ IsInjective(list) /\ list \in Seq(A) /\ list \in Seq(DOMAIN lines)
  BY <1>1, <1>2 DEF Enumerates
<1>4. Len(list) = Cardinality(A) /\ Len(list) \in Nat
  BY <1>2, <1>3, EnumeratesLength
<1>5. Restored = {} /\ screen = <<>> /\ Len(screen) = 0 /\ DOMAIN screen = {} /\ ToSet(screen) = {}
  BY DEF Begins, ToSet
<1>6. \A i, j \in DOMAIN list :
            i < j => NotAfter(SmetaOnScreen(list[i]), SmetaOnScreen(list[j]))
  BY <1>3, AscendingOnScreen DEF Begins
<1>7. Restoring
  BY <1>3, <1>5 DEF Restoring
<1>8. Listing
  BY <1>3, <1>4, <1>5, <1>6 DEF Listing
<1> QED BY <1>7, <1>8

LEMMA BeginsRightNext == Begins' => Restoring' /\ Listing'
<1>1. (Begins => Restoring /\ Listing)'
  BY BeginsRight, PTL
<1> QED BY <1>1

-----------------------------------------------------------------------------
(* A version is saved.                                                     *)
LEMMA StoreSmetaKeeps == ASSUME IInv, StoreSmeta PROVE IInv'
<1>1. /\ LinesOK /\ list \in Seq(DOMAIN lines) /\ seen \subseteq DOMAIN lines
      /\ Restored \subseteq DOMAIN lines /\ ToSet(list) \subseteq DOMAIN lines
  BY TypeFacts DEF IInv, TypeOK
<1>2. /\ UNCHANGED <<dir, step, opt, list, screen, printed, seen, unopened>>
  BY DEF StoreSmeta, programVars
<1>3. PICK f \in Name, t \in Time : lines' = Append(lines, [name |-> f, mtime |-> t])
  BY DEF StoreSmeta
<1>4. /\ LinesOK' /\ DOMAIN lines \subseteq DOMAIN lines'
      /\ \A v \in DOMAIN lines : lines'[v] = lines[v]
  <2>1. [name |-> f, mtime |-> t] \in [name : Name, mtime : Time]
    OBVIOUS
  <2> HIDE DEF Name, Time
  <2> QED BY <1>1, <1>3, <2>1, AppendProperties DEF LinesOK
<1>5. \A v, w \in DOMAIN lines : LaterVersion(v, w)' <=> LaterVersion(v, w)
  BY <1>4 DEF LaterVersion
<1>6. \A v \in DOMAIN lines : SmetaOnScreen(v)' = SmetaOnScreen(v)
  BY <1>4 DEF SmetaOnScreen
<1>7. Asked' = Asked /\ Restored' = Restored /\ Asked \subseteq DOMAIN lines
  BY <1>1, <1>2, <1>5 DEF Asked, Restored
<1>8. \A v \in DOMAIN lines : RestoredOnce(v)' <=> RestoredOnce(v)
  BY <1>2, <1>4 DEF RestoredOnce
<1>9. TypeOK'
  BY <1>1, <1>2, <1>4 DEF IInv, TypeOK, LinesOK
<1>10. ListsOK'
  BY <1>2 DEF IInv, ListsOK
<1>11. StepsOK'
  BY <1>2, <1>7 DEF IInv, StepsOK
<1>12. LatestIsRestored'
  BY <1>1, <1>2, <1>5, <1>7 DEF IInv, LatestIsRestored
<1>13. Restoring'
  BY <1>1, <1>2, <1>7, <1>8 DEF IInv, Restoring, Untroubled
<1>14. Listing'
  <2> SUFFICES ASSUME step \in {"each", "done"}, opt.list, Untroubled
               PROVE  /\ Len(screen) + Len(list) = Cardinality(Asked)
                      /\ ToSet(screen) \cup {SmetaOnScreen(v)' : v \in ToSet(list)} =
                            {SmetaOnScreen(v)' : v \in Asked}
                      /\ \A i, j \in DOMAIN screen : i < j => NotAfter(screen[i], screen[j])
                      /\ \A i \in DOMAIN screen, v \in ToSet(list) :
                            NotAfter(screen[i], SmetaOnScreen(v)')
                      /\ \A i, j \in DOMAIN list :
                            i < j => NotAfter(SmetaOnScreen(list[i])', SmetaOnScreen(list[j])')
    BY <1>2, <1>7 DEF Listing, Untroubled
  <2>1. {SmetaOnScreen(v)' : v \in ToSet(list)} = {SmetaOnScreen(v) : v \in ToSet(list)}
    BY <1>1, <1>6
  <2>2. {SmetaOnScreen(v)' : v \in Asked} = {SmetaOnScreen(v) : v \in Asked}
    BY <1>6, <1>7
  <2>3. \A i \in DOMAIN list : SmetaOnScreen(list[i])' = SmetaOnScreen(list[i])
    <3>1. \A i \in DOMAIN list : list[i] \in DOMAIN lines
      BY <1>1
    <3> QED BY <1>2, <1>4, <3>1 DEF SmetaOnScreen
  <2>4. \A v \in ToSet(list) : SmetaOnScreen(v)' = SmetaOnScreen(v)
    BY <1>1, <1>6
  <2> QED BY <2>1, <2>2, <2>3, <2>4 DEF IInv, Listing
<1> QED BY <1>9, <1>10, <1>11, <1>12, <1>13, <1>14 DEF IInv

-----------------------------------------------------------------------------
(* The first query, and the second one.                                    *)
LEMMA LastOfFacts ==
  ASSUME NEW S, NEW l \in Seq(S)
  PROVE  /\ l = <<>> => LastOf(l) = <<>>
         /\ l # <<>> => /\ LastOf(l) # <<>> /\ LastOf(l) = <<Last(l)>>
                        /\ ToSet(LastOf(l)) = {Last(l)} /\ Last(l) \in S
         /\ LastOf(l) \in Seq(S)
<1>1. CASE l = <<>>
  BY <1>1 DEF LastOf
<1>2. CASE l # <<>>
  <2>1. Len(l) \in DOMAIN l
    BY <1>2, LenProperties, EmptySeq
  <2>2. Last(l) \in S
    BY <2>1 DEF Last
  <2> QED BY <1>2, <2>2 DEF LastOf, ToSet
<1> QED BY <1>1, <1>2

(* What the steps that begin a list have in common.                        *)
LEMMA ListOfFilesTypes ==
  ASSUME IInv, step \in {"idle", "versions"}, UNCHANGED <<lines, dir, screen>>,
         printed' \in BOOLEAN, unopened' \in BOOLEAN,
         opt' \in Option, step' \in {"versions", "each"},
         step' = "versions" => list' # <<>> /\ opt'.mode = "all_versions",
         list' \in Seq(DOMAIN lines), seen' \subseteq DOMAIN lines, ToSet(list') \subseteq seen'
  PROVE  /\ TypeOK' /\ ListsOK' /\ StepsOK'
         /\ Restored' = {} /\ screen' = <<>> /\ LinesOK'
<1>1. LinesOK /\ DOMAIN lines \subseteq Nat
  BY TypeFacts, LineFacts
<1>2. Restored = {} /\ screen = <<>>
  BY DEF IInv, StepsOK
<1>3. Restored' = {} /\ screen' = <<>> /\ LinesOK'
  BY <1>1, <1>2 DEF Restored, LinesOK
<1>4. ToSet(list') \subseteq DOMAIN lines /\ list' \in Seq(Nat)
  BY <1>1 DEF ToSet
<1>5. TypeOK'
  BY <1>2, <1>3, <1>4 DEF IInv, TypeOK
<1>6. ListsOK'
  BY <1>4 DEF IInv, ListsOK
<1>7. StepsOK'
  BY <1>2, <1>3 DEF StepsOK
<1> QED BY <1>3, <1>5, <1>6, <1>7

(* Nothing is claimed of a list that a failure has emptied.                *)
LEMMA NoFilesKeeps ==
  ASSUME IInv, TypeOK', ListsOK', StepsOK', Restored' = {}, list' = <<>>, NoFiles
  PROVE  IInv'
<1>1. ~Untroubled'
  BY DEF NoFiles, Untroubled
<1>2. ToSet(list') = {}
  BY DEF ToSet
<1>3. LatestIsRestored' /\ Restoring' /\ Listing'
  BY <1>1, <1>2 DEF LatestIsRestored, Restoring, Listing
<1> QED BY <1>3 DEF IInv

LEMMA NoFilesTypes ==
  ASSUME IInv, NoFiles PROVE printed' \in BOOLEAN /\ unopened' \in BOOLEAN
BY DEF NoFiles, IInv, TypeOK

LEMMA StartNothingKeeps ==
  ASSUME IInv, step = "idle", NEW q, Start(q, <<>>), NoFiles PROVE IInv'
<1>1. LastOf(<<>>) = <<>>
  BY DEF LastOf
<1>2. PICK o \in Option :
         AllFiles(o, q, <<>>) \/ RestoreLastFile(o, q, <<>>) \/ LastFile(o, q, <<>>)
  BY DEF Start
<1>3. /\ list' = <<>> /\ step' = "each" /\ opt' = o /\ seen' = Matching(q)
      /\ UNCHANGED <<lines, dir, screen>>
  BY <1>1, <1>2 DEF AllFiles, RestoreLastFile, LastFile, GetUserInfos
<1>4. seen' \subseteq DOMAIN lines /\ ToSet(list') \subseteq seen'
  BY <1>3 DEF Matching, ToSet
<1>5. list' \in Seq(DOMAIN lines) /\ opt' \in Option /\ step' # "versions"
  BY <1>3
<1>6. TypeOK' /\ ListsOK' /\ StepsOK' /\ Restored' = {}
  BY <1>3, <1>4, <1>5, ListOfFilesTypes, NoFilesTypes
<1> QED BY <1>3, <1>6, NoFilesKeeps

LEMMA StartKeeps ==
  ASSUME IInv, step = "idle", NEW q, Start(q, FilesFromServer(q)), q.latest \in BOOLEAN,
         UNCHANGED <<printed, unopened>>
  PROVE  IInv'
<1> PICK M : M = Matching(q)
  OBVIOUS
<1> PICK r : r = FilesFromServer(q)
  OBVIOUS
<1> PICK T : T = Latest(M)
  OBVIOUS
<1>0. printed' \in BOOLEAN /\ unopened' \in BOOLEAN
  BY DEF IInv, TypeOK
<1>1. LinesOK
  BY TypeFacts
<1>2. /\ M \in SUBSET DOMAIN lines
      /\ q.latest => Enumerates(r, T)
      /\ ~q.latest => Enumerates(r, M)
      /\ Ascending(r)
      /\ r = <<>> => M = {}
      /\ r # <<>> => Last(r) \in T
  BY <1>1, FilesFacts
<1>3. T \subseteq M /\ \A v \in T : ~\E w \in M : LaterVersion(w, v)
  BY DEF Latest
<1>4. r \in Seq(DOMAIN lines) /\ (q.latest => ToSet(r) = T)
  BY <1>2, <1>3 DEF Enumerates
<1>5. PICK o \in Option : /\ o.latest = q.latest
                          /\ AllFiles(o, q, r) \/ RestoreLastFile(o, q, r) \/ LastFile(o, q, r)
  BY DEF Start
<1>6. /\ opt' = o /\ seen' = M /\ UNCHANGED <<lines, dir, screen>>
      /\ opt' \in Option
  BY <1>5 DEF AllFiles, RestoreLastFile, LastFile, GetUserInfos
<1>7. LastOf(r) \in Seq(DOMAIN lines) /\ (r = <<>> => LastOf(r) = <<>>)
      /\ (r # <<>> => ToSet(LastOf(r)) = {Last(r)} /\ LastOf(r) # <<>>)
  BY <1>4, LastOfFacts
<1>8. /\ list' \in Seq(DOMAIN lines) /\ step' \in {"versions", "each"}
      /\ step' = "versions" => list' # <<>> /\ opt'.mode = "all_versions"
  BY <1>4, <1>5, <1>6, <1>7 DEF AllFiles, RestoreLastFile, LastFile
<1>9. TypeOK' /\ ListsOK' /\ StepsOK' /\ Restored' = {} /\ screen' = <<>> /\ LinesOK'
  <2>1. ToSet(r) \subseteq M
    BY <1>2, <1>3 DEF Enumerates
  <2>2. ToSet(<<>>) = {}
    BY DEF ToSet
  <2>3. ToSet(LastOf(r)) \subseteq M
    BY <1>2, <1>3, <1>7, <2>2
  <2>4. ToSet(list') \subseteq M
    BY <1>5, <2>1, <2>3 DEF AllFiles, RestoreLastFile, LastFile
  <2> QED BY <1>0, <1>2, <1>6, <1>8, <2>4, ListOfFilesTypes
<1>10. \A v, w : LaterVersion(v, w)' <=> LaterVersion(v, w)
  BY <1>6 DEF LaterVersion
<1>11. Asked' = IF opt'.mode # "all_versions" /\ opt'.latest THEN T ELSE M
  <2>1. Asked' = {v \in M : opt'.mode # "all_versions" /\ opt'.latest
                             => ~\E w \in M : LaterVersion(w, v)}
    BY <1>6, <1>10 DEF Asked
  <2>2. T = {v \in M : ~\E w \in M : LaterVersion(w, v)}
    BY DEF Latest
  <2> QED BY <2>1, <2>2
<1>12. \A v \in T : ~\E w \in seen' : LaterVersion(w, v)'
  BY <1>3, <1>6, <1>10
<1>13. CASE AllFiles(o, q, r)
  <2>1. list' = r /\ step' = "each" /\ opt'.mode # "all_versions"
        /\ ~(opt'.mode = "last" /\ ~opt'.list)
    BY <1>6, <1>13 DEF AllFiles
  <2>2. Enumerates(list', Asked')
    BY <1>2, <1>5, <1>6, <1>11, <2>1
  <2>3. Ascending(list)'
    <3>1. \A v, w : ComesBefore(v, w)' <=> ComesBefore(v, w)
      BY <1>6 DEF ComesBefore
    <3> QED BY <1>2, <2>1, <3>1 DEF Ascending
  <2>4. Begins'
    BY <1>2, <1>6, <1>9, <2>2, <2>3 DEF Begins
  <2>5. Restoring' /\ Listing'
    BY <2>4, BeginsRightNext
  <2>6. LatestIsRestored'
    BY <1>4, <1>5, <1>6, <1>9, <1>12, <2>1 DEF LatestIsRestored
  <2> QED BY <1>9, <2>5, <2>6 DEF IInv
<1>14. CASE RestoreLastFile(o, q, r)
  <2>1. list' = LastOf(r) /\ opt'.mode = "last" /\ ~opt'.list
    BY <1>6, <1>14 DEF RestoreLastFile
  <2>2. ToSet(list') \subseteq T
    <3>1. ToSet(<<>>) = {}
      BY DEF ToSet
    <3> QED BY <1>2, <1>7, <2>1, <3>1
  <2>3. LatestIsRestored'
    BY <1>9, <1>12, <2>2 DEF LatestIsRestored
  <2>4. Restoring' /\ Listing'
    BY <2>1 DEF Restoring, Listing
  <2> QED BY <1>9, <2>3, <2>4 DEF IInv
<1>15. CASE LastFile(o, q, r)
  <2>1. /\ list' = LastOf(r) /\ opt'.mode = "all_versions"
        /\ step' = IF list' = <<>> THEN "each" ELSE "versions"
    BY <1>6, <1>15 DEF LastFile
  <2>2. LatestIsRestored'
    BY <2>1 DEF LatestIsRestored
  <2>3. Restoring' /\ Listing'
    <3>1. CASE list' = <<>>
      <4>1. M = {}
        BY <1>2, <1>7, <2>1, <3>1
      <4>2. Asked' = {}
        BY <1>11, <2>1, <4>1
      <4>3. Enumerates(<<>>, {})
        BY DEF Enumerates, IsInjective, ToSet
      <4>4. Ascending(list)'
        BY <3>1 DEF Ascending
      <4>5. Begins'
        BY <1>2, <1>6, <1>9, <3>1, <4>2, <4>3, <4>4 DEF Begins
      <4> QED BY <4>5, BeginsRightNext
    <3>2. CASE list' # <<>>
      BY <2>1, <3>2 DEF Restoring, Listing
    <3> QED BY <3>1, <3>2
  <2> QED BY <1>9, <2>2, <2>3 DEF IInv
<1> QED BY <1>5, <1>13, <1>14, <1>15

LEMMA AllVersionsKeeps == ASSUME IInv, AllVersions PROVE IInv'
<1> PICK q : q = QueryFromFilename(lines[Head(list)].name)
  OBVIOUS
<1> PICK M : M = Matching(q)
  OBVIOUS
<1> PICK r : r = FilesFromServer(q)
  OBVIOUS
<1>1. LinesOK /\ step = "versions"
  BY TypeFacts DEF AllVersions
<1>2. ~q.latest
  BY DEF QueryFromFilename
<1>3. M \in SUBSET DOMAIN lines /\ Enumerates(r, M) /\ Ascending(r)
  BY <1>1, <1>2, FilesFacts
<1>4. /\ seen' = M /\ step' = "each" /\ UNCHANGED <<lines, dir, opt, screen>>
      /\ \/ list' = r /\ UNCHANGED <<printed, unopened>>
         \/ list' = <<>> /\ NoFiles
  BY DEF AllVersions
<1>5. list' \in Seq(DOMAIN lines)
  <2>1. r \in Seq(DOMAIN lines) /\ <<>> \in Seq(DOMAIN lines)
    BY <1>3 DEF Enumerates
  <2> QED BY <1>4, <2>1
<1>0. printed' \in BOOLEAN /\ unopened' \in BOOLEAN
  <2>1. CASE UNCHANGED <<printed, unopened>>
    BY <2>1 DEF IInv, TypeOK
  <2> QED BY <1>4, <2>1, NoFilesTypes
<1>6. opt \in Option /\ opt.mode = "all_versions"
  BY <1>1 DEF IInv, TypeOK, StepsOK
<1>7. TypeOK' /\ ListsOK' /\ StepsOK' /\ Restored' = {} /\ screen' = <<>> /\ LinesOK'
  <2>1. ToSet(list') \subseteq seen'
    BY <1>3, <1>4 DEF Enumerates, ToSet
  <2> QED BY <1>0, <1>1, <1>3, <1>4, <1>5, <1>6, <2>1, ListOfFilesTypes
<1>8. Asked' = M
  BY <1>4, <1>6 DEF Asked
<1>9. LatestIsRestored'
  BY <1>4, <1>6 DEF LatestIsRestored
<1>10. CASE list' = r
  <2>1. Ascending(list)'
    <3>1. \A v, w : ComesBefore(v, w)' <=> ComesBefore(v, w)
      BY <1>4 DEF ComesBefore
    <3> QED BY <1>3, <1>10, <3>1 DEF Ascending
  <2>2. Begins'
    BY <1>3, <1>4, <1>7, <1>8, <1>10, <2>1 DEF Begins
  <2>3. Restoring' /\ Listing'
    BY <2>2, BeginsRightNext
  <2> QED BY <1>7, <1>9, <2>3 DEF IInv
<1>11. CASE list' = <<>> /\ NoFiles
  BY <1>7, <1>11, NoFilesKeeps
<1> QED BY <1>4, <1>10, <1>11

-----------------------------------------------------------------------------
(* A version is listed.                                                    *)
LEMMA PrintSmetaKeeps == ASSUME IInv, PrintSmeta PROVE IInv'
<1> PICK v : v = Head(list)
  OBVIOUS
<1> PICK l : l = Tail(list)
  OBVIOUS
<1> PICK x : x = SmetaOnScreen(v)
  OBVIOUS
<1> DEFINE X == [type : {"file", "directory", "link"}, date : Time, name : Name]
<1>1. /\ LinesOK /\ list \in Seq(DOMAIN lines) /\ list # <<>> /\ opt.list /\ step = "each"
      /\ screen' = Append(screen, x) /\ list' = l
      /\ UNCHANGED <<lines, dir, step, opt, printed, seen, unopened>>
  BY TypeFacts DEF PrintSmeta
<1>2. /\ v \in DOMAIN lines /\ v = list[1] /\ 1 \in DOMAIN list
      /\ l \in Seq(DOMAIN lines) /\ Len(list) = Len(l) + 1 /\ Len(l) \in Nat
      /\ \A i \in DOMAIN l : i + 1 \in DOMAIN list /\ l[i] = list[i + 1]
      /\ ToSet(list) = {v} \cup ToSet(l)
  BY <1>1, HeadAndTail
<1>3. x \in X /\ screen \in Seq(X)
  BY <1>2, VersionsOfHost DEF IInv, ListsOK
<1>4. /\ Len(screen) \in Nat /\ DOMAIN screen = 1 .. Len(screen)
      /\ screen' \in Seq(X) /\ Len(screen') = Len(screen) + 1
      /\ DOMAIN screen' = 1 .. Len(screen) + 1
      /\ \A i \in 1 .. Len(screen) : screen'[i] = screen[i]
      /\ screen'[Len(screen) + 1] = x
  <2> HIDE DEF X
  <2> QED BY <1>1, <1>3, AppendProperties, LenProperties
<1>5. Asked' = Asked /\ Restored' = Restored /\ LinesOK'
  BY <1>1 DEF Asked, Restored, LaterVersion, LinesOK
<1>6. \A w : SmetaOnScreen(w)' = SmetaOnScreen(w)
  BY <1>1 DEF SmetaOnScreen
<1>7. TypeOK'
  BY <1>1, <1>2 DEF IInv, TypeOK
<1>8. ListsOK'
  <2>1. l \in Seq(Nat)
    BY <1>1, <1>2, LineFacts
  <2> QED BY <1>1, <1>4, <2>1 DEF IInv, ListsOK
<1>9. StepsOK'
  BY <1>1, <1>2, <1>5 DEF IInv, StepsOK
<1>10. LatestIsRestored'
  <2>1. \A u, w : LaterVersion(u, w)' <=> LaterVersion(u, w)
    BY <1>1 DEF LaterVersion
  <2> QED BY <1>1, <1>2, <1>5, <2>1 DEF IInv, LatestIsRestored
<1>11. Restoring'
  BY <1>1 DEF Restoring
<1> SUFFICES ASSUME Untroubled PROVE Listing'
  <2>1. ~Untroubled => Listing'
    BY <1>1 DEF Listing, Untroubled
  <2> QED BY <1>7, <1>8, <1>9, <1>10, <1>11, <2>1 DEF IInv
<1>12. /\ Len(screen) + Len(list) = Cardinality(Asked)
       /\ ToSet(screen) \cup {SmetaOnScreen(w) : w \in ToSet(list)} =
              {SmetaOnScreen(w) : w \in Asked}
       /\ \A i, j \in DOMAIN screen : i < j => NotAfter(screen[i], screen[j])
       /\ \A i \in DOMAIN screen, w \in ToSet(list) : NotAfter(screen[i], SmetaOnScreen(w))
       /\ \A i, j \in DOMAIN list :
              i < j => NotAfter(SmetaOnScreen(list[i]), SmetaOnScreen(list[j]))
  BY <1>1 DEF IInv, Listing
<1>13. Len(screen') + Len(list') = Cardinality(Asked)
  BY <1>1, <1>2, <1>4, <1>12
<1>14. ToSet(screen') \cup {SmetaOnScreen(w) : w \in ToSet(list')} =
              {SmetaOnScreen(w) : w \in Asked}
  <2>1. ToSet(screen') = ToSet(screen) \cup {x}
    <3>1. 1 .. Len(screen) + 1 = (1 .. Len(screen)) \cup {Len(screen) + 1}
      BY <1>4
    <3> QED BY <1>4, <3>1 DEF ToSet
  <2>2. {SmetaOnScreen(w) : w \in ToSet(list)} = {x} \cup {SmetaOnScreen(w) : w \in ToSet(l)}
    BY <1>2
  <2> QED BY <1>1, <1>12, <2>1, <2>2
<1>15. \A i, j \in DOMAIN screen' : i < j => NotAfter(screen'[i], screen'[j])
  <2> SUFFICES ASSUME NEW i \in 1 .. Len(screen) + 1, NEW j \in 1 .. Len(screen) + 1, i < j
               PROVE  NotAfter(screen'[i], screen'[j])
    BY <1>4
  <2>0. Len(screen) \in Nat
    BY <1>4
  <2>1. i \in 1 .. Len(screen)
    BY ONLY <2>0, i \in 1 .. Len(screen) + 1, j \in 1 .. Len(screen) + 1, i < j
  <2>2. CASE j \in 1 .. Len(screen)
    BY <1>4, <1>12, <2>1, <2>2
  <2>3. CASE j = Len(screen) + 1
    BY <1>2, <1>4, <1>12, <2>1, <2>3
  <2>4. j \in 1 .. Len(screen) \/ j = Len(screen) + 1
    BY ONLY <2>0, j \in 1 .. Len(screen) + 1
  <2> QED BY <2>2, <2>3, <2>4
<1>16. \A i \in DOMAIN l : NotAfter(x, SmetaOnScreen(l[i]))
  <2> SUFFICES ASSUME NEW i \in DOMAIN l PROVE NotAfter(x, SmetaOnScreen(l[i]))
    OBVIOUS
  <2>1. i + 1 \in DOMAIN list /\ l[i] = list[i + 1] /\ 1 < i + 1
    BY <1>2
  <2> QED BY <1>2, <1>12, <2>1
<1>17. \A i \in DOMAIN screen', w \in ToSet(list') : NotAfter(screen'[i], SmetaOnScreen(w))
  <2> SUFFICES ASSUME NEW i \in 1 .. Len(screen) + 1, NEW w \in ToSet(l)
               PROVE  NotAfter(screen'[i], SmetaOnScreen(w))
    BY <1>1, <1>4
  <2>1. CASE i \in 1 .. Len(screen)
    BY <1>2, <1>4, <1>12, <2>1
  <2>2. CASE i = Len(screen) + 1
    BY <1>4, <1>16, <2>2 DEF ToSet
  <2> QED BY <1>4, <2>1, <2>2
<1>18. \A i, j \in DOMAIN list' :
              i < j => NotAfter(SmetaOnScreen(list'[i]), SmetaOnScreen(list'[j]))
  <2> SUFFICES ASSUME NEW i \in DOMAIN l, NEW j \in DOMAIN l, i < j
               PROVE  NotAfter(SmetaOnScreen(l[i]), SmetaOnScreen(l[j]))
    BY <1>1
  <2>1. /\ i + 1 \in DOMAIN list /\ l[i] = list[i + 1]
        /\ j + 1 \in DOMAIN list /\ l[j] = list[j + 1]
    BY <1>2
  <2>2. i + 1 < j + 1
    BY <1>2
  <2> QED BY <1>12, <2>1, <2>2
<1> QED BY <1>5, <1>6, <1>13, <1>14, <1>15, <1>17, <1>18 DEF Listing

LEMMA EndOfListKeeps == ASSUME IInv, EndOfList PROVE IInv'
<1>1. /\ step = "each" /\ step' = "done" /\ list = <<>>
      /\ UNCHANGED <<lines, dir, opt, list, screen, printed, seen, unopened>>
  BY DEF EndOfList
<1>2. Asked' = Asked /\ Restored' = Restored
  BY <1>1 DEF Asked, Restored, LaterVersion
<1>3. TypeOK' /\ ListsOK' /\ StepsOK'
  BY <1>1, <1>2 DEF IInv, TypeOK, ListsOK, StepsOK
<1>4. LatestIsRestored'
  BY <1>1, <1>2 DEF IInv, LatestIsRestored, LaterVersion
<1>5. Restoring'
  <2>1. \A v : RestoredOnce(v)' <=> RestoredOnce(v)
    BY <1>1 DEF RestoredOnce
  <2> QED BY <1>1, <1>2, <2>1 DEF IInv, Restoring, Untroubled
<1>6. Listing'
  <2>1. \A w : SmetaOnScreen(w)' = SmetaOnScreen(w)
    BY <1>1 DEF SmetaOnScreen
  <2> QED BY <1>1, <1>2, <2>1 DEF IInv, Listing, Untroubled
<1> QED BY <1>3, <1>4, <1>5, <1>6 DEF IInv

-----------------------------------------------------------------------------
(* A version is restored. What is added to the directory: it is restored   *)
(* under a new name, or an error is printed.                               *)
LEMMA AboveFinite == ASSUME NEW t PROVE IsFiniteSet(Above(t))
<1> DEFINE a == [t EXCEPT !.dir = 0, !.base = Base[t.dir]]
           b == [t EXCEPT !.dir = 0, !.base = 0]
<1>1. Above(t) \subseteq {a} \cup {b}
  BY DEF Above
<1> HIDE DEF a, b
<1>2. IsFiniteSet({a} \cup {b})
  BY FS_Singleton, FS_AddElement
<1> QED BY <1>1, <1>2, FS_Subset

RestoredAt(v, t) ==
    /\ t \notin DOMAIN dir
    /\ t \in DOMAIN dir'
    /\ dir'[t].of = v
    /\ dir'[t].mtime = (IF Kind[lines[v].name] = "link" THEN Now ELSE lines[v].mtime)
    /\ \A u \in DOMAIN dir : u \in DOMAIN dir' /\ dir'[u] = dir[u]
    /\ \A u \in DOMAIN dir' \ DOMAIN dir : u # t => dir'[u] = [of |-> Made, mtime |-> Now]
    /\ UNCHANGED printed

NotRestored(v) ==
    /\ printed' = TRUE
    /\ \A u \in DOMAIN dir : /\ u \in DOMAIN dir'
                             /\ dir'[u].of = dir[u].of
                             /\ dir'[u].mtime \in {dir[u].mtime, lines[v].mtime}
    /\ \A u \in DOMAIN dir' \ DOMAIN dir :
          dir'[u].of \in {Made, v} /\ dir'[u].mtime \in {Now, lines[v].mtime}

LEMMA WithDirectoriesFacts ==
  ASSUME IsFiniteSet(DOMAIN dir), \A t \in DOMAIN dir : dir[t] \in [of : Int, mtime : Nat],
         NEW t, NEW A \in SUBSET Above(t)
  PROVE  LET d == WithDirectories(A) IN
           /\ DOMAIN d = DOMAIN dir \cup A
           /\ IsFiniteSet(DOMAIN d)
           /\ \A u \in DOMAIN d : d[u] \in [of : Int, mtime : Nat]
           /\ \A u \in DOMAIN dir : d[u] = dir[u]
           /\ \A u \in DOMAIN d \ DOMAIN dir : d[u] = [of |-> Made, mtime |-> Now]
<1> PICK d : d = WithDirectories(A)
  OBVIOUS
<1>1. d = [u \in DOMAIN dir \cup A |->
            IF u \in DOMAIN dir THEN dir[u] ELSE [of |-> Made, mtime |-> Now]]
  BY DEF WithDirectories
<1>2. IsFiniteSet(DOMAIN dir \cup A)
  BY AboveFinite, FS_Union, FS_Subset
<1>3. [of |-> Made, mtime |-> Now] \in [of : Int, mtime : Nat]
  BY DEF Made, Now
<1>4. /\ DOMAIN d = DOMAIN dir \cup A
      /\ \A u \in DOMAIN dir : d[u] = dir[u]
      /\ \A u \in DOMAIN d \ DOMAIN dir : d[u] = [of |-> Made, mtime |-> Now]
  BY <1>1
<1>5. \A u \in DOMAIN d : d[u] \in [of : Int, mtime : Nat]
  BY <1>3, <1>4
<1> QED BY <1>2, <1>4, <1>5

LEMMA SetFileAttributesFacts ==
  ASSUME NEW entry \in [of : Int, mtime : Nat], NEW v, lines[v].mtime \in Nat
  PROVE  /\ SetFileAttributes(entry, v) \in [of : Int, mtime : Nat]
         /\ SetFileAttributes(entry, v).of = entry.of
         /\ SetFileAttributes(entry, v).mtime = lines[v].mtime
BY DEF SetFileAttributes

LEMMA RestoreOne ==
  ASSUME IInv, CreateFile
  PROVE  /\ IsFiniteSet(DOMAIN dir')
         /\ \A t \in DOMAIN dir' : dir'[t] \in [of : Int, mtime : Nat]
         /\ \/ \E t : RestoredAt(Head(list), t)
            \/ NotRestored(Head(list))
<1> PICK v : v = Head(list)
  OBVIOUS
<1> PICK t : t = UniqueFilename(v)
  OBVIOUS
<1> PICK D : D = DOMAIN dir
  OBVIOUS
<1> PICK d : d = WithDirectories(Above(t))
  OBVIOUS
<1> PICK E : E = [of : Int, mtime : Nat]
  OBVIOUS
<1> PICK m : m = lines[v].mtime
  OBVIOUS
<1> PICK x : x = [of |-> v, mtime |-> Now]
  OBVIOUS
<1>1. LinesOK /\ list \in Seq(DOMAIN lines) /\ list # <<>>
  BY TypeFacts DEF CreateFile
<1>2. v \in DOMAIN lines
  BY <1>1, HeadTailProperties
<1>3. v \in Int /\ m \in Nat
  BY <1>1, <1>2, LineFacts
<1>4. IsFiniteSet(D) /\ \A u \in D : dir[u] \in E
  BY DEF IInv, ListsOK
<1>5. ~FileExists(t)
  BY <1>4, UniqueIsFree
<1>6. /\ D \subseteq DOMAIN d /\ IsFiniteSet(DOMAIN d)
      /\ \A u \in DOMAIN d : d[u] \in E
      /\ \A u \in D : d[u] = dir[u]
      /\ \A u \in DOMAIN d \ D : d[u] = [of |-> Made, mtime |-> Now]
  BY <1>4, WithDirectoriesFacts
<1>7. x \in E /\ x.of = v /\ x.mtime = Now
  BY <1>3 DEF Now
<1>10. \/ Kind[lines[v].name] = "link" /\ MakeSymbolicLink(v, t)
       \/ Kind[lines[v].name] # "link" /\ WriteFile(v, t)
  BY DEF CreateFile
<1>11. CASE Kind[lines[v].name] = "link" /\ MakeSymbolicLink(v, t)
  <2>1. CASE t \notin D /\ dir' = Put(t, x, dir) /\ UNCHANGED printed
    <3>1. dir' = Put(t, x, dir) /\ UNCHANGED printed
      BY <2>1
    <3> PICK e : e = dir'
      OBVIOUS
    <3>4. e = [u \in D \cup {t} |-> IF u = t THEN x ELSE dir[u]]
      BY <3>1 DEF Put
    <3>5. IsFiniteSet(D \cup {t})
      BY <1>4, FS_AddElement
    <3>2. /\ DOMAIN e = D \cup {t} /\ IsFiniteSet(DOMAIN e) /\ \A u \in DOMAIN e : e[u] \in E
          /\ e[t] = x /\ \A u \in D : u # t => e[u] = dir[u]
      BY <1>4, <1>7, <3>4, <3>5
    <3>3. RestoredAt(v, t)
      BY <1>7, <1>11, <2>1, <3>1, <3>2 DEF RestoredAt
    <3> QED BY <3>2, <3>3
  <2>2. CASE printed' = TRUE /\ dir' = dir
    <3>1. NotRestored(v)
      BY <2>2 DEF NotRestored
    <3> QED BY <1>4, <2>2, <3>1
  <2> QED BY <1>11, <2>1, <2>2 DEF MakeSymbolicLink
<1>12. CASE Kind[lines[v].name] # "link" /\ WriteFile(v, t)
  <2> PICK y : y = SetFileAttributes(x, v)
    OBVIOUS
  <2>1. y \in E /\ y.of = v /\ y.mtime = m
    BY <1>3, <1>7, SetFileAttributesFacts
  <2>2. ASSUME NEW z \in E, dir' = Put(t, z, d)
        PROVE  /\ IsFiniteSet(DOMAIN dir') /\ \A u \in DOMAIN dir' : dir'[u] \in E
               /\ DOMAIN dir' = DOMAIN d \cup {t} /\ dir'[t] = z
               /\ \A u \in DOMAIN d : u # t => dir'[u] = d[u]
    <3> PICK e : e = dir'
      OBVIOUS
    <3>1. e = [u \in DOMAIN d \cup {t} |-> IF u = t THEN z ELSE d[u]]
      BY <2>2 DEF Put
    <3>2. IsFiniteSet(DOMAIN d \cup {t})
      BY <1>6, FS_AddElement
    <3> QED BY <1>6, <3>1, <3>2
  <2>3. CASE t \notin D /\ dir' = Put(t, y, d) /\ UNCHANGED printed
    <3>1. RestoredAt(v, t)
      BY <1>6, <1>12, <2>1, <2>2, <2>3 DEF RestoredAt
    <3> QED BY <2>1, <2>2, <2>3, <3>1
  <2>4. ASSUME printed' = TRUE, NEW S \in MadeFirst(t), dir' = WithDirectories(S)
        PROVE  /\ IsFiniteSet(DOMAIN dir') /\ \A u \in DOMAIN dir' : dir'[u] \in E
               /\ NotRestored(v)
    <3>1. S \in SUBSET Above(t)
      BY DEF MadeFirst
    <3>2. /\ D \subseteq DOMAIN dir' /\ IsFiniteSet(DOMAIN dir')
          /\ \A u \in DOMAIN dir' : dir'[u] \in E
          /\ \A u \in D : dir'[u] = dir[u]
          /\ \A u \in DOMAIN dir' \ D : dir'[u] = [of |-> Made, mtime |-> Now]
      BY <1>4, <2>4, <3>1, WithDirectoriesFacts
    <3> QED BY <2>4, <3>2 DEF NotRestored
  <2>5. CASE printed' = TRUE /\ t \in DOMAIN d /\ dir' = Put(t, SetFileAttributes(d[t], v), d)
    <3> PICK w : w = d[t]
      OBVIOUS
    <3> PICK z : z = SetFileAttributes(w, v)
      OBVIOUS
    <3>1. z \in E /\ z.of = w.of /\ z.mtime = m
      BY <1>3, <1>6, <2>5, SetFileAttributesFacts
    <3>2. /\ IsFiniteSet(DOMAIN dir') /\ \A u \in DOMAIN dir' : dir'[u] \in E
          /\ DOMAIN dir' = DOMAIN d \cup {t} /\ dir'[t] = z
          /\ \A u \in DOMAIN d : u # t => dir'[u] = d[u]
      BY <2>2, <2>5, <3>1
    <3>3. DOMAIN dir' = DOMAIN d
      BY <2>5, <3>2
    <3>4. \A u \in D : /\ u \in DOMAIN dir' /\ dir'[u].of = dir[u].of
                       /\ dir'[u].mtime \in {dir[u].mtime, m}
      BY <1>6, <3>1, <3>2, <3>3
    <3>5. \A u \in DOMAIN dir' \ D : dir'[u].of = Made /\ dir'[u].mtime \in {Now, m}
      BY <1>6, <3>1, <3>2, <3>3
    <3>6. NotRestored(v)
      BY <2>5, <3>4, <3>5 DEF NotRestored
    <3> QED BY <3>2, <3>6
  <2>6. CASE printed' = TRUE /\ t \notin D /\ dir' = Put(t, x, d)
    <3>1. NotRestored(v)
      BY <1>6, <1>7, <2>2, <2>6 DEF NotRestored
    <3> QED BY <1>7, <2>2, <2>6, <3>1
  <2> QED BY <1>12, <2>3, <2>4, <2>5, <2>6 DEF WriteFile
<1> QED BY <1>10, <1>11, <1>12

LEMMA CreateFileKeeps == ASSUME IInv, CreateFile PROVE IInv'
<1> PICK v : v = Head(list)
  OBVIOUS
<1> PICK l : l = Tail(list)
  OBVIOUS
<1>1. /\ LinesOK /\ list \in Seq(DOMAIN lines) /\ list # <<>> /\ ~opt.list /\ step = "each"
      /\ step' \in {"each", "aborted"} /\ list' = l
      /\ UNCHANGED <<lines, opt, screen, seen, unopened>>
      /\ Restored \subseteq DOMAIN lines
  BY TypeFacts DEF CreateFile
<1>2. /\ v \in DOMAIN lines /\ l \in Seq(DOMAIN lines) /\ ToSet(list) = {v} \cup ToSet(l)
      /\ IsInjective(list) => IsInjective(l) /\ v \notin ToSet(l)
  BY <1>1, HeadAndTail
<1>3. /\ IsFiniteSet(DOMAIN dir')
      /\ \A t \in DOMAIN dir' : dir'[t] \in [of : Int, mtime : Nat]
      /\ (\E t : RestoredAt(v, t)) \/ NotRestored(v)
  BY RestoreOne
<1>4. v # User /\ v # Made /\ lines[v].mtime \in Time /\ User # Made
  BY <1>2, VersionsOfHost DEF User, Made
<1>5. ToSet(list) \cup Restored \subseteq seen /\ v \in seen /\ ToSet(l) \subseteq ToSet(list)
  BY <1>2 DEF IInv, StepsOK
<1>6. Asked' = Asked
  BY <1>1 DEF Asked, LaterVersion
<1>7. DOMAIN dir \subseteq DOMAIN dir' /\ \A t \in DOMAIN dir : dir'[t].of = dir[t].of
  BY <1>3 DEF RestoredAt, NotRestored
<1>8. ASSUME NEW t, RestoredAt(v, t)
      PROVE  /\ Restored' = Restored \cup {v} /\ printed' = printed
             /\ \A u \in DOMAIN dir' : dir'[u].of = v /\ u \notin DOMAIN dir => u = t
             /\ \A w \in DOMAIN lines \ {v}, u \in DOMAIN dir' : dir'[u].of = w => u \in DOMAIN dir
  <2>1. \A u \in DOMAIN dir' \ DOMAIN dir : u # t => dir'[u].of = Made
    BY <1>8 DEF RestoredAt
  <2>2. t \in DOMAIN dir' /\ dir'[t].of = v /\ printed' = printed
    BY <1>8 DEF RestoredAt
  <2>3. \A w \in DOMAIN lines : w # Made
    BY VersionsOfHost
  <2>4. Restored' \subseteq Restored \cup {v}
    BY <1>7, <2>1, <2>2 DEF Restored
  <2>5. Restored \cup {v} \subseteq Restored'
    BY <1>4, <1>7, <2>2 DEF Restored
  <2> QED BY <1>4, <2>1, <2>2, <2>3, <2>4, <2>5
<1>9. ASSUME NotRestored(v) PROVE Restored' \subseteq Restored \cup {v} /\ printed' = TRUE
  <2>1. \A u \in DOMAIN dir' \ DOMAIN dir : dir'[u].of \in {Made, v}
    BY <1>9 DEF NotRestored
  <2>2. Restored' \subseteq Restored \cup {v}
    BY <1>7, <2>1 DEF Restored
  <2> QED BY <1>9, <2>2 DEF NotRestored
<1>10. Restored' \subseteq Restored \cup {v}
  BY <1>3, <1>8, <1>9
<1>11. TypeOK'
  <2>1. \A t \in DOMAIN dir' : /\ dir'[t].of \in {User, Made} \cup DOMAIN lines
                               /\ dir'[t].mtime \in {Now} \cup Time
    <3>1. \A t \in DOMAIN dir : /\ dir[t].of \in {User, Made} \cup DOMAIN lines
                                /\ dir[t].mtime \in {Now} \cup Time
      BY DEF IInv, TypeOK
    <3>2. CASE NotRestored(v)
      BY <1>2, <1>4, <3>1, <3>2 DEF NotRestored
    <3>3. ASSUME NEW t, RestoredAt(v, t)
          PROVE  \A u \in DOMAIN dir' : /\ dir'[u].of \in {User, Made} \cup DOMAIN lines
                                        /\ dir'[u].mtime \in {Now} \cup Time
      BY <1>2, <1>4, <3>1, <3>3 DEF RestoredAt
    <3> QED BY <1>3, <3>2, <3>3
  <2>2. printed' \in BOOLEAN
    BY <1>3, <1>8, <1>9 DEF IInv, TypeOK
  <2> QED BY <1>1, <1>2, <2>1, <2>2 DEF IInv, TypeOK
<1>12. ListsOK'
  <2>1. l \in Seq(Nat)
    BY <1>1, <1>2, LineFacts
  <2> QED BY <1>1, <1>3, <2>1 DEF IInv, ListsOK
<1>13. StepsOK'
  <2>1. Restored' \cup ToSet(l) \subseteq seen
    BY <1>5, <1>10
  <2> QED BY <1>1, <2>1 DEF StepsOK
<1>14. LatestIsRestored'
  <2>1. \A u, w : LaterVersion(u, w)' <=> LaterVersion(u, w)
    BY <1>1 DEF LaterVersion
  <2> QED BY <1>1, <1>2, <1>10, <2>1 DEF IInv, LatestIsRestored
<1>15. Listing'
  BY <1>1 DEF Listing
<1>16. Restoring'
  <2> SUFFICES ASSUME opt.mode # "last", ~printed', ~unopened
               PROVE  /\ Restored' \cup ToSet(l) = Asked
                      /\ Restored' \cap ToSet(l) = {}
                      /\ IsInjective(l)
                      /\ \A w \in Restored' : RestoredOnce(w)'
    BY <1>1, <1>6 DEF Restoring, Untroubled
  <2>1. PICK t : RestoredAt(v, t)
    BY <1>3, <1>9
  <2>2. ~printed /\ Restored' = Restored \cup {v}
    BY <1>8, <2>1
  <2>3. /\ Restored \cup ToSet(list) = Asked /\ Restored \cap ToSet(list) = {}
        /\ IsInjective(list) /\ \A w \in Restored : RestoredOnce(w)
    BY <1>1, <2>2 DEF IInv, Restoring, Untroubled
  <2>4. v \notin Restored /\ v \notin ToSet(l) /\ IsInjective(l)
    BY <1>2, <2>3
  <2>5. Restored' \cup ToSet(l) = Asked /\ Restored' \cap ToSet(l) = {}
    BY <1>2, <2>2, <2>3, <2>4
  <2>6. ASSUME NEW w \in Restored PROVE RestoredOnce(w)'
    <3>1. PICK s \in DOMAIN dir :
             /\ \A u \in DOMAIN dir : dir[u].of = w => u = s
             /\ dir[s].of = w
             /\ Kind[lines[w].name] # "link" => dir[s].mtime = lines[w].mtime
      BY <2>3 DEF RestoredOnce
    <3>2. w \in DOMAIN lines \ {v}
      BY <1>1, <2>4
    <3>3. s \in DOMAIN dir' /\ dir'[s] = dir[s]
      BY <2>1 DEF RestoredAt
    <3>4. \A u \in DOMAIN dir' : dir'[u].of = w => u \in DOMAIN dir
      BY <1>8, <2>1, <3>2
    <3>5. \A u \in DOMAIN dir' : dir'[u].of = w => u = s
      BY <1>7, <3>1, <3>4
    <3> QED BY <1>1, <3>1, <3>3, <3>5 DEF RestoredOnce
  <2>7. RestoredOnce(v)'
    <3>1. /\ t \in DOMAIN dir' /\ dir'[t].of = v
          /\ Kind[lines[v].name] # "link" => dir'[t].mtime = lines[v].mtime
      BY <2>1 DEF RestoredAt
    <3>2. \A u \in DOMAIN dir : dir[u].of # v
      BY <1>4, <2>4 DEF Restored
    <3>3. \A u \in DOMAIN dir' : dir'[u].of = v => u = t
      BY <1>7, <1>8, <2>1, <3>2
    <3> QED BY <1>1, <3>1, <3>3 DEF RestoredOnce
  <2> QED BY <2>2, <2>4, <2>5, <2>6, <2>7
<1> QED BY <1>11, <1>12, <1>13, <1>14, <1>15, <1>16 DEF IInv

-----------------------------------------------------------------------------
(* The initial state, and the invariants.                                  *)
LEMMA InitRight == Init => IInv
<1> SUFFICES ASSUME Init PROVE IInv
  OBVIOUS
<1> PICK S \in SUBSET Range(Base) :
        dir = [t \in [date : {0}, number : {0}, dir : {0}, base : S]
                 |-> [of |-> User, mtime |-> Now]]
  BY DEF Init
<1> DEFINE T == [date : {0}, number : {0}, dir : {0}, base : S]
<1>1. IsFiniteSet(S)
  <2>1. Range(Base) = {Base[f] : f \in Name}
    BY ConstantsAssumption DEF Range
  <2> PICK R : R = Range(Base)
    OBVIOUS
  <2>2. Base \in Surjection(Name, R)
    BY <2>1, ConstantsAssumption DEF Surjection
  <2>3. IsFiniteSet(Name)
    BY ConstantsAssumption, IntervalFacts DEF Name
  <2>4. IsFiniteSet(R)
    BY <2>2, <2>3, FS_Surjection
  <2> QED BY <2>4, FS_Subset
<1>2. IsFiniteSet(T)
  <2> DEFINE f == [b \in S |-> [date |-> 0, number |-> 0, dir |-> 0, base |-> b]]
  <2>1. \A t \in T : t.base \in S /\ t = f[t.base]
    OBVIOUS
  <2>2. f \in [S -> T]
    OBVIOUS
  <2> HIDE DEF f, T
  <2>3. f \in Surjection(S, T)
    BY <2>1, <2>2 DEF Surjection
  <2> QED BY <1>1, <2>3, FS_Surjection
<1>3. /\ DOMAIN dir = T /\ \A t \in DOMAIN dir : dir[t] = [of |-> User, mtime |-> Now]
  OBVIOUS
<1>4. Restored = {}
  BY <1>3 DEF Restored
<1>5. /\ lines = <<>> /\ step = "idle" /\ list = <<>> /\ screen = <<>> /\ printed = FALSE
      /\ unopened = FALSE /\ seen = {} /\ ToSet(list) = {}
      /\ opt = [list |-> FALSE, mode |-> "last", parents |-> FALSE, latest |-> FALSE]
  BY DEF Init, ToSet
<1> HIDE DEF T
<1>6. TypeOK
  <2>1. \A t \in DOMAIN dir :
          dir[t].of \in {User, Made} \cup DOMAIN lines /\ dir[t].mtime \in {Now} \cup Time
    BY <1>3
  <2>2. lines \in Seq([name : Name, mtime : Time])
    BY <1>5
  <2>3. opt \in Option
    BY <1>5 DEF Option, Mode
  <2> QED BY <1>5, <2>1, <2>2, <2>3 DEF TypeOK
<1>7. ListsOK
  <2>1. \A t \in DOMAIN dir : dir[t] \in [of : Int, mtime : Nat]
    BY <1>3 DEF User, Now
  <2>2. IsFiniteSet(DOMAIN dir)
    BY <1>2, <1>3
  <2>3. list \in Seq(Nat)
    BY <1>5
  <2>4. screen \in Seq([type : {"file", "directory", "link"}, date : Time, name : Name])
    BY <1>5
  <2> QED BY <2>1, <2>2, <2>3, <2>4 DEF ListsOK
<1>8. StepsOK /\ LatestIsRestored /\ Restoring /\ Listing
  BY <1>4, <1>5 DEF StepsOK, LatestIsRestored, Restoring, Listing
<1> QED BY <1>6, <1>7, <1>8 DEF IInv

LEMMA StepRight == IInv /\ [Next]_vars => IInv'
<1> SUFFICES ASSUME IInv, [Next]_vars PROVE IInv'
  OBVIOUS
<1>1. CASE StoreSmeta
  BY <1>1, StoreSmetaKeeps
<1>2. ASSUME NEW q \in Query, ListOrRestore(q) PROVE IInv'
  <2>1. q.latest \in BOOLEAN
    BY DEF Query
  <2>2. CASE Start(q, FilesFromServer(q)) /\ UNCHANGED <<printed, unopened>>
    BY <1>2, <2>1, <2>2, StartKeeps DEF ListOrRestore
  <2>3. CASE Start(q, <<>>) /\ NoFiles
    BY <1>2, <2>3, StartNothingKeeps DEF ListOrRestore
  <2> QED BY <1>2, <2>2, <2>3 DEF ListOrRestore
<1>3. CASE AllVersions
  BY <1>3, AllVersionsKeeps
<1>4. CASE PrintSmeta
  BY <1>4, PrintSmetaKeeps
<1>5. CASE CreateFile
  BY <1>5, CreateFileKeeps
<1>6. CASE EndOfList
  BY <1>6, EndOfListKeeps
<1>7. CASE UNCHANGED vars
  <2>1. UNCHANGED <<lines, dir, step, opt, list, screen, printed, seen, unopened>>
    BY <1>7 DEF vars, programVars
  <2>2. Restored' = Restored /\ Asked' = Asked
    BY <2>1 DEF Restored, Asked, LaterVersion
  <2>3. TypeOK' /\ ListsOK' /\ StepsOK'
    BY <2>1, <2>2 DEF IInv, TypeOK, ListsOK, StepsOK
  <2>4. LatestIsRestored'
    BY <2>1, <2>2 DEF IInv, LatestIsRestored, LaterVersion
  <2>5. Restoring'
    <3>1. \A v : RestoredOnce(v)' <=> RestoredOnce(v)
      BY <2>1 DEF RestoredOnce
    <3> QED BY <2>1, <2>2, <3>1 DEF IInv, Restoring, Untroubled
  <2>6. Listing'
    <3>1. \A v : SmetaOnScreen(v)' = SmetaOnScreen(v)
      BY <2>1 DEF SmetaOnScreen
    <3> QED BY <2>1, <2>2, <3>1 DEF IInv, Listing, Untroubled
  <2> QED BY <2>3, <2>4, <2>5, <2>6 DEF IInv
<1> QED BY <1>1, <1>2, <1>3, <1>4, <1>5, <1>6, <1>7 DEF Next

(* In every state, what is restored or listed and what is left to restore  *)
(* or to list are the versions that were asked for, each once, in order    *)
(* (restore.c; files.c, keep_latests_meta_data_t_in_list).                 *)
THEOREM IInvCorrect == Spec => []IInv
BY InitRight, StepRight, PTL DEF Spec

(* The variables keep their types, and a listed version was asked for.     *)
THEOREM TypeCorrect == Spec => []TypeOK
<1>1. IInv => TypeOK
  BY DEF IInv
<1> QED BY <1>1, IInvCorrect, PTL

(* One version of a file is the latest of those selected, whatever the     *)
(* dates and the order of the lines (restore.c, restore_last_file).        *)
THEOREM LatestIsRestoredCorrect == Spec => []LatestIsRestored
<1>1. IInv => LatestIsRestored
  BY DEF IInv
<1> QED BY <1>1, IInvCorrect, PTL

(* Each version that was asked for is restored once, or listed once and in *)
(* order, unless a failure was met (create_file, print_list_of_smeta).     *)
THEOREM AskedIsRestoredCorrect == Spec => []AskedIsRestored
<1>1. IInv => AskedIsRestored
  <2> SUFFICES ASSUME IInv PROVE AskedIsRestored
    OBVIOUS
  <2>1. step = "done" => list = <<>> /\ ToSet(list) = {} /\ Len(list) = 0
    BY DEF IInv, StepsOK, ToSet
  <2>3. ASSUME step = "done", ~opt.list, opt.mode # "last", ~printed, ~unopened
        PROVE  /\ Restored = Asked
               /\ \A v \in Asked : RestoredOnce(v)
    BY <2>1, <2>3 DEF IInv, Restoring, Untroubled
  <2>4. ASSUME step = "done", opt.list, ~printed, ~unopened
        PROVE  /\ Len(screen) = Cardinality(Asked)
               /\ ToSet(screen) = {SmetaOnScreen(v) : v \in Asked}
               /\ \A i, j \in DOMAIN screen : i < j => NotAfter(screen[i], screen[j])
    <3>1. /\ Len(screen) + Len(list) = Cardinality(Asked)
          /\ ToSet(screen) \cup {SmetaOnScreen(v) : v \in ToSet(list)} =
                {SmetaOnScreen(v) : v \in Asked}
          /\ \A i, j \in DOMAIN screen : i < j => NotAfter(screen[i], screen[j])
      BY <2>4 DEF IInv, Listing, Untroubled
    <3>2. Len(screen) \in Nat
      BY LenProperties DEF IInv, ListsOK
    <3>3. {SmetaOnScreen(v) : v \in {}} = {}
      OBVIOUS
    <3> QED BY <2>1, <2>4, <3>1, <3>2, <3>3
  <2> QED BY <2>3, <2>4 DEF AskedIsRestored, RestoredOnce, NotAfter
<1> QED BY <1>1, IInvCorrect, PTL

(* What is in the directory stays there, and stays what it is              *)
(* (files.c, get_unique_filename).                                         *)
THEOREM NothingOverwrittenCorrect == Spec => NothingOverwritten
<1>1. IInv /\ [Next]_vars =>
        [\A t \in DOMAIN dir : t \in DOMAIN dir' /\ dir'[t].of = dir[t].of]_dir
  <2> SUFFICES ASSUME IInv, [Next]_vars, dir' # dir
               PROVE  \A t \in DOMAIN dir : t \in DOMAIN dir' /\ dir'[t].of = dir[t].of
    OBVIOUS
  <2>1. CreateFile
    BY DEF Next, StoreSmeta, ListOrRestore, Start, AllFiles, RestoreLastFile, LastFile, GetUserInfos,
           AllVersions, PrintSmeta, EndOfList, vars
  <2> QED BY <2>1, RestoreOne DEF RestoredAt, NotRestored
<1> QED BY <1>1, IInvCorrect, PTL DEF Spec, NothingOverwritten

-----------------------------------------------------------------------------
(* Sequences of sequences, one after the other.                            *)

(* The recursion of FlattenSeq.                                            *)
Flattens(g, s, n) == g = [i \in 1 .. n |-> IF i = 1 THEN s[i] ELSE g[i - 1] \o s[i]]

(* There is such a function.                                               *)
LEMMA FlattenExists ==
  ASSUME NEW s, NEW n \in Nat
  PROVE  \E g : Flattens(g, s, n)
<1> DEFINE S == {m \in Nat : \E g : Flattens(g, s, m)}
<1>1. 0 \in S
  <2> DEFINE g == [i \in 1 .. 0 |-> <<>>]
  <2>1. g = [i \in 1 .. 0 |-> IF i = 1 THEN s[i] ELSE g[i - 1] \o s[i]]
    OBVIOUS
  <2>2. Flattens(g, s, 0)
    BY <2>1 DEF Flattens
  <2> QED BY <2>2
<1>2. ASSUME NEW m \in S PROVE m + 1 \in S
  <2>1. m \in Nat
    OBVIOUS
  <2>2. PICK g : Flattens(g, s, m)
    OBVIOUS
  <2> DEFINE h == [i \in 1 .. m + 1 |-> IF i <= m THEN g[i] ELSE IF i = 1 THEN s[i] ELSE g[i - 1] \o s[i]]
             k == [i \in 1 .. m + 1 |-> IF i = 1 THEN s[i] ELSE h[i - 1] \o s[i]]
  <2>3. ASSUME NEW i \in 1 .. m + 1 PROVE h[i] = k[i]
    <3>1. CASE i <= m
      <4>1. i \in 1 .. m /\ h[i] = g[i]
        BY <2>1, <3>1
      <4>2. g[i] = IF i = 1 THEN s[i] ELSE g[i - 1] \o s[i]
        BY <2>2, <4>1 DEF Flattens
      <4>3. i # 1 => h[i - 1] = g[i - 1]
        BY <2>1, <3>1
      <4> HIDE DEF h
      <4> QED BY <4>1, <4>2, <4>3
    <3>2. CASE ~(i <= m)
      <4>1. i # 1 => h[i - 1] = g[i - 1]
        BY <2>1, <3>2
      <4>2. h[i] = IF i = 1 THEN s[i] ELSE g[i - 1] \o s[i]
        BY <3>2
      <4> HIDE DEF h
      <4> QED BY <4>1, <4>2
    <3> QED BY <3>1, <3>2
  <2>4. h = k
    <3>1. h = [i \in 1 .. m + 1 |-> h[i]] /\ k = [i \in 1 .. m + 1 |-> k[i]]
      OBVIOUS
    <3> HIDE DEF h, k
    <3> QED BY <2>3, <3>1
  <2>5. Flattens(h, s, m + 1)
    <3> HIDE DEF h
    <3> QED BY <2>4 DEF Flattens
  <2> HIDE DEF h
  <2> QED BY <2>1, <2>5
<1> HIDE DEF S
<1>3. Nat \subseteq S
  BY <1>1, <1>2, Induction
<1> QED BY <1>3 DEF S

(* It is the same for sequences that begin the same.                       *)
Agree(s, t, n) == \A i \in 1 .. n : s[i] = t[i]

LEMMA FlattenAgree ==
  ASSUME NEW s, NEW t, NEW n \in Nat, NEW m \in Nat, n <= m,
         Agree(s, t, n), NEW g, Flattens(g, s, n), NEW h, Flattens(h, t, m)
  PROVE  Agree(g, h, n)
<1> DEFINE S == {k \in Nat : k \in 1 .. n => g[k] = h[k]}
<1>1. 0 \in S
  OBVIOUS
<1>2. ASSUME NEW k \in Nat, k \in S PROVE k + 1 \in S
  <2> SUFFICES ASSUME k + 1 \in 1 .. n PROVE g[k + 1] = h[k + 1]
    OBVIOUS
  <2>l. PICK l \in 1 .. n : l = k + 1
    OBVIOUS
  <2>1. s[l] = t[l] /\ l \in 1 .. m
    BY DEF Agree
  <2>2. g[l] = IF l = 1 THEN s[l] ELSE g[l - 1] \o s[l]
    BY DEF Flattens
  <2>3. h[l] = IF l = 1 THEN t[l] ELSE h[l - 1] \o t[l]
    BY <2>1 DEF Flattens
  <2>4. l # 1 => g[l - 1] = h[l - 1]
    <3>1. l # 1 => l - 1 = k /\ k \in 1 .. n
      BY <2>l
    <3> QED BY <1>2, <3>1
  <2> QED BY <2>l, <2>1, <2>2, <2>3, <2>4
<1> HIDE DEF S
<1>3. Nat \subseteq S
  BY <1>1, <1>2, Induction
<1>4. \A i \in 1 .. n : i \in S
  BY <1>3
<1> QED BY <1>4 DEF S, Agree

(* FlattenSeq is its last value.                                           *)
LEMMA FlattenIs ==
  ASSUME NEW s, NEW n \in Nat, Len(s) = n, n # 0
  PROVE  \E g : Flattens(g, s, n) /\ FlattenSeq(s) = g[n]
<1>1. PICK g : g = CHOOSE h : Flattens(h, s, n)
  OBVIOUS
<1>2. Flattens(g, s, n)
  BY <1>1, FlattenExists
<1>3. FlattenSeq(s) = g[n]
  BY <1>1 DEF FlattenSeq, Flattens
<1> QED BY <1>2, <1>3

(* Of no sequence there is nothing.                                        *)
LEMMA FlattenEmpty == FlattenSeq(<<>>) = <<>>
  BY DEF FlattenSeq

(* One element more: the sequences are functions on 1 .. n.                *)
LEMMA FlattenMore ==
  ASSUME NEW s, NEW t, NEW n \in Nat, Len(s) = n, Len(t) = n + 1,
         \A i \in 1 .. n : s[i] = t[i]
  PROVE  /\ n = 0 => FlattenSeq(t) = t[1]
         /\ n # 0 => FlattenSeq(t) = FlattenSeq(s) \o t[n + 1]
<1>m. PICK m \in Nat : m = n + 1
  OBVIOUS
<1>4. m # 0 /\ n <= m /\ m <= m
  BY <1>m
<1>5. PICK h : Flattens(h, t, m) /\ FlattenSeq(t) = h[m]
  BY <1>m, <1>4, FlattenIs
<1>0. CASE n = 0
  <2>1. h[1] = t[1]
    BY <1>m, <1>0, <1>5 DEF Flattens
  <2> QED BY <1>0, <1>m, <1>5, <2>1
<1>1. CASE n # 0
  <2>3. PICK g : Flattens(g, s, n) /\ FlattenSeq(s) = g[n]
    BY <1>1, FlattenIs
  <2>5. Agree(s, t, n)
    BY DEF Agree
  <2>6. Agree(g, h, n)
    BY <1>m, <1>4, <1>5, <2>3, <2>5, FlattenAgree
  <2>7. g[n] = h[n]
    BY <1>1, <2>6 DEF Agree
  <2>8. h[m] = h[n] \o t[m]
    <3>1. m \in 1 .. m /\ m # 1 /\ m - 1 = n
      BY <1>1, <1>m
    <3>2. h[m] = IF m = 1 THEN t[m] ELSE h[m - 1] \o t[m]
      BY <3>1, <1>5 DEF Flattens
    <3> QED BY <3>1, <3>2
  <2> QED BY <1>1, <1>m, <1>5, <2>3, <2>7, <2>8
<1> QED BY <1>0, <1>1

(* The hashes appended one after the other are the list.                   *)
LEMMA AppendedIsList ==
  ASSUME NEW T, NEW l \in Seq(T)
  PROVE  ConvertHashListToJson(l) = l
<1>n. PICK n \in Nat : n = Len(l)
  OBVIOUS
<1>h. PICK how : how = "append"
  OBVIOUS
<1>0. PICK g : g = CHOOSE f : Folds(how, f, l, 1 .. n)
  OBVIOUS
<1>1. Folds(how, g, l, 1 .. n)
  BY <1>0, FoldExists
<1>2. DOMAIN l = 1 .. n /\ Len(l) = n /\ \A i \in 1 .. n : l[i] \in T
  BY <1>n
<1>3. ConvertHashListToJson(l) = g[1 .. n]
  BY <1>0, <1>h, <1>2, AppendFolds DEF ConvertHashListToJson
<1>r. PICK r : Stages(r, how, l, n) /\ r[n] = g[1 .. n]
  BY <1>n, <1>1, FoldSteps
<1>4. /\ r[0] = <<>>
      /\ \A i \in 1 .. n : r[i] = Adds(how, r[i - 1], l[i])
      /\ r[n] = g[1 .. n]
  BY <1>r DEF Stages
<1> DEFINE S == {k \in Nat : k <= n => /\ r[k] \in Seq(T) /\ Len(r[k]) = k
                                        /\ \A i \in 1 .. k : r[k][i] = l[i]}
<1>5. 0 \in S
  <2>1. <<>> \in Seq(T) /\ Len(<<>>) = 0 /\ 1 .. 0 = {}
    OBVIOUS
  <2> QED BY <1>4, <2>1
<1>6. ASSUME NEW k \in Nat, k \in S PROVE k + 1 \in S
  <2> SUFFICES ASSUME k + 1 <= n
               PROVE  /\ r[k + 1] \in Seq(T) /\ Len(r[k + 1]) = k + 1
                      /\ \A i \in 1 .. k + 1 : r[k + 1][i] = l[i]
    OBVIOUS
  <2>1. r[k] \in Seq(T) /\ Len(r[k]) = k /\ \A i \in 1 .. k : r[k][i] = l[i]
    BY <1>6
  <2>2. k + 1 \in 1 .. n /\ (k + 1) - 1 = k
    OBVIOUS
  <2>3. r[k + 1] = Append(r[k], l[k + 1])
    BY <1>h, <1>4, <2>2 DEF Adds
  <2>4. l[k + 1] \in T
    BY <1>2, <2>2
  <2> QED BY <2>1, <2>3, <2>4
<1> HIDE DEF S
<1>7. Nat \subseteq S
  BY <1>5, <1>6, Induction
<1>8. r[n] \in Seq(T) /\ Len(r[n]) = n /\ \A i \in 1 .. n : r[n][i] = l[i]
  BY <1>7 DEF S
<1> QED BY <1>2, <1>3, <1>4, <1>8, SeqEqual

(* A list that is prepended to and then reversed is the list.              *)
LEMMA PrependedIsReverse ==
  ASSUME NEW T, NEW l \in Seq(T)
  PROVE  Reverse(Prepended(l)) = l
<1>n. PICK n \in Nat : n = Len(l)
  OBVIOUS
<1>h. PICK how : how = "prepend"
  OBVIOUS
<1>0. PICK g : g = CHOOSE f : Folds(how, f, l, 1 .. n)
  OBVIOUS
<1>1. Folds(how, g, l, 1 .. n)
  BY <1>0, FoldExists
<1>2. DOMAIN l = 1 .. n /\ Len(l) = n /\ \A i \in 1 .. n : l[i] \in T
  BY <1>n
<1>3. Prepended(l) = g[1 .. n]
  BY <1>0, <1>h, <1>2, PrependFolds
<1>r. PICK r : Stages(r, how, l, n) /\ r[n] = g[1 .. n]
  BY <1>n, <1>1, FoldSteps
<1>4. /\ r[0] = <<>>
      /\ \A i \in 1 .. n : r[i] = Adds(how, r[i - 1], l[i])
      /\ r[n] = g[1 .. n]
  BY <1>r DEF Stages
<1> DEFINE S == {k \in Nat : k <= n => /\ r[k] \in Seq(T) /\ Len(r[k]) = k
                                        /\ \A i \in 1 .. k : r[k][i] = l[k - i + 1]}
<1>5. 0 \in S
  <2>1. <<>> \in Seq(T) /\ Len(<<>>) = 0 /\ 1 .. 0 = {}
    OBVIOUS
  <2> QED BY <1>4, <2>1
<1>6. ASSUME NEW k \in Nat, k \in S PROVE k + 1 \in S
  <2> SUFFICES ASSUME k + 1 <= n
               PROVE  /\ r[k + 1] \in Seq(T) /\ Len(r[k + 1]) = k + 1
                      /\ \A i \in 1 .. k + 1 : r[k + 1][i] = l[k + 1 - i + 1]
    OBVIOUS
  <2>1. r[k] \in Seq(T) /\ Len(r[k]) = k /\ \A i \in 1 .. k : r[k][i] = l[k - i + 1]
    BY <1>6
  <2>2. k + 1 \in 1 .. n /\ (k + 1) - 1 = k
    OBVIOUS
  <2>3. r[k + 1] = <<l[k + 1]>> \o r[k]
    BY <1>h, <1>4, <2>2 DEF Adds
  <2>4. l[k + 1] \in T
    BY <1>2, <2>2
  <2>5. <<l[k + 1]>> \in Seq(T) /\ Len(<<l[k + 1]>>) = 1 /\ <<l[k + 1]>>[1] = l[k + 1]
    BY <2>4
  <2>6. r[k + 1] \in Seq(T) /\ Len(r[k + 1]) = k + 1
    BY <2>1, <2>3, <2>5
  <2>7. ASSUME NEW i \in 1 .. k + 1 PROVE r[k + 1][i] = l[k + 1 - i + 1]
    <3>1. CASE i = 1
      BY <2>1, <2>3, <2>5, <3>1
    <3>2. CASE i # 1
      <4>1. i - 1 \in 1 .. k
        BY <3>2
      <4>2. r[k + 1][i] = r[k][i - 1]
        BY <2>1, <2>3, <2>5, <3>2
      <4>3. r[k][i - 1] = l[k - (i - 1) + 1]
        BY <2>1, <4>1
      <4>4. k - (i - 1) + 1 = k + 1 - i + 1
        OBVIOUS
      <4> QED BY <4>2, <4>3, <4>4
    <3> QED BY <3>1, <3>2
  <2> QED BY <2>6, <2>7
<1> HIDE DEF S
<1>7. Nat \subseteq S
  BY <1>5, <1>6, Induction
<1>8. r[n] \in Seq(T) /\ Len(r[n]) = n /\ \A i \in 1 .. n : r[n][i] = l[n - i + 1]
  <2>1. n \in S
    BY <1>7
  <2> QED BY ONLY <2>1, n \in Nat DEF S
<1>9. PICK p : p = Prepended(l)
  OBVIOUS
<1>10. p \in Seq(T) /\ Len(p) = n /\ \A i \in 1 .. n : p[i] = l[n - i + 1]
  BY <1>3, <1>4, <1>8, <1>9
<1>11. /\ Reverse(p) \in Seq(T) /\ Len(Reverse(p)) = n
       /\ \A i \in 1 .. n : Reverse(p)[i] = p[n - i + 1]
  <2>1. Reverse(p) = [i \in 1 .. n |-> p[(n - i) + 1]]
    BY <1>10 DEF Reverse
  <2>2. \A i \in 1 .. n : (n - i) + 1 \in 1 .. n
    OBVIOUS
  <2>3. \A i \in 1 .. n : p[(n - i) + 1] \in T
    BY <1>10, <2>2
  <2> QED BY <2>1, <2>3
<1>12. \A i \in 1 .. n : Reverse(p)[i] = l[i]
  <2> TAKE i \in 1 .. n
  <2>1. n - i + 1 \in 1 .. n /\ n - (n - i + 1) + 1 = i
    OBVIOUS
  <2> QED BY <1>10, <1>11, <2>1
<1> QED BY <1>2, <1>9, <1>11, <1>12, SeqEqual

-----------------------------------------------------------------------------
(* What g_strsplit makes of a line.                                        *)

(* g_strsplit, as its definition says it, in three operators.              *)
CommasOf(t) == {i \in DOMAIN t : t[i] = Comma}

RankOf(t, i) == Cardinality({j \in CommasOf(t) : j <= i})

CutOf(t, nbCuts, k) ==
    CASE k = 0 -> 0
      [] k \in 1 .. nbCuts -> CHOOSE i \in CommasOf(t) : RankOf(t, i) = k
      [] k > nbCuts -> Len(t) + 1

(* The k first values of P are S, once each.                               *)
Lists(P, k, S) ==
    /\ \A i, j \in 1 .. k : P[i] = P[j] => i = j
    /\ \A i \in 1 .. k : P[i] \in S
    /\ \A j \in S : \E i \in 1 .. k : j = P[i]

(* A set that is listed in order has as many elements as its list.         *)
LEMMA RankIs ==
  ASSUME NEW S, NEW k \in Nat, NEW P, Lists(P, k, S)
  PROVE  Cardinality(S) = k /\ IsFiniteSet(S)
<1> DEFINE f == [i \in 1 .. k |-> P[i]]
<1>1. f \in Bijection(1 .. k, S)
  <2>1. f \in [1 .. k -> S]
    BY DEF Lists
  <2>2. \A i, j \in 1 .. k : f[i] = f[j] => i = j
    BY DEF Lists
  <2>3. \A j \in S : \E i \in 1 .. k : f[i] = j
    BY DEF Lists
  <2> HIDE DEF f
  <2> QED BY <2>1, <2>2, <2>3 DEF Bijection, Injection, Surjection, IsInjective
<1>2. ExistsBijection(1 .. k, S)
  BY <1>1 DEF ExistsBijection
<1>3. IsFiniteSet(1 .. k) /\ Cardinality(1 .. k) = k
  BY FS_Interval
<1> QED BY <1>2, <1>3, FS_Bijection

(* The commas of a line are finitely many.                                 *)
LEMMA CommasFinite ==
  ASSUME NEW t \in Seq(Token)
  PROVE  IsFiniteSet(CommasOf(t)) /\ Cardinality(CommasOf(t)) \in Nat
<1>1. PICK m \in Nat : m = Len(t)
  OBVIOUS
<1>2. IsFiniteSet(1 .. m) /\ CommasOf(t) \in SUBSET (1 .. m)
  BY <1>1, FS_Interval DEF CommasOf
<1> QED BY <1>2, FS_Subset, FS_CardinalityType

(* P gives the places of the K first commas of t, which are as many as     *)
(* g_strsplit may cut at, or all of them.                                  *)
Cuts(t, n, K, P) ==
    /\ P[0] = 0 /\ \A i \in 0 .. K : P[i] \in Nat
    /\ \A i, j \in 0 .. K : i < j => P[i] < P[j]
    /\ \A i \in 1 .. K : P[i] \in CommasOf(t)
    /\ \A j \in CommasOf(t) : j <= P[K] => \E i \in 1 .. K : j = P[i]
    /\ \/ n = K + 1
       \/ n > K + 1 /\ \A j \in CommasOf(t) : \E i \in 1 .. K : j = P[i]

(* The parts that g_strsplit makes are those between the cuts.             *)
LEMMA SplitAt ==
  ASSUME NEW t \in Seq(Token), NEW n \in Nat, NEW K \in Nat, NEW P, Cuts(t, n, K, P)
  PROVE  /\ DOMAIN Split(t, n) = 1 .. K + 1 /\ Len(Split(t, n)) = K + 1
         /\ \A k \in 1 .. K : Split(t, n)[k] = SubSeq(t, P[k - 1] + 1, P[k] - 1)
         /\ Split(t, n)[K + 1] = SubSeq(t, P[K] + 1, Len(t))
<1>0. /\ P[0] = 0 /\ \A i \in 0 .. K : P[i] \in Nat
      /\ \A i, j \in 0 .. K : i < j => P[i] < P[j]
      /\ \A i \in 1 .. K : P[i] \in CommasOf(t)
      /\ \A j \in CommasOf(t) : j <= P[K] => \E i \in 1 .. K : j = P[i]
      /\ \/ n = K + 1
         \/ n > K + 1 /\ \A j \in CommasOf(t) : \E i \in 1 .. K : j = P[i]
  BY DEF Cuts
<1> USE <1>0
<1> DEFINE C == CommasOf(t)
<1>1. C \subseteq Nat /\ IsFiniteSet(C) /\ Cardinality(C) \in Nat
  BY CommasFinite DEF CommasOf
<1>2. ASSUME NEW k \in 1 .. K PROVE RankOf(t, P[k]) = k
  <2> DEFINE S == {j \in C : j <= P[k]}
  <2>1. \A i, j \in 1 .. k : P[i] = P[j] => i = j
    <3> SUFFICES ASSUME NEW i \in 1 .. k, NEW j \in 1 .. k, i # j PROVE P[i] # P[j]
      OBVIOUS
    <3>1. i \in 0 .. K /\ j \in 0 .. K /\ (i < j \/ j < i) /\ P[i] \in Nat /\ P[j] \in Nat
      OBVIOUS
    <3> QED BY <3>1
  <2>2. ASSUME NEW i \in 1 .. k PROVE P[i] \in S
    <3>1. i \in 1 .. K /\ i \in 0 .. K /\ k \in 0 .. K /\ P[i] \in Nat /\ P[k] \in Nat /\ (i < k \/ i = k)
      OBVIOUS
    <3> QED BY <3>1
  <2>3. ASSUME NEW j \in S PROVE \E i \in 1 .. k : j = P[i]
    <3>1. k \in 0 .. K /\ K \in 0 .. K /\ P[k] \in Nat /\ P[K] \in Nat /\ (k < K \/ k = K)
      OBVIOUS
    <3>2. j <= P[K] /\ j \in C
      BY <1>1, <3>1
    <3>3. PICK i \in 1 .. K : j = P[i]
      BY <3>2
    <3>4. i \in 0 .. K /\ P[i] <= P[k] /\ P[i] \in Nat
      BY <3>3
    <3>5. ~(k < i)
      BY <3>1, <3>4
    <3> QED BY <3>3, <3>5
  <2> HIDE DEF S
  <2>k. k \in Nat
    OBVIOUS
  <2>4. Lists(P, k, S)
    BY <2>1, <2>2, <2>3 DEF Lists
  <2>5. Cardinality(S) = k
    BY <2>k, <2>4, RankIs
  <2> QED BY <2>5 DEF S, RankOf
<1>3. ASSUME NEW j \in C, \A i \in 1 .. K : j # P[i] PROVE RankOf(t, j) \in Nat /\ RankOf(t, j) > K
  <2> DEFINE S == {P[i] : i \in 1 .. K}
             R == {i \in C : i <= j}
  <2>1. \A i, l \in 1 .. K : P[i] = P[l] => i = l
    <3> SUFFICES ASSUME NEW i \in 1 .. K, NEW l \in 1 .. K, i # l PROVE P[i] # P[l]
      OBVIOUS
    <3>1. i \in 0 .. K /\ l \in 0 .. K /\ (i < l \/ l < i) /\ P[i] \in Nat /\ P[l] \in Nat
      OBVIOUS
    <3> QED BY <3>1
  <2>2. \A i \in 1 .. K : P[i] \in S
    OBVIOUS
  <2>3. \A l \in S : \E i \in 1 .. K : l = P[i]
    OBVIOUS
  <2>4. j \notin S /\ j \in Nat
    BY <1>1, <1>3
  <2>5. ASSUME NEW i \in 1 .. K PROVE P[i] \in R
    <3>1. i \in 0 .. K /\ K \in 0 .. K /\ P[i] \in Nat /\ P[K] \in Nat /\ (i < K \/ i = K)
      OBVIOUS
    <3>2. ~(j <= P[K])
      BY <1>3
    <3>3. P[K] < j
      BY <2>4, <3>1, <3>2
    <3> QED BY <2>4, <3>1, <3>3
  <2>6. j \in R
    BY <2>4
  <2>7. S \cup {j} \in SUBSET R /\ R \in SUBSET C
    BY <2>3, <2>5, <2>6
  <2> HIDE DEF S, R
  <2>8. Cardinality(S) = K /\ IsFiniteSet(S)
    <3>1. Lists(P, K, S)
      BY <2>1, <2>2, <2>3 DEF Lists
    <3> QED BY <3>1, RankIs
  <2>9. Cardinality(S \cup {j}) = K + 1
    BY <2>4, <2>8, FS_AddElement
  <2>10. IsFiniteSet(R)
    BY <1>1, <2>7, FS_Subset
  <2>11. Cardinality(S \cup {j}) <= Cardinality(R) /\ Cardinality(R) \in Nat
    BY <2>7, <2>10, FS_Subset, FS_CardinalityType
  <2> QED BY <2>9, <2>11 DEF R, RankOf
<1>4. ASSUME NEW k \in 1 .. K, NEW c \in Nat, c = K PROVE CutOf(t, c, k) = P[k]
  <2>1. P[k] \in C /\ RankOf(t, P[k]) = k
    BY <1>2
  <2>2. ASSUME NEW j \in C, RankOf(t, j) = k PROVE j = P[k]
    <3>1. PICK i \in 1 .. K : j = P[i]
      BY <1>3, <2>2
    <3>2. i = k
      BY <1>2, <2>2, <3>1
    <3> QED BY <3>1, <3>2
  <2>3. (CHOOSE j \in CommasOf(t) : RankOf(t, j) = k) = P[k]
    BY <2>1, <2>2
  <2>4. k # 0 /\ k \in 1 .. c
    BY <1>4
  <2>5. CutOf(t, c, k) = CHOOSE j \in CommasOf(t) : RankOf(t, j) = k
    BY <2>4 DEF CutOf
  <2> QED BY <2>3, <2>5
<1>5. Cardinality(C) >= K /\ (n # K + 1 => Cardinality(C) = K)
  <2>1. CASE \A j \in C : \E i \in 1 .. K : j = P[i]
    <3>1. \A i, l \in 1 .. K : P[i] = P[l] => i = l
      <4> SUFFICES ASSUME NEW i \in 1 .. K, NEW l \in 1 .. K, i # l PROVE P[i] # P[l]
        OBVIOUS
      <4>1. i \in 0 .. K /\ l \in 0 .. K /\ (i < l \/ l < i) /\ P[i] \in Nat /\ P[l] \in Nat
        OBVIOUS
      <4> QED BY <4>1
    <3> HIDE DEF C
    <3>2. \A i \in 1 .. K : P[i] \in C
      BY DEF C
    <3>3. Lists(P, K, C)
      BY <2>1, <3>1, <3>2 DEF Lists
    <3>4. Cardinality(C) = K
      BY <3>3, RankIs
    <3> QED BY <3>4
  <2>2. CASE ~ \A j \in C : \E i \in 1 .. K : j = P[i]
    <3>1. PICK j \in C : \A i \in 1 .. K : j # P[i]
      BY <2>2
    <3>2. RankOf(t, j) \in Nat /\ RankOf(t, j) > K
      BY <1>3, <3>1
    <3>3. {i \in C : i <= j} \in SUBSET C
      OBVIOUS
    <3>4. RankOf(t, j) <= Cardinality(C)
      BY <1>1, <3>3, FS_Subset DEF RankOf
    <3>5. n = K + 1
      BY <2>2
    <3> QED BY <1>1, <3>2, <3>4, <3>5
  <2> QED BY <2>1, <2>2
<1>6. PICK c : c = Min({n - 1, Cardinality(CommasOf(t))})
  OBVIOUS
<1>7. c = K
  <2>1. n - 1 >= K /\ n - 1 \in Nat /\ (n - 1 = K \/ Cardinality(C) = K) /\ Cardinality(C) >= K
    BY <1>5
  <2> HIDE DEF C
  <2>2. K \in {n - 1, Cardinality(C)} /\ \A x \in {n - 1, Cardinality(C)} : x \in Nat /\ K <= x
    BY <1>1, <2>1
  <2>3. \A y \in {n - 1, Cardinality(C)} : (\A x \in {n - 1, Cardinality(C)} : y <= x) => y = K
    BY <2>2
  <2> QED BY <1>6, <2>2, <2>3 DEF Min, C
<1>8. PICK p : p = Split(t, n)
  OBVIOUS
<1>9. p = [k \in 1 .. c + 1 |-> SubSeq(t, CutOf(t, c, k - 1) + 1, CutOf(t, c, k) - 1)]
  BY ONLY <1>6, <1>8 DEF Split, CommasOf, RankOf, CutOf
<1>10. CutOf(t, c, 0) = 0
  BY <1>7 DEF CutOf
<1>11. CutOf(t, c, K + 1) = Len(t) + 1
  BY <1>7 DEF CutOf
<1>12. \A k \in 0 .. K : CutOf(t, c, k) = P[k]
  BY <1>4, <1>7, <1>10
<1>13. DOMAIN p = 1 .. K + 1 /\ Len(p) = K + 1
  BY <1>7, <1>9
<1>14. ASSUME NEW k \in 1 .. K PROVE p[k] = SubSeq(t, P[k - 1] + 1, P[k] - 1)
  <2>1. k \in 1 .. c + 1 /\ k \in 0 .. K /\ k - 1 \in 0 .. K
    BY <1>7
  <2>2. p[k] = SubSeq(t, CutOf(t, c, k - 1) + 1, CutOf(t, c, k) - 1)
    BY <1>9, <2>1
  <2> QED BY <1>12, <2>1, <2>2
<1>15. p[K + 1] = SubSeq(t, P[K] + 1, Len(t))
  <2>0. PICK k \in 1 .. c + 1 : k = K + 1
    BY <1>7
  <2>1. K \in 0 .. K /\ k - 1 = K
    BY <2>0
  <2>2. p[k] = SubSeq(t, CutOf(t, c, k - 1) + 1, CutOf(t, c, k) - 1)
    BY <1>9
  <2>3. CutOf(t, c, k - 1) = P[K] /\ CutOf(t, c, k) = Len(t) + 1
    BY <1>11, <1>12, <2>0, <2>1
  <2>4. Len(t) + 1 - 1 = Len(t)
    OBVIOUS
  <2>l. PICK e : e = Len(t)
    OBVIOUS
  <2>6. CutOf(t, c, k) - 1 = e
    BY <2>3, <2>4, <2>l
  <2>7. p[k] = SubSeq(t, P[K] + 1, e)
    BY ONLY <2>2, <2>3, <2>6
  <2>5. p[k] = SubSeq(t, P[K] + 1, Len(t))
    BY <2>7, <2>l
  <2> QED BY <2>0, <2>5
<1> QED BY <1>8, <1>13, <1>14, <1>15

-----------------------------------------------------------------------------
(* Tokens, and what is joined of fields.                                   *)

(* What is joined of the first fields, at each of them.                    *)
Joins(u, fields) ==
    /\ u \in [1 .. Len(fields) -> Seq(Token)]
    /\ u[1] = fields[1]
    /\ \A k \in 1 .. Len(fields) : k > 1 => u[k] = u[k - 1] \o (<<Comma>> \o fields[k])

(* The marks are tokens.                                                   *)
LEMMA CommaToken == Comma \in Token /\ Quote \in Token /\ NewLine \in Token
BY DEF Token, Mark

(* A mark alone is a sequence of tokens.                                   *)
LEMMA MarkSeqs ==
  \A mark \in {Comma, Quote, NewLine} :
     <<mark>> \in Seq(Token) /\ Len(<<mark>>) = 1 /\ <<mark>>[1] = mark
<1> TAKE mark \in {Comma, Quote, NewLine}
<1>1. mark \in Token
  BY CommaToken
<1> QED BY <1>1

(* Two sequences of tokens, one after the other.                           *)
LEMMA TokenConcat ==
  \A a, b \in Seq(Token) :
     /\ a \o b \in Seq(Token) /\ Len(a \o b) = Len(a) + Len(b)
     /\ \A i \in 1 .. Len(a) : (a \o b)[i] = a[i]
     /\ \A i \in 1 .. Len(b) : (a \o b)[Len(a) + i] = b[i]
  OBVIOUS

(* Three of them.                                                          *)
LEMMA TokenAssociative ==
  \A a, b, c \in Seq(Token) : (a \o b) \o c = a \o (b \o c)
  BY ConcatAssociative

(* What is joined of all the fields is the last of these.                  *)
LEMMA JoinedIs ==
  ASSUME NEW fields \in Seq(Seq(Token)), NEW n \in Nat, n = Len(fields), n # 0
  PROVE  \E u : Joins(u, fields) /\ Joined(fields) = u[n]
<1>s. PICK s : s = [i \in DOMAIN fields |-> IF i = 1 THEN fields[1] ELSE <<Comma>> \o fields[i]]
  OBVIOUS
<1>1. /\ DOMAIN fields = 1 .. n /\ Len(s) = n
      /\ \A i \in 1 .. n : fields[i] \in Seq(Token)
      /\ 1 \in 1 .. n
  BY <1>s
<1>2. \A i \in 1 .. n : s[i] = IF i = 1 THEN fields[1] ELSE <<Comma>> \o fields[i]
  BY <1>s, <1>1
<1>3. PICK g : Flattens(g, s, n) /\ FlattenSeq(s) = g[n]
  BY <1>1, FlattenIs
<1>4. \A k \in 1 .. n : g[k] = IF k = 1 THEN s[k] ELSE g[k - 1] \o s[k]
  BY <1>3 DEF Flattens
<1>5. ASSUME NEW k \in 1 .. n PROVE s[k] \in Seq(Token)
  <2>1. <<Comma>> \o fields[k] \in Seq(Token)
    BY <1>1, MarkSeqs, TokenConcat
  <2> QED BY <1>1, <1>2, <2>1
<1> DEFINE S == {k \in Nat : k \in 1 .. n => g[k] \in Seq(Token)}
<1>6. 0 \in S
  OBVIOUS
<1>7. ASSUME NEW k \in Nat, k \in S PROVE k + 1 \in S
  <2> SUFFICES ASSUME k + 1 \in 1 .. n PROVE g[k + 1] \in Seq(Token)
    OBVIOUS
  <2>l. PICK l \in 1 .. n : l = k + 1
    OBVIOUS
  <2>1. s[l] \in Seq(Token)
    BY <1>5
  <2>2. l # 1 => g[l - 1] \in Seq(Token)
    <3>1. l # 1 => l - 1 = k /\ k \in 1 .. n
      BY <2>l
    <3> QED BY <1>7, <3>1
  <2>3. l # 1 => g[l - 1] \o s[l] \in Seq(Token)
    BY <2>1, <2>2, TokenConcat
  <2>4. g[l] \in Seq(Token)
    BY <1>4, <2>1, <2>3
  <2> QED BY <2>l, <2>4
<1> HIDE DEF S
<1>8. Nat \subseteq S
  BY <1>6, <1>7, Induction
<1>9. g \in [1 .. n -> Seq(Token)]
  <2>1. \A k \in 1 .. n : g[k] \in Seq(Token)
    BY <1>8 DEF S
  <2>2. g = [k \in 1 .. n |-> g[k]]
    BY <1>3 DEF Flattens
  <2> QED BY <2>1, <2>2
<1>10. g[1] = fields[1]
  BY <1>1, <1>2, <1>4
<1>11. ASSUME NEW k \in 1 .. n, k > 1 PROVE g[k] = g[k - 1] \o (<<Comma>> \o fields[k])
  <2>1. k # 1
    BY <1>11
  <2>2. s[k] = <<Comma>> \o fields[k]
    BY <1>2, <2>1
  <2>3. g[k] = g[k - 1] \o s[k]
    BY <1>4, <2>1
  <2> QED BY <2>2, <2>3
<1>12. Joins(g, fields)
  BY <1>9, <1>10, <1>11 DEF Joins
<1>13. Joined(fields) = g[n]
  BY <1>3, <1>s DEF Joined
<1> QED BY <1>12, <1>13

(* It is a sequence of tokens.                                             *)
LEMMA JoinedType ==
  ASSUME NEW fields \in Seq(Seq(Token)), fields # <<>>
  PROVE  Joined(fields) \in Seq(Token)
<1>n. PICK n \in Nat : n = Len(fields)
  OBVIOUS
<1>0. n # 0 /\ n \in 1 .. Len(fields)
  BY <1>n
<1>1. PICK u : Joins(u, fields) /\ Joined(fields) = u[n]
  BY <1>n, <1>0, JoinedIs
<1> QED BY <1>0, <1>1 DEF Joins

(* Two lists of fields, one after the other.                               *)
LEMMA JoinedConcat ==
  ASSUME NEW a \in Seq(Seq(Token)), a # <<>>, NEW b \in Seq(Seq(Token)), b # <<>>
  PROVE  Joined(a \o b) = Joined(a) \o (<<Comma>> \o Joined(b))
<1>a. PICK m \in Nat : m = Len(a)
  OBVIOUS
<1>b. PICK n \in Nat : n = Len(b)
  OBVIOUS
<1>c. PICK c : c = a \o b
  OBVIOUS
<1>l. PICK l \in Nat : l = m + n
  OBVIOUS
<1>1. /\ m # 0 /\ n # 0 /\ l # 0 /\ c \in Seq(Seq(Token)) /\ l = Len(c)
      /\ \A i \in 1 .. m : c[i] = a[i]
      /\ \A i \in 1 .. n : c[m + i] = b[i]
  BY <1>a, <1>b, <1>c, <1>l
<1>2. PICK u : Joins(u, a) /\ Joined(a) = u[m]
  BY <1>a, <1>1, JoinedIs
<1>3. PICK v : Joins(v, b) /\ Joined(b) = v[n]
  BY <1>b, <1>1, JoinedIs
<1>4. PICK w : Joins(w, c) /\ Joined(c) = w[l]
  BY <1>l, <1>1, JoinedIs
<1>5. /\ u \in [1 .. m -> Seq(Token)] /\ u[1] = a[1]
      /\ \A k \in 1 .. m : k > 1 => u[k] = u[k - 1] \o (<<Comma>> \o a[k])
  BY <1>2, <1>a DEF Joins
<1>6. /\ v \in [1 .. n -> Seq(Token)] /\ v[1] = b[1]
      /\ \A k \in 1 .. n : k > 1 => v[k] = v[k - 1] \o (<<Comma>> \o b[k])
  BY <1>3, <1>b DEF Joins
<1>7. /\ w \in [1 .. l -> Seq(Token)] /\ w[1] = c[1]
      /\ \A k \in 1 .. l : k > 1 => w[k] = w[k - 1] \o (<<Comma>> \o c[k])
  BY <1>4, <1>1 DEF Joins
<1> DEFINE S == {k \in Nat : k \in 1 .. m => w[k] = u[k]}
<1>8. 0 \in S
  OBVIOUS
<1>9. ASSUME NEW k \in Nat, k \in S PROVE k + 1 \in S
  <2> SUFFICES ASSUME k + 1 \in 1 .. m PROVE w[k + 1] = u[k + 1]
    OBVIOUS
  <2>i. PICK i \in 1 .. m : i = k + 1
    OBVIOUS
  <2>1. i \in 1 .. l /\ c[i] = a[i]
    BY <1>l, <1>1
  <2>2. CASE i = 1
    BY <1>1, <1>5, <1>7, <2>i, <2>1, <2>2
  <2>3. CASE i # 1
    <3>1. i > 1 /\ i - 1 = k /\ k \in 1 .. m
      BY <2>i, <2>3
    <3>2. w[i - 1] = u[i - 1]
      BY <1>9, <3>1
    <3>3. w[i] = w[i - 1] \o (<<Comma>> \o c[i])
      BY <1>7, <2>1, <3>1
    <3>4. u[i] = u[i - 1] \o (<<Comma>> \o a[i])
      BY <1>5, <3>1
    <3> QED BY <2>i, <2>1, <3>2, <3>3, <3>4
  <2> QED BY <2>2, <2>3
<1> HIDE DEF S
<1>10. Nat \subseteq S
  BY <1>8, <1>9, Induction
<1>11. w[m] = u[m]
  BY <1>1, <1>10 DEF S
<1>u. u[m] \in Seq(Token)
  BY <1>1, <1>5
<1>v. \A k \in 1 .. n : v[k] \in Seq(Token) /\ b[k] \in Seq(Token)
  <2>1. \A k \in 1 .. n : v[k] \in Seq(Token)
    BY <1>6
  <2>2. \A k \in 1 .. n : b[k] \in Seq(Token)
    BY <1>b
  <2> QED BY <2>1, <2>2
<1>p. PICK p \in Seq(Token) : p = <<Comma>>
  BY MarkSeqs
<1> DEFINE Q(k) == w[m + k] = u[m] \o (p \o v[k])
           R == {k \in Nat : k \in 1 .. n => Q(k)}
<1>12. 0 \in R
  OBVIOUS
<1>13. ASSUME NEW k \in Nat, k \in R PROVE k + 1 \in R
  <2> HIDE DEF Q
  <2> SUFFICES ASSUME k + 1 \in 1 .. n PROVE Q(k + 1)
    OBVIOUS
  <2>i. PICK i \in 1 .. n : i = k + 1
    OBVIOUS
  <2>j. PICK j \in 1 .. l : j = m + i
    BY <1>l
  <2>1. j > 1 /\ j - 1 = m + k /\ c[j] = b[i] /\ b[i] \in Seq(Token)
    BY <1>1, <1>b, <2>i, <2>j
  <2>2. w[j] = w[j - 1] \o (p \o b[i])
    BY <1>7, <1>p, <2>1
  <2>3. CASE i = 1
    <3>1. j - 1 = m /\ v[i] = b[i]
      BY <1>6, <2>i, <2>1, <2>3
    <3>2. w[j] = u[m] \o (p \o v[i])
      BY <1>11, <2>2, <3>1
    <3> QED BY <2>i, <2>j, <3>2 DEF Q
  <2>4. CASE i # 1
    <3>1. i > 1 /\ i - 1 = k /\ k \in 1 .. n
      BY <2>i, <2>4
    <3>2. w[m + k] = u[m] \o (p \o v[k])
      BY <1>13, <3>1 DEF Q
    <3>3. v[i] = v[k] \o (p \o b[i])
      BY <1>6, <1>p, <3>1
    <3>4. w[j] = (u[m] \o (p \o v[k])) \o (p \o b[i])
      BY <2>1, <2>2, <3>2
    <3> HIDE DEF R
    <3>5. v[k] \in Seq(Token)
      BY <1>v, <3>1
    <3>6. /\ p \o b[i] \in Seq(Token) /\ p \o v[k] \in Seq(Token)
      BY <2>1, <3>5, TokenConcat
    <3>q. PICK q \in Seq(Token) : q = p \o b[i]
      BY <3>6
    <3>7. (u[m] \o (p \o v[k])) \o q = u[m] \o ((p \o v[k]) \o q)
      BY <1>u, <3>6, TokenAssociative
    <3>8. (p \o v[k]) \o q = p \o (v[k] \o q)
      BY <3>5, TokenAssociative
    <3>9. w[j] = u[m] \o (p \o v[i])
      BY <3>3, <3>4, <3>7, <3>8, <3>q
    <3> QED BY <2>i, <2>j, <3>9 DEF Q
  <2> QED BY <2>3, <2>4
<1> HIDE DEF R, Q
<1>14. Nat \subseteq R
  BY <1>12, <1>13, Induction
<1>15. w[m + n] = u[m] \o (p \o v[n])
  <2>1. n \in 1 .. n /\ n \in R
    BY <1>1, <1>14
  <2> QED BY <2>1 DEF R, Q
<1> QED BY <1>c, <1>l, <1>p, <1>2, <1>3, <1>4, <1>15

(* A part of a sequence of tokens.                                         *)
LEMMA TokenSubSeq ==
  ASSUME NEW t \in Seq(Token), NEW x \in Nat, NEW y \in Nat, 1 <= x, x <= y + 1, y <= Len(t)
  PROVE  /\ SubSeq(t, x, y) \in Seq(Token) /\ Len(SubSeq(t, x, y)) = y - x + 1
         /\ \A i \in 1 .. y - x + 1 : SubSeq(t, x, y)[i] = t[x + i - 1]
  OBVIOUS

(* Sequences of the same length with the same tokens are the same.         *)
LEMMA TokenEqual ==
  ASSUME NEW s \in Seq(Token), NEW t \in Seq(Token), Len(s) = Len(t),
         \A i \in 1 .. Len(s) : s[i] = t[i]
  PROVE  s = t
  BY SeqEqual

(* What is before and after a comma.                                       *)
CommaBetween(t, a, f, l) ==
    /\ t \in Seq(Token) /\ Len(t) = l + 1 + Len(f)
    /\ \A j \in 1 .. l : t[j] = a[j]
    /\ t[l + 1] = Comma
    /\ \A j \in 1 .. Len(f) : t[l + 1 + j] = f[j]
    /\ \A x, y \in Nat : 1 <= x /\ x <= y + 1 /\ y <= l => SubSeq(t, x, y) = SubSeq(a, x, y)
    /\ SubSeq(t, l + 2, Len(t)) = f
    /\ SubSeq(t, 1, l + 1) = a \o <<Comma>>

(* What a comma and a field make after what is there.                      *)
LEMMA CommaConcat ==
  ASSUME NEW a \in Seq(Token), NEW f \in Seq(Token)
  PROVE  CommaBetween(a \o (<<Comma>> \o f), a, f, Len(a))
<1>t. PICK t : t = a \o (<<Comma>> \o f)
  OBVIOUS
<1>l. PICK l \in Nat : l = Len(a)
  OBVIOUS
<1>c. PICK c \in Seq(Token) : c = <<Comma>> /\ Len(c) = 1 /\ c[1] = Comma
  BY MarkSeqs
<1>g. PICK g \in Seq(Token) : g = c \o f
  BY TokenConcat
<1>1. /\ Len(g) = 1 + Len(f) /\ g[1] = Comma
      /\ \A j \in 1 .. Len(f) : g[1 + j] = f[j]
  <2>1. /\ Len(c \o f) = Len(c) + Len(f)
        /\ \A i \in 1 .. Len(c) : (c \o f)[i] = c[i]
        /\ \A i \in 1 .. Len(f) : (c \o f)[Len(c) + i] = f[i]
    BY TokenConcat
  <2> QED BY <1>c, <1>g, <2>1
<1>2. /\ t \in Seq(Token) /\ Len(t) = l + Len(g)
      /\ \A j \in 1 .. l : t[j] = a[j]
      /\ \A j \in 1 .. Len(g) : t[l + j] = g[j]
  BY <1>c, <1>g, <1>t, <1>l, TokenConcat
<1>3. Len(t) = l + 1 + Len(f) /\ t[l + 1] = Comma
  BY <1>1, <1>2
<1>4. ASSUME NEW j \in 1 .. Len(f) PROVE t[l + 1 + j] = f[j]
  <2>1. PICK i \in 1 .. Len(g) : i = 1 + j
    BY <1>1
  <2>2. t[l + i] = g[i] /\ g[1 + j] = f[j] /\ l + i = l + 1 + j
    BY <1>1, <1>2, <2>1
  <2> QED BY <2>1, <2>2
<1>5. ASSUME NEW x \in Nat, NEW y \in Nat, 1 <= x, x <= y + 1, y <= l
      PROVE  SubSeq(t, x, y) = SubSeq(a, x, y)
  <2>1. PICK p : p = SubSeq(t, x, y)
    OBVIOUS
  <2>2. PICK q : q = SubSeq(a, x, y)
    OBVIOUS
  <2>3. p \in Seq(Token) /\ Len(p) = y - x + 1 /\ \A i \in 1 .. y - x + 1 : p[i] = t[x + i - 1]
    <3>1. y <= Len(t)
      BY <1>3, <1>5
    <3> QED BY <1>2, <1>5, <2>1, <3>1, TokenSubSeq
  <2>4. q \in Seq(Token) /\ Len(q) = y - x + 1 /\ \A i \in 1 .. y - x + 1 : q[i] = a[x + i - 1]
    BY <1>l, <1>5, <2>2, TokenSubSeq
  <2>5. \A i \in 1 .. y - x + 1 : x + i - 1 \in 1 .. l
    BY <1>5
  <2>6. \A i \in 1 .. Len(p) : p[i] = q[i]
    BY <1>2, <2>3, <2>4, <2>5
  <2>7. p = q
    BY <2>3, <2>4, <2>6, TokenEqual
  <2> QED BY <2>1, <2>2, <2>7
<1>6. SubSeq(t, l + 2, Len(t)) = f
  <2>1. PICK p : p = SubSeq(t, l + 2, Len(t))
    OBVIOUS
  <2>x. PICK x \in Nat : x = l + 2
    OBVIOUS
  <2>y. PICK y \in Nat : y = Len(t)
    BY <1>2
  <2>2. p \in Seq(Token) /\ Len(p) = y - x + 1 /\ \A i \in 1 .. y - x + 1 : p[i] = t[x + i - 1]
    <3>1. 1 <= x /\ x <= y + 1 /\ y <= Len(t) /\ p = SubSeq(t, x, y)
      BY <1>3, <2>1, <2>x, <2>y
    <3> QED BY <1>2, <3>1, TokenSubSeq
  <2>3. Len(p) = Len(f) /\ y - x + 1 = Len(f)
    BY <1>3, <2>2, <2>x, <2>y
  <2>4. \A i \in 1 .. Len(f) : x + i - 1 = l + 1 + i
    BY <2>x
  <2>5. \A i \in 1 .. Len(p) : p[i] = f[i]
    BY <1>4, <2>2, <2>3, <2>4
  <2>6. p = f
    BY <2>2, <2>3, <2>5, TokenEqual
  <2> QED BY <2>1, <2>6
<1>7. SubSeq(t, 1, l + 1) = a \o <<Comma>>
  <2>1. PICK p : p = SubSeq(t, 1, l + 1)
    OBVIOUS
  <2>q. PICK q : q = a \o c
    OBVIOUS
  <2>y. PICK y \in Nat : y = l + 1
    OBVIOUS
  <2>x. PICK x \in Nat : x = 1
    OBVIOUS
  <2>2. p \in Seq(Token) /\ Len(p) = l + 1 /\ \A i \in 1 .. l + 1 : p[i] = t[i]
    <3>1. 1 <= x /\ x <= y + 1 /\ y <= Len(t) /\ p = SubSeq(t, x, y)
      BY <1>3, <2>1, <2>x, <2>y
    <3>2. p \in Seq(Token) /\ Len(p) = y - x + 1 /\ \A i \in 1 .. y - x + 1 : p[i] = t[x + i - 1]
      BY <1>2, <3>1, TokenSubSeq
    <3>3. \A i \in 1 .. l + 1 : x + i - 1 = i
      BY <2>x
    <3>4. y - x + 1 = l + 1
      BY <2>x, <2>y
    <3> QED BY <3>2, <3>3, <3>4
  <2>3. q \in Seq(Token) /\ Len(q) = l + 1 /\ (\A i \in 1 .. l : q[i] = a[i]) /\ q[l + 1] = Comma
    BY <1>c, <1>l, <2>q, TokenConcat
  <2>4. \A i \in 1 .. Len(p) : p[i] = q[i]
    BY <1>2, <1>3, <2>2, <2>3
  <2>5. p = q
    BY <2>2, <2>3, <2>4, TokenEqual
  <2> QED BY <1>c, <2>1, <2>q, <2>5
<1>8. CommaBetween(t, a, f, l)
  BY <1>2, <1>3, <1>4, <1>5, <1>6, <1>7 DEF CommaBetween
<1> QED BY <1>t, <1>l, <1>8

-----------------------------------------------------------------------------
(* The marks of one sequence and of another after it.                      *)
MarksOf(t, mark) == {i \in DOMAIN t : t[i] = mark}

(* The marks of a sequence can be counted.                                 *)
LEMMA MarksFinite ==
  ASSUME NEW t \in Seq(Token), NEW mark
  PROVE  IsFiniteSet(MarksOf(t, mark)) /\ Count(t, mark) = Cardinality(MarksOf(t, mark))
         /\ Count(t, mark) \in Nat
<1>1. PICK m \in Nat : m = Len(t)
  OBVIOUS
<1>2. IsFiniteSet(1 .. m) /\ MarksOf(t, mark) \in SUBSET (1 .. m)
  BY <1>1, FS_Interval DEF MarksOf
<1>3. Count(t, mark) = Cardinality(MarksOf(t, mark))
  BY DEF Count, MarksOf
<1> QED BY <1>2, <1>3, FS_Subset, FS_CardinalityType

(* The marks of two sequences, one after the other.                        *)
LEMMA CountConcat ==
  ASSUME NEW a \in Seq(Token), NEW b \in Seq(Token), NEW mark
  PROVE  Count(a \o b, mark) = Count(a, mark) + Count(b, mark)
<1>t. PICK t \in Seq(Token) : t = a \o b
  BY TokenConcat
<1>l. PICK l \in Nat : l = Len(a)
  OBVIOUS
<1>n. PICK n \in Nat : n = Len(b)
  OBVIOUS
<1>1. /\ Len(t) = l + n /\ DOMAIN t = 1 .. l + n /\ DOMAIN a = 1 .. l /\ DOMAIN b = 1 .. n
      /\ \A i \in 1 .. l : t[i] = a[i]
      /\ \A i \in 1 .. n : t[l + i] = b[i]
  BY <1>t, <1>l, <1>n, TokenConcat
<1> DEFINE A == MarksOf(a, mark)
           B == MarksOf(b, mark)
           C == {i \in l + 1 .. l + n : t[i] = mark}
           f == [i \in B |-> l + i]
<1>2. IsFiniteSet(A) /\ IsFiniteSet(B) /\ Count(a, mark) = Cardinality(A) /\ Count(b, mark) = Cardinality(B)
      /\ Cardinality(A) \in Nat /\ Cardinality(B) \in Nat
  BY MarksFinite
<1>3. B \subseteq 1 .. n /\ A \subseteq 1 .. l
  BY <1>1 DEF MarksOf
<1>4. f \in [B -> C]
  BY <1>1, <1>3 DEF MarksOf
<1>5. \A i, j \in B : f[i] = f[j] => i = j
  BY <1>3
<1>6. \A j \in C : \E i \in B : f[i] = j
  <2> TAKE j \in C
  <2>1. j - l \in 1 .. n /\ l + (j - l) = j
    OBVIOUS
  <2>2. j - l \in B
    BY <1>1, <2>1 DEF MarksOf
  <2>3. f[j - l] = j
    BY <2>1, <2>2
  <2> QED BY <2>2, <2>3
<1>7. ExistsBijection(B, C)
  <2> HIDE DEF f, B, C
  <2> QED BY <1>4, <1>5, <1>6 DEF ExistsBijection, Bijection, Injection, Surjection, IsInjective
<1>8. IsFiniteSet(C) /\ Cardinality(C) = Cardinality(B)
  <2> HIDE DEF B, C
  <2> QED BY <1>2, <1>7, FS_Bijection
<1>9. A \cap C = {} /\ MarksOf(t, mark) = A \cup C
  BY <1>1, <1>3 DEF MarksOf
<1>10. Cardinality(A \cup C) = Cardinality(A) + Cardinality(C) - Cardinality(A \cap C)
  <2> HIDE DEF A, C
  <2> QED BY <1>2, <1>8, FS_Union
<1>11. Cardinality(A \cup C) = Cardinality(A) + Cardinality(B)
  <2> HIDE DEF A, B, C
  <2>1. Cardinality(A \cap C) = 0
    BY <1>9, FS_EmptySet
  <2> QED BY <1>2, <1>8, <1>10, <2>1
<1>12. Count(t, mark) = Cardinality(MarksOf(t, mark))
  BY MarksFinite
<1> QED BY <1>t, <1>2, <1>9, <1>11, <1>12

Even(t) == Count(t, Quote) % 2 = 0

(* Two sequences with an even number of quotes make one.                   *)
LEMMA EvenConcat ==
  ASSUME NEW a \in Seq(Token), NEW b \in Seq(Token), Even(a), Even(b)
  PROVE  Even(a \o b)
<1>1. Count(a \o b, Quote) = Count(a, Quote) + Count(b, Quote)
  BY CountConcat
<1>2. Count(a, Quote) \in Nat /\ Count(b, Quote) \in Nat
  BY MarksFinite
<1> QED BY <1>1, <1>2 DEF Even

(* Without a quote their number is even.                                   *)
LEMMA EvenPlain ==
  ASSUME NEW t \in Seq(Token), \A i \in 1 .. Len(t) : t[i] # Quote
  PROVE  Even(t)
<1>1. MarksOf(t, Quote) = {}
  BY DEF MarksOf
<1>2. Count(t, Quote) = 0
  BY <1>1, MarksFinite, FS_EmptySet
<1> QED BY <1>2 DEF Even

(* So it is between two quotes, and what is between them can be read.      *)
LEMMA EvenQuoted ==
  ASSUME NEW t \in Seq(Token), \A i \in 1 .. Len(t) : t[i] # Quote
  PROVE  Quoted(t) \in Seq(Token) /\ Even(Quoted(t)) /\ Len(Quoted(t)) = Len(t) + 2
         /\ SubstringFromString(Quoted(t)) = t
         /\ \A i \in 1 .. Len(t) + 2 : Quoted(t)[i] \in {Quote} \cup {t[j] : j \in 1 .. Len(t)}
<1>q. PICK q \in Seq(Token) : q = <<Quote>> /\ Len(q) = 1 /\ q[1] = Quote
  BY MarkSeqs
<1>1. MarksOf(q, Quote) = {1}
  BY <1>q DEF MarksOf
<1>2. Count(q, Quote) = 1
  <2>1. Count(q, Quote) = Cardinality({1})
    BY <1>1, MarksFinite
  <2>2. Cardinality({1}) = 1
    BY ONLY FS_Singleton
  <2> QED BY ONLY <2>1, <2>2
<1>3. MarksOf(t, Quote) = {}
  BY DEF MarksOf
<1>4. Count(t, Quote) = 0
  <2>1. Count(t, Quote) = Cardinality({})
    BY <1>3, MarksFinite
  <2>2. Cardinality({}) = 0
    BY ONLY FS_EmptySet
  <2> QED BY ONLY <2>1, <2>2
<1>s. PICK s \in Seq(Token) : s = q \o t
  BY TokenConcat
<1>5. Count(s, Quote) = 1
  BY <1>2, <1>4, <1>s, CountConcat
<1>r. PICK r \in Seq(Token) : r = s \o q
  BY TokenConcat
<1>6. Count(r, Quote) = 2
  BY <1>2, <1>5, <1>r, CountConcat
<1>7. r = Quoted(t)
  BY <1>q, <1>r, <1>s DEF Quoted
<1>8. Even(r)
  BY <1>6 DEF Even
<1>l. PICK l \in Nat : l = Len(t)
  OBVIOUS
<1>9. Len(s) = l + 1 /\ s[1] = Quote /\ \A i \in 1 .. l : s[1 + i] = t[i]
  BY <1>q, <1>s, <1>l, TokenConcat
<1>10. Len(r) = l + 2 /\ (\A i \in 1 .. l + 1 : r[i] = s[i]) /\ r[l + 2] = Quote
  <2>1. /\ Len(s \o q) = Len(s) + Len(q)
        /\ \A i \in 1 .. Len(s) : (s \o q)[i] = s[i]
        /\ \A i \in 1 .. Len(q) : (s \o q)[Len(s) + i] = q[i]
    BY TokenConcat
  <2> QED BY <1>q, <1>r, <1>9, <2>1
<1>11. ASSUME NEW i \in 1 .. l PROVE r[1 + i] = t[i]
  <2>1. PICK j \in 1 .. l + 1 : j = 1 + i
    OBVIOUS
  <2> QED BY <1>9, <1>10, <2>1
<1>12. ASSUME NEW i \in 1 .. l + 2 PROVE r[i] \in {Quote} \cup {t[j] : j \in 1 .. l}
  <2>1. CASE i = 1 \/ i = l + 2
    BY <1>9, <1>10, <2>1
  <2>2. CASE i # 1 /\ i # l + 2
    <3>1. PICK j \in 1 .. l : i = 1 + j
      <4>1. i - 1 \in 1 .. l /\ i = 1 + (i - 1)
        BY <2>2
      <4> QED BY <4>1
    <3> QED BY <1>11, <3>1
  <2> QED BY <2>1, <2>2
<1>13. SubstringFromString(r) = t
  <2>1. PICK p : p = SubSeq(r, 2, Len(r) - 1)
    OBVIOUS
  <2>y. PICK y \in Nat : y = l + 1
    OBVIOUS
  <2>2. p = SubSeq(r, 2, y) /\ 1 <= 2 /\ 2 <= y + 1 /\ y <= Len(r)
    BY <1>10, <2>1, <2>y
  <2>3. p \in Seq(Token) /\ Len(p) = y - 2 + 1 /\ \A i \in 1 .. y - 2 + 1 : p[i] = r[2 + i - 1]
    BY <2>2, TokenSubSeq
  <2>4. \A i \in 1 .. l : 2 + i - 1 = 1 + i
    OBVIOUS
  <2>5. Len(p) = l /\ \A i \in 1 .. l : p[i] = r[1 + i]
    BY <2>3, <2>4, <2>y
  <2>6. p = t
    BY <1>11, <1>l, <2>3, <2>5, TokenEqual
  <2> QED BY <2>1, <2>6 DEF SubstringFromString
<1> QED BY <1>7, <1>8, <1>10, <1>12, <1>13, <1>l

-----------------------------------------------------------------------------
(* Where each field of what is joined is.                                  *)

(* A field has no comma and no new line, and an even number of quotes.     *)
Clean(f) ==
    /\ f \in Seq(Token)
    /\ \A j \in 1 .. Len(f) : f[j] # Comma /\ f[j] # NewLine
    /\ Even(f)

Climbs(P, n) ==
    /\ P \in [0 .. n -> Nat]
    /\ \A i, j \in 0 .. n : i < j => P[i] < P[j]

(* Places that grow at each step grow from any one to any later one.       *)
LEMMA StepsClimb ==
  ASSUME NEW n \in Nat, NEW P \in [0 .. n -> Nat], \A k \in 1 .. n : P[k - 1] < P[k]
  PROVE  Climbs(P, n)
<1> DEFINE S == {j \in Nat : j \in 0 .. n => \A i \in 0 .. n : i < j => P[i] < P[j]}
<1>1. 0 \in S
  OBVIOUS
<1>2. ASSUME NEW j \in Nat, j \in S PROVE j + 1 \in S
  <2> SUFFICES ASSUME j + 1 \in 0 .. n, NEW i \in 0 .. n, i < j + 1 PROVE P[i] < P[j + 1]
    OBVIOUS
  <2>k. PICK k \in 1 .. n : k = j + 1
    OBVIOUS
  <2>1. k - 1 = j /\ j \in 0 .. n /\ k \in 0 .. n
    BY <2>k
  <2>2. P[j] < P[k]
    BY <2>1
  <2>3. i = j \/ P[i] < P[j]
    BY <1>2, <2>1
  <2>4. P[i] \in Nat /\ P[j] \in Nat /\ P[k] \in Nat
    BY <2>1
  <2>5. P[i] < P[k]
    BY <2>2, <2>3, <2>4
  <2> QED BY <2>k, <2>5
<1> HIDE DEF S
<1>3. Nat \subseteq S
  BY <1>1, <1>2, Induction
<1>4. ASSUME NEW i \in 0 .. n, NEW j \in 0 .. n, i < j PROVE P[i] < P[j]
  BY <1>3, <1>4 DEF S
<1> QED BY <1>4 DEF Climbs

(* t is k fields of which P gives the ends.                                *)
Laid(t, P, fields, k) ==
    /\ t \in Seq(Token) /\ Even(t) /\ P[k] = Len(t) + 1
    /\ \A j \in 1 .. Len(t) : t[j] # NewLine
    /\ \A j \in 1 .. Len(t) : t[j] = Comma <=> \E i \in 1 .. k - 1 : j = P[i]
    /\ \A i \in 1 .. k - 1 : Even(SubSeq(t, 1, P[i]))
    /\ \A i \in 1 .. k : SubSeq(t, P[i - 1] + 1, P[i] - 1) = fields[i]

(* The first field is laid at the beginning.                               *)
LEMMA LaidFirst ==
  ASSUME NEW n \in Nat, n # 0, NEW P, Climbs(P, n), P[0] = 0,
         NEW t, NEW fields, t = fields[1], Clean(t), P[1] = Len(t) + 1
  PROVE  Laid(t, P, fields, 1)
<1>1. t \in Seq(Token) /\ Len(t) \in Nat
  BY DEF Clean
<1>2. SubSeq(t, 1, Len(t)) = t
  BY <1>1
<1>3. ASSUME NEW i \in 1 .. 1 PROVE SubSeq(t, P[i - 1] + 1, P[i] - 1) = fields[i]
  <2>1. i = 1 /\ P[i - 1] + 1 = 1 /\ P[i] - 1 = Len(t)
    BY <1>1
  <2> QED BY <1>2, <2>1
<1>5. 1 .. 1 - 1 = {}
  OBVIOUS
<1> QED BY <1>1, <1>3, <1>5 DEF Laid, Clean

(* The next one is laid after a comma.                                     *)
LEMMA LaidNext ==
  ASSUME NEW n \in Nat, NEW P, Climbs(P, n), NEW k \in Nat, k # 0, k < n,
         NEW a, NEW fields, Laid(a, P, fields, k), NEW f, f = fields[k + 1], Clean(f),
         NEW t, t = a \o (<<Comma>> \o f), NEW m \in Nat, m = k + 1, P[m] = Len(t) + 1
  PROVE  Laid(t, P, fields, m)
<1>l. PICK l \in Nat : l = Len(a)
  BY DEF Laid
<1>a. a \in Seq(Token) /\ Even(a) /\ f \in Seq(Token) /\ Even(f) /\ P[k] = l + 1
  BY <1>l DEF Laid, Clean
<1>1. /\ t \in Seq(Token) /\ Len(t) = l + 1 + Len(f)
      /\ \A j \in 1 .. l : t[j] = a[j]
      /\ t[l + 1] = Comma
      /\ \A j \in 1 .. Len(f) : t[l + 1 + j] = f[j]
      /\ \A x, y \in Nat : 1 <= x /\ x <= y + 1 /\ y <= l => SubSeq(t, x, y) = SubSeq(a, x, y)
      /\ SubSeq(t, l + 2, Len(t)) = f
      /\ SubSeq(t, 1, l + 1) = a \o <<Comma>>
  <2>1. CommaBetween(t, a, f, l)
    BY <1>a, <1>l, CommaConcat
  <2> QED BY <2>1 DEF CommaBetween
<1>c. <<Comma>> \in Seq(Token) /\ Even(<<Comma>>)
  <2>1. <<Comma>> \in Seq(Token) /\ Len(<<Comma>>) = 1 /\ <<Comma>>[1] = Comma
    BY MarkSeqs
  <2>2. Comma # Quote
    BY TokenAssumption
  <2>3. \A i \in 1 .. Len(<<Comma>>) : <<Comma>>[i] # Quote
    BY <2>1, <2>2
  <2> QED BY <2>1, <2>3, EvenPlain
<1>2. Even(t)
  <2>1. <<Comma>> \o f \in Seq(Token) /\ Even(<<Comma>> \o f)
    BY <1>a, <1>c, TokenConcat, EvenConcat
  <2> QED BY <1>a, <2>1, EvenConcat
<1>3. Even(a \o <<Comma>>)
  BY <1>a, <1>c, EvenConcat
<1>p. (\A i \in 0 .. n : P[i] \in Nat) /\ (\A i, j \in 0 .. n : i < j => P[i] < P[j])
  BY DEF Climbs
<1>k. k \in 0 .. n /\ m \in 0 .. n /\ m - 1 = k
  OBVIOUS
<1>4. \A i \in 0 .. m - 1 : P[i] <= P[k]
  <2> TAKE i \in 0 .. m - 1
  <2>1. i \in 0 .. n /\ k \in 0 .. n /\ (i < k \/ i = k)
    OBVIOUS
  <2>2. i < k => P[i] < P[k]
    BY <1>p, <2>1
  <2>3. P[i] \in Nat /\ P[k] \in Nat
    BY <1>p, <2>1
  <2> QED BY <2>1, <2>2, <2>3
<1>6. ASSUME NEW j \in 1 .. Len(t)
      PROVE  /\ t[j] # NewLine
             /\ t[j] = Comma <=> \E i \in 1 .. m - 1 : j = P[i]
  <2>1. CASE j <= l
    <3>1. j \in 1 .. Len(a) /\ t[j] = a[j]
      BY <1>1, <1>l, <2>1
    <3>2. a[j] # NewLine /\ (a[j] = Comma <=> \E i \in 1 .. k - 1 : j = P[i])
      BY <3>1 DEF Laid
    <3>3. j # P[k]
      BY <1>a, <2>1
    <3>4. (\E i \in 1 .. k - 1 : j = P[i]) <=> (\E i \in 1 .. m - 1 : j = P[i])
      <4>1. \A i : i \in 1 .. m - 1 <=> i \in 1 .. k - 1 \/ i = k
        OBVIOUS
      <4> QED BY <3>3, <4>1
    <3> QED BY <3>1, <3>2, <3>4
  <2>2. CASE j = l + 1
    <3>1. t[j] = Comma /\ Comma # NewLine
      BY <1>1, <2>2, TokenAssumption
    <3>2. k \in 1 .. m - 1 /\ j = P[k]
      BY <1>a, <2>2
    <3> QED BY <3>1, <3>2
  <2>3. CASE l + 1 < j
    <3>1. PICK x \in 1 .. Len(f) : j = l + 1 + x
      <4>1. j - (l + 1) \in 1 .. Len(f) /\ j = l + 1 + (j - (l + 1))
        BY <1>1, <2>3
      <4> QED BY <4>1
    <3>2. t[j] = f[x]
      BY <1>1, <3>1
    <3>3. t[j] # NewLine /\ t[j] # Comma
      BY <3>2 DEF Clean
    <3>4. ASSUME NEW i \in 1 .. m - 1 PROVE j # P[i]
      <4>1. P[i] <= P[k] /\ P[i] \in Nat
        BY <1>4, <1>p
      <4> QED BY <1>a, <2>3, <4>1
    <3> QED BY <3>3, <3>4
  <2> QED BY <2>1, <2>2, <2>3
<1>7. ASSUME NEW i \in 1 .. m - 1 PROVE Even(SubSeq(t, 1, P[i]))
  <2>1. CASE i = k
    <3>1. SubSeq(t, 1, P[i]) = a \o <<Comma>>
      BY <1>1, <1>a, <2>1
    <3> QED BY <1>3, <3>1
  <2>2. CASE i # k
    <3>1. i \in 1 .. k - 1 /\ i \in 0 .. k - 1 /\ i \in 0 .. n
      BY <2>2
    <3>2. Even(SubSeq(a, 1, P[i])) /\ P[i] < P[k] /\ P[i] \in Nat
      BY <1>p, <1>k, <3>1 DEF Laid
    <3>y. PICK y \in Nat : y = P[i]
      BY <3>2
    <3>x. PICK x \in Nat : x = 1
      OBVIOUS
    <3>3. 1 <= x /\ x <= y + 1 /\ y <= l
      BY <1>a, <3>2, <3>x, <3>y
    <3>4. SubSeq(t, x, y) = SubSeq(a, x, y)
      BY <1>1, <3>3
    <3> QED BY <3>2, <3>4, <3>x, <3>y
  <2> QED BY <2>1, <2>2
<1>8. ASSUME NEW i \in 1 .. m PROVE SubSeq(t, P[i - 1] + 1, P[i] - 1) = fields[i]
  <2>1. CASE i = m
    <3>1. P[i - 1] + 1 = l + 2 /\ P[i] - 1 = Len(t) /\ fields[i] = f
      BY <1>1, <1>a, <1>k, <2>1
    <3> QED BY <1>1, <3>1
  <2>2. CASE i # m
    <3>1. i \in 1 .. k /\ i - 1 \in 0 .. k - 1 /\ i \in 0 .. n /\ i - 1 \in 0 .. n /\ i \in 0 .. m - 1
      BY <2>2
    <3>2. P[i] \in Nat /\ P[i - 1] \in Nat /\ P[i] <= P[k]
      BY <1>p, <1>4, <3>1
    <3>3. SubSeq(a, P[i - 1] + 1, P[i] - 1) = fields[i]
      BY <3>1 DEF Laid
    <3>4. P[i - 1] < P[i]
      BY <1>p, <3>1
    <3>x. PICK x \in Nat : x = P[i - 1] + 1
      BY <3>2
    <3>y. PICK y \in Nat : y = P[i] - 1
      BY <3>2, <3>4
    <3>z. PICK z \in Nat : z = P[k] /\ z = l + 1
      BY <1>a
    <3>p. PICK p \in Nat : p = P[i]
      BY <3>2
    <3>q. PICK q \in Nat : q = P[i - 1]
      BY <3>2
    <3>7. q < p /\ p <= z
      BY <3>2, <3>4, <3>z, <3>p, <3>q
    <3>8. x = q + 1 /\ y = p - 1
      BY <3>x, <3>y, <3>p, <3>q
    <3>5. 1 <= x /\ x <= y + 1 /\ y <= l
      BY <3>7, <3>8, <3>z
    <3>6. SubSeq(t, x, y) = SubSeq(a, x, y)
      BY <1>1, <3>5
    <3> QED BY <3>3, <3>6, <3>x, <3>y
  <2> QED BY <2>1, <2>2
<1> QED BY <1>1, <1>2, <1>6, <1>7, <1>8 DEF Laid

(* What is joined of clean fields.                                         *)
LEMMA Layout ==
  ASSUME NEW fields \in Seq(Seq(Token)), NEW n \in Nat, n = Len(fields), n # 0,
         \A i \in 1 .. n : Clean(fields[i])
  PROVE  \E P : Climbs(P, n) /\ P[0] = 0 /\ Laid(Joined(fields), P, fields, n)
<1>1. PICK u : Joins(u, fields) /\ Joined(fields) = u[n]
  BY JoinedIs
<1>2. /\ \A k \in 1 .. n : u[k] \in Seq(Token) /\ Len(u[k]) \in Nat
      /\ u[1] = fields[1]
      /\ \A k \in 1 .. n : k > 1 => u[k] = u[k - 1] \o (<<Comma>> \o fields[k])
  <2>1. /\ u \in [1 .. n -> Seq(Token)] /\ u[1] = fields[1]
        /\ \A k \in 1 .. n : k > 1 => u[k] = u[k - 1] \o (<<Comma>> \o fields[k])
    BY <1>1 DEF Joins
  <2>2. \A k \in 1 .. n : u[k] \in Seq(Token)
    BY <2>1
  <2>3. \A s \in Seq(Token) : Len(s) \in Nat
    OBVIOUS
  <2> QED BY <2>1, <2>2, <2>3
<1>P. PICK P : P = [i \in 0 .. n |-> IF i = 0 THEN 0 ELSE Len(u[i]) + 1]
  OBVIOUS
<1>3. /\ P[0] = 0 /\ \A i \in 1 .. n : P[i] = Len(u[i]) + 1
  BY <1>P
<1>4. P \in [0 .. n -> Nat]
  BY <1>P, <1>2
<1>5. ASSUME NEW k \in 1 .. n PROVE P[k - 1] < P[k]
  <2>1. CASE k = 1
    BY <1>2, <1>3, <2>1
  <2>2. CASE k # 1
    <3>1. k > 1 /\ k - 1 \in 1 .. n
      BY <2>2
    <3>2. u[k] = u[k - 1] \o (<<Comma>> \o fields[k])
      BY <1>2, <3>1
    <3>3. u[k - 1] \in Seq(Token) /\ fields[k] \in Seq(Token)
      BY <1>2, <3>1 DEF Clean
    <3>l. PICK l \in Nat : l = Len(u[k - 1])
      BY <1>2, <3>1
    <3>4. Len(u[k]) = l + 1 + Len(fields[k])
      <4>1. CommaBetween(u[k], u[k - 1], fields[k], l)
        BY <3>2, <3>3, <3>l, CommaConcat
      <4> QED BY <4>1 DEF CommaBetween
    <3>x. PICK x \in Nat : x = Len(fields[k])
      BY <3>3
    <3>5. P[k] = Len(u[k]) + 1 /\ P[k - 1] = l + 1
      BY <1>3, <3>1, <3>l
    <3>6. P[k] = l + 1 + x + 1
      BY <3>4, <3>5, <3>x
    <3> QED BY <3>5, <3>6
  <2> QED BY <2>1, <2>2
<1>6. Climbs(P, n)
  BY <1>4, <1>5, StepsClimb
<1> DEFINE S == {k \in Nat : k \in 1 .. n => Laid(u[k], P, fields, k)}
<1>7. 0 \in S
  OBVIOUS
<1>8. ASSUME NEW k \in Nat, k \in S PROVE k + 1 \in S
  <2> SUFFICES ASSUME k + 1 \in 1 .. n PROVE Laid(u[k + 1], P, fields, k + 1)
    OBVIOUS
  <2>m. PICK m \in Nat : m = k + 1
    OBVIOUS
  <2>1. m \in 1 .. n /\ Clean(fields[m]) /\ P[m] = Len(u[m]) + 1
    BY <1>3, <2>m
  <2>2. CASE m = 1
    <3>1. u[1] = fields[1] /\ Clean(u[1]) /\ P[1] = Len(u[1]) + 1
      BY <1>2, <2>1, <2>2
    <3>2. Laid(u[1], P, fields, 1)
      BY <1>3, <1>6, <3>1, LaidFirst
    <3> QED BY <2>m, <2>2, <3>2
  <2>3. CASE m # 1
    <3>1. m > 1 /\ m - 1 = k /\ k \in 1 .. n /\ k # 0 /\ k < n
      BY <2>m, <2>1, <2>3
    <3>2. Laid(u[k], P, fields, k)
      BY <1>8, <3>1
    <3>3. u[m] = u[k] \o (<<Comma>> \o fields[m])
      BY <1>2, <2>1, <3>1
    <3>a. PICK a : a = u[k]
      OBVIOUS
    <3>t. PICK t : t = u[m]
      OBVIOUS
    <3>f. PICK f : f = fields[k + 1]
      OBVIOUS
    <3>4. Laid(a, P, fields, k) /\ Clean(f) /\ t = a \o (<<Comma>> \o f) /\ P[m] = Len(t) + 1
      BY <2>m, <2>1, <3>2, <3>3, <3>a, <3>t, <3>f
    <3>5. Laid(t, P, fields, m)
      BY <1>6, <2>m, <3>1, <3>4, <3>f, LaidNext
    <3> QED BY <2>m, <3>t, <3>5
  <2> QED BY <2>2, <2>3
<1> HIDE DEF S
<1>9. Nat \subseteq S
  BY <1>7, <1>8, Induction
<1>10. Laid(u[n], P, fields, n)
  BY <1>9 DEF S
<1> QED BY <1>1, <1>3, <1>6, <1>10

(* Clean fields are what g_strsplit makes of what is joined of them.       *)
LEMMA SplitWhole ==
  ASSUME NEW n \in Nat, n # 0, NEW N \in Nat, n <= N, NEW P, Climbs(P, n), P[0] = 0,
         NEW t, NEW fields, Laid(t, P, fields, n)
  PROVE  /\ DOMAIN Split(t, N) = 1 .. n /\ Len(Split(t, N)) = n
         /\ \A i \in 1 .. n : Split(t, N)[i] = fields[i]
<1>K. PICK K \in Nat : K = n - 1
  OBVIOUS
<1>1. /\ t \in Seq(Token) /\ P[n] = Len(t) + 1 /\ DOMAIN t = 1 .. Len(t) /\ Len(t) \in Nat
      /\ \A j \in 1 .. Len(t) : t[j] = Comma <=> \E i \in 1 .. K : j = P[i]
      /\ \A i \in 1 .. n : SubSeq(t, P[i - 1] + 1, P[i] - 1) = fields[i]
  BY <1>K DEF Laid
<1>2. \A i \in 0 .. K : i \in 0 .. n /\ i < n
  BY <1>K
<1>3. (\A i \in 0 .. n : P[i] \in Nat) /\ (\A i, j \in 0 .. n : i < j => P[i] < P[j])
  BY DEF Climbs
<1>4. ASSUME NEW i \in 1 .. K PROVE P[i] \in CommasOf(t)
  <2>1. i \in 0 .. n /\ 0 \in 0 .. n /\ n \in 0 .. n /\ 0 < i /\ i < n
    BY <1>K
  <2>2. P[i] \in Nat /\ P[0] < P[i] /\ P[i] < P[n]
    BY <1>3, <2>1
  <2>3. P[i] \in 1 .. Len(t)
    BY <1>1, <2>2
  <2> QED BY <1>1, <2>3 DEF CommasOf
<1>5. ASSUME NEW j \in CommasOf(t) PROVE \E i \in 1 .. K : j = P[i]
  BY <1>1 DEF CommasOf
<1>6. Cuts(t, N, K, P)
  <2>1. N = K + 1 \/ N > K + 1
    BY <1>K
  <2>2. \A i \in 0 .. K : P[i] \in Nat
    BY <1>2, <1>3
  <2>3. \A i, j \in 0 .. K : i < j => P[i] < P[j]
    BY <1>2, <1>3
  <2> QED BY <1>4, <1>5, <2>1, <2>2, <2>3 DEF Cuts
<1>7. /\ DOMAIN Split(t, N) = 1 .. K + 1 /\ Len(Split(t, N)) = K + 1
      /\ \A k \in 1 .. K : Split(t, N)[k] = SubSeq(t, P[k - 1] + 1, P[k] - 1)
      /\ Split(t, N)[K + 1] = SubSeq(t, P[K] + 1, Len(t))
  BY <1>1, <1>6, SplitAt
<1>8. K + 1 = n
  BY <1>K
<1>9. ASSUME NEW i \in 1 .. n PROVE Split(t, N)[i] = fields[i]
  <2>1. SubSeq(t, P[i - 1] + 1, P[i] - 1) = fields[i]
    BY <1>1
  <2>2. CASE i \in 1 .. K
    BY <1>7, <2>1, <2>2
  <2>3. CASE i \notin 1 .. K
    <3>1. i = n /\ i - 1 = K /\ i = K + 1
      BY <1>K, <2>3
    <3>2. P[i] - 1 = Len(t)
      BY <1>1, <3>1
    <3>3. Split(t, N)[i] = SubSeq(t, P[i - 1] + 1, Len(t))
      BY <1>7, <3>1
    <3> QED BY <2>1, <3>2, <3>3
  <2> QED BY <2>2, <2>3
<1> QED BY <1>7, <1>8, <1>9

(* The n first fields of a longer line, and the rest of it.                *)
LEMMA SplitRest ==
  ASSUME NEW n \in Nat, n # 0, NEW P, Climbs(P, n), P[0] = 0,
         NEW a, NEW fields, Laid(a, P, fields, n),
         NEW b \in Seq(Token), NEW t, CommaBetween(t, a, b, Len(a))
  PROVE  /\ DOMAIN Split(t, n + 1) = 1 .. n + 1 /\ Len(Split(t, n + 1)) = n + 1
         /\ \A i \in 1 .. n : Split(t, n + 1)[i] = fields[i]
         /\ Split(t, n + 1)[n + 1] = b
<1>l. PICK l \in Nat : l = Len(a)
  BY DEF Laid
<1>1. /\ a \in Seq(Token) /\ P[n] = l + 1
      /\ \A j \in 1 .. l : a[j] = Comma <=> \E i \in 1 .. n - 1 : j = P[i]
      /\ \A i \in 1 .. n : SubSeq(a, P[i - 1] + 1, P[i] - 1) = fields[i]
  BY <1>l DEF Laid
<1>2. CommaBetween(t, a, b, l)
  BY <1>l
<1>3. /\ t \in Seq(Token) /\ Len(t) = l + 1 + Len(b) /\ DOMAIN t = 1 .. l + 1 + Len(b) /\ Len(b) \in Nat
      /\ \A j \in 1 .. l : t[j] = a[j]
      /\ t[l + 1] = Comma
      /\ \A x, y \in Nat : 1 <= x /\ x <= y + 1 /\ y <= l => SubSeq(t, x, y) = SubSeq(a, x, y)
      /\ SubSeq(t, l + 2, Len(t)) = b
  <2>1. /\ t \in Seq(Token) /\ Len(t) = l + 1 + Len(b)
        /\ \A j \in 1 .. l : t[j] = a[j]
        /\ t[l + 1] = Comma
        /\ \A x, y \in Nat : 1 <= x /\ x <= y + 1 /\ y <= l => SubSeq(t, x, y) = SubSeq(a, x, y)
        /\ SubSeq(t, l + 2, Len(t)) = b
    BY <1>2 DEF CommaBetween
  <2>2. DOMAIN t = 1 .. Len(t) /\ Len(b) \in Nat
    BY <2>1
  <2> QED BY <2>1, <2>2
<1>t. t \in Seq(Token)
  BY <1>3
<1>4. (\A i \in 0 .. n : P[i] \in Nat) /\ (\A i, j \in 0 .. n : i < j => P[i] < P[j])
  BY DEF Climbs
<1>5. ASSUME NEW i \in 1 .. n PROVE P[i] \in 1 .. l + 1 /\ (i # n => P[i] \in 1 .. l)
  <2>1. i \in 0 .. n /\ 0 \in 0 .. n /\ n \in 0 .. n /\ 0 < i /\ (i < n \/ i = n)
    OBVIOUS
  <2>2. P[i] \in Nat /\ P[0] < P[i] /\ (i < n => P[i] < P[n])
    BY <1>4, <2>1
  <2> QED BY <1>1, <2>1, <2>2
<1>6. ASSUME NEW i \in 1 .. n PROVE P[i] \in CommasOf(t)
  <2>1. CASE i = n
    <3>1. P[i] = l + 1 /\ l + 1 \in DOMAIN t
      BY <1>1, <1>3, <2>1
    <3> QED BY <1>3, <3>1 DEF CommasOf
  <2>2. CASE i # n
    <3>1. P[i] \in 1 .. l /\ i \in 1 .. n - 1
      BY <1>5, <2>2
    <3>2. a[P[i]] = Comma
      BY <1>1, <3>1
    <3>3. P[i] \in DOMAIN t
      BY <1>3, <3>1
    <3> QED BY <1>3, <3>1, <3>2, <3>3 DEF CommasOf
  <2> QED BY <2>1, <2>2
<1>7. ASSUME NEW j \in CommasOf(t), j <= P[n] PROVE \E i \in 1 .. n : j = P[i]
  <2>1. j \in 1 .. l + 1 + Len(b) /\ t[j] = Comma
    BY <1>3 DEF CommasOf
  <2>2. CASE j = l + 1
    BY <1>1, <2>2
  <2>3. CASE j # l + 1
    <3>1. j \in 1 .. l
      BY <1>1, <1>7, <2>1, <2>3
    <3>2. PICK i \in 1 .. n - 1 : j = P[i]
      BY <1>1, <1>3, <2>1, <3>1
    <3>3. i \in 1 .. n
      OBVIOUS
    <3> QED BY <3>2, <3>3
  <2> QED BY <2>2, <2>3
<1>N. PICK N \in Nat : N = n + 1
  OBVIOUS
<1>8. Cuts(t, N, n, P)
  BY <1>N, <1>4, <1>6, <1>7 DEF Cuts
<1>9. /\ DOMAIN Split(t, N) = 1 .. n + 1 /\ Len(Split(t, N)) = n + 1
      /\ \A k \in 1 .. n : Split(t, N)[k] = SubSeq(t, P[k - 1] + 1, P[k] - 1)
      /\ Split(t, N)[n + 1] = SubSeq(t, P[n] + 1, Len(t))
  BY <1>t, <1>8, SplitAt
<1>10. ASSUME NEW i \in 1 .. n PROVE Split(t, N)[i] = fields[i]
  <2>1. i - 1 \in 0 .. n /\ i \in 0 .. n /\ i - 1 < i
    OBVIOUS
  <2>p. PICK p \in Nat : p = P[i] /\ 1 <= p /\ p <= l + 1
    BY <1>5
  <2>q. PICK q \in Nat : q = P[i - 1] /\ q < p
    BY <1>4, <2>1, <2>p
  <2>x. PICK x \in Nat : x = q + 1
    OBVIOUS
  <2>y. PICK y \in Nat : y = p - 1
    BY <2>p
  <2>z. 1 <= p /\ p <= l + 1 /\ q < p
    BY <2>p, <2>q
  <2>2. 1 <= x /\ x <= y + 1 /\ y <= l
    BY <2>z, <2>x, <2>y
  <2>3. SubSeq(t, x, y) = SubSeq(a, x, y)
    BY <1>3, <2>2
  <2>4. SubSeq(a, x, y) = fields[i]
    BY <1>1, <2>p, <2>q, <2>x, <2>y
  <2>5. Split(t, N)[i] = SubSeq(t, x, y)
    BY <1>9, <2>p, <2>q, <2>x, <2>y
  <2> QED BY <2>3, <2>4, <2>5
<1>11. Split(t, N)[N] = b
  <2>1. P[n] + 1 = l + 2
    BY <1>1
  <2>2. Split(t, N)[n + 1] = b
    BY <1>3, <1>9, <2>1
  <2> QED BY <1>N, <2>2
<1> QED BY <1>N, <1>9, <1>10, <1>11

-----------------------------------------------------------------------------
(* The line of a version, and what is read of it.                          *)

(* The meta data that a line is made of.                                   *)
LineMeta(m) ==
    /\ DOMAIN m = Keys
    /\ \A k \in Numbers : m[k] \in Nat
    /\ \A k \in {"owner", "group"} : m[k] = NULL \/ Printable(m[k])
    /\ m["name"] \in Text /\ m["link"] \in Text
    /\ m["hash_list"] \in Seq(Hash)

Fixed(m) ==
    << <<m["filetype"]>>, <<m["inode"]>>, <<m["mode"]>>, <<m["atime"]>>,
       <<m["ctime"]>>, <<m["mtime"]>>, <<m["fsize"]>>,
       Quoted(Printed(m["owner"])), Quoted(Printed(m["group"])),
       <<m["uid"]>>, <<m["gid"]>>,
       Quoted(EncodeToBase64(m["name"])), Quoted(EncodeToBase64(m["link"]))>>

Body(m) == Joined(Fixed(m) \o ConvertHashDataList(m["hash_list"]))

(* A line is its body and a new line.                                      *)
LEMMA LineIs ==
  ASSUME NEW m
  PROVE  Line(m) = Body(m) \o <<NewLine>>
BY DEF Line, Body, Fixed

(* A sequence without a mark, between quotes or not, is a clean field.     *)
LEMMA PlainClean ==
  ASSUME NEW x \in Seq(Token), \A j \in 1 .. Len(x) : x[j] \notin Mark
  PROVE  Clean(x) /\ Clean(Quoted(x)) /\ SubstringFromString(Quoted(x)) = x
<1>1. \A j \in 1 .. Len(x) : x[j] # Quote /\ x[j] # Comma /\ x[j] # NewLine
  BY DEF Mark
<1>2. Clean(x)
  BY <1>1, EvenPlain DEF Clean
<1>q. PICK q : q = Quoted(x)
  OBVIOUS
<1>3. /\ q \in Seq(Token) /\ Even(q) /\ Len(q) = Len(x) + 2
      /\ SubstringFromString(q) = x
      /\ \A i \in 1 .. Len(x) + 2 : q[i] \in {Quote} \cup {x[j] : j \in 1 .. Len(x)}
  BY <1>1, <1>q, EvenQuoted
<1>4. Quote # Comma /\ Quote # NewLine
  BY TokenAssumption
<1>5. \A i \in 1 .. Len(q) : q[i] # Comma /\ q[i] # NewLine
  BY <1>1, <1>3, <1>4
<1>6. Clean(q)
  BY <1>3, <1>5 DEF Clean
<1> QED BY <1>2, <1>3, <1>6, <1>q

(* Numbers, texts, their base64 and hashes are tokens, and no marks.       *)
LEMMA TokenFacts ==
  /\ \A n \in Nat : n \in Token /\ n \notin Mark
  /\ \A t \in Text : t \in Token /\ t \notin Mark /\ Encoded[t] \in Token /\ Encoded[t] \notin Mark
  /\ \A h \in Hash : h \in Token /\ h \notin Mark
<1>1. \A n \in Nat : n \in Token /\ n \notin Mark
  BY TokenAssumption DEF Token
<1>2. \A t \in Text : t \in Token /\ t \notin Mark
  BY TokenAssumption DEF Token
<1>3. \A t \in Text : Encoded[t] \in Token
  BY TextAssumption DEF Token, Range
<1>4. \A t \in Text : Encoded[t] \notin Mark
  BY TextAssumption
<1>5. \A h \in Hash : h \in Token /\ h \notin Mark
  BY TokenAssumption DEF Token
<1> QED BY <1>1, <1>2, <1>3, <1>4, <1>5

(* A token that is not a mark is a clean field, with quotes or without.    *)
LEMMA OneClean ==
  ASSUME NEW x \in Token, x \notin Mark
  PROVE  Clean(<<x>>) /\ Clean(Quoted(<<x>>)) /\ SubstringFromString(Quoted(<<x>>)) = <<x>>
         /\ <<x>> \in Seq(Token)
<1>1. <<x>> \in Seq(Token) /\ Len(<<x>>) = 1 /\ <<x>>[1] = x
  OBVIOUS
<1>2. \A j \in 1 .. Len(<<x>>) : <<x>>[j] \notin Mark
  BY <1>1
<1> QED BY <1>1, <1>2, PlainClean

(* The name of a user or of a group.                                       *)
LEMMA PrintedClean ==
  ASSUME NEW t, t = NULL \/ Printable(t)
  PROVE  /\ Clean(Quoted(Printed(t)))
         /\ SubstringFromString(Quoted(Printed(t))) = Printed(t)
         /\ TextOf(Printed(t)) = IF t = NULL THEN NullText ELSE t
<1>u. PICK u : u = IF t = NULL THEN NullText ELSE t
  OBVIOUS
<1>1. NULL \notin Text /\ NullText \in Text /\ Chars[NullText] = <<NullText>>
  BY TextAssumption
<1>2. u \in Text /\ Printed(t) = Chars[u] /\ Chars[u] \in Seq(Text)
  <2>1. CASE t = NULL
    <3>1. u = NullText /\ Printed(t) = Chars[u]
      BY <1>u, <2>1 DEF Printed
    <3>2. <<NullText>> \in Seq(Text)
      BY <1>1
    <3> QED BY <1>1, <3>1, <3>2
  <2>2. CASE t # NULL
    BY <1>u, <2>2 DEF Printed, Printable
  <2> QED BY <2>1, <2>2
<1>x. PICK x : x = Chars[u]
  OBVIOUS
<1>3. x \in Seq(Token)
  <2>1. Text \subseteq Token
    BY DEF Token
  <2> QED BY <1>2, <1>x, <2>1
<1>4. \A j \in 1 .. Len(x) : x[j] \notin Mark
  <2>1. \A j \in 1 .. Len(x) : x[j] \in Text
    BY <1>2, <1>x
  <2> QED BY <2>1, TokenFacts
<1>5. Clean(Quoted(x)) /\ SubstringFromString(Quoted(x)) = x
  BY <1>3, <1>4, PlainClean
<1>6. TextOf(x) = u
  <2>1. \A s \in Text : Chars[s] = x => s = u
    BY <1>2, <1>x, TextAssumption
  <2>2. Chars[u] = x /\ u \in Text
    BY <1>2, <1>x
  <2>3. (CHOOSE s \in Text : Chars[s] = x) = u
    BY <2>1, <2>2
  <2> QED BY <2>2, <2>3 DEF TextOf
<1> QED BY <1>2, <1>5, <1>6, <1>u, <1>x

(* A name or the target of a link.                                         *)
LEMMA EncodedClean ==
  ASSUME NEW t \in Text
  PROVE  /\ Clean(Quoted(EncodeToBase64(t)))
         /\ SubstringFromString(Quoted(EncodeToBase64(t))) = EncodeToBase64(t)
         /\ DecodeBase64(EncodeToBase64(t)) = t
<1>1. NULL \notin Text
  BY TextAssumption
<1>x. PICK x : x = EncodeToBase64(t)
  OBVIOUS
<1>2. CASE t = Empty
  <2>1. x = <<>>
    BY <1>x, <1>2 DEF EncodeToBase64
  <2>2. x \in Seq(Token) /\ \A j \in 1 .. Len(x) : x[j] \notin Mark
    BY <2>1
  <2>3. DecodeBase64(x) = t
    BY <1>2, <2>1 DEF DecodeBase64
  <2> QED BY <1>x, <2>2, <2>3, PlainClean
<1>3. CASE t # Empty
  <2>1. x = <<Encoded[t]>>
    BY <1>x, <1>1, <1>3 DEF EncodeToBase64
  <2>2. Encoded[t] \in Token /\ Encoded[t] \notin Mark
    BY TokenFacts
  <2>3. Clean(Quoted(x)) /\ SubstringFromString(Quoted(x)) = x
    BY <2>1, <2>2, OneClean
  <2>4. \A s \in Text : x = <<Encoded[s]>> => s = t
    <3> SUFFICES ASSUME NEW s \in Text, x = <<Encoded[s]>> PROVE s = t
      OBVIOUS
    <3>1. <<Encoded[t]>>[1] = <<Encoded[s]>>[1]
      BY <2>1
    <3>2. Encoded[t] = Encoded[s]
      BY <3>1
    <3> QED BY <3>2, TextAssumption
  <2>5. (CHOOSE s \in Text : x = <<Encoded[s]>>) = t
    BY <2>1, <2>4
  <2>6. x # <<>>
    <3>1. Len(<<Encoded[t]>>) = 1 /\ Len(<<>>) = 0
      OBVIOUS
    <3> QED BY <2>1, <3>1
  <2>7. DecodeBase64(x) = t
    BY <2>1, <2>5, <2>6 DEF DecodeBase64
  <2> QED BY <1>x, <2>3, <2>7
<1> QED BY <1>2, <1>3

(* The numbers.                                                            *)
LEMMA NumberClean ==
  ASSUME NEW n \in Nat
  PROVE  Clean(<<n>>) /\ UintFromString(<<n>>) = n
<1>1. Clean(<<n>>)
  BY TokenFacts, OneClean
<1>2. Len(<<n>>) = 1 /\ <<n>>[1] = n
  OBVIOUS
<1>3. n \notin Mark \cup Text \cup Hash \cup Range(Encoded)
  BY TokenAssumption
<1> QED BY <1>1, <1>2, <1>3 DEF UintFromString

(* The first 13 fields are clean: a NULL is printed as a text without      *)
(* marks.                                                                  *)
LEMMA FixedClean ==
  ASSUME NEW m, LineMeta(m)
  PROVE  /\ Fixed(m) \in Seq(Seq(Token)) /\ Len(Fixed(m)) = 13
         /\ \A i \in 1 .. 13 : Clean(Fixed(m)[i])
<1>f. PICK f : f = Fixed(m)
  OBVIOUS
<1>1. \A k \in Numbers : Clean(<<m[k]>>)
  BY NumberClean DEF LineMeta
<1>2. Clean(Quoted(Printed(m["owner"]))) /\ Clean(Quoted(Printed(m["group"])))
  BY PrintedClean DEF LineMeta
<1>3. Clean(Quoted(EncodeToBase64(m["name"]))) /\ Clean(Quoted(EncodeToBase64(m["link"])))
  BY EncodedClean DEF LineMeta
<1>4. Len(f) = 13 /\ DOMAIN f = 1 .. 13 /\ f = [i \in 1 .. 13 |-> f[i]]
  BY <1>f DEF Fixed
<1>5. ASSUME NEW i \in 1 .. 13 PROVE Clean(f[i])
  <2>1. i \in {1, 2, 3, 4, 5, 6, 7, 8, 9, 10, 11, 12, 13}
    OBVIOUS
  <2>2. i \in {1, 2, 3, 4, 5, 6, 7, 10, 11} => Clean(f[i])
    BY <1>1, <1>f DEF Fixed, Numbers
  <2>3. i \in {8, 9, 12, 13} => Clean(f[i])
    BY <1>2, <1>3, <1>f DEF Fixed
  <2> QED BY <2>1, <2>2, <2>3
<1>6. \A i \in 1 .. 13 : f[i] \in Seq(Token)
  BY <1>5 DEF Clean
<1>7. f \in Seq(Seq(Token))
  BY <1>4, <1>6
<1> QED BY <1>4, <1>5, <1>7, <1>f

(* The fields of the hashes are clean, and each gives its hash back.       *)
LEMMA HashesClean ==
  ASSUME NEW l \in Seq(Hash)
  PROVE  /\ ConvertHashDataList(l) \in Seq(Seq(Token)) /\ Len(ConvertHashDataList(l)) = Len(l)
         /\ \A i \in 1 .. Len(l) : /\ Clean(ConvertHashDataList(l)[i])
                                   /\ DecodeHash(SubstringFromString(ConvertHashDataList(l)[i])) = l[i]
<1>n. PICK n \in Nat : n = Len(l)
  OBVIOUS
<1>f. PICK f : f = ConvertHashDataList(l)
  OBVIOUS
<1>1. DOMAIN l = 1 .. n /\ \A i \in 1 .. n : l[i] \in Hash
  BY <1>n
<1>2. f = [i \in 1 .. n |-> Quoted(<<l[i]>>)]
  BY <1>f, <1>1 DEF ConvertHashDataList
<1>3. ASSUME NEW i \in 1 .. n PROVE Clean(f[i]) /\ DecodeHash(SubstringFromString(f[i])) = l[i]
  <2>h. PICK h \in Hash : h = l[i]
    BY <1>1
  <2>1. f[i] = Quoted(<<h>>)
    BY <1>2, <2>h
  <2>2. h \in Token /\ h \notin Mark
    BY TokenFacts
  <2>3. Clean(Quoted(<<h>>)) /\ SubstringFromString(Quoted(<<h>>)) = <<h>>
    BY <2>2, OneClean
  <2>4. Len(<<h>>) = 1 /\ <<h>>[1] = h
    OBVIOUS
  <2>5. DecodeHash(<<h>>) = h
    BY <2>4 DEF DecodeHash
  <2> QED BY <2>1, <2>3, <2>5, <2>h
<1>4. \A i \in 1 .. n : f[i] \in Seq(Token)
  BY <1>3 DEF Clean
<1>5. f \in Seq(Seq(Token)) /\ Len(f) = n
  BY <1>2, <1>4
<1> QED BY <1>3, <1>5, <1>f, <1>n

(* The 13 fields of a line, and its hashes.                                *)
LEMMA BodyLaid ==
  ASSUME NEW m, LineMeta(m)
  PROVE  \E a, P :
           /\ Climbs(P, 13) /\ P[0] = 0 /\ Laid(a, P, Fixed(m), 13)
           /\ \/ m["hash_list"] = <<>> /\ Body(m) = a
              \/ /\ m["hash_list"] # <<>>
                 /\ \E b, Q :
                      /\ Climbs(Q, Len(m["hash_list"])) /\ Q[0] = 0
                      /\ Laid(b, Q, ConvertHashDataList(m["hash_list"]), Len(m["hash_list"]))
                      /\ CommaBetween(Body(m), a, b, Len(a))
<1>l. PICK l \in Seq(Hash) : l = m["hash_list"]
  BY DEF LineMeta
<1>h. PICK h \in Seq(Seq(Token)) : h = ConvertHashDataList(l)
  BY HashesClean
<1>f. PICK f \in Seq(Seq(Token)) : f = Fixed(m)
  BY FixedClean
<1>n. PICK n \in Nat : n = Len(l)
  OBVIOUS
<1>k. PICK k \in Nat : k = 13
  OBVIOUS
<1>1. Len(f) = k /\ k # 0 /\ \A i \in 1 .. k : Clean(f[i])
  <2>1. Len(f) = 13 /\ \A i \in 1 .. 13 : Clean(f[i])
    BY <1>f, FixedClean
  <2> QED BY <1>k, <2>1
<1>2. Len(h) = n /\ \A i \in 1 .. n : Clean(h[i])
  BY <1>h, <1>n, HashesClean
<1>a. PICK a : a = Joined(f)
  OBVIOUS
<1>3. PICK P : Climbs(P, k) /\ P[0] = 0 /\ Laid(a, P, f, k)
  BY <1>a, <1>1, Layout
<1>4. Climbs(P, 13) /\ P[0] = 0 /\ Laid(a, P, Fixed(m), 13)
  BY <1>3, <1>f, <1>k
<1>5. Body(m) = Joined(f \o h)
  BY <1>f, <1>h, <1>l DEF Body
<1>6. CASE l = <<>>
  <2>1. h = <<>>
    BY <1>2, <1>6, <1>n
  <2>2. f \o h = f
    BY <2>1
  <2>3. Body(m) = a
    BY <1>5, <2>2, <1>a
  <2> QED BY <1>4, <1>6, <1>l, <2>3
<1>7. CASE l # <<>>
  <2>1. n # 0 /\ h # <<>> /\ f # <<>>
    BY <1>1, <1>2, <1>7, <1>n
  <2>b. PICK b : b = Joined(h)
    OBVIOUS
  <2>2. PICK Q : Climbs(Q, n) /\ Q[0] = 0 /\ Laid(b, Q, h, n)
    BY <1>2, <2>1, <2>b, Layout
  <2>3. Joined(f \o h) = Joined(f) \o (<<Comma>> \o Joined(h))
    BY <2>1, JoinedConcat
  <2>4. Body(m) = a \o (<<Comma>> \o b)
    BY <1>5, <2>3, <1>a, <2>b
  <2>5. a \in Seq(Token) /\ b \in Seq(Token)
    BY <1>3, <2>2 DEF Laid
  <2>6. CommaBetween(Body(m), a, b, Len(a))
    BY <2>4, <2>5, CommaConcat
  <2>7. /\ Climbs(Q, Len(m["hash_list"])) /\ Q[0] = 0
        /\ Laid(b, Q, ConvertHashDataList(m["hash_list"]), Len(m["hash_list"]))
    BY <2>2, <1>l, <1>h, <1>n
  <2> QED BY <1>4, <1>7, <1>l, <2>6, <2>7
<1> QED BY <1>6, <1>7

(* What is read of the hashes.                                             *)
LEMMA HashesRead ==
  ASSUME NEW l \in Seq(Hash), l # <<>>, NEW b, NEW Q, Climbs(Q, Len(l)), Q[0] = 0,
         Laid(b, Q, ConvertHashDataList(l), Len(l))
  PROVE  MakeHashDataList(b) = l
<1>n. PICK n \in Nat : n = Len(l)
  OBVIOUS
<1>h. PICK h \in Seq(Seq(Token)) : h = ConvertHashDataList(l)
  BY HashesClean
<1>1. n # 0 /\ DOMAIN l = 1 .. n
  BY <1>n
<1>2. Climbs(Q, n) /\ Laid(b, Q, h, n) /\ b \in Seq(Token) /\ Q[n] = Len(b) + 1
  BY <1>n, <1>h DEF Laid
<1>N. PICK N \in Nat : N = Len(b) + 1
  BY <1>2
<1>3. n <= N
  <2> DEFINE S == {i \in Nat : i \in 0 .. n => i <= Q[i]}
  <2>1. 0 \in S
    OBVIOUS
  <2>2. ASSUME NEW i \in Nat, i \in S PROVE i + 1 \in S
    <3> SUFFICES ASSUME i + 1 \in 0 .. n PROVE i + 1 <= Q[i + 1]
      OBVIOUS
    <3>j. PICK j \in 0 .. n : j = i + 1
      OBVIOUS
    <3>1. i \in 0 .. n /\ i < j
      BY <3>j
    <3>2. Q[i] < Q[j] /\ Q[i] \in Nat /\ Q[j] \in Nat
      BY <1>2, <3>1 DEF Climbs
    <3>3. i <= Q[i]
      BY <2>2, <3>1
    <3>4. j <= Q[j]
      BY <3>j, <3>2, <3>3
    <3> QED BY <3>j, <3>4
  <2> HIDE DEF S
  <2>3. Nat \subseteq S
    BY <2>1, <2>2, Induction
  <2>4. n <= Q[n]
    BY <2>3 DEF S
  <2> QED BY <1>2, <1>N, <2>4
<1>s. PICK s : s = Split(b, N)
  OBVIOUS
<1>4. DOMAIN s = 1 .. n /\ \A i \in 1 .. n : s[i] = h[i]
  BY <1>1, <1>2, <1>3, <1>s, SplitWhole
<1>5. \A i \in 1 .. n : DecodeHash(SubstringFromString(h[i])) = l[i]
  BY <1>h, <1>n, HashesClean
<1>6. HashsOf(b) = [i \in DOMAIN s |-> DecodeHash(SubstringFromString(s[i]))]
  BY <1>N, <1>s DEF HashsOf
<1>7. \A i \in 1 .. n : DecodeHash(SubstringFromString(s[i])) = l[i]
  BY <1>4, <1>5
<1>8. HashsOf(b) = [i \in 1 .. n |-> l[i]]
  BY <1>4, <1>6, <1>7
<1>9. l = [i \in 1 .. n |-> l[i]]
  BY <1>n
<1>10. HashsOf(b) = l
  BY <1>8, <1>9
<1>11. Reverse(Prepended(l)) = l
  BY PrependedIsReverse
<1> QED BY <1>10, <1>11 DEF MakeHashDataList

(* The printf of NULL is read back as a name.                              *)
AsRead(m) ==
    [k \in Keys |-> IF k \in {"owner", "group"} /\ m[k] = NULL THEN NullText ELSE m[k]]

(* What is read of a line is what it was made of.                          *)
LEMMA FieldsRead ==
  ASSUME NEW m, LineMeta(m), NEW s, NEW f, f = Fixed(m), \A i \in 1 .. 13 : s[i] = f[i],
         NEW t, s = Split(t, 14),
         m["hash_list"] = IF Len(s) = 14 THEN MakeHashDataList(s[14]) ELSE <<>>
  PROVE  ReadLine(t) = AsRead(m)
<1>1. /\ \A k \in Numbers : UintFromString(<<m[k]>>) = m[k]
  BY NumberClean DEF LineMeta
<1>2. /\ TextOf(SubstringFromString(Quoted(Printed(m["owner"])))) = AsRead(m)["owner"]
      /\ TextOf(SubstringFromString(Quoted(Printed(m["group"])))) = AsRead(m)["group"]
  BY PrintedClean DEF LineMeta, AsRead, Keys, Strings
<1>3. /\ DecodeBase64(SubstringFromString(Quoted(EncodeToBase64(m["name"])))) = m["name"]
      /\ DecodeBase64(SubstringFromString(Quoted(EncodeToBase64(m["link"])))) = m["link"]
  BY EncodedClean DEF LineMeta
<1>4. /\ UintFromString(s[1]) = m["filetype"] /\ UintFromString(s[2]) = m["inode"]
      /\ UintFromString(s[3]) = m["mode"] /\ UintFromString(s[4]) = m["atime"]
      /\ UintFromString(s[5]) = m["ctime"] /\ UintFromString(s[6]) = m["mtime"]
      /\ UintFromString(s[7]) = m["fsize"] /\ UintFromString(s[10]) = m["uid"]
      /\ UintFromString(s[11]) = m["gid"]
  <2>1. /\ f[1] = <<m["filetype"]>> /\ f[2] = <<m["inode"]>> /\ f[3] = <<m["mode"]>>
        /\ f[4] = <<m["atime"]>> /\ f[5] = <<m["ctime"]>> /\ f[6] = <<m["mtime"]>>
        /\ f[7] = <<m["fsize"]>> /\ f[10] = <<m["uid"]>> /\ f[11] = <<m["gid"]>>
    BY DEF Fixed
  <2>2. /\ s[1] = f[1] /\ s[2] = f[2] /\ s[3] = f[3] /\ s[4] = f[4] /\ s[5] = f[5] /\ s[6] = f[6]
        /\ s[7] = f[7] /\ s[10] = f[10] /\ s[11] = f[11]
    OBVIOUS
  <2>3. {"filetype", "inode", "mode", "atime", "ctime", "mtime", "fsize", "uid", "gid"} \subseteq Numbers
    BY DEF Numbers
  <2>4. /\ UintFromString(<<m["filetype"]>>) = m["filetype"]
        /\ UintFromString(<<m["inode"]>>) = m["inode"]
        /\ UintFromString(<<m["mode"]>>) = m["mode"]
        /\ UintFromString(<<m["atime"]>>) = m["atime"]
        /\ UintFromString(<<m["ctime"]>>) = m["ctime"]
        /\ UintFromString(<<m["mtime"]>>) = m["mtime"]
        /\ UintFromString(<<m["fsize"]>>) = m["fsize"]
        /\ UintFromString(<<m["uid"]>>) = m["uid"]
        /\ UintFromString(<<m["gid"]>>) = m["gid"]
    BY <1>1, <2>3
  <2>5. /\ s[1] = <<m["filetype"]>> /\ s[2] = <<m["inode"]>> /\ s[3] = <<m["mode"]>>
        /\ s[4] = <<m["atime"]>> /\ s[5] = <<m["ctime"]>> /\ s[6] = <<m["mtime"]>>
        /\ s[7] = <<m["fsize"]>> /\ s[10] = <<m["uid"]>> /\ s[11] = <<m["gid"]>>
    BY ONLY <2>1, <2>2
  <2> QED BY ONLY <2>4, <2>5
<1>5. /\ TextOf(SubstringFromString(s[8])) = AsRead(m)["owner"]
      /\ TextOf(SubstringFromString(s[9])) = AsRead(m)["group"]
      /\ DecodeBase64(SubstringFromString(s[12])) = m["name"]
      /\ DecodeBase64(SubstringFromString(s[13])) = m["link"]
  <2>1. /\ f[8] = Quoted(Printed(m["owner"])) /\ f[9] = Quoted(Printed(m["group"]))
        /\ f[12] = Quoted(EncodeToBase64(m["name"])) /\ f[13] = Quoted(EncodeToBase64(m["link"]))
    BY DEF Fixed
  <2>2. s[8] = f[8] /\ s[9] = f[9] /\ s[12] = f[12] /\ s[13] = f[13]
    OBVIOUS
  <2> QED BY <1>2, <1>3, <2>1, <2>2
<1>r. PICK r : r = ReadLine(t)
  OBVIOUS
<1>6. /\ r = [k \in Keys |-> r[k]]
      /\ r["filetype"] = UintFromString(s[1]) /\ r["inode"] = UintFromString(s[2])
      /\ r["mode"] = UintFromString(s[3]) /\ r["atime"] = UintFromString(s[4])
      /\ r["ctime"] = UintFromString(s[5]) /\ r["mtime"] = UintFromString(s[6])
      /\ r["fsize"] = UintFromString(s[7]) /\ r["uid"] = UintFromString(s[10])
      /\ r["gid"] = UintFromString(s[11])
      /\ r["owner"] = TextOf(SubstringFromString(s[8]))
      /\ r["group"] = TextOf(SubstringFromString(s[9]))
      /\ r["name"] = DecodeBase64(SubstringFromString(s[12]))
      /\ r["link"] = DecodeBase64(SubstringFromString(s[13]))
      /\ r["hash_list"] = IF Len(s) = 14 THEN MakeHashDataList(s[14]) ELSE <<>>
  BY <1>r DEF ReadLine, Keys, Numbers, Strings
<1>w. PICK w : w = AsRead(m)
  OBVIOUS
<1>7. \A k \in Keys : r[k] = w[k]
  <2>1. \A k \in Keys \ {"owner", "group"} : w[k] = m[k]
    BY <1>w DEF AsRead
  <2>2. r["owner"] = w["owner"] /\ r["group"] = w["group"]
    BY <1>w, <1>5, <1>6
  <2>3. \A k \in Numbers : r[k] = w[k]
    BY <1>4, <1>6, <2>1 DEF Numbers, Keys
  <2>4. r["name"] = w["name"] /\ r["link"] = w["link"] /\ r["hash_list"] = w["hash_list"]
    BY <1>5, <1>6, <2>1 DEF Keys, Strings
  <2> QED BY <2>2, <2>3, <2>4 DEF Keys, Strings
<1>8. w = [k \in Keys |-> w[k]]
  BY <1>w DEF AsRead
<1> QED BY <1>6, <1>7, <1>8, <1>r, <1>w

(* A text that begins with 13 fields has the 12 commas that the reader     *)
(* counts.                                                                 *)
LEMMA TwelveCommas ==
  ASSUME NEW t \in Seq(Token), NEW a, NEW l \in Nat, l = Len(a), l <= Len(t),
         \A j \in 1 .. l : t[j] = a[j],
         NEW P, Climbs(P, 13), P[0] = 0, NEW fields, Laid(a, P, fields, 13)
  PROVE  Commas(t) >= 12
<1>T. PICK T : T = {i \in DOMAIN t : t[i] = Comma /\ ~InString(SubSeq(t, 1, i))}
  OBVIOUS
<1>1. Commas(t) = Cardinality(T)
  BY <1>T DEF Commas
<1>2. IsFiniteSet(T) /\ Cardinality(T) \in Nat
  <2>m. PICK m \in Nat : m = Len(t)
    OBVIOUS
  <2>1. IsFiniteSet(1 .. m) /\ T \in SUBSET (1 .. m)
    BY <1>T, <2>m, FS_Interval
  <2> QED BY <2>1, FS_Subset, FS_CardinalityType
<1>3. (\A i \in 0 .. 13 : P[i] \in Nat) /\ (\A i, j \in 0 .. 13 : i < j => P[i] < P[j])
  BY DEF Climbs
<1>4. /\ a \in Seq(Token) /\ P[13] = l + 1
      /\ \A j \in 1 .. l : a[j] = Comma <=> \E i \in 1 .. 12 : j = P[i]
      /\ \A i \in 1 .. 12 : Even(SubSeq(a, 1, P[i]))
  BY DEF Laid
<1>5. ASSUME NEW i \in 1 .. 12 PROVE P[i] \in T
  <2>1. i \in 0 .. 13 /\ 0 \in 0 .. 13 /\ 13 \in 0 .. 13 /\ 0 < i /\ i < 13
    OBVIOUS
  <2>2. P[0] < P[i] /\ P[i] < P[13] /\ P[i] \in Nat
    BY <1>3, <2>1
  <2>y. PICK y \in Nat : y = P[i]
    BY <2>2
  <2>x. PICK x \in Nat : x = 1
    OBVIOUS
  <2>3. y \in 1 .. l /\ y \in DOMAIN t
    BY <1>4, <2>2, <2>y
  <2>4. a[y] = Comma /\ t[y] = Comma
    BY <1>4, <2>3, <2>y
  <2>p. PICK p : p = SubSeq(t, x, y)
    OBVIOUS
  <2>q. PICK q : q = SubSeq(a, x, y)
    OBVIOUS
  <2>5. 1 <= x /\ x <= y + 1 /\ y <= Len(t) /\ y <= Len(a)
    BY <2>3, <2>x
  <2>6. p \in Seq(Token) /\ Len(p) = y - x + 1 /\ \A j \in 1 .. y - x + 1 : p[j] = t[x + j - 1]
    BY <2>5, <2>p, TokenSubSeq
  <2>7. q \in Seq(Token) /\ Len(q) = y - x + 1 /\ \A j \in 1 .. y - x + 1 : q[j] = a[x + j - 1]
    BY <1>4, <2>5, <2>q, TokenSubSeq
  <2>8. \A j \in 1 .. y - x + 1 : x + j - 1 \in 1 .. l
    BY <2>3, <2>x
  <2>9. \A j \in 1 .. Len(p) : p[j] = q[j]
    BY <2>6, <2>7, <2>8
  <2>10. p = q
    BY <2>6, <2>7, <2>9, TokenEqual
  <2>11. Even(q)
    BY <1>4, <2>q, <2>x, <2>y
  <2>12. ~InString(p)
    BY <2>10, <2>11 DEF InString, Even
  <2>13. p = SubSeq(t, 1, y)
    BY <2>p, <2>x
  <2> QED BY <1>T, <2>3, <2>4, <2>12, <2>13, <2>y
<1>R. PICK R : R = {P[i] : i \in 1 .. 12}
  OBVIOUS
<1>6. R \in SUBSET T
  BY <1>5, <1>R
<1>7. \A i, j \in 1 .. 12 : P[i] = P[j] => i = j
  <2> SUFFICES ASSUME NEW i \in 1 .. 12, NEW j \in 1 .. 12, i # j PROVE P[i] # P[j]
    OBVIOUS
  <2>1. i \in 0 .. 13 /\ j \in 0 .. 13 /\ (i < j \/ j < i)
    OBVIOUS
  <2>2. (P[i] < P[j] \/ P[j] < P[i]) /\ P[i] \in Nat /\ P[j] \in Nat
    BY <1>3, <2>1
  <2> QED BY <2>2
<1>k. PICK k \in Nat : k = 12
  OBVIOUS
<1>8. Lists(P, k, R)
  BY <1>7, <1>R, <1>k DEF Lists
<1>9. Cardinality(R) = k
  BY <1>8, RankIs
<1>10. Cardinality(R) <= Cardinality(T)
  BY <1>2, <1>6, FS_Subset
<1> QED BY <1>1, <1>2, <1>9, <1>10, <1>k

(* The body of a line, and what is read of it.                             *)
LEMMA BodyFacts ==
  ASSUME NEW m, LineMeta(m)
  PROVE  /\ Body(m) \in Seq(Token) /\ Even(Body(m)) /\ Commas(Body(m)) >= 12
         /\ \A j \in 1 .. Len(Body(m)) : Body(m)[j] # NewLine
         /\ ReadLine(Body(m)) = AsRead(m)
<1>t. PICK t : t = Body(m)
  OBVIOUS
<1>f. PICK f : f = Fixed(m)
  OBVIOUS
<1>1. PICK a, P :
           /\ Climbs(P, 13) /\ P[0] = 0 /\ Laid(a, P, f, 13)
           /\ \/ m["hash_list"] = <<>> /\ t = a
              \/ /\ m["hash_list"] # <<>>
                 /\ \E b, Q :
                      /\ Climbs(Q, Len(m["hash_list"])) /\ Q[0] = 0
                      /\ Laid(b, Q, ConvertHashDataList(m["hash_list"]), Len(m["hash_list"]))
                      /\ CommaBetween(t, a, b, Len(a))
  BY <1>t, <1>f, BodyLaid
<1>k. PICK k \in Nat : k = 13 /\ k # 0
  OBVIOUS
<1>2. Climbs(P, k) /\ Laid(a, P, f, k)
  BY <1>1, <1>k
<1>l. PICK l \in Nat : l = Len(a)
  BY <1>2 DEF Laid
<1>s. PICK s : s = Split(t, 14)
  OBVIOUS
<1>3. /\ a \in Seq(Token) /\ Even(a) /\ \A j \in 1 .. l : a[j] # NewLine
  BY <1>2, <1>l DEF Laid
<1>4. CASE m["hash_list"] = <<>>
  <2>1. t = a
    BY <1>1, <1>4
  <2>2. Commas(t) >= 12
    BY <1>1, <1>3, <1>l, <2>1, TwelveCommas
  <2>N. PICK N \in Nat : N = 14 /\ k <= N
    BY <1>k
  <2>a. Laid(t, P, f, k)
    BY <1>2, <2>1
  <2>b. Climbs(P, k) /\ P[0] = 0 /\ k # 0 /\ k <= N
    BY <1>1, <1>2, <1>k, <2>N
  <2>3. Len(Split(t, N)) = k /\ \A i \in 1 .. k : Split(t, N)[i] = f[i]
    BY ONLY <2>a, <2>b, SplitWhole, k \in Nat, N \in Nat
  <2>4. Len(s) = 13 /\ \A i \in 1 .. 13 : s[i] = f[i]
    BY <1>k, <1>s, <2>N, <2>3
  <2>5. m["hash_list"] = IF Len(s) = 14 THEN MakeHashDataList(s[14]) ELSE <<>>
    BY <1>4, <2>4
  <2>6. ReadLine(t) = AsRead(m)
    BY <1>f, <1>s, <2>4, <2>5, FieldsRead
  <2> QED BY <1>3, <1>l, <1>t, <2>1, <2>2, <2>6
<1>5. CASE m["hash_list"] # <<>>
  <2>h. PICK h \in Seq(Hash) : h = m["hash_list"]
    BY DEF LineMeta
  <2>1. PICK b, Q : /\ Climbs(Q, Len(h)) /\ Q[0] = 0
                    /\ Laid(b, Q, ConvertHashDataList(h), Len(h))
                    /\ CommaBetween(t, a, b, Len(a))
    BY <1>1, <1>5, <2>h
  <2>2. MakeHashDataList(b) = h
    BY <1>5, <2>h, <2>1, HashesRead
  <2>3. b \in Seq(Token) /\ Even(b) /\ \A j \in 1 .. Len(b) : b[j] # NewLine
    BY <2>1 DEF Laid
  <2>4. /\ t \in Seq(Token) /\ Len(t) = l + 1 + Len(b)
        /\ \A j \in 1 .. l : t[j] = a[j]
        /\ t[l + 1] = Comma
        /\ \A j \in 1 .. Len(b) : t[l + 1 + j] = b[j]
        /\ SubSeq(t, l + 2, Len(t)) = b
        /\ SubSeq(t, 1, l + 1) = a \o <<Comma>>
    BY <1>l, <2>1 DEF CommaBetween
  <2>n. PICK n \in Nat : n = Len(b)
    BY <2>3
  <2>5. l <= Len(t)
    BY <2>4, <2>n
  <2>6. Commas(t) >= 12
    BY <1>1, <1>l, <2>4, <2>5, TwelveCommas
  <2>7. ASSUME NEW j \in 1 .. Len(t) PROVE t[j] # NewLine
    <3>1. CASE j \in 1 .. l
      BY <1>3, <2>4, <3>1
    <3>2. CASE j = l + 1
      BY <2>4, <3>2, TokenAssumption
    <3>3. CASE j > l + 1
      <4>1. PICK i \in 1 .. Len(b) : j = l + 1 + i
        <5>1. j - (l + 1) \in 1 .. n /\ j = l + 1 + (j - (l + 1))
          BY <2>4, <2>n, <3>3
        <5> QED BY <5>1, <2>n
      <4> QED BY <2>3, <2>4, <4>1
    <3> QED BY <3>1, <3>2, <3>3
  <2>8. Even(t)
    <3>p. PICK p \in Seq(Token) : p = SubSeq(t, 1, l + 1) /\ Even(p)
      <4>1. <<Comma>> \in Seq(Token) /\ Len(<<Comma>>) = 1 /\ <<Comma>>[1] = Comma /\ Comma # Quote
        BY MarkSeqs, TokenAssumption
      <4>2. \A i \in 1 .. Len(<<Comma>>) : <<Comma>>[i] # Quote
        BY <4>1
      <4>3. Even(<<Comma>>)
        BY <4>1, <4>2, EvenPlain
      <4>4. a \o <<Comma>> \in Seq(Token) /\ Even(a \o <<Comma>>)
        BY <1>3, <4>1, <4>3, EvenConcat, TokenConcat
      <4> QED BY <2>4, <4>4
    <3>1. t = p \o b
      <4>1. Len(p) = l + 1 /\ \A j \in 1 .. l + 1 : p[j] = t[j]
        <5>y. PICK y \in Nat : y = l + 1
          OBVIOUS
        <5>x. PICK x \in Nat : x = 1
          OBVIOUS
        <5>1. 1 <= x /\ x <= y + 1 /\ y <= Len(t) /\ p = SubSeq(t, x, y)
          BY <2>4, <2>n, <3>p, <5>x, <5>y
        <5>2. Len(p) = y - x + 1 /\ \A i \in 1 .. y - x + 1 : p[i] = t[x + i - 1]
          BY <2>4, <5>1, TokenSubSeq
        <5>3. y - x + 1 = l + 1 /\ \A i \in 1 .. l + 1 : x + i - 1 = i
          BY <5>x, <5>y
        <5> QED BY <5>2, <5>3
      <4>r. PICK r \in Seq(Token) : r = p \o b
        BY <2>3, TokenConcat
      <4>c. /\ Len(r) = Len(p) + Len(b)
            /\ \A j \in 1 .. Len(p) : r[j] = p[j]
            /\ \A j \in 1 .. Len(b) : r[Len(p) + j] = b[j]
        BY <2>3, <3>p, <4>r, TokenConcat
      <4>2. Len(r) = l + 1 + n /\ (\A j \in 1 .. l + 1 : r[j] = p[j]) /\ (\A j \in 1 .. n : r[l + 1 + j] = b[j])
        BY ONLY <2>n, <4>1, <4>c
      <4>3. ASSUME NEW j \in 1 .. Len(t) PROVE t[j] = r[j]
        <5>1. CASE j \in 1 .. l + 1
          BY <4>1, <4>2, <5>1
        <5>2. CASE j \notin 1 .. l + 1
          <6>1. j - (l + 1) \in 1 .. n /\ j = l + 1 + (j - (l + 1))
            <7>1. Len(t) = l + 1 + n /\ j \in 1 .. Len(t)
              BY <2>4, <2>n
            <7> QED BY ONLY <5>2, <7>1, l \in Nat, n \in Nat
          <6>i. PICK i \in 1 .. n : j = l + 1 + i
            BY <6>1
          <6> QED BY <2>4, <2>n, <4>2, <6>i
        <5> QED BY <5>1, <5>2
      <4>4. Len(t) = Len(r)
        BY <2>4, <2>n, <4>2
      <4>5. t = r
        BY <2>4, <4>3, <4>4, TokenEqual
      <4> QED BY <4>5, <4>r
    <3> QED BY <2>3, <3>p, <3>1, EvenConcat
  <2>9. Len(Split(t, k + 1)) = k + 1 /\ (\A i \in 1 .. k : Split(t, k + 1)[i] = f[i])
        /\ Split(t, k + 1)[k + 1] = b
    <3>1. Climbs(P, k) /\ P[0] = 0 /\ k # 0 /\ Laid(a, P, f, k) /\ b \in Seq(Token)
      BY <1>1, <1>2, <1>k, <2>3
    <3>2. CommaBetween(t, a, b, Len(a))
      BY <2>1
    <3> QED BY ONLY <3>1, <3>2, SplitRest, k \in Nat
  <2>10. Len(s) = 14 /\ (\A i \in 1 .. 13 : s[i] = f[i]) /\ s[14] = b
    BY <1>k, <1>s, <2>9
  <2>11. m["hash_list"] = IF Len(s) = 14 THEN MakeHashDataList(s[14]) ELSE <<>>
    BY <2>2, <2>10, <2>h
  <2>12. ReadLine(t) = AsRead(m)
    BY ONLY LineMeta(m), <1>f, <1>s, <2>10, <2>11, FieldsRead
  <2> QED BY <1>t, <2>4, <2>6, <2>7, <2>8, <2>12
<1> QED BY <1>4, <1>5

(* The meta data that the server receives, and a program receives back:    *)
(* those that were sent, but for gid.                                      *)
Sendable(m) == DOMAIN m = Keys /\ m["hash_list"] \in Seq(Hash)

(* JSON keeps all of the meta data but gid, which becomes uid.             *)
LEMMA ReceivedIs ==
  ASSUME NEW m, Sendable(m)
  PROVE  /\ DOMAIN Received(m) = Keys
         /\ Received(m)["gid"] = m["uid"]
         /\ \A k \in Keys \ {"gid"} : Received(m)[k] = m[k]
<1>h. PICK h \in Seq(Hash) : h = m["hash_list"]
  BY DEF Sendable
<1>c. PICK c : c = [m EXCEPT !["gid"] = m["uid"], !["hash_list"] = ConvertHashListToJson(@)]
  OBVIOUS
<1>j. PICK j : j = ConvertMetaDataToJson(m)
  OBVIOUS
<1>1. ConvertHashListToJson(h) = h /\ Reverse(Prepended(h)) = h
  BY AppendedIsList, PrependedIsReverse
<1>2. /\ DOMAIN c = Keys /\ c["gid"] = m["uid"] /\ c["hash_list"] = h
      /\ \A k \in Keys \ {"gid", "hash_list"} : c[k] = m[k]
  <2>1. {"gid", "uid", "hash_list"} \subseteq Keys /\ DOMAIN m = Keys
    BY DEF Keys, Numbers, Sendable
  <2> QED BY <1>1, <1>c, <1>h, <2>1
<1>3. h # NULL
  BY TokenAssumption
<1>4. /\ "hash_list" \in DOMAIN j /\ j["hash_list"] = h
      /\ \A k \in Keys : GetFromJson(j, k) = c[k]
  <2>1. j = Insert(c)
    BY <1>c, <1>j DEF ConvertMetaDataToJson
  <2>2. DOMAIN j = {k \in Keys : c[k] # NULL} /\ \A k \in DOMAIN j : j[k] = c[k]
    BY <2>1 DEF Insert
  <2>3. "hash_list" \in Keys
    BY DEF Keys
  <2> QED BY <1>2, <1>3, <2>2, <2>3 DEF GetFromJson
<1>r. PICK r : r = Received(m)
  OBVIOUS
<1>5. r = [k \in Keys |-> IF k = "hash_list" THEN ExtractGlist(j[k]) ELSE GetFromJson(j, k)]
  BY <1>j, <1>r DEF Received, FillsServerMetaData
<1>6. ExtractGlist(h) = h
  BY <1>1 DEF ExtractGlist
<1>7. DOMAIN r = Keys /\ \A k \in Keys : r[k] = c[k]
  BY <1>2, <1>4, <1>5, <1>6
<1>8. "gid" \in Keys
  BY DEF Keys, Numbers
<1> QED BY <1>2, <1>7, <1>8, <1>h, <1>r

(* What clients send makes a line, and ReadBack is what is read of it.     *)
LEMMA MetaFacts ==
  ASSUME NEW m \in Meta
  PROVE  /\ LineMeta(Received(m)) /\ Sendable(m)
         /\ AsRead(Received(m)) = ReadBack(m)
<1>1. /\ DOMAIN m = Keys /\ m["name"] \in Text \ {Empty}
      /\ \A k \in Numbers : m[k] \in Nat
      /\ \A k \in {"owner", "group"} : m[k] = NULL \/ Printable(m[k])
      /\ m["link"] \in Text /\ m["hash_list"] \in Seq(Hash)
  BY CatalogueAssumption, MetaAssumption
<1>r. PICK r : r = Received(m)
  OBVIOUS
<1>2. Sendable(m)
  BY <1>1 DEF Sendable
<1>3. DOMAIN r = Keys /\ r["gid"] = m["uid"] /\ \A k \in Keys \ {"gid"} : r[k] = m[k]
  BY <1>2, <1>r, ReceivedIs
<1>4. /\ {"uid", "gid"} \subseteq Numbers /\ Numbers \subseteq Keys
      /\ {"owner", "group", "name", "link", "hash_list"} \subseteq Keys \ {"gid"}
  BY DEF Keys, Numbers, Strings
<1>5. LineMeta(r)
  <2>1. \A k \in Numbers : r[k] \in Nat
    BY <1>1, <1>3, <1>4
  <2>2. \A k \in {"owner", "group"} : r[k] = NULL \/ Printable(r[k])
    BY <1>1, <1>3, <1>4
  <2>3. r["name"] \in Text /\ r["link"] \in Text /\ r["hash_list"] \in Seq(Hash)
    BY <1>1, <1>3, <1>4
  <2> QED BY <1>3, <2>1, <2>2, <2>3 DEF LineMeta
<1>6. AsRead(r) = ReadBack(m)
  <2>a. PICK a : a = AsRead(r)
    OBVIOUS
  <2>b. PICK b : b = ReadBack(m)
    OBVIOUS
  <2>1. a = [k \in Keys |-> IF k \in {"owner", "group"} /\ r[k] = NULL THEN NullText ELSE r[k]]
    BY <2>a DEF AsRead
  <2>2. /\ b = [k \in Keys |-> b[k]] /\ b["gid"] = m["uid"]
        /\ b["owner"] = (IF m["owner"] = NULL THEN NullText ELSE m["owner"])
        /\ b["group"] = (IF m["group"] = NULL THEN NullText ELSE m["group"])
        /\ \A k \in Keys \ {"gid", "owner", "group"} : b[k] = m[k]
    BY <1>1, <1>4, <2>b DEF ReadBack
  <2>3. \A k \in Keys \ {"gid", "owner", "group"} : a[k] = b[k]
    BY <1>3, <2>1, <2>2
  <2>4. a["gid"] = b["gid"]
    BY <1>3, <1>4, <2>1, <2>2
  <2>5. a["owner"] = b["owner"] /\ a["group"] = b["group"]
    BY <1>3, <1>4, <2>1, <2>2
  <2>6. \A k \in Keys : a[k] = b[k]
    BY <2>3, <2>4, <2>5
  <2>7. a = b
    BY <2>1, <2>2, <2>6
  <2> QED BY <2>7, <2>a, <2>b
<1> QED BY <1>2, <1>5, <1>6, <1>r

(* What is read of the line of a version, and received by a program.       *)
LEMMA ReadBackFacts ==
  ASSUME NEW m \in Meta
  PROVE  /\ Sendable(ReadBack(m)) /\ Received(ReadBack(m)) = ReadBack(m)
         /\ ReadBack(m)["gid"] = m["uid"]
         /\ ReadBack(m)["owner"] = (IF m["owner"] = NULL THEN NullText ELSE m["owner"])
         /\ ReadBack(m)["group"] = (IF m["group"] = NULL THEN NullText ELSE m["group"])
         /\ \A k \in Keys \ {"gid", "owner", "group"} : ReadBack(m)[k] = m[k]
<1>1. DOMAIN m = Keys /\ m["hash_list"] \in Seq(Hash)
  BY MetaFacts DEF Sendable
<1>2. /\ {"uid", "gid", "owner", "group"} \subseteq Keys
      /\ {"uid", "hash_list"} \subseteq Keys \ {"gid", "owner", "group"}
  BY DEF Keys, Numbers, Strings
<1>b. PICK b : b = ReadBack(m)
  OBVIOUS
<1>3. /\ b = [k \in Keys |-> b[k]] /\ b["gid"] = m["uid"]
      /\ b["owner"] = (IF m["owner"] = NULL THEN NullText ELSE m["owner"])
      /\ b["group"] = (IF m["group"] = NULL THEN NullText ELSE m["group"])
      /\ \A k \in Keys \ {"gid", "owner", "group"} : b[k] = m[k]
  BY <1>1, <1>2, <1>b DEF ReadBack
<1>4. Sendable(b)
  <2>1. b["hash_list"] = m["hash_list"] /\ DOMAIN b = Keys
    BY <1>2, <1>3
  <2> QED BY <1>1, <2>1 DEF Sendable
<1>r. PICK r : r = Received(b)
  OBVIOUS
<1>5. /\ DOMAIN r = Keys /\ r["gid"] = b["uid"] /\ \A k \in Keys \ {"gid"} : r[k] = b[k]
  BY <1>4, <1>r, ReceivedIs
<1>6. r = [k \in Keys |-> r[k]]
  <2>1. Received(b) = [k \in Keys |-> IF k = "hash_list" THEN ExtractGlist(ConvertMetaDataToJson(b)[k])
                                      ELSE GetFromJson(ConvertMetaDataToJson(b), k)]
    BY DEF Received, FillsServerMetaData
  <2> QED BY <1>r, <2>1
<1>7. b["uid"] = b["gid"]
  BY <1>2, <1>3
<1>8. \A k \in Keys : r[k] = b[k]
  BY <1>5, <1>7
<1>9. r = b
  BY <1>3, <1>6, <1>8
<1> QED BY <1>3, <1>4, <1>9, <1>b, <1>r

-----------------------------------------------------------------------------
(* The lines of a text, as extract_one_line_from_buffer finds them.        *)

(* What a line may be, up to its new line.                                 *)
WholeBody(b) ==
    /\ b \in Seq(Token) /\ Even(b) /\ Commas(b) >= 12
    /\ \A j \in 1 .. Len(b) : b[j] # NewLine

(* The places where a line that begins after i may end.                    *)
EndsOf(t, i) == {j \in i + 1 .. Len(t) : Ends(SubSeq(t, i + 1, j - 1), t[j])}

(* A line ends at the first of the places where one may, or not at all.    *)
LEMMA EndAfterRange ==
  ASSUME NEW t \in Seq(Token), NEW n \in Nat, n = Len(t), NEW i \in Nat
  PROVE  /\ EndAfter(t, i) \in EndsOf(t, i) \cup {n + 1}
         /\ \A j \in EndsOf(t, i) : EndAfter(t, i) <= j
         /\ EndAfter(t, i) \in Nat
         /\ EndAfter(t, i) # n + 1 => t[EndAfter(t, i)] = NewLine /\ i < EndAfter(t, i)
                                      /\ EndAfter(t, i) <= n
<1>S. PICK S : S = EndsOf(t, i) \cup {n + 1}
  OBVIOUS
<1>e. PICK e : e = EndAfter(t, i)
  OBVIOUS
<1>1. e = Min(S)
  BY <1>S, <1>e DEF EndAfter, EndsOf
<1>2. S \in SUBSET Nat /\ S # {}
  BY <1>S DEF EndsOf
<1>3. e \in S /\ \A j \in S : e <= j
  BY <1>1, <1>2, Least DEF Min
<1>4. \A j \in EndsOf(t, i) : t[j] = NewLine /\ i < j /\ j <= n
  BY DEF EndsOf, Ends
<1> QED BY <1>2, <1>3, <1>4, <1>S, <1>e

(* The tokens of t after i are those of b, as far as they go.              *)
BeginsWith(t, i, b, n) == \A j \in 1 .. n : t[i + j] = b[j]

WholeIn(t, i, b, l) ==
    /\ WholeBody(b) /\ l = Len(b)
    /\ i + l + 1 <= Len(t) /\ BeginsWith(t, i, b, l) /\ t[i + l + 1] = NewLine

(* A whole line that begins at i ends at its own new line.                 *)
LEMMA EndWhole ==
  ASSUME NEW t \in Seq(Token), NEW i \in Nat, NEW b, NEW l \in Nat, WholeIn(t, i, b, l)
  PROVE  EndAfter(t, i) = i + l + 1 /\ SubSeq(t, i + 1, i + l) = b
<1>0. /\ WholeBody(b) /\ l = Len(b)
      /\ i + l + 1 <= Len(t) /\ BeginsWith(t, i, b, l) /\ t[i + l + 1] = NewLine
  BY DEF WholeIn
<1>n. PICK n \in Nat : n = Len(t)
  OBVIOUS
<1>e. PICK e : e = EndAfter(t, i)
  OBVIOUS
<1>1. /\ e \in EndsOf(t, i) \cup {n + 1} /\ (\A j \in EndsOf(t, i) : e <= j) /\ e \in Nat
      /\ e # n + 1 => t[e] = NewLine /\ i < e /\ e <= n
  BY <1>n, <1>e, EndAfterRange
<1>x. PICK x \in Nat : x = i + 1
  OBVIOUS
<1>y. PICK y \in Nat : y = i + l
  OBVIOUS
<1>s. PICK s : s = SubSeq(t, x, y)
  OBVIOUS
<1>2. 1 <= x /\ x <= y + 1 /\ y <= Len(t) /\ y - x + 1 = l
  BY <1>0, <1>x, <1>y, <1>n
<1>3. s \in Seq(Token) /\ Len(s) = l /\ \A j \in 1 .. l : s[j] = t[x + j - 1]
  BY <1>2, <1>s, TokenSubSeq
<1>4. \A j \in 1 .. l : x + j - 1 = i + j
  BY <1>x
<1>5. b \in Seq(Token) /\ \A j \in 1 .. Len(s) : s[j] = b[j]
  BY <1>0, <1>3, <1>4 DEF BeginsWith, WholeBody
<1>6. s = b
  BY <1>0, <1>3, <1>5, TokenEqual
<1>k. PICK k \in Nat : k = i + l + 1
  OBVIOUS
<1>7. k \in EndsOf(t, i)
  <2>1. k - 1 = y /\ k \in i + 1 .. Len(t) /\ t[k] = NewLine
    BY <1>0, <1>k, <1>y
  <2>2. SubSeq(t, i + 1, k - 1) = b
    BY <1>6, <1>s, <1>x, <2>1
  <2>3. ~InString(b) /\ Commas(b) >= 12
    BY <1>0 DEF WholeBody, InString, Even
  <2>4. Ends(SubSeq(t, i + 1, k - 1), t[k])
    BY <2>1, <2>2, <2>3 DEF Ends
  <2> QED BY <2>1, <2>4 DEF EndsOf
<1>8. e <= k
  BY <1>1, <1>7
<1>9. e # n + 1
  BY <1>0, <1>1, <1>8, <1>n, <1>k
<1>10. ASSUME e < k PROVE FALSE
  <2>j. PICK j \in 1 .. l : e = i + j
    <3>1. e - i \in 1 .. l /\ e = i + (e - i)
      BY <1>1, <1>9, <1>10, <1>k
    <3> QED BY <3>1
  <2>1. t[e] = b[j] /\ b[j] # NewLine
    BY <1>0, <2>j DEF BeginsWith, WholeBody
  <2> QED BY <1>1, <1>9, <2>1
<1> QED BY <1>1, <1>6, <1>8, <1>10, <1>k, <1>e, <1>s, <1>x, <1>y

(* A part of a line does not end.                                          *)
LEMMA EndPart ==
  ASSUME NEW t \in Seq(Token), NEW i \in Nat, NEW b, WholeBody(b),
         NEW n \in Nat, n = Len(t), i <= n, n - i <= Len(b), BeginsWith(t, i, b, n - i)
  PROVE  EndAfter(t, i) = n + 1
<1>e. PICK e : e = EndAfter(t, i)
  OBVIOUS
<1>1. /\ e \in Nat /\ (e # n + 1 => t[e] = NewLine /\ i < e /\ e <= n)
  BY <1>e, EndAfterRange
<1>2. ASSUME e # n + 1 PROVE FALSE
  <2>l. PICK l \in Nat : l = Len(b)
    BY DEF WholeBody
  <2>j. PICK j \in 1 .. n - i : e = i + j
    <3>1. e - i \in 1 .. n - i /\ e = i + (e - i)
      BY <1>1, <1>2
    <3> QED BY <3>1
  <2>1. j \in 1 .. Len(b)
    BY <2>l, <2>j
  <2>2. t[e] = b[j] /\ b[j] # NewLine
    BY <2>j, <2>1 DEF BeginsWith, WholeBody
  <2> QED BY <1>1, <1>2, <2>2
<1> QED BY <1>2, <1>e

-----------------------------------------------------------------------------
(* The ends of the lines of t, one after the other.                        *)
Ending(e, t, M) == e = [k \in 0 .. M |-> IF k = 0 THEN 0 ELSE EndAfter(t, e[k - 1])]

(* There is such a function.                                               *)
LEMMA EndingExists ==
  ASSUME NEW t, NEW M \in Nat
  PROVE  \E e : Ending(e, t, M)
<1> DEFINE S == {m \in Nat : \E e : Ending(e, t, m)}
<1>1. 0 \in S
  <2> DEFINE e == [k \in 0 .. 0 |-> 0]
  <2>1. e = [k \in 0 .. 0 |-> IF k = 0 THEN 0 ELSE EndAfter(t, e[k - 1])]
    OBVIOUS
  <2>2. Ending(e, t, 0)
    BY <2>1 DEF Ending
  <2> QED BY <2>2
<1>2. ASSUME NEW m \in Nat, m \in S PROVE m + 1 \in S
  <2>e. PICK e : Ending(e, t, m)
    BY <1>2
  <2>p. PICK p \in Nat : p = m + 1
    OBVIOUS
  <2> DEFINE f == [k \in 0 .. p |-> IF k = p THEN EndAfter(t, e[m]) ELSE e[k]]
  <2>1. e = [k \in 0 .. m |-> IF k = 0 THEN 0 ELSE EndAfter(t, e[k - 1])]
    BY <2>e DEF Ending
  <2>2. ASSUME NEW k \in 0 .. p PROVE f[k] = IF k = 0 THEN 0 ELSE EndAfter(t, f[k - 1])
    <3>1. CASE k = p
      <4>1. k # 0 /\ k - 1 = m /\ m \in 0 .. p /\ m # p
        BY <2>p, <3>1
      <4>2. f[k] = EndAfter(t, e[m]) /\ f[m] = e[m]
        BY <3>1, <4>1
      <4> QED BY <4>1, <4>2
    <3>2. CASE k # p
      <4>1. k \in 0 .. m /\ f[k] = e[k]
        BY <2>p, <3>2
      <4>2. k # 0 => k - 1 \in 0 .. p /\ k - 1 # p
        BY <2>p, <4>1
      <4>3. k # 0 => f[k - 1] = e[k - 1]
        BY <4>2
      <4> QED BY <2>1, <4>1, <4>3
    <3> QED BY <3>1, <3>2
  <2>3. f = [k \in 0 .. p |-> IF k = 0 THEN 0 ELSE EndAfter(t, f[k - 1])]
    BY <2>2
  <2>4. Ending(f, t, p)
    BY <2>3 DEF Ending
  <2> QED BY <2>4, <2>p
<1>3. Nat \subseteq S
  <2> HIDE DEF S
  <2> QED BY <1>1, <1>2, Induction
<1> QED BY <1>3

(* LinesOf is made with it.                                                *)
LEMMA LinesOfIs ==
  ASSUME NEW t, NEW M \in Nat, M = Count(t, NewLine) + 1
  PROVE  \E e, nb :
            /\ Ending(e, t, M)
            /\ nb = Max({k \in 0 .. M : e[k] <= Len(t)})
            /\ LinesOf(t).lines = {SubSeq(t, e[k - 1] + 1, e[k] - 1) : k \in 1 .. nb}
            /\ LinesOf(t).rest = SubSeq(t, e[nb] + 1, Len(t))
<1>e. PICK e : e = CHOOSE f : Ending(f, t, M)
  OBVIOUS
<1>1. Ending(e, t, M)
  BY <1>e, EndingExists
<1>2. e = CHOOSE f : f = [k \in 0 .. Count(t, NewLine) + 1 |-> IF k = 0 THEN 0 ELSE EndAfter(t, f[k - 1])]
  BY <1>e DEF Ending
<1>3. DOMAIN e = 0 .. M
  BY <1>1 DEF Ending
<1>nb. PICK nb : nb = Max({k \in DOMAIN e : e[k] <= Len(t)})
  OBVIOUS
<1>4. /\ LinesOf(t).lines = {SubSeq(t, e[k - 1] + 1, e[k] - 1) : k \in 1 .. nb}
      /\ LinesOf(t).rest = SubSeq(t, e[nb] + 1, Len(t))
  BY <1>2, <1>nb DEF LinesOf
<1> QED BY <1>1, <1>3, <1>4, <1>nb

(* The places where the lines of t end, that of the last one being nb.     *)
Breaks(t, e, nb) ==
    /\ nb \in Nat /\ e[0] = 0 /\ \A k \in 0 .. nb : e[k] \in Nat /\ e[k] <= Len(t)
    /\ \A k \in 1 .. nb : e[k] = EndAfter(t, e[k - 1]) /\ e[k - 1] < e[k]
    /\ EndAfter(t, e[nb]) = Len(t) + 1

(* The lines of any text are found at such places.                         *)
LEMMA LinesBreak ==
  ASSUME NEW t \in Seq(Token)
  PROVE  \E e, nb :
            /\ Breaks(t, e, nb)
            /\ LinesOf(t).lines = {SubSeq(t, e[k - 1] + 1, e[k] - 1) : k \in 1 .. nb}
            /\ LinesOf(t).rest = SubSeq(t, e[nb] + 1, Len(t))
<1>n. PICK n \in Nat : n = Len(t)
  OBVIOUS
<1>M. PICK M \in Nat : M = Count(t, NewLine) + 1
  BY MarksFinite
<1>e. PICK e, nb : /\ Ending(e, t, M)
                   /\ nb = Max({k \in 0 .. M : e[k] <= Len(t)})
                   /\ LinesOf(t).lines = {SubSeq(t, e[k - 1] + 1, e[k] - 1) : k \in 1 .. nb}
                   /\ LinesOf(t).rest = SubSeq(t, e[nb] + 1, Len(t))
  BY <1>M, LinesOfIs
<1>1. e[0] = 0 /\ \A k \in 1 .. M : e[k] = EndAfter(t, e[k - 1])
  BY ONLY <1>e DEF Ending
<1>2. \A k \in 0 .. M : e[k] \in Nat
  <2> DEFINE S == {k \in Nat : k \in 0 .. M => e[k] \in Nat}
  <2>1. 0 \in S
    BY <1>1
  <2>2. ASSUME NEW k \in Nat, k \in S PROVE k + 1 \in S
    <3> SUFFICES ASSUME k + 1 \in 0 .. M PROVE e[k + 1] \in Nat
      OBVIOUS
    <3>1. k \in 0 .. M /\ k + 1 \in 1 .. M /\ (k + 1) - 1 = k
      OBVIOUS
    <3>2. e[k] \in Nat /\ e[k + 1] = EndAfter(t, e[k])
      BY <1>1, <2>2, <3>1
    <3>i. PICK i \in Nat : i = e[k]
      BY <3>2
    <3>3. EndAfter(t, i) \in Nat
      BY ONLY t \in Seq(Token), n \in Nat, i \in Nat, <1>n, EndAfterRange
    <3> QED BY ONLY <3>2, <3>3, <3>i
  <2>3. Nat \subseteq S
    <3> HIDE DEF S
    <3> QED BY <2>1, <2>2, Induction
  <2> QED BY <2>3
<1>3. ASSUME NEW k \in 1 .. M
      PROVE  /\ e[k] <= n => e[k - 1] < e[k] /\ t[e[k]] = NewLine /\ e[k] \in 1 .. n
             /\ ~(e[k] <= n) => e[k] = n + 1
  <2>1. k - 1 \in 0 .. M /\ k \in 0 .. M
    OBVIOUS
  <2>i. PICK i \in Nat : i = e[k - 1]
    BY <1>2, <2>1
  <2>x. PICK x \in Nat : x = e[k] /\ x = EndAfter(t, i)
    BY <1>1, <1>2, <2>1, <2>i
  <2>2. x \in EndsOf(t, i) \cup {n + 1} /\ (x # n + 1 => t[x] = NewLine /\ i < x /\ x <= n)
    <3>1. /\ EndAfter(t, i) \in EndsOf(t, i) \cup {n + 1}
          /\ EndAfter(t, i) # n + 1 => t[EndAfter(t, i)] = NewLine /\ i < EndAfter(t, i)
                                       /\ EndAfter(t, i) <= n
      BY ONLY t \in Seq(Token), n \in Nat, i \in Nat, <1>n, EndAfterRange
    <3> QED BY ONLY <2>x, <3>1
  <2>3. x \in EndsOf(t, i) => x # n + 1
    BY <1>n DEF EndsOf
  <2>4. /\ x <= n => i < x /\ t[x] = NewLine /\ x \in 1 .. n
        /\ ~(x <= n) => x = n + 1
    BY <2>2, <2>3
  <2> QED BY <2>i, <2>x, <2>4
<1>T. PICK T : T = {k \in 0 .. M : e[k] <= n}
  OBVIOUS
<1>4. nb \in T /\ \A k \in T : k <= nb
  <2>1. T \in SUBSET (0 .. M) /\ T # {}
    BY <1>1, <1>T
  <2>2. PICK m \in T : \A k \in T : k <= m
    BY <2>1, Greatest
  <2>3. \A k \in T : m >= k
    BY <2>1, <2>2
  <2>4. nb \in T /\ \A k \in T : nb >= k
    BY <1>e, <1>n, <1>T, <2>2, <2>3 DEF Max
  <2> QED BY <2>1, <2>4
<1>5. nb \in Nat /\ nb <= M /\ e[nb] <= n
  BY <1>4, <1>T
<1>6. \A k \in 0 .. nb : e[k] <= n
  <2> DEFINE S == {d \in Nat : d <= nb => e[nb - d] <= n}
  <2>1. 0 \in S
    BY <1>5
  <2>2. ASSUME NEW d \in Nat, d \in S PROVE d + 1 \in S
    <3> SUFFICES ASSUME d + 1 <= nb PROVE e[nb - (d + 1)] <= n
      OBVIOUS
    <3>k. PICK k \in 1 .. M : k = nb - d /\ k - 1 = nb - (d + 1)
      BY <1>5
    <3>1. e[k] <= n
      BY <1>5, <2>2, <3>k
    <3>2. e[k - 1] < e[k]
      BY <1>3, <3>1
    <3>3. k - 1 \in 0 .. M /\ k \in 0 .. M
      OBVIOUS
    <3>4. e[k - 1] \in Nat /\ e[k] \in Nat
      BY <1>2, <3>3
    <3>5. e[k - 1] <= n
      BY <3>1, <3>2, <3>4
    <3> QED BY <3>5, <3>k
  <2>3. Nat \subseteq S
    <3> HIDE DEF S
    <3> QED BY <2>1, <2>2, Induction
  <2>4. ASSUME NEW k \in 0 .. nb PROVE e[k] <= n
    <3>d. PICK d \in Nat : d = nb - k /\ d <= nb /\ nb - d = k
      BY <1>5
    <3> QED BY <2>3, <3>d
  <2> QED BY <2>4
<1>7. \A k \in 1 .. nb : /\ e[k] = EndAfter(t, e[k - 1]) /\ e[k - 1] < e[k]
                         /\ t[e[k]] = NewLine /\ e[k] \in 1 .. n
  <2> SUFFICES ASSUME NEW k \in 1 .. nb
               PROVE  /\ e[k] = EndAfter(t, e[k - 1]) /\ e[k - 1] < e[k]
                      /\ t[e[k]] = NewLine /\ e[k] \in 1 .. n
    OBVIOUS
  <2>1. k \in 1 .. M /\ k \in 0 .. nb
    BY <1>5
  <2> QED BY <1>1, <1>3, <1>6, <2>1
<1>8. nb < M
  <2> DEFINE P == [k \in 0 .. nb |-> e[k]]
  <2>1. P \in [0 .. nb -> Nat] /\ \A k \in 1 .. nb : P[k - 1] < P[k]
    <3>1. \A k \in 0 .. nb : P[k] = e[k] /\ k \in 0 .. M
      BY <1>5
    <3>2. \A k \in 1 .. nb : k - 1 \in 0 .. nb /\ k \in 0 .. nb
      BY <1>5
    <3> QED BY <1>2, <1>7, <3>1, <3>2
  <2> HIDE DEF P
  <2>2. Climbs(P, nb)
    BY <1>5, <2>1, StepsClimb
  <2>R. PICK R : R = {P[k] : k \in 1 .. nb}
    OBVIOUS
  <2>3. R \in SUBSET MarksOf(t, NewLine)
    <3>1. \A k \in 1 .. nb : P[k] = e[k]
      BY <1>5 DEF P
    <3>2. \A k \in 1 .. nb : P[k] \in DOMAIN t /\ t[P[k]] = NewLine
      BY <1>7, <1>n, <3>1
    <3> QED BY <2>R, <3>2 DEF MarksOf
  <2>4. Lists(P, nb, R)
    <3>1. \A i, j \in 1 .. nb : i # j => P[i] # P[j]
      <4> SUFFICES ASSUME NEW i \in 1 .. nb, NEW j \in 1 .. nb, i # j PROVE P[i] # P[j]
        OBVIOUS
      <4>1. i \in 0 .. nb /\ j \in 0 .. nb /\ (i < j \/ j < i)
        BY <1>5
      <4>2. (P[i] < P[j] \/ P[j] < P[i]) /\ P[i] \in Nat /\ P[j] \in Nat
        BY <2>2, <4>1 DEF Climbs
      <4> QED BY <4>2
    <3> QED BY <2>R, <3>1 DEF Lists
  <2>5. Cardinality(R) = nb
    BY <1>5, <2>4, RankIs
  <2>6. Cardinality(R) <= Count(t, NewLine) /\ Count(t, NewLine) \in Nat
    BY <2>3, MarksFinite, FS_Subset
  <2> QED BY <1>M, <1>5, <2>5, <2>6
<1>9. EndAfter(t, e[nb]) = n + 1
  <2>k. PICK k \in 1 .. M : k = nb + 1 /\ k - 1 = nb
    BY <1>5, <1>8
  <2>1. k \notin T
    BY <1>4, <1>5, <2>k
  <2>2. ~(e[k] <= n)
    BY <1>T, <2>1
  <2>3. e[k] = n + 1 /\ e[k] = EndAfter(t, e[k - 1])
    BY <1>1, <1>3, <2>2
  <2> QED BY <2>3, <2>k
<1>10. \A k \in 0 .. nb : e[k] \in Nat
  BY <1>2, <1>5
<1>11. Breaks(t, e, nb)
  BY <1>1, <1>5, <1>6, <1>7, <1>9, <1>10, <1>n DEF Breaks
<1> QED BY <1>e, <1>11

-----------------------------------------------------------------------------
(* What the connection reads of the lines of a file, a buffer at a time.   *)

(* The text of a file up to where its lines are whole: the line of v ends  *)
(* at u[v], it has the body b[v] if v is in W, and v has none otherwise.   *)
LineAt(T, i, b) ==
    /\ WholeBody(b) /\ BeginsWith(T, i, b, Len(b)) /\ T[i + Len(b) + 1] = NewLine

Written(T, s, u, W, b) ==
    /\ T \in Seq(Token) /\ s \in Nat /\ u[0] = 0 /\ W \in SUBSET (1 .. s)
    /\ \A v \in 0 .. s : u[v] \in Nat /\ u[v] <= Len(T)
    /\ \A v \in 1 .. s : v \notin W => u[v] = u[v - 1]
    /\ \A v \in W : u[v] = u[v - 1] + Len(b[v]) + 1 /\ LineAt(T, u[v - 1], b[v])

(* Where a line may begin.                                                 *)
Starts(i, s, u, torn) ==
    \/ \E v \in 0 .. s : i = u[v]
    \/ torn /\ \A v \in 0 .. s : u[v] <= i

(* t is what has been read of the file from B to O.                        *)
Reads(T, s, u, W, b, torn, B, O, t) ==
    /\ Written(T, s, u, W, b) /\ torn \in BOOLEAN /\ (~torn => u[s] = Len(T))
    /\ B \in Nat /\ O \in Nat /\ B <= O /\ O <= Len(T) /\ t = SubSeq(T, B + 1, O)
    /\ Starts(B, s, u, torn)

(* The lines end one after the other.                                      *)
LEMMA WrittenGrows ==
  ASSUME NEW T, NEW s, NEW u, NEW W, NEW b, Written(T, s, u, W, b)
  PROVE  \A w \in 0 .. s : \A v \in 0 .. s : v <= w => u[v] <= u[w]
<1>0. s \in Nat /\ \A v \in 0 .. s : u[v] \in Nat
  BY DEF Written
<1>1. \A v \in 1 .. s : u[v - 1] <= u[v]
  <2> SUFFICES ASSUME NEW v \in 1 .. s PROVE u[v - 1] <= u[v]
    OBVIOUS
  <2>1. v - 1 \in 0 .. s
    BY <1>0
  <2>2. u[v - 1] \in Nat
    BY <1>0, <2>1
  <2>3. CASE v \in W
    <3>1. u[v] = u[v - 1] + Len(b[v]) + 1 /\ b[v] \in Seq(Token)
      BY <2>3 DEF Written, LineAt, WholeBody
    <3>l. PICK l \in Nat : l = Len(b[v])
      BY <3>1
    <3> QED BY <2>2, <3>1, <3>l
  <2>4. CASE v \notin W
    BY <2>2, <2>4 DEF Written
  <2> QED BY <2>3, <2>4
<1> DEFINE S == {w \in Nat : w \in 0 .. s => \A v \in 0 .. s : v <= w => u[v] <= u[w]}
<1>2. 0 \in S
  BY <1>0
<1>3. ASSUME NEW w \in Nat, w \in S PROVE w + 1 \in S
  <2> SUFFICES ASSUME w + 1 \in 0 .. s, NEW v \in 0 .. s, v <= w + 1 PROVE u[v] <= u[w + 1]
    OBVIOUS
  <2>x. PICK x \in 1 .. s : x = w + 1 /\ x - 1 = w
    BY <1>0
  <2>1. w \in 0 .. s /\ x \in 0 .. s
    BY <1>0, <2>x
  <2>2. u[w] <= u[x] /\ u[w] \in Nat /\ u[x] \in Nat /\ u[v] \in Nat
    BY <1>0, <1>1, <2>x, <2>1
  <2>3. CASE v = x
    BY <2>2, <2>3, <2>x
  <2>4. CASE v # x
    <3>1. v <= w
      BY <2>4, <2>x, <1>0
    <3>2. u[v] <= u[w]
      BY <1>3, <2>1, <3>1
    <3> QED BY <2>2, <3>2, <2>x
  <2> QED BY <2>3, <2>4
<1>4. Nat \subseteq S
  <2> HIDE DEF S
  <2> QED BY <1>2, <1>3, Induction
<1>5. ASSUME NEW w \in 0 .. s PROVE \A v \in 0 .. s : v <= w => u[v] <= u[w]
  <2>1. w \in Nat
    BY <1>0
  <2> QED BY <1>4, <2>1
<1> QED BY <1>5

(* The tokens that have been read.                                         *)
LEMMA ReadTokens ==
  ASSUME NEW T, NEW s, NEW u, NEW W, NEW b, NEW torn, NEW B, NEW O, NEW t,
         Reads(T, s, u, W, b, torn, B, O, t)
  PROVE  t \in Seq(Token) /\ Len(t) = O - B /\ \A j \in 1 .. O - B : t[j] = T[B + j]
<1>1. T \in Seq(Token) /\ B \in Nat /\ O \in Nat /\ B <= O /\ O <= Len(T) /\ t = SubSeq(T, B + 1, O)
  BY DEF Reads, Written
<1>x. PICK x \in Nat : x = B + 1
  BY <1>1
<1>2. 1 <= x /\ x <= O + 1 /\ O - x + 1 = O - B /\ \A j \in 1 .. O - B : x + j - 1 = B + j
  BY <1>1, <1>x
<1>3. t = SubSeq(T, x, O)
  BY <1>1, <1>x
<1>4. t \in Seq(Token) /\ Len(t) = O - x + 1 /\ \A j \in 1 .. O - x + 1 : t[j] = T[x + j - 1]
  BY <1>1, <1>2, <1>3, TokenSubSeq
<1> QED BY <1>2, <1>4

(* A line that begins at i in what has been read, and ends in it or not.   *)
LEMMA LineThere ==
  ASSUME NEW T, NEW s, NEW u, NEW W, NEW b, NEW torn, NEW B, NEW O, NEW t,
         Reads(T, s, u, W, b, torn, B, O, t),
         NEW v \in W, NEW i \in Nat, u[v - 1] = B + i, i <= Len(t)
  PROVE  /\ u[v] <= O => /\ u[v] = B + EndAfter(t, i)
                         /\ SubSeq(t, i + 1, EndAfter(t, i) - 1) = b[v]
         /\ ~(u[v] <= O) => EndAfter(t, i) = Len(t) + 1
<1>1. t \in Seq(Token) /\ Len(t) = O - B /\ \A j \in 1 .. O - B : t[j] = T[B + j]
  BY ReadTokens
<1>2. /\ B \in Nat /\ O \in Nat /\ B <= O
      /\ u[v] = u[v - 1] + Len(b[v]) + 1 /\ LineAt(T, u[v - 1], b[v])
  BY DEF Reads, Written
<1>c. PICK c : c = b[v]
  OBVIOUS
<1>3. WholeBody(c)
  BY <1>2, <1>c DEF LineAt
<1>l. PICK l \in Nat : l = Len(c)
  BY <1>3 DEF WholeBody
<1>n. PICK n \in Nat : n = Len(t)
  BY <1>1
<1>4. /\ \A j \in 1 .. l : T[B + i + j] = c[j]
      /\ T[B + i + l + 1] = NewLine
      /\ u[v] = B + i + l + 1
  BY <1>2, <1>c, <1>l DEF LineAt, BeginsWith
<1>5. ASSUME NEW j \in Nat, 1 <= j, i + j <= n PROVE t[i + j] = T[B + i + j]
  <2>k. PICK k \in 1 .. O - B : k = i + j
    BY <1>1, <1>5, <1>n
  <2>1. B + k = B + i + j
    BY <1>2, <2>k
  <2> QED BY <1>1, <2>k, <2>1
<1>8. B \in Nat /\ O \in Nat /\ n = O - B /\ u[v] = B + i + l + 1
  BY <1>1, <1>2, <1>4, <1>n
<1>6. CASE u[v] <= O
  <2>1. i + l + 1 <= n
    BY ONLY <1>6, <1>8, i \in Nat, l \in Nat
  <2>2. \A j \in 1 .. l : t[i + j] = c[j]
    <3> SUFFICES ASSUME NEW j \in 1 .. l PROVE t[i + j] = c[j]
      OBVIOUS
    <3>1. j \in Nat /\ 1 <= j /\ i + j <= n
      BY <2>1
    <3> QED BY <1>4, <1>5, <3>1
  <2>3. t[i + l + 1] = NewLine
    <3>j. PICK j \in Nat : j = l + 1 /\ 1 <= j
      OBVIOUS
    <3>1. i + j = i + l + 1 /\ B + i + j = B + i + l + 1 /\ i + j <= n
      BY <1>2, <2>1, <3>j
    <3> QED BY <1>4, <1>5, <3>1, <3>j
  <2>4. BeginsWith(t, i, c, l)
    BY <2>2 DEF BeginsWith
  <2>5. i + l + 1 <= Len(t)
    BY <2>1, <1>n
  <2>6. EndAfter(t, i) = i + l + 1 /\ SubSeq(t, i + 1, i + l) = c
    <3>1. WholeIn(t, i, c, l)
      BY <1>3, <1>l, <2>3, <2>4, <2>5 DEF WholeIn
    <3> QED BY <1>1, <3>1, EndWhole
  <2>7. EndAfter(t, i) - 1 = i + l /\ u[v] = B + EndAfter(t, i)
    BY ONLY <1>8, <2>6, i \in Nat, l \in Nat
  <2> QED BY <1>6, <1>c, <2>6, <2>7
<1>7. CASE ~(u[v] <= O)
  <2>0. i <= n
    BY <1>n
  <2>1. n - i <= l /\ i <= n
    BY ONLY <1>7, <1>8, <2>0, n \in Nat, i \in Nat, l \in Nat
  <2>2. \A j \in 1 .. n - i : t[i + j] = c[j]
    <3> SUFFICES ASSUME NEW j \in 1 .. n - i PROVE t[i + j] = c[j]
      OBVIOUS
    <3>1. j \in Nat /\ 1 <= j /\ i + j <= n /\ j \in 1 .. l
      BY <2>1
    <3> QED BY <1>4, <1>5, <3>1
  <2>3. BeginsWith(t, i, c, n - i)
    BY <2>2 DEF BeginsWith
  <2>4. n - i <= Len(c)
    BY <2>1, <1>l
  <2>5. EndAfter(t, i) = n + 1
    BY <1>1, <1>3, <1>n, <2>1, <2>3, <2>4, EndPart
  <2> QED BY <1>7, <1>n, <2>5
<1> QED BY <1>6, <1>7

(* The connection is never inside a line that it should have read whole.   *)
LEMMA NeverInside ==
  ASSUME NEW T, NEW s, NEW u, NEW W, NEW b, NEW torn, NEW B, NEW O, NEW t,
         Reads(T, s, u, W, b, torn, B, O, t), NEW v \in W, B < u[v]
  PROVE  B <= u[v - 1]
<1>1. Written(T, s, u, W, b) /\ B \in Nat /\ Starts(B, s, u, torn)
  BY DEF Reads
<1>2. s \in Nat /\ v \in 1 .. s /\ v - 1 \in 0 .. s /\ v \in 0 .. s
  BY <1>1 DEF Written
<1>3. u[v] \in Nat /\ u[v - 1] \in Nat
  BY <1>1, <1>2 DEF Written
<1>4. CASE torn /\ \A w \in 0 .. s : u[w] <= B
  <2>1. u[v] <= B
    BY <1>2, <1>4
  <2> QED BY <1>1, <1>3, <2>1
<1>5. CASE \E w \in 0 .. s : B = u[w]
  <2>w. PICK w \in 0 .. s : B = u[w]
    BY <1>5
  <2>1. \A x \in 0 .. s : \A y \in 0 .. s : y <= x => u[y] <= u[x]
    BY <1>1, WrittenGrows
  <2>2. w <= v - 1 => u[w] <= u[v - 1]
    BY <1>2, <2>1
  <2>3. v <= w => u[v] <= u[w]
    BY <1>2, <2>1
  <2>4. w <= v - 1 \/ v <= w
    BY <1>2
  <2> QED BY <1>1, <1>3, <2>w, <2>2, <2>3, <2>4
<1> QED BY <1>1, <1>4, <1>5 DEF Starts

(* If a whole line begins where one ended, it is the next one found.       *)
LEMMA NextLine ==
  ASSUME NEW T, NEW s, NEW u, NEW W, NEW b, NEW torn, NEW B, NEW O, NEW t,
         Reads(T, s, u, W, b, torn, B, O, t), NEW e, NEW nb, Breaks(t, e, nb),
         NEW v \in W, u[v] <= O, NEW k \in Nat, k <= nb, u[v - 1] = B + e[k]
  PROVE  /\ k + 1 <= nb /\ u[v] = B + e[k + 1]
         /\ SubSeq(t, e[k] + 1, e[k + 1] - 1) = b[v]
<1>0. /\ nb \in Nat /\ \A j \in 0 .. nb : e[j] \in Nat /\ e[j] <= Len(t)
      /\ \A j \in 1 .. nb : e[j] = EndAfter(t, e[j - 1])
      /\ EndAfter(t, e[nb]) = Len(t) + 1
  BY DEF Breaks
<1>1. t \in Seq(Token) /\ Len(t) = O - B /\ B \in Nat /\ O \in Nat
  <2>1. t \in Seq(Token) /\ Len(t) = O - B
    BY ReadTokens
  <2> QED BY <2>1 DEF Reads
<1>i. PICK i \in Nat : i = e[k] /\ i <= Len(t)
  BY <1>0
<1>2. u[v - 1] = B + i
  BY <1>i
<1>3. u[v] = B + EndAfter(t, i) /\ SubSeq(t, i + 1, EndAfter(t, i) - 1) = b[v]
  BY <1>2, <1>i, LineThere
<1>x. PICK x \in Nat : x = EndAfter(t, i)
  BY <1>1, EndAfterRange
<1>4. x <= Len(t)
  BY <1>1, <1>3, <1>x
<1>5. k # nb
  BY <1>0, <1>1, <1>4, <1>i, <1>x
<1>6. k + 1 \in 1 .. nb /\ (k + 1) - 1 = k
  BY <1>0, <1>5
<1>7. e[k + 1] = x
  BY <1>0, <1>6, <1>i, <1>x
<1> QED BY <1>3, <1>6, <1>7, <1>i, <1>x

(* Each line that ends in what has been read is one of those found in it.  *)
LEMMA LinesReached ==
  ASSUME NEW T, NEW s, NEW u, NEW W, NEW b, NEW torn, NEW B, NEW O, NEW t,
         Reads(T, s, u, W, b, torn, B, O, t), NEW e, NEW nb, Breaks(t, e, nb)
  PROVE  \A v \in 0 .. s : B <= u[v] /\ u[v] <= O => \E k \in 0 .. nb : u[v] = B + e[k]
<1>0. /\ Written(T, s, u, W, b) /\ B \in Nat /\ O \in Nat
      /\ nb \in Nat /\ e[0] = 0
  BY DEF Reads, Breaks
<1>1. s \in Nat /\ u[0] = 0 /\ \A v \in 0 .. s : u[v] \in Nat
  BY <1>0 DEF Written
<1> DEFINE S == {v \in Nat : v \in 0 .. s /\ B <= u[v] /\ u[v] <= O => \E k \in 0 .. nb : u[v] = B + e[k]}
<1>2. 0 \in S
  <2> SUFFICES ASSUME B <= u[0] PROVE \E k \in 0 .. nb : u[0] = B + e[k]
    OBVIOUS
  <2>1. B = 0 /\ 0 \in 0 .. nb
    BY <1>0, <1>1
  <2>2. u[0] = B + e[0]
    BY <1>0, <1>1, <2>1
  <2> QED BY <2>1, <2>2
<1>3. ASSUME NEW v \in Nat, v \in S PROVE v + 1 \in S
  <2> SUFFICES ASSUME v + 1 \in 0 .. s, B <= u[v + 1], u[v + 1] <= O
               PROVE  \E k \in 0 .. nb : u[v + 1] = B + e[k]
    OBVIOUS
  <2>x. PICK x \in 1 .. s : x = v + 1 /\ x - 1 = v
    BY <1>1
  <2>1. v \in 0 .. s /\ x \in 0 .. s /\ u[v] \in Nat /\ u[x] \in Nat
    BY <1>1, <2>x
  <2>2. CASE x \notin W
    <3>1. u[x] = u[v]
      BY <1>0, <2>2, <2>x DEF Written
    <3> QED BY <1>3, <2>1, <2>x, <3>1
  <2>3. CASE u[x] = B
    <3>1. u[x] = B + e[0] /\ 0 \in 0 .. nb
      BY <1>0, <2>3
    <3> QED BY <2>x, <3>1
  <2>4. CASE x \in W /\ u[x] # B
    <3>1. B < u[x] /\ u[x] <= O
      BY <1>0, <2>1, <2>4, <2>x
    <3>2. B <= u[x - 1]
      BY <2>4, <3>1, NeverInside
    <3>3. u[v] <= u[x]
      BY <1>0, <2>1, <2>x, WrittenGrows
    <3>4. B <= u[v] /\ u[v] <= O
      BY <1>0, <2>1, <2>x, <3>1, <3>2, <3>3
    <3>k. PICK k \in 0 .. nb : u[v] = B + e[k]
      BY <1>3, <2>1, <3>4
    <3>5. k \in Nat /\ k <= nb /\ u[x - 1] = B + e[k]
      BY <1>0, <2>x, <3>k
    <3>6. k + 1 <= nb /\ u[x] = B + e[k + 1]
      BY <2>4, <3>1, <3>5, NextLine
    <3>7. k + 1 \in 0 .. nb
      BY <1>0, <3>5, <3>6
    <3> QED BY <2>x, <3>6, <3>7
  <2> QED BY <2>2, <2>3, <2>4
<1>4. Nat \subseteq S
  <2> HIDE DEF S
  <2> QED BY <1>2, <1>3, Induction
<1>5. ASSUME NEW v \in 0 .. s, B <= u[v], u[v] <= O PROVE \E k \in 0 .. nb : u[v] = B + e[k]
  <2>1. v \in Nat
    BY <1>1
  <2> QED BY <1>4, <1>5, <2>1
<1> QED BY <1>5

(* A line that begins where one may begin ends where one may begin, and    *)
(* it is that of a version.                                                *)
LEMMA LineStep ==
  ASSUME NEW T, NEW s, NEW u, NEW W, NEW b, NEW torn, NEW B, NEW O, NEW t,
         Reads(T, s, u, W, b, torn, B, O, t), NEW e, NEW nb, Breaks(t, e, nb),
         NEW k \in Nat, k + 1 <= nb, Starts(B + e[k], s, u, torn)
  PROVE  /\ Starts(B + e[k + 1], s, u, torn)
         /\ ~torn => \E v \in W : SubSeq(t, e[k] + 1, e[k + 1] - 1) = b[v]
<1>0. /\ Written(T, s, u, W, b) /\ B \in Nat /\ O \in Nat /\ torn \in BOOLEAN
      /\ ~torn => u[s] = Len(T)
      /\ O <= Len(T) /\ T \in Seq(Token)
  BY DEF Reads, Written
<1>1. s \in Nat /\ u[0] = 0 /\ \A v \in 0 .. s : u[v] \in Nat
  BY <1>0 DEF Written
<1>y. PICK y \in 1 .. nb : y = k + 1 /\ y - 1 = k
  BY DEF Breaks
<1>2. k \in 0 .. nb /\ y \in 0 .. nb /\ k <= nb
  <2>1. nb \in Nat
    BY DEF Breaks
  <2> QED BY <1>y, <2>1
<1>3. /\ e[k] \in Nat /\ e[y] \in Nat /\ e[y] <= Len(t) /\ e[k] <= Len(t)
      /\ e[y] = EndAfter(t, e[k]) /\ e[k] < e[y]
  BY <1>2, <1>y DEF Breaks
<1>4. t \in Seq(Token) /\ Len(t) = O - B
  BY ReadTokens
<1>5. CASE torn /\ \A v \in 0 .. s : u[v] <= B + e[k]
  <2>1. \A v \in 0 .. s : u[v] <= B + e[y]
    BY <1>0, <1>1, <1>3, <1>5
  <2> QED BY <1>5, <1>y, <2>1 DEF Starts
<1>6. CASE \E v \in 0 .. s : B + e[k] = u[v]
  <2>v. PICK v \in 0 .. s : B + e[k] = u[v]
    BY <1>6
  <2>1. CASE \A w \in 0 .. s : u[w] <= u[v]
    <3>1. CASE torn
      <4>1. \A w \in 0 .. s : u[w] <= B + e[y]
        <5> SUFFICES ASSUME NEW w \in 0 .. s PROVE u[w] <= B + e[y]
          OBVIOUS
        <5>1. u[w] \in Nat /\ u[w] <= B + e[k]
          BY <1>1, <2>1, <2>v
        <5>2. e[k] \in Nat /\ e[y] \in Nat /\ e[k] < e[y] /\ B \in Nat
          BY <1>0, <1>3
        <5> QED BY ONLY <5>1, <5>2
      <4> QED BY <1>y, <3>1, <4>1 DEF Starts
    <3>2. CASE ~torn
      <4>1. u[s] <= u[v] /\ u[s] = Len(T)
        BY <1>0, <1>1, <2>1, <3>2
      <4>2. B + e[k] < O
        BY <1>0, <1>3, <1>4
      <4> QED BY <1>0, <1>3, <2>v, <4>1, <4>2
    <3> QED BY <1>0, <3>1, <3>2
  <2>2. CASE \E w \in 0 .. s : ~(u[w] <= u[v])
    <3>S. PICK S : S = {w \in 0 .. s : ~(u[w] <= u[v])}
      OBVIOUS
    <3>1. S \in SUBSET Nat /\ S # {}
      BY <1>1, <2>2, <3>S
    <3>w. PICK w \in S : \A x \in S : w <= x
      BY <3>1, Least
    <3>2. w \in 0 .. s /\ u[v] < u[w]
      BY <1>1, <3>S
    <3>3. \A x \in 0 .. s : \A z \in 0 .. s : z <= x => u[z] <= u[x]
      BY <1>0, WrittenGrows
    <3>4. v < w
      <4>1. w <= v => u[w] <= u[v]
        BY <3>2, <3>3
      <4> QED BY <1>1, <3>2, <4>1
    <3>5. w \in 1 .. s /\ w - 1 \in 0 .. s /\ v <= w - 1 /\ ~(w <= w - 1)
      BY <1>1, <3>2, <3>4
    <3>6. u[w - 1] <= u[v] /\ u[v] <= u[w - 1]
      BY <3>3, <3>5, <3>S, <3>w
    <3>7. u[w - 1] = u[v] /\ u[w - 1] = B + e[k]
      BY <1>1, <2>v, <3>5, <3>6
    <3>8. w \in W
      BY <1>0, <1>1, <3>2, <3>5, <3>7 DEF Written
    <3>9. u[w] <= O
      <4>i. PICK i \in Nat : i = e[k] /\ i <= Len(t)
        BY <1>3
      <4>1. ~(u[w] <= O) => EndAfter(t, i) = Len(t) + 1
        BY <3>7, <3>8, <4>i, LineThere
      <4> QED BY <1>0, <1>3, <1>4, <4>1, <4>i
    <3>10. u[w] = B + e[k + 1] /\ SubSeq(t, e[k] + 1, e[k + 1] - 1) = b[w]
      BY <1>2, <3>7, <3>8, <3>9, NextLine
    <3>11. Starts(B + e[k + 1], s, u, torn)
      BY <3>2, <3>10 DEF Starts
    <3> QED BY <3>8, <3>10, <3>11
  <2> QED BY <2>1, <2>2
<1> QED BY <1>5, <1>6 DEF Starts

(* Every line found begins where a version's line does; without a line     *)
(* stored in part each of them is the line of a version.                   *)
LEMMA LinesRead ==
  ASSUME NEW T, NEW s, NEW u, NEW W, NEW b, NEW torn, NEW B, NEW O, NEW t,
         Reads(T, s, u, W, b, torn, B, O, t), NEW e, NEW nb, Breaks(t, e, nb)
  PROVE  /\ \A k \in 0 .. nb : Starts(B + e[k], s, u, torn)
         /\ ~torn => \A k \in 1 .. nb : \E v \in W : SubSeq(t, e[k - 1] + 1, e[k] - 1) = b[v]
<1>0. nb \in Nat /\ e[0] = 0 /\ B \in Nat /\ Starts(B, s, u, torn)
  BY DEF Reads, Breaks
<1> DEFINE S == {k \in Nat : k <= nb => Starts(B + e[k], s, u, torn)}
<1>1. 0 \in S
  <2>1. B + e[0] = B
    BY <1>0
  <2> QED BY <1>0, <2>1
<1>2. ASSUME NEW k \in Nat, k \in S PROVE k + 1 \in S
  <2>1. k + 1 <= nb => k <= nb
    BY <1>0
  <2> QED BY <1>2, <2>1, LineStep
<1>3. Nat \subseteq S
  <2> HIDE DEF S
  <2> QED BY <1>1, <1>2, Induction
<1>4. \A k \in 0 .. nb : k \in Nat /\ k <= nb
  BY <1>0
<1>5. \A k \in 0 .. nb : Starts(B + e[k], s, u, torn)
  BY <1>3, <1>4
<1>6. ASSUME ~torn, NEW k \in 1 .. nb
      PROVE  \E v \in W : SubSeq(t, e[k - 1] + 1, e[k] - 1) = b[v]
  <2>j. PICK j \in Nat : j = k - 1 /\ j + 1 = k /\ j + 1 <= nb /\ j \in 0 .. nb
    BY <1>0
  <2>1. Starts(B + e[j], s, u, torn)
    BY <1>5, <2>j
  <2>2. \E v \in W : SubSeq(t, e[j] + 1, e[j + 1] - 1) = b[v]
    BY <1>6, <2>j, <2>1, LineStep
  <2> QED BY <2>j, <2>2
<1> QED BY <1>5, <1>6

(* What is left of a line, and the lines found, after a buffer is read:    *)
(* the connection is at the beginning of a line again, and it has found    *)
(* the lines that it has gone past.                                        *)
ReadTo(T, s, u, W, b, torn, B, O, t, E) ==
    /\ E \in Nat /\ B <= E /\ E <= O
    /\ LinesOf(t).rest = SubSeq(T, E + 1, O) /\ Len(LinesOf(t).rest) = O - E
    /\ Starts(E, s, u, torn)
    /\ \A v \in 0 .. s : u[v] <= O => u[v] <= E
    /\ \A v \in W : B < u[v] /\ u[v] <= E => b[v] \in LinesOf(t).lines
    /\ ~torn => \A l \in LinesOf(t).lines : \E v \in W : l = b[v]

(* So is a buffer read, whatever its size.                                 *)
LEMMA BufferRead ==
  ASSUME NEW T, NEW s, NEW u, NEW W, NEW b, NEW torn, NEW B, NEW O, NEW t,
         Reads(T, s, u, W, b, torn, B, O, t)
  PROVE  \E E : ReadTo(T, s, u, W, b, torn, B, O, t, E)
<1>0. /\ Written(T, s, u, W, b) /\ B \in Nat /\ O \in Nat /\ B <= O /\ O <= Len(T)
      /\ T \in Seq(Token) /\ s \in Nat
      /\ (\A v \in 0 .. s : u[v] \in Nat) /\ W \in SUBSET (1 .. s)
  <2>1. /\ Written(T, s, u, W, b) /\ B \in Nat /\ O \in Nat /\ B <= O /\ O <= Len(T)
    BY DEF Reads
  <2> QED BY <2>1 DEF Written
<1>1. t \in Seq(Token) /\ Len(t) = O - B /\ \A j \in 1 .. O - B : t[j] = T[B + j]
  BY ReadTokens
<1>e. PICK e, nb : /\ Breaks(t, e, nb)
                   /\ LinesOf(t).lines = {SubSeq(t, e[k - 1] + 1, e[k] - 1) : k \in 1 .. nb}
                   /\ LinesOf(t).rest = SubSeq(t, e[nb] + 1, Len(t))
  BY <1>1, LinesBreak
<1>2. /\ nb \in Nat /\ e[0] = 0 /\ \A k \in 0 .. nb : e[k] \in Nat /\ e[k] <= Len(t)
      /\ \A k \in 1 .. nb : e[k - 1] < e[k]
  BY <1>e DEF Breaks
<1>c. PICK c \in Nat : c = e[nb] /\ c <= Len(t)
  BY <1>2
<1>E. PICK E \in Nat : E = B + c
  BY <1>0
<1>3. B <= E /\ E <= O
  BY <1>0, <1>1, <1>c, <1>E
<1>4. \A k \in 0 .. nb : e[k] <= c
  <2> DEFINE P == [k \in 0 .. nb |-> e[k]]
  <2>1. P \in [0 .. nb -> Nat] /\ \A k \in 1 .. nb : P[k - 1] < P[k]
    <3>1. \A k \in 1 .. nb : k - 1 \in 0 .. nb /\ k \in 0 .. nb
      BY <1>2
    <3> QED BY <1>2, <3>1
  <2>2. Climbs(P, nb)
    <3> HIDE DEF P
    <3> QED BY <1>2, <2>1, StepsClimb
  <2> SUFFICES ASSUME NEW k \in 0 .. nb PROVE e[k] <= c
    OBVIOUS
  <2>3. nb \in 0 .. nb /\ (k < nb \/ k = nb)
    BY <1>2
  <2>4. k < nb => P[k] < P[nb]
    BY <2>2, <2>3 DEF Climbs
  <2>5. P[k] = e[k] /\ P[nb] = e[nb] /\ e[k] \in Nat
    BY <1>2, <2>3
  <2> QED BY <1>c, <2>3, <2>4, <2>5
<1>5. LinesOf(t).rest = SubSeq(T, E + 1, O) /\ Len(LinesOf(t).rest) = O - E
  <2>r. PICK r : r = LinesOf(t).rest
    OBVIOUS
  <2>x. PICK x \in Nat : x = c + 1
    OBVIOUS
  <2>y. PICK y \in Nat : y = Len(t)
    BY <1>1
  <2>z. PICK z \in Nat : z = E + 1
    OBVIOUS
  <2>n. PICK n \in Nat : n = O - E
    BY <1>0, <1>3
  <2>1. r = SubSeq(t, x, y)
    BY <1>e, <1>c, <2>r, <2>x, <2>y
  <2>q. PICK q : q = SubSeq(T, z, O)
    OBVIOUS
  <2>0. B \in Nat /\ O \in Nat /\ B <= O /\ y = O - B /\ c <= y
    BY <1>0, <1>1, <1>c, <2>y
  <2>2. 1 <= x /\ x <= y + 1 /\ y <= Len(t) /\ y - x + 1 = n
    <3>1. 1 <= x /\ x <= y + 1 /\ y - x + 1 = n
      BY ONLY <2>0, <1>E, <2>x, <2>n, c \in Nat
    <3> QED BY <2>0, <2>y, <3>1
  <2>3. 1 <= z /\ z <= O + 1 /\ O <= Len(T) /\ O - z + 1 = n
    BY <1>0, <1>3, <2>z, <2>n
  <2>4. r \in Seq(Token) /\ Len(r) = n /\ \A i \in 1 .. n : r[i] = t[x + i - 1]
    BY <1>1, <2>1, <2>2, TokenSubSeq
  <2>5. q \in Seq(Token) /\ Len(q) = n /\ \A i \in 1 .. n : q[i] = T[z + i - 1]
    BY <1>0, <2>3, <2>q, TokenSubSeq
  <2>6. ASSUME NEW i \in 1 .. n PROVE r[i] = q[i]
    <3>j. PICK j \in 1 .. O - B : j = x + i - 1
      <4>1. x + i - 1 \in 1 .. O - B
        BY ONLY <2>0, <1>E, <2>n, <2>x, c \in Nat, i \in 1 .. n
      <4> QED BY <4>1
    <3>1. B + j = z + i - 1
      BY <1>0, <1>E, <2>x, <2>z, <3>j
    <3> QED BY <1>1, <2>4, <2>5, <3>j, <3>1
  <2>7. r = q
    BY <2>4, <2>5, <2>6, TokenEqual
  <2> QED BY <2>4, <2>7, <2>r, <2>q, <2>z, <2>n
<1>6. Starts(E, s, u, torn)
  <2>1. nb \in 0 .. nb
    BY <1>2
  <2>2. Starts(B + e[nb], s, u, torn)
    BY <1>e, <2>1, LinesRead
  <2> QED BY <2>2, <1>c, <1>E
<1>7. ASSUME NEW v \in 0 .. s, u[v] <= O PROVE u[v] <= E
  <2>1. CASE u[v] <= B
    BY <1>0, <1>3, <2>1
  <2>2. CASE ~(u[v] <= B)
    <3>1. B <= u[v]
      BY <1>0, <2>2
    <3>k. PICK k \in 0 .. nb : u[v] = B + e[k]
      BY <1>e, <1>7, <3>1, LinesReached
    <3>2. e[k] \in Nat /\ e[k] <= c
      BY <1>2, <1>4
    <3> QED BY <1>0, <1>E, <3>k, <3>2
  <2> QED BY <2>1, <2>2
<1>8. ASSUME NEW v \in W, B < u[v], u[v] <= E PROVE b[v] \in LinesOf(t).lines
  <2>1. v \in 0 .. s /\ v \in 1 .. s /\ v - 1 \in 0 .. s
    BY <1>0
  <2>2. u[v] <= O /\ u[v] \in Nat /\ u[v - 1] \in Nat
    BY <1>0, <1>3, <1>8, <2>1
  <2>3. B <= u[v - 1]
    BY <1>8, NeverInside
  <2>4. u[v - 1] <= u[v]
    <3>1. v - 1 <= v
      BY <1>0, <2>1
    <3> QED BY <1>0, <2>1, <3>1, WrittenGrows
  <2>5. u[v - 1] <= O
    BY <1>0, <2>2, <2>4
  <2>k. PICK k \in 0 .. nb : u[v - 1] = B + e[k]
    BY <1>e, <2>1, <2>3, <2>5, LinesReached
  <2>6. k \in Nat /\ k <= nb
    BY <1>2
  <2>7. k + 1 <= nb /\ SubSeq(t, e[k] + 1, e[k + 1] - 1) = b[v]
    BY <1>e, <2>2, <2>k, <2>6, NextLine
  <2>i. PICK i \in 1 .. nb : i = k + 1 /\ i - 1 = k
    BY <1>2, <2>6, <2>7
  <2>8. SubSeq(t, e[i - 1] + 1, e[i] - 1) = b[v]
    BY <2>7, <2>i
  <2> QED BY <1>e, <2>8
<1>9. ASSUME ~torn, NEW l \in LinesOf(t).lines PROVE \E v \in W : l = b[v]
  <2>k. PICK k \in 1 .. nb : l = SubSeq(t, e[k - 1] + 1, e[k] - 1)
    BY <1>e
  <2>1. \E v \in W : SubSeq(t, e[k - 1] + 1, e[k] - 1) = b[v]
    BY <1>e, <1>9, LinesRead
  <2> QED BY <2>1, <2>k
<1>10. ReadTo(T, s, u, W, b, torn, B, O, t, E)
  BY <1>3, <1>5, <1>6, <1>7, <1>8, <1>9 DEF ReadTo
<1> QED BY <1>10

-----------------------------------------------------------------------------
(* The lines of the versions that are stored.                              *)

(* The versions that are stored before the first line stored in part are   *)
(* the first ones.                                                         *)
LEMMA SoundIs ==
  ASSUME SavedOK
  PROVE  \E s \in Nat : /\ s <= Len(saved) /\ Sound = 0 .. s
                        /\ Torn = {} => s = Len(saved)
<1>n. PICK n \in Nat : n = Len(saved) /\ DOMAIN saved = 1 .. n
  BY DEF SavedOK
<1>1. CASE Torn = {}
  <2>1. Sound = 0 .. n
    BY <1>n, <1>1 DEF Sound
  <2> QED BY <1>n, <2>1
<1>2. CASE Torn # {}
  <2>1. Torn \in SUBSET Nat /\ \A w \in Torn : w \in 1 .. n
    BY <1>n DEF Torn
  <2>w. PICK w \in Torn : \A x \in Torn : w <= x
    BY <1>2, <2>1, Least
  <2>s. PICK s \in Nat : s = w - 1 /\ s <= n
    BY <2>1
  <2>2. ASSUME NEW v \in Sound PROVE v \in 0 .. s
    <3>1. v \in 0 .. n /\ v < w
      BY <1>n, <2>w DEF Sound
    <3> QED BY <2>1, <2>s, <3>1
  <2>3. ASSUME NEW v \in 0 .. s PROVE v \in Sound
    <3>1. v \in 0 .. n /\ v < w /\ v \in Nat
      BY <2>1, <2>s
    <3>2. \A x \in Torn : v < x
      <4> SUFFICES ASSUME NEW x \in Torn PROVE v < x
        OBVIOUS
      <4>1. w <= x /\ x \in Nat /\ w \in Nat
        BY <2>1, <2>w
      <4> QED BY <3>1, <4>1
    <3> QED BY <1>n, <3>1, <3>2 DEF Sound
  <2>4. Sound = 0 .. s
    BY <2>2, <2>3
  <2> QED BY <1>2, <1>n, <2>s, <2>4
<1> QED BY <1>1, <1>2

(* The line of a version.                                                  *)
BodyOf(v) == Body(Received(saved[v].meta))

(* The line of a version is its body and a new line, and what is read of   *)
(* its body is what was written, but for NULL.                             *)
LEMMA TextOfLine ==
  ASSUME NEW m, LineMeta(m)
  PROVE  /\ WholeBody(Body(m)) /\ ReadLine(Body(m)) = AsRead(m)
         /\ Line(m) = Body(m) \o <<NewLine>> /\ Line(m) \in Seq(Token)
         /\ Len(Line(m)) = Len(Body(m)) + 1
         /\ \A j \in 1 .. Len(Body(m)) : Line(m)[j] = Body(m)[j]
         /\ Line(m)[Len(Body(m)) + 1] = NewLine
<1>1. WholeBody(Body(m)) /\ ReadLine(Body(m)) = AsRead(m)
  BY BodyFacts DEF WholeBody
<1>a. PICK a \in Seq(Token) : a = Body(m)
  BY <1>1 DEF WholeBody
<1>b. PICK b \in Seq(Token) : b = <<NewLine>>
  BY MarkSeqs
<1>2. Len(b) = 1 /\ b[1] = NewLine
  BY <1>b
<1>l. PICK l : l = Line(m)
  OBVIOUS
<1>3. l = a \o b
  BY <1>a, <1>b, <1>l, LineIs
<1>4. /\ l \in Seq(Token) /\ Len(l) = Len(a) + Len(b)
      /\ \A i \in 1 .. Len(a) : l[i] = a[i]
      /\ \A i \in 1 .. Len(b) : l[Len(a) + i] = b[i]
  BY <1>3, TokenConcat
<1>5. l[Len(a) + 1] = NewLine
  BY <1>2, <1>4
<1> QED BY <1>1, <1>2, <1>3, <1>4, <1>5, <1>a, <1>b, <1>l

(* Each version has a line of tokens, or none.                             *)
LEMMA StoredLineType ==
  ASSUME SavedOK, NEW v \in 1 .. Len(saved)
  PROVE  /\ StoredLine(v) \in Seq(Token) /\ saved[v].meta \in Meta
         /\ saved[v].kept \in {"whole", "torn", "lost"}
<1>1. saved[v].meta \in Meta /\ saved[v].kept \in {"whole", "torn", "lost"}
  <2>R. PICK R : R = [meta : Meta, kept : {"whole", "torn", "lost"}]
    OBVIOUS
  <2>1. saved \in Seq(R)
    BY <2>R DEF SavedOK
  <2>2. saved[v] \in R
    BY <2>1, ElementOfSeq
  <2> QED BY <2>2, <2>R
<1>2. Line(Received(saved[v].meta)) \in Seq(Token)
  BY <1>1, MetaFacts, TextOfLine
<1>3. <<>> \in Seq(Token)
  OBVIOUS
<1> QED BY <1>1, <1>2, <1>3 DEF StoredLine

(* The text of the first versions grows by the line of the next one.       *)
LEMMA StoredFacts ==
  ASSUME SavedOK
  PROVE  /\ StoredUpTo(0) = <<>>
         /\ \A v \in 1 .. Len(saved) : StoredUpTo(v) = StoredUpTo(v - 1) \o StoredLine(v)
         /\ \A v \in 0 .. Len(saved) : StoredUpTo(v) \in Seq(Token)
<1>n. PICK n \in Nat : n = Len(saved)
  BY DEF SavedOK
<1>1. StoredUpTo(0) = <<>>
  <2>1. [w \in 1 .. 0 |-> StoredLine(w)] = <<>>
    OBVIOUS
  <2> QED BY <2>1, FlattenEmpty DEF StoredUpTo
<1>2. ASSUME NEW v \in 1 .. n PROVE StoredUpTo(v) = StoredUpTo(v - 1) \o StoredLine(v)
  <2>k. PICK k \in Nat : k = v - 1 /\ v = k + 1
    OBVIOUS
  <2>s. PICK s : s = [w \in 1 .. k |-> StoredLine(w)]
    OBVIOUS
  <2>t. PICK t : t = [w \in 1 .. v |-> StoredLine(w)]
    OBVIOUS
  <2>1. Len(s) = k /\ Len(t) = k + 1 /\ \A i \in 1 .. k : s[i] = t[i]
    BY <2>k, <2>s, <2>t
  <2>2. /\ k = 0 => FlattenSeq(t) = t[1]
        /\ k # 0 => FlattenSeq(t) = FlattenSeq(s) \o t[k + 1]
    BY ONLY <2>1, FlattenMore, k \in Nat
  <2>3. t[k + 1] = StoredLine(v)
    BY <2>k, <2>t
  <2>4. FlattenSeq(t) = StoredUpTo(v) /\ FlattenSeq(s) = StoredUpTo(v - 1)
    BY <2>k, <2>s, <2>t DEF StoredUpTo
  <2>5. CASE k # 0
    BY <2>2, <2>3, <2>4, <2>5
  <2>6. CASE k = 0
    <3>1. StoredUpTo(v - 1) = <<>> /\ StoredUpTo(v) = StoredLine(v)
      BY <1>1, <2>2, <2>3, <2>4, <2>6, <2>k
    <3>2. StoredLine(v) \in Seq(Token)
      BY <1>n, StoredLineType
    <3> QED BY <3>1, <3>2
  <2> QED BY <2>5, <2>6
<1>3. \A v \in 0 .. n : StoredUpTo(v) \in Seq(Token)
  <2> DEFINE S == {v \in Nat : v \in 0 .. n => StoredUpTo(v) \in Seq(Token)}
  <2>1. 0 \in S
    <3>1. <<>> \in Seq(Token)
      OBVIOUS
    <3> QED BY <1>1, <3>1
  <2>2. ASSUME NEW v \in Nat, v \in S PROVE v + 1 \in S
    <3> SUFFICES ASSUME v + 1 \in 0 .. n PROVE StoredUpTo(v + 1) \in Seq(Token)
      OBVIOUS
    <3>x. PICK x \in 1 .. n : x = v + 1 /\ x - 1 = v
      OBVIOUS
    <3>1. StoredUpTo(v) \in Seq(Token)
      BY <2>2
    <3>2. StoredUpTo(x) = StoredUpTo(v) \o StoredLine(x)
      BY <1>2, <3>x
    <3>3. StoredLine(x) \in Seq(Token)
      BY <1>n, StoredLineType
    <3>4. StoredUpTo(x) \in Seq(Token)
      BY <3>1, <3>2, <3>3, TokenConcat
    <3> QED BY <3>4, <3>x
  <2>3. Nat \subseteq S
    <3> HIDE DEF S
    <3> QED BY <2>1, <2>2, Induction
  <2> QED BY <2>3
<1> QED BY <1>1, <1>2, <1>3, <1>n

(* The text of the file, in the words of what is read of it.               *)
Lengths(s) == [v \in 0 .. s |-> Len(StoredUpTo(v))]
Wholes(s) == {v \in 1 .. s : saved[v].kept = "whole"}
Bodies(s) == [v \in 1 .. s |-> BodyOf(v)]

(* A prefix of the text.                                                   *)
IsBeginning(p, t) ==
    /\ p \in Seq(Token) /\ Len(p) <= Len(t) /\ \A i \in 1 .. Len(p) : p[i] = t[i]

(* A prefix is a part that begins at the first token.                      *)
LEMMA PrefixIs ==
  ASSUME NEW t \in Seq(Token), NEW p \in Seq(Token)
  PROVE  IsBeginning(p, t) <=> Len(p) <= Len(t) /\ SubSeq(t, 1, Len(p)) = p
<1>n. PICK n \in Nat : n = Len(p)
  OBVIOUS
<1>x. PICK x \in Nat : x = 1
  OBVIOUS
<1>1. ASSUME n <= Len(t)
      PROVE  (SubSeq(t, 1, n) = p) <=> \A i \in 1 .. n : p[i] = t[i]
  <2>q. PICK q : q = SubSeq(t, x, n)
    OBVIOUS
  <2>1. 1 <= x /\ x <= n + 1 /\ n - x + 1 = n /\ \A i \in 1 .. n : x + i - 1 = i
    BY <1>x
  <2>2. q \in Seq(Token) /\ Len(q) = n - x + 1 /\ \A i \in 1 .. n - x + 1 : q[i] = t[x + i - 1]
    BY <1>1, <2>1, <2>q, TokenSubSeq
  <2>3. Len(q) = n /\ \A i \in 1 .. n : q[i] = t[i]
    BY <2>1, <2>2
  <2>4. (\A i \in 1 .. n : p[i] = t[i]) => q = p
    <3> SUFFICES ASSUME \A i \in 1 .. n : p[i] = t[i] PROVE q = p
      OBVIOUS
    <3>1. \A i \in 1 .. Len(q) : q[i] = p[i]
      BY <2>3
    <3> QED BY <1>n, <2>2, <2>3, <3>1, TokenEqual
  <2>5. q = p => \A i \in 1 .. n : p[i] = t[i]
    BY <2>3
  <2> QED BY <1>x, <2>q, <2>4, <2>5
<1> QED BY <1>1, <1>n DEF IsBeginning

(* The file begins with the lines of the versions before the first line    *)
(* stored in part.                                                         *)
LEMMA SoundPrefix ==
  ASSUME SavedOK, FileOK, backend = "file", NEW v \in Sound
  PROVE  IsBeginning(StoredUpTo(v), text)
<1>1. v \in 0 .. Len(saved)
  BY DEF Sound
<1>2. StoredUpTo(v) \in Seq(Token) /\ text \in Seq(Token)
  <2>1. text \in Seq(Token)
    BY DEF SavedOK
  <2> QED BY <1>1, <2>1, StoredFacts
<1>3. Len(StoredUpTo(v)) <= Len(text) /\ SubSeq(text, 1, Len(StoredUpTo(v))) = StoredUpTo(v)
  BY DEF FileOK
<1> QED BY <1>2, <1>3, PrefixIs

(* The file is what the lemmas on reading ask for.                         *)
LEMMA WrittenNow ==
  ASSUME SavedOK, FileOK, backend = "file", NEW s \in Nat, s <= Len(saved), Sound = 0 .. s
  PROVE  Written(text, s, Lengths(s), Wholes(s), Bodies(s))
<1>u. PICK u : u = Lengths(s)
  OBVIOUS
<1>W. PICK W : W = Wholes(s)
  OBVIOUS
<1>b. PICK b : b = Bodies(s)
  OBVIOUS
<1>n. PICK n \in Nat : n = Len(saved) /\ s <= n
  BY DEF SavedOK
<1>t. text \in Seq(Token)
  BY DEF SavedOK
<1>1. \A v \in 0 .. s : u[v] = Len(StoredUpTo(v))
  BY <1>u DEF Lengths
<1>2. \A v \in 0 .. s : IsBeginning(StoredUpTo(v), text)
  BY SoundPrefix
<1>3. \A v \in 0 .. s : u[v] \in Nat /\ u[v] <= Len(text)
  BY <1>1, <1>2 DEF IsBeginning
<1>4. u[0] = 0
  <2>1. 0 \in 0 .. s /\ Len(<<>>) = 0
    OBVIOUS
  <2> QED BY <1>1, <2>1, StoredFacts
<1>5. W \in SUBSET (1 .. s)
  BY <1>W DEF Wholes
<1>6. ASSUME NEW v \in 1 .. s
      PROVE  /\ v - 1 \in 0 .. s /\ v \in 0 .. s /\ v \in 1 .. n
             /\ StoredUpTo(v) = StoredUpTo(v - 1) \o StoredLine(v)
             /\ StoredUpTo(v - 1) \in Seq(Token) /\ StoredUpTo(v) \in Seq(Token)
             /\ saved[v].kept \in {"whole", "lost"}
  <2>1. v - 1 \in 0 .. s /\ v \in 0 .. s /\ v \in 1 .. n /\ v - 1 \in 0 .. n /\ v \in 0 .. n
    BY <1>n
  <2>2. StoredUpTo(v) = StoredUpTo(v - 1) \o StoredLine(v)
    BY <1>n, <2>1, StoredFacts
  <2>3. StoredUpTo(v - 1) \in Seq(Token) /\ StoredUpTo(v) \in Seq(Token)
    BY <1>n, <2>1, StoredFacts
  <2>4. saved[v].kept # "torn"
    <3> SUFFICES ASSUME saved[v].kept = "torn" PROVE FALSE
      OBVIOUS
    <3>1. v \in DOMAIN saved
      BY <1>n, <2>1 DEF SavedOK
    <3>2. v \in Torn
      BY <3>1 DEF Torn
    <3>3. v \in Sound
      BY <2>1
    <3>4. v < v
      BY <3>2, <3>3 DEF Sound
    <3> QED BY <3>4
  <2>5. saved[v].kept \in {"whole", "torn", "lost"}
    BY <1>n, <2>1, StoredLineType
  <2> QED BY <2>1, <2>2, <2>3, <2>4, <2>5
<1>7. ASSUME NEW v \in 1 .. s, v \notin W PROVE u[v] = u[v - 1]
  <2>1. saved[v].kept # "whole"
    BY <1>7, <1>W DEF Wholes
  <2>2. StoredLine(v) = <<>>
    BY <2>1 DEF StoredLine
  <2>p. PICK p \in Seq(Token) : p = StoredUpTo(v - 1)
    BY <1>6
  <2>3. p \o <<>> = p
    OBVIOUS
  <2>4. StoredUpTo(v) = p
    BY <1>6, <2>2, <2>3, <2>p
  <2> QED BY <1>1, <1>6, <2>4, <2>p
<1>8. ASSUME NEW v \in W PROVE u[v] = u[v - 1] + Len(b[v]) + 1 /\ LineAt(text, u[v - 1], b[v])
  <2>0. v \in 1 .. s /\ saved[v].kept = "whole"
    BY <1>W DEF Wholes
  <2>m. PICK m : m = Received(saved[v].meta)
    OBVIOUS
  <2>1. LineMeta(m)
    <3>1. saved[v].meta \in Meta
      BY <1>6, <1>n, <2>0, StoredLineType
    <3> QED BY <2>m, <3>1, MetaFacts
  <2>c. PICK c \in Seq(Token) : c = Body(m) /\ WholeBody(c)
    BY <2>1, TextOfLine DEF WholeBody
  <2>l. PICK l \in Seq(Token) : l = Line(m)
    BY <2>1, TextOfLine
  <2>k. PICK k \in Nat : k = Len(c)
    OBVIOUS
  <2>2. Len(l) = k + 1 /\ (\A j \in 1 .. k : l[j] = c[j]) /\ l[k + 1] = NewLine
    BY <2>1, <2>c, <2>l, <2>k, TextOfLine
  <2>3. b[v] = c
    BY <1>b, <2>0, <2>c, <2>m DEF Bodies, BodyOf
  <2>4. StoredLine(v) = l
    BY <2>0, <2>l, <2>m DEF StoredLine
  <2>p. PICK p \in Seq(Token) : p = StoredUpTo(v - 1)
    BY <1>6, <2>0
  <2>q. PICK q \in Seq(Token) : q = StoredUpTo(v)
    BY <1>6, <2>0
  <2>5. q = p \o l
    BY <1>6, <2>0, <2>4, <2>p, <2>q
  <2>i. PICK i \in Nat : i = Len(p)
    OBVIOUS
  <2>6. /\ Len(q) = Len(p) + Len(l)
        /\ \A j \in 1 .. Len(l) : q[Len(p) + j] = l[j]
    BY <2>5, TokenConcat
  <2>7. Len(q) = i + k + 1 /\ \A j \in 1 .. k + 1 : q[i + j] = l[j]
    <3>1. Len(q) = i + (k + 1)
      BY ONLY <2>2, <2>6, <2>i
    <3>2. \A j \in 1 .. k + 1 : q[i + j] = l[j]
      BY ONLY <2>2, <2>6, <2>i
    <3> QED BY <3>1, <3>2
  <2>8. u[v] = i + k + 1 /\ u[v - 1] = i
    BY <1>1, <1>6, <2>0, <2>7, <2>i, <2>p, <2>q
  <2>9. \A j \in 1 .. i + k + 1 : q[j] = text[j]
    BY <1>2, <1>6, <2>0, <2>7, <2>q DEF IsBeginning
  <2>10. \A j \in 1 .. k + 1 : text[i + j] = l[j]
    <3>1. \A j \in 1 .. k + 1 : i + j \in 1 .. i + k + 1
      OBVIOUS
    <3> QED BY <2>7, <2>9, <3>1
  <2>11. BeginsWith(text, i, c, k)
    <3>1. \A j \in 1 .. k : j \in 1 .. k + 1
      OBVIOUS
    <3> QED BY <2>2, <2>10, <3>1 DEF BeginsWith
  <2>12. text[i + k + 1] = NewLine
    <3>1. k + 1 \in 1 .. k + 1 /\ i + (k + 1) = i + k + 1
      OBVIOUS
    <3> QED BY <2>2, <2>10, <3>1
  <2>13. LineAt(text, i, c)
    BY <2>11, <2>12, <2>c, <2>k DEF LineAt
  <2> QED BY <2>3, <2>8, <2>13, <2>k
<1>9. Written(text, s, u, W, b)
  BY <1>t, <1>3, <1>4, <1>5, <1>7, <1>8 DEF Written
<1> QED BY <1>9, <1>u, <1>W, <1>b

-----------------------------------------------------------------------------
(* The steps of Catalogue.                                                 *)

(* What a step of the connection leaves as it is.                          *)
LEMMA SavedSame ==
  ASSUME saved' = saved
  PROVE  /\ Torn' = Torn /\ Sound' = Sound
         /\ \A v : StoredUpTo(v)' = StoredUpTo(v)
<1>1. Torn' = Torn
  BY DEF Torn
<1>2. Sound' = Sound
  BY <1>1 DEF Sound
<1>3. \A v : StoredUpTo(v)' = StoredUpTo(v)
  BY DEF StoredUpTo, StoredLine, Received, FillsServerMetaData
<1> QED BY <1>1, <1>2, <1>3

(* The store is sound as long as it does not change.                       *)
LEMMA StoreSame ==
  ASSUME SavedOK, FileOK, DocumentsOK, UNCHANGED storeVars
  PROVE  SavedOK' /\ FileOK' /\ DocumentsOK'
<1>0. /\ backend' = backend /\ text' = text /\ documents' = documents /\ saved' = saved
      /\ ready' = ready
  BY DEF storeVars
<1>1. Torn' = Torn /\ Sound' = Sound /\ \A v : StoredUpTo(v)' = StoredUpTo(v)
  BY <1>0, SavedSame
<1>2. SavedOK'
  BY <1>0, <1>1 DEF SavedOK
<1>3. FileOK'
  BY <1>0, <1>1 DEF FileOK
<1>4. DocumentsOK'
  BY <1>0 DEF DocumentsOK
<1> QED BY <1>2, <1>3, <1>4

(* So is an answer, as long as neither it nor the store changes.           *)
LEMMA AnswerSame ==
  ASSUME AnswerOK, AskedIsListed, ListedIsSaved, UNCHANGED <<storeVars, answer>>
  PROVE  AnswerOK' /\ AskedIsListed' /\ ListedIsSaved'
<1>0. /\ backend' = backend /\ text' = text /\ documents' = documents /\ saved' = saved
      /\ answer' = answer
  BY DEF storeVars
<1>1. Torn' = Torn
  BY <1>0, SavedSame
<1>2. AnswerOK'
  BY <1>0 DEF AnswerOK
<1>3. AskedIsListed'
  BY <1>0, <1>1 DEF AskedIsListed, AsSaved, Misdated
<1>4. ListedIsSaved'
  BY <1>0, <1>1 DEF ListedIsSaved, AsSaved
<1> QED BY <1>2, <1>3, <1>4

-----------------------------------------------------------------------------
(* A buffer after what has been read of a line.                            *)
LEMMA SubSeqConcat ==
  ASSUME NEW T \in Seq(Token), NEW B \in Nat, NEW O \in Nat, NEW Z \in Nat,
         B <= O, O <= Z, Z <= Len(T)
  PROVE  SubSeq(T, B + 1, O) \o SubSeq(T, O + 1, Z) = SubSeq(T, B + 1, Z)
<1>x. PICK x \in Nat : x = B + 1
  OBVIOUS
<1>y. PICK y \in Nat : y = O + 1
  OBVIOUS
<1>a. PICK a : a = SubSeq(T, x, O)
  OBVIOUS
<1>b. PICK b : b = SubSeq(T, y, Z)
  OBVIOUS
<1>c. PICK c : c = SubSeq(T, x, Z)
  OBVIOUS
<1>k. PICK k \in Nat : k = O - B
  OBVIOUS
<1>l. PICK l \in Nat : l = Z - O
  OBVIOUS
<1>1. a \in Seq(Token) /\ Len(a) = k /\ \A i \in 1 .. k : a[i] = T[x + i - 1]
  <2>1. 1 <= x /\ x <= O + 1 /\ O <= Len(T) /\ O - x + 1 = k
    BY <1>x, <1>k
  <2>2. a \in Seq(Token) /\ Len(a) = O - x + 1 /\ \A i \in 1 .. O - x + 1 : a[i] = T[x + i - 1]
    BY <1>a, <2>1, TokenSubSeq
  <2> QED BY <2>1, <2>2
<1>2. b \in Seq(Token) /\ Len(b) = l /\ \A i \in 1 .. l : b[i] = T[y + i - 1]
  <2>1. 1 <= y /\ y <= Z + 1 /\ Z <= Len(T) /\ Z - y + 1 = l
    BY <1>y, <1>l
  <2>2. b \in Seq(Token) /\ Len(b) = Z - y + 1 /\ \A i \in 1 .. Z - y + 1 : b[i] = T[y + i - 1]
    BY <1>b, <2>1, TokenSubSeq
  <2> QED BY <2>1, <2>2
<1>3. c \in Seq(Token) /\ Len(c) = k + l /\ \A i \in 1 .. k + l : c[i] = T[x + i - 1]
  <2>1. 1 <= x /\ x <= Z + 1 /\ Z <= Len(T) /\ Z - x + 1 = k + l
    BY <1>x, <1>k, <1>l
  <2>2. c \in Seq(Token) /\ Len(c) = Z - x + 1 /\ \A i \in 1 .. Z - x + 1 : c[i] = T[x + i - 1]
    BY <1>c, <2>1, TokenSubSeq
  <2> QED BY <2>1, <2>2
<1>d. PICK d : d = a \o b
  OBVIOUS
<1>4. /\ d \in Seq(Token) /\ Len(d) = Len(a) + Len(b)
      /\ \A i \in 1 .. Len(a) : d[i] = a[i]
      /\ \A i \in 1 .. Len(b) : d[Len(a) + i] = b[i]
  BY <1>1, <1>2, <1>d, TokenConcat
<1>5. Len(d) = k + l /\ (\A i \in 1 .. k : d[i] = a[i]) /\ \A i \in 1 .. l : d[k + i] = b[i]
  BY ONLY <1>1, <1>2, <1>4, k \in Nat, l \in Nat
<1>6. ASSUME NEW i \in 1 .. k + l PROVE d[i] = c[i]
  <2>1. CASE i \in 1 .. k
    BY <1>1, <1>3, <1>5, <2>1
  <2>2. CASE i \notin 1 .. k
    <3>j. PICK j \in 1 .. l : j = i - k /\ i = k + j
      <4>1. i - k \in 1 .. l /\ i = k + (i - k)
        BY <2>2
      <4> QED BY <4>1
    <3>1. y + j - 1 = x + i - 1
      BY <1>x, <1>y, <1>k, <3>j
    <3>2. d[i] = b[j] /\ b[j] = T[y + j - 1]
      BY <1>2, <1>5, <3>j
    <3> QED BY <1>3, <3>1, <3>2
  <2> QED BY <2>1, <2>2
<1>7. d = c
  BY <1>3, <1>4, <1>5, <1>6, TokenEqual
<1> QED BY <1>7, <1>a, <1>b, <1>c, <1>d, <1>x, <1>y

(* What is read of the line of a version.                                  *)
LEMMA BodyRead ==
  ASSUME SavedOK, NEW s \in Nat, s <= Len(saved), NEW v \in Wholes(s)
  PROVE  /\ v \in DOMAIN saved /\ saved[v].kept = "whole"
         /\ saved[v].meta \in Meta
         /\ ReadLine(Bodies(s)[v]) = ReadBack(saved[v].meta)
<1>n. PICK n \in Nat : n = Len(saved) /\ DOMAIN saved = 1 .. n
  BY DEF SavedOK
<1>1. v \in 1 .. s /\ saved[v].kept = "whole"
  BY DEF Wholes
<1>2. v \in 1 .. n
  BY <1>n, <1>1
<1>3. saved[v].meta \in Meta
  BY <1>n, <1>2, StoredLineType
<1>m. PICK m : m = Received(saved[v].meta)
  OBVIOUS
<1>4. LineMeta(m) /\ AsRead(m) = ReadBack(saved[v].meta)
  BY <1>3, <1>m, MetaFacts
<1>5. Bodies(s)[v] = Body(m)
  BY <1>1, <1>m DEF Bodies, BodyOf
<1> QED BY <1>1, <1>2, <1>3, <1>4, <1>5, <1>n, TextOfLine

(* ReadOneBuffer: it begins where a line may begin, and ends there.        *)
LEMMA BufferStep ==
  ASSUME SavedOK, FileOK, CatalogueTypeOK, LineOK, backend = "file", query # NoQuery,
         NEW s \in Nat, s <= Len(saved), Sound = 0 .. s, Torn = {} => s = Len(saved),
         NEW end \in Nat, offset <= end, end <= Len(text)
  PROVE  \E E : ReadTo(text, s, Lengths(s), Wholes(s), Bodies(s), Torn # {}, LineBegin, end,
                       line \o SubSeq(text, offset + 1, end), E)
<1>o. PICK o \in Nat : o = offset /\ o <= Len(text)
  BY DEF CatalogueTypeOK, SavedOK
<1>0. text \in Seq(Token)
  BY DEF SavedOK
<1>1. line = SubSeq(text, LineBegin + 1, offset) /\ Len(line) <= offset
  BY DEF LineOK, CatalogueTypeOK
<1>2. Len(line) \in Nat
  <2>1. line \in Seq(Token)
    BY DEF LineOK
  <2> QED BY <2>1
<1>l. PICK l \in Nat : l = Len(line) /\ l <= o
  BY <1>o, <1>1, <1>2
<1>B. PICK B \in Nat : B = LineBegin /\ B <= o
  <2>1. o - l \in Nat /\ o - l <= o /\ LineBegin = o - l
    BY <1>o, <1>l DEF LineBegin
  <2> QED BY <2>1
<1>t. PICK t : t = line \o SubSeq(text, offset + 1, end)
  OBVIOUS
<1>3. t = SubSeq(text, B + 1, end)
  <2>1. SubSeq(text, B + 1, o) \o SubSeq(text, o + 1, end) = SubSeq(text, B + 1, end)
    BY <1>0, <1>o, <1>B, SubSeqConcat
  <2> QED BY <1>1, <1>t, <1>o, <1>B, <2>1
<1>u. PICK u : u = Lengths(s)
  OBVIOUS
<1>4. Written(text, s, u, Wholes(s), Bodies(s))
  BY <1>u, WrittenNow
<1>5. \A v \in 0 .. s : u[v] = Len(StoredUpTo(v))
  BY <1>u DEF Lengths
<1>T. PICK torn \in BOOLEAN : torn = (Torn # {})
  OBVIOUS
<1>6. ~torn => u[s] = Len(text)
  <2>1. s \in 0 .. s
    OBVIOUS
  <2> QED BY <1>5, <1>T, <2>1 DEF FileOK
<1>7. Starts(B, s, u, torn)
  BY <1>5, <1>B, <1>T DEF LineOK, Starts
<1>8. B <= end
  BY <1>B, <1>o
<1>9. Reads(text, s, u, Wholes(s), Bodies(s), torn, B, end, t)
  BY <1>3, <1>4, <1>6, <1>7, <1>8 DEF Reads
<1>10. \E E : ReadTo(text, s, u, Wholes(s), Bodies(s), torn, B, end, t, E)
  BY <1>9, BufferRead
<1> QED BY <1>10, <1>u, <1>T, <1>B, <1>t

(* read_one_buffer: the lines that end in the buffer are the lines of      *)
(* versions, and none of those is missed.                                  *)
LEMMA ReadOneBufferStep ==
  ASSUME CatalogueIInv, ReadOneBuffer
  PROVE  CatalogueIInv'
<1>0. /\ CatalogueTypeOK /\ SavedOK /\ FileOK /\ DocumentsOK /\ LineOK /\ FoundOK /\ NamesOK
      /\ AnswerOK /\ AskedIsListed /\ ListedIsSaved
  BY DEF CatalogueIInv
<1>1. /\ backend = "file" /\ query # NoQuery
      /\ backend' = backend /\ ready' = ready /\ text' = text /\ documents' = documents
      /\ saved' = saved /\ query' = query /\ names' = names /\ answer' = answer
      /\ before' = before /\ queries' = queries
  BY DEF ReadOneBuffer, storeVars
<1>n. PICK n \in Nat : n = Len(saved) /\ DOMAIN saved = 1 .. n
  BY <1>0 DEF SavedOK
<1>s. PICK s \in Nat : s <= Len(saved) /\ Sound = 0 .. s /\ (Torn = {} => s = Len(saved))
  BY <1>0, SoundIs
<1>N. PICK N \in Nat : N = Len(text)
  BY <1>0 DEF SavedOK
<1>o. PICK o \in Nat : o = offset /\ o <= N
  BY <1>0, <1>N DEF CatalogueTypeOK
<1>c. PICK c \in Chunk :
        LET end == Min({offset + c, Len(text)})
            read == ExtractLines(SubSeq(text, offset + 1, end))
        IN  /\ offset < end
            /\ offset' = end
            /\ line' = read.rest
            /\ found' = found \cup UNION {ExtractFromLine(aLine) : aLine \in read.lines}
  BY DEF ReadOneBuffer
<1>e. PICK end \in Nat : end = offset' /\ o <= end /\ end <= N
  <2>C. PICK C \in Nat : C = c
    BY CatalogueAssumption
  <2>S. PICK S : S = {o + C, N}
    OBVIOUS
  <2>1. S \in SUBSET Nat /\ S # {}
    BY <2>S
  <2>2. \E m \in S : \A x \in S : m <= x
    BY <2>1, Least
  <2>3. Min(S) \in S /\ \A x \in S : Min(S) <= x
    BY <2>2 DEF Min
  <2>4. offset' = Min(S) /\ o < Min(S)
    BY <1>c, <1>o, <1>N, <2>C, <2>S
  <2> QED BY <2>1, <2>3, <2>4, <2>S
<1>t. PICK t : t = line \o SubSeq(text, offset + 1, end)
  OBVIOUS
<1>2. /\ line' = LinesOf(t).rest
      /\ found' = found \cup UNION {ExtractFromLine(aLine) : aLine \in LinesOf(t).lines}
  BY <1>c, <1>e, <1>t DEF ExtractLines
<1>u. PICK u : u = Lengths(s)
  OBVIOUS
<1>3. \A v \in 0 .. s : u[v] = Len(StoredUpTo(v))
  BY <1>u DEF Lengths
<1>W. PICK W : W = Wholes(s)
  OBVIOUS
<1>b. PICK b : b = Bodies(s)
  OBVIOUS
<1>T. PICK torn \in BOOLEAN : torn = (Torn # {})
  OBVIOUS
<1>B. PICK B : B = LineBegin
  OBVIOUS
<1>E. PICK E : ReadTo(text, s, u, W, b, torn, B, end, t, E)
  BY <1>0, <1>1, <1>s, <1>o, <1>e, <1>N, <1>t, <1>u, <1>W, <1>b, <1>T, <1>B, BufferStep
<1>4. /\ E \in Nat /\ B <= E /\ E <= end
      /\ line' = SubSeq(text, E + 1, end) /\ Len(line') = end - E
      /\ Starts(E, s, u, torn)
      /\ \A v \in 0 .. s : u[v] <= end => u[v] <= E
      /\ \A v \in W : B < u[v] /\ u[v] <= E => b[v] \in LinesOf(t).lines
      /\ ~torn => \A l \in LinesOf(t).lines : \E v \in W : l = b[v]
  BY <1>2, <1>E DEF ReadTo
<1>5. LineBegin' = E
  <2>1. LineBegin' = end - (end - E)
    BY <1>4, <1>e DEF LineBegin
  <2>2. E \in Nat /\ end \in Nat
    BY <1>4
  <2> QED BY ONLY <2>1, <2>2
<1>6. Torn' = Torn /\ Sound' = Sound /\ \A v : StoredUpTo(v)' = StoredUpTo(v)
  BY <1>1, SavedSame
<1>7. SavedOK' /\ FileOK' /\ DocumentsOK'
  BY <1>0, <1>1, StoreSame DEF storeVars
<1>8. AnswerOK' /\ AskedIsListed' /\ ListedIsSaved'
  BY <1>0, <1>1, AnswerSame DEF storeVars
<1>9. NamesOK'
  BY <1>0, <1>1 DEF NamesOK
<1>10. LineOK'
  <2>1. line' = SubSeq(text', LineBegin' + 1, offset')
    BY <1>1, <1>4, <1>5, <1>e
  <2>2. \A v \in Sound' : Len(StoredUpTo(v)') <= offset' => Len(StoredUpTo(v)') <= LineBegin'
    BY <1>3, <1>4, <1>5, <1>6, <1>e, <1>s
  <2>3. \/ \E v \in Sound' : LineBegin' = Len(StoredUpTo(v)')
        \/ Torn' # {} /\ \A v \in Sound' : Len(StoredUpTo(v)') <= LineBegin'
    <3>1. Starts(E, s, u, torn)
      BY <1>4
    <3> QED BY <1>3, <1>5, <1>6, <1>s, <1>T, <3>1 DEF Starts
  <2>4. line' \in Seq(Token)
    <3>x. PICK x \in Nat : x = E + 1
      BY <1>4
    <3>1. line' = SubSeq(text, x, end)
      BY <1>4, <3>x
    <3>2. text \in Seq(Token) /\ end <= Len(text)
      BY <1>0, <1>e, <1>N DEF SavedOK
    <3>3. 1 <= x /\ x <= end + 1
      BY <1>4, <3>x
    <3> QED BY <3>1, <3>2, <3>3, TokenSubSeq
  <2> QED BY <2>1, <2>2, <2>3, <2>4 DEF LineOK
<1>11. \A m : Matches(m, query)' <=> Matches(m, query)
  BY <1>1 DEF Matches, HasDate, IsAfter, IsBefore, SameUser
<1>12. FoundOK'
  <2>1. ASSUME NEW v \in Sound \ {0}, saved[v].kept = "whole", Len(StoredUpTo(v)) <= E,
               Matches(ReadBack(saved[v].meta), query)
        PROVE  ReadBack(saved[v].meta) \in found'
    <3>1. v \in 0 .. s /\ v \in W /\ u[v] = Len(StoredUpTo(v))
      BY <1>3, <1>s, <1>W, <2>1 DEF Wholes
    <3>2. CASE u[v] <= LineBegin
      <4>1. ReadBack(saved[v].meta) \in found
        BY <1>0, <1>1, <2>1, <3>1, <3>2 DEF FoundOK
      <4> QED BY <1>2, <4>1
    <3>3. CASE ~(u[v] <= LineBegin)
      <4>1. Written(text, s, u, W, b)
        BY <1>0, <1>1, <1>s, <1>u, <1>W, <1>b, WrittenNow
      <4>2. u[v] \in Nat /\ B \in Nat
        <5>1. u[v] \in Nat
          BY <3>1, <4>1 DEF Written
        <5>2. B \in Nat
          <6>1. line \in Seq(Token) /\ Len(line) <= offset
            BY <1>0, <1>1 DEF LineOK, CatalogueTypeOK
          <6>l. PICK l \in Nat : l = Len(line)
            BY <6>1
          <6>2. B = o - l /\ l <= o
            BY <1>o, <1>B, <6>1, <6>l DEF LineBegin
          <6> QED BY ONLY <6>2, o \in Nat, l \in Nat
        <5> QED BY <5>1, <5>2
      <4>3. B < u[v] /\ u[v] <= E
        BY <1>B, <2>1, <3>1, <3>3, <4>2
      <4>4. b[v] \in LinesOf(t).lines
        BY <1>4, <3>1, <4>3
      <4>5. ReadLine(b[v]) = ReadBack(saved[v].meta)
        BY <1>0, <1>s, <1>W, <1>b, <3>1, BodyRead
      <4>6. ReadBack(saved[v].meta) \in ExtractFromLine(b[v])
        BY <2>1, <4>5 DEF ExtractFromLine
      <4> QED BY <1>2, <4>4, <4>6
    <3> QED BY <3>2, <3>3
  <2>2. ASSUME Torn = {}, NEW m \in found'
        PROVE  /\ Matches(m, query)
               /\ \E v \in DOMAIN saved : saved[v].kept = "whole" /\ m = ReadBack(saved[v].meta)
    <3>1. CASE m \in found
      BY <1>0, <1>1, <2>2, <3>1 DEF FoundOK
    <3>2. CASE m \notin found
      <4>l. PICK l \in LinesOf(t).lines : m \in ExtractFromLine(l)
        BY <1>2, <2>2, <3>2
      <4>1. m = ReadLine(l) /\ Matches(m, query)
        BY <4>l DEF ExtractFromLine
      <4>v. PICK v \in W : l = b[v]
        BY <1>4, <1>T, <2>2, <4>l
      <4>2. v \in DOMAIN saved /\ saved[v].kept = "whole" /\ m = ReadBack(saved[v].meta)
        BY <1>0, <1>s, <1>W, <1>b, <4>1, <4>v, BodyRead
      <4> QED BY <4>1, <4>2
    <3> QED BY <3>1, <3>2
  <2>3. \A v \in Sound \ {0} :
           /\ ReadBack(saved[v].meta)' = ReadBack(saved[v].meta)
           /\ Matches(ReadBack(saved[v].meta), query)' <=> Matches(ReadBack(saved[v].meta), query)
    BY <1>1, <1>11 DEF ReadBack, Matches, HasDate, IsAfter, IsBefore, SameUser
  <2>4. ASSUME NEW v \in Sound \ {0}
        PROVE  (LET m == ReadBack(saved[v].meta) IN
                  /\ saved[v].kept = "whole"
                  /\ Len(StoredUpTo(v)) <= LineBegin
                  /\ Matches(m, query)
                  => m \in found)'
    BY <1>1, <1>5, <1>6, <2>1, <2>3
  <2>5. ASSUME Torn = {}, NEW m \in found'
        PROVE  /\ Matches(m, query)'
               /\ \E v \in DOMAIN saved' : (saved[v].kept = "whole" /\ m = ReadBack(saved[v].meta))'
    <3>1. Matches(m, query)'
      BY <1>11, <2>2, <2>5
    <3>v. PICK v \in DOMAIN saved : saved[v].kept = "whole" /\ m = ReadBack(saved[v].meta)
      BY <2>2, <2>5
    <3>2. ReadBack(saved[v].meta)' = ReadBack(saved[v].meta)
      BY <1>1 DEF ReadBack
    <3> QED BY <1>1, <3>1, <3>v, <3>2
  <2> QED BY <1>1, <1>6, <2>4, <2>5 DEF FoundOK
<1>13. CatalogueTypeOK'
  <2>1. offset' \in 0 .. Len(text') /\ Len(line') <= offset'
    BY <1>1, <1>4, <1>e, <1>N
  <2>2. Torn' = {} => line' = SubSeq(text', offset' - Len(line') + 1, offset')
    BY <1>1, <1>10 DEF LineOK, LineBegin
  <2>3. \A m \in found' : DOMAIN m = Keys /\ m["name"] \in names'
    <3> SUFFICES ASSUME NEW m \in found' PROVE DOMAIN m = Keys /\ m["name"] \in names
      BY <1>1
    <3>1. CASE m \in found
      BY <1>0, <3>1 DEF CatalogueTypeOK
    <3>2. CASE m \notin found
      <4>l. PICK l \in LinesOf(t).lines : m \in ExtractFromLine(l)
        BY <1>2, <3>2
      <4>1. m = ReadLine(l) /\ m["name"] \in names
        BY <4>l DEF ExtractFromLine, Matches
      <4>2. DOMAIN ReadLine(l) = Keys
        BY DEF ReadLine
      <4> QED BY <4>1, <4>2
    <3> QED BY <3>1, <3>2
  <2> QED BY <1>0, <1>1, <1>6, <2>1, <2>2, <2>3 DEF CatalogueTypeOK
<1> QED BY <1>7, <1>8, <1>9, <1>10, <1>12, <1>13 DEF CatalogueIInv

-----------------------------------------------------------------------------
(* What one version more does to what is stored.                           *)
StoredAsLines ==
    /\ \A v \in 1 .. Len(saved) : StoredUpTo(v) = StoredUpTo(v - 1) \o StoredLine(v)
    /\ \A v \in 0 .. Len(saved) : StoredUpTo(v) \in Seq(Token)

(* What StoredFacts says, in the next state.                               *)
LEMMA StoredNext == SavedOK' => StoredAsLines'
<1>1. SavedOK => StoredAsLines
  BY StoredFacts DEF StoredAsLines
<1> QED BY <1>1, PTL

Kept == {"whole", "torn", "lost"}
Version == [meta : Meta, kept : Kept]

Piece(m, kept) == IF kept = "whole" THEN Line(Received(m)) ELSE <<>>

(* The list of the versions, with one more.                                *)
LEMMA SavesFacts ==
  ASSUME SavedOK, NEW m \in Meta, NEW kept \in Kept, Saves(m, kept),
         NEW n \in Nat, n = Len(saved)
  PROVE  /\ saved' \in Seq(Version) /\ Len(saved') = n + 1 /\ DOMAIN saved' = 1 .. n + 1
         /\ DOMAIN saved = 1 .. n
         /\ \A v \in 1 .. n : saved'[v] = saved[v]
         /\ saved'[n + 1].meta = m /\ saved'[n + 1].kept = kept
         /\ Torn' = IF kept = "torn" THEN Torn \cup {n + 1} ELSE Torn
         /\ \A v \in Torn : v \in 1 .. n
<1>x. PICK x \in Version : x = [meta |-> m, kept |-> kept] /\ x.meta = m /\ x.kept = kept
  <2>1. [meta |-> m, kept |-> kept] \in Version
    BY DEF Version
  <2> QED BY <2>1
<1>1. saved \in Seq(Version) /\ saved' = Append(saved, x)
  BY <1>x DEF SavedOK, Version, Kept, Saves
<1>V. PICK V : V = Version
  OBVIOUS
<1>2. /\ saved' \in Seq(Version) /\ Len(saved') = n + 1 /\ DOMAIN saved' = 1 .. n + 1
      /\ DOMAIN saved = 1 .. n
      /\ (\A v \in 1 .. n : saved'[v] = saved[v]) /\ saved'[n + 1] = x
  <2>1. saved \in Seq(V) /\ x \in V
    BY <1>1, <1>V
  <2>2. Append(saved, x) \in Seq(V) /\ Len(Append(saved, x)) = Len(saved) + 1
        /\ (\A v \in 1 .. Len(saved) : Append(saved, x)[v] = saved[v])
        /\ Append(saved, x)[Len(saved) + 1] = x
        /\ DOMAIN Append(saved, x) = 1 .. Len(saved) + 1
    BY <2>1, AppendProperties
  <2>3. DOMAIN saved = 1 .. n
    BY <2>1
  <2> QED BY <1>1, <1>V, <2>2, <2>3
<1>3. Torn = {v \in 1 .. n : saved[v].kept = "torn"}
  BY <1>2 DEF Torn
<1>4. Torn' = {v \in 1 .. n + 1 : saved'[v].kept = "torn"}
  BY <1>2 DEF Torn
<1>5. \A v \in 1 .. n + 1 : v \in 1 .. n \/ v = n + 1
  OBVIOUS
<1>6. \A v \in 1 .. n : v \in 1 .. n + 1
  OBVIOUS
<1>7. n + 1 \in 1 .. n + 1
  OBVIOUS
<1>8. Torn' = IF kept = "torn" THEN Torn \cup {n + 1} ELSE Torn
  BY <1>2, <1>3, <1>4, <1>5, <1>6, <1>7, <1>x
<1> QED BY <1>2, <1>3, <1>8, <1>x

(* A version is before the lines stored in part if it was, or if it is the *)
(* last one and there are none.                                            *)
LEMMA SavesSound ==
  ASSUME SavedOK, NEW m \in Meta, NEW kept \in Kept, Saves(m, kept),
         NEW n \in Nat, n = Len(saved)
  PROVE  /\ Sound \subseteq Sound' /\ Sound \subseteq 0 .. n
         /\ Sound' \subseteq Sound \cup {n + 1}
         /\ n + 1 \in Sound' => Torn = {} /\ Torn' = {}
<1>1. /\ Len(saved') = n + 1
      /\ Torn' = IF kept = "torn" THEN Torn \cup {n + 1} ELSE Torn
      /\ \A v \in Torn : v \in 1 .. n
  BY SavesFacts
<1>2. Sound = {v \in 0 .. n : \A w \in Torn : v < w}
  BY DEF Sound
<1>3. Sound' = {v \in 0 .. n + 1 : \A w \in Torn' : v < w}
  BY <1>1 DEF Sound
<1>4. Sound \subseteq Sound'
  BY <1>1, <1>2, <1>3
<1>5. Sound' \subseteq Sound \cup {n + 1}
  BY <1>1, <1>2, <1>3
<1>6. ASSUME n + 1 \in Sound' PROVE Torn = {} /\ Torn' = {}
  <2>1. \A w \in Torn' : n + 1 < w
    BY <1>3, <1>6
  <2>2. \A w \in Torn' : w <= n + 1
    BY <1>1
  <2>3. \A w \in Torn' : w \in Nat
    BY <1>1
  <2>4. Torn' = {}
    BY <2>1, <2>2, <2>3
  <2> QED BY <1>1, <2>4
<1> QED BY <1>2, <1>4, <1>5, <1>6

(* The text of the first versions stays, and that of the new one is        *)
(* appended.                                                               *)
LEMMA SavesStored ==
  ASSUME SavedOK, SavedOK', NEW m \in Meta, NEW kept \in Kept, Saves(m, kept),
         NEW n \in Nat, n = Len(saved)
  PROVE  /\ \A v \in 0 .. n : StoredUpTo(v)' = StoredUpTo(v)
         /\ StoredUpTo(n + 1)' = StoredUpTo(n) \o Piece(m, kept)
         /\ Piece(m, kept) \in Seq(Token)
<1>1. /\ Len(saved') = n + 1
      /\ \A v \in 1 .. n : saved'[v] = saved[v]
      /\ saved'[n + 1].meta = m /\ saved'[n + 1].kept = kept
  BY SavesFacts
<1>2. \A v \in 1 .. n : StoredLine(v)' = StoredLine(v)
  BY <1>1 DEF StoredLine, Received, FillsServerMetaData
<1>3. \A v \in 0 .. n : StoredUpTo(v)' = StoredUpTo(v)
  <2> SUFFICES ASSUME NEW v \in 0 .. n PROVE StoredUpTo(v)' = StoredUpTo(v)
    OBVIOUS
  <2>1. \A w \in 1 .. v : w \in 1 .. n
    OBVIOUS
  <2>2. [w \in 1 .. v |-> StoredLine(w)'] = [w \in 1 .. v |-> StoredLine(w)]
    BY <1>2, <2>1
  <2>3. StoredUpTo(v)' = FlattenSeq([w \in 1 .. v |-> StoredLine(w)'])
    BY DEF StoredUpTo
  <2> QED BY <2>2, <2>3 DEF StoredUpTo
<1>4. StoredLine(n + 1)' = Piece(m, kept)
  BY <1>1 DEF StoredLine, Piece, Received, FillsServerMetaData
<1>k. PICK k \in Nat : k = n + 1 /\ k - 1 = n /\ k \in 1 .. n + 1
  OBVIOUS
<1>5. StoredUpTo(k)' = StoredUpTo(k - 1)' \o StoredLine(k)'
  BY <1>1, <1>k, StoredNext DEF StoredAsLines
<1>6. StoredUpTo(n)' = StoredUpTo(n)
  BY <1>3
<1>7. StoredUpTo(n + 1)' = StoredUpTo(n) \o Piece(m, kept)
  BY <1>4, <1>5, <1>6, <1>k
<1>8. Piece(m, kept) \in Seq(Token)
  <2>1. Line(Received(m)) \in Seq(Token) /\ <<>> \in Seq(Token)
    BY MetaFacts, TextOfLine
  <2> QED BY <2>1 DEF Piece
<1> QED BY <1>3, <1>7, <1>8

(* The versions that are listed are still stored after one more is.        *)
LEMMA AnswerStored ==
  ASSUME SavedOK, AnswerOK, AskedIsListed, ListedIsSaved,
         NEW m \in Meta, NEW kept \in Kept, Saves(m, kept),
         answer' = answer, backend' = backend
  PROVE  AnswerOK' /\ AskedIsListed' /\ ListedIsSaved'
<1>n. PICK n \in Nat : n = Len(saved)
  BY DEF SavedOK
<1>1. /\ Len(saved') = n + 1 /\ DOMAIN saved' = 1 .. n + 1 /\ DOMAIN saved = 1 .. n
      /\ \A v \in 1 .. n : saved'[v] = saved[v]
      /\ Torn' = IF kept = "torn" THEN Torn \cup {n + 1} ELSE Torn
  BY <1>n, SavesFacts
<1>2. AnswerOK'
  BY <1>1, <1>n DEF AnswerOK
<1>3. AskedIsListed'
  <2> SUFFICES ASSUME answer # NoAnswer, NEW v \in 1 .. answer.before
               PROVE  (LET a == AsSaved(saved[v].meta) IN
                       (/\ saved[v].kept = "whole"
                        /\ \A w \in Torn : v < w
                        /\ answer.query.filename \notin Plus
                        /\ Asks(answer.query, a)
                        /\ ~Misdated(answer.query, a))
                       => a \in answer.files)'
    BY DEF AskedIsListed
  <2>1. v \in 1 .. n
    BY <1>n DEF AnswerOK
  <2>2. saved'[v] = saved[v]
    BY <1>1, <2>1
  <2>3. AsSaved(saved[v].meta)' = AsSaved(saved[v].meta)
    BY <2>2 DEF AsSaved
  <2>4. (\A w \in Torn' : v < w) => \A w \in Torn : v < w
    BY <1>1
  <2>a. PICK a : a = AsSaved(saved[v].meta)
    OBVIOUS
  <2>5. /\ Asks(answer.query, AsSaved(saved[v].meta))' <=> Asks(answer.query, a)
        /\ Misdated(answer.query, AsSaved(saved[v].meta))' <=> Misdated(answer.query, a)
    BY <2>3, <2>a DEF Asks, Misdated, HasDate, IsAfter, IsBefore, SameUser
  <2>6. (/\ saved[v].kept = "whole"
         /\ \A w \in Torn : v < w
         /\ answer.query.filename \notin Plus
         /\ Asks(answer.query, a)
         /\ ~Misdated(answer.query, a))
        => a \in answer.files
    BY <2>a DEF AskedIsListed
  <2> QED BY <2>2, <2>3, <2>4, <2>5, <2>6, <2>a
<1>4. ListedIsSaved'
  <2> SUFFICES ASSUME answer # NoAnswer, Torn' = {}, NEW f \in answer.files
               PROVE  \E v \in DOMAIN saved' :
                        /\ (saved[v].kept = "whole" /\ f = AsSaved(saved[v].meta))'
                        /\ backend = "file" => SameUser(f, answer.query)
                        /\ answer.query.filename \notin Plus => f["name"] \in TextsLike[answer.query.filename]
    BY DEF ListedIsSaved, SameUser
  <2>1. Torn = {}
    BY <1>1
  <2>v. PICK v \in DOMAIN saved :
           /\ saved[v].kept = "whole" /\ f = AsSaved(saved[v].meta)
           /\ backend = "file" => SameUser(f, answer.query)
           /\ answer.query.filename \notin Plus => f["name"] \in TextsLike[answer.query.filename]
    BY <2>1 DEF ListedIsSaved
  <2>2. saved'[v] = saved[v] /\ v \in DOMAIN saved'
    BY <1>1
  <2>3. AsSaved(saved[v].meta)' = AsSaved(saved[v].meta)
    BY <2>2 DEF AsSaved
  <2> QED BY <2>v, <2>2, <2>3
<1> QED BY <1>2, <1>3, <1>4

(* What is read of a text is not changed by what is appended to it.        *)
LEMMA AppendKeeps ==
  ASSUME NEW T \in Seq(Token), NEW p \in Seq(Token), NEW x \in Nat, NEW y \in Nat,
         1 <= x, x <= y + 1, y <= Len(T)
  PROVE  SubSeq(T \o p, x, y) = SubSeq(T, x, y)
<1>c. PICK c : c = T \o p
  OBVIOUS
<1>N. PICK N \in Nat : N = Len(T)
  OBVIOUS
<1>1. /\ c \in Seq(Token) /\ Len(c) = Len(T) + Len(p) /\ \A i \in 1 .. Len(T) : c[i] = T[i]
  BY <1>c, TokenConcat
<1>2. y <= Len(c)
  <2>l. PICK l \in Nat : l = Len(p)
    OBVIOUS
  <2> QED BY <1>1, <1>N, <2>l
<1>a. PICK a : a = SubSeq(c, x, y)
  OBVIOUS
<1>b. PICK b : b = SubSeq(T, x, y)
  OBVIOUS
<1>k. PICK k \in Nat : k = y - x + 1
  OBVIOUS
<1>3. a \in Seq(Token) /\ Len(a) = k /\ \A i \in 1 .. k : a[i] = c[x + i - 1]
  BY <1>1, <1>2, <1>a, <1>k, TokenSubSeq
<1>4. b \in Seq(Token) /\ Len(b) = k /\ \A i \in 1 .. k : b[i] = T[x + i - 1]
  BY <1>b, <1>k, TokenSubSeq
<1>5. \A i \in 1 .. k : x + i - 1 \in 1 .. N
  BY <1>k, <1>N
<1>6. \A i \in 1 .. k : a[i] = b[i]
  BY <1>1, <1>3, <1>4, <1>5, <1>N
<1>7. a = b
  BY <1>3, <1>4, <1>6, TokenEqual
<1> QED BY <1>7, <1>a, <1>b, <1>c

(* What the meta data thread appends to the file of the host.              *)
Appends(m, kept, p) ==
    /\ m \in Meta /\ kept \in Kept /\ p \in Seq(Token) /\ Saves(m, kept)
    /\ text' = text \o p /\ (kept # "torn" => p = Piece(m, kept))
    /\ backend = "file" /\ backend' = backend /\ ready' = ready /\ documents' = documents /\ UNCHANGED readVars

(* file_store_smeta appends a line, a part of one or nothing.              *)
LEMMA FileAppends ==
  ASSUME SavedOK, NEW m \in Meta, FileStoreSmeta(m)
  PROVE  \E kept, p : Appends(m, kept, p)
<1>0. backend = "file" /\ backend' = backend /\ ready' = ready /\ documents' = documents /\ UNCHANGED readVars
  BY DEF FileStoreSmeta
<1>t. text \in Seq(Token) /\ text \o <<>> = text /\ <<>> \in Seq(Token)
  <2>1. text \in Seq(Token)
    BY DEF SavedOK
  <2> QED BY <2>1
<1>l. PICK l \in Seq(Token) : l = Line(Received(m))
  BY MetaFacts, TextOfLine
<1>1. CASE text' = text \o Line(Received(m)) /\ Saves(m, "whole")
  <2>1. Appends(m, "whole", l)
    BY <1>0, <1>1, <1>l DEF Appends, Kept, Piece
  <2> QED BY <2>1
<1>2. CASE \E k \in TornAt \cap 1 .. Len(Line(Received(m))) - 1 :
              text' = text \o SubSeq(Line(Received(m)), 1, k) /\ Saves(m, "torn")
  <2>k. PICK k \in 1 .. Len(l) - 1 : text' = text \o SubSeq(l, 1, k) /\ Saves(m, "torn")
    BY <1>2, <1>l
  <2>y. PICK y \in Nat : y = k /\ y <= Len(l)
    <3>n. PICK n \in Nat : n = Len(l)
      OBVIOUS
    <3>1. k \in Nat /\ k <= n
      BY <2>k, <3>n
    <3> QED BY <3>1, <3>n
  <2>x. PICK x \in Nat : x = 1
    OBVIOUS
  <2>1. 1 <= x /\ x <= y + 1
    BY <2>x
  <2>p. PICK p : p = SubSeq(l, x, y)
    OBVIOUS
  <2>2. p \in Seq(Token)
    BY <2>1, <2>p, <2>y, TokenSubSeq
  <2>3. text' = text \o p /\ Saves(m, "torn")
    BY <2>k, <2>p, <2>x, <2>y
  <2>4. Appends(m, "torn", p)
    BY <1>0, <2>2, <2>3 DEF Appends, Kept
  <2> QED BY <2>4
<1>3. CASE text' = text /\ Saves(m, "lost")
  <2>1. Appends(m, "lost", <<>>)
    BY <1>0, <1>3, <1>t DEF Appends, Kept, Piece
  <2> QED BY <2>1
<1> QED BY <1>1, <1>2, <1>3 DEF FileStoreSmeta

(* The type of the store.                                                  *)
LEMMA AppendsStored ==
  ASSUME SavedOK, NEW m, NEW kept, NEW p, Appends(m, kept, p)
  PROVE  SavedOK'
<1>0. /\ m \in Meta /\ kept \in Kept /\ p \in Seq(Token) /\ Saves(m, kept)
      /\ text' = text \o p /\ backend = "file" /\ backend' = backend /\ documents' = documents
  BY DEF Appends
<1>n. PICK n \in Nat : n = Len(saved)
  BY DEF SavedOK
<1>1. saved' \in Seq(Version)
  BY <1>0, <1>n, SavesFacts
<1>2. text' \in Seq(Token)
  <2>1. text \in Seq(Token)
    BY DEF SavedOK
  <2> QED BY <1>0, <2>1, TokenConcat
<1> QED BY <1>0, <1>1, <1>2 DEF SavedOK, Version, Kept

(* The facts about a text and what is appended to it.                      *)
LEMMA AppendsText ==
  ASSUME SavedOK, NEW m, NEW kept, NEW p, Appends(m, kept, p)
  PROVE  /\ text \in Seq(Token) /\ p \in Seq(Token) /\ text' \in Seq(Token)
         /\ text' = text \o p /\ Len(text') = Len(text) + Len(p) /\ Len(text) <= Len(text')
         /\ \A i \in 1 .. Len(text) : text'[i] = text[i]
<1>1. text \in Seq(Token) /\ p \in Seq(Token) /\ text' = text \o p
  BY DEF Appends, SavedOK
<1>2. /\ text' \in Seq(Token) /\ Len(text') = Len(text) + Len(p)
      /\ \A i \in 1 .. Len(text) : text'[i] = text[i]
  BY <1>1, TokenConcat
<1>a. PICK a \in Nat : a = Len(text)
  BY <1>1
<1>b. PICK b \in Nat : b = Len(p)
  BY <1>1
<1>3. Len(text) <= Len(text')
  BY <1>2, <1>a, <1>b
<1> QED BY <1>1, <1>2, <1>3

(* The file is still the lines of the versions.                            *)
LEMMA AppendsFile ==
  ASSUME SavedOK, FileOK, NEW m, NEW kept, NEW p, Appends(m, kept, p)
  PROVE  FileOK'
<1>0. /\ m \in Meta /\ kept \in Kept /\ p \in Seq(Token) /\ Saves(m, kept)
      /\ (kept # "torn" => p = Piece(m, kept)) /\ backend = "file"
  BY DEF Appends
<1>n. PICK n \in Nat : n = Len(saved)
  BY DEF SavedOK
<1>1. SavedOK'
  BY AppendsStored
<1>2. /\ text \in Seq(Token) /\ text' \in Seq(Token) /\ text' = text \o p
      /\ Len(text) <= Len(text') /\ \A i \in 1 .. Len(text) : text'[i] = text[i]
  BY AppendsText
<1>3. /\ Len(saved') = n + 1
      /\ Torn' = IF kept = "torn" THEN Torn \cup {n + 1} ELSE Torn
  BY <1>0, <1>n, SavesFacts
<1>4. /\ Sound \subseteq 0 .. n /\ Sound' \subseteq Sound \cup {n + 1}
      /\ n + 1 \in Sound' => Torn = {} /\ Torn' = {}
  BY <1>0, <1>n, SavesSound
<1>5. /\ \A v \in 0 .. n : StoredUpTo(v)' = StoredUpTo(v)
      /\ StoredUpTo(n + 1)' = StoredUpTo(n) \o Piece(m, kept)
  BY <1>0, <1>1, <1>n, SavesStored
<1>6. Torn' = {} => text' = StoredUpTo(n + 1)'
  <2> SUFFICES ASSUME Torn' = {} PROVE text' = StoredUpTo(n + 1)'
    OBVIOUS
  <2>1. kept # "torn" /\ Torn = {}
    BY <1>3
  <2>2. text = StoredUpTo(n)
    BY <1>0, <1>n, <2>1 DEF FileOK
  <2> QED BY <1>0, <1>2, <1>5, <2>1, <2>2
<1>7. ASSUME NEW v \in Sound'
      PROVE  Len(StoredUpTo(v)') <= Len(text') /\ SubSeq(text', 1, Len(StoredUpTo(v)')) = StoredUpTo(v)'
  <2>1. CASE v \in Sound
    <3>1. IsBeginning(StoredUpTo(v), text)
      BY <1>0, <2>1, SoundPrefix
    <3>q. PICK q \in Seq(Token) : q = StoredUpTo(v)
      BY <3>1 DEF IsBeginning
    <3>l. PICK l \in Nat : l = Len(q)
      OBVIOUS
    <3>N. PICK N \in Nat : N = Len(text)
      BY <1>2
    <3>2. l <= N /\ \A i \in 1 .. l : q[i] = text[i]
      BY <3>1, <3>q, <3>l, <3>N DEF IsBeginning
    <3>3. \A i \in 1 .. l : q[i] = text'[i]
      BY <1>2, <3>2, <3>N
    <3>M. PICK M \in Nat : M = Len(text')
      BY <1>2
    <3>4. l <= M
      BY <1>2, <3>2, <3>N, <3>M
    <3>5. IsBeginning(q, text')
      BY <3>l, <3>3, <3>4, <3>M DEF IsBeginning
    <3>6. Len(q) <= Len(text') /\ SubSeq(text', 1, Len(q)) = q
      BY <1>2, <3>5, PrefixIs
    <3>7. StoredUpTo(v)' = q
      BY <1>4, <1>5, <2>1, <3>q
    <3> QED BY <3>6, <3>7
  <2>2. CASE v = n + 1
    <3>1. StoredUpTo(v)' = text'
      BY <1>4, <1>6, <2>2
    <3>2. Len(text') <= Len(text') /\ SubSeq(text', 1, Len(text')) = text'
      <4>t. PICK t \in Seq(Token) : t = text'
        BY <1>2
      <4>1. IsBeginning(t, t)
        BY DEF IsBeginning
      <4> QED BY <4>t, <4>1, PrefixIs
    <3> QED BY <3>1, <3>2
  <2> QED BY <1>4, <2>1, <2>2
<1> QED BY <1>3, <1>6, <1>7 DEF FileOK

(* What the connection has read of a line does not change.                 *)
LEMMA AppendsLine ==
  ASSUME CatalogueTypeOK, SavedOK, FileOK, LineOK, NEW m, NEW kept, NEW p, Appends(m, kept, p)
  PROVE  LineOK'
<1>0. /\ m \in Meta /\ kept \in Kept /\ p \in Seq(Token) /\ Saves(m, kept)
      /\ backend = "file" /\ query' = query /\ offset' = offset /\ line' = line
  BY DEF Appends, readVars
<1>n. PICK n \in Nat : n = Len(saved)
  BY DEF SavedOK
<1>1. SavedOK'
  BY AppendsStored
<1>2. /\ text \in Seq(Token) /\ text' = text \o p /\ Len(text) <= Len(text')
      /\ text' \in Seq(Token)
  BY AppendsText
<1>3. Torn' = IF kept = "torn" THEN Torn \cup {n + 1} ELSE Torn
  BY <1>0, <1>n, SavesFacts
<1>4. /\ Sound \subseteq Sound' /\ Sound \subseteq 0 .. n /\ Sound' \subseteq Sound \cup {n + 1}
      /\ n + 1 \in Sound' => Torn = {} /\ Torn' = {}
  BY <1>0, <1>n, SavesSound
<1>5. \A v \in 0 .. n : StoredUpTo(v)' = StoredUpTo(v)
  BY <1>0, <1>1, <1>n, SavesStored
<1>N. PICK N \in Nat : N = Len(text)
  BY <1>2
<1>o. PICK o \in Nat : o = offset /\ o <= N
  BY <1>N DEF CatalogueTypeOK
<1>l. PICK l \in Nat : l = Len(line) /\ l <= o
  <2>1. line \in Seq(Token) /\ Len(line) <= offset
    BY DEF LineOK, CatalogueTypeOK
  <2> QED BY <1>o, <2>1
<1>6. LineBegin = o - l /\ LineBegin' = o - l
  BY <1>0, <1>o, <1>l DEF LineBegin
<1>7. line' \in Seq(Token)
  BY <1>0 DEF LineOK
<1>8. ASSUME query # NoQuery PROVE line = SubSeq(text', (o - l) + 1, o)
  <2>1. line = SubSeq(text, (o - l) + 1, o)
    BY <1>0, <1>6, <1>8, <1>o DEF LineOK
  <2>x. PICK x \in Nat : x = (o - l) + 1 /\ 1 <= x /\ x <= o + 1
    BY <1>l
  <2>2. SubSeq(text', x, o) = SubSeq(text, x, o)
    BY <1>0, <1>2, <1>N, <1>o, <2>x, AppendKeeps
  <2> QED BY <2>1, <2>2, <2>x
<1>9. ASSUME query # NoQuery, n + 1 \in Sound', Len(StoredUpTo(n + 1)') <= o
      PROVE  Len(StoredUpTo(n + 1)') <= o - l
  <2>1. Torn = {} /\ Torn' = {} /\ n \in Sound
    <3>1. Torn = {} /\ Torn' = {}
      BY <1>4, <1>9
    <3> QED BY <1>n, <3>1 DEF Sound
  <2>2. text = StoredUpTo(n) /\ text' = StoredUpTo(n + 1)'
    <3>1. text = StoredUpTo(n)
      BY <1>0, <1>n, <2>1 DEF FileOK
    <3>2. FileOK' /\ backend' = "file"
      BY <1>0, AppendsFile DEF Appends
    <3>3. Len(saved') = n + 1
      BY <1>0, <1>n, SavesFacts
    <3> QED BY <2>1, <3>1, <3>2, <3>3 DEF FileOK
  <2>3. N <= o /\ Len(text') = N
    <3>M. PICK M \in Nat : M = Len(text')
      BY <1>2
    <3> QED BY <1>2, <1>9, <1>N, <1>o, <2>2, <3>M
  <2>4. Len(StoredUpTo(n)) <= LineBegin
    BY <1>0, <1>9, <1>N, <1>o, <2>1, <2>2, <2>3 DEF LineOK
  <2> QED BY <1>6, <1>N, <2>2, <2>3, <2>4
<1>10. ASSUME query # NoQuery
       PROVE  /\ \A v \in Sound' : Len(StoredUpTo(v)') <= o => Len(StoredUpTo(v)') <= o - l
              /\ \/ \E v \in Sound' : o - l = Len(StoredUpTo(v)')
                 \/ Torn' # {} /\ \A v \in Sound' : Len(StoredUpTo(v)') <= o - l
  <2>1. \A v \in Sound : StoredUpTo(v)' = StoredUpTo(v)
    BY <1>4, <1>5
  <2>2. \A v \in Sound : Len(StoredUpTo(v)) <= o => Len(StoredUpTo(v)) <= o - l
    BY <1>0, <1>6, <1>10, <1>o DEF LineOK
  <2>3. \/ \E v \in Sound : o - l = Len(StoredUpTo(v))
        \/ Torn # {} /\ \A v \in Sound : Len(StoredUpTo(v)) <= o - l
    BY <1>0, <1>6, <1>10 DEF LineOK
  <2>4. \A v \in Sound' : Len(StoredUpTo(v)') <= o => Len(StoredUpTo(v)') <= o - l
    BY <1>4, <1>9, <1>10, <2>1, <2>2
  <2>5. CASE \E v \in Sound : o - l = Len(StoredUpTo(v))
    BY <1>4, <2>1, <2>4, <2>5
  <2>6. CASE Torn # {} /\ \A v \in Sound : Len(StoredUpTo(v)) <= o - l
    BY <1>3, <1>4, <2>1, <2>4, <2>6
  <2> QED BY <2>3, <2>5, <2>6
<1> QED BY <1>0, <1>6, <1>7, <1>8, <1>10, <1>o DEF LineOK

(* Nor do the versions it has found, and the new line is after its place.  *)
LEMMA AppendsFound ==
  ASSUME CatalogueTypeOK, SavedOK, FileOK, LineOK, FoundOK,
         NEW m, NEW kept, NEW p, Appends(m, kept, p)
  PROVE  FoundOK'
<1>0. /\ m \in Meta /\ kept \in Kept /\ p \in Seq(Token) /\ Saves(m, kept)
      /\ (kept # "torn" => p = Piece(m, kept)) /\ backend = "file"
      /\ query' = query /\ names' = names /\ found' = found /\ offset' = offset /\ line' = line
  BY DEF Appends, readVars
<1>n. PICK n \in Nat : n = Len(saved)
  BY DEF SavedOK
<1>1. SavedOK' /\ FileOK'
  BY AppendsStored, AppendsFile
<1>2. /\ text \in Seq(Token) /\ text' \in Seq(Token) /\ Len(text') = Len(text) + Len(p)
  BY AppendsText
<1>3. /\ Len(saved') = n + 1 /\ DOMAIN saved' = 1 .. n + 1 /\ DOMAIN saved = 1 .. n
      /\ (\A v \in 1 .. n : saved'[v] = saved[v]) /\ saved'[n + 1].kept = kept
      /\ Torn' = IF kept = "torn" THEN Torn \cup {n + 1} ELSE Torn
  BY <1>0, <1>n, SavesFacts
<1>4. /\ Sound \subseteq 0 .. n /\ Sound' \subseteq Sound \cup {n + 1}
      /\ n + 1 \in Sound' => Torn = {} /\ Torn' = {}
  BY <1>0, <1>n, SavesSound
<1>5. /\ \A v \in 0 .. n : StoredUpTo(v)' = StoredUpTo(v)
      /\ StoredUpTo(n + 1)' = StoredUpTo(n) \o Piece(m, kept)
  BY <1>0, <1>1, <1>n, SavesStored
<1>6. LineBegin' = LineBegin
  BY <1>0 DEF LineBegin
<1>7. ASSUME NEW v \in 1 .. n
      PROVE  /\ ReadBack(saved[v].meta)' = ReadBack(saved[v].meta)
             /\ Matches(ReadBack(saved[v].meta), query)' <=> Matches(ReadBack(saved[v].meta), query)
  <2>1. ReadBack(saved[v].meta)' = ReadBack(saved[v].meta)
    BY <1>3 DEF ReadBack
  <2> QED BY <1>0, <2>1 DEF Matches, HasDate, IsAfter, IsBefore, SameUser
<1>8. ASSUME query # NoQuery, n + 1 \in Sound', kept = "whole", Len(StoredUpTo(n + 1)') <= LineBegin
      PROVE  FALSE
  <2>1. Torn' = {}
    BY <1>4, <1>8
  <2>2. text' = StoredUpTo(n + 1)'
    <3>1. backend' = "file"
      BY <1>0 DEF Appends
    <3> QED BY <1>1, <1>3, <2>1, <3>1 DEF FileOK
  <2>N. PICK N \in Nat : N = Len(text)
    BY <1>2
  <2>b. PICK b \in Nat : b = Len(Body(Received(m)))
    BY <1>0, MetaFacts, TextOfLine DEF WholeBody
  <2>3. Len(text') = N + (b + 1)
    <3>1. p = Line(Received(m))
      BY <1>0, <1>8 DEF Piece
    <3>2. Len(p) = b + 1
      BY <1>0, <2>b, <3>1, MetaFacts, TextOfLine
    <3> QED BY <1>2, <2>N, <3>2
  <2>o. PICK o \in Nat : o = offset /\ o <= N
    BY <2>N DEF CatalogueTypeOK
  <2>l. PICK l \in Nat : l = Len(line)
    BY DEF LineOK
  <2>4. LineBegin = o - l
    BY <2>o, <2>l DEF LineBegin
  <2> QED BY <1>8, <2>2, <2>3, <2>4, <2>o
<1>9. ASSUME query # NoQuery, NEW v \in Sound' \ {0}
      PROVE  (LET f == ReadBack(saved[v].meta) IN
                /\ saved[v].kept = "whole"
                /\ Len(StoredUpTo(v)) <= LineBegin
                /\ Matches(f, query)
                => f \in found)'
  <2>1. CASE v \in Sound
    <3>1. v \in 1 .. n /\ v \in 0 .. n
      BY <1>4, <2>1
    <3>2. LET f == ReadBack(saved[v].meta) IN
             /\ saved[v].kept = "whole" /\ Len(StoredUpTo(v)) <= LineBegin /\ Matches(f, query)
             => f \in found
      BY <1>0, <1>9, <2>1 DEF FoundOK
    <3> QED BY <1>0, <1>3, <1>5, <1>6, <1>7, <3>1, <3>2
  <2>2. CASE v = n + 1
    BY <1>3, <1>4, <1>6, <1>8, <1>9, <2>2
  <2> QED BY <1>4, <2>1, <2>2
<1>10. ASSUME query # NoQuery, Torn' = {}, NEW f \in found
       PROVE  /\ Matches(f, query)'
              /\ \E v \in DOMAIN saved' : (saved[v].kept = "whole" /\ f = ReadBack(saved[v].meta))'
  <2>1. Torn = {}
    BY <1>3, <1>10
  <2>v. PICK v \in DOMAIN saved : saved[v].kept = "whole" /\ f = ReadBack(saved[v].meta)
    BY <1>0, <1>10, <2>1 DEF FoundOK
  <2>2. Matches(f, query)
    BY <1>0, <1>10, <2>1 DEF FoundOK
  <2>3. Matches(f, query)'
    BY <1>0, <2>2 DEF Matches, HasDate, IsAfter, IsBefore, SameUser
  <2>4. v \in DOMAIN saved' /\ saved'[v] = saved[v] /\ ReadBack(saved[v].meta)' = ReadBack(saved[v].meta)
    BY <1>3, <1>7
  <2> QED BY <2>v, <2>3, <2>4
<1> QED BY <1>0, <1>9, <1>10 DEF FoundOK

(* The types.                                                              *)
LEMMA AppendsType ==
  ASSUME CatalogueTypeOK, SavedOK, LineOK, NEW m, NEW kept, NEW p, Appends(m, kept, p)
  PROVE  CatalogueTypeOK'
<1>0. /\ m \in Meta /\ kept \in Kept /\ p \in Seq(Token) /\ Saves(m, kept)
      /\ backend = "file" /\ backend' = backend /\ ready' = ready /\ documents' = documents
      /\ query' = query /\ names' = names /\ found' = found /\ offset' = offset /\ line' = line
      /\ before' = before /\ queries' = queries
  BY DEF Appends, readVars
<1>n. PICK n \in Nat : n = Len(saved)
  BY DEF SavedOK
<1>2. /\ text \in Seq(Token) /\ text' \in Seq(Token) /\ text' = text \o p /\ Len(text) <= Len(text')
  BY AppendsText
<1>3. /\ Len(saved') = n + 1 /\ DOMAIN saved' = 1 .. n + 1 /\ DOMAIN saved = 1 .. n
      /\ (\A v \in 1 .. n : saved'[v] = saved[v])
      /\ saved'[n + 1].meta = m /\ saved'[n + 1].kept = kept
      /\ Torn' = IF kept = "torn" THEN Torn \cup {n + 1} ELSE Torn
  BY <1>0, <1>n, SavesFacts
<1>4. \A v \in DOMAIN saved' : saved'[v].meta \in Meta /\ saved'[v].kept \in {"whole", "torn", "lost"}
  <2>1. \A v \in 1 .. n : saved[v].meta \in Meta /\ saved[v].kept \in {"whole", "torn", "lost"}
    BY <1>3 DEF CatalogueTypeOK
  <2> QED BY <1>0, <1>3, <2>1 DEF Kept
<1>N. PICK N \in Nat : N = Len(text)
  BY <1>2
<1>M. PICK M \in Nat : M = Len(text')
  BY <1>2
<1>o. PICK o \in Nat : o = offset /\ o <= N /\ o <= M
  BY <1>2, <1>N, <1>M DEF CatalogueTypeOK
<1>5. offset' \in 0 .. Len(text')
  BY <1>0, <1>o, <1>M
<1>6. Torn' = {} => line' = SubSeq(text', offset' - Len(line') + 1, offset')
  <2> SUFFICES ASSUME Torn' = {} PROVE line = SubSeq(text', o - Len(line) + 1, o)
    BY <1>0, <1>o
  <2>l. PICK l \in Nat : l = Len(line) /\ l <= o
    <3>1. line \in Seq(Token) /\ Len(line) <= offset
      BY DEF LineOK, CatalogueTypeOK
    <3> QED BY <1>o, <3>1
  <2>x. PICK x \in Nat : x = o - l + 1 /\ 1 <= x /\ x <= o + 1
    BY <2>l
  <2>1. Torn = {}
    BY <1>3
  <2>2. line = SubSeq(text, x, o)
    BY <1>o, <2>l, <2>x, <2>1 DEF CatalogueTypeOK
  <2>3. SubSeq(text', x, o) = SubSeq(text, x, o)
    BY <1>0, <1>2, <1>N, <1>o, <2>x, AppendKeeps
  <2> QED BY <2>2, <2>3, <2>l, <2>x
<1>7. Len(documents') <= Len(saved') /\ before' \in 0 .. Len(saved')
  <2>1. documents \in Seq({InitMetaBson(Received(x)) : x \in Meta})
    BY DEF SavedOK
  <2>d. PICK d \in Nat : d = Len(documents)
    BY <2>1
  <2>2. d <= n /\ before \in 0 .. n
    BY <1>n, <2>d DEF CatalogueTypeOK
  <2> QED BY <1>0, <1>3, <2>d, <2>2
<1> QED BY <1>0, <1>4, <1>5, <1>6, <1>7 DEF CatalogueTypeOK

(* file_store_smeta, whatever the connection is doing.                     *)
LEMMA FileStoreSmetaStep ==
  ASSUME CatalogueIInv, NEW m \in Meta, FileStoreSmeta(m)
  PROVE  CatalogueIInv'
<1>0. /\ CatalogueTypeOK /\ SavedOK /\ FileOK /\ DocumentsOK /\ LineOK /\ FoundOK /\ NamesOK
      /\ AnswerOK /\ AskedIsListed /\ ListedIsSaved
  BY DEF CatalogueIInv
<1>p. PICK kept, p : Appends(m, kept, p)
  BY <1>0, FileAppends
<1>1. /\ kept \in Kept /\ Saves(m, kept) /\ backend = "file" /\ backend' = backend
      /\ query' = query /\ names' = names /\ answer' = answer
  BY <1>p DEF Appends, readVars
<1>2. SavedOK' /\ FileOK' /\ LineOK' /\ FoundOK' /\ CatalogueTypeOK'
  BY <1>0, <1>p, AppendsStored, AppendsFile, AppendsLine, AppendsFound, AppendsType
<1>3. AnswerOK' /\ AskedIsListed' /\ ListedIsSaved'
  BY <1>0, <1>1, AnswerStored
<1>4. DocumentsOK' /\ NamesOK'
  BY <1>0, <1>1 DEF DocumentsOK, NamesOK
<1> QED BY <1>2, <1>3, <1>4 DEF CatalogueIInv

(* mongodb_store_smeta, whatever the connection is doing.                  *)
LEMMA MongodbStoreSmetaStep ==
  ASSUME CatalogueIInv, NEW m \in Meta, MongodbStoreSmeta(m)
  PROVE  CatalogueIInv'
<1>0. /\ CatalogueTypeOK /\ SavedOK /\ FileOK /\ DocumentsOK /\ LineOK /\ FoundOK /\ NamesOK
      /\ AnswerOK /\ AskedIsListed /\ ListedIsSaved
  BY DEF CatalogueIInv
<1>1. /\ backend = "mongodb" /\ backend' = backend /\ ready' = ready /\ text' = text
      /\ query' = query /\ names' = names /\ offset' = offset /\ line' = line /\ found' = found
      /\ answer' = answer /\ before' = before /\ queries' = queries
  BY DEF MongodbStoreSmeta, readVars
<1>n. PICK n \in Nat : n = Len(saved)
  BY <1>0 DEF SavedOK
<1>d. PICK d : d = InitMetaBson(Received(m))
  OBVIOUS
<1>D. PICK D : D = {InitMetaBson(Received(x)) : x \in Meta}
  OBVIOUS
<1>k. PICK kept \in {"whole", "lost"} :
         /\ Saves(m, kept)
         /\ kept = "whole" => ready
         /\ documents' = IF kept = "whole" THEN Append(documents, d) ELSE documents
  BY <1>d DEF MongodbStoreSmeta
<1>2. kept \in Kept
  BY DEF Kept
<1>3. /\ saved' \in Seq(Version) /\ Len(saved') = n + 1
      /\ DOMAIN saved' = 1 .. n + 1 /\ DOMAIN saved = 1 .. n
      /\ (\A v \in 1 .. n : saved'[v] = saved[v])
      /\ saved'[n + 1].meta = m /\ saved'[n + 1].kept = kept
      /\ Torn' = Torn
  BY <1>0, <1>2, <1>k, <1>n, SavesFacts
<1>4. Torn = {}
  BY <1>0, <1>1 DEF SavedOK
<1>5. /\ documents \in Seq(D) /\ d \in D
      /\ Append(documents, d) \in Seq(D) /\ Len(Append(documents, d)) = Len(documents) + 1
      /\ \A i \in 1 .. Len(documents) : Append(documents, d)[i] = documents[i]
      /\ Append(documents, d)[Len(documents) + 1] = d
      /\ DOMAIN Append(documents, d) = 1 .. Len(documents) + 1
      /\ DOMAIN documents = 1 .. Len(documents)
  <2>1. documents \in Seq(D) /\ d \in D
    BY <1>0, <1>d, <1>D DEF SavedOK
  <2> QED BY <2>1, AppendProperties
<1>6. documents' \in Seq(D)
  BY <1>5, <1>k
<1>7. SavedOK'
  <2>1. text' \in Seq(Token)
    BY <1>0, <1>1 DEF SavedOK
  <2>2. saved' \in Seq([meta : Meta, kept : {"whole", "torn", "lost"}])
    BY <1>3 DEF Version, Kept
  <2>3. documents' \in Seq({InitMetaBson(Received(x)) : x \in Meta})
    BY <1>6, <1>D
  <2>4. Torn' = {}
    BY <1>3, <1>4
  <2>5. backend' = "mongodb" => Torn' = {}
    BY <2>4
  <2> QED BY ONLY <2>1, <2>2, <2>3, <2>5 DEF SavedOK
<1>N. PICK N \in Nat : N = Len(documents)
  <2>1. documents \in Seq(D)
    BY <1>5
  <2> QED BY ONLY <2>1
<1>8. Range(documents') = IF kept = "whole" THEN Range(documents) \cup {d} ELSE Range(documents)
  <2>1. CASE kept = "whole"
    <3>e. PICK e : e = Append(documents, d)
      OBVIOUS
    <3>1. /\ \A i \in 1 .. N : e[i] = documents[i]
          /\ e[N + 1] = d /\ DOMAIN e = 1 .. N + 1 /\ DOMAIN documents = 1 .. N
      BY <1>5, <1>N, <3>e
    <3>2. \A i \in 1 .. N + 1 : i \in 1 .. N \/ i = N + 1
      OBVIOUS
    <3>3. N + 1 \in 1 .. N + 1 /\ \A i \in 1 .. N : i \in 1 .. N + 1
      OBVIOUS
    <3>4. {e[i] : i \in 1 .. N + 1} = {documents[i] : i \in 1 .. N} \cup {d}
      BY <3>1, <3>2, <3>3
    <3>5. Range(e) = Range(documents) \cup {d}
      BY <3>1, <3>4 DEF Range
    <3> QED BY <1>k, <2>1, <3>e, <3>5
  <2>2. CASE kept # "whole"
    BY <1>k, <2>2
  <2> QED BY <2>1, <2>2
<1>9. DocumentsOK'
  <2> DEFINE B(v) == InitMetaBson(Received(saved[v].meta))
  <2>1. Range(documents) = {B(v) : v \in {v \in DOMAIN saved : saved[v].kept = "whole"}}
    BY <1>0, <1>1 DEF DocumentsOK
  <2>2. \A v \in 1 .. n : B(v)' = B(v)
    BY <1>3 DEF Received, FillsServerMetaData, InitMetaBson
  <2>3. B(n + 1)' = d
    BY <1>3, <1>d DEF Received, FillsServerMetaData, InitMetaBson
  <2> HIDE DEF B
  <2>4. \A v \in 1 .. n + 1 : v \in 1 .. n \/ v = n + 1
    OBVIOUS
  <2>5. n + 1 \in 1 .. n + 1 /\ \A i \in 1 .. n : i \in 1 .. n + 1
    OBVIOUS
  <2>6. ASSUME NEW x PROVE x \in Range(documents') <=>
                            \E v \in DOMAIN saved' : (saved[v].kept = "whole" /\ x = B(v))'
    BY <1>3, <1>8, <2>1, <2>2, <2>3, <2>4, <2>5
  <2>7. Range(documents') = {B(v)' : v \in {v \in DOMAIN saved' : saved'[v].kept = "whole"}}
    BY <2>6
  <2>8. ~ready' => documents' = <<>>
    BY <1>0, <1>1, <1>k DEF DocumentsOK
  <2> QED BY <2>7, <2>8 DEF DocumentsOK, B
<1>10. FileOK' /\ FoundOK' /\ NamesOK' /\ LineOK'
  BY <1>0, <1>1 DEF FileOK, FoundOK, NamesOK, LineOK
<1>11. AnswerOK' /\ AskedIsListed' /\ ListedIsSaved'
  BY <1>0, <1>1, <1>2, <1>k, AnswerStored
<1>12. CatalogueTypeOK'
  <2>1. \A v \in DOMAIN saved' : saved'[v].meta \in Meta /\ saved'[v].kept \in {"whole", "torn", "lost"}
    <3>1. \A v \in 1 .. n : saved[v].meta \in Meta /\ saved[v].kept \in {"whole", "torn", "lost"}
      BY <1>0, <1>3 DEF CatalogueTypeOK
    <3> QED BY <1>3, <3>1
  <2>2. Len(documents') <= Len(saved') /\ before' \in 0 .. Len(saved')
    <3>1. N <= n /\ before \in 0 .. n
      BY <1>0, <1>n, <1>N DEF CatalogueTypeOK
    <3>2. Len(documents') = N + 1 \/ Len(documents') = N
      BY <1>5, <1>k, <1>N
    <3> QED BY <1>1, <1>3, <3>1, <3>2
  <2> QED BY <1>0, <1>1, <1>3, <2>1, <2>2 DEF CatalogueTypeOK
<1> QED BY <1>7, <1>9, <1>10, <1>11, <1>12 DEF CatalogueIInv

-----------------------------------------------------------------------------
(* The query that the server makes again is the one that was asked.        *)
LEMMA QueryIs ==
  ASSUME NEW q \in ClientQuery
  PROVE  InitQuery(MakeRequest(q)) = q
<1>1. q = [k \in QueryFields |-> q[k]]
  BY QueryAssumption
<1>r. PICK r : r = MakeRequest(q)
  OBVIOUS
<1>2. DOMAIN r = {k \in QueryFields : q[k] # NULL} /\ \A k \in DOMAIN r : r[k] = q[k]
  BY <1>1, <1>r DEF MakeRequest
<1>3. InitQuery(r) = [k \in QueryFields |-> q[k]]
  BY <1>2 DEF InitQuery
<1> QED BY <1>1, <1>3, <1>r

(* A query arrives: nothing is read yet.                                   *)
LEMMA GetAListOfFilesStep ==
  ASSUME CatalogueIInv, NEW q \in ClientQuery, GetAListOfFiles(q)
  PROVE  CatalogueIInv'
<1>0. /\ CatalogueTypeOK /\ SavedOK /\ FileOK /\ DocumentsOK
  BY DEF CatalogueIInv
<1>1. /\ backend' = backend /\ ready' = ready /\ text' = text /\ documents' = documents
      /\ saved' = saved
      /\ query' = q /\ names' \in ArgumentValue(q.filename) /\ offset' = 0 /\ line' = <<>>
      /\ found' = {} /\ answer' = NoAnswer /\ before' = Len(saved)
      /\ queries < MaxQueries /\ queries' = queries + 1
  BY QueryIs DEF GetAListOfFiles, storeVars
<1>2. SavedOK' /\ FileOK' /\ DocumentsOK'
  BY <1>0, <1>1, StoreSame DEF storeVars
<1>3. Torn' = Torn /\ Sound' = Sound /\ \A v : StoredUpTo(v)' = StoredUpTo(v)
  BY <1>1, SavedSame
<1>n. PICK n \in Nat : n = Len(saved) /\ DOMAIN saved = 1 .. n
  BY <1>0 DEF SavedOK
<1>4. LineBegin' = 0
  <2>1. Len(<<>>) = 0
    OBVIOUS
  <2>2. offset' = 0 /\ Len(line') = 0
    BY <1>1, <2>1
  <2> QED BY ONLY <2>2 DEF LineBegin
<1>5. 0 \in Sound /\ Len(StoredUpTo(0)) = 0
  <2>1. \A w \in Torn : 0 < w
    BY <1>n DEF Torn
  <2> QED BY <1>0, <1>n, <2>1, StoredFacts DEF Sound
<1>6. LineOK'
  <2>1. text \in Seq(Token)
    BY <1>0 DEF SavedOK
  <2>2. SubSeq(text, 0 + 1, 0) = <<>> /\ <<>> \in Seq(Token)
    BY <2>1
  <2> QED BY <1>1, <1>3, <1>4, <1>5, <2>2 DEF LineOK
<1>7. FoundOK'
  <2>1. ASSUME backend = "file", NEW v \in Sound \ {0}, saved[v].kept = "whole",
               Len(StoredUpTo(v)) <= 0
        PROVE  FALSE
    <3>s. PICK s \in Nat : s <= Len(saved) /\ Sound = 0 .. s
      BY <1>0, SoundIs
    <3>u. PICK u : u = Lengths(s)
      OBVIOUS
    <3>1. Written(text, s, u, Wholes(s), Bodies(s))
      BY <1>0, <2>1, <3>s, <3>u, WrittenNow
    <3>2. v \in Wholes(s) /\ v \in 1 .. s /\ v \in 0 .. s /\ v - 1 \in 0 .. s
      BY <2>1, <3>s DEF Wholes
    <3>3. u[v] = u[v - 1] + Len(Bodies(s)[v]) + 1 /\ u[v - 1] \in Nat
          /\ Bodies(s)[v] \in Seq(Token)
      BY <3>1, <3>2 DEF Written, LineAt, WholeBody
    <3>b. PICK b \in Nat : b = Len(Bodies(s)[v])
      BY <3>3
    <3>4. u[v] = Len(StoredUpTo(v))
      BY <3>2, <3>u DEF Lengths
    <3> QED BY <2>1, <3>3, <3>4, <3>b
  <2>2. ASSUME backend = "file", NEW v \in Sound \ {0}, (saved[v].kept)' = "whole",
               Len(StoredUpTo(v))' <= LineBegin'
        PROVE  FALSE
    <3>1. saved[v].kept = "whole" /\ Len(StoredUpTo(v)) <= 0
      BY <1>1, <1>3, <1>4, <2>2
    <3> QED BY <2>1, <2>2, <3>1
  <2> QED BY <1>1, <1>3, <2>2 DEF FoundOK
<1>8. NamesOK' /\ AnswerOK' /\ AskedIsListed' /\ ListedIsSaved'
  BY <1>1 DEF NamesOK, ArgumentValue, AnswerOK, AskedIsListed, ListedIsSaved
<1>9. CatalogueTypeOK'
  <2>1. text \in Seq(Token)
    BY <1>0 DEF SavedOK
  <2>2. 0 \in 0 .. Len(text) /\ Len(<<>>) <= 0
    BY <2>1
  <2>3. SubSeq(text, 0 - Len(<<>>) + 1, 0) = <<>>
    BY <2>1
  <2>4. queries' \in 0 .. MaxQueries
    BY <1>0, <1>1, CatalogueAssumption DEF CatalogueTypeOK
  <2>5. before' \in 0 .. Len(saved)
    BY <1>1, <1>n
  <2> QED BY <1>0, <1>1, <1>3, <2>2, <2>3, <2>4, <2>5 DEF CatalogueTypeOK
<1> QED BY <1>2, <1>6, <1>7, <1>8, <1>9 DEF CatalogueIInv

(* What is read of a line is what was saved, for a version that has an     *)
(* owner and a group.                                                      *)
LEMMA ReadBackIsSaved ==
  ASSUME NEW m \in Meta, backend = "file", m["owner"] # NULL, m["group"] # NULL
  PROVE  ReadBack(m) = AsSaved(m)
<1>1. DOMAIN m = Keys
  BY CatalogueAssumption
<1>2. {"gid", "owner", "group", "hash_list"} \subseteq Keys
  BY DEF Keys, Numbers, Strings
<1>a. PICK a : a = AsSaved(m)
  OBVIOUS
<1>b. PICK b : b = ReadBack(m)
  OBVIOUS
<1>3. /\ a = [k \in Keys |-> a[k]] /\ a["gid"] = m["uid"]
      /\ \A k \in Keys \ {"gid"} : a[k] = m[k]
  BY <1>1, <1>2, <1>a DEF AsSaved
<1>4. /\ b = [k \in Keys |-> b[k]] /\ b["gid"] = m["uid"]
      /\ \A k \in Keys \ {"gid"} : b[k] = m[k]
  BY <1>1, <1>2, <1>b DEF ReadBack
<1>5. \A k \in Keys : a[k] = b[k]
  BY <1>3, <1>4
<1>6. a = b
  BY <1>3, <1>4, <1>5
<1> QED BY <1>6, <1>a, <1>b

(* What is saved of a version, field by field.                             *)
LEMMA AsSavedFacts ==
  ASSUME NEW m \in Meta
  PROVE  /\ DOMAIN AsSaved(m) = Keys /\ AsSaved(m)["gid"] = m["uid"]
         /\ \A k \in Keys \ {"gid", "hash_list"} : AsSaved(m)[k] = m[k]
<1>1. DOMAIN m = Keys
  BY CatalogueAssumption
<1>2. {"gid", "hash_list"} \subseteq Keys
  BY DEF Keys, Numbers, Strings
<1>a. PICK a : a = AsSaved(m)
  OBVIOUS
<1>3. /\ DOMAIN a = Keys /\ a["gid"] = m["uid"]
      /\ \A k \in Keys \ {"gid", "hash_list"} : a[k] = m[k]
  BY <1>1, <1>2, <1>a DEF AsSaved
<1> QED BY <1>3, <1>a

(* Nobody who asks has no name.                                            *)
LEMMA AskerFacts ==
  ASSUME NEW q \in ClientQuery
  PROVE  q.owner # NULL /\ q.group # NULL /\ q.owner # NullText /\ q.group # NullText
<1>1. q.owner \in Pattern /\ q.group \in Pattern
      /\ q.owner \in TextsLike[q.owner] /\ q.group \in TextsLike[q.group]
  BY CatalogueAssumption
<1>2. TextsLike[q.owner] \in SUBSET Text /\ TextsLike[q.group] \in SUBSET Text
  BY <1>1, CatalogueAssumption
<1>3. NULL \notin Text
  BY TextAssumption
<1> QED BY <1>1, <1>2, <1>3, QueryAssumption

(* What the connection becomes when it has answered.                       *)
LEMMA AnswerStep ==
  ASSUME CatalogueIInv, NEW smetas, Answer(smetas)
  PROVE  /\ SavedOK' /\ FileOK' /\ DocumentsOK' /\ LineOK' /\ FoundOK' /\ NamesOK'
         /\ AnswerOK' \/ query = NoQuery
         /\ CatalogueTypeOK'
<1>0. /\ CatalogueTypeOK /\ SavedOK /\ FileOK /\ DocumentsOK
  BY DEF CatalogueIInv
<1>1. /\ backend' = backend /\ ready' = ready /\ text' = text /\ documents' = documents
      /\ saved' = saved /\ queries' = queries
      /\ answer' = [query |-> query, before |-> before, files |-> FilesReceived(smetas)]
      /\ query' = NoQuery /\ names' = {} /\ offset' = 0 /\ line' = <<>> /\ found' = {} /\ before' = 0
  BY DEF Answer, storeVars
<1>2. SavedOK' /\ FileOK' /\ DocumentsOK'
  BY <1>0, <1>1, StoreSame DEF storeVars
<1>3. Torn' = Torn
  BY <1>1, SavedSame
<1>4. LineOK' /\ FoundOK' /\ NamesOK'
  <2>1. <<>> \in Seq(Token)
    OBVIOUS
  <2> QED BY <1>1, <2>1 DEF LineOK, FoundOK, NamesOK
<1>5. AnswerOK' \/ query = NoQuery
  BY <1>0, <1>1 DEF AnswerOK, CatalogueTypeOK
<1>6. CatalogueTypeOK'
  <2>1. text \in Seq(Token) /\ saved \in Seq([meta : Meta, kept : {"whole", "torn", "lost"}])
    BY <1>0 DEF SavedOK
  <2>2. 0 \in 0 .. Len(text) /\ Len(<<>>) <= 0
    BY <2>1
  <2>3. SubSeq(text, 0 - Len(<<>>) + 1, 0) = <<>>
    BY <2>1
  <2>4. 0 \in 0 .. Len(saved)
    BY <2>1
  <2> QED BY <1>0, <1>1, <1>3, <2>2, <2>3, <2>4 DEF CatalogueTypeOK
<1> QED BY <1>2, <1>4, <1>5, <1>6

(* The end of the file: all the versions stored before the query have been *)
(* met.                                                                    *)
LEMMA FileGetListOfFilesStep ==
  ASSUME CatalogueIInv, FileGetListOfFiles
  PROVE  CatalogueIInv'
<1>0. /\ CatalogueTypeOK /\ SavedOK /\ FileOK /\ LineOK /\ FoundOK /\ NamesOK
  BY DEF CatalogueIInv
<1>1. backend = "file" /\ query # NoQuery /\ offset = Len(text) /\ Answer(found)
  BY DEF FileGetListOfFiles
<1>2. /\ backend' = backend /\ saved' = saved
      /\ answer' = [query |-> query, before |-> before, files |-> FilesReceived(found)]
  BY <1>1 DEF Answer, storeVars
<1>n. PICK n \in Nat : n = Len(saved) /\ DOMAIN saved = 1 .. n
  BY <1>0 DEF SavedOK
<1>q. query \in ClientQuery /\ before \in 0 .. n
  BY <1>0, <1>1, <1>n DEF CatalogueTypeOK
<1>3. /\ SavedOK' /\ FileOK' /\ DocumentsOK' /\ LineOK' /\ FoundOK' /\ NamesOK'
      /\ AnswerOK' /\ CatalogueTypeOK'
  BY <1>1, AnswerStep
<1>4. Torn' = Torn
  BY <1>2, SavedSame
<1>5. FilesReceived(found) = {Received(m) : m \in found}
  BY DEF FilesReceived, Received
<1>6. \A m : AsSaved(m)' = AsSaved(m)
  BY <1>2 DEF AsSaved
<1>k. {"owner", "group", "uid", "name", "mtime"} \subseteq Keys \ {"gid", "hash_list"}
  BY DEF Keys, Numbers, Strings
<1>7. ASSUME NEW v \in 1 .. before, saved[v].kept = "whole", \A w \in Torn : v < w,
             query.filename \notin Plus, Asks(query, AsSaved(saved[v].meta))
      PROVE  AsSaved(saved[v].meta) \in FilesReceived(found)
  <2>m. PICK m \in Meta : m = saved[v].meta
    BY <1>0, <1>n, <1>q DEF CatalogueTypeOK
  <2>a. PICK a : a = AsSaved(m)
    OBVIOUS
  <2>1. v \in Sound \ {0} /\ v \in 0 .. n
    BY <1>7, <1>n, <1>q DEF Sound
  <2>2. a["owner"] = m["owner"] /\ a["group"] = m["group"]
    BY <1>k, <2>a, AsSavedFacts
  <2>3. a["owner"] = query.owner /\ a["group"] = query.group
    BY <1>7, <2>a, <2>m DEF Asks, SameUser
  <2>4. ReadBack(m) = a
    BY <1>1, <1>q, <2>2, <2>3, <2>a, AskerFacts, ReadBackIsSaved
  <2>5. names = TextsLike[query.filename]
    BY <1>0, <1>1, <1>7 DEF NamesOK
  <2>6. Matches(a, query)
    BY <1>7, <2>5, <2>a, <2>m DEF Asks, Matches
  <2>7. Len(StoredUpTo(v)) <= LineBegin
    <3>1. Len(StoredUpTo(v)) <= Len(text)
      BY <1>0, <1>1, <2>1 DEF FileOK
    <3> QED BY <1>0, <1>1, <2>1, <3>1 DEF LineOK
  <2>8. ReadBack(m) \in found
    BY <1>0, <1>1, <1>7, <2>1, <2>4, <2>6, <2>7, <2>m DEF FoundOK
  <2>9. Received(ReadBack(m)) = ReadBack(m)
    BY ReadBackFacts
  <2> QED BY <1>5, <2>4, <2>8, <2>9, <2>a, <2>m
<1>8. ASSUME Torn = {}, NEW f \in FilesReceived(found)
      PROVE  \E v \in DOMAIN saved :
                /\ saved[v].kept = "whole" /\ f = AsSaved(saved[v].meta)
                /\ SameUser(f, query)
                /\ query.filename \notin Plus => f["name"] \in TextsLike[query.filename]
  <2>g. PICK g \in found : f = Received(g)
    BY <1>5
  <2>v. PICK v \in DOMAIN saved : saved[v].kept = "whole" /\ g = ReadBack(saved[v].meta)
    BY <1>0, <1>1, <1>8 DEF FoundOK
  <2>1. Matches(g, query)
    BY <1>0, <1>1, <1>8 DEF FoundOK
  <2>m. PICK m \in Meta : m = saved[v].meta
    BY <1>0 DEF CatalogueTypeOK
  <2>2. f = g
    BY <2>g, <2>v, <2>m, ReadBackFacts
  <2>3. g["owner"] = query.owner /\ g["group"] = query.group
    BY <2>1 DEF Matches, SameUser
  <2>4. m["owner"] # NULL /\ m["group"] # NULL
    BY <1>q, <2>3, <2>v, <2>m, AskerFacts, ReadBackFacts
  <2>5. g = AsSaved(m)
    BY <1>1, <2>4, <2>v, <2>m, ReadBackIsSaved
  <2>6. SameUser(f, query) /\ f["name"] \in names
    BY <2>1, <2>2 DEF Matches
  <2>7. query.filename \notin Plus => f["name"] \in TextsLike[query.filename]
    BY <1>0, <1>1, <2>6 DEF NamesOK
  <2> QED BY <2>2, <2>5, <2>6, <2>7, <2>v, <2>m
<1>9. AskedIsListed'
  <2> SUFFICES ASSUME NEW v \in 1 .. before
               PROVE  (LET a == AsSaved(saved[v].meta) IN
                       (/\ saved[v].kept = "whole"
                        /\ \A w \in Torn : v < w
                        /\ answer.query.filename \notin Plus
                        /\ Asks(answer.query, a)
                        /\ ~Misdated(answer.query, a))
                       => a \in answer.files)'
    BY <1>2 DEF AskedIsListed
  <2>1. Asks(answer.query, AsSaved(saved[v].meta))' => Asks(query, AsSaved(saved[v].meta))
    BY <1>2, <1>6 DEF Asks, HasDate, IsAfter, IsBefore, SameUser
  <2>2. AsSaved(saved[v].meta)' = AsSaved(saved[v].meta)
    BY <1>2, <1>6
  <2> QED BY <1>2, <1>4, <1>7, <2>1, <2>2
<1>10. ListedIsSaved'
  <2> SUFFICES ASSUME Torn' = {}, NEW f \in answer'.files
               PROVE  \E v \in DOMAIN saved' :
                        /\ (saved[v].kept = "whole" /\ f = AsSaved(saved[v].meta))'
                        /\ (backend = "file" => SameUser(f, answer.query))'
                        /\ (answer.query.filename \notin Plus => f["name"] \in TextsLike[answer.query.filename])'
    BY DEF ListedIsSaved
  <2>v. PICK v \in DOMAIN saved :
                /\ saved[v].kept = "whole" /\ f = AsSaved(saved[v].meta)
                /\ SameUser(f, query)
                /\ query.filename \notin Plus => f["name"] \in TextsLike[query.filename]
    BY <1>2, <1>4, <1>8
  <2>1. AsSaved(saved[v].meta)' = AsSaved(saved[v].meta)
    BY <1>2, <1>6
  <2>2. SameUser(f, answer.query)'
    BY <1>2, <2>v DEF SameUser
  <2> QED BY <1>2, <2>v, <2>1, <2>2
<1> QED BY <1>3, <1>9, <1>10 DEF CatalogueIInv

-----------------------------------------------------------------------------
(* What mongodb keeps of the hashes of a version.                          *)

(* The pairs of a sequence, one after the other.                           *)
Pairs(T, n, a, b, s) ==
    /\ a \in [1 .. n -> T] /\ b \in [1 .. n -> T]
    /\ s = FlattenSeq([i \in 1 .. n |-> <<a[i], b[i]>>])

Paired(n, a, b, s) ==
    /\ Len(s) = 2 * n
    /\ \A i \in 1 .. n : s[2 * i - 1] = a[i] /\ s[2 * i] = b[i]

(* Each element of each pair is where its index says.                      *)
LEMMA PairsRead ==
  ASSUME NEW T, NEW n \in Nat, NEW a, NEW b, NEW s, Pairs(T, n, a, b, s)
  PROVE  Paired(n, a, b, s)
<1> DEFINE P(k) == [i \in 1 .. k |-> <<a[i], b[i]>>]
           F(k) == FlattenSeq(P(k))
           Q(k, f) == /\ f \in Seq(T) /\ Len(f) = 2 * k
                      /\ \A i \in 1 .. k : f[2 * i - 1] = a[i] /\ f[2 * i] = b[i]
           S == {k \in Nat : k <= n => Q(k, F(k))}
<1>0. a \in [1 .. n -> T] /\ b \in [1 .. n -> T] /\ s = F(n)
  BY DEF Pairs
<1> HIDE DEF P, F, Q
<1>1. 0 \in S
  <2>1. P(0) = <<>>
    BY DEF P
  <2>2. F(0) = <<>>
    BY <2>1, FlattenEmpty DEF F
  <2>3. <<>> \in Seq(T) /\ Len(<<>>) = 0 /\ 1 .. 0 = {}
    OBVIOUS
  <2>4. Q(0, <<>>)
    BY <2>3 DEF Q
  <2> QED BY <2>2, <2>4
<1>2. ASSUME NEW k \in Nat, k \in S PROVE k + 1 \in S
  <2> SUFFICES ASSUME k + 1 <= n PROVE Q(k + 1, F(k + 1))
    OBVIOUS
  <2>1. /\ F(k) \in Seq(T) /\ Len(F(k)) = 2 * k
        /\ \A i \in 1 .. k : F(k)[2 * i - 1] = a[i] /\ F(k)[2 * i] = b[i]
    <3>1. Q(k, F(k))
      BY <1>2
    <3> QED BY <3>1 DEF Q
  <2>2. /\ Len(P(k)) = k /\ Len(P(k + 1)) = k + 1
        /\ \A i \in 1 .. k : P(k)[i] = P(k + 1)[i]
        /\ P(k + 1)[k + 1] = <<a[k + 1], b[k + 1]>>
    BY DEF P
  <2>3. F(k + 1) = F(k) \o <<a[k + 1], b[k + 1]>>
    <3>p. PICK p : p = P(k + 1)
      OBVIOUS
    <3>q. PICK q : q = P(k)
      OBVIOUS
    <3>1. /\ k = 0 => FlattenSeq(p) = p[1]
          /\ k # 0 => FlattenSeq(p) = FlattenSeq(q) \o p[k + 1]
      BY <2>2, <3>p, <3>q, FlattenMore
    <3>2. CASE k = 0
      <4>1. F(k) = <<>>
        <5>1. P(0) = <<>>
          BY DEF P
        <5> QED BY <3>2, <5>1, FlattenEmpty DEF F
      <4>2. F(k + 1) = <<a[k + 1], b[k + 1]>>
        <5>1. k + 1 = 1
          BY <3>2
        <5>2. p[1] = <<a[k + 1], b[k + 1]>>
          BY <2>2, <3>p, <5>1
        <5>3. F(k + 1) = p[1]
          BY <3>1, <3>2, <3>p DEF F
        <5> QED BY <5>2, <5>3
      <4>3. a[k + 1] \in T /\ b[k + 1] \in T
        BY <1>0
      <4>4. <<>> \o <<a[k + 1], b[k + 1]>> = <<a[k + 1], b[k + 1]>>
        BY <4>3
      <4> QED BY <4>1, <4>2, <4>4
    <3>3. CASE k # 0
      BY <2>2, <3>1, <3>3, <3>p, <3>q DEF F
    <3> QED BY <3>2, <3>3
  <2>x. PICK x \in T : x = a[k + 1]
    BY <1>0
  <2>y. PICK y \in T : y = b[k + 1]
    BY <1>0
  <2>f. PICK f \in Seq(T) : f = F(k) /\ Len(f) = 2 * k
    BY <2>1
  <2>4. F(k + 1) = f \o <<x, y>>
    BY <2>3, <2>x, <2>y, <2>f
  <2>5. /\ <<x, y>> \in Seq(T) /\ Len(<<x, y>>) = 2 /\ <<x, y>>[1] = x /\ <<x, y>>[2] = y
    OBVIOUS
  <2>6. /\ f \o <<x, y>> \in Seq(T) /\ Len(f \o <<x, y>>) = 2 * k + 2
        /\ \A i \in 1 .. 2 * k : (f \o <<x, y>>)[i] = f[i]
        /\ (f \o <<x, y>>)[2 * k + 1] = x /\ (f \o <<x, y>>)[2 * k + 2] = y
    BY <2>f, <2>5
  <2>7. ASSUME NEW i \in 1 .. k + 1
        PROVE  F(k + 1)[2 * i - 1] = a[i] /\ F(k + 1)[2 * i] = b[i]
    <3>1. CASE i \in 1 .. k
      <4>1. 2 * i - 1 \in 1 .. 2 * k /\ 2 * i \in 1 .. 2 * k
        BY <3>1
      <4>2. F(k)[2 * i - 1] = a[i] /\ F(k)[2 * i] = b[i]
        BY <2>1, <3>1
      <4> QED BY <2>4, <2>6, <2>f, <4>1, <4>2
    <3>2. CASE i = k + 1
      <4>1. 2 * i - 1 = 2 * k + 1 /\ 2 * i = 2 * k + 2
        BY <3>2
      <4> QED BY <2>4, <2>6, <2>x, <2>y, <3>2, <4>1
    <3> QED BY <3>1, <3>2
  <2>8. 2 * (k + 1) = 2 * k + 2
    OBVIOUS
  <2> QED BY <2>4, <2>6, <2>7, <2>8 DEF Q
<1> HIDE DEF S
<1>3. Nat \subseteq S
  BY <1>1, <1>2, Induction
<1>4. Q(n, F(n))
  <2>1. n \in S
    BY <1>3
  <2> QED BY <2>1 DEF S
<1> QED BY <1>0, <1>4 DEF Q, Paired

(* The value of a digit.                                                   *)
LEMMA DigitValue ==
  ASSUME NEW n \in 0 .. 15
  PROVE  IntValue(Digit[n + 1]) = n
<1>1. \A i \in 1 .. 16, j \in 1 .. 16 : Digit[i] = Digit[j] => i = j
  BY DEF Digit
<1>2. DOMAIN Digit = 1 .. 16
  BY DEF Digit
<1>c. PICK c : c = Digit[n + 1]
  OBVIOUS
<1>3. c \in Range(Digit) /\ \E m \in 0 .. 15 : Digit[m + 1] = c
  BY <1>2, <1>c DEF Range
<1>m. PICK m \in 0 .. 15 : m = IntValue(c) /\ Digit[m + 1] = c
  BY <1>3 DEF IntValue
<1>4. m + 1 = n + 1
  <2>1. m + 1 \in 1 .. 16 /\ n + 1 \in 1 .. 16
    OBVIOUS
  <2> QED BY <1>1, <1>c, <1>m, <2>1
<1> QED BY <1>c, <1>m, <1>4

(* The hash that is read of a string is the one that was written.          *)
LEMMA HashRead ==
  ASSUME NEW h \in Hash
  PROVE  StringToHash(HashToString(h)) = h
<1>o. PICK o \in Seq(0 .. 255) : o = Octets[h]
  BY TextAssumption
<1>n. PICK n \in Nat : n = Len(o) /\ DOMAIN o = 1 .. n
  OBVIOUS
<1>0. \A i \in 1 .. n : /\ o[i] \in 0 .. 255 /\ o[i] \div 16 \in 0 .. 15 /\ o[i] % 16 \in 0 .. 15
                        /\ (o[i] \div 16) * 16 + (o[i] % 16) = o[i]
  <2>1. \A x \in 0 .. 255 : /\ x \div 16 \in 0 .. 15 /\ x % 16 \in 0 .. 15
                            /\ (x \div 16) * 16 + (x % 16) = x
    OBVIOUS
  <2>2. \A i \in 1 .. n : o[i] \in 0 .. 255
    BY <1>n
  <2> QED BY <2>1, <2>2
<1>T. PICK T : T = {Digit[i] : i \in 1 .. 16}
  OBVIOUS
<1> DEFINE a == [i \in 1 .. n |-> Digit[(o[i] \div 16) + 1]]
           b == [i \in 1 .. n |-> Digit[(o[i] % 16) + 1]]
<1>1. a \in [1 .. n -> T] /\ b \in [1 .. n -> T]
  <2>1. \A x \in 0 .. 15 : Digit[x + 1] \in T
    <3> TAKE x \in 0 .. 15
    <3>1. x + 1 \in 1 .. 16
      OBVIOUS
    <3> QED BY <1>T, <3>1
  <2>2. \A i \in 1 .. n : Digit[(o[i] \div 16) + 1] \in T /\ Digit[(o[i] % 16) + 1] \in T
    BY <1>0, <2>1
  <2> QED BY <2>2
<1>s. PICK s : s = HashToString(h)
  OBVIOUS
<1>2. s = FlattenSeq([i \in 1 .. n |-> <<a[i], b[i]>>])
  BY <1>o, <1>n, <1>s DEF HashToString
<1>3. \A i \in 1 .. n : IntValue(a[i]) = o[i] \div 16 /\ IntValue(b[i]) = o[i] % 16
  <2> TAKE i \in 1 .. n
  <2>x. PICK x \in 0 .. 15 : x = o[i] \div 16
    BY <1>0
  <2>y. PICK y \in 0 .. 15 : y = o[i] % 16
    BY <1>0
  <2>1. a[i] = Digit[x + 1] /\ b[i] = Digit[y + 1]
    BY <2>x, <2>y
  <2>2. IntValue(Digit[x + 1]) = x /\ IntValue(Digit[y + 1]) = y
    BY DigitValue
  <2> HIDE DEF a, b
  <2> QED BY <2>x, <2>y, <2>1, <2>2
<1> HIDE DEF a, b
<1>4. Len(s) = 2 * n /\ \A i \in 1 .. n : s[2 * i - 1] = a[i] /\ s[2 * i] = b[i]
  <2>1. Pairs(T, n, a, b, s)
    BY <1>1, <1>2 DEF Pairs
  <2>2. Paired(n, a, b, s)
    BY <2>1, PairsRead
  <2> QED BY <2>2 DEF Paired
<1>5. Len(s) \div 2 = n
  BY <1>4
<1>c. PICK c : c = [i \in 1 .. Len(s) \div 2 |->
                     IntValue(s[2 * i - 1]) * 16 + IntValue(s[2 * i])]
  OBVIOUS
<1>6. c = o
  <2>1. \A i \in 1 .. n : c[i] = o[i]
    BY <1>0, <1>3, <1>4, <1>5, <1>c
  <2>2. o = [i \in 1 .. n |-> o[i]]
    BY <1>n
  <2>3. c = [i \in 1 .. n |-> c[i]]
    BY <1>5, <1>c
  <2> QED BY <2>1, <2>2, <2>3
<1>7. StringToHash(s) = IF \E g \in Hash : Octets[g] = c
                        THEN CHOOSE g \in Hash : Octets[g] = c ELSE Garbled
  BY <1>c DEF StringToHash
<1>8. \E g \in Hash : Octets[g] = c
  BY <1>6, <1>o
<1>9. \A g \in Hash : Octets[g] = c => g = h
  BY <1>6, <1>o, TextAssumption
<1> QED BY <1>7, <1>8, <1>9, <1>s

(* The hashes that a document keeps: the first half of them.               *)
Half(l) == SubSeq(l, 1, (Len(l) + 1) \div 2)

HashesOf(strings) == Reverse(Prepended([i \in DOMAIN strings |-> StringToHash(strings[i])]))

(* The strings of the first half of the hashes give these hashes back.     *)
LEMMA HalfRead ==
  ASSUME NEW l \in Seq(Hash)
  PROVE  /\ Half(l) \in Seq(Hash)
         /\ HashesOf(AddListValuesToBson(l)) = Half(l)
<1>s. PICK g : g = AddListValuesToBson(l)
  OBVIOUS
<1>n. PICK n \in Nat : n = Len(l) /\ DOMAIN l = 1 .. n /\ \A i \in 1 .. n : l[i] \in Hash
  OBVIOUS
<1>k. PICK k \in Nat : k = (n + 1) \div 2 /\ k <= n
                       /\ \A i \in 1 .. n : i - 1 < n - (i - 1) <=> i <= k
  OBVIOUS
<1>p. PICK p : p = SubSeq(l, 1, k)
  OBVIOUS
<1>1. /\ p \in Seq(Hash) /\ Len(p) = k /\ DOMAIN p = 1 .. k
      /\ \A i \in 1 .. k : p[i] = l[i]
  BY <1>n, <1>k, <1>p
<1>2. DOMAIN g = 1 .. k /\ \A i \in 1 .. k : g[i] = HashToString(l[i])
  <2>1. g = [i \in {i \in 1 .. n : i - 1 < n - (i - 1)} |-> HashToString(l[i])]
    BY <1>n, <1>s DEF AddListValuesToBson
  <2>2. {i \in 1 .. n : i - 1 < n - (i - 1)} = 1 .. k
    <3>1. \A i \in 1 .. k : i \in 1 .. n /\ i <= k
      BY <1>k
    <3>2. \A i \in 1 .. n : i <= k => i \in 1 .. k
      BY <1>k
    <3> QED BY <1>k, <3>1, <3>2
  <2> QED BY <2>1, <2>2
<1>q. PICK q : q = [i \in DOMAIN g |-> StringToHash(g[i])]
  OBVIOUS
<1>3. q = p
  <2>1. \A i \in 1 .. k : q[i] = p[i]
    <3> TAKE i \in 1 .. k
    <3>h. PICK h \in Hash : h = l[i]
      BY <1>n, <1>k
    <3>1. q[i] = StringToHash(HashToString(h))
      BY <1>2, <1>q, <3>h
    <3> QED BY <1>1, <3>1, <3>h, HashRead
  <2>2. q = [i \in 1 .. k |-> q[i]]
    BY <1>2, <1>q
  <2>3. p = [i \in 1 .. k |-> p[i]]
    BY <1>1
  <2> QED BY <2>1, <2>2, <2>3
<1>4. Reverse(Prepended(p)) = p
  BY <1>1, PrependedIsReverse
<1>5. Half(l) = p
  BY <1>n, <1>k, <1>p DEF Half
<1>6. HashesOf(g) = p
  BY <1>q, <1>3, <1>4 DEF HashesOf
<1> QED BY <1>s, <1>1, <1>5, <1>6

(* What a document says of a version, and what is read of it.              *)
LEMMA DocumentRead ==
  ASSUME backend = "mongodb", NEW m \in Meta, NEW d, d = InitMetaBson(Received(m))
  PROVE  /\ \A k \in Strings : k \in DOMAIN d <=> m[k] # NULL
         /\ "mtime" \in DOMAIN d <=> m["mtime"] # 0
         /\ \A k \in DOMAIN d \ {"gid", "hash_list"} : d[k] = m[k]
         /\ Received(InitMetaDataFromBson(d)) = AsSaved(m)
<1>0. m["hash_list"] \in Seq(Hash) /\ DOMAIN m = Keys /\ Sendable(m)
  BY MetaFacts DEF Sendable
<1>l. PICK l \in Seq(Hash) : l = m["hash_list"]
  BY <1>0
<1>h. PICK h : h = Half(l)
  OBVIOUS
<1>r. PICK r : r = Received(m)
  OBVIOUS
<1>1. DOMAIN r = Keys /\ r["gid"] = m["uid"] /\ \A k \in Keys \ {"gid"} : r[k] = m[k]
  BY <1>0, <1>r, ReceivedIs
<1>2. /\ "hash_list" \in Keys \ {"gid"} /\ "hash_list" \notin Numbers \cup Strings
      /\ Strings \subseteq Keys \ {"gid", "hash_list"} /\ Numbers \subseteq Keys
      /\ "mtime" \in Numbers \ {"gid"} /\ {"gid", "uid"} \subseteq Numbers
      /\ Numbers \cap Strings = {} /\ Keys = Numbers \cup Strings \cup {"hash_list"}
  BY DEF Keys, Numbers, Strings
<1>3. /\ \A k \in Numbers : Undefined(k, r) <=> r[k] = 0
      /\ \A k \in Strings : Undefined(k, r) <=> r[k] = NULL
      /\ Undefined("hash_list", r) <=> r["hash_list"] = <<>>
  <2>1. \A k \in Numbers : Undefined(k, r) <=> r[k] = 0
    BY <1>2 DEF Undefined
  <2>2. \A k \in Strings : Undefined(k, r) <=> r[k] = NULL
    BY <1>2 DEF Undefined
  <2>3. Undefined("hash_list", r) <=> r["hash_list"] = <<>>
    BY <1>2 DEF Undefined
  <2> QED BY <2>1, <2>2, <2>3
<1>4. /\ DOMAIN d = {k \in Keys : ~Undefined(k, r)}
      /\ \A k \in DOMAIN d \ {"hash_list"} : d[k] = r[k]
      /\ "hash_list" \in DOMAIN d => d["hash_list"] = AddListValuesToBson(r["hash_list"])
  <2>1. d = [k \in {k \in Keys : ~Undefined(k, r)} |->
               IF k = "hash_list" THEN AddListValuesToBson(r[k]) ELSE r[k]]
    BY <1>r DEF InitMetaBson
  <2> QED BY <2>1
<1>5. \A k \in Strings : k \in DOMAIN d <=> m[k] # NULL
  BY <1>1, <1>2, <1>3, <1>4
<1>6. "mtime" \in DOMAIN d <=> m["mtime"] # 0
  BY <1>1, <1>2, <1>3, <1>4
<1>7. \A k \in DOMAIN d \ {"gid", "hash_list"} : d[k] = m[k]
  BY <1>1, <1>4
<1>x. PICK x : x = InitMetaDataFromBson(d)
  OBVIOUS
<1>8. /\ DOMAIN x = Keys
      /\ \A k \in Keys \ {"hash_list"} : x[k] = r[k]
      /\ x["hash_list"] = h
  <2>1. DOMAIN x = Keys
    BY <1>x DEF InitMetaDataFromBson
  <2>2. ASSUME NEW k \in Keys \ {"hash_list"} PROVE x[k] = r[k]
    <3>1. CASE k \in DOMAIN d
      <4>1. x[k] = d[k]
        BY <1>x, <2>2, <3>1 DEF InitMetaDataFromBson
      <4> QED BY <1>4, <2>2, <3>1, <4>1
    <3>2. CASE k \notin DOMAIN d /\ k \in Numbers
      <4>1. x[k] = 0
        BY <1>x, <1>2, <2>2, <3>2 DEF InitMetaDataFromBson
      <4> QED BY <1>3, <1>4, <2>2, <3>2, <4>1
    <3>3. CASE k \notin DOMAIN d /\ k \in Strings
      <4>1. x[k] = NULL
        BY <1>x, <1>2, <2>2, <3>3 DEF InitMetaDataFromBson
      <4> QED BY <1>3, <1>4, <2>2, <3>3, <4>1
    <3> QED BY <1>2, <2>2, <3>1, <3>2, <3>3
  <2>3. x["hash_list"] = h
    <3>1. r["hash_list"] = l
      BY <1>1, <1>2, <1>l
    <3>2. CASE "hash_list" \in DOMAIN d
      <4>s. PICK s : s = d["hash_list"]
        OBVIOUS
      <4>1. x["hash_list"] = HashesOf(s)
        BY <1>x, <1>2, <3>2, <4>s DEF InitMetaDataFromBson, HashesOf
      <4>2. s = AddListValuesToBson(l)
        BY <1>4, <3>1, <3>2, <4>s
      <4> QED BY <1>h, <4>1, <4>2, HalfRead
    <3>3. CASE "hash_list" \notin DOMAIN d
      <4>1. x["hash_list"] = <<>>
        BY <1>x, <1>2, <3>3 DEF InitMetaDataFromBson
      <4>2. l = <<>>
        BY <1>2, <1>3, <1>4, <3>1, <3>3
      <4>3. Half(<<>>) = <<>>
        <5>1. Len(<<>>) = 0
          OBVIOUS
        <5>2. (0 + 1) \div 2 = 0
          OBVIOUS
        <5>3. SubSeq(<<>>, 1, 0) = <<>>
          OBVIOUS
        <5> QED BY <5>1, <5>2, <5>3 DEF Half
      <4> QED BY <1>h, <4>1, <4>2, <4>3
    <3> QED BY <3>2, <3>3
  <2> QED BY <2>1, <2>2, <2>3
<1>9. h \in Seq(Hash)
  BY <1>h, HalfRead
<1>10. Sendable(x)
  BY <1>8, <1>9 DEF Sendable
<1>y. PICK y : y = Received(x)
  OBVIOUS
<1>11. DOMAIN y = Keys /\ y["gid"] = x["uid"] /\ \A k \in Keys \ {"gid"} : y[k] = x[k]
  BY <1>10, <1>y, ReceivedIs
<1>a. PICK a : a = AsSaved(m)
  OBVIOUS
<1>12. /\ a = [k \in Keys |-> a[k]] /\ a["gid"] = m["uid"] /\ a["hash_list"] = h
       /\ \A k \in Keys \ {"gid", "hash_list"} : a[k] = m[k]
  BY <1>0, <1>2, <1>a, <1>h, <1>l DEF AsSaved, Half
<1>13. y = [k \in Keys |-> y[k]]
  <2>1. Received(x) = [k \in Keys |-> IF k = "hash_list" THEN ExtractGlist(ConvertMetaDataToJson(x)[k])
                                      ELSE GetFromJson(ConvertMetaDataToJson(x), k)]
    BY DEF Received, FillsServerMetaData
  <2> QED BY <1>y, <2>1
<1>14. \A k \in Keys : y[k] = a[k]
  <2>1. y["gid"] = a["gid"]
    <3>1. x["uid"] = m["uid"]
      BY <1>1, <1>2, <1>8
    <3> QED BY <1>11, <1>12, <3>1
  <2>2. y["hash_list"] = a["hash_list"]
    BY <1>2, <1>8, <1>11, <1>12
  <2>3. \A k \in Keys \ {"gid", "hash_list"} : y[k] = a[k]
    BY <1>1, <1>8, <1>11, <1>12
  <2> QED BY <2>1, <2>2, <2>3
<1>15. y = a
  BY <1>12, <1>13, <1>14
<1> QED BY <1>5, <1>6, <1>7, <1>15, <1>a, <1>x, <1>y

-----------------------------------------------------------------------------
(* A search: the documents found are those that the query asks for, unless *)
(* mongodb reads its dates as others.                                      *)
LEMMA MongodbGetListOfFilesStep ==
  ASSUME CatalogueIInv, MongodbGetListOfFiles
  PROVE  CatalogueIInv'
<1>0. /\ CatalogueTypeOK /\ SavedOK /\ DocumentsOK /\ NamesOK
  BY DEF CatalogueIInv
<1> DEFINE Searched == {d \in Range(documents) : SearchProperty(d, query)}
<1>s. PICK smetas : smetas = IF ready THEN {InitMetaDataFromBson(d) : d \in Searched} ELSE {}
  OBVIOUS
<1>1. backend = "mongodb" /\ query # NoQuery /\ Answer(smetas)
  BY <1>s DEF MongodbGetListOfFiles
<1>2. /\ backend' = backend /\ saved' = saved
      /\ answer' = [query |-> query, before |-> before, files |-> FilesReceived(smetas)]
  BY <1>1 DEF Answer, storeVars
<1>n. PICK n \in Nat : n = Len(saved) /\ DOMAIN saved = 1 .. n
  BY <1>0 DEF SavedOK
<1>q. query \in ClientQuery /\ before \in 0 .. n
  BY <1>0, <1>1, <1>n DEF CatalogueTypeOK
<1>3. /\ SavedOK' /\ FileOK' /\ DocumentsOK' /\ LineOK' /\ FoundOK' /\ NamesOK'
      /\ AnswerOK' /\ CatalogueTypeOK'
  BY <1>1, AnswerStep
<1>4. Torn' = Torn
  BY <1>2, SavedSame
<1>5. FilesReceived(smetas) = {Received(m) : m \in smetas}
  BY DEF FilesReceived, Received
<1>6. \A m : AsSaved(m)' = AsSaved(m)
  BY <1>2 DEF AsSaved
<1>k. /\ {"owner", "group", "name"} \subseteq Strings \cap (Keys \ {"gid", "hash_list"})
      /\ "mtime" \in Keys \ {"gid", "hash_list"}
  BY DEF Keys, Numbers, Strings
<1>7. ASSUME NEW v \in 1 .. before, saved[v].kept = "whole",
             query.filename \notin Plus, Asks(query, AsSaved(saved[v].meta)),
             ~Misdated(query, AsSaved(saved[v].meta))
      PROVE  AsSaved(saved[v].meta) \in FilesReceived(smetas)
  <2>0. v \in 1 .. n
    BY <1>q, <1>n
  <2>m. PICK m \in Meta : m = saved[v].meta
    BY <1>0, <1>n, <2>0 DEF CatalogueTypeOK
  <2>a. PICK a : a = AsSaved(m)
    OBVIOUS
  <2>d. PICK d : d = InitMetaBson(Received(m))
    OBVIOUS
  <2>1. d \in Range(documents)
    BY <1>0, <1>1, <1>7, <1>n, <2>0, <2>m, <2>d DEF DocumentsOK
  <2>2. ready
    <3>1. ~ready => documents = <<>>
      BY <1>0, <1>1 DEF DocumentsOK
    <3>2. Range(<<>>) = {}
      BY DEF Range
    <3> QED BY <2>1, <3>1, <3>2
  <2>3. /\ a["owner"] = m["owner"] /\ a["group"] = m["group"] /\ a["name"] = m["name"]
        /\ a["mtime"] = m["mtime"]
    BY <1>k, <2>a, AsSavedFacts
  <2>4. /\ \A k \in Strings : k \in DOMAIN d <=> m[k] # NULL
        /\ "mtime" \in DOMAIN d <=> m["mtime"] # 0
        /\ \A k \in DOMAIN d \ {"gid", "hash_list"} : d[k] = m[k]
        /\ Received(InitMetaDataFromBson(d)) = a
    BY <1>1, <2>a, <2>d, DocumentRead
  <2>5. names = TextsLike[query.filename]
    BY <1>0, <1>1, <1>7 DEF NamesOK
  <2>6. m["name"] \in names /\ m["owner"] = query.owner /\ m["group"] = query.group
    BY <1>7, <2>3, <2>5, <2>a, <2>m DEF Asks, SameUser
  <2>7. Holds(d, "name", names)
    <3>1. m["name"] # NULL
      BY CatalogueAssumption, TextAssumption
    <3> QED BY <1>k, <2>4, <2>6, <3>1 DEF Holds
  <2>8. Holds(d, "owner", TextsLike[query.owner]) /\ Holds(d, "group", TextsLike[query.group])
    <3>1. m["owner"] # NULL /\ m["group"] # NULL
      BY <1>q, <2>6, AskerFacts
    <3>2. query.owner \in TextsLike[query.owner] /\ query.group \in TextsLike[query.group]
      BY <1>q, CatalogueAssumption
    <3>3. /\ "owner" \in DOMAIN d /\ d["owner"] = query.owner
          /\ "group" \in DOMAIN d /\ d["group"] = query.group
      BY <1>k, <2>4, <2>6, <3>1
    <3> QED BY <3>2, <3>3 DEF Holds
  <2>9. \A date \in {query.afterdate, query.beforedate} \ {NULL} :
           m["mtime"] # 0 /\ date <= MaxInt32 /\ date \in Nat
    <3> SUFFICES ASSUME NEW date \in {query.afterdate, query.beforedate} \ {NULL}
                 PROVE  m["mtime"] # 0 /\ date <= MaxInt32 /\ date \in Nat
      OBVIOUS
    <3>1. date \in Nat
      BY <1>q, QueryAssumption
    <3>2. ~(m["mtime"] = 0 \/ date > MaxInt32)
      BY <1>1, <1>7, <2>3, <2>a, <2>m DEF Misdated
    <3>3. MaxInt32 \in Nat
      BY TextAssumption
    <3> QED BY <3>1, <3>2, <3>3
  <2>10. IsAfter(m["mtime"], query) /\ IsBefore(m["mtime"], query) /\ m["mtime"] \in Nat
    <3>1. "mtime" \in Numbers
      BY DEF Numbers
    <3>2. m["mtime"] \in Nat
      BY <3>1, MetaAssumption
    <3> QED BY <1>7, <2>3, <2>a, <2>m, <3>2 DEF Asks
  <2>11. query.beforedate # NULL => "mtime" \in DOMAIN d /\ d["mtime"] <= Int32(query.beforedate)
    <3> SUFFICES ASSUME query.beforedate # NULL
                 PROVE  "mtime" \in DOMAIN d /\ d["mtime"] <= Int32(query.beforedate)
      OBVIOUS
    <3>t. PICK t \in Nat : t = m["mtime"]
      BY <2>10
    <3>b. PICK b \in Nat : b = query.beforedate /\ t # 0 /\ b <= MaxInt32
      BY <2>9, <3>t
    <3>1. t < b
      BY <2>10, <3>t, <3>b DEF IsBefore
    <3>2. Int32(b) = b
      BY <3>b DEF Int32
    <3>3. "mtime" \in DOMAIN d /\ d["mtime"] = t
      BY <1>k, <2>4, <3>t, <3>b
    <3> QED BY <3>1, <3>2, <3>3, <3>b
  <2>12. query.afterdate # NULL => "mtime" \in DOMAIN d /\ d["mtime"] >= Int32(query.afterdate)
    <3> SUFFICES ASSUME query.afterdate # NULL
                 PROVE  "mtime" \in DOMAIN d /\ d["mtime"] >= Int32(query.afterdate)
      OBVIOUS
    <3>t. PICK t \in Nat : t = m["mtime"]
      BY <2>10
    <3>b. PICK b \in Nat : b = query.afterdate /\ t # 0 /\ b <= MaxInt32
      BY <2>9, <3>t
    <3>1. t >= b
      BY <2>10, <3>t, <3>b DEF IsAfter
    <3>2. Int32(b) = b
      BY <3>b DEF Int32
    <3>3. "mtime" \in DOMAIN d /\ d["mtime"] = t
      BY <1>k, <2>4, <3>t, <3>b
    <3> QED BY <3>1, <3>2, <3>3, <3>b
  <2>13. SearchProperty(d, query)
    BY <2>7, <2>8, <2>11, <2>12 DEF SearchProperty
  <2>14. InitMetaDataFromBson(d) \in smetas
    BY <1>s, <2>1, <2>2, <2>13
  <2> QED BY <1>5, <2>4, <2>14, <2>a, <2>m
<1>8. ASSUME NEW f \in FilesReceived(smetas)
      PROVE  \E v \in DOMAIN saved :
                /\ saved[v].kept = "whole" /\ f = AsSaved(saved[v].meta)
                /\ query.filename \notin Plus => f["name"] \in TextsLike[query.filename]
  <2>d. PICK d \in Range(documents) : SearchProperty(d, query) /\ f = Received(InitMetaDataFromBson(d))
    BY <1>5, <1>s
  <2>v. PICK v \in DOMAIN saved : saved[v].kept = "whole" /\ d = InitMetaBson(Received(saved[v].meta))
    BY <1>0, <1>1 DEF DocumentsOK
  <2>m. PICK m \in Meta : m = saved[v].meta
    BY <1>0 DEF CatalogueTypeOK
  <2>1. /\ \A k \in DOMAIN d \ {"gid", "hash_list"} : d[k] = m[k]
        /\ Received(InitMetaDataFromBson(d)) = AsSaved(m)
    BY <1>1, <2>v, <2>m, DocumentRead
  <2>2. f = AsSaved(m)
    BY <2>1, <2>d
  <2>3. f["name"] = m["name"]
    BY <1>k, <2>2, AsSavedFacts
  <2>4. m["name"] \in names
    <3>1. "name" \in DOMAIN d /\ d["name"] \in names
      BY <2>d DEF SearchProperty, Holds
    <3> QED BY <1>k, <2>1, <3>1
  <2>5. query.filename \notin Plus => f["name"] \in TextsLike[query.filename]
    BY <1>0, <1>1, <2>3, <2>4 DEF NamesOK
  <2> QED BY <2>2, <2>5, <2>v, <2>m
<1>9. AskedIsListed'
  <2> SUFFICES ASSUME NEW v \in 1 .. before
               PROVE  (LET a == AsSaved(saved[v].meta) IN
                       (/\ saved[v].kept = "whole"
                        /\ \A w \in Torn : v < w
                        /\ answer.query.filename \notin Plus
                        /\ Asks(answer.query, a)
                        /\ ~Misdated(answer.query, a))
                       => a \in answer.files)'
    BY <1>2 DEF AskedIsListed
  <2>1. Asks(answer.query, AsSaved(saved[v].meta))' => Asks(query, AsSaved(saved[v].meta))
    BY <1>2, <1>6 DEF Asks, HasDate, IsAfter, IsBefore, SameUser
  <2>2. AsSaved(saved[v].meta)' = AsSaved(saved[v].meta)
    BY <1>2, <1>6
  <2>3. Misdated(query, AsSaved(saved[v].meta)) => Misdated(answer.query, AsSaved(saved[v].meta))'
    BY <1>2, <1>6 DEF Misdated
  <2> QED BY <1>2, <1>7, <2>1, <2>2, <2>3
<1>10. ListedIsSaved'
  <2> SUFFICES ASSUME NEW f \in answer'.files
               PROVE  \E v \in DOMAIN saved' :
                        /\ (saved[v].kept = "whole" /\ f = AsSaved(saved[v].meta))'
                        /\ (backend = "file" => SameUser(f, answer.query))'
                        /\ (answer.query.filename \notin Plus => f["name"] \in TextsLike[answer.query.filename])'
    BY DEF ListedIsSaved
  <2>v. PICK v \in DOMAIN saved :
                /\ saved[v].kept = "whole" /\ f = AsSaved(saved[v].meta)
                /\ query.filename \notin Plus => f["name"] \in TextsLike[query.filename]
    BY <1>2, <1>8
  <2>1. AsSaved(saved[v].meta)' = AsSaved(saved[v].meta)
    BY <1>2, <1>6
  <2> QED BY <1>1, <1>2, <2>v, <2>1
<1> QED BY <1>3, <1>9, <1>10 DEF CatalogueIInv

(* The strengthening holds at first.                                       *)
LEMMA CatalogueInitIInv == CatalogueInit => CatalogueIInv
<1> SUFFICES ASSUME CatalogueInit PROVE CatalogueIInv
  OBVIOUS
<1>1. /\ backend \in Backend /\ ready \in BOOLEAN /\ text = <<>> /\ documents = <<>> /\ saved = <<>>
      /\ query = NoQuery /\ names = {} /\ offset = 0 /\ line = <<>> /\ found = {}
      /\ answer = NoAnswer /\ before = 0 /\ queries = 0
  BY DEF CatalogueInit, Configured
<1>2. DOMAIN saved = {} /\ Len(saved) = 0 /\ Len(text) = 0 /\ Len(documents) = 0 /\ Len(line) = 0
  BY <1>1
<1>3. Torn = {} /\ Sound = {0}
  <2>1. Torn = {}
    BY <1>2 DEF Torn
  <2> QED BY <1>2, <2>1 DEF Sound
<1>4. SavedOK
  BY <1>1, <1>3 DEF SavedOK
<1>5. Len(StoredUpTo(0)) = 0 /\ StoredUpTo(0) = <<>>
  BY <1>4, StoredFacts
<1>6. FileOK
  <2>1. SubSeq(<<>>, 1, 0) = <<>>
    OBVIOUS
  <2>2. ASSUME NEW v \in Sound
        PROVE  /\ Len(StoredUpTo(v)) <= Len(text)
               /\ SubSeq(text, 1, Len(StoredUpTo(v))) = StoredUpTo(v)
    <3>1. v = 0
      BY <1>3
    <3>2. Len(StoredUpTo(v)) = 0 /\ StoredUpTo(v) = <<>>
      BY <1>5, <3>1
    <3> QED BY <1>1, <1>2, <2>1, <3>2
  <2>3. text = StoredUpTo(Len(saved))
    BY <1>1, <1>2, <1>5
  <2> QED BY <2>2, <2>3 DEF FileOK
<1>7. DocumentsOK
  <2>1. Range(<<>>) = {}
    BY DEF Range
  <2> QED BY <1>1, <1>2, <2>1 DEF DocumentsOK
<1>8. LineOK /\ FoundOK /\ NamesOK /\ AnswerOK /\ AskedIsListed /\ ListedIsSaved
  <2>1. <<>> \in Seq(Token)
    OBVIOUS
  <2> QED BY <1>1, <2>1 DEF LineOK, FoundOK, NamesOK, AnswerOK, AskedIsListed, ListedIsSaved
<1>9. CatalogueTypeOK
  <2>1. SubSeq(text, offset - Len(line) + 1, offset) = <<>>
    <3>1. SubSeq(<<>>, 0 - 0 + 1, 0) = <<>>
      OBVIOUS
    <3> QED BY <1>1, <1>2, <3>1
  <2>2. 0 \in 0 .. MaxQueries
    BY CatalogueAssumption
  <2> QED BY <1>1, <1>2, <2>1, <2>2 DEF CatalogueTypeOK
<1> QED BY <1>4, <1>6, <1>7, <1>8, <1>9 DEF CatalogueIInv

(* It holds as long as nothing changes.                                    *)
LEMMA CatalogueStutter ==
  ASSUME CatalogueIInv, UNCHANGED catalogueVars
  PROVE  CatalogueIInv'
<1>0. /\ CatalogueTypeOK /\ SavedOK /\ FileOK /\ DocumentsOK /\ LineOK /\ FoundOK /\ NamesOK
      /\ AnswerOK /\ AskedIsListed /\ ListedIsSaved
  BY DEF CatalogueIInv
<1>1. /\ backend' = backend /\ ready' = ready /\ text' = text /\ documents' = documents
      /\ saved' = saved /\ query' = query /\ names' = names /\ offset' = offset /\ line' = line
      /\ found' = found /\ answer' = answer /\ before' = before /\ queries' = queries
  BY DEF catalogueVars, storeVars, readVars
<1>2. Torn' = Torn /\ Sound' = Sound /\ \A v : StoredUpTo(v)' = StoredUpTo(v)
  BY <1>1, SavedSame
<1>3. SavedOK' /\ FileOK' /\ DocumentsOK'
  BY <1>0, <1>1, StoreSame DEF storeVars
<1>4. AnswerOK' /\ AskedIsListed' /\ ListedIsSaved'
  BY <1>0, <1>1, AnswerSame DEF storeVars
<1>5. LineBegin' = LineBegin
  BY <1>1 DEF LineBegin
<1>6. LineOK'
  BY <1>0, <1>1, <1>2, <1>5, SMTT(30) DEF LineOK
<1>7. FoundOK'
  BY <1>0, <1>1, <1>2, <1>5, SMTT(30) DEF FoundOK, ReadBack, Matches, SameUser, HasDate, IsAfter, IsBefore
<1>8. NamesOK'
  BY <1>0, <1>1 DEF NamesOK
<1>9. CatalogueTypeOK'
  BY <1>0, <1>1, <1>2 DEF CatalogueTypeOK
<1> QED BY <1>3, <1>4, <1>6, <1>7, <1>8, <1>9 DEF CatalogueIInv

(* The strengthening is an invariant: the file is the lines of the         *)
(* versions one after the other, the collection is their documents, and a  *)
(* connection has found every version whose line ends before the line it   *)
(* is reading.                                                             *)
THEOREM CatalogueIInvCorrect == CatalogueSpec => []CatalogueIInv
<1>1. CatalogueInit => CatalogueIInv
  BY CatalogueInitIInv
<1>2. CatalogueIInv /\ [CatalogueNext]_catalogueVars => CatalogueIInv'
  <2> SUFFICES ASSUME CatalogueIInv, [CatalogueNext]_catalogueVars
               PROVE  CatalogueIInv'
    OBVIOUS
  <2>1. ASSUME NEW m \in Meta, FileStoreSmeta(m) PROVE CatalogueIInv'
    BY <2>1, FileStoreSmetaStep
  <2>2. ASSUME NEW m \in Meta, MongodbStoreSmeta(m) PROVE CatalogueIInv'
    BY <2>2, MongodbStoreSmetaStep
  <2>3. ASSUME NEW q \in ClientQuery, GetAListOfFiles(q) PROVE CatalogueIInv'
    BY <2>3, GetAListOfFilesStep
  <2>4. CASE ReadOneBuffer
    BY <2>4, ReadOneBufferStep
  <2>5. CASE FileGetListOfFiles
    BY <2>5, FileGetListOfFilesStep
  <2>6. CASE MongodbGetListOfFiles
    BY <2>6, MongodbGetListOfFilesStep
  <2>7. CASE UNCHANGED catalogueVars
    BY <2>7, CatalogueStutter
  <2> QED BY <2>1, <2>2, <2>3, <2>4, <2>5, <2>6, <2>7 DEF CatalogueNext, MetaThread, Connection
<1> QED BY <1>1, <1>2, PTL DEF CatalogueSpec

(* Catalogue's type invariant: the connection stays inside the file, and   *)
(* what it keeps of a line is the end of what it has read.                 *)
THEOREM CatalogueTypeCorrect == CatalogueSpec => []CatalogueTypeOK
<1>1. CatalogueIInv => CatalogueTypeOK
  BY DEF CatalogueIInv
<1> QED BY <1>1, CatalogueIInvCorrect, PTL

(* A version stored before a query that asks for it is in the answer, with *)
(* its meta data and its hashes in their order, whatever the sizes of the  *)
(* buffers and the lines appended meanwhile (file_backend.c), and whatever *)
(* mongodb finds.                                                          *)
THEOREM AskedIsListedCorrect == CatalogueSpec => []AskedIsListed
<1>1. CatalogueIInv => AskedIsListed
  BY DEF CatalogueIInv
<1> QED BY <1>1, CatalogueIInvCorrect, PTL

(* An answer lists versions that were stored and nothing else, each with   *)
(* its own meta data, and with the file backend those of the user who      *)
(* asks.                                                                   *)
THEOREM ListedIsSavedCorrect == CatalogueSpec => []ListedIsSaved
<1>1. CatalogueIInv => ListedIsSaved
  BY DEF CatalogueIInv
<1> QED BY <1>1, CatalogueIInvCorrect, PTL
=============================================================================
