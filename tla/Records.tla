------------------------------ MODULE Records ------------------------------
(***************************************************************************)
(* The meta data of a version of a file, and what becomes of them on their *)
(* way: a JSON object between the programs (packing.c, unpacking.c), a     *)
(* line of text on the disk of the server (file_backend.c, hashs.c), a     *)
(* document in a data base (mongodb_backend.c).                            *)
(*                                                                         *)
(* A line is a sequence of tokens: numbers, the marks that the reader of   *)
(* lines looks for, and what is between them. A comma stands for itself    *)
(* and the space after it; a hash stands for its base64 or hexadecimal     *)
(* form, which has no mark in it.                                          *)
(***************************************************************************)
EXTENDS Integers, SequencesExt

CONSTANTS
    Text,      \* names, targets of links, names of users and groups
    Empty,     \* the empty text
    NULL,      \* no text
    NullText,  \* what printf makes of it, "(null)"
    Garbled,   \* what is not the base64 of a text, or not a text
    Chars,     \* the tokens of a text
    Encoded,   \* its base64, one token
    Hash,      \* hashes of blocks
    Octets,    \* the octets of each hash
    Comma, Quote, NewLine,
    MaxInt32   \* the last time that 32 bits can hold

Mark == {Comma, Quote, NewLine}

ASSUME TextAssumption ==
    /\ {Empty, NullText} \subseteq Text
    /\ {NULL, Garbled} \cap Text = {}
    /\ Chars \in [Text -> Seq(Text \cup Mark)]
    /\ Chars[Empty] = <<>> /\ Chars[NullText] = <<NullText>>
    /\ DOMAIN Encoded = Text
    /\ \A t, u \in Text : Encoded[t] \notin Mark /\ (Encoded[t] = Encoded[u] => t = u)
    /\ \A t, u \in Text : Chars[t] = Chars[u] => t = u
    /\ Octets \in [Hash -> Seq(0 .. 255)]
    /\ \A g, h \in Hash : Len(Octets[g]) = Len(Octets[h]) /\ (Octets[g] = Octets[h] => g = h)
    /\ MaxInt32 \in Nat

(* The tokens of a line can be told from each other.                       *)
ASSUME TokenAssumption ==
    /\ Comma # Quote /\ Quote # NewLine /\ NewLine # Comma
    /\ Mark \cap (Text \cup Hash) = {}
    /\ \A token \in Mark \cup Text \cup Hash \cup {NULL} \cup Range(Encoded) : token \notin Nat
    /\ NULL \notin Seq(Hash)

(* A text without a mark.                                                  *)
Printable(t) == t \in Text /\ Chars[t] \in Seq(Text)

Numbers == {"filetype", "inode", "mode", "atime", "ctime", "mtime", "fsize", "uid", "gid"}
Strings == {"owner", "group", "name", "link"}
Keys    == Numbers \cup Strings \cup {"hash_list"}

-----------------------------------------------------------------------------
(* Lists are built by prepending, then reversed.                           *)
Prepended(s) == FoldLeft(LAMBDA list, x : <<x>> \o list, <<>>, s)

ExtractGlist(array) == Reverse(Prepended(array))

(* JSON: a text that is NULL is left out, and what is not there is NULL.   *)
Insert(m) == [k \in {k \in Keys : m[k] # NULL} |-> m[k]]

GetFromJson(json, k) == IF k \in DOMAIN json THEN json[k] ELSE NULL

(* The hashes, appended one after the other.                              *)
ConvertHashListToJson(hashList) == FoldLeft(Append, <<>>, hashList)

(* convert_meta_data_to_json: uid is inserted under "gid" too.             *)
ConvertMetaDataToJson(m) ==
    Insert([m EXCEPT !["gid"] = m["uid"],
                     !["hash_list"] = ConvertHashListToJson(@)])

FillsServerMetaData(json) ==
    [k \in Keys |-> IF k = "hash_list" THEN ExtractGlist(json[k]) ELSE GetFromJson(json, k)]

-----------------------------------------------------------------------------
(* A line of the meta data file.                                           *)

EncodeToBase64(t) == IF t \in {NULL, Empty} THEN <<>> ELSE <<Encoded[t]>>

Printed(t) == IF t = NULL THEN Chars[NullText] ELSE Chars[t]

Quoted(tokens) == <<Quote>> \o tokens \o <<Quote>>

Joined(fields) ==
    FlattenSeq([i \in DOMAIN fields |-> IF i = 1 THEN fields[1] ELSE <<Comma>> \o fields[i]])

ConvertHashDataList(hashList) == [i \in DOMAIN hashList |-> Quoted(<<hashList[i]>>)]

Line(m) ==
    Joined(<< <<m["filetype"]>>, <<m["inode"]>>, <<m["mode"]>>, <<m["atime"]>>,
              <<m["ctime"]>>, <<m["mtime"]>>, <<m["fsize"]>>,
              Quoted(Printed(m["owner"])), Quoted(Printed(m["group"])),
              <<m["uid"]>>, <<m["gid"]>>,
              Quoted(EncodeToBase64(m["name"])), Quoted(EncodeToBase64(m["link"]))>>
           \o ConvertHashDataList(m["hash_list"]))
    \o <<NewLine>>

(* g_strsplit: at most n parts, the last one being the rest.               *)
Split(tokens, n) ==
    LET commas == {i \in DOMAIN tokens : tokens[i] = Comma}
        Rank(i) == Cardinality({j \in commas : j <= i})
        nbCuts == Min({n - 1, Cardinality(commas)})
        Cut(k) == CASE k = 0 -> 0
                    [] k \in 1 .. nbCuts -> CHOOSE i \in commas : Rank(i) = k
                    [] k > nbCuts -> Len(tokens) + 1
    IN  [k \in 1 .. nbCuts + 1 |-> SubSeq(tokens, Cut(k - 1) + 1, Cut(k) - 1)]

(* What is between the first and the last character; the number that a     *)
(* field holds, and 0 if it holds something else.                          *)
SubstringFromString(field) == SubSeq(field, 2, Len(field) - 1)

UintFromString(field) ==
    IF Len(field) = 1 /\ field[1] \notin Mark \cup Text \cup Hash \cup Range(Encoded)
    THEN field[1] ELSE 0

TextOf(tokens) ==
    IF \E t \in Text : Chars[t] = tokens
    THEN CHOOSE t \in Text : Chars[t] = tokens ELSE Garbled

DecodeBase64(tokens) ==
    CASE tokens = <<>> -> Empty
      [] \E t \in Text : tokens = <<Encoded[t]>> ->
            CHOOSE t \in Text : tokens = <<Encoded[t]>>
      [] OTHER -> Garbled

DecodeHash(tokens) == IF Len(tokens) = 1 /\ tokens[1] \in Hash THEN tokens[1] ELSE Garbled

HashsOf(string) ==
    LET hashs == Split(string, Len(string) + 1)
    IN  [i \in DOMAIN hashs |-> DecodeHash(SubstringFromString(hashs[i]))]

(* Mutant: the list is not reversed.                                       *)
MakeHashDataListBackwards(string) == Prepended(HashsOf(string))

MakeHashDataList(string) == Reverse(Prepended(HashsOf(string)))

(* extract_from_line: what is read of a line. It has 13 fields, and the    *)
(* hashes in a 14th one if there are any.                                  *)
ReadLine(line) ==
    LET params == Split(line, 14)
        U(i) == UintFromString(params[i + 1])
        S(i) == SubstringFromString(params[i + 1])
        hashList == IF Len(params) = 14 THEN MakeHashDataList(params[14]) ELSE <<>>
    IN  [k \in Keys |->
           CASE k = "filetype" -> U(0) [] k = "inode" -> U(1) [] k = "mode" -> U(2)
             [] k = "atime" -> U(3) [] k = "ctime" -> U(4) [] k = "mtime" -> U(5)
             [] k = "fsize" -> U(6) [] k = "uid" -> U(9) [] k = "gid" -> U(10)
             [] k = "owner" -> TextOf(S(7)) [] k = "group" -> TextOf(S(8))
             [] k = "name" -> DecodeBase64(S(11)) [] k = "link" -> DecodeBase64(S(12))
             [] k = "hash_list" -> hashList]

-----------------------------------------------------------------------------
(* A document of mongodb. A number that is 0, a text that is NULL and an   *)
(* empty list are left out.                                                *)
Undefined(k, m) ==
    CASE k \in Numbers -> m[k] = 0
      [] k \in Strings -> m[k] = NULL
      [] k = "hash_list" -> m[k] = <<>>

Digit == <<"0", "1", "2", "3", "4", "5", "6", "7", "8", "9", "a", "b", "c", "d", "e", "f">>

(* hash_to_string: two hexadecimal digits for an octet.                    *)
HashToString(h) ==
    FlattenSeq([i \in DOMAIN Octets[h] |->
                  <<Digit[(Octets[h][i] \div 16) + 1], Digit[(Octets[h][i] % 16) + 1]>>])

IntValue(char) ==
    IF char \in Range(Digit) THEN CHOOSE n \in 0 .. 15 : Digit[n + 1] = char ELSE 0

StringToHash(string) ==
    LET octets == [i \in 1 .. Len(string) \div 2 |->
                     IntValue(string[2 * i - 1]) * 16 + IntValue(string[2 * i])]
    IN  IF \E h \in Hash : Octets[h] = octets
        THEN CHOOSE h \in Hash : Octets[h] = octets ELSE Garbled

(* The loop stops when its index reaches the length of what is left of the *)
(* list, that is in its middle.                                            *)
AddListValuesToBson(list) ==
    [i \in {i \in DOMAIN list : i - 1 < Len(list) - (i - 1)} |-> HashToString(list[i])]

InitMetaBson(m) ==
    [k \in {k \in Keys : ~Undefined(k, m)} |->
        IF k = "hash_list" THEN AddListValuesToBson(m[k]) ELSE m[k]]

InitMetaDataFromBson(document) ==
    [k \in Keys |->
        CASE k \in DOMAIN document /\ k # "hash_list" -> document[k]
          [] k \in DOMAIN document /\ k = "hash_list" ->
                Reverse(Prepended([i \in DOMAIN document[k] |-> StringToHash(document[k][i])]))
          [] k \in Numbers \ DOMAIN document -> 0
          [] k \in Strings \ DOMAIN document -> NULL
          [] OTHER -> <<>>]

(* A time kept in a gint32.                                                *)
Int32(time) == IF time <= MaxInt32 THEN time ELSE time - 2 * (MaxInt32 + 1)
=============================================================================
