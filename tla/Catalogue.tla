----------------------------- MODULE Catalogue -----------------------------
(***************************************************************************)
(* The list of saved files. The meta data thread of the server stores the  *)
(* meta data of each version, as a line that it appends to the file of the *)
(* host or as a document; a connection answers a query of cdpfglrestore by *)
(* reading that file a buffer at a time while lines are being appended, or *)
(* by a search in the data base.                                           *)
(*                                                                         *)
(* A line may be stored in part (the number of bytes written is not looked *)
(* at), and an insertion may fail. What the data base finds is taken at    *)
(* once. The order of the list, and the option that keeps the latest       *)
(* versions only, are module Versions's: the list is a set here.           *)
(***************************************************************************)
EXTENDS Records

CONSTANTS
    Meta,       \* meta data of the versions that clients send
    ClientQuery, \* queries of cdpfglrestore
    Pattern,    \* their regular expressions, names of users and groups included
    TextsLike,  \* the texts that match a pattern, whatever the case
    Plus,       \* patterns with a '+' in their base64
    Chunk,      \* numbers of tokens that a read may return
    TornAt,     \* numbers of tokens that are stored of a line stored in part
    NoQuery,    \* the connection has nothing to do
    NoAnswer,   \* it has not answered yet
    MaxSaved,   \* bound: versions saved
    MaxTorn,    \* bound: lines stored in part
    MaxQueries  \* bound: queries

(* The times of a query are those its dates mean: 'date' is the beginning  *)
(* of a date, any time that begins so.                                     *)
ASSUME CatalogueAssumption ==
    /\ TextsLike \in [Pattern -> SUBSET Text]
    /\ Plus \subseteq Pattern
    /\ Chunk \subseteq Nat \ {0}
    /\ TornAt \subseteq Nat \ {0}
    /\ \A m \in Meta : DOMAIN m = Keys /\ m["name"] \in Text \ {Empty}
    /\ \A q \in ClientQuery :
         /\ {q.filename, q.owner, q.group} \subseteq Pattern
         /\ q.owner \in TextsLike[q.owner] /\ q.group \in TextsLike[q.group]
    /\ {MaxSaved, MaxTorn, MaxQueries} \subseteq Nat

(* The meta data that clients send and the fields of a query: the names of *)
(* users and groups have no mark in them, and nobody who asks is called    *)
(* "(null)".                                                               *)
QueryFields == {"uid", "gid", "owner", "group", "filename", "date", "afterdate", "beforedate"}

ASSUME MetaAssumption ==
    \A m \in Meta :
        /\ \A k \in Numbers : m[k] \in Nat
        /\ \A k \in {"owner", "group"} : m[k] = NULL \/ Printable(m[k])
        /\ m["link"] \in Text
        /\ m["hash_list"] \in Seq(Hash)

ASSUME QueryAssumption ==
    \A q \in ClientQuery :
        /\ q = [k \in QueryFields |-> q[k]]
        /\ {q.afterdate, q.beforedate} \subseteq Nat \cup {NULL}
        /\ NullText \notin {q.owner, q.group}

VARIABLES
    backend,    \* the backend for meta data: "file" or "mongodb"
    ready,      \* it is initialized
    text,       \* the meta data file of the host
    documents,  \* the collection of the host
    saved,      \* history: versions the server has stored, and how
    query,      \* the query that the connection answers
    names,      \* the texts that match its file name as it is received
    offset,     \* where the connection is in the file
    line,       \* the part of a line it has read
    found,      \* the versions it has found
    answer,     \* the last query answered, with what cdpfglrestore is told
    before,     \* history: versions stored when the query arrived
    queries     \* history: number of queries

storeVars     == <<backend, ready, text, documents, saved>>
readVars      == <<query, names, offset, line, found, answer, before, queries>>
catalogueVars == <<storeVars, readVars>>

(* What each backend can do; the server starts with two of them, one for   *)
(* meta data and one for data, if each method is one of either. With       *)
(* meta data in files and data in minio it starts too, and takes the       *)
(* settings of minio for those of the files: that pair is left out.        *)
Methods(aBackend) ==
    CASE aBackend = "file"    -> {"store_smeta", "get_list_of_files", "store_data",
                                  "build_needed_hash_list", "retrieve_data"}
      [] aBackend = "mongodb" -> {"store_smeta", "get_list_of_files"}
      [] aBackend = "minio"   -> {"store_data", "build_needed_hash_list", "retrieve_data"}

CheckBackendsValid(meta, data) == Methods("file") \subseteq Methods(meta) \cup Methods(data)

Backend == {"file", "mongodb"}

DataBackend(meta) == {meta} \cup (IF meta = "file" THEN {} ELSE {"file", "minio"})

(* read_from_group_mongodb_backend: without a user, a key and a name of    *)
(* data base the backend is not initialized.                               *)
Configured == IF backend = "file" THEN {TRUE} ELSE BOOLEAN

CatalogueInit ==
    /\ backend \in Backend
    /\ \E data \in DataBackend(backend) : CheckBackendsValid(backend, data)
    /\ ready \in Configured
    /\ text = <<>>
    /\ documents = <<>>
    /\ saved = <<>>
    /\ query = NoQuery
    /\ names = {}
    /\ offset = 0
    /\ line = <<>>
    /\ found = {}
    /\ answer = NoAnswer
    /\ before = 0
    /\ queries = 0

-----------------------------------------------------------------------------
(* The meta data thread.                                                   *)

(* What it takes out of its queue.                                         *)
Received(m) == FillsServerMetaData(ConvertMetaDataToJson(m))

Torn == {v \in DOMAIN saved : saved[v].kept = "torn"}

Saves(m, kept) ==
    /\ Len(saved) < MaxSaved
    /\ saved' = Append(saved, [meta |-> m, kept |-> kept])

(* Mutant: the file is written again instead of being appended to.         *)
FileStoreSmetaReplaced(m) ==
    /\ backend = "file"
    /\ text' = Line(Received(m))
    /\ Saves(m, "whole")
    /\ UNCHANGED <<backend, ready, documents, readVars>>

FileStoreSmeta(m) ==
    /\ backend = "file"
    /\ \/ /\ text' = text \o Line(Received(m))
          /\ Saves(m, "whole")
       \/ /\ Cardinality(Torn) < MaxTorn
          /\ \E n \in TornAt \cap 1 .. Len(Line(Received(m))) - 1 :
                text' = text \o SubSeq(Line(Received(m)), 1, n)
          /\ Saves(m, "torn")
       \/ UNCHANGED text /\ Saves(m, "lost")
    /\ UNCHANGED <<backend, ready, documents, readVars>>

MongodbStoreSmeta(m) ==
    /\ backend = "mongodb"
    /\ \/ /\ ready
          /\ documents' = Append(documents, InitMetaBson(Received(m)))
          /\ Saves(m, "whole")
       \/ UNCHANGED documents /\ Saves(m, "lost")
    /\ UNCHANGED <<backend, ready, text, readVars>>

-----------------------------------------------------------------------------
(* The connection.                                                         *)

(* The request has the fields of the query that are not NULL.              *)
MakeRequest(q) == [k \in {k \in DOMAIN q : q[k] # NULL} |-> q[k]]

(* The query of the server has all the fields again.                       *)
InitQuery(request) ==
    [k \in QueryFields |-> IF k \in DOMAIN request THEN request[k] ELSE NULL]

(* The file name goes through an URL, where a '+' is a space: it is not    *)
(* the same base64 that is decoded.                                        *)
ArgumentValue(pattern) ==
    IF pattern \in Plus THEN SUBSET {m["name"] : m \in Meta} ELSE {TextsLike[pattern]}

GetAListOfFiles(q) ==
    /\ query = NoQuery
    /\ queries < MaxQueries
    /\ queries' = queries + 1
    /\ query' = InitQuery(MakeRequest(q))
    /\ names' \in ArgumentValue(q.filename)
    /\ offset' = 0
    /\ line' = <<>>
    /\ found' = {}
    /\ answer' = NoAnswer
    /\ before' = Len(saved)
    /\ UNCHANGED storeVars

(* compare_mtime_to_date, compare_after_before_date                        *)
HasDate(time, q) == q.date # NULL => time \in q.date
IsAfter(time, q) == q.afterdate # NULL => time >= q.afterdate
IsBefore(time, q) == q.beforedate # NULL => time < q.beforedate

SameUser(m, q) ==
    /\ m["owner"] = q.owner /\ m["group"] = q.group
    /\ m["uid"] = q.uid /\ m["gid"] = q.gid

Matches(m, q) ==
    /\ m["name"] \in names
    /\ HasDate(m["mtime"], q) /\ IsAfter(m["mtime"], q) /\ IsBefore(m["mtime"], q)
    /\ SameUser(m, q)

(* extract_from_line: the versions a line is about, one or none.           *)
ExtractFromLine(aLine) == {m \in {ReadLine(aLine)} : Matches(m, query)}

Count(tokens, mark) == Cardinality({i \in DOMAIN tokens : tokens[i] = mark})
InString(tokens) == Count(tokens, Quote) % 2 = 1
Commas(tokens) ==
    Cardinality({i \in DOMAIN tokens : tokens[i] = Comma /\ ~InString(SubSeq(tokens, 1, i))})

(* extract_one_line_from_buffer: a line ends at a new line that is not     *)
(* between quotes and comes after 12 commas that are not either.           *)
Ends(aLine, token) == token = NewLine /\ ~InString(aLine) /\ Commas(aLine) >= 12

(* The lines of a sequence of tokens, and what is left after the last one. *)
EndAfter(tokens, i) ==
    Min({j \in i + 1 .. Len(tokens) : Ends(SubSeq(tokens, i + 1, j - 1), tokens[j])}
        \cup {Len(tokens) + 1})

LinesOf(tokens) ==
    LET end[k \in 0 .. Count(tokens, NewLine) + 1] ==
            IF k = 0 THEN 0 ELSE EndAfter(tokens, end[k - 1])
        nbLines == Max({k \in DOMAIN end : end[k] <= Len(tokens)})
    IN  [lines |-> {SubSeq(tokens, end[k - 1] + 1, end[k] - 1) : k \in 1 .. nbLines},
         rest  |-> SubSeq(tokens, end[nbLines] + 1, Len(tokens))]

(* Mutant: a line begins with each buffer.                                 *)
ExtractLinesOfBuffer(buffer) == LinesOf(buffer)

(* A line may begin in one buffer and end in another.                      *)
ExtractLines(buffer) == LinesOf(line \o buffer)

(* convert_meta_data_list_to_json_array, extract_smeta_gslist: what the    *)
(* program makes of the answer.                                            *)
FilesReceived(smetas) == {FillsServerMetaData(ConvertMetaDataToJson(m)) : m \in smetas}

Answer(smetas) ==
    /\ answer' = [query |-> query, before |-> before, files |-> FilesReceived(smetas)]
    /\ query' = NoQuery
    /\ names' = {}
    /\ offset' = 0
    /\ line' = <<>>
    /\ found' = {}
    /\ before' = 0
    /\ UNCHANGED <<storeVars, queries>>

(* read_one_buffer, and the lines that end in the buffer.                  *)
ReadOneBuffer ==
    /\ backend = "file"
    /\ query # NoQuery
    /\ \E n \in Chunk :
        LET end == Min({offset + n, Len(text)})
            read == ExtractLines(SubSeq(text, offset + 1, end))
        IN  /\ offset < end
            /\ offset' = end
            /\ line' = read.rest
            /\ found' = found \cup UNION {ExtractFromLine(aLine) : aLine \in read.lines}
    /\ UNCHANGED <<storeVars, query, names, answer, before, queries>>

(* Nothing more is read: what is left of a line is dropped.                *)
FileGetListOfFiles ==
    /\ backend = "file"
    /\ query # NoQuery
    /\ offset = Len(text)
    /\ Answer(found)

(* init_search_property_bson: the names of the user and of his group are   *)
(* regular expressions, uid, gid and the beginning of a date are not       *)
(* looked at, and the dates are kept in 32 bits.                           *)
Holds(d, k, T) == k \in DOMAIN d /\ d[k] \in T

SearchProperty(d, q) ==
    /\ Holds(d, "name", names)
    /\ q.beforedate # NULL => "mtime" \in DOMAIN d /\ d["mtime"] <= Int32(q.beforedate)
    /\ q.afterdate # NULL => "mtime" \in DOMAIN d /\ d["mtime"] >= Int32(q.afterdate)
    /\ Holds(d, "owner", TextsLike[q.owner])
    /\ Holds(d, "group", TextsLike[q.group])

(* Without a backend the answer is an error, which has no list.            *)
MongodbGetListOfFiles ==
    /\ backend = "mongodb"
    /\ query # NoQuery
    /\ Answer(IF ready
              THEN {InitMetaDataFromBson(d) :
                       d \in {d \in Range(documents) : SearchProperty(d, query)}}
              ELSE {})

MetaThread == \E m \in Meta : FileStoreSmeta(m) \/ MongodbStoreSmeta(m)

Connection ==
    \/ \E q \in ClientQuery : GetAListOfFiles(q)
    \/ ReadOneBuffer
    \/ FileGetListOfFiles
    \/ MongodbGetListOfFiles

CatalogueNext == MetaThread \/ Connection

CatalogueSpec == CatalogueInit /\ [][CatalogueNext]_catalogueVars

-----------------------------------------------------------------------------
(* The types of the variables; the file and the collection hold what is    *)
(* said to have been stored, and the connection is inside the file.        *)
CatalogueTypeOK ==
    /\ backend \in Backend
    /\ ready \in BOOLEAN
    /\ backend = "file" => documents = <<>>
    /\ backend = "mongodb" => text = <<>>
    /\ \A v \in DOMAIN saved :
         saved[v].meta \in Meta /\ saved[v].kept \in {"whole", "torn", "lost"}
    /\ Len(documents) <= Len(saved)
    /\ query \in ClientQuery \cup {NoQuery}
    /\ offset \in 0 .. Len(text)
    /\ Len(line) <= offset
    /\ Torn = {} => line = SubSeq(text, offset - Len(line) + 1, offset)
    /\ \A m \in found : DOMAIN m = Keys /\ m["name"] \in names
    /\ before \in 0 .. Len(saved)
    /\ queries \in 0 .. MaxQueries

(* packing.c:390 inserts uid under "gid", and mongodb_backend.c:293 stores *)
(* the first half of the hashes.                                           *)
AsSaved(m) ==
    [m EXCEPT !["gid"] = m["uid"],
              !["hash_list"] = IF backend = "mongodb"
                               THEN SubSeq(@, 1, (Len(@) + 1) \div 2) ELSE @]

(* What a query asks for: the files of the user, of these names and dates. *)
Asks(q, m) ==
    /\ m["name"] \in TextsLike[q.filename]
    /\ HasDate(m["mtime"], q) /\ IsAfter(m["mtime"], q) /\ IsBefore(m["mtime"], q)
    /\ SameUser(m, q)

(* The dates of a query that mongodb reads as others, or that a document   *)
(* without a time is not compared to.                                      *)
Misdated(q, m) ==
    /\ backend = "mongodb"
    /\ \E date \in {q.afterdate, q.beforedate} \ {NULL} : m["mtime"] = 0 \/ date > MaxInt32

(* A version stored before a query that asks for it is in its answer, with *)
(* its meta data and its hashes in their order, whatever the buffers and   *)
(* the lines appended meanwhile; except after a line stored in part.       *)
AskedIsListed ==
    answer # NoAnswer =>
        \A v \in 1 .. answer.before :
            LET m == AsSaved(saved[v].meta) IN
            (/\ saved[v].kept = "whole"
             /\ \A w \in Torn : v < w
             /\ answer.query.filename \notin Plus
             /\ Asks(answer.query, m)
             /\ ~Misdated(answer.query, m))
            => m \in answer.files

(* An answer lists nothing but versions that were stored, each with its    *)
(* own meta data and hashes; with the file backend they are those of the   *)
(* user who asks; unless a line was stored in part.                        *)
ListedIsSaved ==
    answer # NoAnswer /\ Torn = {} =>
        \A f \in answer.files : \E v \in DOMAIN saved :
            /\ saved[v].kept = "whole"
            /\ f = AsSaved(saved[v].meta)
            /\ backend = "file" => SameUser(f, answer.query)
            /\ answer.query.filename \notin Plus => f["name"] \in TextsLike[answer.query.filename]
-----------------------------------------------------------------------------
(* The strengthening with which the invariants are inductive. The text is  *)
(* that of the lines of the versions, one after the other, up to the first *)
(* line that was stored in part; the connection has found the versions     *)
(* whose lines end before the line it is reading.                          *)
Token == Nat \cup Text \cup Mark \cup Hash \cup Range(Encoded)

StoredLine(v) == IF saved[v].kept = "whole" THEN Line(Received(saved[v].meta)) ELSE <<>>

StoredUpTo(v) == FlattenSeq([w \in 1 .. v |-> StoredLine(w)])

Sound == {v \in 0 .. Len(saved) : \A w \in Torn : v < w}

(* What is read of the line of a version: the printf of NULL stays.        *)
ReadBack(m) ==
    [m EXCEPT !["gid"] = m["uid"],
              !["owner"] = IF @ = NULL THEN NullText ELSE @,
              !["group"] = IF @ = NULL THEN NullText ELSE @]

SavedOK ==
    /\ saved \in Seq([meta : Meta, kept : {"whole", "torn", "lost"}])
    /\ text \in Seq(Token)
    /\ documents \in Seq({InitMetaBson(Received(m)) : m \in Meta})
    /\ backend = "mongodb" => Torn = {}

FileOK ==
    backend = "file" =>
        /\ \A v \in Sound : /\ Len(StoredUpTo(v)) <= Len(text)
                            /\ SubSeq(text, 1, Len(StoredUpTo(v))) = StoredUpTo(v)
        /\ Torn = {} => text = StoredUpTo(Len(saved))

DocumentsOK ==
    backend = "mongodb" =>
        /\ Range(documents) = {InitMetaBson(Received(saved[v].meta)) :
                                  v \in {v \in DOMAIN saved : saved[v].kept = "whole"}}
        /\ ~ready => documents = <<>>

LineBegin == offset - Len(line)

LineOK ==
    /\ line \in Seq(Token)
    /\ backend = "file" /\ query # NoQuery =>
         /\ line = SubSeq(text, LineBegin + 1, offset)
         /\ \A v \in Sound :
               Len(StoredUpTo(v)) <= offset => Len(StoredUpTo(v)) <= LineBegin
         /\ \/ \E v \in Sound : LineBegin = Len(StoredUpTo(v))
            \/ Torn # {} /\ \A v \in Sound : Len(StoredUpTo(v)) <= LineBegin

FoundOK ==
    backend = "file" /\ query # NoQuery =>
        /\ \A v \in Sound \ {0} :
              LET m == ReadBack(saved[v].meta) IN
              /\ saved[v].kept = "whole"
              /\ Len(StoredUpTo(v)) <= LineBegin
              /\ Matches(m, query)
              => m \in found
        /\ Torn = {} =>
              \A m \in found :
                 /\ Matches(m, query)
                 /\ \E v \in DOMAIN saved : saved[v].kept = "whole" /\ m = ReadBack(saved[v].meta)

NamesOK ==
    query # NoQuery /\ query.filename \notin Plus => names = TextsLike[query.filename]

AnswerOK ==
    answer # NoAnswer => answer.query \in ClientQuery /\ answer.before \in 0 .. Len(saved)

CatalogueIInv ==
    /\ CatalogueTypeOK
    /\ SavedOK
    /\ FileOK
    /\ DocumentsOK
    /\ LineOK
    /\ FoundOK
    /\ NamesOK
    /\ AnswerOK
    /\ AskedIsListed
    /\ ListedIsSaved
=============================================================================
