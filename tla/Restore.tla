------------------------------ MODULE Restore ------------------------------
(***************************************************************************)
(* The way out: cdpfglrestore writes one file back, asking the server for  *)
(* its blocks by batches (restore.c, restore_data_to_stream). A thread of  *)
(* the server reads each block of a batch, in several steps, from the      *)
(* files that data_thread may be writing at the same time (server.c,       *)
(* get_data_from_a_list_of_hashs; file_backend.c, file_retrieve_data), and *)
(* answers with their concatenation.                                       *)
(*                                                                         *)
(* The server is Ingest: its clients go on saving while a file is restored.*)
(* What matters is when the restored file is the one that was saved, since *)
(* neither side compares what it reads with the hashes it has.             *)
(***************************************************************************)
EXTENDS Integers, SequencesExt

CONSTANTS
    Conn, Meta, Hash, NoBlock, MaxArray,          \* see Ingest
    MaxRequests, MaxCrashes, MaxFaults,           \* see Ingest
    Content,  \* the hashes of the blocks of each file
    NoFile,   \* no file was chosen yet
    Batch,    \* calculate_max_number_of_hashs: hashes in one request
    MaxTroubles  \* bound: stops, failed writes and misread blocks together

VARIABLES
    conn, metaQ, dataQ, storer, block, lines, partial, data, dotmeta,
    vouched, harmed, crashes, faults, requests,
    file,     \* the file being restored
    list,     \* hash_extract->hash_list: hashes not asked for yet
    out,      \* what was written to the file
    printed,  \* cdpfglrestore printed an error
    reader,   \* where the thread of the GET request is
    header,   \* header_hdl: hashes it has still to read
    cmptype,  \* of the block it reads, according to the '.meta' file
    bytes,    \* what it has of the block's file
    buffer,   \* final_buffer
    unread,   \* history: blocks left out, or not uncompressed, because a file
              \* of theirs that is there could not be read
    unsized,  \* history: blocks whose '.meta' file gave no length
    sound     \* history: the blocks of file could be given back when it was
              \* chosen, and were not Disturbed since

S == INSTANCE Ingest

ASSUME ConstantsAssumption ==
    /\ S!ConstantsAssumption
    /\ Content \in [Meta -> Seq(Hash)]
    /\ NoFile \notin Meta
    /\ Batch \in Nat \ {0}
    /\ MaxTroubles \in Nat

serverVars  == <<conn, metaQ, dataQ, storer, block, lines, partial, data, dotmeta,
                 vouched, harmed, crashes, faults, requests>>
programVars == <<file, list, out, printed>>
readerVars  == <<reader, header, cmptype, bytes, buffer>>
misreadVars == <<unread, unsized>>
vars        == <<serverVars, programVars, readerVars, misreadVars, sound>>

(* A piece of an answer or of the restored file is a block, bytes that are *)
(* none, or no bytes at all, in the place of a block that is left out.     *)
Garbage == "garbage"
LeftOut == "left out"

Init ==
    /\ S!Init
    /\ file = NoFile
    /\ list = <<>>
    /\ out = <<>>
    /\ printed = FALSE
    /\ reader = "none"
    /\ header = <<>>
    /\ cmptype = "none"
    /\ bytes = "absent"
    /\ buffer = <<>>
    /\ unread = {}
    /\ unsized = {}
    /\ sound = FALSE

-----------------------------------------------------------------------------
(* cdpfglrestore.                                                          *)

NoBlockRead == cmptype' = "none" /\ bytes' = "absent"

(* get_files_from_server and create_file: the user chooses a file the      *)
(* server has a line for.                                                  *)
CreateFile(m) ==
    /\ file = NoFile
    /\ m \in lines
    /\ file' = m
    /\ list' = Content[m]
    /\ UNCHANGED <<serverVars, out, printed, readerVars, misreadVars>>

(* Mutant: the batch stays in the list.                                    *)
GetHashArrayAgain ==
    /\ reader = "none"
    /\ list # <<>>
    /\ header' = SubSeq(list, 1, IF Len(list) < Batch THEN Len(list) ELSE Batch)
    /\ reader' = "cmptype"
    /\ buffer' = <<>>
    /\ UNCHANGED <<serverVars, programVars, cmptype, bytes, misreadVars>>

(* create_x_get_hash_array_http_header takes the next hashes, get_url      *)
(* sends them, get_data_from_a_list_of_hashs begins.                       *)
GetHashArray ==
    /\ reader = "none"
    /\ list # <<>>
    /\ header' = SubSeq(list, 1, IF Len(list) < Batch THEN Len(list) ELSE Batch)
    /\ list' = SubSeq(list, Batch + 1, Len(list))
    /\ reader' = "cmptype"
    /\ buffer' = <<>>
    /\ UNCHANGED <<serverVars, file, out, printed, cmptype, bytes, misreadVars>>

(* The request is over, for the program and for the thread of the server.  *)
EndOfGet ==
    /\ reader' = "none"
    /\ header' = <<>>
    /\ buffer' = <<>>
    /\ NoBlockRead

(* The answer is written to the file. A write that fails is not noticed.   *)
WriteAnswer ==
    /\ reader = "cmptype"
    /\ header = <<>>
    /\ EndOfGet
    /\ \/ out' = out \o buffer /\ UNCHANGED <<harmed, faults>>
       \/ UNCHANGED out /\ S!Fault(file)
    /\ UNCHANGED <<conn, metaQ, dataQ, storer, block, lines, partial, data, dotmeta,
                   vouched, crashes, requests, file, list, printed, misreadVars>>

(* get_url fails: an error is printed, and the next batch is asked for.    *)
GetFails ==
    /\ reader # "none"
    /\ EndOfGet
    /\ printed' = TRUE
    /\ UNCHANGED <<serverVars, file, list, out, misreadVars>>

-----------------------------------------------------------------------------
(* The thread of the GET request: one block is read.                       *)

(* A read of a block that fails is printed by the server, if at all; the   *)
(* program is not told.                                                    *)
Misread(ds, ls) ==
    /\ unread' = unread \cup ds
    /\ unsized' = unsized \cup ls

(* get_cmptype_from_file_meta, first thing in file_retrieve_data: a '.meta'*)
(* file that can not be loaded is as good as none.                         *)
ReadCmpType ==
    /\ reader = "cmptype"
    /\ header # <<>>
    /\ \/ cmptype' = S!StoredCmpType(Head(header)) /\ UNCHANGED misreadVars
       \/ cmptype' = "none" /\ Misread({Head(header)}, {})
    /\ reader' = "open"
    /\ UNCHANGED <<serverVars, programVars, header, bytes, buffer>>

NextHash ==
    /\ header' = Tail(header)
    /\ reader' = "cmptype"
    /\ NoBlockRead

(* file_retrieve_data gives NULL: get_data_from_a_list_of_hashs goes on    *)
(* with the next hash.                                                     *)
LeaveOut ==
    /\ buffer' = Append(buffer, LeftOut)
    /\ NextHash

(* Mutant: the block is read whether or not its file could be opened.      *)
OpenBlockUnchecked ==
    /\ reader = "open"
    /\ bytes' = data[Head(header)]
    /\ reader' = "read"
    /\ UNCHANGED <<serverVars, programVars, cmptype, header, buffer, misreadVars>>

(* g_file_read. A block that has no file, or whose file can not be opened, *)
(* is left out of the answer.                                              *)
OpenBlock ==
    /\ reader = "open"
    /\ \/ /\ S!Exists(Head(header))
          /\ bytes' = data[Head(header)]
          /\ reader' = "read"
          /\ UNCHANGED <<cmptype, header, buffer, misreadVars>>
       \/ /\ ~S!Exists(Head(header))
          /\ LeaveOut
          /\ UNCHANGED misreadVars
       \/ LeaveOut /\ Misread({Head(header)}, {})
    /\ UNCHANGED <<serverVars, programVars>>

(* get_file_size, which looks for the file by its name again, and one read *)
(* of that many bytes. The open file is the one that was there unless      *)
(* data_thread gives another one its name; the size of that one may cut    *)
(* what is read. A file that was empty may have been written since. The    *)
(* read may fail; or get_uncmplen_from_file_meta, and zlib takes data of   *)
(* a length of 0 as it takes data that are cut.                            *)
ReadBlock ==
    LET now == data[Head(header)]
    IN  /\ reader = "read"
        /\ \/ /\ bytes' \in CASE bytes = now    -> {bytes}
                              [] bytes = "torn" -> {bytes, now}
                              [] OTHER          -> {bytes, "torn"}
              /\ reader' = "concat"
              /\ UNCHANGED <<header, cmptype, buffer, misreadVars>>
           \/ LeaveOut /\ Misread({Head(header)}, {})
           \/ /\ cmptype = "zlib"
              /\ bytes' = "torn"
              /\ reader' = "concat"
              /\ Misread({}, {Head(header)})
              /\ UNCHANGED <<header, cmptype, buffer>>
        /\ UNCHANGED <<serverVars, programVars>>

Uncompressed == cmptype = "zlib" => bytes = "zlib"

(* Mutant: a block is followed by what was read before it.                 *)
ConcatReversed ==
    /\ reader = "concat"
    /\ Uncompressed
    /\ buffer' = IF bytes = cmptype
                 THEN <<Head(header)>> \o buffer ELSE <<Garbage>> \o buffer
    /\ NextHash
    /\ UNCHANGED <<serverVars, programVars, misreadVars>>

(* concat_buffer. Bytes compressed otherwise than '.meta' said are taken   *)
(* as they are.                                                            *)
Concat ==
    /\ reader = "concat"
    /\ Uncompressed
    /\ buffer' = Append(buffer, IF bytes = cmptype THEN Head(header) ELSE Garbage)
    /\ NextHash
    /\ UNCHANGED <<serverVars, programVars, misreadVars>>

(* uncompress_buffer fails. zlib_uncompress_buffer has freed the data that *)
(* free_hash_data_t frees again, and final_buffer is replaced by the       *)
(* 'concat' of the block before, which is freed too: the server stops, or  *)
(* it goes on with whatever these buffers have become.                     *)
UncompressFails ==
    /\ reader = "concat"
    /\ ~Uncompressed
    /\ \/ /\ buffer' = IF ToSet(buffer) \subseteq {LeftOut} THEN buffer ELSE <<Garbage>>
          /\ NextHash
          /\ UNCHANGED <<serverVars, printed>>
       \/ /\ S!Restart
          /\ EndOfGet
          /\ printed' = TRUE
    /\ UNCHANGED <<file, list, out, misreadVars>>

RetrieveData ==
    ReadCmpType \/ OpenBlock \/ ReadBlock \/ Concat \/ UncompressFails

-----------------------------------------------------------------------------
(* The server goes on with its clients.                                    *)

(* The posts of clients that change the store. A client posts the meta     *)
(* data of a file, once, before or after its blocks; these are stored      *)
(* again when several clients were asked for them.                         *)
Post(c) ==
    \/ \E m \in Meta \ vouched : S!Receive(c, S!MetaRequest(m, <<>>))
    \/ \E bs \in S!Arrays(S!Block) :
        /\ IsInjective(bs)
        /\ \A i \in DOMAIN bs : bs[i].cmp = bs[1].cmp
        /\ S!Receive(c, S!DataArrayRequest(bs))

Server ==
    /\ \/ \E c \in Conn : Post(c) \/ S!Handler(c) \/ S!CreateResponse(c)
       \/ S!StoreSmeta
       \/ S!DataThread
    /\ UNCHANGED <<programVars, readerVars, misreadVars>>

(* A stop of the server cuts the GET request.                              *)
Restart ==
    /\ S!Restart
    /\ EndOfGet
    /\ printed' = (printed \/ reader # "none")
    /\ UNCHANGED <<file, list, out, misreadVars>>

Program == GetHashArray \/ WriteAnswer

-----------------------------------------------------------------------------
(* The block that is read is stored meanwhile with another compression     *)
(* than that of its file or of the '.meta' that was read; or a block of    *)
(* the file was spoiled by a failed write, or could not be uncompressed.   *)
Disturbed ==
    \/ /\ reader \in {"open", "read"}
       /\ S!BeingStored(Head(header))
       /\ {cmptype, data[Head(header)]} \cap S!CmpType # {block.cmp}
    \/ ToSet(Content[file]) \cap (S!Spoiled \cup unsized) # {}

Watch ==
    sound' = IF file' = NoFile THEN FALSE
             ELSE IF file = NoFile THEN \A h \in ToSet(Content[file']) : S!Readable(h)
             ELSE sound /\ ~Disturbed'

Next ==
    /\ \/ \E m \in Meta : CreateFile(m)
       \/ Program
       \/ GetFails
       \/ RetrieveData
       \/ Server
       \/ Restart
    /\ crashes' + faults' + Cardinality(unread') + Cardinality(unsized') <= MaxTroubles
    /\ Watch

Spec == Init /\ [][Next]_vars

(* cdpfglrestore and the thread of its request are scheduled.              *)
FairSpec ==
    /\ Spec
    /\ WF_vars((Program \/ RetrieveData) /\ Watch)

-----------------------------------------------------------------------------
Piece == Hash \cup {Garbage, LeftOut}

TypeOK ==
    /\ S!TypeOK
    /\ file \in Meta \cup {NoFile}
    /\ list \in Seq(Hash)
    /\ out \in Seq(Piece)
    /\ printed \in BOOLEAN
    /\ reader \in {"none", "cmptype", "open", "read", "concat"}
    /\ header \in Seq(Hash)
    /\ cmptype \in S!CmpType
    /\ bytes \in S!CmpType \cup {"absent", "torn"}
    /\ bytes # "absent" <=> reader \in {"read", "concat"}
    /\ buffer \in Seq(Piece)
    /\ unread \subseteq Hash
    /\ unsized \subseteq Hash
    /\ sound \in BOOLEAN

Ended == file # NoFile /\ list = <<>> /\ reader = "none"

(* A file is restored as it was saved but for the blocks that were unread. *)
Restores(o, c) ==
    /\ Len(o) = Len(c)
    /\ \A i \in DOMAIN c : o[i] = c[i] \/ c[i] \in unread

(* A file whose blocks could be given back when it was chosen is restored  *)
(* as it was saved, unless an error is printed, a write failed, or one of  *)
(* its blocks was stored with another compression while it was read. A     *)
(* block may be stored again as it was while it is read, and compressed in *)
(* another way before it is read or after. A block the server fails to     *)
(* read is missing or left as it is stored, without an error of the        *)
(* program; the others come back all the same, in their places.            *)
RestoredIsContent ==
    Ended /\ sound /\ ~printed /\ file \notin harmed => Restores(out, Content[file])

(* Reading the blocks of such a file does not lead the server to undefined *)
(* behaviour, whatever data_thread does meanwhile.                         *)
UncompressIsSafe ==
    sound /\ reader = "concat" => Uncompressed

(* A restoration ends, whatever is missing on the server, however it stops *)
(* and whatever requests fail.                                             *)
RestoreEnds == (file # NoFile) ~> Ended
=============================================================================
