------------------------------ MODULE SaveFile ------------------------------
(***************************************************************************)
(* How the save thread of the client saves one file (client.c): it reads   *)
(* the file block by block, asks the server which blocks it needs, sends   *)
(* those and the meta data, which hold the list of the hashes of all the   *)
(* blocks, and writes in its cache that the file is saved.                 *)
(*                                                                         *)
(* A small file is read at once and its meta data are posted first; a big  *)
(* one is read a buffer at a time, its hashes are posted for each buffer   *)
(* and its meta data last. Lists are built by prepending.                  *)
(*                                                                         *)
(* A post that fails is kept in the local database, or for a list of       *)
(* hashes replaced by the answer 'I need them all' (module Outbox is about *)
(* what becomes of a kept post: here it is kept until it is posted). The   *)
(* server is only known by what it vouches for, which grows by itself as   *)
(* other clients post blocks (module Ingest says what vouched is worth).   *)
(***************************************************************************)
EXTENDS Integers, SequencesExt

CONSTANTS
    File,       \* versions of files to be saved
    Hash,       \* hashes of blocks
    Content,    \* the blocks of each file, in order
    Small,      \* files shorter than CLIENT_SMALL_FILE_SIZE
    NoFile,     \* the save thread has no file
    BufferLen,  \* blocks that fill opt->buffersize when reading
    MaxCrashes  \* bound: crashes of the client

ASSUME ConstantsAssumption ==
    /\ Content \in [File -> Seq(Hash)]
    /\ Small \subseteq File
    /\ NoFile \notin File
    /\ File \cap Hash = {}
    /\ BufferLen \in Nat \ {0}
    /\ MaxCrashes \in Nat

VARIABLES
    place,      \* where the save thread is
    file,       \* the file being saved
    unread,     \* blocks of a big file still to be read
    eof,        \* the end of the big file has been read
    hdl,        \* hash_data_list: blocks in memory
    savedList,  \* saved_list: hashes of the big file so far
    needed,     \* hash_list: the server's answer
    array,      \* blocks put together for the next Data_Array.json
    kept,       \* posts kept in the local database
    cached,     \* files the cache says are saved
    vouched,    \* what the server has taken, or said it has
    lists,      \* history: the hash list sent with the meta data of a file
    flawed,     \* history: files that, the last time, were not read to the end
    crashes     \* history: crashes of the client so far

threadVars == <<place, file, unread, eof, hdl, savedList, needed, array>>
otherVars  == <<lists, flawed, crashes>>
vars       == <<threadVars, kept, cached, vouched, otherVars>>

Item == File \cup Hash

(* Some post kept in the database, or the server, has x.                   *)
Safe(x) == x \in vouched \/ \E post \in kept : x \in post

(* What the server may answer when asked for the hashes hs: those it       *)
(* needs, once each, in no specific order. It vouches for the others.      *)
Answers(hs) ==
    UNION {SetToSeqs(missing) :
              missing \in {m \in SUBSET ToSet(hs) : ToSet(hs) \ m \subseteq vouched}}

-----------------------------------------------------------------------------
Init ==
    /\ place = "idle"
    /\ file = NoFile
    /\ unread = <<>>
    /\ eof = FALSE
    /\ hdl = <<>>
    /\ savedList = <<>>
    /\ needed = <<>>
    /\ array = <<>>
    /\ kept = {}
    /\ cached = {}
    /\ vouched = {}
    /\ lists = [f \in File |-> <<>>]
    /\ flawed = {}
    /\ crashes = 0

-----------------------------------------------------------------------------
(* Reading.                                                                *)

(* The hash list hs is put in the meta data, which is posted next.         *)
SendMetaData(f, hs) ==
    /\ place' = "meta"
    /\ lists' = [lists EXCEPT ![f] = hs]

(* process_small_file_not_in_cache, whose calculate_hash_data_list_for_file*)
(* returns no list at all when it cannot read the file to its end.         *)
ProcessSmallFile(f) ==
    /\ place = "idle"
    /\ f \in Small \ cached
    /\ file' = f
    /\ \/ hdl' = Content[f] /\ flawed' = flawed \ {f}
       \/ hdl' = <<>> /\ flawed' = flawed \cup {f}
    /\ SendMetaData(f, hdl')
    /\ UNCHANGED <<unread, eof, savedList, needed, array, kept, cached,
                   vouched, crashes>>

(* process_big_file_not_in_cache opens the file, or fails to.              *)
ProcessBigFile(f) ==
    /\ place = "idle"
    /\ f \in File \ (Small \cup cached)
    /\ file' = f
    /\ \/ /\ place' = "read"
          /\ unread' = Content[f]
          /\ flawed' = flawed \ {f}
          /\ UNCHANGED lists
       \/ /\ SendMetaData(f, <<>>)
          /\ flawed' = flawed \cup {f}
          /\ UNCHANGED unread
    /\ UNCHANGED <<eof, hdl, savedList, needed, array, kept, cached,
                   vouched, crashes>>

(* Mutant: the new hashes are put after the ones saved before.             *)
LetsSendAllThatNowAfter(hs) ==
    /\ savedList' = savedList \o hs
    /\ place' = "hashs"

(* lets_send_all_that_now: a copy of the list is put before saved_list and *)
(* the hashes are posted.                                                  *)
LetsSendAllThatNow(hs) ==
    /\ savedList' = hs \o savedList
    /\ place' = "hashs"

(* One more block of the big file.                                         *)
ReadBlock ==
    /\ place = "read"
    /\ unread # <<>>
    /\ unread' = Tail(unread)
    /\ hdl' = <<Head(unread)>> \o hdl
    /\ IF Len(hdl') >= BufferLen
       THEN LetsSendAllThatNow(hdl')
       ELSE UNCHANGED <<place, savedList>>
    /\ UNCHANGED <<file, eof, needed, array, kept, cached, vouched, otherVars>>

(* The read returns no byte: the last buffer is sent, if there is one.     *)
EndOfFile ==
    /\ place = "read"
    /\ unread = <<>>
    /\ ~eof
    /\ eof' = TRUE
    /\ IF hdl # <<>>
       THEN LetsSendAllThatNow(hdl)
       ELSE UNCHANGED <<place, savedList>>
    /\ UNCHANGED <<file, unread, hdl, needed, array, kept, cached, vouched, otherVars>>

FinishBigFile ==
    /\ place = "read"
    /\ eof
    /\ SendMetaData(file, Reverse(savedList))
    /\ UNCHANGED <<file, unread, eof, hdl, savedList, needed, array, kept, cached,
                   vouched, flawed, crashes>>

(* A read fails: the blocks in memory are dropped, and what was saved so   *)
(* far makes the meta data.                                                *)
ReadError ==
    /\ place = "read"
    /\ ~eof
    /\ hdl' = <<>>
    /\ flawed' = flawed \cup {file}
    /\ SendMetaData(file, savedList)
    /\ UNCHANGED <<file, unread, eof, savedList, needed, array, kept, cached,
                   vouched, crashes>>

-----------------------------------------------------------------------------
(* Posting.                                                                *)

(* send_meta_data_to_server. The data of a big file have been sent, the    *)
(* answer is not looked at.                                                *)
MetaPosted ==
    /\ place = "meta"
    /\ file \in vouched
    /\ IF file \in Small
       THEN place' = "pick" /\ needed' \in Answers(hdl)
       ELSE place' = "cache" /\ UNCHANGED needed
    /\ UNCHANGED <<file, unread, eof, hdl, savedList, array, kept, cached,
                   vouched, otherVars>>

(* Mutant: without an answer no block is sent.                             *)
MetaKeptNoData ==
    /\ place = "meta"
    /\ kept' = kept \cup {{file}}
    /\ IF file \in Small
       THEN place' = "pick" /\ needed' = <<>>
       ELSE place' = "cache" /\ UNCHANGED needed
    /\ UNCHANGED <<file, unread, eof, hdl, savedList, array, cached,
                   vouched, otherVars>>

(* The post failed: it is kept, and all the blocks are needed.             *)
MetaKept ==
    /\ place = "meta"
    /\ kept' = kept \cup {{file}}
    /\ IF file \in Small
       THEN place' = "pick" /\ needed' = hdl
       ELSE place' = "cache" /\ UNCHANGED needed
    /\ UNCHANGED <<file, unread, eof, hdl, savedList, array, cached,
                   vouched, otherVars>>

(* send_hash_array_to_server, which keeps nothing when the post fails.     *)
HashArrayPosted ==
    /\ place = "hashs"
    /\ place' = "pick"
    /\ needed' \in Answers(hdl)
    /\ UNCHANGED <<file, unread, eof, hdl, savedList, array, kept, cached,
                   vouched, otherVars>>

HashArrayNotPosted ==
    /\ place = "hashs"
    /\ place' = "pick"
    /\ needed' = hdl
    /\ UNCHANGED <<file, unread, eof, hdl, savedList, array, kept, cached,
                   vouched, otherVars>>

(* find_hash_in_list: where the first block of hash h is in memory.        *)
FindHashInList(h) ==
    CHOOSE i \in DOMAIN hdl :
        hdl[i] = h /\ \A j \in DOMAIN hdl : hdl[j] = h => i <= j

(* Mutant: all the blocks with this hash leave the memory.                 *)
PickAllBlocks ==
    /\ place = "pick"
    /\ needed # <<>>
    /\ needed' = Tail(needed)
    /\ array' = Append(array, Head(needed))
    /\ hdl' = Remove(hdl, Head(needed))
    /\ place' \in {"pick", "data"}
    /\ UNCHANGED <<file, unread, eof, savedList, kept, cached, vouched, otherVars>>

(* send_all_data_to_server: one needed block leaves the memory for the     *)
(* array, which is sent when the block fills it. Compressed blocks have    *)
(* any size, thus either may happen. send_data_to_server sends each block  *)
(* by itself.                                                              *)
PickBlock ==
    /\ place = "pick"
    /\ needed # <<>>
    /\ needed' = Tail(needed)
    /\ array' = Append(array, Head(needed))
    /\ hdl' = RemoveAt(hdl, FindHashInList(Head(needed)))
    /\ place' \in {"pick", "data"}
    /\ UNCHANGED <<file, unread, eof, savedList, kept, cached, vouched, otherVars>>

(* Mutant: the last, incomplete array is forgotten.                        *)
ForgetRest ==
    /\ place = "pick"
    /\ needed = <<>>
    /\ place' = IF file \in Small THEN "cache" ELSE "read"
    /\ hdl' = <<>>
    /\ array' = <<>>
    /\ UNCHANGED <<file, unread, eof, savedList, needed, kept, cached,
                   vouched, otherVars>>

(* The rest of the blocks is sent; without any, the list in memory is      *)
(* freed.                                                                  *)
SendRest ==
    /\ place = "pick"
    /\ needed = <<>>
    /\ IF array # <<>>
       THEN place' = "data" /\ UNCHANGED hdl
       ELSE /\ place' = IF file \in Small THEN "cache" ELSE "read"
            /\ hdl' = <<>>
    /\ UNCHANGED <<file, unread, eof, savedList, needed, array, kept, cached,
                   vouched, otherVars>>

(* insert_array_in_root_and_send                                           *)
DataArrayPosted ==
    /\ place = "data"
    /\ ToSet(array) \subseteq vouched
    /\ place' = "pick"
    /\ array' = <<>>
    /\ UNCHANGED <<file, unread, eof, hdl, savedList, needed, kept, cached,
                   vouched, otherVars>>

DataArrayKept ==
    /\ place = "data"
    /\ kept' = kept \cup {ToSet(array)}
    /\ place' = "pick"
    /\ array' = <<>>
    /\ UNCHANGED <<file, unread, eof, hdl, savedList, needed, cached,
                   vouched, otherVars>>

(* Mutant: the file is freed before it is written in the cache.            *)
DbSaveFreedMetaData ==
    /\ place = "cache"
    /\ place' = "idle"
    /\ file' = NoFile
    /\ cached' = cached \cup {file'}
    /\ unread' = <<>>
    /\ eof' = FALSE
    /\ hdl' = <<>>
    /\ savedList' = <<>>
    /\ UNCHANGED <<needed, array, kept, vouched, otherVars>>

(* db_save_meta_data, whatever happened before.                            *)
DbSaveMetaData ==
    /\ place = "cache"
    /\ cached' = cached \cup {file}
    /\ place' = "idle"
    /\ file' = NoFile
    /\ unread' = <<>>
    /\ eof' = FALSE
    /\ hdl' = <<>>
    /\ savedList' = <<>>
    /\ UNCHANGED <<needed, array, kept, vouched, otherVars>>

-----------------------------------------------------------------------------
(* The rest of the system.                                                 *)

(* The server comes to vouch for something.                                *)
Vouch(x) ==
    /\ x \notin vouched
    /\ vouched' = vouched \cup {x}
    /\ UNCHANGED <<threadVars, kept, cached, otherVars>>

(* The thread 'reconnected' posts what was kept.                           *)
Transmit(post) ==
    /\ post \subseteq vouched
    /\ kept' = kept \ {post}
    /\ UNCHANGED <<threadVars, cached, vouched, otherVars>>

CrashAndRestart ==
    /\ crashes < MaxCrashes
    /\ crashes' = crashes + 1
    /\ place' = "idle"
    /\ file' = NoFile
    /\ unread' = <<>>
    /\ eof' = FALSE
    /\ hdl' = <<>>
    /\ savedList' = <<>>
    /\ needed' = <<>>
    /\ array' = <<>>
    /\ UNCHANGED <<kept, cached, vouched, lists, flawed>>

-----------------------------------------------------------------------------
Next ==
    \/ \E f \in File : ProcessSmallFile(f) \/ ProcessBigFile(f)
    \/ ReadBlock \/ EndOfFile \/ FinishBigFile \/ ReadError
    \/ MetaPosted \/ MetaKept
    \/ HashArrayPosted \/ HashArrayNotPosted
    \/ PickBlock \/ SendRest
    \/ DataArrayPosted \/ DataArrayKept
    \/ DbSaveMetaData
    \/ \E x \in Item : Vouch(x)
    \/ \E post \in kept : Transmit(post)
    \/ CrashAndRestart

Spec == Init /\ [][Next]_vars

-----------------------------------------------------------------------------
TypeOK ==
    /\ place \in {"idle", "read", "meta", "hashs", "pick", "data", "cache"}
    /\ file \in File \cup {NoFile}
    /\ unread \in Seq(Hash)
    /\ eof \in BOOLEAN
    /\ hdl \in Seq(Hash)
    /\ savedList \in Seq(Hash)
    /\ needed \in Seq(Hash)
    /\ array \in Seq(Hash)
    /\ kept \subseteq SUBSET Item
    /\ cached \subseteq File
    /\ vouched \subseteq Item
    /\ lists \in [File -> Seq(Hash)]
    /\ flawed \subseteq File
    /\ crashes \in 0 .. MaxCrashes

(* The meta data of a file that was read to its end list its blocks in     *)
(* order, however many buffers it took: prepending blocks to the buffer,   *)
(* and buffers to saved_list, is undone by one reversal at the end.        *)
ListIsContent == \A f \in cached \ flawed : lists[f] = Content[f]

(* The cache says a file is saved only if its meta data and each of its    *)
(* blocks are vouched for by the server or kept: the blocks the server did *)
(* not ask for, those sent before a post failed, and those of a list that  *)
(* could not be posted.                                                    *)
CachedIsSafe ==
    \A f \in cached \ flawed : Safe(f) /\ \A h \in ToSet(Content[f]) : Safe(h)

(* The client has in memory each block the server asks for ("in normal     *)
(* operations it should always find something"): send_all_data_to_server   *)
(* uses the result of find_hash_in_list without a look at it.              *)
NeededIsInMemory == place = "pick" => ToSet(needed) \subseteq ToSet(hdl)

(* client.c:881 and client.c:1083, where the file is put in the cache:     *)
(* "Everything has been transmitted so we can save meta data into the      *)
(* local db cache".                                                        *)
EverythingTransmitted ==
    \A f \in cached : Safe(f) /\ \A h \in ToSet(Content[f]) : Safe(h)
=============================================================================
