------------------------------- MODULE Ingest -------------------------------
(***************************************************************************)
(* The server's way in: libmicrohttpd serves each connection in a thread   *)
(* of its own (server.c); the handlers of POST requests ask the backend    *)
(* which blocks are missing from its store and push meta data and blocks   *)
(* on two queues, kept in memory; they answer before anything is stored.   *)
(* Two threads, meta_data_thread and data_thread, empty the queues with    *)
(* the functions of the file backend (file_backend.c): one line appended   *)
(* to the file of the host for meta data; for a block, a file '.meta' that *)
(* says how it is compressed, and then the block's own file.               *)
(*                                                                         *)
(* A handler looks only at the block files. What it answers, and what the  *)
(* other threads are doing to that file in the meantime, is what this      *)
(* module is about: a client that is told that a block is not needed never *)
(* sends it.                                                               *)
(***************************************************************************)
EXTENDS Integers, SequencesExt

CONSTANTS
    Conn,         \* connections
    Meta,         \* meta data of files of one host: they go to one file
    Hash,         \* hashes of blocks
    NoBlock,      \* data_thread has no block
    MaxArray,     \* bound: length of the arrays of hashes or blocks
    MaxRequests,  \* bound: requests received
    MaxCrashes,   \* bound: stops of the server
    MaxFaults     \* bound: failed writes to the file system

CmpType == {"none", "zlib"}
Block   == [hash : Hash, cmp : CmpType]

ASSUME ConstantsAssumption ==
    /\ Meta \cap Hash = {}
    /\ NoBlock \notin Block
    /\ MaxArray \in Nat
    /\ MaxRequests \in Nat
    /\ MaxCrashes \in Nat
    /\ MaxFaults \in Nat

VARIABLES
    conn,     \* what the thread of each connection has still to do
    metaQ,    \* meta_queue
    dataQ,    \* data_queue
    storer,   \* where data_thread is in file_store_data
    block,    \* the block it stores
    lines,    \* meta data that have a line of their own in the meta data file
    partial,  \* the meta data file ends with a part of a line
    data,     \* the block files
    dotmeta,  \* the '.meta' files
    vouched,  \* history: what the server took, or said it has
    harmed,   \* history: in memory at a stop, or lost by a failed write
    crashes,  \* history: stops of the server so far
    faults,   \* history: failed writes so far
    requests  \* history: requests received so far

queueVars  == <<metaQ, dataQ>>
storerVars == <<storer, block>>
fileVars   == <<lines, partial, data, dotmeta>>
boundVars  == <<crashes, faults, requests>>
vars == <<conn, queueVars, storerVars, fileVars, vouched, harmed, boundVars>>

(* A request being processed: the hashes to look for, those found missing  *)
(* so far, then the meta data and the blocks to push.                      *)
Url == {"/Meta.json", "/Hash_Array.json", "/Data_Array.json"}

Request ==
    [url    : Url \cup {"none"},
     ask    : Seq(Hash),
     needed : Seq(Hash),
     meta   : SUBSET Meta,
     blocks : Seq(Block)]

Idle ==
    [url |-> "none", ask |-> <<>>, needed |-> <<>>, meta |-> {}, blocks |-> <<>>]

(* hs is the list of the hashes of m, or <<>> when data_sent is TRUE.      *)
MetaRequest(m, hs) ==
    [url |-> "/Meta.json", ask |-> hs, needed |-> <<>>, meta |-> {m}, blocks |-> <<>>]

HashArrayRequest(hs) ==
    [url |-> "/Hash_Array.json", ask |-> hs, needed |-> <<>>, meta |-> {}, blocks |-> <<>>]

DataArrayRequest(bs) ==
    [url |-> "/Data_Array.json", ask |-> <<>>, needed |-> <<>>, meta |-> {}, blocks |-> bs]

-----------------------------------------------------------------------------
(* The store.                                                              *)

(* g_file_query_exists: a file that is created and not yet written counts. *)
Exists(h) == data[h] # "absent"

(* get_cmptype_from_file_meta                                              *)
StoredCmpType(h) == IF dotmeta[h] = "absent" THEN "none" ELSE dotmeta[h]

(* The block can be given back: it is complete and it is known how it is   *)
(* compressed.                                                             *)
Readable(h) == data[h] \in CmpType /\ StoredCmpType(h) = data[h]

BeingStored(h) == block # NoBlock /\ block.hash = h
Queued(h)      == \E i \in DOMAIN dataQ : dataQ[i].hash = h

(* The server has x, a meta data or a block, in memory or in its files.    *)
Held(x) ==
    \/ x \in Meta /\ x \in ToSet(metaQ) \cup lines
    \/ x \in Hash /\ (Queued(x) \/ BeingStored(x) \/ Readable(x))

-----------------------------------------------------------------------------
Init ==
    /\ conn = [c \in Conn |-> Idle]
    /\ metaQ = <<>>
    /\ dataQ = <<>>
    /\ storer = "pop"
    /\ block = NoBlock
    /\ lines = {}
    /\ partial = FALSE
    /\ data = [h \in Hash |-> "absent"]
    /\ dotmeta = [h \in Hash |-> "absent"]
    /\ vouched = {}
    /\ harmed = {}
    /\ crashes = 0
    /\ faults = 0
    /\ requests = 0

-----------------------------------------------------------------------------
(* The handlers of POST requests.                                          *)

(* process_received_data: the request is complete.                         *)
Receive(c, r) ==
    /\ conn[c] = Idle
    /\ requests < MaxRequests
    /\ conn' = [conn EXCEPT ![c] = r]
    /\ requests' = requests + 1
    /\ UNCHANGED <<queueVars, storerVars, fileVars, vouched, harmed, crashes, faults>>

(* Mutant: a hash asked for twice is needed twice.                         *)
NeededHashTwice(c) ==
    LET h == Head(conn[c].ask)
    IN  /\ conn[c].ask # <<>>
        /\ IF Exists(h)
           THEN /\ conn' = [conn EXCEPT ![c].ask = Tail(@)]
                /\ vouched' = vouched \cup {h}
           ELSE /\ conn' = [conn EXCEPT ![c].ask = Tail(@),
                                        ![c].needed = Append(@, h)]
                /\ UNCHANGED vouched
        /\ UNCHANGED <<queueVars, storerVars, fileVars, harmed, boundVars>>

(* file_build_needed_hash_list, one turn of its loop.                      *)
BuildNeededHashList(c) ==
    LET h == Head(conn[c].ask)
    IN  /\ conn[c].ask # <<>>
        /\ vouched' = IF Exists(h) THEN vouched \cup {h} ELSE vouched
        /\ conn' =
             [conn EXCEPT ![c].ask = Tail(@),
                          ![c].needed = IF Exists(h) \/ h \in ToSet(@)
                                        THEN @ ELSE Append(@, h)]
        /\ UNCHANGED <<queueVars, storerVars, fileVars, harmed, boundVars>>

(* Mutant: the meta data are not pushed.                                   *)
PushMetaForgotten(c) ==
    /\ conn[c].ask = <<>>
    /\ conn[c].meta # {}
    /\ vouched' = vouched \cup conn[c].meta
    /\ conn' = [conn EXCEPT ![c].meta = {}]
    /\ UNCHANGED <<queueVars, storerVars, fileVars, harmed, boundVars>>

(* answer_meta_json_post_request, once the answer is made.                 *)
PushMeta(c) ==
    /\ conn[c].ask = <<>>
    /\ \E m \in conn[c].meta :
        /\ metaQ' = Append(metaQ, m)
        /\ vouched' = vouched \cup {m}
    /\ conn' = [conn EXCEPT ![c].meta = {}]
    /\ UNCHANGED <<dataQ, storerVars, fileVars, harmed, boundVars>>

(* answer_data_array_post_request, one turn of its loop. The handler of    *)
(* /Data.json, answer_data_post_request, does the same for one block.      *)
PushData(c) ==
    /\ conn[c].blocks # <<>>
    /\ dataQ' = Append(dataQ, Head(conn[c].blocks))
    /\ vouched' = vouched \cup {Head(conn[c].blocks).hash}
    /\ conn' = [conn EXCEPT ![c].blocks = Tail(@)]
    /\ UNCHANGED <<metaQ, storerVars, fileVars, harmed, boundVars>>

(* Mutant: the answer does not wait for the queues.                        *)
AnsweredEarly(c) ==
    /\ conn[c] # Idle
    /\ conn[c].ask = <<>>

Answered(c) ==
    /\ conn[c] # Idle
    /\ conn[c].ask = <<>>
    /\ conn[c].meta = {}
    /\ conn[c].blocks = <<>>

(* create_MHD_response                                                     *)
CreateResponse(c) ==
    /\ Answered(c)
    /\ conn' = [conn EXCEPT ![c] = Idle]
    /\ UNCHANGED <<queueVars, storerVars, fileVars, vouched, harmed, boundVars>>

Handler(c) ==
    BuildNeededHashList(c) \/ PushMeta(c) \/ PushData(c)

-----------------------------------------------------------------------------
(* meta_data_thread. A write to the file system that fails is only printed.*)

Fault(x) ==
    /\ faults < MaxFaults
    /\ faults' = faults + 1
    /\ harmed' = harmed \cup {x}

NoFault == UNCHANGED <<faults, harmed>>

(* g_async_queue_pop and file_store_smeta: the line is appended to the     *)
(* file; it is joined to the part of a line that a failed write left       *)
(* there, and can then no more be read than that part. The file can not be *)
(* opened, or nothing is written, or a part of the line, without its end.  *)
StoreSmeta ==
    /\ metaQ # <<>>
    /\ metaQ' = Tail(metaQ)
    /\ \/ /\ ~partial
          /\ lines' = lines \cup {Head(metaQ)}
          /\ NoFault
          /\ UNCHANGED partial
       \/ /\ partial
          /\ partial' = FALSE
          /\ harmed' = harmed \cup {Head(metaQ)}
          /\ UNCHANGED <<lines, faults>>
       \/ /\ Fault(Head(metaQ))
          /\ partial' \in {partial, TRUE}
          /\ UNCHANGED lines
    /\ UNCHANGED <<conn, dataQ, storerVars, data, dotmeta, vouched, crashes, requests>>

-----------------------------------------------------------------------------
(* data_thread.                                                            *)

PopData ==
    /\ storer = "pop"
    /\ dataQ # <<>>
    /\ dataQ' = Tail(dataQ)
    /\ block' = Head(dataQ)
    /\ storer' = "meta"
    /\ UNCHANGED <<conn, metaQ, fileVars, vouched, harmed, boundVars>>

(* Mutant: the '.meta' file is written for a new block only.               *)
SetMetadataOnce ==
    /\ storer = "meta"
    /\ storer' = "open"
    /\ dotmeta' = IF dotmeta[block.hash] = "absent"
                  THEN [dotmeta EXCEPT ![block.hash] = block.cmp] ELSE dotmeta
    /\ UNCHANGED <<conn, queueVars, block, lines, partial, data, vouched, harmed, boundVars>>

(* set_metadata_to_file_meta                                               *)
SetMetadataToFileMeta ==
    /\ storer = "meta"
    /\ storer' = "open"
    /\ \/ dotmeta' = [dotmeta EXCEPT ![block.hash] = block.cmp] /\ NoFault
       \/ UNCHANGED dotmeta /\ Fault(block.hash)
    /\ UNCHANGED <<conn, queueVars, block, lines, partial, data, vouched,
                   crashes, requests>>

(* Mutant: the block file is removed, then created.                        *)
RemoveThenCreate ==
    /\ storer = "open"
    /\ data' = [data EXCEPT ![block.hash] = "torn"]
    /\ storer' = "write"
    /\ UNCHANGED <<conn, queueVars, block, lines, partial, dotmeta, vouched, harmed, boundVars>>

(* Mutant: the thread ends with the first file it cannot open.             *)
FileReplaceStops ==
    /\ storer = "open"
    /\ \/ /\ data' = IF Exists(block.hash) THEN data
                      ELSE [data EXCEPT ![block.hash] = "torn"]
          /\ storer' = "write"
          /\ NoFault
       \/ /\ Fault(block.hash)
          /\ storer' = "ended"
          /\ UNCHANGED data
    /\ UNCHANGED <<conn, queueVars, block, lines, partial, dotmeta, vouched, crashes, requests>>

(* g_file_replace, as glib does it: a file that does not exist is created, *)
(* and is there, empty, from now on; one that exists is left as it is and  *)
(* a temporary file will be renamed over it.                               *)
FileReplace ==
    /\ storer = "open"
    /\ \/ /\ data' = IF Exists(block.hash) THEN data
                      ELSE [data EXCEPT ![block.hash] = "torn"]
          /\ storer' = "write"
          /\ NoFault
          /\ UNCHANGED block
       \/ /\ Fault(block.hash)
          /\ storer' = "pop"
          /\ block' = NoBlock
          /\ UNCHANGED data
    /\ UNCHANGED <<conn, queueVars, lines, partial, dotmeta, vouched, crashes, requests>>

(* g_output_stream_write and g_output_stream_close, which also gives a     *)
(* temporary file its name, be it cut short.                               *)
WriteData ==
    /\ storer = "write"
    /\ storer' = "pop"
    /\ block' = NoBlock
    /\ \/ data' = [data EXCEPT ![block.hash] = block.cmp] /\ NoFault
       \/ data' = [data EXCEPT ![block.hash] = "torn"] /\ Fault(block.hash)
    /\ UNCHANGED <<conn, queueVars, lines, partial, dotmeta, vouched, crashes, requests>>

DataThread == PopData \/ SetMetadataToFileMeta \/ FileReplace \/ WriteData

-----------------------------------------------------------------------------
(* The server is killed, or stopped by a signal (free_server_struct_t does *)
(* not empty the queues), and started again.                               *)
Restart ==
    /\ crashes < MaxCrashes
    /\ crashes' = crashes + 1
    /\ harmed' = harmed \cup ToSet(metaQ) \cup {h \in Hash : Queued(h) \/ BeingStored(h)}
    /\ conn' = [c \in Conn |-> Idle]
    /\ metaQ' = <<>>
    /\ dataQ' = <<>>
    /\ storer' = "pop"
    /\ block' = NoBlock
    /\ UNCHANGED <<fileVars, vouched, faults, requests>>

-----------------------------------------------------------------------------
(* Clients, here, post what they like; the blocks of an array come from    *)
(* one client, which compresses them all in the same way.                  *)
Arrays(S) == UNION {[1 .. n -> S] : n \in 1 .. MaxArray}

Post(c) ==
    \/ \E m \in Meta, hs \in Arrays(Hash) \cup {<<>>} : Receive(c, MetaRequest(m, hs))
    \/ \E hs \in Arrays(Hash) : Receive(c, HashArrayRequest(hs))
    \/ \E bs \in Arrays(Block) :
        /\ \A i \in DOMAIN bs : bs[i].cmp = bs[1].cmp
        /\ Receive(c, DataArrayRequest(bs))

Next ==
    \/ \E c \in Conn : Post(c) \/ Handler(c) \/ CreateResponse(c)
    \/ StoreSmeta
    \/ DataThread
    \/ Restart

Spec == Init /\ [][Next]_vars

(* Every thread is scheduled.                                              *)
FairSpec ==
    /\ Spec
    /\ \A c \in Conn : WF_vars(Handler(c) \/ CreateResponse(c))
    /\ WF_vars(StoreSmeta)
    /\ WF_vars(DataThread)

-----------------------------------------------------------------------------
TypeOK ==
    /\ conn \in [Conn -> Request]
    /\ metaQ \in Seq(Meta)
    /\ dataQ \in Seq(Block)
    /\ storer \in {"pop", "meta", "open", "write"}
    /\ block \in Block \cup {NoBlock}
    /\ lines \subseteq Meta
    /\ partial \in BOOLEAN
    /\ data \in [Hash -> CmpType \cup {"absent", "torn"}]
    /\ dotmeta \in [Hash -> CmpType \cup {"absent"}]
    /\ vouched \subseteq Meta \cup Hash
    /\ harmed \subseteq Meta \cup Hash
    /\ crashes \in 0 .. MaxCrashes
    /\ faults \in 0 .. MaxFaults
    /\ requests \in 0 .. MaxRequests

(* Whatever the server has taken from a client, and every block it told a  *)
(* client not to send, it still has, in memory or in a form it can give    *)
(* back; except for what a stop took from memory, what a failed write lost *)
(* and the meta data whose line was joined to a part of one.               *)
VouchedIsHeld == \A x \in vouched : Held(x) \/ x \in harmed

(* The answer asks for a hash once, however often the file contains it, so *)
(* that a block is sent and stored once.                                   *)
NeededOnce ==
    \A c \in Conn : \A i, j \in DOMAIN conn[c].needed :
        conn[c].needed[i] = conn[c].needed[j] => i = j

(* A block whose file is there but can not be given back, and that no      *)
(* client will be asked for again.                                         *)
Spoiled == {h \in Hash : Exists(h) /\ ~Readable(h) /\ ~BeingStored(h)}

(* A stop of the server or a failed write spoils one block at most, the    *)
(* one data_thread was storing.                                            *)
OneBlockPerFault == Cardinality(Spoiled) <= crashes + faults

(* A block file that is complete stays so, although it is written again    *)
(* each time a client sends the block, unless a write fails.               *)
CompleteStays ==
    [][\A h \in Hash :
        data[h] \in CmpType => data'[h] \in CmpType \/ faults' > faults]_vars

(* What is in a queue is stored in the end, or harmed.                     *)
QueuedIsStored ==
    /\ \A h \in Hash : Queued(h) ~> (Readable(h) \/ h \in harmed)
    /\ \A m \in Meta : m \in ToSet(metaQ) ~> (m \in lines \cup harmed)

-----------------------------------------------------------------------------
(* The strengthening with which the invariants are inductive. The block in *)
(* hand will be readable as soon as it is written, unless its '.meta' file *)
(* could not be written before; such a block will be spoiled by a fault    *)
(* that is counted already.                                                *)
Mislabelled ==
    /\ storer \in {"open", "write"}
    /\ StoredCmpType(block.hash) # block.cmp

SpoiledSoon == IF Mislabelled THEN 1 ELSE 0

IInv ==
    /\ TypeOK
    /\ storer = "pop" <=> block = NoBlock
    /\ \A h \in Hash : Exists(h) => Readable(h) \/ BeingStored(h) \/ h \in harmed
    /\ Mislabelled => block.hash \in harmed
    /\ VouchedIsHeld
    /\ NeededOnce
    /\ IsFiniteSet(Spoiled)
    /\ Cardinality(Spoiled) + SpoiledSoon <= crashes + faults
=============================================================================
