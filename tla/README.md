# A verification development for sauvegarde

sauvegarde is a continuous data protection system: `cdpfglclient` watches and
carves directories and sends each file it finds, block by block, to
`cdpfglserver`, which stores a block once whatever files it comes from;
`cdpfglrestore` gets files back. This directory holds TLA+ models of its code,
configurations that check them with TLC on small instances, and proofs, checked
by TLAPS, of what holds for every size.

The question behind all of it is what a backup program must never get wrong:
*a file the client believes saved, and will therefore never send again, is
saved*. Between a file and its blocks on the server's disk there are four
threads of the client and many of the server, a cache, an outbox, queues in
memory and files written in several steps; each module below is about one stage
of that way, and says under which circumstances the answer is yes.

## The system

| component | its state | its operations |
|---|---|---|
| save thread (`client.c`, `save_one_file_threaded`) | the file being saved: `hash_data_list` (blocks in memory), `saved_list` (hashes of a big file), the answer of the server | pop a file from `save_queue`; look in the cache; read, hash; post `/Meta.json`, `/Hash_Array.json`, `/Data_Array.json` or `/Data.json`; write the cache |
| carving thread and fanotify (`client.c`, `m_fanotify.c`) | `dir_queue`, `save_queue`; the kernel's queue of events | enumerate a directory, push its files; turn events into files to save; close the descriptor of an event, twice |
| local database (`database.c`) | tables `files` (the cache), `buffers` (posts that failed), `transmited` (rows that were posted since), the open transaction of the one connection | begin, insert, delete, commit; two SELECT passes with callbacks |
| thread `reconnected` (`client.c`) | the pass over the rows, its curl handle | probe the server, post the rows, mark them, delete the marked ones |
| HTTP client (`communique.c`) | a curl handle per thread, the method it will use | `get_url`, `post_url`, `is_server_alive` |
| POST handlers (`server.c`) | a request per connection, each in a thread of libmicrohttpd | find the missing hashes, push on a queue, answer |
| store threads (`server.c`) | `meta_queue`, `data_queue`, in memory | pop, store |
| file backend (`file_backend.c`) | one meta data file per host; for each block a data file and a `.meta` file with its compression | append a line; write `.meta`, create or replace the data file, write it; test existence; read back |
| GET handlers, restore (`server.c`, `restore.c`) | none on the server; the file being restored | list the files, get blocks by batches, write the file |
| statistics (`stats.c`) | counters | add, print |
| minio backend (`minio_backend.c`, `minio_interface.c`) | objects in two buckets of an S3 store and a fallback bucket; `statusG` and `retriesG`, shared by all threads | make the buckets; put the lengths and the data of a block, look for blocks, get them; retry |
| mongodb backend (`mongodb_backend.c`) | a document per version | insert a document, search documents |
| catalogue of saved versions (`packing.c`, `unpacking.c`, `query.c`, `file_backend.c`) | the meta data file of each host, or the collection of documents | JSON, line, document and back; read the file by buffers, cut it into lines, select |
| library (`hashs.c`, `files.c`, `packing.c`, `unpacking.c`, `compress.c`...) | none | order of hashes and files, paths, JSON, compression |

They interact by queues (carving and fanotify feed the save thread; handlers feed
the store threads), by the database (the save thread writes what `reconnected`
reads), by HTTP (posts and their answers) and by the files of the backend (written
by the store threads, tested by the handlers, read by the GET handlers).

What is hard in it:

* two threads of the client share one sqlite connection, hence one transaction;
* an answer may be lost, and the client may stop or the server may stop, between
  any two steps;
* the server answers before it stores, and tests only the existence of a file that
  another thread may be writing;
* the client caches a file whatever happened to its posts, so every failure must
  have left a copy somewhere;
* the order of the hashes, on which restoring depends, comes from lists that are
  built by prepending at two levels;
* files change, and are renamed, between the moment they are found and the moment
  they are read, and dates are in seconds;
* the meta data file is read in pieces while lines are appended to it;
* the minio backend comes from a program with one thread: the status of the last
  call and the number of retries are global variables.

What makes each part correct:

* database and `reconnected`: a request of a cached file is on the server or on
  disk; only posted rows are marked or deleted; requests are posted again only for
  a reason; the save thread is not blocked for ever;
* save thread: the list of hashes is the file; what is cached is safe; what is
  asked for is in memory;
* carving and fanotify: the last version of each file is saved, unless nothing told
  of it; nothing is saved twice; the queues get empty;
* catalogue: what was stored before a query and is asked for is listed, with its own
  meta data and hashes, and nothing else is;
* object store: what was found, and is not asked for, is stored; what is stored is where
  it is looked for; what is given back is what was stored;
* restore: the file is what was saved, or an error is printed, or a block could not be
  read; reading a block that is being replaced is harmless; the latest version is the latest; no file is overwritten;
* server: what it takes, or says it has, it has; a failure damages one block at
  most; what is complete stays complete; queues are emptied;
* together: an answer means what the client makes of it; a cached file can be
  restored in the end.

## Modules

| module | about | checked by | proofs |
|---|---|---|---|
| `Outbox` | the local database, the thread `reconnected` and the posts of the save thread, abstracted to numbered requests | `outbox`, `outbox_alive` | `OutboxProofs` |
| `SaveFile` | how the save thread saves a file, block by block; the server is what it vouches for | `savefile`, `savefile_unread` | `SaveFileProofs` |
| `Discover` | which files the client comes to save: users, kernel, carving, fanotify, cache | `discover` | `DiscoverProofs` |
| `Ingest` | connections, handlers, queues, store threads and files of the server | `ingest` | `IngestProofs` |
| `Backup` | `SaveFile` and `Ingest` composed by posts that may be cut | `backup`, `backup_restart` | `BackupProofs` |
| `Restore` | `cdpfglrestore` getting one file back from `Ingest`, which goes on storing | `restore` | `RestoreProofs` |
| `Versions` | which files a query lists or restores, in which order and under which names | `versions` | `ListingProofs` |
| `Records` | a version's meta data as JSON, as a line of text, as a document, and back | (in `Catalogue`) | `ListingProofs` |
| `Catalogue` | storing and listing versions, with files or mongodb, while queries are answered | `catalogue` | `ListingProofs` |
| `ObjectStore` | the minio backend: calls to a store that fails and comes back | `objectstore` | `ObjectStoreProofs` |

The `MC` modules give the constants their small values (the contents of the files,
which names look like others, the tokens of a text). Operators marked *Mutant* in a
comment are wrong versions of the definition that follows them; no specification
uses them. They document which mistake each property excludes.

### Outbox

The tables are a record (`buffers`, `transmited`, `files`, `lastId`), kept twice:
`conn` is what the connection sees, `disk` what a crash would leave; `inTx` says
whether a transaction is open. `Begin`, `Write` and `Commit` are `sql_begin`, one
statement and `sql_commit` as sqlite executes them for *one* connection: a BEGIN
inside a transaction fails and is only printed, so a COMMIT of either thread commits
the writes of both. The save thread makes its three calls as three steps.
`reconnected` makes them in one (`Transaction`): it calls them in a callback of
`sqlite3_exec`, which holds the mutex of the connection until the SELECT ends
(`MutexHeld`). `verb` is the method the curl handle of `reconnected` will use next.

### SaveFile

One action per step of `process_small_file_not_in_cache` and
`process_big_file_not_in_cache`: reading a block, the end of the file, a read error,
each post with its outcomes (`MetaPosted` / `MetaKept`, `HashArrayPosted` /
`HashArrayNotPosted`, `DataArrayPosted` / `DataArrayKept`), the choice of a block in
`send_all_data_to_server`, the cache. Blocks are their hashes. `vouched` is all that is
known of the server: the meta data and the blocks it took or said it has. It grows on
its own, because other clients and `reconnected` post as well.

### Ingest

A connection's thread is the rest of what its request has to do (`ask`, `meta`,
`blocks`) and what it found missing (`needed`). `data_thread` has a step for each
effect of `file_store_data` on the disk: the `.meta` file, `g_file_replace`, which
creates a new file empty and leaves an old one until the new content is closed, and
the write. A write that fails is a `Fault`. A line of meta data that fails may have been
stored in part, without its end (`partial`): the next one is joined to it, without any
error, and neither can be read back (`StoreSmeta`; what becomes of such lines when they
are read is in `Catalogue`). `Restart` is a kill as well as the SIGINT handler, which
frees the queues and does not empty them. `harmed` collects what was in memory at a
restart, what met a fault, and the meta data whose line was joined to a part of one.

### Backup

The actions of `SaveFile` and `Ingest`, conjoined: a post is a `Receive` on a
connection, its success a `CreateResponse` whose `needed` is the client's answer, its
failure one of the client's `...Kept` actions while the server's thread, if the
connection was cut, goes on alone. `vouched` is one variable of both modules: this is
how an assumption of `SaveFile` meets a guarantee of `Ingest`. The properties
`ClientSpec` and `ServerSpec` say that each side, in the composition, is still what its
module says (`C!Spec`, `S!Spec`). A save thread that waits for the mutex of the
connection (Outbox) is not modelled here: it only removes interleavings.

### Restore

The program takes a batch of hashes from its list (`GetHashArray`), waits for the
answer and writes it, or prints an error and takes the next batch. The server's thread
reads a block in four steps, those between which `data_thread` may act: `ReadCmpType`
(the `.meta` file), `OpenBlock` (`g_file_read`), `ReadBlock` (the size, asked for by
name, and one read of that size), `Concat` or `UncompressFails`. Any of these reads may
fail although the file is there: without the compression of its `.meta` file a block is
left as it is stored, without its length it can not be uncompressed, and a block that
can not be opened or read is left out of the answer (`LeaveOut`), which the program is
not told. What the thread read of a file is a compression, or `torn`; an answer is a
sequence of blocks, of `Garbage`, and of `LeftOut` in the places of the blocks left out.
After a failed `uncompress_buffer` the code uses and frees buffers it has freed: the model
lets the server stop or go on with garbage.

The store is that of `Ingest`, whose actions are conjoined with an unchanged program and
thread. Neither side compares the blocks with their hashes, so a restored file is right
only if nothing disturbed it. `sound` is a history variable that says so: the blocks
could all be given back when the file was chosen, none was spoiled by a failed write
since, none was stored with another compression *while it was being read*, and the
length of none could not be read (`unsized`). `unread` holds the blocks another read of
which failed. `RestoredIsContent` states that this is all that can go wrong without an
error being printed, and that a block that is not read costs no more than its own bytes:
the others are in their places. A block stored with another compression before or after it is read, or stored
again as it was at any moment, does no harm.

### Versions

Versions are places in the meta data file of the host. A query selects names and times;
a name is one number, in the order of the collation keys, and is a file, a directory or
a link. `ListOfFiles` is the answer of the server: prepended, sorted, and cut to the
latest versions when asked for; `FilesFromServer` is the list of the program: prepended
again, sorted again. The order of versions saved in the same second comes from the two
reversals and from the stability of both sorts alone, and `LatestIsRestored` depends on
it. `Like` says which names match a name that is used as a regular expression.

`AllFiles`, `RestoreLastFile` and `LastFile` are the modes of the program, to list as
well as to restore. `UniqueFilename` is the loop of `get_unique_filename`; `WriteFile` and
`MakeSymbolicLink` are what `create_file` makes of its result: with `--parents` the
directories above are made (`WithDirectories`), a directory is restored as an empty
file, as the code does, a link gets no directory, and a link without target hides its
name from `g_file_query_exists`. The content is the affair of `Restore`. Other clients save
versions at any moment (`StoreSmeta`).

A request for a list may fail, which prints an error, and the server may not be able to
open its file, which the program is not told: it gets an answer without a list
(`NoFiles`, `unopened`), and lists or restores nothing, as if nothing had been saved.
Any directory, file, link or date may be refused by the system; an error is printed, and
what was made before it stays (`MadeFirst`, `WriteFile`, `MakeSymbolicLink`).

### Discover

`disk` is the inode of each name, `ino` the date and the content of each inode; contents
are numbered, so that a version read in part can be told from a whole one. `Write`,
`Close` and `Rename` are the users; `events` is the kernel's queue, which drops what it
has no room for. `EventProcess` looks for the name an open file has *now* and queues it
with the meta data it has now; `CarveOneDirectory` and `IterateOverEnum` do the same for
what they find; `SaveOneFile` reads the first blocks and `EndOfFile` the last ones, and
writes the row of the cache, with the meta data the file was queued with. `closing` is
the window in which `fanotify_loop` is about to close a descriptor again that
`event_process` has closed: if the save thread got that number (`shared`), it loses its
file. `missed` and `twice` are history variables: what nothing told of, and what was
written twice in a second. `LastVersionSaved` says that these, files still open and files
that could not be read are all that may be missing when the client is at rest.

Nothing tells of a file in several ways, and `missed` is about each of them. The mounts of
the directories to monitor are marked one by one, or none of them if there is no fanotify
(`StartFanotify`, `watched`): a file closed on a mount that is not marked makes no event.
The name of an open file, with no symbolic link in it, is compared with the beginning of
the names of the configuration, of which only the `~` has been replaced: `Prefixed` are the
paths for which they agree, and the events of the others are filtered out
(`EventProcess`). A directory that can not be opened, or whose enumeration ends on an
error, leaves out what is below (`LeftOut`); a file whose meta data can not be read is
not queued. The client prints these errors and goes on, and so does the model; they are
bounded by `MaxErrors`.

### Records and Catalogue

A line is a sequence of tokens: numbers, texts, commas, quotes, ends of line. `Line` is
the `g_strdup_printf` of `file_store_smeta`, `ReadLine` is `extract_from_line` with its
`g_strsplit` into 14 parts; names and links are base64, names of users and of groups are
not: nothing in the code excludes a comma, a quote or an end of line in them, which would
split the line elsewhere. That those sent have none, as systems see to it, is assumed
(`MetaAssumption`). `HashToString` and `StringToHash` are the hexadecimal form
mongodb documents have. `AddListValuesToBson` keeps the first half of the hashes, as
the loop of `mongodb_backend.c:293` does.

`Catalogue` stores versions (a line may be stored in part, an insertion may fail) and
answers queries: `ReadOneBuffer` and `ExtractLines` read the file a buffer at a time and
keep what is left of a line for the next one, while `FileStoreSmeta` appends;
`MongodbGetListOfFiles` is the search. `AsSaved` says what a version has become on its
way; `Plus`, `Misdated` and `Torn` name the queries and the lines for which nothing is
promised.

### ObjectStore

Each thread has a `call` at the library, which is answered (`Perform`), retried (`Retry`)
or returns to its caller (`Returns`), who reads `statusG` and not the status of its own
call. `StoreData`, `CheckBucketAccess`, `AddBucket`, `SaveFilemeta` and `SaveData` are
`minio_store_data`; `BuildNeededHashList`, `CheckDataBucket` and `CheckKeyExistInBucket`
the answer to a list of hashes; `RetrieveData`, `GetFilemetaValues` and `GetData` a block
that is asked for. `flawed` holds the blocks a put of which failed or went to the fallback
bucket: the code looks at neither. `unneeded` holds the blocks that an answer left out of
what it asks for, each with the reason: it was found by the call's own status, by another
call's (`misled`), or the bucket was not reached and the answer is an empty list
(`unreached`). `UnneededIsStored` is about the first ones; what the code makes of the
others, a client that sends nothing and caches its file, is no property but a defect that
the model contains (hazard `minio_backend.c:767`).

All the tries of a call share one stream: `passed` says whether the data of the object
have gone through it. A get that is tried again after it was answered, because another
thread has set `statusG`, appends the block to the one it has (`Content` is then
`repeated`); a put that is tried again finds its stream consumed and fails (`Statuses`).
What `GivenIsContent` calls the content is what was put (`Image`), which is the beginning
of a block that has a zero byte in it.

## Runs

| run | instance | shows |
|---|---|---|
| `outbox` | 1 file of 3 requests, 1 crash, 1 lost answer | `NothingLost`, `MarkedWasPosted`, `OnlyPostedLeaves`, `RepostNeedsFault`, `SaveReturns` |
| `outbox_alive` | 1 file, no fault | finding: `AliveWhenUp` is violated |
| `ingest` | 2 connections, 2 meta data, 2 hashes, arrays of 2, 2 requests, 1 stop, 1 fault | `VouchedIsHeld`, `NeededOnce`, `OneBlockPerFault`, `CompleteStays`, `QueuedIsStored` |
| `savefile` | a small file `h1 h2 h1`, a big one `h2 h2 h1`, buffers of 2 blocks, 1 crash | `ListIsContent`, `CachedIsSafe`, `NeededIsInMemory` |
| `savefile_unread` | the same, no crash | finding: `EverythingTransmitted` is violated |
| `backup` | a small and a big file, 2 connections, 1 stop of the server, 1 fault | `AnswerIsWorth`, `CachedIsHeld`, `ClientSpec` |
| `backup_restart` | a file of one block, 1 stop of the client, 2 lost answers (a kept row can be lost again) | `ServerSpec`, `CachedIsRestorable` |
| `restore` | a file `h1 h2 h1`, batches of 2, 3 posts by others, 1 stop, 1 fault or 1 failed read | `RestoredIsContent`, `UncompressIsSafe`, `RestoreEnds` |
| `versions` | a link without target, a directory, a file in it with the link's base name, 3 times, 3 versions, any request, file or directory failing | `LatestIsRestored`, `AskedIsRestored`, `NothingOverwritten` |
| `discover` | a directory to monitor with a directory and a file in it, another one that the configuration names by a link, with an excluded file, 2 writes, 1 rename, 2 starts, a kernel queue of 1 event, 1 error | `LastVersionSaved`, `SavedOnce`, `Settles` |
| `objectstore` | a connection and the data thread, 2 blocks, one that is cut and one that can not be stored, 2 posts, 2 requests, 1 outage, 2 starts | `UnneededIsStored`, `StoredIsInBuckets`, `GivenIsContent` |
| `catalogue` | 4 versions to choose from, 3 saved, one line torn, 4 queries to choose from, one answered | `AskedIsListed`, `ListedIsSaved` |

The bounds, and why they are enough:

* `NbReq = 3`: a transaction of `reconnected` can fall between the three calls of the
  save thread for one request while others are already kept, and ids are given to rows
  after others were deleted.
* `MaxCrashes = 1` in Outbox: the invariant is inductive and proved for any number;
  one crash already meets every place of both threads.
* `MaxLost`, `MaxFaults`: posts whose answers are lost and writes that fail. The proofs
  of Outbox and Ingest are for any number; `RepostNeedsFault` counts them.
* `MaxRequests` bounds the requests the server receives. Two of them on two connections
  are enough for a block to be asked for while it is being created, or sent twice with
  different compressions and restarted upon, or for the meta data of one to be joined to
  what is left of the other's; Restore has three. In Backup the ten it
  allows are never reached: the posts of the client, and its retries, are fewer.
* `MaxTroubles = 1` in Restore: a stop, a failed write or a failed read. The proofs are
  for any number of each.
* `Batch = 2` with a file of three blocks: a full batch and one that is not, with the
  same block in both.
* `MaxLines = 3` in Versions: two versions of the same second and a third file that
  wants the same name, so that the number itself is taken. Two of the three times are
  the same local time, as when summer time ends.
* `QueueLen = 1` in Discover: the second event before the first is read is dropped.
  `MaxWrites = 2` and `MaxRenames = 1`: a file changes while it is read, while it is
  queued, or after; or it takes the name of the other one. `MaxStarts = 2`: what changed
  while the client did not run. `MaxErrors = 1`: an error of any kind, at any moment;
  the proofs are for any number, and for any names and mounts (`Prefixed`, `OnMount`). The
  excluded file is there to be renamed: its own last version is not looked for.
* `Chunk` and `TornAt` in Catalogue: a buffer ends inside a line, in a name of a user
  that has a comma, a quote and an end of line in it, and a line is torn before or after
  the twelfth comma. One query is enough: an answer depends on nothing an earlier one
  left. Times are small numbers; `MaxInt32 = 7` puts the overflow among them.
* `MaxOutages = 1`, `MaxStarts = 2` in ObjectStore: the store is lost between any two
  calls, and `retriesG` goes below zero; two starts for what a crash left half put.
* `MaxArray = 2`: a hash repeated in one array, and two different ones.
* `BufferLen = 2` with files of three blocks: one full buffer and one that is not, with
  the same block on both sides of the limit.

No run checks deadlock: a server that has received its bounded number of requests, a client whose files are all saved and a
program that has restored its file have nothing left to do.

Fairness: the operating system schedules every thread, hence weak fairness of each
thread's steps. The save thread of Outbox has strong fairness: `reconnected` takes the
mutex of the connection again and again, but sleeps `CLIENT_RECONNECT_SLEEP_TIME`
between two passes, during which a waiting thread gets it. Nothing is assumed of the
network, of users or of crashes, apart from the bounds on their number; in
`backup_restart` a post that was cut fails in the end, which is what TCP and curl do, and
the stops and lost answers are bounded. In `discover` the three threads of the client are
scheduled, the users do what they want. In
Restore the program and the server's thread for its request are scheduled (`FairSpec`);
nothing is assumed of the rest of the server.

## Proofs

`OutboxProofs`, `IngestProofs`, `SaveFileProofs`, `BackupProofs`, `RestoreProofs`,
`DiscoverProofs`, `ObjectStoreProofs` and `ListingProofs` (of `Versions`, `Records` and
`Catalogue`) prove, for any files, trees, connections, hashes, lengths and bounds, what
follows. The only assumptions are those of the modules, which the runs evaluate:
`ConstantsAssumption`, `ArraysFit` of Backup, and in Records and Catalogue

* `TextAssumption`: base64 and hexadecimal forms are those of one text or hash, hashes
  have one length, no two texts are written alike;
* `TokenAssumption`: the tokens of a line can be told from each other, and no base64 or
  hexadecimal form is a mark, which holds of their alphabets;
* `MetaAssumption`: what clients send has numbers where the JSON has integers, texts for
  its names, hashes in its list, and no mark in the names of users and groups;
* `QueryAssumption` and `CatalogueAssumption`: queries have the fields
  `init_query_t` gives them, their dates are dates, the user who asks matches his own name and
  is not called `(null)`.

The theorems:

* `NothingLostCorrect`, `MarkedWasPostedCorrect`, `OnlyPostedLeavesCorrect`. `IInv` says
  the same of both views of the tables (`TablesInv`): ids are unique and not above the
  last one given, marked rows were posted, requests of cached files are safe. The two
  views are needed because a crash replaces one by the other. It adds what links the
  threads to the tables: requests the save thread has handled are safe *in both views*
  before it writes the cache (`Handled`), because the cache entry may be committed by
  the other thread; and no deletion is ever pending (`disk.buffers \subseteq
  conn.buffers`), so that a COMMIT of either thread takes nothing away but what
  `reconnected` deletes itself.
* `RepostNeedsFaultCorrect`. `PostsInv` counts, for each request, the posts already done
  and those that are still owed without any further fault (`Owed`): one by the save
  thread as long as it has neither posted nor kept the request, and one by
  `reconnected` for a row it may still send. A lost answer turns the post that was done into one
  more that is owed; a crash gives the save thread its post back and, when the row was sent and not
  marked yet, `reconnected` too. It is inductive with `IInv`, which it needs for the ids of the rows.
* `VouchedIsHeldCorrect`, `NeededOnceCorrect`, `CompleteStaysCorrect` and
  `OneBlockPerFaultCorrect`. The first holds with lines stored in part because the meta data
  whose line is joined to such a part joins `harmed` with it. The last one counts: `Cardinality(Spoiled) + SpoiledSoon <=
  crashes + faults`. A block in hand will be readable as soon as it is written unless
  its `.meta` file could not be written (`Mislabelled`), in which case the fault that
  spoils it has been counted before the block is spoiled: `SpoiledSoon` is that credit.

* `ListIsContentCorrect`, `CachedIsSafeCorrect` and `NeededIsInMemoryCorrect`. `OrderInv`
  says that what was read of a big file, reversed, and what was not, make its content:
  `Content[file] = Reverse(hdl \o savedList) \o unread` while reading, without `hdl` once
  the buffer has been copied to `savedList`. `BlocksInv` says where each block of the file
  in hand is before it is safe. `PickInv` is what makes `find_hash_in_list` find its
  block though each block found leaves the list: either the list of needed hashes *is*
  the list in memory (no answer) and both lose their first element together, or it has
  no hash twice. The lemmas before it are about sequences: what `RemoveAt`, `Reverse`
  and prepending do to their elements, and the least index of an element, which exists
  because the order of the naturals is well founded.

* `ClientSpecCorrect`, `ServerSpecCorrect`, `AnswerIsWorthCorrect` and `CachedIsHeldCorrect` join the two
  sides. `BInv` holds the invariants of `SaveFileProofs` and of `IngestProofs`, both used
  by `INSTANCE`, and what links them: `SavingInv` and `ResendingInv` say of the request
  of a post under way that what it has still to push (`Due`) and what the server vouches
  for already cover what is posted, and that the hashes it asks about are to be looked
  for, found missing, or vouched for (`Asked`). `GoesOn` is why no other connection and no
  store thread takes this away; a stop of the server takes the request with the
  connection. When the request is answered nothing is due any more, which is the answer
  `SaveFile` assumes: `AnswerIsWorth`, and the client implements `SaveFile`. A cached file
  is then held because what is safe for one side (`CachedInv`) is vouched for or kept, and
  what is vouched for is held on the other (`VouchedIsHeld`). The server implements
  `Ingest` because `LengthsInv` and `FitRows` bound what is posted, at once or by
  `reconnected`: never an empty array, and never more blocks than a buffer or a small file
  has, which `ArraysFit` says are no more than `MaxArray`.

* `RestoredIsContentCorrect` and `UncompressIsSafeCorrect`. `PiecesInv` says that what was
  written, what the thread has read, what is asked for and what is not, in this order,
  make the content of the file but for the blocks that were unread, as long as it is
  sound. `ReaderInv` is what `data_thread` must not break between
  two reads of the thread: the compression that was read is that of the file now, of the
  bytes that were read, and of the block being stored, if it is the same one. The types
  of the server are those of `IngestProofs`, used by `INSTANCE`; the lemmas there are
  about `AnyNext`, the steps of the server with requests of any length, so that they
  also hold for the requests others send in `Restore`.

* `LastVersionSavedCorrect` and `SavedOnceCorrect`. `WorkInv` says where the work about a
  file is: for each file there is no excuse for, either something tells of it *with the
  date it has now* (an event, the queue, the job of the save thread, a row of the cache),
  or the carving has still to go through a path above it. `ReadInv` says that dates that
  were read are never later than the one the inode has, and `SameContent` that a content
  that was read with the present date is the present one: together they make a row of
  the cache worth what it says, because dates are read before contents. `JobInv` adds
  that what the save thread reads was not in the cache, which is `SavedOnce`. The tree
  may have any depth without an induction over it: `Above` is what the sets closed under
  `Parent` have in common, and `OneStepNearer` finds the next directory on the way by
  leaving one out of such a set. Paths may lead out of the monitored tree. Nothing
  is assumed of `Prefixed` nor of `OnMount`: a file whose event is filtered out or never
  made is in `missed`, and so is what `LeftOut` says of a directory an error kept from
  the carving. What is left to show is that the others are still told of.

* `UnneededIsStoredCorrect`, `StoredIsInBucketsCorrect` and `GivenIsContentCorrect`.
  `LengthsFirst` is the heart: a block whose data are an object has its lengths as one,
  or is flawed; it is why an answer that looks at the data alone is worth something.
  `ConnectionsInv` and `DataThreadInv` say what is known of each call in its own terms
  (`call[t].status`), never from `statusG`, which any thread overwrites: an answered put
  has its object, a `head` answered `ok` has its data, and a `get` of a block that was
  stored is answered `ok` or `failed`, and has gone through its stream once unless the
  call is `confused`, that is tried again because of another call's status.
  `UnneededIsStored` needs the reason of each block left out: it is proved of those
  that were found, and of no others. `DataThreadInv` also says that an object that
  goes to a bucket it is not looked for in is one of a flawed block.

* `LatestIsRestoredCorrect`, `AskedIsRestoredCorrect` and `NothingOverwrittenCorrect`.
  As long as nothing fails (`Untroubled`),
  `Restoring` says that what was restored and what is left of the list are, at each step,
  the versions asked for, each once, and each restored one alone under its name;
  `Listing` that what was printed and what is left are in order. `ListOfFiles` and
  `FilesFromServer` are what makes them true when a query starts: `SortedKeeps`,
  `ReverseKeeps` and `KeepLatestsKeeps` say of a list that it still enumerates what it
  enumerated, that versions of one name and one date stay in the order of the lines, or in the
  opposite one, and that what is kept of each name is its latest version.
  `KeepLatestsKeeps` is an induction along the fold, and `UniqueIsFree` finds the free
  name that `get_unique_filename` stops at because a finite directory cannot hold all the
  numbered names. These inductions are over sets of naturals (`Least`, `Induction`),
  which the well-foundedness of their order gives.

* `AskedIsListedCorrect` and `ListedIsSavedCorrect`. `FileOK` says that the text is the
  lines of the versions, one after the other, up to the first line that was stored in
  part; `LineOK` and `FoundOK` say that a connection has found the versions whose lines
  end before the one it is reading, and that this one begins where a line does. Three
  facts carry them. A line is read back as it was written: it has twelve commas outside
  its quotes, an even number of quotes and no other end of line than its last token
  (`Layout`, `SplitWhole`, `FieldsRead`, `TextOfLine`). A buffer may begin or end anywhere: where
  a line ends does not depend on what follows it, and no end is seen inside a line
  (`EndWhole`, `EndPart`, `NeverInside`, `BufferRead`), so that nothing is lost between
  two reads, whatever is appended meanwhile. A document is read back with half of its
  hashes, in their order (`DocumentRead`, with `PairsRead` and `HashRead` for the hexadecimal
  form). The lemmas about folds are inductions along sequences, over sets of naturals again.

Each is one lemma per action, a lemma for the initial states, and a temporal step.

Only model-checked: the liveness properties (`SaveReturns`, `QueuedIsStored`,
`CachedIsRestorable`, `RestoreEnds`, `Settles`), which the prover does not reach.

## Findings

* `is_server_alive` returns FALSE for a server that is up as soon as `reconnected` has
  posted one row (`outbox_alive`): the handle still posts. Rows that are kept after its
  first pass stay until the client is restarted; `CachedIsRestorable` states the
  exception.
* A file that could not be read to its end is cached as if "everything has been
  transmitted" (`savefile_unread`); the list of a big one is moreover reversed.
  `SaveFile` marks such files (`flawed`) and states its other properties without them.
Disagreements the models contain, and that no run singles out:

* A block file of a compressed block does not have the sum that is its name, as the
  comment above `file_store_data` says it should: the hash is that of the uncompressed
  block. A block whose clients use different compressions (two files, replaced one after
  the other) is unreadable between the two; `sound` is where Restore says so.
* `get_unique_filename` frees a string that `create_file` frees again when a name is
  taken (`files.c:634`): the program may stop before the other files (`CreateFile`).
* All versions of *one* file are asked for by using its name as a regular expression
  (`restore.c:749` and `836`): versions of other files may be restored too (`Like`).
* With `--parents` a directory is restored as an empty file, which then blocks the files
  in it; links are made without their directories; a link whose target does not exist
  is not seen by the search of a free name. Dates of links are not restored.
* `uid` is sent as `gid` (`packing.c:388`): with the file backend users whose two numbers
  differ are told of none of their files.
* mongodb documents have the first half of the hashes; the search looks at neither uid,
  gid nor the beginning of a date, takes names of users as regular expressions that
  ignore the case, and reads its other dates in 32 bits.
* The base64 of a regular expression goes into a URL unescaped, where a `+` is a space.
* A line that could not be written whole is joined to the next one, which is written
  without an error: both are lost (`Ingest.StoreSmeta`, `Catalogue.FileStoreSmeta`).
* A block the server fails to read is left out of the answer, and a file of meta data it
  can not open makes an answer without a list: `cdpfglrestore` prints no error, and
  writes a shorter file, or nothing (`Restore.LeaveOut`, `Versions.NoFiles`). It prints its
  errors about requests and goes on all the same.
* Events are filtered out when a monitored directory is named by a relative path or by
  a link (`normalize_directory` only replaces the `~`), and a mount that can not be marked is
  not watched: what changes there is only found by the next start (`Discover`).
* No event of the kernel's is filtered out by the name of the program, which is compared
  with a name the program does not have.
* In the minio backend a caller may read another call's status, the fallback bucket is
  never read, the result of a put is not looked at, a block is cut at its first zero byte
  (`minio_backend.c:868`) and ends the server if it begins with one, a missing object is an
  empty block, a bucket that is not reached makes an empty list of needed blocks, a get
  that is tried again after it was answered gives its block twice, and `retriesG` may go below zero, after which failed calls are tried for ever.

## Not modelled

Reading of the configuration and options, formatting, logging, clocks, sockets. The
statistics of the server are counters that are printed and that nothing reads. libcurl,
sqlite, glib, libs3, mongoc and libmicrohttpd are modelled by what the code relies on.
Errors of the database itself are not: the code prints them and goes on.

Left out of modelled parts: the choice of the sizes of blocks and of buffers
(`calculate_file_blocksize`: a file is a sequence of blocks); the directories of block
files; a file of meta data that was opened and can then not be read, which
`get_file_list_from_regex_and_query` reads for ever; the pair of a file backend for meta data and a minio backend for data, whose
settings the code confuses; in Catalogue the order of the list, read errors, and what
the fields of a torn line hold; in ObjectStore a call that breaks off after it reached
the store, and the functions of the command line program `minio_interface.c` comes from; in
Versions more than one level of directories, and names that change their kind; in
Discover files with several names, and directories that are made or renamed.

## Plan

In this order:

1. The size of buffers as a variable of `SaveFile` (`calculate_file_blocksize` changes
   `opt->buffersize` for good), and the directories of blocks.
2. The order of the list of `Catalogue` joined to that of `Versions`.
