# A TLA+ verification project for Arsenal

Arsenal is the common library of Scality's S3 servers: metadata backends with
object versioning, listing algorithms, RPC, policies, S3 routes, data backends.
This directory holds TLA+ modules that model its logic, the TLC configurations
that check them, and proofs that TLAPS checks.

    tlc -workers 2 -config Network.cfg MCNetwork   # a model-checking run
    tlapm WriteGathering_proofs.tla                # a module of proofs (eight of them)

`PROJECT.json` lists the components, the runs, the mutants of every property, the
source lines behind every definition, the findings, the hazards and the
theorems. Paths below are relative to `src/lib/`.

The code runs on node.js: one turn of the event loop runs to its end, so an
atomic step of a model is a turn: a call from outside, the callback of a database,
a timer, a message of another process. Everything that a turn calls synchronously
is part of its step.

1. [Inventory](#1-inventory) · 2. [Plan](#2-plan) · 3. [Modules and the code](#3-modules-and-the-code) ·
4. [The runs](#4-the-runs) · 5. [Proofs](#5-proofs) · 6. [Findings](#6-findings) · 7. [Not modelled](#7-not-modelled)

## 1. Inventory

### 1.1 The file metadata server (one process, LevelDB)

Requests come through `storage/metadata/file/MetadataFileServer.js` and pass
three layers, each an object with state shared by all requests:

    VersioningRequestProcessor  put / del / get of an object, versioning options
      WriteCache                get / batch: isolation of read-compute-write updates
        WriteGatheringManager   get / list / batch: one batch in flight per database
          metadataAPI           get / list / batch on LevelDB, with the record log

| component | state | operations | interacts with |
|---|---|---|---|
| Write gathering (`versioning/WriteGatheringManager.ts`) | per database: the cached batch with its timer, `isCommitting` | `batch`, the 5 ms timer, the callback of the commit | called by the write cache; calls the database; calls back the requests |
| Write cache (`versioning/WriteCache.ts`) | per key: the value being written with a signature, the queue of reads, the lock of the dequeueing; a counter | `get`, `batch`, `_dequeue`, `_cacheClear` | runs the callbacks of the processor synchronously, which call `batch` again |
| Versioning (`versioning/VersioningRequestProcessor.ts`, `Version.ts`, `VersionID.ts`) | per key: the queue of gets that wait for a listing, the repair timer; the version id counter | `get`, `put`, `del` with the options of versioning, listing, `repairMaster` | reads and writes through the write cache, gets and lists past it |
| Record log (`storage/metadata/file/RecordLog.js`) | per log: the next sequence number, the waiters for it | `createLogRecordOps`, `readRecords` | its records join every batch |
| File metadata client (`storage/metadata/file/BucketFileInterface.js`) | cached counts | bucket and object operations over RPC | the server above |

*Hard:* turns of many requests interleave at every database call; a write answers
reads that were queued for an older database read; a failed commit takes the batch
gathered behind it down; a deletion leaves a place holder ("PHD") as master, which
a timer or a get replaces 15 s later from a listing; a listing is shared by the gets
that arrive during it; records are numbered before their batch is committed. *Correct*
means: every request is answered once and truly, updates of a key are serial, the master
key always ends up as the latest version, there is one null version, a deleted version
stays deleted, a place holder never reaches a client and never stays, and the log tells
what the databases hold.

### 1.2 The MongoDB metadata backend

`storage/metadata/mongoclient/MongoClientInterface.js` does the same work over
single-document atomic operations, with many processes at once: four cases of a put
(`putObjectVerCase1-4`), a deletion in two phases (a flag, then the removal), place
holders and their repair, retries on duplicate keys. `algos/stream/MergeStream.js`
merges the two streams of a v1 listing; `ListRecordStream.js` and `LogConsumer.js`
follow the oplog. *Correct* means the same as above, under races between processes
and crashes between two operations.

### 1.3 Listing algorithms and the gap cache

`algos/list/*` are filters over an ordered stream of keys (`delimiter`,
`delimiterMaster`, `delimiterVersions`, the lifecycle ones, MPU, basic), `skip.js` jumps
over ranges: *correct* means that all pages together are the listing defined over the
whole set of keys, and that a skipped range held nothing to return.
`algos/cache/GapCache.ts` remembers ranges of keys without a live master for
`delimiterMaster` to jump over: three `GapSet`s (staging, frozen, exposed), two sets of
updated keys and a timer. `algos/cache/LRUCache.js`, `algos/heap` and `algos/set` are containers
whose state is redundant (a map and links; an array and its order; two arrays). *Hard:* a page may end at any entry, with a null key held
back, a gap half built; a listing reads, a writer writes and invalidates, and the gap is
saved after both; a lookup yields between the gaps of a chain.

### 1.4 Processes and networks

| component | state | hard |
|---|---|---|
| Cluster RPC (`clustering/ClusterRPC.ts`) | primary: results and requesting worker per uids; worker: promises and timers per uids | timeouts against results, duplicated results, workers that exit or are forked in the middle, uids used again |
| Worker supervision (`Clustering.ts`) | workers, their status and kill timeouts | a restart racing a stop; handlers that read the table at the time of the event |
| RPC and its streams (`network/rpc/rpc.ts`, `sio-stream.ts`) | pending calls; streams with a window of acknowledgements | late answers after a timeout, end or error with data in flight, which side lets go of a stream |
| KMIP (`network/kmip/*`) | the pipeline of callbacks, deferred requests, the socket | answers matched by order across errors and reconnections |
| Round robin (`network/RoundRobin.ts`) | the current host and its remaining calls | - |

### 1.5 Data

| component | state | hard |
|---|---|---|
| Data wrapper (`storage/data/DataWrapper.js`, `MultipleBackendGateway.js`, the clients) | none of its own; a metric per location, kept outside | objects of several locations of which one fails; retries of deletions that may have been done; data that two requests put under the same external key |
| Multipart uploads (`s3middleware/processMpuParts.ts`, the clients of Azure and AWS) | parts kept by the API, blocks or parts kept by the provider | parts put again, copied and completed in any order; a list that is wrong |
| Parts on Azure (`s3middleware/azureHelpers/*`) | the sub-stream in progress, the results that came | results out of order, failures between them, a client that goes |
| Managed upload to Google Cloud (`storage/data/external/GCP/*`) | parts, slices, compositions | a failure with parts in flight; clean-up |

### 1.6 Decisions and documents

| component | what it decides | hard |
|---|---|---|
| Policy evaluation (`policyEvaluator/*`) | whether a request is allowed | tag conditions are evaluated a second time when the tags have been fetched; the context is serialized between processes |
| Models (`models/LifecycleConfiguration.ts`, `ReplicationConfiguration.ts`, `NotificationConfiguration.ts`, `ObjectLockConfiguration.ts`; `s3middleware/tagging.ts`, `objectRetention.ts`, `objectLegalHold.ts`) | what of an XML document is stored, and how it is given back | every optional element, defaults, conversions: what is put back must be what was got |
| Lifecycle helpers (`s3middleware/lifecycleHelpers/*`) | which rules apply to an object | several rules, days against dates |
| S3 routes (`s3routes/*`) | the bucket, the key and the method a request names; how data is streamed into the answer | addressing styles; a source that fails after the headers |

### 1.7 The rest

Authentication, HTTP and REST servers, probes, metrics, errors, in-memory metadata,
metadata proxies, `ObjectMD` and `BucketInfo`:
formatting, accessors and tables, or forwarding. They are listed in `PROJECT.json` with
the reason.

## 2. Plan

Built, in this order (the most shared code first):

1. `WriteGathering`: everything that is written passes it. `CommitQueue`, what it
   promises, and `WriteGathering_proofs`: the refinement proved.
2. `WriteCache`, which extends it, with `WriteCache_proofs`; `Versioning`, which contains the whole path of a
   request, with `Versioning_proofs`; `RecordLog` below them, with `RecordLog_proofs`.
3. `GapRanges` (operators), `GapSet` (against covered stretches), `GapCache` (with time), and
   `Gaps_proofs`: what the loops compute, and the invariants.
4. `ClusterRPC` with `ClusterRPC_proofs`, `RpcStreams`; then the other components on the network:
   `MergeStream`, `KmipClient`, `Supervision`; `Network_proofs` for the streams and the KMIP client.
5. `MongoVersioning` with `MongoVersioning_proofs`.
6. `ListingFilters` (operators), `Listings` (against a reference).
7. `PolicyEvaluation`, and the configurations: `Configurations`, `LifecycleConfiguration`
   (operators), `BucketConfigurations`.
8. `GcpUpload`, `AzureParts`, `MultipartUpload`, `DataWrapper`, `S3Requests`.
9. `RecentlyUsed`, what a bounded cache promises, `LruCache`, which implements it (proved
   in `Gaps_proofs`); `Collections`, the heap and the sorted set.

Next, in this order:

1. Proofs: `OneNullVersion`, with a null version in the invariant of `Versioning`; `MasterIsLatest`
   with puts and deletions together, where no put begins during a repair.
2. Refinement: an atomic register implemented by `WriteCache` for callers that only update.
3. `BucketFileInterface` (creation of buckets, cached counts), the buckets of MongoDB and
   its counters (`DataCounter`), `RoundRobin`.

## 3. Modules and the code

An `MC` module gives a module its instance. Five of them put components that share
nothing side by side in one run, and let one of them take steps in each behaviour (the first variable
of the module says which; a property of one component says nothing of the behaviours of the others,
where its state stays as it was): `MCClusterRPC` (the cluster; the write gathering and the
record log of `MCWriteGathering`), `MCGaps` (gap cache, gap set, LRU cache, heap, sorted set; the object of
`MCVersioning`), `MCNetwork` (streams, merge, KMIP, supervision), `MCListings` (the listings; the policies
and configurations of `MCDocuments`), `MCStorage` (the five parts of 3.7; the write cache of `MCWriteCache`).
The others are compositions: `WriteCache` extends `WriteGathering`, `Versioning`
contains both, `MultipartUpload` contains the operators it extends.

### 3.1 The metadata server: WriteGathering, CommitQueue, WriteCache, Versioning, RecordLog

**WriteGathering.** One database (two share nothing). An operation is `[req, index]`; what
it writes does not matter here. `batchCache`, `timer`, `inFlight` are `dbState.batchCache`,
its timer and the batch of the commit in progress (`isCommitting`). `Batch` is `batch()`;
`CommitOnTimeout` and `DeferOnTimeout` are `_commitBatch()` from the timer, without and
with a commit in progress; `CommitDone` and `CommitFailed` are the callback of
`db.batch()`, with the follow-up commit or the give-up of the gathered batch in the
same step. `DbApply` is external: LevelDB applies a batch atomically; a commit fails
only before it is applied (the call is synchronous to disk in this server).
A callback hangs on the entry of index 1 only, as in the code.

**CommitQueue** is the abstract specification: requests wait in a queue, the database takes
whole requests from its front, they are answered, or everything that waits fails. There are
no timers, batches or deferrals. The refinement mapping (`Queue` in `WriteGathering`) takes
the batch in flight until it is applied, followed by the gathered one, for the queue, and the
callbacks of the applied batch for what is written and not answered.

**WriteCache.** One key, the master of one object: no other key is read through the cache.
The kinds of requests are those the processor makes: updates that read and then write, reads
whose computation does not write the key, puts and deletions that do not read. `Turn`
is the effect of one turn, so that the nested calls (a write dequeues reads whose
callbacks write) are functions over it: `NestedBatch`, `Callback`, `CallAll`, `Dequeue`, and
`Finish` applies it. `DbRead` / `DbGetDone` split a database read in the moment it sees
the data and the moment its callback runs, so late answers are possible; an answer for
a queue that a write has emptied is ignored (`signature`).

**Versioning.** One object on one server, all three layers. A value has the fields the code
decides on. Version ids are numbers; newer is smaller, as in the code; ids that clients give
can be older or newer than the master. `BlindOps`, `SpecificPutOps`, `OverMasterOps`,
`SpecificDeleteOps`, `RepairOps` are the arrays of operations that the processor
computes, null version bookkeeping included. The layers below are functions on a `Turn`,
as in `WriteCache`. `GetRead`/`GetDone` are gets past the cache,
`GetByListing`/`ListRead`/`ListDone` the shared listing and the repair that follows it,
`RepairTimeout` the 15 s timer. A client's sequence of dependent calls is `After`. A
behaviour begins in one of the `Scenarios`, which fixes the object, the requests made,
and whether the database may fail.

**RecordLog.** The batches that the write gathering of several databases hands over: those of
one database follow each other, those of two are in flight together. `BatchCalled` is
`batch()` of the server; `FindNextSeq` waits for the lookup of the last number or for the
next turn; `LookupEnds` and `ImmediateFires` number the operations and hand them to the
database with their records in the same turn (`RunCalls`), `BatchApplied` and `BatchAnswered`
are LevelDB and its callback. A lookup that fails takes the server down when a batch waits
for it (the error is not looked at and the records are missing). `Restart` drops all but the
database. The consumer reads page after page from the end that a page announces.

### 3.2 MongoDB: MongoVersioning

One object in both key formats; a process per request; a step is one operation on one document
with the turn that its answer starts. `pc` is the operation a request executes next, so a crash
can come between any two. `FindMasterToPut` and the `Write…` actions are the four cases of a put with
their filters, upserts, duplicate-key errors and retries; `FindMasterToDelete`, `PlaceHolder`,
`Flag`, `Remove`, `DeleteOrRepairPHD` the deletion with its flag; `RepairReads` and `RepairWrites` the
timer of a place holder and its conditional replacement; `Read` the gets; `Crash`, `OperationFails`,
`RepairFails` what goes wrong. `unchecked` is
history: what the master has undergone that no filter of a write prevents: it was "replaced" by a
place holder older than a version, "inserted" by a put older than a version where there was none, "restored"
by a repair where there was none, "removed" although a version had been put meanwhile, or "marked" by a repair
with a delete marker in the v1 format (see section 6); a property that cannot hold after it says so.
`Read` takes the two documents of `getObjects` (the version and the master, one query) in one step.
`LongDelay` says that the 15 s timer of a repair outlasts the requests which had begun when it was armed.

### 3.3 Listings: ListingFilters, Listings

The filters are functions from their state and an entry to their next state (with the flag
that asks the iteration to end or to jump). A string is its position in the order of keys, so
prefixes, folders, markers and the bounds of ranges keep their relations. `Listings` is the
iteration (`internalListObject()`, `Skip`) page after page; `WholeListing` is the reference: the
listing defined over the whole bucket at once.

### 3.4 In memory: GapRanges, GapSet, GapCache, RecentlyUsed, LruCache, Collections

`GapRanges` holds `setGap()` in its four steps, the loop of `removeOverlappingGaps()`,
and the lookup, as operators on sets of gaps; keys are numbers. `GapSet` applies them in
any order and compares with the covered stretches. `GapCache` adds the three sets, the
updated keys, and explicit ages: of the interval and of each listing. External, from
how `delimiterMaster.ts` and CloudServer use the cache: a listing reads its snapshot at
the time it calls `refreshGapCache()`, it saves gaps only while less than
`exposureDelayMs` has passed, and a writer invalidates after its write. A lookup may
yield after every gap of a chain (the code: after 100).

**LruCache** is `LRUCache.js` with its map, its counter and its links; an entry is named by its
key. **RecentlyUsed** is the abstract specification: a sequence of keys, the one used last first,
and their values. The refinement mapping reads the sequence off the links (`Listed`: from the head,
as many as are counted). **Collections** is the heap, an array in which each item is at most its
children, and the sorted set with the operations on arrays it is built on; each is compared after
every call with the bag of items, or the function, that it stands for.

### 3.5 Processes and networks: ClusterRPC, RpcStreams, MergeStream, KmipClient, Supervision

**ClusterRPC.** `CallSets` are the sets of calls made together. The primary, the workers, a FIFO
channel in each direction for each of them, which dies with the worker. `SendWorkerCommand`,
`Timeout`, `ReceiveAnswer` are the requesting side, `ReceiveCommand` and
`HandlerCallback` the executing side, `PrimaryReceivesCommand` and
`PrimaryReceivesResult` the primary with its two tables, `Exit`, `ForgetWorker` and
`Fork` the cluster module (external). A result is the call whose payload produced it.
Callers take uids again only when nothing is left of the former command with them
(`UidFreeElsewhere`, the caller's duty): no message, no handler at work, no results in
the primary; within a worker they may, and are refused.

**RpcStreams.** A call, its timeout, and the stream it returns: the window of
acknowledgements and their timers at the sending side, the queue, the end behind it and the
destruction at the receiving side, both tables of registered streams, and the loss of the
socket. **MergeStream.** Two sources in flowing mode, paused and resumed, and a reader that
pauses. **KmipClient.** Calls of several requests, the transport with its pipeline, deferred
requests and the handshake, over sockets that break, end and are replaced; a drain of callbacks
with an error is one turn. **Supervision.** Slots, their processes (external: fork, exit,
messages), `ready` and `setup`, `stop()` with its kill timeout, called more than once.

### 3.6 Decisions and documents

**PolicyEvaluation.** `EvaluateAllPolicies`, `StandardEvaluateAllPolicies`, the condition
operators with set prefixes and `IfExists`, policy variables, `Principal` and `NotPrincipal`, the
ARN match. A pattern is the set of the values it matches. The actions are those of a request:
serialized to the process that evaluates, evaluated without tags, the tags fetched, evaluated again.

**Configurations** begins with the shape `xml2js` gives to documents and holds the parsers, validators
and renderers of replication, notification, object lock, tags, retention and legal hold as functions;
**LifecycleConfiguration** those of the lifecycle, and the choice of the rules that apply;
**BucketConfigurations** is a client that puts, gets and puts back, and the lifecycle service that
reads rules and applies them.

### 3.7 Data: GcpUpload, AzureParts, MultipartUpload, DataWrapper, S3Requests

**GcpUpload.** `UploadTurn` holds the fields of the upload during a turn (`UploadChunk`,
`ProcessChunk`, `ChunkStream`, `UploadNextSlice`, `CompleteUpload`, `CleanUp` are functions on it);
`requests` are in flight and each is served, fails, or is served and has its answer lost. `upload.missed` is
history: what the removal of a failed upload could not reach.
**AzureParts.** The body arrives in chunks; sub-streams hand over at the size of a sub-part;
blocks are staged concurrently; the collector counts. **MultipartUpload.** Parts put and copied,
and the completion with a list, on a backend that is a constant choice of the behaviour; the answers
of `processMpuParts` and `mpuUtils` as functions. **DataWrapper.** Requests with a `pc`, a retry
counter and the locations they still have to treat; `data` and `sizeMetric` are the backends.
**S3Requests** begins with the functions from a request to its resource and API method; its actions are the
life of one request: routed, answered by the API (external), its data streamed from location after
location, while the client may close and a source may fail.

## 4. The runs

States are distinct states. Each run ends within two and a half minutes.

| run | module | expects | what it shows |
|---|---|---|---|
| `cluster_rpc` | MCClusterRPC | pass, 162,391 | results of a command are complete and its own, with duplicates, timeouts, an exit, a fork, and uids used again; each command settles. Write gathering: no gathered batch is forgotten, replies are true and single, and the manager implements `CommitQueue`. Record log: data and records agree, numbers follow the calls, a reader passes nothing that was written. Everyone is answered |
| `gaps` | MCGaps | pass, 165,163 | neither an exposed gap nor a lookup that yields hides an invalidated live key; `setGap()` covers and `removeOverlappingGaps()` removes exactly what they should; the LRU cache implements `RecentlyUsed`; heap and sorted set hold what was put in them. Seven scenarios of an object: the master is the latest version, one version is null, deleted versions stay deleted, place holders are repaired and no client sees one, everyone is answered |
| `repaired_master` | MCVersioning | violation | finding 1 |
| `mongo_versioning` | MCMongoVersioning | pass, 197,494 | ten scenarios of two to four processes, a crash or an error: the master is the latest version, deleted versions are not served and acknowledged ones are, place holders go |
| `mongo_repair` | MCMongoVersioning | violation | finding 2 |
| `mongo_inverted_puts` | MCMongoVersioning | violation | finding 3 |
| `listings` | MCListings | pass, 598,401 | every algorithm in both key formats: the pages are the whole listing, saved gaps hide nothing, every listing ends. Policies: what is decided, with tags fetched late, is what all statements decide with all tags at hand. Configurations: one that a document can say survives being put back, one that none can say is refused; lifecycle rules act as stored |
| `lifecycle_document` | MCDocuments | violation | finding 4 |
| `network` | MCNetwork | pass, 263,478 | a stream's items are complete and in order and each side lets go of it when it knows the other is over; a merge is exact; KMIP answers go to their requests; workers are supervised; all of them end |
| `storage` | MCStorage | pass, 403,187 | what is answered to be stored is stored, exactly and once, what a failed upload leaves was out of its reach, and what is sent is whole or visibly cut. The write cache, with three updates, a read and a deletion of a key that exists: updates among themselves are computed from the value they replace; no read is lost, no cached value outlives its write |
| `gcp_restart` | GcpUpload | violation | finding 5 |
| `copied_part` | MCStorage | violation | finding 6 |

The scenarios of an object in `gaps`: puts of given versions around a null version behind the
master, with database failures (`nullVersions`); a put under suspended versioning, which
replaces the null version (`suspended`); the client's three calls that put a version over
a null master (`enabled`); two deletions and a get, with database failures (`deletions`);
two deletions, a get of a version and the repair timer (`repair`); a deletion and two puts, one of
which can come between the listing and the repair (`putDuringRepair`); two puts of null versions
by a client without null keys (`olderNull`). Those of
`mongo_versioning`: concurrent new versions (`puts`), deletions of two versions with a get,
a new delete marker, an old delete marker in the v1 format, a put inverted with a newer delete marker
and with a deletion (v1), an update of a version, ingested versions, the deletion of the last version, suspended versioning, and no versioning.

The properties leave the situations of sections 6 and 7 out, each in its own text:

- *Write cache*: `UpdatesAreIsolated` and `CacheIsCurrent` speak of behaviours without blind writes
  (`OnlyUpdates`), on a key that exists to begin with.
- *One server*: `MasterIsLatest` leaves out a version that is put between a place holder and the repair that
  follows it (`PutBeforeRepair`: finding 1); `FairRepairs` leaves out scenarios with a get
  by listing or failures (`RepairIsUndisturbed`); a put without operations is not answered (`PutsNothing`).
- *MongoDB*: `unchecked` excuses the master after writes that no filter guards. `MasterIsLatest` leaves
  out all of them, crashes and errors, `AcknowledgedPutIsServed` "inserted", "restored" and "replaced", `DeletedIsNotServed`
  "restored" alone (finding 2); `PlaceHolderIsReplaced` leaves out crashes and errors.
- *Gaps*: the gap sets have gaps of more than one key, and the delay is not changed during a listing.
- *Cluster and streams*: a command without a timeout need not settle once a process has exited. The reader's side of a
  stream whose source failed stays registered until it is destroyed, as it is told nothing (`StreamsAreReleased`
  says so).
- *Policies*: a Deny that depends on tags hides an Allow of its own policy, and the request is denied without
  asking for the tags (`AllowIsHidden`).
- *Configurations*: what no document can say (`IsUnwritable`: markup where it is not escaped, finding 4, an
  expiration without a time, a replication without a destination) must be refused when put back, and not stored as
  something else; what the lifecycle service makes of days that are no number is left out (`HasTimes`).
- *Google Cloud*: an upload put a second time (`upload.restarted`, finding 5) need only have put the whole body.
- `ForgotAnOrphan`, `IsKept`, `IsKeptWhole`, `IsAddressable`, `raced`, `unnoticed` name the other
  situations left out of the listings, of the data and of the routes; `drifted` that a deletion took place and its
  answer was lost, or that another known cause has put the metric off.

The record log has one log open. What remains is checked under every interleaving.

### Bounds, and why they are enough

- *Requests.* Each is made at most once. Five requests (one of two operations, one of none)
  give `WriteGathering` a batch in flight, one deferred behind it and one still to come;
  three updates, a read and a deletion give `WriteCache` a queue of two behind a read in
  progress, a write that is overtaken, and a key that is gone. (A blind put differs from a
  deletion in its value only.)
- *RecordLog*: three batches of two databases, one of two operations, so that a hole can be
  behind, between and in front of records; a limit of 2 and none (99); a failed lookup and a
  restart.
- *Version ids.* `FirstVid` is the first id to be generated, below the ids present, and
  `InfVid` the oldest one. Ids only meet in comparisons; the runs have one id on each
  side of each that matters.
- *MongoDB*: up to four processes per scenario; one crash and one error (`MaxCrashes`,
  `MaxErrors`): two of them lose two independent repairs.
- *Listings*: four names, a folder, six slots per object (master, null key, versions); pages
  from one entry up; `MaxStreak` of 2 skipped entries before a jump (the code: 100 and more);
  limits on scanned entries of 5 and none.
- *GapSet*: 5 keys, so that three chained gaps with a key to spare exist; weights below,
  at and above the threshold; `WeightBound` caps the weight of recorded gaps in the guard
  of `setGap`.
- *GapCache*: 3 keys, caches of at most two gaps (`GapLimits`); `WrittenKeys` is the last key,
  so that a chain of two gaps loses its second, in which a key came alive, while a lookup is between the two,
  and the first remains to be returned; ages stop at the longest of `Delays`, beyond which no guard tells them apart.
- *LruCache*: four keys for three entries, so that the one evicted has been at the head, in the
  middle and at the tail. *Collections*: five items or keys, two pairs of which compare as equal in the
  heap (three levels, a heap of one).
- *ClusterRPC*: two workers and one to be forked, `MaxExits` exits, `MaxCallbacks` calls
  of a handler's callback; pairs of commands that differ in target, or share their uids.
- *RpcStreams*: four items with a window and a buffer of two, so that the sender stalls and the
  consumer lags; two late acknowledgements, a failure, a disconnection. *MergeStream*: all
  sorted inputs of up to two items of three values. *KmipClient*: a call of one request and one
  of several in a pipeline of two, two broken and one ended socket out of six. *Supervision*:
  two slots, three processes, a crash, two stops.
- *PolicyEvaluation*: statements and contexts chosen to meet every branch of the operators.
  *Configurations*: documents with every optional element present, absent, empty and wrong, among them
  those that are accepted and that no document can say: markup in a prefix, a tag and the id of a notification,
  days that are no number, a replication without destination.
- *Storage*: bodies below, at and above the size of a part and of a slice; one failed and one
  slowed request; two parts, three pieces; two concurrent requests on the data wrapper, each pair once; every
  address and every query of `MCRequests` on a bucket and on a key.
- `CHECK_DEADLOCK FALSE` is set where every request has been made and answered and
  nothing is left to do, and where the components side by side have come to their ends.
- Components that share nothing stand side by side so that one run does not cost the
  interleavings of both: the states of such a run are the sum, not the product, of those of its parts.

### Fairness

Safety is checked without it. Liveness assumes only that node's event loop runs and
that the outside answers: an armed timer fires, the database applies and answers each call
(success or failure is free), messages of running processes are received, a provider serves or
refuses a request, a body that is being sent goes on. Nobody has to send a command, fork a
worker, close a connection or read a page.

Each module states its own: `WgFairness`, `RlFairness`, `WcFairness`, `VrFairness`, `Fairness` of
`ClusterRPC`, `RpFairness`, `MgFairness` of `MergeStream`, `KmFairness`, `SvFairness`, `GuFairness`,
`ApFairness`, `RqFairness`; weak fairness of every request and repair in `MgSpec` of
`MongoVersioning`, `LsFairness` of the iteration of a listing. Where several components stand side by side the specification of the run has
none, and the property takes the formula of the component that runs as its premise
(`FairCommandsSettle` and `FairCallersAreAnswered`, `FairRepairs` and `FairRequestsAreAnswered`,
`FairListingsEnd`, `EveryExchangeEnds` and `FairWorkersAreSupervised`, `EveryStorageTaskEnds` and
`FairCallsAreAnswered`). In `Versioning` and
`RecordLog` it is stated by what it ends: the call in progress ends, through its callback or
through what overtakes it. The repair timer of `Versioning` is taken to fire after the writes of
the master were answered (`cache = <<>>`): it is armed in the turn of the write and lasts 15 s,
against 5 ms and a disk write.

## 5. Proofs

Eight modules hold theorems, each for every value of the constants that its assumptions allow. All
are argued in the same way: an inductive invariant, checked by TLC on the instance of the run before it
was proved; the initial states satisfy it; one lemma per action keeps it; the property follows from it.

| module | invariant | properties of the runs proved |
|---|---|---|
| `WriteGathering_proofs` | `GatherInv`, `FirstInv` | `WaitingBatchHasWaker`, `RepliesAreTruthful`, `ImplementsCommitQueue` |
| `WriteCache_proofs` | `WcInv` | `CacheIsCurrent`, `UpdatesAreIsolated` |
| `Versioning_proofs` | `VersionsInv` | `DeletedStaysDeleted`, `MasterIsLatest` |
| `RecordLog_proofs` | `RlInv` | `RecordLogIsFaithful` |
| `MongoVersioning_proofs` | `ControlOK`, `PutsInv`, `DeletionsInv` | `AcknowledgedPutIsServed`, `DeletedIsNotServed` |
| `ClusterRPC_proofs` | `ClusterInv` | `ResultsAreComplete` |
| `Gaps_proofs` | `GapCacheInv`, `GapSetInv`, `LruInv` | `ExposedGapsAreSkippable`, `LookupsAreFresh`, `RemovalIsExact`, `CoverageIsExact`, `ImplementsRecentlyUsed` |
| `Network_proofs` | `StreamInv`, `KmInv` | `StreamIsFaithful`, `StreamsAreReleased`, `AnswersAreOwn` |

### 5.1 Write gathering

`WriteGathering_proofs.tla`, for every set of requests and every `Size` in
`[Requests -> Nat]` (`SizeAssumption` is the only assumption):

- `WgTypeCorrect`: `WgSafety => []WgTypeOK`.
- `WakerInvariant`: `WgSafety => []WaitingBatchHasWaker`. The invariant is inductive
  with the type invariant.
- `RepliesTruthful`: `WgSafety => []RepliesAreTruthful`. `RepliesAreTruthful` says nothing
  about operations still gathered or in flight, so it is not inductive. The invariant
  `GatherInv` follows every request (`RequestInv`) through the places where its
  operations can be: not submitted, gathered, in flight, in the database, given up;
  in exactly one of the first three before it is answered, all of its operations
  together, the one that carries the callback among them. From it: `CommitDone` answers
  requests whose operations are all in the database, `CommitFailed` requests none of
  whose are, and nobody twice. The lemmas say what concatenation does to the entries of a
  batch (`ElementsOfConcat`, `ElementsOfEntries`), which requests a batch answers
  (`CallbackWithFirst`, `AnsweredOnes`), and what each action does to the three places
  (`BatchEffect`, `DbApplyEffect`, `CommitDoneEffect`, `CommitFailedEffect`).
- `ImplementsQueue`: `WgSafety => ImplementsCommitQueue`, the refinement. It needs one more
  invariant, `FirstInv`: a batch begins with the first operation of a request (so that the
  database never takes the end of a request alone), and only a commit is applied. Each
  action is then a step of the queue or none: `Batch` is `Submit` (`BatchSubmits`), also when it
  opens a batch behind the one in flight; the timers change nothing (`StartCommitKeepsWaiting`);
  `DbApply` is the `Write` of the batch in flight (`ApplyWrites`); `CommitDone` is `Succeed`,
  or nothing when the batch carries no callback (`CommitDoneSucceeds`, `AnswerNobody`);
  `CommitFailed` is `Fail` of both batches (`CommitFailedFails`). `StepsOfTheQueue` puts
  them together.

### 5.2 The write cache

`WriteCache_proofs.tla`, for any requests of any kinds (`KindAssumption`) and any interleaving of the
turns of the event loop with the manager and the database. Three records of the value of one key
are to agree: the cache, what waits in the two batches, and the database. `WcInv` has these parts.

- `ManagerInv` and `QueueInv`: the batches are sequences of operations; a queue of reads and a cached
  value exclude each other, and an answer of the database is for the queue that is there or for one
  that is gone (the signatures of `get()`).
- `NoOrphanCacheEntry`: what is cached is the value of an operation that waits. It needs
  no premise. With it and `CurrencyInv` the theorem is `CacheStaysCurrent`.
- `CurrencyInv`, as long as only updates write: while anything waits, the last value that waits is cached, with
  its signature, and the signatures in flight are below those gathered behind. So the end of a
  commit clears the cache (`_cacheClear`) if nothing waits behind it and leaves it otherwise.
- `ChainInv`, as long as only updates write and the key existed to begin with: the database and what
  waits are one chain, each operation computed from the value before it; and an answer of the database
  for the queue that is there has seen its end (a write in between would have answered the queue). From it
  `UpdatesStayIsolated`.

The premise `Initial # NoValue` of the latter is the code's: when the key does not exist, `_dequeue()` tells
every queued update so, also the second, which then does not see what the first has written (section 6).

A turn is a function over the queued reads, each callback of which may write. `CallsBySteps` says that
what holds before the first and is kept by each holds after the last (by the least number of calls for
which it would not), `CallbackStep` what each keeps: `CalledBack`, that the operations so far continue the chain
from the value that began the turn, with the last one in the cache. So a turn adds one
chain (`DequeueStep`) behind what waits (`TurnEnds`), which keeps each part (`TurnKeepsCurrency`,
`TurnKeepsChain`, `TurnLeavesNoOrphan`). `OnlyUpdatesBefore` says that the premise of a state is also
that of all before it.

### 5.3 Versioning

`Versioning_proofs.tla`, for the whole path of a request (processor, write cache, manager, database),
with any number of calls, in any order, and any failures of the database. `VersioningAssumption` types the constants, keeps
`Master`, `NullKey`, `NoValue` and `Nobody` apart from the rest, and lets a put or a deletion of a version name one.

- `VersionsInvariant`: `VrSafety => []VersionsInv`, the inductive invariant.
- `DeletionsStay`: `DeletedStaysDeleted`, under `OnlyVersions`, `Apart` and ids that have not run out.
- `LatestIsMaster`: `MasterIsLatest`, under the same and `Sorted`. The property itself leaves out a version that is put
  between a place holder and its repair (`PutBeforeRepair`): without that, it is what `repaired_master` violates.

What the premises say of the calls, and why they are there:

- `OnlyVersions`: calls put, delete and read versions by their ids, of an object without a null version. The
  null version has a key of its own and moves between it and the master.
- `Apart`: a version that is deleted is not put as well, and ids are generated below it: putting it again
  brings it back rightly.
- `uidCounter <= FirstVid`: in the model ids count down to 0; the code's come from the clock.
- `Sorted`: the master is the latest version to begin with, and calls either only put versions (of
  an object that exists) or only delete them. Both together do not always leave the master the latest: a put
  older than the place holder that it finds leaves the master alone, and a repair computed from the listing before
  it makes an older version or content the master (finding 1: the scenario `putDuringRepair` of `MCVersioning`).
  Puts on a missing key that are queued behind one read are all told that there is none, and the
  last one to be called back becomes the master.

The scenarios `deletions` and `repair` of the run `gaps` satisfy all of them.

A write is in one of three places: in the database, in the batch in flight, in the gathered one. The
invariant therefore has three images of the key space: `Disk`, `Flown` (after the batch in
flight) and `Line` (after everything). For each it says which versions are gone (`Excludes`), which keys hold what
(`DbOK`) and that the master is the latest (`LatestOK`, where `Sorted`). Neither property is inductive without them: an
entry that waits is not in the database yet, and what it will write there was decided from what was to be
the master then. The rest relates the images:

- *Place holders* (`Agrees`): two images with the same place holder as master have the same versions, but for those
  put. This is what makes a repair safe: it carries a place holder and the latest version from one listing of `Disk`
  (`TaskOK`), writes only if that place holder is still the master of `Line`, and then the version it writes is
  still there. A deletion that meets the place holder writes another, with a new id, which is why ids must not repeat.
- *The cache* (`CacheOK`): a cached value is the master of `Line`, under the signature of the last write of it; an empty cache
  means that no write of the master waits. It holds since signatures grow along the entries (`SigsOK`): when a commit ends,
  `_cacheClear()` finds its own signature only if nothing newer is gathered.
- *Queued reads* (`ReadOK`): they wait with an empty cache, so an answer of the database is the
  master of `Line`, and each callback sees what the ones before it have written.

An image changes in few ways, each a lemma on functions: a put, a deletion that removes the key alone, one that leaves a place
holder, a repair. The entries of one call are then shown to take `Line` from one image to the next, and to leave
`Disk` and `Flown` alone. A step of the server runs several callbacks to completion (`_dequeue()`): `TurnOK`
is the invariant of a turn that has handed some entries to the manager and holds back others, kept by one `Callback`, and by
the sequence of them by induction on their number (`DequeueStep`); `Finish` makes the state of it. Database writes and
commits move entries from one image to the next and change none of `Line`; a failed commit is one that
drops the batch in flight and the gathered one, so that all three images are `Disk` again, and what
was cached goes with them.

### 5.4 The record log

`RecordLog_proofs.tla`, for any batches of any databases, of any numbers of operations (at least one), any
limits of readers and any number of failed lookups and restarts (`RecordLogAssumption`). The property
relates the log to the database, to the order of the calls and to what a reader has passed; it says
nothing of numbers that are given out and not yet written, so it is not inductive. `RlInv` adds
where a batch can be before its records are in the log:

- `CallsInv`: a call that waits for the lookup or for its turn is of a batch that has no numbers and no
  data, and waits once. Of the batches the database works at, the numbers are apart from each
  other's (`Apart`) and below the next one; one that is not applied has none of its numbers in the log,
  and they are behind the records of all batches that had succeeded when it was called
  (`CommittingOK`). A number can so be given again after a restart, but not
  while a record may still be written under it.
- `NumbersInv`: everything in the log is below the next number; as long as that is undefined nobody is
  numbered and nothing is in the database's hands. So the lookup, which has read the end of the log,
  finds a number behind everything (`LastNumber`).
- `HistoryInv`: what succeeded is stored, and a batch was called after successes only.
- `PassedOK`: each number that the reader has passed was given to it or noted as not written.

The waiters of the lookup are called in one turn, each from where the one before it ended
(`TurnOf`, a recursive function): `TurnInv` holds after each of them (`NumberStep`, `ReadStep`), so after all
(`TurnSteps`). A page ends `limit` numbers behind its first record, so all the records below its end are
among the first `limit` that were found (`PageCovers`, by the size of an interval). `RecordLogStaysFaithful`
is the theorem.

### 5.5 Streams of the RPC

The first part of `Network_proofs.tla`, for any number of items, any window, any buffer, any numbers of late
acknowledgements, failures and disconnections, and any `Outcomes` of the call (`RpcAssumption`).
`StreamIsFaithful` speaks of what the consumer got and of the clean end, and says nothing of the
sender, so it is not inductive. `StreamInv` follows the items on their way: what the consumer
got, then what is queued at the receiving side, then what is on the wire, then what the sender buffers,
are the items in order and without a hole (`Chain`: every message on the wire carries the items
from where the one before it ended; `InputOK`, `OutputOK`); the number of pending packets
is that of the unacknowledged ones, and the writer is blocked exactly when the window is used up,
so that nothing overtakes the buffer; the call, its answer and the messages of the stream come in
this order (`InOrder`). From it `StreamsAreFaithful`.

`StreamsAreForgotten` is `StreamsAreReleased`: the server has a stream registered only while its source is open, the client
only until its consumer destroys it; and once the source is over and nothing is on its way, the client has it in two
cases only: the source has failed, of which nobody tells the client (section 6), or the stream ended with an error and was
not destroyed. It needs what a registered stream waits for (`Registered`): the side that
still has a stream has either not ended, or a message on its way that will end it. This is where
the two ends, the errors, the hang-up and the disconnection, each in any order, meet. `RpTypeCorrect`
adds the sizes of the buffers (`Bounded`).

### 5.6 Cluster RPC

`ClusterRPC_proofs.tla`, for any workers, any calls with any uids and targets, any number of
exits, forks and calls of a handler's callback (`ClusterAssumption` says that the primary is no worker
and that null is neither an answer nor an array of them). `ResultsAreComplete`
relates a promise of a worker to what was asked; between them are two channels, the
handlers and the two tables of the primary, all indexed by uids that other commands use too.
`ClusterInv` says that a command is on its way to the primary at one place only
and that nothing with its uids has been started by then (`Apart`); that everything with the same uids,
in the channels, in the handlers and in the table of results, belongs to one command (`Owned`); that
messages and results fit it: a result is its own, the array has a place for each worker asked
and holds results of those that answered (`Belongs`); and that a promise
that is settled with results has all of them and its command is not served again (`Settlement`).
The guard under which callers take uids again, `UidFreeElsewhere`, is what `Owned` rests on: without
it the results of a former command can be those of the next one (section 6). `CommandsAreApart`
is the invariant as a theorem, `CrTypeCorrect` the type invariant.

### 5.7 Gap sets and the gap cache

The first part of `Gaps_proofs.tla` proves what the operators of `GapSet.ts` compute, for any set of gaps that
follow each other, any keys, weights and threshold. The loops are recursive functions. An induction
over their argument is not at hand, but the least number with a property is (`LeastNumber`):
assume that the loop differs somewhere from what is claimed, take the least (or the last) place where
it does, and step over it once. So it is proved that

- the four steps of `setGap()` end in a set of gaps that follow each other (`SetGapKeepsSet`), that
  covers nothing that neither the set nor the new gap covered (`SetGapInventsNothing`), and, without gaps
  of a single key, exactly that (`SetGapCoversExactly`);
- the loop of `removeOverlappingGaps()`, which skips over ranges of gaps and of keys in turn, removes
  every gap that contains one of the keys and no other (`RemovalSpares`).

Two invariants rest on them.

*The gap set* (`GapSetInv`: the gaps are in order, overlap in one key at most, and have several keys
unless callers give single ones): `RemovalsAreExact` without any premise, and `CoverageStaysExact` under
`~SingleKeyGaps`, as the run. The premise is needed: with the gap of the one key 1 in the set, a gap
that begins at 1 and is too heavy to be merged with it is not inserted (section 6).

*The gap cache* (`GapCacheInv`). `ExposedGapsAreSkippable` says nothing of the gaps that are still to be
exposed, so it is not inductive. The invariant adds that a new gap that covers a live key, whose
writer has called back, is known to be stale to the rotation that would expose it
(`NewGapsAreInvalidated`); that the writes which a listing in progress has not seen are remembered as
long as it may call `setGap()`: by one of the next two rotations, and by the second of them if it began
after the last one (`ListingsAreInvalidated`, where the ages of the listing, of the interval
and the delay meet); and that what a lookup must not return is settled (`LookupsSeeSettled`).
`GapCacheInvariant`, `ExposedGapsStaySkippable` and `LookupsStayFresh` have the premise
`~DelayChangesInListing`: the setter of `exposureDelayMs` drops the updated keys while a listing
may still rely on them (section 6). That the rotation exposes nothing which was not staged
(`ExposureInventsNothing`) is again an argument by the least step of the loop.

### 5.8 The LRU cache

The last part of `Gaps_proofs.tla`, for any keys, values and number of entries (`LruAssumption`: at least one, as the
constructor asserts, and null is no key). The cache keeps the same thing three times, in the
map, in the counter and in the links of both directions. `LruInv` says that they agree: what is
read off the links from the head (`Listed`) is a sequence of as many keys as are counted, each of them
once, the keys of the map, linked forwards and backwards and from both ends (`Linked`). `LruInvariant`
is the theorem. The lemmas say what the surgery of the links does to the sequence that they
stand for: an element taken out of any place (`RemoveLinked`, `UnlinkedLinked`) or put at the head
(`PushLinked`), with the links of entries that are no longer in the list left as they may be; and that what
is listed is this sequence and no other (`ListedIs`, by the first place where they would differ).
`ImplementsLru` is the refinement: each call is that of `RecentlyUsed` (`UpdateAddsAgain`,
`InsertAddsNew`, `GetUses`, `RemoveForgets`, `CountCounts`, `ClearClears`), and the entry at the tail is
the one that has not been used for longest.

### 5.9 The KMIP client

The second part of `Network_proofs.tla`, for any calls of the four kinds, any depth of the pipeline, any number of sockets,
failures and ends (`KmipAssumption`: sockets are numbers and calls are not). The responses come in the order of
the wire and are taken for the first request of the pipeline, so what a call is answered with depends on
queues that sockets cut and empty. `KmInv` says where the requests of a call can be: at most one waits in the
pipeline, among the deferred requests and in the ticks together (`Good`, `Apart`); it is the step after
those whose responses were taken, and the call is not answered before the step that answers it (`Due`); and
what is known of each call (`ResultOK`). Nothing is said of the sockets: whatever the wire
brings, a response that is not to the request in hand ends the conversation.

A turn is a function of the state, so the lemmas speak of turns. Sending puts a request in one queue (`SendPut`)
and keeps the invariant if the request is in hand, in no queue (`Hand`, `PutOK`). A failed callback
changes its own call only and adds none but handshake requests (`FailStep`, `Grown`). All callbacks of
the two queues are called in one turn, and each may send: `FailAllMoved` holds after each of them (`FailAll` is a recursive
function; again by the least number of callbacks for which it would not), and as the two queues hold
different calls nobody is answered twice (`DrainOK`). `CallSucceeds` covers the health check, which goes
on after its answer. `AnswersStayOwn` is the theorem.

### 5.10 MongoDB

`MongoVersioning_proofs.tla`, for any number of calls of the twelve types, any documents to begin with, both
formats of keys, any number of crashes and of failed operations (`MongoAssumption`: version ids
are numbers, and those to be generated are newer than those present).
`MongoTypes` is the type invariant with `ControlOK`: each request executes an operation of its own
call, on a target that fits it, with what it has read for it (`Fits`), and no id is
generated twice (`FreshVids`). What a step does to the documents is a lemma for each action
(`DocsOf…`); a step of one request leaves the others alone (`StepChangesOne`).

`AcknowledgedPuts` is `AcknowledgedPutIsServed`. A get looks at the master and, without one, at the versions in
a step of its own, so the invariant `PutsInv` speaks of both: an acknowledged version that nobody deletes is
live, and one whose put is about to write the master is too (`KeptAreLive`); no master is older
than an acknowledged version (`MasterIsNewEnough`); what a repair is about to replace its place
holder by is new enough (`RepairsAreNewEnough`). The last is not inductive by itself: a put older than
the place holder gets a duplicate key and is acknowledged, and the repair may have read
the latest version before that put wrote its own. The timer prevents it (`RepairsWait`): such a put began
before the place holder was made and is over when the timer fires. This is the premise `LongDelay`.

`DeletedVersions` is `DeletedIsNotServed`. It is not about the behaviours in which a repair has upserted a master
where it found none ("restored"): what it upserts may be deleted by then, and a get is served it, as `mongo_repair` shows
(finding 2). In all others a deleted version can come back by the master only:
`DeletionsInv` says that a version which is `Lost` is not live, nor is one that a deletion in progress has
flagged (`LostAreGone`, `RemovedAreGone`); that neither is served from the master (`LostAreNotMaster`,
`DeletedAreNotMaster`), which needs that a place holder is flagged by its own removal only
(`FlaggedByItsOwn`); and that no repair holds one, as it waits for the deletions that were in progress
(`RepairsWaitForDeletions`, again `LongDelay`). The premise `Apart` leaves out behaviours with
a call that writes a version key before it looks at the master, or flags the master without one
(`putRepair`, `putPlainOplog`, `delPlain`). It is needed: `repair7` writes a version and reads
the latest one, 5, two deletions remove 5 and the place holder between, and 5 becomes the
master of a newer place holder again.

### 5.11 What is only model-checked

- *Every liveness property* (`FairCallersAreAnswered`, `FairCallsAreAnswered`, `FairRequestsAreAnswered`, `FairRepairs`,
  `PlaceHolderIsReplaced`, `FairCommandsSettle`, `FairListingsEnd`, `EveryExchangeEnds`,
  `FairWorkersAreSupervised`, `EveryStorageTaskEnds`): fairness and ENABLED are out of the prover's reach.
- *`CollectionsAreExact`*: the heap sifts by recursive operators, about which nothing can be proved here.
- *`MasterIsLatest` of `MongoVersioning`*: it holds in the scenarios of the run, with what they have
  under way together, and not of all calls: in the v1 format, with a version 5 under a newer delete
  marker 6 and an older version 7, a deletion of 6 that has found the master 5 removes the version alone; a deletion of 5 meanwhile removes its
  place holder, since the latest version is the marker; then 6 goes, and 7 has no master.
- *`OneNullVersion`*, and what the premises of section 5.3 leave out of the other invariants of `Versioning`:
  null versions, writes that do not look at the master, the end of the ids, puts and deletions together
  for `MasterIsLatest`.
- *The listings, policies, configurations and data backends*: functions of documents and of whole
  listings, compared with a reference over the inputs of the run.

The type invariants of the other modules (`VrTypeOK`, `LsTypeOK`) are stated where
the state is declared; no run lists them.

## 6. Findings

Six are runs that TLC ends with a counterexample; `PROJECT.json` quotes the lines.

1. `repaired_master`: a repair replaces a place holder by the version that it listed earlier. A newer version that is put
   by its id meanwhile, and that finds the place holder still there with a newer id, stays behind that older master
   (VersioningRequestProcessor.ts:334-338).
2. `mongo_repair`: the repair of a place holder upserts (MongoClientInterface.js:1291-1299). Another deletion removes
   the place holder and the version that the repair has read in between, and the repair inserts the deleted version as
   the master; a get is then served it.
3. `mongo_inverted_puts`: two puts in flight are inverted, and in the v1 format the newer one is a delete
   marker: it removes the master, so the older one finds no master to compare its id with and
   becomes master by its upsert.
4. `lifecycle_document`: prefixes and tags are not escaped in the lifecycle XML (LifecycleConfiguration.ts:1203-1209),
   so what a client is given for a text with markup is not a document it can read or put back.
5. `gcp_restart`: a stream that ends on the boundary of a part before any part is uploaded is taken for an empty
   object (GcpManagedUpload.js:319-322) and put once more. That put fails, as the stream is read, and aborts the
   upload, which completes all the same: it is called back with an error and with success.
6. `copied_part`: a part copied from an object of several locations keeps one of them on an
   external backend, with the size and ETag of all.

Met while modelling, and the reason for the conditions of section 4, but without a run:

*Metadata server.* A write answers the queued reads before it is in the batch itself, so an
update computed from a blind write is committed before it (WriteCache.ts:189); such a read drops
the blind write's own cached value while it is pending (146), so that the put of an old version
can then overwrite a newer master; when a key does not exist every queued update is told so, also
after an earlier one has written it (135). A put without operations is never called back
(VersioningRequestProcessor.ts:581-589, WriteGatheringManager.ts:78-82); a get by
listing clears the repair timer of a later place holder (211), and one that joins a listing in progress can be
answered with a version deleted before it began (205).

*Record log.* The waiters for the last number belong to the service, not to a log
(RecordLog.js:299): a call for a second log that comes during the lookup of the first finds
no number, and for a batch the number is then NaN until the server restarts. A reader passes
numbers that are given out and not yet written; "this series of sequence numbers will never
make it to the log" (186) does not hold after a restart, which gives the numbers behind the
last record again, also those a reader has passed. `endSeq` of 0 means no bound (32).

*MongoDB.* The place holder of a deletion replaces the master of a newer put, whatever version is
there, and an older put in flight then becomes master; a repair can make a delete marker the master in the v1
format. A put's duplicate key caused by a place holder is taken for a success; a place holder may stay
when the last version is removed after the repair was decided; the put of a null version has no
condition on the version in place (`putObjectVerCase2`); the update of an old version in the v1 format
upserts a master behind a delete marker (Case 3).

*Listings and gaps.* A limit on scanned entries of one or two makes a page of orphans end
without a marker, or a page of non-current versions not advance; a page of orphans that reaches
both limits at once is not truncated and loses its last orphan. A gap that begins at a single-key
gap that cannot grow is lost (less is skipped, no object is hidden; GapSet.ts:95); gaps within the weight
threshold can collapse into one above it (GapSet.ts:131); changing the delay while a listing is
in progress exposes a stale gap (GapCache.ts:313); a state that waits behind a cached gap has no master key
(delimiterMaster.ts).

*Processes and networks.* A command whose executing worker exits stays in the primary (ClusterRPC.ts:411); one that
takes the uids of a command that timed out while workers still execute it gets the former one's
results (ClusterRPC.ts:260). A source's error is not sent to the reader of a stream; writable
streams as arguments never receive anything; streams do not notice a disconnection; a result
that comes late, followed by an error, leaves a stream registered; acknowledgements are immediate, so
the receiver's buffer is not bounded (sio-stream.ts). The KMIP handshake comes behind the first
message of a socket, its third step sent from an error callback is lost in the drain, a late
error of an ended socket drains the queue of its successor, and two responses in one chunk
of data lose a callback. A second `stop()` overwrites the kill timers, and the first one
then signals a process that is gone; `ready` that comes after its worker's exit during a shutdown
throws (Clustering.ts).

*Policies.* A Deny that depends on tags hides an Allow of the same policy (evaluator.ts:295-297): when no other
policy allows, the request is denied without the tags being asked for, where "priority is on checking tags" lets one expect
that they decide (`AllowIsHidden`); a requester of the same account whose type is none of the known
ones has no valid principals, and the evaluation throws (principal.ts:68);
`NotPrincipal` with Allow ignores its Condition; several values of a condition per tag become one
string; `ForAnyValue:StringEquals` on a list never holds and `StringNotLike` on a list always
does; the token's issue time and MFA are not serialized.

*Configurations.* Transitions that mix days and dates throw (LifecycleConfiguration.ts:594-627);
days that are no number are accepted and rendered as an empty element, which is refused when put
back; nothing is escaped by the notification XML; a replication without destination is rendered with a
null bucket; the JSON of a lifecycle drops its
transitions; an applied expiration may carry another rule's ID.

*Data.* GCP: `queueSize` is not enforced; a part in flight when the abort lists the parts stays; more than 1024 parts exceed what is
composed; a failing removal after the copy reports failure. Azure: several failing sub-parts each
take the size off the location's metric; a sub-part may be staged from a stream that never ends
after an abort; two completions or puts of the same key interfere. AWS: a missing VersionId after
the completion reports failure though the object exists. Wrapper: a copy of several locations to
an external key leaves the last piece; `batchDelete` stops at the first 404 and reports success; a
deletion whose answer was lost is retried and does not lower the metric; replaced data at an
external location stays counted; a copy of ciphered Azure data copies the ciphertext;
`copyObject` of the gateway calls back with an error and copies nevertheless; a failed copy
leaves its earlier pieces; a file store's fsync error leaves the file.

*Routes.* A virtual-hosted bucket whose name contains an endpoint is cut at its first occurrence;
keys under `_/` on virtual hosts reach the internal services; an empty `uploadId=` or `partNumber=`
makes DELETE remove the object and PUT overwrite it, while GET and POST take it as given; errors
of a ciphered or Azure source are not propagated, and such sources stay open when the client
closes; a redirect that asks for `http` goes to `https` (`protocol || encrypted ? 'https' : 'http'`,
routesUtils.ts:855); an
XML answer that is empty without an error is never sent.

## 7. Not modelled

- *Restarts of the metadata server* in `WriteGathering`, `WriteCache` and `Versioning`: the state of the
  three layers is in memory and a restart empties it together with the requests in it; what
  survives is the database, whose batches are atomic; only the lost repair timer matters, and a get
  repairs then. `RecordLog` and `MongoVersioning` have restarts and crashes.
- *MongoDB's buckets, counts and indexes, the oplog streams, `DataCounter`*: sequential code over
  collections, planned. *BucketFileInterface*: planned.
- *RPC service registration, REST and HTTP servers, probes, authentication, KMS on AWS, metrics,
  proxies*: forwarding, formatting, cryptography, no state of their own.
- *ObjectMD, BucketInfo and the other records*: accessors. *Errors and constants*: tables.
- *RoundRobin*: planned. *Building a heap or a sorted set from existing entries*: only their initial
  state.
- *`start()`, `stop()` and `maxGapWeight` of the gap cache*: set-up.
- *KMIP's codec, version id encoding, texts of errors, logs, keys as strings of characters*: no
  property is about them.
- *Tagging, health checks and versioned deletes of the data clients, HTTP of the data file server,
  conditional headers and user metadata of the middleware*: one call each.
