# A TLA+ model of the Azure Storage client library for C++

The library (`src/Microsoft.WindowsAzure.Storage`) turns calls on blobs, files,
queues and tables into HTTP requests to the storage service. This project
models two sides of it. The first is what happens around the requests: retries
against two locations, cancellation and timeouts, and the semaphore-limited
parallelism of large transfers. All of that is continuation-passing code on the
`pplx` thread pool, so every continuation is a thread of its own. The second is
what the requests do: objects whose cached state concurrent calls share, which
conditions reach the service, what a lost answer and a repeated request make of
it, and what a call tells its caller while other clients change the resource.

Paths below are relative to `src/Microsoft.WindowsAzure.Storage`.

## Inventory

| part | state | operations | interacts with |
|---|---|---|---|
| `async_semaphore` (`src/async_semaphore.cpp`) | free permits, queue of waiting requests, current "empty" event | `lock_async`, `unlock` (two steps), `wait_all_async` | output streams, parallel downloads |
| `timer_handler` (`src/timer_handler.cpp`) | worker token, timeout flag, timer, completion event | start, stop, expiry, user's callback, continuation, destruction | executor, transfers (shared by all their requests) |
| executor (`src/executor.cpp`, `includes/wascore/executor.h`) | retry count, location and location mode, current result, bytes downloaded, hash | one attempt as a chain of continuations, then the retry decision | retry policy, timer, the command's callbacks |
| retry policies (`src/retry_policies.cpp`) | time of the last attempt per location | `evaluate`, `align_retry_interval` | executor |
| range download (`src/cloud_blob.cpp` 453-647) | bytes written, locked location, expected MD5, whether to start over | callbacks of a command: build, recover, preprocess, postprocess | executor |
| parallel download (`src/cloud_blob.cpp` 649-889) | next offset to write, number of waiting writers, target stream | first range, segments, ordered or positioned writes | semaphore, range download |
| output streams (`src/streams.cpp`, `src/cloud_blob_ostreambuf.cpp`) | buffer and its sizes, blob offset, block list, stored exception | put, flush, seek, set buffer size, close | semaphore, executor |
| file service transfers (`src/cloud_file.cpp`, `src/cloud_file_ostreambuf.cpp`) | as above | as above, with differences | semaphore, executor |
| blob input stream (`src/cloud_blob_istreambuf.cpp`) | buffer, offset, next offset, etag, hash | read, peek, seek, set buffer size | range download |
| block blob upload (`src/cloud_block_blob.cpp`) | none across calls | choice of one request or blocks, block size | output stream |
| blobs, snapshots, containers (`src/cloud_blob.cpp`, `cloud_*_blob.cpp`, `cloud_blob_container.cpp`) | cached properties, metadata, copy state, shared by copies of the object | attributes, leases, copies, snapshots, block lists, pages, appends, tiers, permissions | executor, request builders, service |
| shares, directories, files (`src/cloud_file*.cpp`) | cached properties, metadata, copy state | create, delete, attributes, ranges, resize, copies, leases | as above |
| queues and messages (`src/cloud_queue.cpp`) | metadata, approximate count, the message with its id and pop receipt | add, get, peek, update, delete, clear | as above |
| tables (`src/cloud_table.cpp`, `src/table_request_factory.cpp`) | the entities' etags | tables, entity operations, batches, queries | as above |
| listings (`result_iterator`, `list_*_segmented`) | segment, position, continuation token with its location | next segment, increment | as above |
| service clients (`src/cloud_client.cpp`, `src/protocol_xml.cpp`) | default options | service properties, statistics, account properties | as above |
| authentication, SAS, wire formats, navigation, logging | none | conversions | everything |

What is hard here: a semaphore that hands permits over outside its lock; two
mutexes and a condition variable around one offset; locals captured by
reference by tasks; exceptions stored by one continuation and read by another;
a request that was executed although its answer was lost; two reads of two
flags that another thread sets; a retry that must resume and not repeat; calls
that ask first and act later; a cached etag that another call made stale; an
answer of a secondary location that lags behind; two offsets and a buffer that
every kind of read and seek must keep in step.
`PROJECT.json` lists these under `hazards`, each at its line.

What makes the parts correct:

* semaphore: no permit is lost or invented; nobody waits beside a free permit;
  a completed `wait_all_async` is a barrier; with one permit the order is FIFO;
  every request is granted in the end;
* timer: a cancellation always has a reason, a stopped timer stays silent, an
  expired one cancels, and nothing touches a destroyed object;
* executor: bounded attempts, permitted locations, spaced attempts,
  complete records, no false success and no false timeout, and an end;
* range download: a resumed request asks for the byte the target waits for, at
  the location that sent the rest; what returns is the range of one version;
* parallel download: success means that the target holds the range of one
  version of the blob; the locals outlive the tasks; ordered targets get bytes
  in order; memory is bounded; the operation ends;
* streams: a flush or close that succeeds means that the data is stored; an
  append blob holds a prefix of the stream at all times; every call returns;
* input stream: a byte that is delivered is the one at the reader's position, of
  the version it opened;
* objects: a conditional request changes only the version its caller named; the
  holder of a lease is served; calls that act only if something exists tell the
  truth; what the object caches is what its next conditional call needs; a
  snapshot is read-only; a listing misses and repeats nothing; service properties
  that were not given stay as they are.

## Modules

| module | models | extends |
|---|---|---|
| `Semaphore` | the promise of a counting semaphore with a barrier | |
| `AsyncSemaphore` | `_async_semaphore` | refines `Semaphore` |
| `AsyncSemaphoreProofs` | its theorems | `AsyncSemaphore` |
| `TimerHandler` | `timer_handler` and its threads | |
| `RetryPolicy` | pure operators: locations and `evaluate` | |
| `Executor` | one operation | `TimerHandler`, `RetryPolicy` |
| `ExecutorProofs` | the theorems of `TimerHandler` and `Executor` | `Executor` |
| `RangeDownload` | `download_single_range_to_stream_async` on the executor's data path | `RetryPolicy` |
| `ParallelDownload` | `download_range_to_stream_async` | `AsyncSemaphore` |
| `ParallelDownloadProofs` | its theorems | `ParallelDownload`, `AsyncSemaphoreProofs` |
| `OutputStream` | block, page, append and file streams, with the service | `AsyncSemaphore` |
| `OutputStreamProofs` | its theorems | `OutputStream`, `AsyncSemaphoreProofs` |
| `InputStream` | the blob input stream | |
| `DownloadProofs` | the theorems of `RangeDownload` and `InputStream` | `RangeDownload`, `InputStream` |
| `RequestFactory` | headers, access conditions and metadata of requests | |
| `StorageService` | external: conditions and leases at the service | `RequestFactory` |
| `StorageCommand` | one object, its concurrent calls, the network | `StorageService` |
| `StorageCommandProofs` | lemmas about builders, leases and the steps of a call | `StorageCommand` |
| `BlobRequests`, `BlobService` | request builders; external: the blob service | `RequestFactory`, `StorageService` |
| `CloudBlob` | operations of every blob | `StorageCommand`, `BlobRequests`, `BlobService` |
| `BlobTypes` | what block, page and append blobs add | `CloudBlob` |
| `CloudBlobContainer` | containers | `CloudBlob` |
| `BlobObjects` | composes the blob service's objects | `BlobTypes`, `CloudBlobContainer` |
| `BlobObjectsProofs` | its theorems | `BlobObjects`, `StorageCommandProofs` |
| `FileRequests`, `CloudFileShare`, `CloudFile` | request builders; shares and directories; files | `StorageCommand` |
| `CloudQueue`, `CloudTable`, `CloudClient`, `Listing` | queues and messages; tables and batches; service clients; listings | `StorageCommand` |
| `ServiceObjects` | composes the last two rows | all of them |
| `ServiceObjectsProofs` | its theorems | `ServiceObjects`, `StorageCommandProofs` |

Actions and variables have the names of the functions and members they stand
for. A name with a suffix such as `push_Stack` is a deliberately wrong variant
of the definition below it; `PROJECT.json` (`mutants`) says which property it
breaks. Such variants are used by no specification.

**AsyncSemaphore.** `state[t]` is how far one call of `lock_async` is: idle,
queued, popped (taken off the queue, its event not set yet), holding, released.
`unlock` is two actions, `dequeue_pending` under the mutex and `set` after it.
An event is a number: assigning a fresh event raises `m_empty_event`.
`wait_all_async` notes which event its caller holds and which requests were
made before; `resume` completes it. One caller waits at a time, as in the
transfers. `requests` and `owed` are history.

**TimerHandler.** Each line that takes the mutex is one action; the user's
callback and the timeout continuation are two steps each, because the two flags
they set are read by others without the mutex. `deregister_callback` blocks
while the callback runs. The handler that asio queued before `stop_timer`
still runs afterwards.

**Executor.** `pc` walks the numbered steps of `execute_async`. Every
`assert_canceled` is two reads, so it is two actions (`assert_timed_out`,
`assert_canceled`). The service answers with any of `Statuses`, drops the
connection or delivers a bad body. Time passes in ticks, at most `Backoff` of
them are told apart. `sent` is history and is not read by any action.
A download (`options.download`) runs beside the whole `TimerHandler`, which
`download_range_to_stream_async` starts for it; the other commands of the model
run without a maximum execution time: no `timer_handler` is made for them
(`life = "none"`), the command has the user's own token, and canceling it runs no
callback. A command with `m_use_timeout` is to the timer what the download is. A
command whose handler refuses the body (a batch one of whose parts failed) takes
over the status of that part into the request's result (`body_received`). Request
bodies and the data of the answers are left out; that a resumed request may be
refused (`build`) and that a command may not be recoverable (`final`) are free
choices here and decided in `RangeDownload`.

**RangeDownload.** The callbacks `build_request`, `preprocess_response`,
`postprocess_response` and `recover_request`, with the members of the executor
that they depend on: `m_total_downloaded`, the two hashing flags, the hash
provider, the location and its lock. An attempt is four steps: `send`, the
headers, the body, `final`; `interrupted(k)` ends it after any number of bytes.
A byte is a pair of version and index, a checksum is the bytes themselves, so
two checksums agree exactly when the bytes do. The service is the version that
each location holds, with a secondary that may be behind or not have the blob;
`overwrite` and `replicate` change it at any time. `mishaps` records what the
environment did, so that each property says under which of it it holds.
`checksum::m_crc64` is compared while it was never set when CRC64 validation is
disabled; the outcome of that comparison (`stray`) is free.

**ParallelDownload.** Bytes are pairs of version and position, so a target that
mixes versions or misplaces a segment is visible. The condition variable is
modelled in its parts: testing the predicate, blocking, being notified or
waking spuriously; `notify_all` wakes only those already blocked. A segment's
own retries are the executor's, here it succeeds or fails. `overwrite` is
another client. `service` says whether this is the code for blobs or its copy
for files (`cloud_file.cpp` 567-752), which sends no etag, ends when the last
offset is reached (`file_join`) and keeps the permit of a failed segment
(`file_segment_fails`); the properties name the cases they except for it.

**OutputStream.** Characters are numbered as they are written; the page stream
may write a position again after a seek. The service applies a request and may
lose the answer; an attempt may then be repeated. A request larger than the
service's limit is the one case in which the upload throws before there is a
task (`istream_descriptor::create`). A block list is committed only if its
blocks are staged. The writer awaits each call, as the stream's contract says.
The file's stream writes like the page stream, with a buffer size that no option
sets. The append stream's one permit is a semaphore of its own
(`OnePermit`).

**InputStream.** `m_buffer` is a range of the blob and a read position,
`m_current_blob_offset` and `m_next_blob_offset` are the code's two offsets, and
`at` is where the reader stands. A read that finds the buffer empty fetches the
next range under the etag the stream opened with; the range arrives, arrives
damaged or fails. `trusted` is history: it falls when a read of the kinds listed
under the deviations puts the offsets out of step, and a seek that leaves the
buffer (`relocate`) restores it.

**StorageCommand.** `obj` is the cached state of one object, `svc` the resource
at the primary location, `sec` the same as the secondary has it (it does not
catch up within a behaviour), `call[c]` the call that thread `c` issued last,
`left` what remains of the bounds. A call is a chain of actions: the public
overloads `x` choose arguments and defaults, `x_async` builds the request and
sends it (`execute_async`), the service performs it (`Serve`), and `x_response`
updates the object and returns, or sends the call's second request. In between,
the network loses the request or the answer and the executor sends it again, to
the other location if the command allows both (`Resend`); it gives up
(`GiveUp`); an error ends the call (`Refused`); another client writes
(`Foreign`). `Executor` models the loop that is one step here.
The history in a call, `seen`, `did` and `pre`, is what the properties compare
its result with; `calm` says that nothing has interfered so far.

**Objects.** A request is a function from the headers that are present to small
values, so a builder that forgets a condition is visible. An etag and the time
of modification are the resource's version number; metadata, content and sizes
take two values each. `Init` of `BlobObjects` and `ServiceObjects` chooses the
kind of object; the kind decides which actions are enabled, and leases and copies
are kinds of their own, because they need larger arguments. A snapshot's object
has every call that writes (`SnapshotCalls`); its blob starts leased or not, and
with a copy under way, so that a change of lease or an aborted copy would show in
the state. Only renewing a lease leaves no trace there, at the service neither.
The services
(`BlobService` and the `...Service` operators) are external: they do what the
handlers rely on. The parts of `CloudTable` and `CloudQueue` that concern
several rows or messages keep one version or receipt for each. In `Listing` the
two locations hold different names, and a page may be empty although a token
follows. Blobs are listed flat with their snapshots or as a tree; in a tree some
of the names are virtual directories (`PrefixNames`), which the handler puts
behind the blobs of their segment, and a tree with snapshots is refused.
In `CloudClient` the service properties are a document of sections,
written element by element and read back by the reader's events.

## Runs

| run | shows |
|---|---|
| `semaphore` | safety, refinement of `Semaphore` and both liveness properties, four requests and two permits |
| `executor` | all location modes, four status codes, lost connections and bad bodies, up to three attempts; and a download that locks its location beside every interleaving of user, timer, continuation and destruction |
| `range_download` | three attempts with every checksum option, range and target, interrupted at any byte, under errors, damage, overwrites and a lagging secondary |
| `parallel_download` | blobs and files; sizes around the threshold and the segment size, ranges beyond the end, failures and overwrites; six segments into a target that cannot seek |
| `streams` | block, page, append and file streams: uploads that fail, are repeated or throw, an append stream under a maximum size, with and without absorbed errors |
| `input_stream` | every order of reads, peeks, seeks and buffer sizes, with failed and damaged ranges and an overwritten blob |
| `blob_objects` | two callers on a blob of each type, a snapshot or a container: every operation and every kind of condition, an answer lost, another client |
| `service_objects` | the same for shares, directories, files, queues, messages, tables, batches, service clients and listings |

Each of the following runs refutes one sentence of the repository; `findings` quotes it.

| run | what happens |
|---|---|
| `range_resume` | an error answer that is cut short stays counted as downloaded; the download resumes too far on and returns with bytes missing, MD5 or not |
| `parallel_failed` | on a target that cannot seek, a failed segment makes the others wait for ever |
| `stream_swallowed` | a page stream whose buffer exceeds the request limit closes successfully without the data |
| `blob_time` | with the client's default maximum execution time, the second request of `delete_blob_if_exists` times out at once |

### Bounds and why they suffice

* Four requests and two permits let a permit be counted, handed over, be in
  flight and be waited for at once; more requests repeat these roles.
* Three attempts (`m_max_attempts = 2`) reach primary, secondary, primary: the
  shortest sequence in which an interval must skip an attempt elsewhere.
* The downloads of the executor's run use the two modes with both locations: in
  the others the lock changes nothing.
* The status codes are one of each kind that `evaluate` tells apart: success,
  404 (which the secondary may outgrow), 408 (retried), 501 (definitive).
* A blob of three bytes, a range that starts at its second byte and ends before,
  at or behind its end, a target that stands at its second byte: the first and
  the last byte differ and one byte can be missing in the middle. Two versions
  are the least that can be mixed.
* `Backoff = 1` tells "early" from "not early"; longer intervals count the same.
* Segments of two bytes allow a shorter last one and a range that starts in the
  middle; six segments with two permits fill the queue, both permits and the
  waiting writers. `Threshold` equals one segment; the code only adds it. Size
  zero is the empty blob, whose first range is answered with 416.
* Three or four characters with buffers of one or two fill a buffer exactly,
  leave a remainder and change the size in between; two attempts are the least
  in which a repeated request meets its own effect. Every upload carries a
  character, so there are as many tasks as characters (`StreamAssumption`).

* A blob of four bytes read through buffers of one to three bytes has full
  ranges, a short last one and a buffer that ends with the blob; seeks by up to
  two stay in the buffer or leave it on both sides. Sizes zero and one are the
  edges.
* Two callers, two calls, one loss and one foreign change: each property about
  objects needs at most a call, what disturbs it, and the call that meets the
  result. The callers are symmetric; nothing tells them apart.
* `ClientMaxTime = 2` and first requests that take one step leave one step;
  `Uptime = 5` is any time since the clock's epoch that is longer.
* Two rows of one partition and one of another, two messages, three `Names` and
  pages of up to two (`MaxPage`) are the least with a mixed batch, a second
  receipt, and a segment between the first and the last. The secondary lacks one
  of the names (`ReplicatedNames`); a listing has no limit or one of two
  (`Limits`). The first name is a prefix (`PrefixNames`), so that a page of two
  is put into another order.

`m_max_attempts`, `Versions`, `MaxLength`, `MaxTries`, `SeekableSizes`, `StreamSizes`,
`MaxCalls`, `MaxLost` and `MaxForeign` are the only bounds on behaviour. Runs that end by design (an operation is
over when it is over) have deadlock checking off; that nobody waits for ever is
stated as a liveness property instead.

### Fairness

Weak fairness for steps that the thread pool runs when they are ready: setting
an event, running a continuation, resuming a waiter. Requests end: the HTTP
client has a no-activity timeout (`executor.cpp` 132-140), so an answer or an
error arrives. Holders of permits release them: in `AsyncSemaphore` that is an
assumption on its clients, and the two client modules drop it and model the
release itself. `ParallelDownload` needs strong fairness for evaluating the
predicate, since it takes a mutex that others take again and again; without it
the property would only restate that a mutex may starve. Nothing is assumed of
users' cancellations, of spurious wake-ups, of failures, or of timers expiring.
The runs about objects and the input stream check safety only and state no
fairness: that a request ends is the executor's `Terminates`.

## Proofs

`AsyncSemaphoreProofs` proves for every set of requests and every positive
number of permits (`CountAssumption`):

* `TypeCorrect`, `PermitsSafe`, `WaitAllSafe`, `QueueOrder`,
  `SinglePermitOrder`: the safety properties of the run;
* `Refinement`: `Spec` implements `Semaphore!Spec` with the requests that are
  holding mapped to `held`. A step that only takes a request off the queue is a
  stutter: it is granted when its event is set.

All rest on the inductive invariant `IInv` (`Invariance`). The properties are not
inductive by themselves, for these reasons:

* conservation of permits needs the set of granted requests to be finite, or
  its cardinality says nothing (`GrantedFinite`); `Tasks` may be infinite;
* that the queue is a suffix of the history of requests (`QueueIsSuffix`,
  `RequestsListed`) turns FIFO of the queue into the order of the calls;
* FIFO with one permit needs that whoever left the queue last has the permit
  (`LastLeftHasPermit`);
* the barrier needs to know which events are set: all older ones, and the
  current one exactly when all permits are home (`EventsSet`). Then a waiter
  that holds a set event either made its call when nothing was granted or has
  seen all permits come home after it (`WaiterOwed`, lemma `AllHome`).

Of the timer alone (`TSpec`, with any owner and from no assumption)
`ExecutorProofs` proves `CancellationHasReason`, `DestructionIsSafe` and
`StopIsFinal`. The
inductive invariant `TInv` adds to the properties that whoever has run left its
mark first (`MarksFirst`: a callback that began implies the user's cancellation,
a continuation that began implies the flag) and that a stopped timer's event is
decided (`EventDecided`), which is why a handler queued earlier finds nothing to
set.

It then proves the properties of the whole `Spec` of `Executor`, timer threads
included, from `ExecutorAssumption` alone: any limit, any status codes,
any modes, any interval.

* `AttemptsAreBounded`, `AttemptsAreRecorded`. The invariant is a count
  (`Counted`): `m_retry_count` is the number of finished attempts; between a
  request and the final handler there is one more request than results, and its
  result carries the location of that request, because `validate_location_mode`
  is the last step that changes the location before the request. The final
  handler needs that `evaluate` allows a retry only below the limit
  (`NextLocation`).
* `LocationsArePermitted`, `NotFoundLeaves`. `Placed` says how the current
  location follows the current mode, and that mode the caller's, the command's
  and the lock's; `Leaving` says that only a lock narrows the mode to the
  secondary and that a 404 of a secondary without a lock narrows it to the
  primary for good. The attempt to prove it showed that the property was too
  strong: a download that the secondary has answered with data once stays locked
  to it, and asks it again after a later 404 (`LockedToSecondary`).
* `AttemptsAreSpaced`. `Ages` orders the requests by age and bounds the policy's
  clock of a location by the age of every request sent there; so the interval
  that `align_retry_interval` leaves is enough for all of them, not only for the
  last.
* `TimeoutsAreReal`. An exception that says "timeout" already has its cause when
  it is stored (`Seen`), and neither cause is ever taken back.
* `TimerIsUsedAsSpecified`: the steps of the executor are steps of `TNext` or
  leave the timer alone. With it the theorems about the timer hold inside an
  operation (`OperationsAreCanceledForAReason`).

`DownloadProofs` proves `RetryResumesInPlace`, `RetryStaysAtLocation` and
`ReturnedRangeIsIntact` from `RangeDownloadAssumption`: any blob, range, start of
the target, number of versions and of attempts. `RInv` (`RangeInvariant`) relates
the two counters of downloaded bytes, the position of the target and the first
byte asked for at every step (`Position`); an answer that sets `reset_target`
breaks the relation until the target is rewound, and then the sum of the counters
is not zero, which is what makes the code rewind. `Located` keeps the lock and
the origin together, `WholeMD5` says that the MD5 that is compared is that of the
whole range, and `OneVersion`, while nothing interferes, that the target holds
one version in front of its position. All but the types is claimed only while no
error answer was cut short: run `range_resume` shows why.

`ParallelDownloadProofs` proves from `DownloadAssumption` and `CountAssumption`,
for any sizes, offsets, segments and permits:

* `TargetIsPrefix` (`WrittenInOrder`) and `SuccessMeansRange`
  (`TargetHoldsRange`). The invariant says which segments are in the target: on
  one that cannot seek the first `k`, and `smallest_offset` and the position are
  those of segment `k + 1` (`Ordered`); on one that can, any set (`Placed`). A
  buffer holds the version of the etag (`Loaded`), and the segments cover the
  range without a gap (`NoGap`, with multiples of the segment size in `SkipFacts`).
* `NoSegmentOutlives` (`LocalsOutliveTasks`) from `wait_all_async` as a barrier
  (`Phases`) and from how permit and step go together (`Linked`).
* `TurnIsNotStarved` (`NextSegmentGetsPermit`) from the queue's order: the one
  whose turn it is is in front of all that wait, and those waiting with a permit
  are fewer than the permits.
* `MemoryIsBounded` (`BuffersBounded`): `writer` is the number of segments that
  wait, and those that gave their permit back early are fewer than the factor
  (`Counted`), so segments in memory hold a permit or are among these.

Two properties were corrected on the way: `LocalsOutliveTasks` does not hold if a
segment has failed and the target cannot seek, and `TargetHoldsRange` excepts an
empty blob and a seekable target that does not stand at its start.

`OutputStreamProofs` proves of all four streams, from `StreamAssumption` and
`CountAssumption`: `AppendStaysPrefix` (`AppendIsPrefix`), `FlushStores`
(`FlushMeansStored`) and `CloseStores` (`CloseMeansStored` of page, append and
file streams). `OInv` (`StreamInvariant`) says that every character is in the
buffer, in an upload under way or stored (`Stored`), and that uploads under way
overlap neither each other nor the buffer (`Apart`), which a seek keeps because
it waits for all of them (`Barrier`). Two facts are easy to get wrong:

* a 412 that is absorbed on a repetition means that the block is stored. This
  needs the order of the one permit (`EarlierIsOver`, from `SinglePermitIsFifo`
  of a semaphore with one permit), that the uploads leave no gap (`Gapless`), and
  that the client has checked `max_size` itself, or the 412 could be about that;
* a stream without an exception has lost nothing, unless an upload was too
  large to be sent (`Threw`), since that exception is set late or never.

That an append blob holds a prefix needs none of this: the position in the
condition is enough.

`DownloadProofs` also proves `ReadsAreIntact` from `InputAssumption`, for blobs and
buffers of any size. `SInv` says of what `download` returns in all its outcomes
(`Fit`, `Right`) what it says of the members: the buffer holds the blob from
`m_current_blob_offset` to `m_next_blob_offset`, and a hash that can still be
compared covers everything up to there (`Covers`), damaged bytes included.

`BlobObjectsProofs` proves every property of run `blob_objects`, for any set of
callers and any number of calls, lost answers and foreign writes
(`BoundsAssumption`), and any default for the maximum execution time
(`TimeAssumption`, which admits none): `IfExistsIsHonest`, `ConditionsAreHonoured`,
`HolderIsServed`, `CacheIsMirror` and `SnapshotsAreReadOnly`. The values of
headers, the conditions callers give and the initial resources are those of the
model. The argument has four layers:

* what the builders build (`StorageCommandProofs`, and the first part of the
  module): which builder passes on which part of an access condition, or throws;
* what the services answer to such requests (`BlobAnswer`, `ContainerAnswer`):
  a change is performed only if the conditions hold, every refusal leaves the
  resource alone, a request with the right lease id and no other condition is
  not refused, and only some requests make a new version;
* what the executor's steps do to a call, whatever its command is (`StartStep`
  to `ServeStep`, and their twins for the object's etag);
* one lemma for each family of calls and handlers: what they send satisfies
  `Command`, and what they make of the object satisfies `Settled`.

The properties speak of calls that returned, so the invariant must say what is
known earlier. `ObjectInv` follows a call: from its request (`Underway`: the
headers carry the condition; of a snapshot only reads, the deletion of that
snapshot and a tier are sent; the first request of a call of two is a read of
the primary, the second a change) over its answer (`Informed`: a 404 means that
the resource was seen absent during the call, a 409 that it was seen present) to
its result (`Honest`). That the *_if_exists calls ask the primary only, which
`AsksThenActs` states, is what the answer's meaning rests on: a lagging secondary
would make them lie. `CalmInv` is needed for the etags: while calls run one at a
time, object and resource differ only between the answer to a request that makes
a new version and its handler, so every handler must take the etag over unless
its request keeps the version (`KeepsVersion`). `start_incremental_copy` does not,
and is excepted.

`TypeOK`, `DequeuedInOrder` and `SinglePermitIsFifo` of `AsyncSemaphore` are
proved for every instance and are part of `IInv` or follow from it; no run
repeats them.

`ServiceObjectsProofs` proves every property of run `service_objects`, from
`BoundsAssumption`, `TimeAssumption` and, for the listings, `NamesAssumption` and
`LimitsAssumption`: any callers, calls, losses and foreign changes; any names, any
subset of them at the secondary, any page size and limits. An object is of one
kind for good (`KindKept`), so each kind has an inductive invariant of its own.

* `ListingIsComplete`. The iterator, the request and the answer are three places
  a name can be lost between, so `ListingInv` says for each what is beyond it: of
  the names that were always there, the application has read it, it is in the
  rest of the segment, or it is not smaller than the marker that comes next
  (`IteratorInv`, `SegmentAsked`, `SegmentAnswered`). In a tree the items of a
  segment are not in the order of the names: what is kept is that each is read
  once, and that all of one segment are before the next marker (`Ordered`,
  `IteratorInv`).
  Tokens carry their location,
  and every later request goes there; without that the two locations' names would
  mix. The marker of a queue, table or entity listing is a query parameter that
  is decoded first (`Marker`).
* `UploadsKeepProperties`. What the reader makes of a section as the writer wrote
  it, element by element, is the section (`LoggingElement`, `MetricsElement`,
  `DocumentRead`), whatever is off in it; the document at the service always has
  the form that the writer gives it (`ClientInv`), and an upload leaves alone the
  sections it does not include.
* `EntitiesAreProtected`. `EntityInv` keeps the operations that a call remembers
  together with the request built from them (`EntityCommand`): the etag an
  operation names is the one in its `If-Match` header (`OperationRequest`). The
  second operation of a batch is performed on what the first one left, and a
  batch that fails changes nothing (`BatchPerformed`).
* `HandlesStayCurrent`. While calls run one at a time, only a request that was
  performed and not yet handled can part the object from the service, and its
  answer carries the new etag or receipt (`FileCalm`, `MessageInv`, `EntityInv`).
  A file's requests either keep the etag or have a handler that takes it over
  (`KeepsEtag`, `Updating`). Of a message, a success prepares what its handler
  will put there (`Prepared`), and a refusal has changed nothing.
* `ServicesTellTheTruth` (`IfExistsHonest`). The first request of these calls is a
  question, the second creates or deletes (`InTwo`); `Told` says what an answer
  means for what the call has seen and done. True means that this call deleted
  the resource or created it where there was none, which the creating request of
  every kind but a file ensures by itself: it is refused if there is one. Where
  the question goes to the primary only (`PrimaryQuestion`), false means that the
  primary was in the state claimed during the call; shares and the deletion of
  files ask either location, so there the secondary's state counts as well
  (`Either`, `Sees`). A queue is the odd one: its service answers 204 to a
  creation that changes nothing, a success that its handler, unlike the others,
  must take for "false". That a file's creation may replace one is excepted in the
  property (see the deviations).

Every property of the passing runs has its theorem, but for the liveness
properties `EveryLockGranted`, `WaitAllCompletes`, `Terminates`, `TimeoutCancels`,
`SeekableDownloadEnds` and `CallsReturn`: they need fairness and `ENABLED`, which
this prover does not handle, and stay with TLC. One more thing is only
model-checked: what a block blob holds after the commit. The concatenation of its
blocks is a recursive definition, and induction over data is out of the prover's
reach; that all blocks are staged is part of `FlushStores`. What the services, the
values of headers and the callers' conditions are is fixed in the model, so the
theorems about objects hold for these values and for every number of steps and
callers.

## Known deviations without a run of their own

* `assert_canceled` (`executor.h` 432-440) reads the timeout flag and then the
  token. A timeout between the two reads is reported as a cancellation by the
  user. The reverse does not happen (`TimeoutIsReal`).
* The comment at `cloud_blob.cpp` 741 limits parallel writers to
  `parallelism_factor`. Writers are counted before the comparison, so more may
  wait; memory is bounded by `2 * parallelism_factor - 1` segments
  (`BuffersBounded`).
* A seekable target whose position is not zero at the start gets its first
  range there and the segments at `current_offset - offset` from the start of
  the stream (`cloud_blob.cpp` 789). The runs start at zero (`StartPosition`).
* A 408 answer is retried (`retry_policies.cpp` 73-79), against `Changelog.txt`
  300.
* A download that resumes at its locked location may be sent before the retry
  interval, which was aligned to another location; and the mode that its lock
  or a secondary's 404 narrowed stays narrowed for the later attempts. A download
  that is locked to the secondary asks it again after a 404.
* When a segment fails and the target cannot seek, `when_all` rethrows while other
  segments wait at the condition variable; they use locals of the operation that
  they captured by reference (`cloud_blob.cpp` 755, 845). `LocalsOutliveTasks`
  excepts that case.
* `m_locked_etag` (`cloud_blob.cpp` 509) is never assigned, so a resumed
  download may mix two versions unless an MD5 is compared or the caller set a
  condition (`RangeIntact` says so).
* The hash provider is recreated after every failure (`executor.cpp` 368), so a
  resumed download whose MD5 is compared always mismatches once and starts over,
  or fails if its target cannot seek.
* If everything arrived and the connection is lost before the answer is
  complete, the resumed request is refused with `std::invalid_argument` or 416.
* Error text that is longer than the range stays behind it in a target that can
  seek: the target is rewound, not truncated.
* The block stream releases its permit before it stores an exception that was
  thrown synchronously (`cloud_blob_ostreambuf.cpp` 76). A flush in between
  succeeds; `FlushMeansStored` excludes that case and a close does not pass,
  because the block is missing from the service when the list is committed.

These were met while modelling the objects and the transfers added to them.

Transfers:

* A CRC64 is compared when the computed checksum is not one
  (`cloud_blob.cpp` 639), so a damaged range is returned although `blob.h` 1685
  says that it is validated.
* A notification under the wrong mutex (`cloud_blob.cpp` 804) may be missed by a
  segment that has tested its predicate and not blocked yet.
* Downloading a whole empty blob in parallel leaves the text of the 416 answer
  in the target (`cloud_blob.cpp` 702, against the comment at 670-672).
* `wait_all_async` reads `m_empty_event` without the mutex
  (`async_semaphore.cpp` 45).
* Files in parallel: segments carry no etag, so two versions may be mixed; a
  failed segment keeps its permit and nobody observes its task, so
  `wait_all_async` never completes (`cloud_file.cpp` 669).
* A scaled block size rounds the length up and not the quotient
  (`cloud_block_blob.cpp` 250); the exponential interval is converted from a
  double that may exceed 64 bits (`retry_policies.cpp` 148).
* `upload_from_stream` of a block blob starts its timer with the call's own
  options, not the merged ones (`cloud_block_blob.cpp` 257).
* A character written with `_putc` does not reach the hash providers
  (`streams.cpp` 68-83): the MD5 of a stream that was written so is wrong.

Input stream (`cloud_blob_istreambuf.cpp` 121, `ReadsIntact` excepts these):

* A read at the end moves `m_current_blob_offset` to the size while the buffer
  still holds the last range: the position is then beyond the size, and a seek
  to the end reads the last range again. A seek beyond the end succeeds;
  `tests/blob_streams_test.cpp` 107 expects eof.
* `_nextc` with one byte left in the buffer drops it and skips the next.
* After a failed read, the next read delivers the range behind the one that failed.
* With a wrong MD5 the bytes are delivered; only the end of the stream throws.

Objects:

* A conditional or conditional-by-existence call that is repeated after a lost
  answer meets its own effect: 412, or `false` although it acted. A message is
  added twice, or taken and hidden unseen; an update gets 400 with a stale
  receipt.
* `create_if_not_exists` of a file asks, and then creates without a condition
  (`cloud_file.cpp` 134-141): a file that another client creates in between is
  replaced and the call returns true. `file.h` 3474 says of the result "`true` if
  the file did not already exist and was created". `IfExistsHonest` excepts
  this case by name (`kind # "file"`); without the exception TLC finds it with
  one caller and one foreign change, in seven states.
* `delete_if_exists` of files and both such calls of shares may believe a stale
  secondary (`cloud_file.cpp` 176, `cloud_file_share.cpp` 117, 170):
  `IfExistsHonest` allows them what either location has (`AsksEither`).
* `delete_message` with an empty id clears the queue (`cloud_queue.cpp` 300).
* Container permissions and leases, `upload_block` and `abort_copy` send only
  the lease id of a condition (`LeaseIdOnly`). The tier setters do not
  refuse a snapshot (`cloud_block_blob.cpp` 336, `cloud_page_blob.cpp` 337).
* Left stale in the cache: the public access after `upload_permissions`, the
  etag after `start_incremental_copy`, the sequence number after `create`, the
  block count after an append blob's `create_or_replace`, a file's MD5 and its
  length after a failed resize (`cloud_file.cpp` 861).
* Metadata with blanks around it is stored trimmed; a queue's `create` sends none.
* File properties ignore the "now" and "preserve" choices (`file.h` 1997-1999,
  `file_request_factory.cpp` 163-199).
* A file client's service properties use the options as given, not merged
  (`cloud_file_client.cpp` 102, 110).
* Iterators never send a limit: `min(..., 0)` (`common.h` 426-435).
* `upload_block_list`, the listings and `execute_query` capture `this` or the
  query by reference in work that may outlive them; a page blob's
  `upload_from_file` drops the cancellation token.

## Not modelled

Authentication, SAS, navigation, logging and the readers and writers of the
remaining wire formats convert data and keep no protocol state; their
correctness is a matter of characters, out of proportion to what a model checker
adds. The service is modelled only by what the client sees of it: conditions,
leases, staged blocks, lost answers, a lagging secondary. Of the transfers, the
file's single-range download, the choice between one request and blocks, the
stream copy loop, `_putc` and the content MD5 of output streams are missing.
Entities have an etag and no properties. Data races on plain members are
modelled where a step of another thread can fall between two accesses; torn
reads are not.

## Plan

Done, in this order: semaphore with its abstract specification, timer, retry
policy, executor, range download, parallel download, output streams; then the
objects of the blob, file, queue and table services, listings and clients, the
input stream, and the file variants of the transfers; then the proofs about the
executor, the transfers and the streams, and last those about the objects. Left:

1. `CloseMeansStored` of the block stream with the content stated by positions
   instead of by recursion;
2. an abstract download (all of one version or an exception), refined by
   `ParallelDownload`;
3. `BlockUpload`: one request or blocks, the scaled block size and the
   exponential retry interval, as operators over bounded inputs;
4. the file's single range download as a variant of `RangeDownload`;
5. the readers of lists, policies and batches that are state machines over
   events, as `CloudClient` has for service properties.
