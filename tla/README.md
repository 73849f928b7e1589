# StreamWeaver: a TLA+ verification project

TLA+ modules for the M3U stream merger in this repository: they model its shared
stream buffer, its sessions and requests, media and HLS writers, its load balancer, its
registry of streams, the background update of the merged playlist and the merge itself,
check them with TLC on small instances, and prove with TLAPS, for every instance, all of
their safety properties, two refinements, and the safety halves of most of their liveness
properties.

## 1. Inventory of the system

The program fetches several M3U playlists, merges streams of the same title into one
playlist (`/playlist.m3u`), and proxies each stream (`/p/...`): all clients of a stream
share one upstream connection through a ring buffer in memory.

| Component | State | Operations | Concurrency |
|---|---|---|---|
| Shared ring buffer (`proxy/stream/buffer/coordinator.go`) | ring of chunks, `Buffer` (write position), `writeSeq`, `state`, broadcast channel | `Write`, `ReadChunks`, `ClearBuffer`, `subscribe`, `notifySubscribers` | one writer goroutine, a reader per client; `Mu` and `broadcastMu` are separate |
| Stream session (`media_stream.go`, `coordinator.go`, `coordinator_media.go`) | `ClientCount`, `WriterActive`, `WriterCtx`, `LBResultOnWrite`, `state` | `HandleStream`, `RegisterClient`, `UnregisterClient`, `StartMediaWriter`, `readAndWriteStream`, `writeError` | clients come and go while writers start and wind down; several fields are atomics read outside the locks |
| HLS writer (`coordinator_m3u8.go`) | the same coordinator; the playlist's body and its copy, last media sequence, last error | `StartHLSWriter`, `processSegments`, `streamSegment`, `parsePlaylist` | a second kind of writer; the body is shared with the clients that hold the result |
| ProxyStream and the M3U8 fallback (`stream_instance.go`, `media_stream.go`, `failovers/`) | `ConcurrencyManager.Invalid`, exit channel, read channel | choice of shared buffer, direct stream (`HandleDirectStream`) or fallback (`ProcessM3U8Stream`) | a goroutine per round of `handleStream`, and one per read of a direct stream |
| Load balancer (`proxy/loadbalancer/instance.go`) | `testedIndexes`, the index slice shared by the whole program (`utils/env.go`) | `Balance`, `tryAllStreams`, `tryStreamUrls` | a goroutine per request; the slice is sorted in place without a lock |
| Concurrency manager (`store/concurrency.go`) | connections per source | `UpdateConcurrency`, `CheckConcurrency`, `ConcurrencyPriorityValue` | locked, but check and update are far apart |
| Stream registry (`registry.go`) | map of stream to coordinator, `actualURL` | `GetOrCreateCoordinator`, `cleanup`, `SetActualURL` | a ticker removes coordinators that requests may hold |
| Stream handler (`handlers/stream_http.go`) | per request: coordinator, load balancer result | `handleStream`, `handleExitCodeWithLogger`, `handleSegmentStream` | one goroutine per request, and those of `ProxyStream` |
| Updater (`updater/updater.go`) | a lock | `Initialize`, the cron function, `UpdateSources` | updates wait for each other |
| Source processing: files (`processor.go`, `downloader.go`) | processed directory, source files | downloads, `compileM3U`, `Wait` | downloads in parallel; files outlive the process |
| Source processing: catalog (`parser.go`, `filter.go`, `sorting.go`) | URL index files, shards in memory and in files | `parseLine`, `checkFilter`, `AddToSorter`, `GetSortedEntries`, `Close`, `loadStreamURLs` | workers add streams in any order; files outlive the process |
| Playlist handler (`handlers/m3u_http.go`) | `processedPath`, credentials | `ServeHTTP`, `SetProcessedPath` | path read and written without a lock |
| Configuration and boot (`main.go`, `config/config.go`) | file names | `GetLatestProcessedM3UPath`, `ClearOldProcessedM3U` | none |

What is hard here: readers wait on a channel that they fetch after releasing the lock
they read under; the last client tears a session down while the next one joins it; the
limit of a source is checked before a connection is opened and counted after; the
registry's ticker judges a coordinator by its client count while a request is on its
way to it; a response body is used by the writer it was given to and closed by the
clients that borrowed it; goroutines report on channels that nobody may receive from;
updates leave files behind that the next process finds. `PROJECT.json` lists
these hazards with the line where each bites and the properties that cover it.

## 2. Modules

```
SharedBuffer          the ring and its readers        <- SharedBufferProofs
  StreamSession       clients, writers, one ring      <- StreamSessionProofs
    MCStreamSession
LoadBalancer          requests, sources, counts       <- MCLoadBalancer, LoadBalancerProofs
StreamRegistry        requests, coordinators, cleanup <- MCStreamRegistry, StreamRegistryProofs
HLSSession            clients, HLS writers, bodies    <- HLSSessionProofs
ProxyStream           requests, their goroutines,
                      direct streams, segments        <- ProxyStreamProofs
SourceSync            updates, files, restarts        <- SourceSyncProofs
ChannelTable          one table of channels
  StreamCatalog       index files, shards, order      <- MCStreamCatalog, StreamCatalogProofs
```

A module `XProofs` extends the module `X` and holds its theorems with their lemmas.

The modules overlap on purpose: each keeps of its neighbours what its own questions
need. StreamSession has the steps by which clients enter and leave a coordinator;
HLSSession and ProxyStream take these as one step and follow the response bodies and the
goroutines instead.

**SharedBuffer** is the abstract specification of the coordinator: any writer step
(`Write`, `ClearBuffer`, `SetState`), any reader step (`ReadChunks`, `Resume` when the
channel it waits on is closed, `Continue`, joining and leaving) in any order. The ring is
a function on `0 .. N-1`; `Buffer` is the write position; a chunk is its sequence number
and one of `data` and the error statuses (bytes are not modelled). `ReadChunks` is
atomic up to the release of `Mu`; `subscribe` is
a step of its own, because the code fetches the channel after the unlock. `last[r]`
records what the reader got with the numbers it stands for: `after` and `upto`. The
`anchor` of a reader, a history variable, is the number of the last chunk written when
the writer stood at the reader's position.

**StreamSession** extends SharedBuffer with `HandleStream` of each client (`cpc`) and
the writer goroutines (`wpc`). One action for each stretch of code between two points
where another goroutine can see or change something: the claim of `WriterActive`
(compare-and-swap), the spawn, the reset of `state`, the count in `RegisterClient`, and
in the cleanup the decrement, the store of the draining state, the clear, the
notification, the second look at `ClientCount`, the cancellation and the second clear.
A writer reads `WriterCtx` when it starts, and may find nil, which makes it panic and
recover (`LoopPanics`). `concurrency` is the manager's count for the one source.

**LoadBalancer** models `Balance` per request: laps, the in-place sort of the shared
`order`, the pick of the first index not yet done, the URLs of the picked index, the
limit check, the upstream request, and what becomes of the result: a writer, which counts
its connection when it starts and gives it back when it ends, or the request itself, which
reads a VOD or a playlist known as incompatible without counting it (`StartDirect`,
`EndDirect`). `others` are writers of other streams, which are there at the start and may
end. `sort.Slice` uses insertion sort for up to 12
elements; every comparison and each of the two writes of a swap is a step.

**StreamRegistry** models `handleStream`: look-up, a fresh result or one borrowed from
the running writer, the redirection to the coordinator tied to the result's URL, the
session, and the next round. Of a coordinator it keeps its count, its writer and the
URL it is tied to. `cleanup` finds an idle coordinator in one step and removes it in
another.

**SourceSync** models `Updater`, `M3UProcessor`, the downloader's files and the path
that is served, with a process that may stop between any two file operations, a boot
for every combination of `CLEAR_ON_BOOT`, `SYNC_ON_BOOT` and `BASE_URL`, and errors of
`addStream`, of the writes in `compileM3U`, of both renames and of the removal of files.
A file of the processed directory is its name, whether it has the `.tmp` suffix, and
whether it holds all the streams; names are taken in any order from `Times`, since they
are local times with a resolution of one second (two updates may have one name, and
clocks go back). The path that is served is a full one, or, after a boot and after a failed
update, the bare name of a file, which names nothing; the history variable `outcome`
remembers how the last update ended that set it. Local sources (`file://`) write nothing and are left out.

**HLSSession** models a coordinator whose upstream is an HLS playlist. A writer's `pc` is
where `StartHLSWriter` stands: at the head of the poll loop, which alone looks at the state,
in its select, in a list of segments, in one segment, in `writeError`, in its deferred
functions. A result's `body` is open, closed, copied (the
writer has replaced it by its copy in memory), drained or cut by a fallback (a line that
cannot be written, or is too long for the scanner), or spent (the copy has been read by a
fallback). Every tick after the first reads the same copy (`PollSame`, `PollTimeout`).
Clients borrow the writer's result or bring their own,
enter and leave in one step each, and ProxyStream closes the body they held, or hands the
playlist over in the fallback once the content type is found unsafe to concatenate. A header
that is missing counts as unsafe; this happens to a client that leaves while it waits for
it.

**ProxyStream** models the goroutines of a request: the handler with its select and its
pause, the ProxyStream goroutine that sends a status on an unbuffered channel, the
goroutine that each read of a direct stream runs in, with its channel of one place and
the buffer it shares with the write, and segment requests. Of the coordinator it keeps
the writer as the owner of a body, and of a client's reading whether it is blocked in
`ReadChunks`, where it does not see that its request is over.

**ChannelTable** is the abstract specification of an update's merge: a table from title
slots to channels that an update begins, puts new channels into, fills (what a channel has
is never replaced, its rank among the listings may only come first), and ends; a failed
write may lose channels; an update that is cut off leaves its channels, or some, to the
next. **StreamCatalog** implements it (`ImplementsTable`): `parseLine` with its
URL index files, `checkFilter`, and the shards, each partly in a buffer and partly in a
file. A listing is its place in the order of (source, line), and the value of an attribute
is the listing it comes from, so that a merge shows whose value was kept. A write of
a shard succeeds, fails before the file is truncated, or fails after; the process may
stop anywhere, inside a write too, which leaves a file that cannot be decoded. Sort keys
are sequences of characters, compared as Go compares strings.

The operators marked as mutants in the comments are the deliberately broken variants
that show that each property can fail; no specification uses them.

## 3. What the runs check

Passing runs:

| Run | Instance | Shows |
|---|---|---|
| `shared_buffer` | one reader, ring of 3, 7 chunks | slots carry the number their position implies; reports are in order, complete within one ring, lose only whole rings beyond it and never overlap; a reader is moved only if its slot was cleared |
| `stream_session` | two clients, ring of 2, 4 chunks, 2 writer starts | at most one writer; `ClientCount` and the connection count are exact; an empty session leaves nothing behind; every step implements SharedBuffer |
| `stream_liveness` | the same code, 2 chunks, one start, with fairness | an unwatched writer stops; a subscribed reader is woken |
| `load_balancer` | 2 requests, 2 sources with limits 2 and 1, 2 laps, up to 2 other connections | a source's count is the number of its writers; more connections than the limit are held only by VODs and fallbacks, which nobody counts, and by writers overtaken between check and count; an undisturbed lap with an intact slice asks every source, no URL twice; `Balance` ends |
| `stream_registry` | 2 clients, 2 streams with 2 and 1 URLs, 2 coordinators, 3 results | requests stay with their stream; counts equal the watchers; a removed coordinator does not come back |
| `stream_catalog` | 6 listings of 4 titles from 2 sources in 2 shards, buffers of 2, two updates, one crash, one failed write, 3 lists that sources may give | a published playlist has every channel and attribute its listings had, up to two named exceptions; leftovers of a cut update reach one update; published channels resolve to their URLs; the order is the numeric one; the shards implement the table |
| `hls_session` | two clients, 2 writers, 2 results, 2 segments | the connection is counted once on every way out of `StartHLSWriter`; every body is released, but for one that a fallback gave up; clients that watch when a writer ends find an error in the ring, in all cases but two |
| `proxy_stream` | two clients, 2 upstream responses, a VOD of two reads | an open body has an owner, but for the result that lost a race; a VOD is written in order and whole up to the bytes that come with EOF; goroutines of a finished request end, but for the blocked send and the blocked `ReadChunks` |
| `source_sync` | one source, two contents, two file names, one waiting update | playlists on disk are whole and not lost; the playlist is served from a success until a failure, and at no other time; fallback files match the playlist; a waiting update gets its turn |

Runs that end in a violation, each a disagreement between the repository's words and
its code (the traces' causes are in `PROJECT.json`, "findings"):

| Run | Statement | What TLC shows |
|---|---|---|
| `error_ends_reading` | readers that see an error stop | a reader that subscribes after the last notification waits for ever |
| `single_input` | one input stream for many clients | `cleanup` removes a coordinator that a request holds; two writers for a stream |
| `boot_survives` | `.tmp` files are skipped at boot | any left-over `.tmp` file makes every later start panic |

Other disagreements are told by the exceptions in properties that hold:

* `LimitUnlessRaced`: README.md:115 of the repository has `M3U_MAX_CONCURRENCY_X` set the
  "max concurrency" of a source. Connections of VODs (`HandleDirectStream`) and of playlist
  fallbacks are never counted, so any number of them pass the check one after another,
  without any overlap (a comment at `stream_instance.go:141` admits it of the fallback, for
  VODs nothing does); and two requests that overlap both pass it before either is counted.
  These are the only two ways, one connection for each such request.
* `LapCoversIntact`: two concurrent sorts may lose a source from the shared slice for good;
  with an intact slice every source is asked.
* `ServedFromSuccess`: an update that fails says that it is "keeping old data"
  (`processor.go:146`), and README.md:43 promises updates "with no downtime". The old file is
  kept, but `Wait` returns nil all the same, and `UpdateSources` sets the path that
  `GetResultPath` finds: a name without its directory. Every request is answered 404 until
  the next update that succeeds. The path set at boot lacks its directory, too; and an
  update that succeeds removes the old file before it sets the new path. A cancelled update
  leaves the path alone.
* `ClientsTold`, `HLSWindsDown`: the comments of `StartHLSWriter` speak of a polling rate
  (`coordinator_m3u8.go:59`, `:116-117`), its code waits for a later media sequence (`:152`),
  and README.md:167-171 has a writer work on until it is cancelled, unwatched, at EOF or in
  error. But the first tick puts a copy of the playlist in the place of its body (`:100`), and no
  request is made again: the writer of a live stream plays one list, then compares that
  list with itself until its timeout, and ends though clients watch. That it ends is not
  claimed as a virtue: `HLSWindsDown` states that nothing new is fetched, `ClientsTold` that
  its clients get the error they need to try again. They do not if the last client had
  left during the writer's life and another one came, or if `RegisterClient` found a client
  of the writer before it still counted and left the stream inactive.
* `GoroutinesEnd`: `ReadChunks` receives from its channel without looking at the context
  (`coordinator.go:505-510`), so the goroutine of a client that has gone stays there while the
  upstream is silent, or for ever after the lost notification of `error_ends_reading`; and
  the status of a request that ended early is sent to nobody (`stream_instance.go:180`).
* `NothingLost`: a listing that arrives while the first of its title is still buffered
  loses its attributes (`dropped`), whatever `sourceproc_test.go:419` expects of a merge.
* `Resolvable`: titles whose base64 form contains `/` have no index file (its name would be a
  path), nor have those whose form is longer than a file name may be: `parseLine` writes only
  if `os.Stat` says that the file does not exist (`parser.go:100`), and for such a name it says
  something else. A torn index file is never rewritten.
* `Sorted`: titles come in ascending order for `SORTING_DIRECTION=desc`, too (and
  unsanitized, where `asc` compares sanitized titles); the numeric order is that of
  channel numbers from 0 to MaxInt32, since a sign or a longer string is not in order.

### Bounds, and why they are enough

* `MaxSeq` (chunks written): more than two laps of the ring of 3, so that a reader is
  caught up, behind by less than a ring, exactly one ring and more than two rings.
  Readers do not affect each other in SharedBuffer, so one is enough for TLC; the proofs
  hold for any number and any ring size.
* `MaxStarts`, `MaxData` in StreamSession: a writer that winds down and the next one,
  with data and an error chunk each; the liveness run is smaller because it admits no symmetry.
* `MaxRetries`, `MaxOthers` in LoadBalancer: a lap that fails and a second one; a full
  source and one with room.
* `MaxCoords`, `MaxResults` in StreamRegistry: a removed coordinator and its
  replacement, for one or for both streams.
* `FlushAt` is 2 in StreamCatalog (250 in the code): a shard that is written while
  listings still come, and one that only `GetSortedEntries` writes. Two updates and one
  crash or failed write are what it takes to carry files from one update into the next and
  past it.
* `MaxStarts`, `MaxResults`, `Segments` in HLSSession: a writer that winds down and the next;
  a result that wins and one that loses; a segment after a failed one. `Chunks` in
  ProxyStream: a chunk before the last one.
* `MaxWaiting`, `Times`, `Contents` in SourceSync: one update under way and one waiting;
  old and new playlist; old and new download. Sources are independent of each other
  there, each with files of its own, so one is enough. Processes may stop and start
  without bound there.

Deadlock checking is off where the bounds let the model stop (all clients gone, all
chunks written); it is on for SourceSync.

### Fairness

* A goroutine that can run eventually does: weak fairness of each client's entry, loop
  and cleanup steps, of each writer's steps, of a request's `Balance` steps and of an
  update's steps.
* Strong fairness of `WriterEnds`, which needs `InitializationMu`: `sync.Mutex` hands the
  lock to a goroutine that has waited for 1 ms, so nobody starves.
* Assumed of the environment: `body.Read`, upstream requests, downloads and writes to
  clients return. The HTTP client of the program has no timeout, so a silent upstream
  can keep a writer or an update; the hazards say so.
* HLSSession states no liveness and assumes no fairness.
* ProxyStream: weak fairness of the handler's selects, of the goroutines that can run, of
  the send on the read channel, and of the read of a *closed* body. A read of an open body
  may wait for ever, and the reader of `GoroutinesEnd` ends all the same, since
  `HandleDirectStream` closes the body. A client of the shared buffer that stands between two
  calls of `ReadChunks` leaves when its request is over (`HandleStream` looks at the context
  there); none is assumed for `SessionWoken`, the notification that a client blocked inside
  `ReadChunks` waits for.
* Clients need not come or go, crashes need not happen, and nothing is assumed of them.

## 4. What is proved

Every invariant and action property that a passing run checks is a theorem, for all
values of the constants, and so are both refinements. Each proof has one lemma or step
per action. The type invariants that no run checks, `SyncTypeOK` and `RegistryTypeOK`,
are theorems too (`SyncTypesKept`, `RegistryTypesKept`).

Of the liveness properties the part that single steps can show is a theorem: a measure, a
number or a tuple of numbers in lexicographic order, that each step of the actor lowers and
that no step of another actor raises. These action properties are stated beside their
proofs and no run checks them; what they leave to TLC is that a step is taken at all.

| Theorem | For | The measure counts | Under |
|---|---|---|---|
| `UnwatchedWriterEnds` | `WriterStops` | the stretches of a writer's cleanup, at most seven | nobody attends the session |
| `HLSWriterIsBounded` | (`HLSWindsDown`) | segments of its one list, then the way out; idle turns of the poll loop leave it as it is | nothing: the body of a playlist is fetched once |
| `ReturnedRequestEnds` | `GoroutinesEnd` | the reads of a direct stream, then the sends; a wait in `ReadChunks` keeps its steps | the request has returned |
| `BalanceIsBounded` | `BalanceEnds` | laps, indexes, stages, URLs, places to sort, swaps, writes of a swap | a limit of retries, and the shared slice has all its indexes when one is picked |
| `UpdateIsBounded` | `WaitingRuns` | stages of an update, sources, files to write and to remove | the update that holds the lock |

The condition of `BalanceIsBounded` is needed: if two concurrent sorts have lost two of three
sources, `tryAllStreams` picks the same index again and again.

**SharedBufferProofs** (`TypeCorrect`, `RingIsStamped`, `ReadsInOrder`, `NoLossWithinRing`,
`LosesWholeRings`, `MovesForward`, `ResetNeedsClear`). The inductive invariant is
`TypeOK /\ RingStamped /\ Anchored /\ InOrder /\ UnlappedComplete`. `RingStamped` says
which number a filled slot carries as a function of its distance behind `Buffer`;
without `Anchored` it says nothing of a reader, whose position alone does not tell a
caught-up reader from one that is a ring behind. `Anchored` ties the position to the
history: the distance from the reader's position to `Buffer` never exceeds the number of
chunks written since the reader took that position, and equals it until the reader is
lapped. With both, what `ReadChunks` copies is a run of consecutive numbers, cleared
slots left out. `ResetNeedsClear` follows from the same facts: a filled slot is never
older than a ring, so the check for slow readers fires for cleared slots only.
`LosesWholeRings` needs `Lapped`: the distance and the number written since are equal
modulo the ring. The arithmetic on positions (`NextOf`, `PrevOf`, `Step`, `Ahead`) is in
lemmas of its own.

**StreamSessionProofs**. `SessionImplementsBuffer`: every step of clients and writers is
a step of SharedBuffer or leaves its variables alone, from `WriterHasStatus` (an error
chunk is put with an error status); `SessionReadsInOrder`,
`SessionLosesWholeRings` and `SessionMovesForward` follow: what SharedBuffer promises its
readers holds for the clients of a session, over any number of writers. The session's own
properties (`SessionTypes`, `OneWriter`, `ClientsCounted`, `ConnectionCounted`, `LeftClean`)
rest on `SessionInv`: `Owned` (one holder of the start lock, one writer), `Counted`, `Held`
(the stored result and the connection count go together) and `Attended`. The last is the
strengthening that `QuiescentClean` needs: while anybody is there, an active state, a
chunk in the ring and a writer's context each have a client whose remaining steps
will remove them, also when one client leaves and the next one joins.

**HLSSessionProofs** (`HLSConnection`, `HLSBodies`, `HLSClientsTold`, `HLSWriterIsBounded`).
`Connected` says where the writer that stored its result is; `Owned` strengthens
`BodiesReleased` to every moment: an open body is that of a result some client holds.
`HLSClientsTold` needs `ToldInv`: the count is the number of clients in the session
(`Counted`), the current context is that of a writer that was started and is not cancelled
(`Contexts`), and, unless it is excused, a running writer has clients, an active state and a
live context until it has put its error in the ring, which stays while somebody watches
(`Told`).

**ProxyStreamProofs** (`BodiesHaveOwners`, `VODInOrder`, `ReturnedRequestEnds`). `Round`
says what a round of `handleStream` leaves to the next one: no read under way and nothing in
its channel, so that a read never lands in the buffer of a later round. `Known` says that a
VOD's body is read by one request, and that a result in use is not fetched anew.

**StreamRegistryProofs** (`KeepsToItsStream`, `WatchersCounted`, `DeadCoordinatorsStayDead`).
`OwnStream` needs to know that the URL a coordinator is tied to is one of its stream
(`OfStream`), since a redirection searches all coordinators by URL, and that the result
that can be borrowed is the writer's (`Writing`).

**LoadBalancerProofs** (`LoadBalancerTypes`, `CountsWriters`, `WithinLimitUnlessExcused`,
`NotAskedTwice`, `CoversAllSources`, `BalanceIsBounded`). `LimitInv` keeps, for a request
that found room and was not overtaken, that there still is room for it among the writers;
connections read directly come on top, and are excused one by one (`LimitDirect`). `AskInv` says what a
request has asked for: all URLs of the indexes that are done, and a prefix of those of the
index being tried. `CoverInv` follows the insertion sort element by element: while nobody
else writes to the slice, a swap is complete or under way, with the lost element in the
request's hands, so that the slice is a permutation again when the sort ends.

**SourceSyncProofs** (`PublishesWhole`, `ServedUntilFailure`, `FallbacksMatch`, `KeepsAPlaylist`,
`UpdateIsBounded`).
`SyncInv` says what is in memory when no process runs (`Held`), that the directory is
finite with one file of a name (`Files`), that the file `Wait` finds is the one
`compileM3U` wrote (`Written`), that the new playlist stays until its path is set
(`Renamed`), and where the file of a source stands in each state of an update (`Matched`).
`Wait` takes the greatest name: `GreatestNumber` shows that a finite set has one.

**StreamCatalogProofs** (`TableIsKept`, `EveryStreamIsPublished`, `LeftoversReachOneUpdate`,
`PublishedCanBePlayed`, `PlaylistIsSorted`). `Shape` has the types and three parts: `Homed`
(an entry is in the slot of its title, and a buffered one is known to the index: a slot that
is new to the index is empty in the buffer *and* in the file), `Streams` and `AtRest` (only
an update that was cut off leaves files). `TableIsKept` maps every step to one of
ChannelTable: a new stream puts a channel, one that exists fills it or, if a write fails,
loses it; a flush moves entries from the buffer to the file, which the table does not see; a
stop cuts. The lemmas on `writeShard` and `flushShard` state what a write leaves in each of
its three outcomes. Over `Shape`, `Own`, `Found` and `Kept` with `Written` each strengthen
one property to all moments of an update; `Emits` shows that what is published is what the
files hold, no more and no less. `PlaylistIsSorted` has to compare the decimal strings of
any two numbers, and `Digits` is recursive. The induction theorems of the library take a
predicate that no installed prover can instantiate, so the induction is by least
counterexamples: a set of natural numbers that is not empty has a least element, a fact that
can be stated for sets. Applied to the numbers up to which no function satisfies the
definition of `Digits`, it gives that there is one for all numbers; applied to widths, that
of two numbers padded to the same width the smaller one's string is less at the first
difference (`PaddedOrder`), from the padding of a number's tenth in one place less
(`PaddedStep`). Numbers up to MaxInt32 have at most ten digits, one step per digit
(`TenDigits`), so that string order is numeric order for them.

TLC has checked the inductive invariants on the runs' instances as well.

### Assumptions on the constants

* Bounds and sizes are numbers, positive ones where the code has one of the thing.
* `IndexesListed`, `MaxPositive`, `RetriesNatural` (LoadBalancer): the slice of indexes lists
  each once; limits below one count as one. `SubUrlsAreKeys`: the URLs of an index are the
  sorted keys of a map. `IndexesNamed`: no source has the empty index.
* `StreamsHaveUrls`, `UrlsAreGiven` (StreamRegistry): a stream has a URL, and none is empty.
* `ContentsAreFiles` (SourceSync): an empty download is not a missing file. `SourcesFinite`:
  there are finitely many sources, as there are environment variables.
* `ListingsPlaced` (StreamCatalog): each listing has a title and a source, each title a slot,
  each slot a shard, and the name of a source's index starts with itself. `ListingsOrdered`:
  listings are compared by source and line. `SlotsFinite`: there are
  finitely many slots, since an update parses finitely many lines. `NoneIsNoListing`,
  `NoneIsNoEntry`: absence is told from presence. `TitlesRanked`, `ChannelNumbers`: a title has
  a place in string order, a channel number is an integer.

No proof assumes the bounds to be small, nor fairness.

### What is only model-checked

* The liveness properties. The measures above are proved; that an actor with something left
  to do has a step, and that fairness makes it take one, needs ENABLED, which is beyond the
  prover. `WaitersWoken` has no measure: all it rests on is the one step that closes the channel.

## 5. What is not modelled

* Bytes, headers other than the kind of content, logging, formatting and timing. The
  backoff is a step that may be taken; timeouts are choices.
* What is inside a playlist or a line: regular expressions, slugs, the rewriting of URLs
  (`m3u8_helpers.go`), the text of the merged playlist. Two listings have equal titles or
  not, an attribute is there or not. Channel numbers are integers: what `strconv.Atoi` refuses,
  which is compared as a sanitized string, is left out.
* The check of credentials, a pure function of a request, and the passthrough handler, which
  keeps no state. ProxyStream's branch for status 206 is dead code: the load balancer
  accepts only 200.
* Torn reads of strings shared without a lock (`processedPath`, the index slice): a
  string is read whole.
* `testedIndexes` never makes the load balancer skip a URL, as each call makes a new
  instance (`SkipUrl` is taken for the limit only). `OwnStream` is stated for streams
  without a common URL. With three sources of which two were lost from the slice, the
  loop of `tryAllStreams` would not end; the run has two.
* `Shutdown`, `GetCoordinatorByActualURL` and the functions only tests call.
* Titles are taken to be valid UTF-8: the JSON files of the catalog give such a title back as
  it is, and change one that is not.
* Two writers of one stream (the run `single_input`) in HLSSession and StreamSession, which have
  one coordinator each.

## 6. Plan

What is left is small:

1. For the measures of section 4: that each state whose measure is not at its end has a next
   step, as implications between state predicates, which need no ENABLED.
2. The way of `BalanceIsBounded` for an unlimited number of retries (`MaxRetries` 0): that one
   lap is bounded, as the laps are not.
3. ChannelTable's own consequence: a channel's first attributes never change while the
   update does not fail, as an action property of the table, carried to StreamCatalog by
   `TableIsKept`.
