# A TLA+ development for webspider

webspider collects articles in two halves joined by Redis. A Go **crawler** polls
sources (DEV.to, Stack Exchange, RSS), drops the URLs it has seen and appends the
rest to a Redis stream. A Python **processor** consumes that stream through a consumer
group, fetches and extracts the pages, filters and deduplicates them, stores them in
PostgreSQL, and parks what it cannot fetch on a dead-letter stream. Around the two
stand exports, a vector pipeline, a monitor, a dashboard and a backup container.

The modules here model the path an article takes from a source to the table and on to
the vector table, and the services beside it, with the crashes, exceptions, retries and
interleavings they meet. TLC checks them on small
instances; TLAPS proves the central results for every value of the constants.

All paths below are relative to the repository's root. `PROJECT.json` maps every
definition to the lines it models and lists the runs, mutants, hazards and theorems.

## 1. The system

| part | source | state it keeps | operations |
|---|---|---|---|
| crawler daemon | `go-crawler/cmd/crawler/main.go`, `internal/config` | nothing but the configuration | a run per interval; `resolveSince` computes the window |
| crawl scheduler | `internal/scheduler/scheduler.go` | channels `sem` and `results`, run statistics | `Run`: rate limit, one goroutine per page, circuit breaker, drain, heartbeat |
| stream producer | `internal/stream/stream.go` | `seen:articles`, the article stream, the cursor, `pipeline:runs` | `Publish` (Lua: SISMEMBER, XADD MAXLEN ~, SADD), `advanceCursor` (Lua), `RecordRun` |
| sources | `internal/source/*.go` | none | `FetchSince` with retries and backoff |
| stream processor | `py-processor/main.py`, `store.py` | the group's pending list, `articles_dlq`, `dlq:seen`, metrics, table `articles`, connection pool, `seen_hashes` | startup, `recover_pending`, main loop, `process_batch`, `push_dlq`, reconnect loop |
| near-duplicate index | `neardup.py`, `dedupe.py` | SimHash bands in Redis with their TTL, warm sentinel | `bucket_keys`, `is_duplicate`, `index`, `warm_from_db` |
| fetcher | `fetcher.py` | token buckets shared by threads | `fetch_many`, `fetch_one`, `TokenBucket.acquire` and `penalize` |
| dead-letter replay | `dlq_replay.py` | none (works on both streams) | `replay_round`, `--loop`, `--delete`, `--dry-run` |
| quality gate | `quality.py`, `quality_probe.py` | none | verdicts on a text |
| backfill | `backfill_simhash.py` | column `content_hash` | one transaction |
| exports, chunker | `export.py`, `export_sft.py`, `rag_export.py`, `chunker.py` | output files, `rag_export`'s state file | read, chunk, write |
| vector pipeline | `embed_chunks.py`, `import_pgvector.py`, `sync_vectors.py` | chunk file, `.npz` archive and its `meta.json`, table `article_chunks` and its HNSW index | embed, import by COPY or upsert, incremental sync |
| monitor, dashboard | `monitor.py`, `dashboard/*` | `pipeline_snapshots` | sample, prune, query |
| schema, backups | `db/init.sql`, `db/backup-entrypoint.sh` | dumps and a marker file | a dump per interval, a full one per week, prune |

**Interactions.** The daemon builds a scheduler per run; the scheduler calls
`FetchSince` and `Publish` from its goroutines. Crawler and processor share only Redis.
The processor's single main thread calls `fetch_many`, which owns the only threads of
the Python side. `process_batch` writes PostgreSQL, the index, the metrics and the
acknowledgement in that order and as separate calls. The replay tool moves entries from
the dead-letter stream to the article stream while the processor consumes it. The
vector tools hand files to each other and read `articles` while the processor inserts.

**What is hard.** A kill or an exception between any two store calls, followed by a
replay of the batch; a call that raised but took effect; `seen_hashes`, which survives an
exception and not a kill; entries trimmed from the stream while they wait or are pending;
two bounded channels between a loop and its goroutines; goroutines that publish the same
article and advance one cursor; workers that share lazily created buckets and penalise
each other; articles listed late or while a run is under way; a tool killed in the middle
of a line, an archive or a bulk load, and what the next run makes of it; keys that expire
under a sentinel that does not. Each place is listed under
`hazards` with the properties that watch it.

**What makes the parts correct.**

* processor: nothing published is lost or left; what is settled stays settled; retries
  neither park twice nor count a row twice; the index and the table agree;
* index: banding finds exactly the documents within the threshold, and the one warm-up,
  however often it is interrupted, covers the table;
* scheduler: it terminates, cannot deadlock, stops soon after the breaker trips, and its
  heartbeat tells the truth;
* daemon: the cursor is the newest time published, and never passes an article still to be
  published;
* sources: a page is what the source keeps of its window, "empty" means exhausted, "failed"
  means retried;
* fetcher: rates hold across threads and penalties, and a batch ends;
* replay: the tool drops no parked article;
* vector pipeline: a vector stays with its chunk, a cursor never passes what is not
  written, and "nothing to sync" is true;
* chunker: no text is dropped, chunks are bounded, heading paths are right;
* monitor: no increment is counted twice; backups: there is one to restore from.

## 2. The modules

| module | models | extends / composes |
|---|---|---|
| `Delivery` | the abstract contract between crawler and processor | |
| `Processor` | `main.py`, `store.py`, `warm_from_db`, the `Publish` script | `Contract == INSTANCE Delivery WITH ...` |
| `MCProcessor` | constants for TLC | `Processor` |
| `ProcessorProofs`, `StorageProofs` | theorems: no loss, one batch and the refinement; table, index and counters | `Processor`, each the one before |
| `LSH`, `MCLSH`, `LSHProofs` | banding, probing, expiry, warm-up, backfill; `bucket_keys` on integers | |
| `Scheduler`, `MCScheduler`, `SchedulerProofs` | one `Run` with its goroutines | |
| `Crawler`, `CrawlerProofs` | run after run, window and cursor | |
| `Sources`, `MCSources`, `SourcesProofs` | one `FetchSince` call, request by request | |
| `Fetcher`, `MCFetcher`, `FetcherProofs` | `fetch_many` of one batch | |
| `DlqReplay` | the replay tool beside the processor | |
| `Vectors` | `rag_export`, `embed_chunks`, `import_pgvector`, `sync_vectors` | |
| `Chunker` | `split_markdown` as operators on a document | |
| `Monitor` | the sampler and the chart drawn from its rows | |
| `Backup` | the dump loop | |
| `Tools`, `MCTools`, `ToolsProofs` | the five above, side by side | `INSTANCE` of each |

The modules are joined by what each assumes of the others: `Processor` sees the index as
a set with the relation `Close`, which `LSH` shows to be what `is_duplicate` decides; it
sees a fetch as one call with an outcome per message, which `Fetcher` opens up;
`Crawler` overlaps the pages of a run with one step per page, and `Scheduler` opens up the
channels and goroutines of one run;
`Scheduler` takes `FetchSince`'s answers as given, and `Sources` says which they may be;
`Vectors` takes an article's chunks as given, and `Chunker` says what they are.

A definition preceded by the comment `Mutant:` is a plausible bug of the definition that
follows. No specification uses it; `PROJECT.json` pairs it with the property that finds
it.

### Processor

One action is one call to a store, so `Crash` and an exception can fall between any two.
`pc` names the next call, `mode` the caller (startup, main loop or reconnect loop), which
decides who catches an exception: `Raises` is `exit` at startup, `putconn(close=True)`
and the reconnect loop in the main loop, and another round of that loop, with the
connection still checked out, in the reconnect loop. A call that raises may have taken
effect; both are alternatives of the action.

`log` holds every entry ever added, an id is an index, `first` is the MAXLEN trim, `last`
and `pel` are the consumer group. Content is represented by its fingerprint.
`Extractions` gives what phase 2 can make of an entry (inline body, page, 404/410,
nothing) and `Gate` the possible verdicts of the quality and language gates; langdetect
is not deterministic, so a verdict may differ between two attempts. `fate[m]` is a
history variable: the outcome of the latest attempt at `m`.

Left out: the text of a document; `MAXLEN` of the dead-letter stream (in `DlqReplay`);
`NEARDUP_TTL` (in `LSH`); a message whose fetch raises on every attempt; the
split of `stored_by_source` and of the rejection counters by name; more than one consumer
(the deployment has one, with a fixed name).

### Delivery

Messages are taken in order, at most `Limit` at a time, the next ones only when the
earlier ones are settled; those taken are settled together, and whatever is settled is
*kept*. The refinement mapping takes `published`, `delivered` and `pending` from the
stream and its group, and as `kept` the entries that are accounted for: a row under the
URL, a stored near-duplicate, a dead-letter entry, a gate's verdict, a page that is gone,
or a trim before it was read.

### LSH

A fingerprint is the set of its one-bits; a band is a slice of positions and a bucket key
the bits of that slice. `MCLSH` adds the shift-and-mask loop of `bucket_keys` on integers
and checks that it computes these bands.

`Index` is the INSERT and the pipeline of `index`; its document is in the table or not,
because the processor indexes also what `ON CONFLICT` left out. `IndexInterrupted` and
`WarmInterrupted` are pipelines cut off after any command, also between a SADD and its
EXPIRE. `WarmStart` looks at the sentinel and reads the table, `WarmEnd` has written all it
read and sets the sentinel; `Backfill` may commit between the two. With a TTL, `life` is
what is left of each key and `Tick` drops the sets that are over. An EXPIRE restarts the
TTL of the whole set: nothing expires early by it, and strangers in a set may live longer.

Three history variables carry the properties: `fresh[f]` says how long `f` has been
promised to stay indexed, `missed` holds the fingerprints that were backfilled after the
warm-up's SELECT, cut off or expired, and `touched` all that were handed to the index. A
warm-up is taken to be short beside a tick.

### Scheduler

`pc` is the place in `Run`'s loop, `at[p]` that of the goroutine of page `p`. `results`
is the buffered channel; the slots taken of `sem` are the goroutines in `Holding`.
`select` has an action for each arm. `Publish` has three outcomes: done, failed without
effect, and executed with its answer lost, after which the client's retry reads 0.

### Crawler

Time, articles, window start and cursor are small integers. Articles may be listed up to
`Lag` after their `published_at`, also during a run. The loop of a run is the one of
`Scheduler.Run` seen from its pages: it starts them in order while a slot is free, up to
`Concurrency` are in flight and are read in any order, and the results are taken in any
order, so that several pages may be read before an empty one among them ends the loop.
`FetchPage` publishes a page and advances the cursor; any article's publish, and any of
its cursor calls, may fail. `since_hours` is chosen in `Init` from `SinceWindows`.

`advanceCursor` compares RFC3339Nano strings. The format drops trailing zeros, so a
printed time ends at the digit of its `Unit`, and the `Z` behind it is greater than any
digit and than the point: `NewerString` is that order. The configuration has two ticks to
a second, which is one fraction, and the theorem any `Units` in which each divides the
greater ones, as the powers of ten do.

Three history variables carry the properties. `complete`: no page failed, no publish was
lost, no limit or kill cut a run short. `shifted`: an article was listed while a later page
had been read before an earlier one, or an empty page before others in flight.
`unmoved`: what was published and its cursor call failed.

### Sources

One call of one source for one page. A request may succeed, fail (retried `MaxTries`
times unless ctx is done) or be garbled. The RSS source polls all feeds on page 1. Stack
Exchange is asked for questions by their last activity and not by their date, and takes
three requests: the listing, whose filters keep `kept`, then the bodies and the answers of
those. Which questions have a body and an answer that can be used is a choice (`bodies`,
`answered`); `Composed` is what `composeDoc` makes an article of, and `RequireAnswered` its
option. `Wanted` is what a call should return of what it was shown, by source.

### Fetcher

A thread is named by the URL it fetches. Getting the host's bucket is two steps, as
`fetch_one` checks the dictionary before it writes it. Time is relative: `Tick` is a
second, a bucket's `penalty` how far its refill clock lies in the future; after a jittered
backoff a thread may wake at any time. A fetch may raise anything else than
`PermanentFetchError`: `fetch_many` then raises, after the pool has finished every other
fetch.

`_parse_retry_after` does not clamp, so `RetryAfters` are integers. A negative one sets the
global bucket's refill clock back, so that the next `acquire` refills the bucket at once,
and then makes `time.sleep` raise: the fetch is lost, and counted as `Rewound`. The
meters are history variables: a leaky bucket that never exceeds `Burst` says
that `d` seconds grant at most `Burst` and
`d` times the rate.

### DlqReplay

One action per Redis call, with any of `--loop`, `--delete` and `--dry-run`, and run
again after a death. The processor beside it takes one step per message, which settles it
or parks it again under a new id. `MAXLEN ~` may trim the dead-letter stream to any of its
newest entries whenever something is parked, a replayed article or another one. A message
may also come to nothing: `ParkFails` (`push_dlq` swallows its error and the batch is
acknowledged), `SkipCut` (the JSON parked was cut at 10000 characters and does not parse),
`TrimStream` (the article stream was trimmed before it was read). `gone` is a history
variable: the articles lost in one of these ways.

### Vectors

The operator runs one tool at a time; `stage` is its next step, `flow` the files it works
on (those the three tools pass on, or those of `sync_vectors` in `/tmp`). A chunk is its
`chunk_id` and the vector computed for a chunk is written as that chunk, so that one
stored under another id can be told. A kill damages what is being written: a chunk file is
cut at any byte (`Cut`: after a line, inside a line, or before its newline, which the next
append then joins), the archive and `meta.json` are written in place and may be torn. A
torn file makes every later reader raise. `rewriting` and `lost` are history variables: a
`--full` export was begun and not finished; chunks were given up by `embed_chunks` or left
out of an import.

### Chunker

A line is its heading level and its length; pieces of text are sequences of line numbers,
so that the properties can say which lines of the document a chunk holds. They are stated
over the document (blocks of lines between blank lines and headings, the headings above a
line), not over the algorithm.

### Monitor, Backup

`Monitor` has the counters of the pipeline, incremented in two calls. go-redis sends a
call again when its answer is lost, so each adds between nothing and `Sends`; `added` is a
history variable, what the calls did add. There is a sampler that reads them
one after the other, failures before and after the commit,
kills, a Redis that loses its counters, and `Series`, the deltas the dashboard's chart
computes from the rows. `Backup` has the files on disk by age, dumps that fail or are
killed, and the two prunes.

### Tools

`Tools` is the disjunction of the five modules above with their constants. No two of them
write a variable another one reads, so their steps commute and any interleaving has the
same effect on each as its own steps alone: a behaviour of `Tools` picks one of them.

## 3. The runs

| run | states | what it shows |
|---|---|---|
| `processor_faults` | 527 000 | With exceptions outside `smembers`, `insert` and `push_dlq`, a kill, a page that times out, a near-duplicate, a URL already stored and a trimmed stream: `NoLoss`, `IndexBackedByRows`, the refinement `ImplementsDelivery`, and `EventuallySettled` |
| `processor_all_faults` | 858 000 | Every call may raise and two URLs serve one document: `ParkedOnce`, `StoredMetricSound`, `OneBatchOutstanding`, `RejectionsCounted`; `IndexComplete` and `DistinctContent` as long as nothing raised, through kills |
| `processor_insert_fails` | violation | finding 1 |
| `processor_pool_leak` | violation | finding 2 |
| `scheduler` | 643 000 | `NoBlockedSender`, `BreakerBound`, `HeartbeatSound`, `Terminates` |
| `crawler` | 737 000 | With pages that overlap and are read in any order: `CompleteRunsLeaveNone`, `CursorNewest`, `EventuallyPublished` |
| `crawler_failed_page` | violation | finding 3 |
| `sources` | 20 000 | For each of the three sources: `ReturnsWindow`, `EmptyMeansExhausted`, `SEFailsAfterRetries` |
| `sources_retried` | violation | finding 4 |
| `lsh` | 169 000 | Every 4-bit probe against three documents, with and without a TTL, through interrupted pipelines, restarts and a backfill: `Recall`, `Precision`, `WarmCovers`, `KeysAreBands` |
| `fetcher` | 899 000 | `RateBound`, `HostRateBound`, `Returns`, also when a fetch raises and when a Retry-After is negative |
| `tools` | 3 539 000 | `DlqReplay`: `NothingDropped`, `LoopReachesAll`; `Vectors`: `VectorsMatch`, `RetriesExactly`, `CorpusComplete`, `NothingLeftBehind`; `Chunker`: `ChunksCover`, `ChunkBound`, `PathsAreAncestors`; `Monitor`: `DeltasCountOnce`; `Backup`: `RestorePoint` |

The processor's type invariant is checked by `processor_all_faults`, those of
`Scheduler`, `LSH`, `Fetcher`, `Crawler` and `DlqReplay` are proved.

### Bounds, and why they are enough

* **Processor.** Three messages in batches of two: a batch is retried with, before and
  after another one. Three fingerprints, two of them close, so a message can be the
  duplicate of one in the same batch, in an earlier batch, of an old row, or of itself in
  an earlier attempt. Two exceptions and one kill: an attempt, a failed recovery of it and
  a restart. `SeenMax = 2` lets the deque overflow. `StreamMaxLen = 2` trims entries that
  wait and entries that are pending. `PoolMax` is 1 or 2; the real 10 differs only in the
  number of rounds finding 2 takes. In `processor_faults` two faults cannot exhaust a pool
  of two: its liveness is a statement about fewer consecutive failures than that.
* **LSH.** Two bands of two bits, threshold one: as in the code the threshold is one
  below the number of bands, the edge of the pigeonhole argument. Of the three documents
  the first two share no band and the third shares one with each of them and is near the
  first, so that keys are shared by near-duplicates and by strangers. Flipping the same
  bits of all fingerprints changes nothing, so the first document may be the empty set. A
  TTL of two ticks lets a key be renewed before it expires.
* **Scheduler.** Concurrency two and five pages: both channels fill, and the breaker
  (two) trips with pages in flight. An article moves from page 1 to page 2 while both are
  fetched; a page is non-empty with no article kept.
* **Crawler.** Three articles on pages of two, two pages in flight, three ticks with two to
  a second, an overlap and a lag of one: a new article pushes another one onto the next
  page while both are read, there are articles on each side of the window's start, and
  times with and without a fraction. One fault: a kill, a failed page, a lost call or an
  unanswered `GetCursor`.
* **Sources.** Four articles on pages of two, every window, every subset kept, with a body
  or with an answer.
* **Fetcher.** Three URLs of one host on two workers: two race for a bucket, a third finds
  one. One retry; a penalty longer than the refill interval, a shorter one that may cut it,
  and a negative one.
* **DlqReplay.** Three entries, batches of two, a death, two articles parked again, any trim and
  any loss.
* **Vectors.** Three articles of one, two and one chunks, batches, saves and commits of
  two: a batch spans articles, the last one is short. Four tools, a kill and a refused
  batch: enough to export, embed and import what a kill left, and then to sync.
* **Chunker.** Every document of up to six lines out of five kinds, with two levels of
  headings; target, overlap and minimum are scaled so that a line may fall below the
  minimum, fit the overlap, or fill a chunk.
* **Monitor.** Two sources, two articles, three samples, one reset, one failure or kill, calls
  that are executed twice.
* **Backup.** Five dumps and four cuts with two files of each kind kept.

The counters `MaxFaults`, `MaxCrashes`, `MaxParks`, `MaxTime` and `MaxArticles` bound the
environment in the guards of its own actions; they bound nothing the program does.

### Fairness

* `Processor`: weak fairness of the process's next call. It has one thread, every call has
  a timeout or raises, and `docker-compose.yml` restarts the container. Nothing is assumed
  of the crawler or of kills.
* `Scheduler`: weak fairness of the loop and of each goroutine: the Go runtime runs what
  can run, and HTTP and Redis clients have timeouts. ctx need never be cancelled.
* `Crawler`: weak fairness of the daemon and of the pages in flight, whose requests have
  timeouts and whose retries are bounded; the clock and the source may stop.
* `Fetcher`: time passes, and while some thread can run, one does. No thread is assumed to
  win a race for a token. `TokenBucket.acquire` polls, so nothing stronger is justified.

The other specifications state safety only.

## 4. The theorems

| theorem | statement | inductive invariant |
|---|---|---|
| `ProcessorProofs!TypeCorrect` | `Spec => []TypeOK` | `TypeInv` |
| `ProcessorProofs!NothingLost` | `StableContent`, `NoRiskyFaults` `|- Spec => [](NoLoss /\ IndexBackedByRows)` | `TypeInv /\ LossInv` |
| `ProcessorProofs!OneBatch` | `Spec => []OneBatchOutstanding` | `TypeInv /\ InHand` |
| `ProcessorProofs!Refinement` | `StableContent`, `NoRiskyFaults` `|- Spec => ImplementsDelivery` | `TypeInv /\ LossInv /\ InHand` |
| `StorageProofs!DeadLettersOnce` | `Spec => []ParkedOnce` | `TypeInv /\ ParkInv` |
| `StorageProofs!StoredCounterSound` | `Spec => []StoredMetricSound` | `TypeInv /\ StoredInv` |
| `StorageProofs!RejectionsTallied` | `Spec => []RejectionsCounted` | `TypeInv /\ TallyInv` |
| `StorageProofs!IndexBacked` | `StableContent` `|- Spec => []IndexBackedByRows` | `TypeInv /\ WriteInv` |
| `StorageProofs!IndexStaysComplete` | `StableContent`, `BatchSize <= SeenMax` `|- Spec /\ []Retained => []IndexComplete` | `TypeInv /\ InHand /\ IndexInv` |
| `StorageProofs!ContentStaysDistinct` | `StableContent`, `BatchSize <= SeenMax` `|- Spec /\ []Retained => []DistinctContent` | `TypeInv /\ InHand /\ IndexInv` |
| `SchedulerProofs!TypeCorrect` | `Spec => []TypeOK` | `Typed` |
| `SchedulerProofs!ChannelsNeverDeadlock` | `Spec => [](RoomForResults /\ NoBlockedSender)` | `Inv` |
| `SchedulerProofs!BreakerHolds` | `Spec => []BreakerBound` | `Inv` |
| `SchedulerProofs!HeartbeatHolds` | `Spec => []HeartbeatSound` | `Typed /\ LedgerInv /\ BeatInv` |
| `LSHProofs!RecallCertain` | `Spec => []Recall` | `Inv` |
| `LSHProofs!PrecisionCertain` | `Spec => []Precision` | `Inv` |
| `LSHProofs!WarmUpSuffices` | `Spec => []WarmCovers` | `Inv` |
| `FetcherProofs!RateHolds` | `Spec => []RateBound` | `Inv` |
| `FetcherProofs!HostRateHolds` | `Spec => []HostRateBound` | `Inv /\ HostInv` |
| `CrawlerProofs!NoneLeft` | `Lag <= Overlap` `|- Spec => []CompleteRunsLeaveNone` | `Inv` |
| `CrawlerProofs!CursorIsNewest` | `Spec => []CursorNewest` | `NewestInv` |
| `SourcesProofs!WindowReturned` | `Spec => []ReturnsWindow` | `CallOK /\ WindowInv` |
| `SourcesProofs!EmptyIsTheEnd` | `Spec => []EmptyMeansExhausted` | `CallOK /\ EmptyInv` |
| `SourcesProofs!RetriesExhausted` | `Spec => []SEFailsAfterRetries` | `CallOK /\ RetryInv` |
| `ToolsProofs!ReplayDropsNothing` | `Spec => []NothingDropped` | `ReplayTypeInv /\ DropInv` |
| `ToolsProofs!LoopReaches` | `Spec => []LoopReachesAll` | `ReplayTypeInv /\ LoopInv` |
| `ToolsProofs!VectorsStayMatched` | `Spec => []VectorsMatch` | `PipelineTypeInv /\ MatchInv` |
| `ToolsProofs!CursorBehindCorpus` | `Spec => []CorpusComplete` | `PipelineTypeInv /\ CorpusInv` |
| `ToolsProofs!FailedIdsExact` | `Spec => []RetriesExactly` | `PipelineTypeInv /\ EmbedInv` |
| `ToolsProofs!SyncCatchesUp` | `Spec => []NothingLeftBehind` | `PipelineTypeInv /\ EmbedInv /\ TableInv /\ SyncInv` |
| `ToolsProofs!SourceDeltasOnce` | `Spec => []Sampling!SourcesCountOnce`, the first half of `DeltasCountOnce` | `SampleTypeInv /\ DeltaInv` |
| `ToolsProofs!BackupsRestore` | `Spec => []RestorePoint` | `DumpInv` |

All rest on the `ASSUME` of the module they are about, which TLC evaluates in every run.
Those of `ToolsProofs` are about the composition: a step of `Tools` is a step of the component
or leaves its variables alone (`ReplayStep`, `PipelineStep`, `SamplingStep`, `BackupStep`).
The assumptions give types and say which sizes are positive. Beyond that, a fingerprint is
`Close` to itself, and the `Feeds` of `Sources` have no item in common: an item two feeds list
is filtered, counted and returned twice (`rss.go:52-85`), and so is two items.

**No message is lost.** `NoLoss` speaks of settled entries and is silent about the batch
in hand, so it is not inductive. `LossInv` adds what holds of the batch: `BatchBacked`
(every entry assessed so far is backed by the table or, before the INSERT, by the rows
assembled), `Fingerprints` (the index holds only fingerprints of stored rows, and
`seen_hashes` those and the ones of the rows assembled), `Contents` (content
belongs to its URL), `Stages` (which outcomes exist at which place) and `Unread` (nothing
has been done with an entry not yet delivered). Two assumptions are needed.
`StableContent`: a URL stands for one document. If a page changes between two attempts,
the second one's INSERT conflicts with the row of the first, its fingerprint is indexed
all the same, and a later document can be dropped as the duplicate of one that is not
stored. `NoRiskyFaults`: `smembers` and `insert` do not raise (finding 1), nor does the
call inside `push_dlq`. The proof has a lemma per action;
`InsertCovers` is the central one: after the INSERT every row assembled is in the table,
or its URL was.

**One batch outstanding.** `InHand`: inside `process_batch` the pending list is the batch,
it is empty when the main loop reads, and never larger than `BATCH_SIZE`; so one read of
`recover_pending` returns all of it (`OldestIsAll`). No assumption on faults is needed.

**The stores.** None of the first four needs an assumption on faults. `ParkedOnce` follows
from `dlq:seen` remembering all that is on the stream. For the counter `StoredInv` adds the
rows committed and not yet counted. `TallyInv` counts a rejected message no later than its
batch is acknowledged. `WriteInv` says that between the commit and the last index call every
row of the batch has its content in the table, so that what is indexed is backed even when
`smembers`, `insert` and `push_dlq` raise.

**The index stays complete.** The hard one. A kill between the commit and the index calls
leaves rows that `is_duplicate` does not find, and their messages pending. Why can no other
URL with the same content be stored then? Because a retry assesses the pending messages in
the order of the first attempt: `Found` says that an unindexed row's message comes first
among those with its content (`IsFirstWith`), and `OrderInv` and `UniqueInv` carry that
order through phase 3. `WindowInv` and `KnownInv` say that what makes a message a duplicate is
indexed or in the batch, never a leftover in `seen_hashes`; for this the deque must hold a batch
(`BatchSize <= SeenMax`: 100 and 10000 in the code). A message trimmed while it is
pending would not be retried, hence `[]Retained`; the stream keeps 100000 entries and at most
a batch is pending. `StableContent` as above, and `faults = 0` in the two properties: an
exception in these places does lose them.

**Refinement.** Every processor step is a step of `Delivery` or a stutter. `Attempt`
covers the steps that only change what is accounted for; `SettledKept` gives the second
conjunct of `Delivery!Next` from `NoLoss` in the new state.

**The channels cannot deadlock.** `RoomForResults` counts the results still to come and
those in the channel. An iteration of the loop adds one page; it takes a result out unless
there is none, and then all that is still to come holds a slot of `sem`. `Inv` adds
`Slots` and, for the breaker, that failures counted and failures still possible are
bounded together.

**The heartbeat.** `HeartbeatSound` compares counts at the end of a run with what the
goroutines did, and nothing in the state says which page added an article. `LedgerInv`
asks for two witnesses: `c`, the page that added each article (the credit of a page bounds its
`published` counter, also when an answer was lost and the article is not counted at all), and
`w`, the page of each result in the channel. Every step of the loop and of a goroutine
moves one page or one article in them (`LedgerAdds`, `LedgerSends`, `LedgerTakes`). When the run
ends nothing is in the channel and every page is taken.

**Banding.** `FlipFreeBand` is the pigeonhole argument of `dedupe.py`: fingerprints that
differ in fewer bits than there are bands agree on some band. `Recall` is not inductive: it
says nothing of the keys' lives. `Kept` adds that a fingerprint that counts as indexed is in
the set of each of its bands and that none of these keys is due before it; lemma
`Pipeline` shows that every pipeline, cut off or not, preserves it, because an EXPIRE only
ever prolongs. `Accounted` is what makes one warm-up enough: before the sentinel is set
nothing is claimed, during the warm-up every stored hash is in what was read or missed, and
afterwards it is indexed or missed.

**Rates.** A grant moves one from `tokens` to `meter`; a tick adds at most what it drains; a
penalty only delays, whichever one it replaces. A negative Retry-After fills the global
bucket and adds one to `Rewound` in the same step: `Burst` is the capacity and once more for
each such fetch, so a batch that meets none of them keeps the plain bound. `Unborn` says a
bucket nobody made has granted nothing. Hosts: workers that find no bucket make one
each, but all of them looked before the first was made, so they run at the same time
(`Creators` within the pool), and the bucket that is alone has granted all the host's tokens
(`OneMeter`).

**The window.** Articles listed during a run move others to later pages, never to earlier
ones. While the pages in flight are the last ones started, an article the run has yet to
publish therefore stays on a page not yet read or not yet started (`Due`). Pages may be
read out of that order, and empty pages before others; as long as the listing stands still
meanwhile (`~ shifted`) nothing moves past them, and once the earlier page is read the order
is restored. The loop stops at an empty page, behind which there is nothing of the window.
What the run has passed was listed during the run, when the cursor was not later than the
clock; if articles are listed no later than `Overlap` after their time, the next window covers
it (`Safe`). That hypothesis, `Lag <= Overlap`, is the one the comment of `resolveSince` relies
on.

**The cursor.** The maximum is one of strings, taken by goroutines in any order. `NewestInv`
says that no article published, but for those whose cursor call failed, lies in a later second
than the cursor. It rests on two lemmas about the format, `EndBounds` and
`EndOrdersSeconds`, for any `Units`: a printed time
and those it is a prefix of lie in one second, and so a time of a later second has the greater
string.

**Replay.** XADD comes before XDEL, so an entry about to be deleted is not the only trace of
its article, and an article parked again meanwhile has a new id (`Passed`). That a loop
reaches everything is counting: the entries parked at first are older than all later ones, so
a round reads `PerRound` of them or the rest (`RoundReads`, `Behind`); a trim takes the oldest
entries, which only leaves less to read.

**Backups.** `RestorePoint` is not inductive: it does not say where the whole dump lies among
those a prune counts. `DumpInv` says that no more dumps are newer than were cut short since,
partial files and full dumps included; a prune that keeps more than that keeps it.

**One call of a source.** `ReturnsWindow` speaks of calls that have returned. `WindowInv`
says of every state that the call holds the articles of the window it was shown; for Stack
Exchange, by how many of the three requests are answered, those kept, or those kept and
composed (`SEWindow`); for a poll of the feeds, that it left
some out only if there are more than a page of them, that it holds
no others, and that the feeds still to be read have shown nothing, so that each adds what it
has. "Empty" is a verdict on one page; that later pages have nothing either
(`EmptyFromHere`) is arithmetic: pages are filled in order, so an article of the window on
page `p` puts one on every page before it. `RetryInv` bounds the attempts of a request that
is still tried.

**The vector pipeline.** What the tools pass on are sequences selected from others: the lines
without a vector, the pairs with a line, the chunks a query returns in the order of their ids.
`Vectors` defines them by rank (the `n`-th is the one with `n - 1` before it), and lemmas
`Places` and `SameRank` show, by counting in finite sets, that ranks enumerate a set without
gaps or repetitions. Everything else rests on four invariants.

* `MatchInv`: `VectorsMatch` does not mention the pairs in memory, which the next save
  writes. That a batch's answer is put back in order (`SortedAnswer`) is where the API's
  `index` and a permutation of a finite set come in.
* `CorpusInv`: between the end of the file and `save_state` the corpus must already cover the
  cursor to be saved, and an export that appends must have begun at the old one. A kill cuts
  only what is being appended, or joins it to an open last line, and then the file is not
  `Readable`.
* `EmbedInv`: every line of the chunk file is waiting, embedded or skipped, and, where no line
  is repeated, only one of these. Lines are repeated after `--full` (section 5), so the second
  half is stated for files without repetitions (`DistinctLines`).
* `TableInv` and `SyncInv`: `sync_vectors` takes `MAX(article_id)` of the table for the article up
  to which everything was imported. `TableInv` says why it may: whatever article is in the
  table, or is about to be copied, the chunks of all articles below it are in the table, still
  to be copied, or `lost`. A copy that is killed, or that meets a duplicate key, moves what
  was still to come to `lost`, as the code never comes back to it. `SyncInv` follows the result of the
  query through the file, the archive and the import.

**The monitor.** `SourcesCountOnce` compares sums with what was added to the hash. `DeltaInv`
adds to the deltas counted those a later row may still add, computed from the sample the next
delta will be taken against: a failed sample or a restart drops them, a reset lessens them,
and no step adds to the sum of the two but an increment.

**Only model-checked.** Every liveness property and the fairness it needs: the prover has
no rule for `ENABLED`. What recursive definitions and folds compute for every input, since
induction over data needs a theorem with an operator parameter: `KeysAreBands` (the integer
loop of `bucket_keys`), the properties of `Chunker` (`ChunksCover`, `ChunkBound`,
`PathsAreAncestors`), whose sections and pieces are folds over a document, and
`ChartCountsOnce`, the half of `DeltasCountOnce` that adds up the rows of the chart.

## 5. Findings

1. **A failed INSERT can lose the message** (`processor_insert_fails`,
   `py-processor/main.py:197`). The fingerprint joins `seen_hashes` before the INSERT, and
   the deque outlives the exception: the retry is dropped as a duplicate of itself and
   acknowledged. The comment at `main.py:216-217` says it cannot be.
2. **The reconnect loop leaks connections** (`processor_pool_leak`, `main.py:330`). A round
   whose `recover_pending` raises does not return its connection; after `_POOL_MAX` such
   rounds the processor waits for ever, alive, so that the container is not restarted.
3. **A failed page is left behind** (`crawler_failed_page`, `stream.go:94`). The cursor
   advances with each published article, not with each successful run.
4. **A retried DEV.to listing is discarded** (`sources_retried`, `devto.go:180`). `lastErr`
   outlives the attempt that succeeded.

Further limits of what the code guarantees, which the properties above state as conditions
and which a change of constants reproduces:

* a failing `push_dlq` is logged and the message acknowledged unparked (`main.py:103`;
  `Faulty = {"push_dlq"}` with `SlowMisses` violates `NoLoss`);
* an exception between the commit and the index calls leaves a row unindexed
  (`main.py:220`), hence `faults = 0` in `IndexComplete`;
* two near-duplicates in one batch are both stored: `seen_hashes` compares exactly
  (`main.py:194`), hence `r.fp = s.fp` in `DistinctContent`;
* an edited page is indexed although its INSERT conflicted (`main.py:229`), hence
  `StableContent`;
* the breaker counts all failures of a run, not consecutive ones (`scheduler.go:81`);
* an interrupt at the limiter returns without a heartbeat (`scheduler.go:93`);
* a daemon that sleeps longer than `since_hours` leaves a gap (`main.go:88`), hence
  `Base` in `NoneLeftBehind`;
* pages are fetched side by side (`scheduler.go:110`). If page 2 is read before page 1 and an
  article is listed in between, one moves from page 1 to page 2 unread; a complete run then
  misses it and moves the cursor past it, which the overlap does not make up for, although
  `main.go:79-82` says that it "guards boundary articles". The same happens between an empty
  page and others in flight. Hence `~ shifted` in `CompleteRunsLeaveNone` and
  `EventuallyPublished`: without it TLC finds both violated;
* RFC3339Nano strings with fractions do not sort as times (`stream.go:106`): the cursor may
  move back within a second, where `stream.go:100-101` says that it moves "only when newer",
  hence `Second` in `CursorNewest`; and a cursor call that fails is only logged, hence
  `unmoved`;
* Stack Exchange returns the questions active since the window's start, not those
  "published at or after since" (`source.go:41-42`), less those its filters and `composeDoc`
  drop (`stackexchange.go:163-245`), hence `Wanted` in `ReturnsWindow`;
* an RSS poll drops what exceeds `per_page` (`rss.go:66`), hence the last disjunct of
  `ReturnsWindow`;
* workers that meet a new host together make a bucket each (`fetcher.py:92`), hence the
  form of `HostRateBound`: two buckets double the rate of their host, which no property
  excludes;
* a negative Retry-After is not clamped (`fetcher.py:150`): it refills the global bucket and
  makes the fetch raise, hence `Rewound` in `RateBound`;
* a shorter later 429 cuts an earlier penalty (`fetcher.py:138`), although `fetcher.py:5-7` has
  the pool throttled "until the server says it is OK to try again"; no property states it;
* a counter whose call is sent again by go-redis may be incremented twice (`stream.go:87-93`),
  hence `added`, and not the number of articles, in `DeltasCountOnce`;
* a replayed article is lost when `push_dlq` fails, when `MAXLEN` trims either stream, or when
  the JSON that was parked had more than 10000 characters (`main.py:62-105`, `main.py:122-130`),
  hence `gone` in `NothingDropped` and `LoopReachesAll`; an entry trimmed before it was read is
  likewise excused in `NoLoss`;
* `--loop` without `--delete` replays the same oldest entries (`dlq_replay.py:31`), hence
  the mode in `LoopReachesAll`;
* a run of `embed_chunks` whose batches all fail raises before its report, so that
  `RetriesExactly` says nothing of it;
* a message whose fetch raises something unforeseen on every attempt fails its batch on
  every retry (`fetcher.py:237`);
* a fingerprint that expired, was cut off or was backfilled after the warm-up's query stays
  out of the index until it is indexed again (`neardup.py:68`), hence `missed` in
  `WarmCovers`; and the backfill fills only NULL hashes, although its docstring says the
  old ones must be recomputed (`backfill_simhash.py:18`);
* `upsert_incremental` passes fifteen values to fourteen places (`import_pgvector.py:148`):
  an incremental import or sync raises as soon as it has a row, so that only `--initial`
  fills the table;
* a failed `--initial` import leaves the HNSW index dropped until an import ends without an
  error (`import_pgvector.py:194`), and what it had committed makes the next COPY fail;
* a kill in the middle of a save leaves an archive that `load_existing` cannot read, so
  that every later run stops there (`embed_chunks.py:132`); a chunk file cut inside a line
  is unreadable until `--full` (`rag_export.py:89`), hence `Readable` in `CorpusComplete`;
* `--full` does not save the state, so that the next export appends the same articles again
  (`rag_export.py:94`); a killed `--full` leaves gaps below the cursor, hence `rewriting`;
* chunks that `embed_chunks` skipped, and those an import did not get to, lie below the
  greatest article id and are never synced (`sync_vectors.py:31`), hence `lost`;
* where heading levels are skipped, a sibling may be put below its elder one
  (`chunker.py:28`), hence `NoLevelSkipped`; the section's headings go with every chunk of
  it, not with the first (`chunker.py:73`); an oversize section of headings only yields
  nothing; `#` lines inside a code fence count as headings;
* the pattern of the first prune matches the full dumps as well, so that they are not kept
  by their own number (`backup-entrypoint.sh:27`), and the marker is written although the
  full dump failed (`backup-entrypoint.sh:55`).

## 6. Not modelled

* The quality gate (`quality.py`, `quality_probe.py`) and SimHash of a text: functions of
  data that the properties do not tell apart; they appear as `Gate` and `Close`.
* `export.py` and `export_sft.py`: one read-only pass over the table into a file, with no
  state between runs.
* The dashboard (`app.py`, `queries.py`, `rag_search.py`): read-only queries and their
  layout, but for the series modelled in `Monitor`. `rag_search`
  refuses a query that comes too soon after the last one, under a lock; the interval it
  enforces is twice the one its docstring gives (`rag_search.py:39-42`).
* The schema beyond the keys that the inserts meet.
* Configuration loading: the choice of constants.
* A Retry-After of `inf` or `nan`, which `float()` accepts (`fetcher.py:150`).

## 7. Order of the work

`Processor` with `Delivery`, `LSH`, `Scheduler`, `Crawler`, `Fetcher`, `DlqReplay`, `Sources`
and the theorems about them; then the life of the index in `LSH` with its proof, raising
fetches, `Vectors`, `Chunker`, `Monitor`, `Backup` and `Tools`; then the theorems about the
processor's stores, the heartbeat, hosts, the crawler's window, the replay tool
and the backup loop; last those about `Sources`, `Vectors` and the monitor's deltas. Every
safety property that the provers can reach is now a theorem; section 4 lists the others.
