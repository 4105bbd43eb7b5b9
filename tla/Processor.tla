----------------------------- MODULE Processor -----------------------------
(***************************************************************************)
(* The stream processor of py-processor/main.py with the two stores it     *)
(* works on: Redis (article stream and its consumer group, dead-letter     *)
(* stream, SimHash index, metrics) and PostgreSQL (articles).              *)
(*                                                                         *)
(* One action is one call to a store, so a crash of the process or an      *)
(* exception of a call can fall between any two of them.  A call that      *)
(* raises may or may not have taken effect in the store: both are modelled.*)
(*                                                                         *)
(* A document is represented by its SimHash fingerprint; Close is the      *)
(* relation "Hamming distance at most SIMHASH_HAMMING", which module LSH   *)
(* shows to be what is_duplicate decides.                                  *)
(***************************************************************************)
EXTENDS Integers, Sequences, FiniteSets

CONSTANTS
    Urls,         \* article URLs
    Fps,          \* fingerprints
    None,         \* no fingerprint, no inline content
    Close,        \* pairs of fingerprints within the Hamming threshold
    Bodies,       \* Bodies[u]: content_md a source may put in u's payload, or None
    Pages,        \* Pages[u]: fingerprints a GET and extraction of u may yield
    Misses,       \* Misses[u]: how a GET of u may fail, a subset of MissKinds
    Gate,         \* Gate[f]: verdicts of the quality and language gates on f
    Corpus,       \* rows in PostgreSQL before the first start
    BatchSize,    \* BATCH_SIZE
    SeenMax,      \* maxlen of the seen_hashes deque
    StreamMaxLen, \* MAXLEN of the article stream; 0: no trimming
    PoolMax,      \* _POOL_MAX
    Faulty,       \* the calls that may raise
    MaxFaults,    \* bound: number of exceptions
    MaxCrashes    \* bound: number of kills of the process

MissKinds == {"gone", "unfetched"}

Row == [url: Urls, fp: Fps]

(***************************************************************************)
(* The store calls of the processor, by the function that makes them.      *)
(***************************************************************************)
Calls == {"get_conn", "warm", "xread", "fetch", "push_dlq", "smembers",
          "insert", "count", "index", "stats", "xack"}

ASSUME ConstantsAssumption ==
    /\ None \notin Fps
    /\ Close \subseteq Fps \X Fps
    /\ \A f \in Fps : <<f, f>> \in Close
    /\ Bodies \in [Urls -> SUBSET (Fps \cup {None})]
    /\ Pages \in [Urls -> SUBSET Fps]
    /\ Misses \in [Urls -> SUBSET MissKinds]
    /\ Gate \in [Fps -> SUBSET {"keep", "reject"}]
    /\ Corpus \subseteq Row /\ IsFiniteSet(Corpus)
    /\ BatchSize \in Nat \ {0}
    /\ SeenMax \in Nat \ {0}
    /\ StreamMaxLen \in Nat
    /\ PoolMax \in Nat \ {0}
    /\ Faulty \subseteq Calls
    /\ MaxFaults \in Nat
    /\ MaxCrashes \in Nat

VARIABLES
    \* Redis, written by the crawler
    seen,       \* seen:articles, the URLs ever published
    log,        \* every entry ever XADDed to the stream; an id is an index
    first,      \* entries below it have been trimmed by MAXLEN ~
    \* Redis, written by the processor
    last,       \* the group's last delivered id
    pel,        \* the group's pending entries list: delivered, not XACKed
    dlqSeen,    \* dlq:seen, ids ever parked
    dlq,        \* articles_dlq, the ids parked, in order
    lsh,        \* fingerprints in the SimHash bands
    warmed,     \* whether simhash:warmed:v1 is set
    metrics,    \* the metrics:articles:* counters
    \* PostgreSQL
    db,         \* the articles table
    \* the process
    pc,         \* next call of the process
    mode,       \* caller of process_batch: startup, main loop or reconnect loop
    used,       \* connections checked out of the pool
    batch,      \* ids_to_ack
    rows,       \* rows assembled, then rows left to index
    inserted,   \* result of insert_articles
    seenHashes, \* the seen_hashes deque
    \* history and environment
    fate,       \* fate[m]: what the latest attempt at entry m has done with it
    faults,     \* exceptions so far
    crashes     \* kills so far

redisVars == <<seen, log, first, last, pel, dlqSeen, dlq, lsh, warmed, metrics>>
procVars  == <<pc, mode, used, batch, rows, inserted, seenHashes>>
vars == <<redisVars, db, procVars, fate, faults, crashes>>

\* Stages and outcomes of an attempt, before and after there is content.
BareKinds    == {"none", "read", "skipped", "gone", "unfetched", "parked"}
ContentKinds == {"extracted", "rejected", "dup", "row"}

Entry == [url: Urls, body: Fps \cup {None}]
Fate  == [kind: BareKinds, fp: {None}] \cup [kind: ContentKinds, fp: Fps]

NoFate == [kind |-> "none", fp |-> None]

Ids == 1 .. Len(log)

Locations == {"down", "warm", "mark", "drain", "idle", "fetch", "batch",
              "count", "bySource", "index", "stats", "xack", "reopen"}

(***************************************************************************)
(* Type invariant.                                                         *)
(***************************************************************************)
RedisTypeOK ==
    /\ seen \subseteq Urls
    /\ log \in Seq(Entry)
    /\ first \in Nat \ {0}
    /\ last \in 0 .. Len(log)
    /\ pel \subseteq 1 .. last
    /\ dlqSeen \subseteq Ids
    /\ dlq \in Seq(Ids)
    /\ lsh \subseteq Fps
    /\ warmed \in BOOLEAN
    /\ metrics \in [stored: Nat, bySource: Nat, rejected: Nat, dlq: Nat]

ProcessTypeOK ==
    /\ pc \in Locations
    /\ mode \in {"startup", "main", "recover"}
    /\ used \in 0 .. PoolMax
    /\ batch \subseteq pel
    /\ rows \in Seq(Row)
    /\ inserted \in Nat
    /\ seenHashes \in Seq(Fps)

TypeOK ==
    /\ RedisTypeOK
    /\ db \subseteq Row
    /\ ProcessTypeOK
    /\ fate \in [Ids -> Fate]
    /\ faults \in 0 .. MaxFaults
    /\ crashes \in 0 .. MaxCrashes
-----------------------------------------------------------------------------
(***************************************************************************)
(* Sets and sequences.                                                     *)
(***************************************************************************)
Elems(s) == {s[i] : i \in 1 .. Len(s)}

FpsOf(R) == {r.fp : r \in R}
UrlsOf(R) == {r.url : r \in R}

\* A deque with a maxlen: appending to a full one drops its left end.
AppendBounded(s, x) ==
    IF Len(s) < SeenMax THEN Append(s, x) ELSE Append(Tail(s), x)

IsLeast(m, S) == m \in S /\ \A n \in S : m <= n

\* The S of at most k least members of T, as COUNT k of a stream read returns.
IsOldest(S, T, k) ==
    /\ S \subseteq T
    /\ Cardinality(S) <= k
    /\ S = T \/ Cardinality(S) = k
    /\ \A m \in S, n \in T \ S : m < n

OfKind(k) == {m \in batch : fate[m].kind = k}

Inline(m) == log[m].body # None

\* Phase 3 takes the messages with inline content first, then the fetched
\* ones, each in stream order.
NextToAssess(m) ==
    /\ m \in OfKind("extracted")
    /\ \A n \in OfKind("extracted") :
          \/ Inline(m) /\ ~ Inline(n)
          \/ (Inline(m) <=> Inline(n)) /\ m <= n

\* Mutant: a collision in a band is taken for a near-duplicate.
IsDuplicateCollision(f) == lsh # {}

\* is_duplicate over the bands in Redis.
IsDuplicate(f) == \E g \in lsh : <<f, g>> \in Close

\* Mutant: the rows sent are counted, not the rows added.
FreshAll(s) == 1 .. Len(s)

\* The rows of s that INSERT ... ON CONFLICT (url_hash) DO NOTHING adds: those
\* whose URL is neither in the table nor in an earlier row of s.
Fresh(s) ==
    {i \in 1 .. Len(s) : /\ s[i].url \notin UrlsOf(db)
                         /\ \A k \in 1 .. (i - 1) : s[k].url # s[i].url}

\* Mutant: the transaction is not committed.
NewRowsUncommitted(s) == {}

NewRows(s) == {s[i] : i \in Fresh(s)}

\* stats: what the batch adds to metrics:articles:rejected.
Counted == {"gone", "parked", "rejected", "dup"}

\* Mutant: a page that is gone is not counted.
RejectsNotGone == Cardinality({m \in batch : fate[m].kind \in Counted \ {"gone"}})

Rejects == Cardinality({m \in batch : fate[m].kind \in Counted})

\* The state of the process's locals before it starts and after it dies.
Dead ==
    /\ pc' = "down"
    /\ mode' = "startup"
    /\ used' = 0
    /\ batch' = {}
    /\ rows' = <<>>
    /\ inserted' = 0
    /\ seenHashes' = <<>>

\* A call returns normally and the process goes on at l.
Returns(l) == pc' = l /\ UNCHANGED <<mode, used, faults, crashes>>

locals == <<batch, rows, inserted, seenHashes>>

\* A call raises; the handler that catches it depends on the caller.  At
\* startup nobody does and the process exits.  The main loop drops the
\* connection and enters the reconnect loop.  The reconnect loop goes round
\* again, without giving back the connection it has checked out.  seen_hashes
\* outlives the exception in both loops.
Raises(call) ==
    /\ call \in Faulty
    /\ faults < MaxFaults
    /\ faults' = faults + 1
    /\ \/ mode = "startup" /\ Dead
       \/ /\ mode # "startup"
          /\ pc' = "reopen"
          /\ mode' = "recover"
          /\ used' = IF mode = "main" THEN used - 1 ELSE used
          /\ batch' = {}
          /\ rows' = <<>>
          /\ inserted' = 0
          /\ UNCHANGED seenHashes
    /\ UNCHANGED crashes
-----------------------------------------------------------------------------
Init ==
    /\ seen = {}
    /\ log = <<>>
    /\ first = 1
    /\ last = 0
    /\ pel = {}
    /\ dlqSeen = {}
    /\ dlq = <<>>
    /\ lsh = {}
    /\ warmed = FALSE
    /\ metrics = [stored |-> 0, bySource |-> 0, rejected |-> 0, dlq |-> 0]
    /\ db = Corpus
    /\ pc = "down"
    /\ mode = "startup"
    /\ used = 0
    /\ batch = {}
    /\ rows = <<>>
    /\ inserted = 0
    /\ seenHashes = <<>>
    /\ fate = <<>>
    /\ faults = 0
    /\ crashes = 0

(***************************************************************************)
(* The crawler's side: Producer.Publish.  The Lua script is atomic; MAXLEN *)
(* ~ removes any number of whole nodes as long as StreamMaxLen entries     *)
(* stay.                                                                   *)
(***************************************************************************)
Publish(u) ==
    /\ u \notin seen
    /\ seen' = seen \cup {u}
    /\ \E b \in Bodies[u] : log' = Append(log, [url |-> u, body |-> b])
    /\ fate' = [m \in 1 .. Len(log) + 1 |-> IF m \in Ids THEN fate[m] ELSE NoFate]
    /\ \/ UNCHANGED first
       \/ /\ StreamMaxLen > 0
          /\ first' \in (first + 1) .. (Len(log) + 2 - StreamMaxLen)
    /\ UNCHANGED <<last, pel, dlqSeen, dlq, lsh, warmed, metrics, db,
                   procVars, faults, crashes>>

(***************************************************************************)
(* Startup.                                                                *)
(***************************************************************************)

\* The container is (re)started: consumer group, connection.
Start ==
    /\ pc = "down"
    /\ \/ /\ pc' = "warm" /\ used' = 1
          /\ UNCHANGED <<mode, locals, faults, crashes>>
       \/ Raises("get_conn")
    /\ UNCHANGED <<redisVars, db, fate>>

\* warm_from_db: the sentinel, then every stored fingerprint; an interrupted
\* pipeline may have indexed some of them.
WarmFromDb ==
    /\ pc = "warm"
    /\ \/ warmed /\ Returns("drain") /\ UNCHANGED <<lsh, locals>>
       \/ /\ ~ warmed
          /\ lsh' = lsh \cup FpsOf(db)
          /\ Returns("mark") /\ UNCHANGED locals
       \/ /\ ~ warmed
          /\ \E S \in SUBSET FpsOf(db) : lsh' = lsh \cup S
          /\ Raises("warm")
    /\ UNCHANGED <<seen, log, first, last, pel, dlqSeen, dlq, warmed, metrics,
                   db, fate>>

\* r.set(_WARM_SENTINEL, "1"), the last call of warm_from_db.
MarkWarmed ==
    /\ pc = "mark"
    /\ \/ warmed' = TRUE /\ Returns("drain") /\ UNCHANGED locals
       \/ warmed' \in {warmed, TRUE} /\ Raises("warm")
    /\ UNCHANGED <<seen, log, first, last, pel, dlqSeen, dlq, lsh, metrics,
                   db, fate>>

(***************************************************************************)
(* Reading the stream.  The payload is read with the id, so an entry that  *)
(* has been trimmed is already lost here: phase 1 skips it.                *)
(***************************************************************************)

\* Phase 1: parse the entries of S.
Parsed(S) ==
    [m \in Ids |->
        IF m \notin S THEN fate[m]
        ELSE [kind |-> IF m < first THEN "skipped" ELSE "read", fp |-> None]]

\* recover_pending: XPENDING, then XREADGROUP from "0".  An empty pending
\* list ends it, and the caller goes on to the main loop.
RecoverPending ==
    /\ pc = "drain"
    /\ \/ /\ pel = {}
          /\ pc' = "idle" /\ mode' = "main"
          /\ UNCHANGED <<used, locals, fate, faults, crashes>>
       \/ /\ pel # {}
          /\ \E S \in SUBSET pel :
                IsOldest(S, pel, BatchSize) /\ batch' = S /\ fate' = Parsed(S)
          /\ Returns("fetch") /\ UNCHANGED <<rows, inserted, seenHashes>>
       \/ Raises("xread") /\ UNCHANGED fate
    /\ UNCHANGED <<redisVars, db>>

\* The entries XREADGROUP ">" can deliver.
Undelivered == {m \in Ids : m > last /\ m >= first}

\* XREADGROUP ">" of the main loop, when it returns entries.  If its reply is
\* lost the entries are in the pending list all the same.
XReadGroup ==
    /\ pc = "idle"
    /\ \E S \in SUBSET Undelivered :
          /\ S # {}
          /\ IsOldest(S, Undelivered, BatchSize)
          /\ \/ /\ batch' = S /\ fate' = Parsed(S)
                /\ Returns("fetch") /\ UNCHANGED <<rows, inserted, seenHashes>>
             \/ Raises("xread") /\ UNCHANGED fate
          /\ pel' = pel \cup S
          /\ last' \in S /\ \A m \in S : m <= last'
    /\ UNCHANGED <<seen, log, first, dlqSeen, dlq, lsh, warmed, metrics, db>>

\* XREADGROUP ">" with nothing to deliver: BLOCK_MS passes, or the call raises.
XReadGroupEmpty ==
    /\ pc = "idle"
    /\ \/ Undelivered = {} /\ UNCHANGED <<procVars, faults, crashes>>
       \/ Raises("xread")
    /\ UNCHANGED <<redisVars, db, fate>>

(***************************************************************************)
(* process_batch.                                                          *)
(***************************************************************************)

\* What phase 2 can make of entry m: inline content, a fetched and extracted
\* page, a 404/410, or nothing (fetch or extraction failed).
Extractions(m) ==
    IF fate[m].kind = "skipped" THEN {fate[m]}
    ELSE IF Inline(m) THEN {[kind |-> "extracted", fp |-> log[m].body]}
    ELSE [kind: {"extracted"}, fp: Pages[log[m].url]]
         \cup [kind: Misses[log[m].url], fp: {None}]

\* fetch_many and extract_content over the batch.
FetchMany ==
    /\ pc = "fetch"
    /\ \/ /\ \E got \in [batch -> UNION {Extractions(m) : m \in batch}] :
                /\ \A m \in batch : got[m] \in Extractions(m)
                /\ fate' = [m \in Ids |-> IF m \in batch THEN got[m] ELSE fate[m]]
          /\ Returns("batch") /\ UNCHANGED locals
       \/ Raises("fetch") /\ UNCHANGED fate
    /\ UNCHANGED <<redisVars, db>>

\* Mutant: push_dlq without the SISMEMBER guard.
ParkAgain(m) == dlqSeen' = dlqSeen \cup {m} /\ dlq' = Append(dlq, m)

\* The Lua script of push_dlq.
Park(m) ==
    IF m \in dlqSeen THEN UNCHANGED <<dlqSeen, dlq>>
    ELSE dlqSeen' = dlqSeen \cup {m} /\ dlq' = Append(dlq, m)

\* push_dlq for the next message without content.  It never raises: when the
\* call fails, with or without effect, the batch goes on.
PushDlq ==
    /\ pc = "batch"
    /\ \E m \in OfKind("unfetched") :
          /\ IsLeast(m, OfKind("unfetched"))
          /\ fate' = [fate EXCEPT ![m].kind = "parked"]
          /\ \/ /\ Park(m)
                /\ metrics' = [metrics EXCEPT !.dlq =
                                  IF m \in dlqSeen THEN @ ELSE @ + 1]
                /\ UNCHANGED faults
             \/ /\ "push_dlq" \in Faulty /\ faults < MaxFaults
                /\ faults' = faults + 1
                /\ Park(m) \/ UNCHANGED <<dlqSeen, dlq>>
                /\ UNCHANGED metrics
    /\ UNCHANGED <<seen, log, first, last, pel, lsh, warmed, db, procVars, crashes>>

\* Phase 3: the outcomes of the gates, is_duplicate and seen_hashes.
Reject(m) ==
    /\ "reject" \in Gate[fate[m].fp]
    /\ fate' = [fate EXCEPT ![m].kind = "rejected"]
    /\ UNCHANGED locals

\* Mutant: documents of the same batch are not compared.
KnownInRedis(f) == IsDuplicate(f)

Known(f) == IsDuplicate(f) \/ f \in Elems(seenHashes)

DropDuplicate(m) ==
    /\ "keep" \in Gate[fate[m].fp]
    /\ Known(fate[m].fp)
    /\ fate' = [fate EXCEPT ![m].kind = "dup"]
    /\ UNCHANGED locals

AddRow(m) ==
    /\ "keep" \in Gate[fate[m].fp]
    /\ ~ Known(fate[m].fp)
    /\ fate' = [fate EXCEPT ![m].kind = "row"]
    /\ seenHashes' = AppendBounded(seenHashes, fate[m].fp)
    /\ rows' = Append(rows, [url |-> log[m].url, fp |-> fate[m].fp])
    /\ UNCHANGED <<batch, inserted>>

\* Mutant: the fingerprint is indexed as soon as it is found to be new.
AssessIndexing ==
    /\ pc = "batch"
    /\ OfKind("unfetched") = {}
    /\ \E m \in OfKind("extracted") :
          /\ NextToAssess(m)
          /\ Returns("batch")
          /\ \/ (Reject(m) \/ DropDuplicate(m)) /\ UNCHANGED lsh
             \/ AddRow(m) /\ lsh' = lsh \cup {fate[m].fp}
    /\ UNCHANGED <<seen, log, first, last, pel, dlqSeen, dlq, warmed, metrics, db>>

\* Phase 3 for the next message; only is_duplicate calls Redis.
Assess ==
    /\ pc = "batch"
    /\ OfKind("unfetched") = {}
    /\ \E m \in OfKind("extracted") :
          /\ NextToAssess(m)
          /\ \/ Returns("batch") /\ (Reject(m) \/ DropDuplicate(m) \/ AddRow(m))
             \/ /\ "keep" \in Gate[fate[m].fp]
                /\ Raises("smembers") /\ UNCHANGED fate
    /\ UNCHANGED <<redisVars, db>>

Assessed == OfKind("unfetched") = {} /\ OfKind("extracted") = {}

\* insert_articles: one statement and its commit.
InsertArticles ==
    /\ pc = "batch" /\ Assessed /\ rows # <<>>
    /\ \/ /\ db' = db \cup NewRows(rows)
          /\ inserted' = Cardinality(Fresh(rows))
          /\ Returns(IF Fresh(rows) = {} THEN "index" ELSE "count")
          /\ UNCHANGED <<batch, rows, seenHashes>>
       \/ db' \in {db, db \cup NewRows(rows)} /\ Raises("insert")
    /\ UNCHANGED <<redisVars, fate>>

\* incrby metrics:articles:stored.
CountStored ==
    /\ pc = "count"
    /\ LET counted == [metrics EXCEPT !.stored = @ + inserted] IN
       \/ metrics' = counted /\ Returns("bySource") /\ UNCHANGED locals
       \/ metrics' \in {metrics, counted} /\ Raises("count")
    /\ UNCHANGED <<seen, log, first, last, pel, dlqSeen, dlq, lsh, warmed, db, fate>>

\* hincrby metrics:articles:stored_by_source, summed over the sources.
CountBySource ==
    /\ pc = "bySource"
    /\ LET counted == [metrics EXCEPT !.bySource = @ + Len(rows)] IN
       \/ metrics' = counted /\ Returns("index") /\ UNCHANGED locals
       \/ metrics' \in {metrics, counted} /\ Raises("count")
    /\ UNCHANGED <<seen, log, first, last, pel, dlqSeen, dlq, lsh, warmed, db, fate>>

\* Mutant: only the last row of the batch is indexed.
IndexLast ==
    /\ pc = "index"
    /\ lsh' = lsh \cup {rows[Len(rows)].fp} /\ rows' = <<>>
    /\ Returns("stats")
    /\ UNCHANGED <<batch, inserted, seenHashes>>
    /\ UNCHANGED <<seen, log, first, last, pel, dlqSeen, dlq, warmed, metrics, db, fate>>

\* index the next row's fingerprint.
Index ==
    /\ pc = "index"
    /\ LET indexed == lsh \cup {Head(rows).fp} IN
       \/ /\ lsh' = indexed /\ rows' = Tail(rows)
          /\ Returns(IF Len(rows) = 1 THEN "stats" ELSE "index")
          /\ UNCHANGED <<batch, inserted, seenHashes>>
       \/ lsh' \in {lsh, indexed} /\ Raises("index")
    /\ UNCHANGED <<seen, log, first, last, pel, dlqSeen, dlq, warmed, metrics, db, fate>>

\* The rejection counters, written after the insert or when there is none.
CountRejected ==
    /\ pc = "stats" \/ (pc = "batch" /\ Assessed /\ rows = <<>>)
    /\ LET counted == [metrics EXCEPT !.rejected = @ + Rejects] IN
       \/ metrics' = counted /\ Returns("xack") /\ UNCHANGED locals
       \/ Rejects > 0 /\ metrics' \in {metrics, counted} /\ Raises("stats")
    /\ UNCHANGED <<seen, log, first, last, pel, dlqSeen, dlq, lsh, warmed, db, fate>>

\* XACK of the whole batch, and the return to the caller.
XAck ==
    /\ pc = "xack"
    /\ \/ /\ pel' = pel \ batch /\ batch' = {} /\ inserted' = 0
          /\ Returns(IF mode = "main" THEN "idle" ELSE "drain")
          /\ UNCHANGED <<rows, seenHashes>>
       \/ pel' \in {pel, pel \ batch} /\ Raises("xack")
    /\ UNCHANGED <<seen, log, first, last, dlqSeen, dlq, lsh, warmed, metrics, db, fate>>

\* Mutant: the pool has no maximum.
ReopenUnbounded ==
    /\ pc = "reopen"
    /\ pc' = "drain" /\ used' = used + 1
    /\ UNCHANGED <<mode, locals, faults, crashes, redisVars, db, fate>>

\* Mutant: the main loop goes on without recover_pending.
ReopenOnly ==
    /\ pc = "reopen" /\ used < PoolMax
    /\ pc' = "idle" /\ mode' = "main" /\ used' = used + 1
    /\ UNCHANGED <<locals, faults, crashes, redisVars, db, fate>>

(***************************************************************************)
(* The reconnect loop: a connection from the pool, then recover_pending.   *)
(* With every slot of the pool taken get_conn raises and the loop sleeps.  *)
(***************************************************************************)
Reopen ==
    /\ pc = "reopen"
    /\ \/ /\ used < PoolMax
          /\ pc' = "drain" /\ used' = used + 1
          /\ UNCHANGED <<mode, locals, faults, crashes>>
       \/ used = PoolMax /\ UNCHANGED <<procVars, faults, crashes>>
       \/ used < PoolMax /\ Raises("get_conn")
    /\ UNCHANGED <<redisVars, db, fate>>

\* The process is killed between two calls.
Crash ==
    /\ pc # "down"
    /\ crashes < MaxCrashes
    /\ crashes' = crashes + 1
    /\ Dead
    /\ UNCHANGED <<redisVars, db, fate, faults>>
-----------------------------------------------------------------------------
Process ==
    \/ Start \/ WarmFromDb \/ MarkWarmed \/ RecoverPending
    \/ XReadGroup \/ XReadGroupEmpty
    \/ FetchMany \/ PushDlq \/ Assess \/ InsertArticles
    \/ CountStored \/ CountBySource \/ Index \/ CountRejected \/ XAck
    \/ Reopen

Next == Process \/ Crash \/ \E u \in Urls : Publish(u)

Spec == Init /\ [][Next]_vars

(***************************************************************************)
(* The container is restarted whenever it is down and its only thread      *)
(* keeps running, so the process always takes another step.  The crawler   *)
(* and the kills are under no such obligation.                             *)
(***************************************************************************)
FairSpec == Spec /\ WF_vars(Process)
-----------------------------------------------------------------------------
(***************************************************************************)
(* Properties.                                                             *)
(***************************************************************************)

\* Entry m has left the queue for good: the group is past it and does not
\* hold it in the pending list.
Settled(m) == m <= last /\ m \notin pel

\* What must be found for an entry, given what the latest attempt made of it:
\* a row of R for its URL, a near-duplicate of its content in R, a dead-letter
\* entry, or that it was trimmed before it was read.
Backed(m, R) ==
    /\ fate[m].kind = "row" => log[m].url \in UrlsOf(R)
    /\ fate[m].kind = "dup" => \E r \in R : <<fate[m].fp, r.fp>> \in Close
    /\ fate[m].kind = "parked" => m \in dlqSeen
    /\ fate[m].kind \in {"none", "skipped"} => m < first

\* Entry m has been dealt with, and the stores show it.  A document the gates
\* reject and a page that is gone leave no trace.
Finished == {"none", "skipped", "gone", "parked", "rejected", "dup", "row"}
Accounted(m) == fate[m].kind \in Finished /\ Backed(m, db)

\* "No data loss" (main.py, failure policy): a message that has left the
\* queue is accounted for in PostgreSQL or on the dead-letter stream,
\* whatever crash or exception interrupted the earlier attempts at it.
NoLoss == \A m \in Ids : Settled(m) => Accounted(m)

\* The processor implements the delivery contract, with the entries accounted
\* for as the kept messages.
Contract == INSTANCE Delivery WITH
    Limit     <- BatchSize,
    published <- Len(log),
    delivered <- last,
    pending   <- pel,
    kept      <- {m \in Ids : Accounted(m)}

ImplementsDelivery == Contract!Spec

\* Every batch is acked, or recovered, before the next one is read: at most
\* BatchSize entries are pending, and none while the main loop waits.  This
\* is what lets recover_pending read the pending list with one COUNT.
OneBatchOutstanding ==
    /\ Cardinality(pel) <= BatchSize
    /\ pc = "idle" => pel = {}

\* The documents u may stand for.
ContentOf(u) ==
    Pages[u] \cup (Bodies[u] \ {None}) \cup {r.fp : r \in {q \in Corpus : q.url = u}}

\* Every attempt at u ends alike: its page answers, its content passes the
\* gates.
Steady(u) == Misses[u] = {} /\ \A f \in ContentOf(u) : Gate[f] = {"keep"}

\* Once the index has been warmed, every stored document is found by
\* is_duplicate, unless its message is still to be retried; warm_from_db relies
\* on it when it skips the rebuild after a restart.  Kills keep it, since a
\* restart forgets seen_hashes; it may be lost by an exception between the
\* commit and the index calls, and by a retry that ends otherwise.
IndexComplete ==
    warmed /\ faults = 0 =>
       \A r \in db : Steady(r.url) => \/ IsDuplicate(r.fp)
                                      \/ \E m \in pel : log[m].url = r.url

\* Under the same conditions no document is stored twice under different
\* URLs, whatever kills fall between the commit, the index calls and the XACK.
DistinctContent ==
    faults = 0 =>
       \A r, s \in db \ Corpus :
          Steady(r.url) /\ Steady(s.url) /\ r.fp = s.fp => r = s

\* Every indexed fingerprint belongs to a stored document: "write first,
\* index second".
IndexBackedByRows == lsh \subseteq FpsOf(db)

\* push_dlq is idempotent: however often a batch is retried, a message is on
\* the dead-letter stream once, and the metric never exceeds its length.
ParkedOnce ==
    /\ \A i, j \in 1 .. Len(dlq) : dlq[i] = dlq[j] => i = j
    /\ metrics.dlq <= Len(dlq)

\* metrics:articles:stored counts rows really inserted: retries and conflicts
\* never make it exceed the rows added to the table.
StoredMetricSound == metrics.stored <= Cardinality(db) - Cardinality(Corpus)

\* A message that is settled as rejected has been counted, however often its
\* batch was retried; without a kill or an exception, exactly once.
RejectionsCounted ==
    LET rejected == {m \in Ids : /\ Settled(m) \/ (pc = "xack" /\ m \in batch)
                                /\ fate[m].kind \in Counted}
    IN  /\ Cardinality(rejected) <= metrics.rejected
        /\ faults = 0 /\ crashes = 0 => metrics.rejected = Cardinality(rejected)

\* Under the assumptions of NoLoss: a URL stands for one document, whether it
\* is fetched, delivered inline or already stored,
StableContent == \A u \in Urls : \A f, g \in ContentOf(u) : f = g

\* and no call raises between the first append to seen_hashes and the commit,
\* nor while a message is parked.
NoRiskyFaults == Faulty \cap {"smembers", "insert", "push_dlq"} = {}

\* Every message published is eventually settled.
EventuallySettled == \A m \in 1 .. Cardinality(Urls) : m \in Ids ~> Settled(m)
=============================================================================
