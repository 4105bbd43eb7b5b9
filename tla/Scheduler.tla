----------------------------- MODULE Scheduler -----------------------------
(***************************************************************************)
(* Scheduler.Run of go-crawler/internal/scheduler: one crawl of a source.  *)
(* The loop starts one goroutine per page; sem bounds the goroutines that  *)
(* run, results carries their page results back, and the loop takes one    *)
(* result, if there is one, after each page it starts.  Articles go to the *)
(* stream through Producer.Publish, whose Lua script is one atomic step.   *)
(***************************************************************************)
EXTENDS Integers, Sequences, FiniteSets

CONSTANTS
    Articles,        \* URLs the source lists
    Seen0,           \* those already in seen:articles when the run starts
    Listing,         \* Listing[p]: the answers FetchSince may give for page p;
                     \* pages after the last listed one are empty
    Flaky,           \* pages whose fetch may fail after its retries
    Concurrency,     \* capacity of sem and of results
    MaxPages,        \* 0: no limit
    MaxPageFailures, \* the circuit breaker's threshold
    Lossy,           \* whether calls to Redis may fail
    Interruptible    \* whether ctx may be cancelled (SIGINT, SIGTERM)

Answer == [articles: Seq(Articles), empty: BOOLEAN]
NothingLeft == [articles |-> <<>>, empty |-> TRUE]

ASSUME SchedulerAssumption ==
    /\ Seen0 \subseteq Articles
    /\ Listing \in Seq(SUBSET Answer)
    /\ Flaky \subseteq Nat
    /\ Concurrency \in Nat \ {0}
    /\ MaxPages \in Nat
    /\ MaxPageFailures \in Nat \ {0}
    /\ Lossy \in BOOLEAN
    /\ Interruptible \in BOOLEAN

VARIABLES
    \* Run
    pc,         \* where the loop is
    nextPage,
    stop,
    stats,      \* pages, published, pubErrs, failedPages
    results,    \* the buffered channel
    \* the goroutines, one per page started
    at,         \* at[p]: what the goroutine of page p does next
    todo,       \* todo[p]: articles it still has to publish
    res,        \* res[p]: its pageResult
    \* the world
    seen,       \* seen:articles in Redis
    heartbeat,  \* summaries recorded under pipeline:runs by this run
    cancelled   \* whether ctx is done

loopVars == <<pc, nextPage, stop, stats>>
goVars   == <<at, todo, res>>
vars     == <<loopVars, results, goVars, seen, heartbeat, cancelled>>

Started == 1 .. (nextPage - 1)

PageResult == [empty: BOOLEAN, failed: BOOLEAN, published: Nat, pubErrs: Nat]
NoResult   == [empty |-> FALSE, failed |-> FALSE, published |-> 0, pubErrs |-> 0]
Stats      == [pages: Nat, published: Nat, pubErrs: Nat, failedPages: Nat]

Steps == {"spawn", "fetch", "publish", "send", "release", "done"}

\* What the loop, its goroutines and Redis may hold.
TypeOK ==
    /\ pc \in {"wait", "acquire", "select", "drain", "returned"}
    /\ nextPage \in Nat \ {0}
    /\ stop \in BOOLEAN
    /\ stats \in Stats
    /\ results \in Seq(PageResult)
    /\ Len(results) <= Concurrency
    /\ at \in [Started -> Steps]
    /\ todo \in [Started -> Seq(Articles)]
    /\ res \in [Started -> PageResult]
    /\ seen \subseteq Articles
    /\ heartbeat \in Seq(Stats)
    /\ cancelled \in BOOLEAN
-----------------------------------------------------------------------------
\* Goroutines that hold a slot of sem, and those that have yet to send.
Holding == {p \in Started : at[p] \in {"fetch", "publish", "send", "release"}}
Unsent  == {p \in Started : at[p] \in {"fetch", "publish", "send"}}

\* Mutant: the threshold is exceeded before the breaker trips.
TripsLate(r) == r.failed /\ stats.failedPages + 1 > MaxPageFailures

\* absorb: the statistics after result r, and whether the breaker trips.
Absorbed(r) ==
    [pages       |-> stats.pages + 1,
     published   |-> stats.published + r.published,
     pubErrs     |-> stats.pubErrs + r.pubErrs,
     failedPages |-> stats.failedPages + IF r.failed THEN 1 ELSE 0]
Trips(r) == r.failed /\ stats.failedPages + 1 >= MaxPageFailures

Init ==
    /\ pc = "wait"
    /\ nextPage = 1
    /\ stop = FALSE
    /\ stats = [pages |-> 0, published |-> 0, pubErrs |-> 0, failedPages |-> 0]
    /\ results = <<>>
    /\ at = <<>>
    /\ todo = <<>>
    /\ res = <<>>
    /\ seen = Seen0
    /\ heartbeat = <<>>
    /\ cancelled = FALSE

(***************************************************************************)
(* The loop.                                                               *)
(***************************************************************************)

\* Mutant: the loop goes on when the limiter's wait fails.
WaitRetried == pc = "wait" /\ cancelled /\ UNCHANGED vars

\* limiter.Wait: with ctx done it fails and Run returns at once.
WaitFails ==
    /\ pc = "wait"
    /\ cancelled
    /\ pc' = "returned"
    /\ UNCHANGED <<nextPage, stop, stats, results, goVars, seen, heartbeat, cancelled>>

\* limiter.Wait succeeds and the page limit is reached,
LimitReached ==
    /\ pc = "wait"
    /\ ~ cancelled
    /\ MaxPages > 0 /\ nextPage > MaxPages
    /\ pc' = "drain" /\ stop' = TRUE
    /\ UNCHANGED <<nextPage, stats, results, goVars, seen, heartbeat, cancelled>>

\* or the loop turns to the next page,
NewPage ==
    /\ pc = "wait"
    /\ ~ cancelled
    /\ MaxPages = 0 \/ nextPage <= MaxPages
    /\ pc' = "acquire"
    /\ nextPage' = nextPage + 1
    /\ at'   = [p \in 1 .. nextPage |-> IF p = nextPage THEN "spawn" ELSE at[p]]
    /\ todo' = [p \in 1 .. nextPage |-> IF p = nextPage THEN <<>> ELSE todo[p]]
    /\ res'  = [p \in 1 .. nextPage |-> IF p = nextPage THEN NoResult ELSE res[p]]
    /\ UNCHANGED <<stop, stats, results, seen, heartbeat, cancelled>>

\* waits for a slot of sem and starts its goroutine.
Acquire ==
    /\ pc = "acquire"
    /\ Cardinality(Holding) < Concurrency
    /\ pc' = "select"
    /\ at' = [at EXCEPT ![nextPage - 1] = "fetch"]
    /\ UNCHANGED <<nextPage, stop, stats, results, todo, res, seen, heartbeat, cancelled>>

\* The next turn of the loop, or its end.
LoopTo(s) == stop' = s /\ pc' = IF s THEN "drain" ELSE "wait"

\* The select statement: a result, or the end of ctx, or neither is ready.
\* pending > 0 holds here: the page just started has not been taken out.
SelectResult ==
    /\ pc = "select"
    /\ results # <<>>
    /\ results' = Tail(results)
    /\ stats' = Absorbed(Head(results))
    /\ LoopTo(Trips(Head(results)) \/ Head(results).empty)
    /\ UNCHANGED <<nextPage, goVars, seen, heartbeat, cancelled>>

SelectDone ==
    /\ pc = "select"
    /\ cancelled
    /\ LoopTo(TRUE)
    /\ UNCHANGED <<nextPage, stats, results, goVars, seen, heartbeat, cancelled>>

\* Mutant: the loop goes on although a result is ready.
SelectDefaultAlways ==
    /\ pc = "select"
    /\ LoopTo(FALSE)
    /\ UNCHANGED <<nextPage, stats, results, goVars, seen, heartbeat, cancelled>>

SelectDefault ==
    /\ pc = "select"
    /\ results = <<>> /\ ~ cancelled
    /\ LoopTo(FALSE)
    /\ UNCHANGED <<nextPage, stats, results, goVars, seen, heartbeat, cancelled>>

(***************************************************************************)
(* After the loop: results until every goroutine is done, then the         *)
(* heartbeat, which may be lost, and the return.                           *)
(***************************************************************************)
Drain ==
    /\ pc = "drain"
    /\ results # <<>>
    /\ results' = Tail(results)
    /\ stats' = Absorbed(Head(results))
    /\ UNCHANGED <<pc, nextPage, stop, goVars, seen, heartbeat, cancelled>>

\* RecordRun: best effort.
Record ==
    \/ heartbeat' = Append(heartbeat, stats)
    \/ Lossy /\ UNCHANGED heartbeat

RecordRun ==
    /\ pc = "drain"
    /\ results = <<>>
    /\ \A p \in Started : at[p] = "done"
    /\ pc' = "returned"
    /\ Record
    /\ UNCHANGED <<nextPage, stop, stats, results, goVars, seen, cancelled>>

(***************************************************************************)
(* The goroutine of page p.                                                *)
(***************************************************************************)
Answers(p) == IF p \in DOMAIN Listing THEN Listing[p] ELSE {NothingLeft}

FetchSince(p) ==
    /\ at[p] = "fetch"
    /\ \E a \in Answers(p) :
          /\ todo' = [todo EXCEPT ![p] = a.articles]
          /\ res' = [res EXCEPT ![p].empty = a.empty]
          /\ at' = [at EXCEPT ![p] = IF a.articles = <<>> THEN "send" ELSE "publish"]
    /\ UNCHANGED <<loopVars, results, seen, heartbeat, cancelled>>

FetchFails(p) ==
    /\ at[p] = "fetch"
    /\ p \in Flaky \/ cancelled
    /\ res' = [res EXCEPT ![p].failed = TRUE]
    /\ at' = [at EXCEPT ![p] = "send"]
    /\ UNCHANGED <<loopVars, results, todo, seen, heartbeat, cancelled>>

\* The end of one call to Publish: the next article, or the result.
Published(p) ==
    /\ todo' = [todo EXCEPT ![p] = Tail(@)]
    /\ at' = [at EXCEPT ![p] = IF Len(todo[p]) = 1 THEN "send" ELSE "publish"]

\* Mutant: the script's answer is ignored.
PublishCounted(p) ==
    /\ at[p] = "publish"
    /\ seen' = seen \cup {Head(todo[p])}
    /\ res' = [res EXCEPT ![p].published = @ + 1]
    /\ Published(p)
    /\ UNCHANGED <<loopVars, results, heartbeat, cancelled>>

\* Publish returns: the script's answer says whether the URL was new.
Publish(p) ==
    /\ at[p] = "publish"
    /\ LET a == Head(todo[p]) IN
         /\ seen' = seen \cup {a}
         /\ res' = IF a \in seen THEN res ELSE [res EXCEPT ![p].published = @ + 1]
    /\ Published(p)
    /\ UNCHANGED <<loopVars, results, heartbeat, cancelled>>

\* Publish returns an error, whether or not the script ran.
PublishFails(p) ==
    /\ at[p] = "publish"
    /\ Lossy \/ cancelled
    /\ seen' \in {seen, seen \cup {Head(todo[p])}}
    /\ res' = [res EXCEPT ![p].pubErrs = @ + 1]
    /\ Published(p)
    /\ UNCHANGED <<loopVars, results, heartbeat, cancelled>>

\* The script ran, its answer was lost, and the client's own retry found the
\* URL present: a new article that is not counted.
PublishRetried(p) ==
    /\ at[p] = "publish"
    /\ Lossy
    /\ seen' = seen \cup {Head(todo[p])}
    /\ Published(p)
    /\ UNCHANGED <<loopVars, results, res, heartbeat, cancelled>>

\* results <- res, which blocks while the channel is full.
Send(p) ==
    /\ at[p] = "send"
    /\ Len(results) < Concurrency
    /\ results' = Append(results, res[p])
    /\ at' = [at EXCEPT ![p] = "release"]
    /\ UNCHANGED <<loopVars, todo, res, seen, heartbeat, cancelled>>

\* The deferred <-sem and wg.Done.
Release(p) ==
    /\ at[p] = "release"
    /\ at' = [at EXCEPT ![p] = "done"]
    /\ UNCHANGED <<loopVars, results, todo, res, seen, heartbeat, cancelled>>

Cancel ==
    /\ Interruptible
    /\ ~ cancelled
    /\ pc # "returned"
    /\ cancelled' = TRUE
    /\ UNCHANGED <<loopVars, results, goVars, seen, heartbeat>>
-----------------------------------------------------------------------------
Loop ==
    \/ WaitFails \/ LimitReached \/ NewPage \/ Acquire
    \/ SelectResult \/ SelectDone \/ SelectDefault
    \/ Drain \/ RecordRun

Goroutine(p) ==
    \/ FetchSince(p) \/ FetchFails(p)
    \/ Publish(p) \/ PublishFails(p) \/ PublishRetried(p)
    \/ Send(p) \/ Release(p)

\* Run has returned and no goroutine is left.
Finished == pc = "returned" /\ \A p \in Started : at[p] = "done"
Terminated == Finished /\ UNCHANGED vars

Next == Loop \/ (\E p \in Started : Goroutine(p)) \/ Cancel \/ Terminated

Spec == Init /\ [][Next]_vars

(***************************************************************************)
(* The Go scheduler runs every goroutine that can run; fetches and Redis   *)
(* calls have timeouts.  ctx need never be cancelled.                      *)
(***************************************************************************)
FairSpec ==
    /\ Spec
    /\ WF_vars(Loop)
    /\ \A p \in 1 .. Len(Listing) + Concurrency + MaxPageFailures + 1 :
          WF_vars(p \in Started /\ Goroutine(p))
-----------------------------------------------------------------------------
(***************************************************************************)
(* Properties.                                                             *)
(***************************************************************************)

\* While the loop waits for the limiter or for a slot of sem, and after Run
\* has returned early, the results still to come fit in the channel.  At the
\* select and in the final drain there is one more, and a receiver for it.
RoomForResults ==
    Cardinality(Unsent) + Len(results) <=
       Concurrency + IF pc \in {"select", "drain"} THEN 1 ELSE 0

\* Hence the two channels cannot deadlock: no goroutine keeps a slot of sem
\* because results is full while the loop is waiting for that slot, and none
\* is left blocked on results by a Run that was interrupted.
NoBlockedSender ==
    pc \in {"wait", "acquire", "returned"} =>
       \A p \in Started : at[p] = "send" => Len(results) < Concurrency

\* The circuit breaker: once it trips no page is started, so a run fails at
\* most the threshold and the pages then in flight.
BreakerBound == stats.failedPages <= MaxPageFailures + Concurrency

\* A heartbeat is recorded once and tells the whole run: every page started,
\* every page that failed, and as published no more than this run added.
HeartbeatSound ==
    \A i \in 1 .. Len(heartbeat) :
       /\ i = 1
       /\ heartbeat[i].pages = nextPage - 1
       /\ heartbeat[i].failedPages = Cardinality({p \in Started : res[p].failed})
       /\ heartbeat[i].published <= Cardinality(seen \ Seen0)

\* Run always returns, and leaves no goroutine behind.
Terminates == <>Finished
=============================================================================
