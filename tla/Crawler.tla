------------------------------ MODULE Crawler ------------------------------
(***************************************************************************)
(* The crawler daemon of go-crawler/cmd/crawler: run after run over a      *)
(* source that lists its articles newest first, with the incremental       *)
(* window of resolveSince and the cursor that Producer.Publish keeps in    *)
(* Redis.  The pages of a run are read in any order, up to Concurrency at  *)
(* a time: the loop of Scheduler.Run with its slots and its results, whose *)
(* channels module Scheduler models one by one.                            *)
(*                                                                         *)
(* Times are positive integers, TicksPerSecond to a second; 0 is Go's zero *)
(* time.                                                                   *)
(***************************************************************************)
EXTENDS Integers, FiniteSets

CONSTANTS
    UseCursor,       \* crawler.use_cursor
    SinceWindows,    \* values of crawler.since_hours as durations; 0: no window
    Overlap,         \* the overlap buildScheduler passes to resolveSince
    PerPage,         \* crawler.per_page
    MaxPages,        \* crawler.max_pages; 0: no limit
    MaxPageFailures, \* crawler.max_page_failures
    Concurrency,     \* crawler.max_concurrency
    TicksPerSecond,  \* resolution of the source's timestamps
    Units,           \* what a digit of a printed time may stand for, in ticks
    Lag,             \* how long after its published_at an article is listed
    MaxArticles,     \* bound: number of articles
    MaxTime,         \* bound: the clock
    MaxFaults        \* bound: number of kills, failed pages and lost calls

ASSUME CrawlerAssumption ==
    /\ UseCursor \in BOOLEAN
    /\ SinceWindows \subseteq Nat /\ Overlap \in Nat
    /\ PerPage \in Nat \ {0}
    /\ MaxPages \in Nat
    /\ MaxPageFailures \in Nat \ {0}
    /\ Concurrency \in Nat \ {0}
    /\ TicksPerSecond \in Nat \ {0}
    /\ Units \subseteq 1 .. TicksPerSecond /\ {1, TicksPerSecond} \subseteq Units
    /\ \A u, v \in Units : u <= v => v % u = 0
    /\ Lag \in Nat
    /\ MaxArticles \in Nat /\ MaxTime \in Nat /\ MaxFaults \in Nat

VARIABLES
    sinceWindow, \* the configured window
    now,      \* the clock
    listed,   \* the source's articles: [id, time]
    seen,     \* ids published to the stream
    cursor,   \* the cursor in Redis, 0 if there is none
    pc,       \* "sleep" between runs; the loop of a run: "run" before it
              \* starts a page, "drain" after it, "wait" when it has stopped
    since,    \* the window start of the run
    page,     \* its next page
    flying,   \* pages started and not yet read
    results,  \* pages read whose result the loop has not taken: [page, kind]
    failed,   \* failed pages it has taken
    faults,   \* kills, failed pages and lost calls so far
    complete, \* history: every run has published its window to the end
    shifted,  \* history: an article was listed while pages were out of order
    unmoved   \* history: ids published whose cursor call failed

vars == <<sinceWindow, now, listed, seen, cursor, pc, since, page, flying, results, failed,
          faults, complete, shifted, unmoved>>

-----------------------------------------------------------------------------
(***************************************************************************)
(* The cursor.  advanceCursor compares times formatted as RFC3339Nano, as  *)
(* strings.  The format drops the zeros at the end of the fraction, so the *)
(* last digit of t stands for Unit(t) ticks, and the "Z" that follows is   *)
(* greater than any digit and than ".": t is greater than every longer     *)
(* string it is a prefix of, the times up to End(t).                       *)
(***************************************************************************)
Second(t) == t \div TicksPerSecond
Unit(t) == CHOOSE u \in Units : t % u = 0 /\ \A v \in Units : t % v = 0 => v <= u
End(t) == t + Unit(t)

NewerString(t, u) == End(t) > End(u) \/ (End(t) = End(u) /\ t < u)

\* Mutant: the cursor is the time of the latest page.
AdvanceCursorAlways(T) ==
    IF T = {} THEN cursor ELSE CHOOSE t \in T : \A u \in T : t >= u

\* The cursor after publishing new articles stamped T: the greatest string.
AdvanceCursor(T) ==
    LET C == IF cursor = 0 THEN T ELSE T \cup {cursor} IN
    IF C = {} THEN 0 ELSE CHOOSE t \in C : \A u \in C \ {t} : NewerString(t, u)

\* cfg.Since(), and the window start.
Base == IF sinceWindow = 0 THEN 0 ELSE now - sinceWindow

\* Mutant: the window starts at the cursor.
ResolveSinceNoOverlap(base, hasCursor) ==
    IF ~ hasCursor \/ cursor = 0 THEN base
    ELSE IF sinceWindow = 0 \/ cursor > base THEN cursor ELSE base

ResolveSince(base, hasCursor) ==
    IF ~ hasCursor \/ cursor = 0 THEN base
    ELSE IF sinceWindow = 0 \/ cursor - Overlap > base THEN cursor - Overlap
    ELSE base

(***************************************************************************)
(* The source.                                                             *)
(***************************************************************************)
Ahead(a) == {b \in listed : b.time > a.time \/ (b.time = a.time /\ b.id > a.id)}
PageOf(p) == {a \in listed : Cardinality(Ahead(a)) \div PerPage = p - 1}

\* Mutant: an article stamped with the window start is dropped.
InWindowStrict(p) == {a \in PageOf(p) : a.time > since}

\* What FetchSince keeps of page p.
InWindow(p) == {a \in PageOf(p) : a.time >= since}
-----------------------------------------------------------------------------
Init ==
    /\ sinceWindow \in SinceWindows
    /\ now = 1
    /\ listed = {} /\ seen = {} /\ cursor = 0
    /\ pc = "sleep" /\ since = 0
    /\ page = 1 /\ flying = {} /\ results = {} /\ failed = 0
    /\ faults = 0
    /\ complete = TRUE /\ shifted = FALSE /\ unmoved = {}

run == <<since, page, flying, results, failed>>
published == <<seen, cursor, unmoved>>

Tick ==
    /\ now < MaxTime
    /\ now' = now + 1
    /\ UNCHANGED <<sinceWindow, listed, pc, faults, complete, shifted, run, published>>

\* A page has been read before an earlier one, or an empty one before others.
OutOfOrder ==
    \/ \E q \in flying : q + 1 < page /\ q + 1 \notin flying
    \/ flying # {} /\ pc = "wait"
    \/ pc # "wait" /\ \E r \in results : r.kind = "empty"

\* The source lists one more article, at most Lag after its timestamp.
ListArticle ==
    /\ Cardinality(listed) < MaxArticles
    /\ \E t \in (now - Lag) .. now :
          /\ t >= 1
          /\ listed' = listed \cup {[id |-> Cardinality(listed) + 1, time |-> t]}
    /\ shifted' = (shifted \/ OutOfOrder)
    /\ UNCHANGED <<sinceWindow, now, pc, faults, complete, run, published>>

\* Something fails, or nothing does.
Fault == faults < MaxFaults /\ faults' = faults + 1
NoFault == faults' = faults

\* GetCursor: Redis answers, or not.
GetCursor(ok) == IF ok THEN NoFault ELSE Fault

\* buildScheduler and the start of Run.  Without an answer from GetCursor the
\* window is the configured one.
StartRun ==
    /\ pc = "sleep"
    /\ \E ok \in BOOLEAN : GetCursor(ok) /\ since' = ResolveSince(Base, UseCursor /\ ok)
    /\ pc' = "run"
    /\ UNCHANGED <<sinceWindow, now, listed, page, flying, results, failed, complete, shifted, published>>

\* A page limit ends the loop.
LimitReached ==
    /\ pc = "run"
    /\ MaxPages > 0 /\ page > MaxPages
    /\ pc' = "wait"
    /\ complete' = FALSE
    /\ UNCHANGED <<sinceWindow, now, listed, faults, shifted, run, published>>

WithinLimit == MaxPages = 0 \/ page <= MaxPages

\* The loop takes a slot and starts the next page.
StartPage ==
    /\ pc = "run"
    /\ WithinLimit
    /\ Cardinality(flying) < Concurrency
    /\ flying' = flying \cup {page}
    /\ page' = page + 1
    /\ pc' = "drain"
    /\ UNCHANGED <<sinceWindow, now, listed, since, results, failed, faults, complete, shifted, published>>

Read(p, kind) ==
    /\ flying' = flying \ {p}
    /\ results' = results \cup {[page |-> p, kind |-> kind]}

\* A page in flight is read and its articles are published, all but those
\* whose call fails; the cursor moves with each new one, unless its own call
\* fails.  (No step of a run depends on seen or cursor, so the publishing may
\* be taken together with the reading.)
FetchPage(p) ==
    /\ \E sent \in SUBSET InWindow(p), moved \in SUBSET InWindow(p) :
          LET new == {a \in sent : a.id \notin seen} IN
          /\ moved \subseteq new
          /\ IF sent = InWindow(p) /\ moved = new THEN NoFault ELSE Fault
          /\ seen' = seen \cup {a.id : a \in sent}
          /\ cursor' = AdvanceCursor({a.time : a \in moved})
          /\ unmoved' = unmoved \cup {a.id : a \in new \ moved}
          /\ complete' = (complete /\ sent = InWindow(p))
    /\ Read(p, IF InWindow(p) = {} THEN "empty" ELSE "full")
    /\ UNCHANGED <<sinceWindow, now, listed, pc, since, page, failed, shifted>>

\* A page in flight fails after its retries.
FailPage(p) ==
    /\ Fault
    /\ Read(p, "failed")
    /\ complete' = FALSE
    /\ UNCHANGED <<sinceWindow, now, listed, pc, since, page, failed, shifted, published>>

\* No result has been sent: the pages read still hold their slots.
SelectDefault ==
    /\ pc = "drain"
    /\ Cardinality(flying) + Cardinality(results) <= Concurrency
    /\ pc' = "run"
    /\ UNCHANGED <<sinceWindow, now, listed, faults, complete, shifted, run, published>>

\* The loop takes a result, of any page read: pages are not sent in the order
\* they are read.  An empty page or the breaker ends the loop.
SelectResult ==
    /\ pc = "drain"
    /\ \E r \in results :
          /\ results' = results \ {r}
          /\ failed' = failed + (IF r.kind = "failed" THEN 1 ELSE 0)
          /\ pc' = IF r.kind = "empty" \/ failed' >= MaxPageFailures THEN "wait" ELSE "run"
    /\ UNCHANGED <<sinceWindow, now, listed, since, page, flying, faults, complete, shifted, published>>

\* The variables of Run go with it.
RunOver ==
    /\ pc' = "sleep" /\ since' = 0
    /\ page' = 1 /\ flying' = {} /\ results' = {} /\ failed' = 0

\* The pages in flight are in: the run is over.
EndRun ==
    /\ pc = "wait" /\ flying = {}
    /\ RunOver
    /\ UNCHANGED <<sinceWindow, now, listed, faults, complete, shifted, published>>

\* The process is killed, or told to stop, in a run and started again later.
Crash ==
    /\ pc # "sleep"
    /\ Fault
    /\ RunOver
    /\ complete' = FALSE
    /\ UNCHANGED <<sinceWindow, now, listed, shifted, published>>

Daemon == StartRun \/ LimitReached \/ StartPage \/ SelectDefault \/ SelectResult \/ EndRun

Pages == \E p \in flying : FetchPage(p) \/ FailPage(p)

Next == Tick \/ ListArticle \/ Daemon \/ Pages \/ Crash

Spec == Init /\ [][Next]_vars

\* The daemon's timer fires, its loop goes on, and the pages in flight end: a
\* request has a timeout and a bounded number of retries.
FairSpec == Spec /\ WF_vars(Daemon) /\ WF_vars(Pages)
-----------------------------------------------------------------------------
(***************************************************************************)
(* Properties.                                                             *)
(***************************************************************************)
Missed == {a \in listed : a.id \notin seen}

\* Between runs, an article that is listed, not published and not older than
\* the configured window is in the window of the next run: the cursor never
\* moves past what is still to be fetched ("with use_cursor the window start
\* advances after each successful run").
NoneLeftBehind ==
    pc = "sleep" =>
       \A a \in Missed : a.time >= Base => a.time >= ResolveSince(Base, UseCursor)

\* That holds as long as every run so far was complete (no page failed, no
\* publish was lost, no limit or kill cut a run short) and no article was
\* listed while the pages of a run were out of order, a later one read before
\* an earlier one or an empty one before others in flight.  Otherwise articles
\* may be listed late, and while the overlapping pages are read.
CompleteRunsLeaveNone == complete /\ ~ shifted => NoneLeftBehind

\* The cursor is the "newest-seen published_at", to the second: no article is
\* published, by whichever of the pages that run at once, in a later second
\* than the cursor's, unless its cursor call failed.
CursorNewest ==
    \A a \in listed : a.id \in seen \ unmoved => Second(a.time) <= Second(cursor)

\* Without a fixed window the daemon catches up with the source again and
\* again, though pages overlap and shift: every article listed is published,
\* or some run was not complete, or an article was listed while pages were out
\* of order.
EventuallyPublished ==
    []<>(sinceWindow = 0 /\ complete /\ ~ shifted => Missed = {})
=============================================================================
