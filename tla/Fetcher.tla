------------------------------ MODULE Fetcher ------------------------------
(***************************************************************************)
(* The concurrent fetcher of py-processor/fetcher.py: fetch_many hands the *)
(* URLs of a batch to FETCH_WORKERS threads, each fetch_one takes a token  *)
(* from the global bucket and one from the bucket of its host for every    *)
(* GET, and 429 and 403 answers penalise a bucket.                         *)
(*                                                                         *)
(* Time is relative: Tick is the passing of one second.  A bucket refills  *)
(* at every tick; acquire refills it when it is called, which gives the    *)
(* same count.  penalty[b] is how far the bucket's refill clock _last lies *)
(* in the future.  Rates are whole tokens per second.                      *)
(***************************************************************************)
EXTENDS Integers, FiniteSets

CONSTANTS
    Tasks,        \* the URLs of the batch
    Hosts,
    HostOf,       \* HostOf[t]: the host of t's URL
    Global,       \* the global bucket
    Nil,          \* no bucket
    Workers,      \* FETCH_WORKERS
    Retries,      \* FETCH_RETRIES
    GlobalRate,   \* FETCH_QPS, also the capacity of its bucket
    HostRate,     \* FETCH_HOST_QPS, likewise
    RetryAfters,  \* the waits 429 answers ask for: any number, not clamped
    Unasked,      \* the penalty for a 429 answer that asks for none
    Cooldown,     \* FETCH_403_COOLDOWN
    BlockedSleep  \* the sleep after a 403

ASSUME FetcherAssumption ==
    /\ IsFiniteSet(Tasks) /\ HostOf \in [Tasks -> Hosts]
    /\ Global \notin Tasks /\ Nil \notin Tasks /\ Nil # Global
    /\ Workers \in Nat \ {0}
    /\ Retries \in Nat
    /\ GlobalRate \in Nat \ {0} /\ HostRate \in Nat \ {0}
    /\ RetryAfters \subseteq Int /\ Unasked \in Nat
    /\ Cooldown \in Nat /\ BlockedSleep \in Nat

VARIABLES
    \* the threads, by the URL they fetch
    pc,          \* what fetch_one does next
    attempt,
    sleep,       \* seconds left of its time.sleep
    mine,        \* its host_bucket
    \* module state; the bucket a task creates is named after the task
    hostBuckets, \* _host_buckets
    tokens,
    penalty,
    \* meters, to state what the buckets promise
    meter,       \* meter[b]: a leaky bucket fed by the tokens b grants
    hostMeter    \* hostMeter[h]: one fed by the tokens granted for host h

threadVars == <<pc, attempt, sleep, mine>>
meterVars  == <<meter, hostMeter>>
vars == <<threadVars, hostBuckets, tokens, penalty, meterVars>>

Buckets == {Global} \cup Tasks

\* TokenBucket(rate): the capacity is the rate.
Rate(b) == IF b = Global THEN GlobalRate ELSE HostRate

Outcomes == {"text", "gone", "failed", "raised", "rewound"}
Steps == {"queued", "lookup", "create", "global", "host", "get", "sleep"}

\* Threads, buckets and meters.
TypeOK ==
    /\ pc \in [Tasks -> Steps \cup Outcomes]
    /\ attempt \in [Tasks -> 0 .. Retries]
    /\ sleep \in [Tasks -> Nat]
    /\ mine \in [Tasks -> Tasks \cup {Nil}]
    /\ hostBuckets \in [Hosts -> Tasks \cup {Nil}]
    /\ tokens \in [Buckets -> Nat]
    /\ \A b \in Buckets : tokens[b] <= Rate(b)
    /\ penalty \in [Buckets -> Nat]
    /\ meter \in [Buckets -> Nat]
    /\ hostMeter \in [Hosts -> Nat]

Init ==
    /\ pc = [t \in Tasks |-> "queued"]
    /\ attempt = [t \in Tasks |-> 0]
    /\ sleep = [t \in Tasks |-> 0]
    /\ mine = [t \in Tasks |-> Nil]
    /\ hostBuckets = [h \in Hosts |-> Nil]
    /\ tokens = [b \in Buckets |-> Rate(b)]
    /\ penalty = [b \in Buckets |-> 0]
    /\ meter = [b \in Buckets |-> 0]
    /\ hostMeter = [h \in Hosts |-> 0]
-----------------------------------------------------------------------------
Larger(a, b) == IF a > b THEN a ELSE b
Smaller(a, b) == IF a < b THEN a ELSE b
Less(a, b) == Larger(a - b, 0)

Running == {t \in Tasks : pc[t] \notin {"queued"} \cup Outcomes}

Goto(t, l) == pc' = [pc EXCEPT ![t] = l]

\* A worker takes the URL from the executor's queue.
StartTask(t) ==
    /\ pc[t] = "queued"
    /\ Cardinality(Running) < Workers
    /\ Goto(t, "lookup")
    /\ UNCHANGED <<attempt, sleep, mine, hostBuckets, tokens, penalty, meterVars>>

(***************************************************************************)
(* _get_host_bucket: the dictionary is read and, if it has no bucket for   *)
(* the host, written, with no lock around the two.                         *)
(***************************************************************************)
\* Mutant: the dictionary is written and never read.
LookUpNothing(t) ==
    /\ pc[t] = "lookup"
    /\ Goto(t, "create")
    /\ UNCHANGED <<attempt, sleep, mine, hostBuckets, tokens, penalty, meterVars>>

LookUp(t) ==
    /\ pc[t] = "lookup"
    /\ LET b == hostBuckets[HostOf[t]] IN
         /\ mine' = [mine EXCEPT ![t] = b]
         /\ Goto(t, IF b = Nil THEN "create" ELSE "global")
    /\ UNCHANGED <<attempt, sleep, hostBuckets, tokens, penalty, meterVars>>

CreateBucket(t) ==
    /\ pc[t] = "create"
    /\ mine' = [mine EXCEPT ![t] = t]
    /\ hostBuckets' = [hostBuckets EXCEPT ![HostOf[t]] = t]
    /\ tokens' = [tokens EXCEPT ![t] = Rate(t)]
    /\ Goto(t, "global")
    /\ UNCHANGED <<attempt, sleep, penalty, meterVars>>

(***************************************************************************)
(* TokenBucket.                                                            *)
(***************************************************************************)

\* Mutant: the token is not taken.
GrantFree(b) ==
    /\ penalty[b] = 0
    /\ tokens[b] >= 1
    /\ meter' = [meter EXCEPT ![b] = @ + 1]
    /\ UNCHANGED tokens

\* acquire takes a token: no penalty is running and there is one.
Grant(b) ==
    /\ penalty[b] = 0
    /\ tokens[b] >= 1
    /\ tokens' = [tokens EXCEPT ![b] = @ - 1]
    /\ meter' = [meter EXCEPT ![b] = @ + 1]

\* penalise drains the bucket and sets its refill clock.  Set in the past, the
\* clock lets the next acquire refill the bucket at once.
Penalise(b, s) ==
    /\ tokens' = [tokens EXCEPT ![b] = IF s < 0 THEN Smaller(Rate(b), Rate(b) * (0 - s)) ELSE 0]
    /\ penalty' = [penalty EXCEPT ![b] = Larger(s, 0)]

AcquireGlobal(t) ==
    /\ pc[t] = "global"
    /\ Grant(Global)
    /\ Goto(t, "host")
    /\ UNCHANGED <<attempt, sleep, mine, hostBuckets, penalty, hostMeter>>

AcquireHost(t) ==
    /\ pc[t] = "host"
    /\ Grant(mine[t])
    /\ hostMeter' = [hostMeter EXCEPT ![HostOf[t]] = @ + 1]
    /\ Goto(t, "get")
    /\ UNCHANGED <<attempt, sleep, mine, hostBuckets, penalty>>

(***************************************************************************)
(* The GET and its answer.                                                 *)
(***************************************************************************)
\* fetch_one ends, and its count of attempts with it.
Leave(t, outcome) ==
    /\ pc[t] = "get"
    /\ Goto(t, outcome)
    /\ attempt' = [attempt EXCEPT ![t] = 0]
    /\ UNCHANGED <<sleep, mine, hostBuckets, meterVars>>

Finish(t, outcome) == Leave(t, outcome) /\ UNCHANGED <<tokens, penalty>>

\* Sleep for s and try again, or give up after the last attempt.
Retry(t, s) ==
    /\ pc[t] = "get"
    /\ sleep' = [sleep EXCEPT ![t] = s]
    /\ Goto(t, "sleep")
    /\ UNCHANGED <<attempt, mine, hostBuckets, meter, hostMeter>>

Ok(t)    == Finish(t, "text")    \* 200
Gone(t)  == Finish(t, "gone")    \* 404, 410: PermanentFetchError
Other(t) == Finish(t, "failed")  \* any other status is not retried
\* get raises what fetch_one does not catch.  fetch_many will raise it in its
\* turn, once the executor has waited for the other URLs.
Raise(t) == Finish(t, "raised")

\* A RequestException or a 5xx: a backoff between 0 and its base.
Transient(t) == Retry(t, 0) /\ UNCHANGED <<tokens, penalty>>

\* 429: the whole pool waits as long as the server asks.  A negative wait sets
\* the bucket's clock back, and then the thread's sleep raises.  Without a
\* usable Retry-After the pool waits a fixed time and the thread backs off.
TooMany(t) ==
    \/ \E s \in RetryAfters :
          /\ Penalise(Global, s)
          /\ IF s >= 0 THEN Retry(t, s) ELSE Leave(t, "rewound")
    \/ Retry(t, 0) /\ Penalise(Global, Unasked)

\* 403: the host's bucket cools down, longer with each attempt.
Forbidden(t) ==
    /\ Retry(t, BlockedSleep)
    /\ Penalise(mine[t], Cooldown * (attempt[t] + 1))

\* Mutant: the attempts are not counted.
WakeAgain(t) ==
    /\ pc[t] = "sleep"
    /\ sleep[t] = 0
    /\ Goto(t, "global")
    /\ UNCHANGED <<attempt, sleep, mine, hostBuckets, tokens, penalty, meterVars>>

\* The end of the sleep: the next attempt, or none is left.
Wake(t) ==
    /\ pc[t] = "sleep"
    /\ sleep[t] = 0
    /\ \/ /\ attempt[t] < Retries
          /\ attempt' = [attempt EXCEPT ![t] = @ + 1]
          /\ Goto(t, "global")
       \/ /\ attempt[t] = Retries
          /\ attempt' = [attempt EXCEPT ![t] = 0]
          /\ Goto(t, "failed")
    /\ UNCHANGED <<sleep, mine, hostBuckets, tokens, penalty, meterVars>>

\* fetch_many has returned, or raises what a thread raised.
Done == \A t \in Tasks : pc[t] \in Outcomes

\* One second passes.
Tick ==
    /\ ~ Done
    /\ tokens' = [b \in Buckets |->
                     IF penalty[b] > 0 THEN tokens[b]
                     ELSE Smaller(Rate(b), tokens[b] + Rate(b))]
    /\ penalty' = [b \in Buckets |-> Less(penalty[b], 1)]
    /\ sleep' = [t \in Tasks |-> Less(sleep[t], 1)]
    /\ meter' = [b \in Buckets |-> Less(meter[b], Rate(b))]
    /\ hostMeter' = [h \in Hosts |-> Less(hostMeter[h], HostRate)]
    /\ UNCHANGED <<pc, attempt, mine, hostBuckets>>

Thread(t) ==
    \/ StartTask(t) \/ LookUp(t) \/ CreateBucket(t)
    \/ AcquireGlobal(t) \/ AcquireHost(t)
    \/ Ok(t) \/ Gone(t) \/ Other(t) \/ Raise(t)
    \/ Transient(t) \/ TooMany(t) \/ Forbidden(t)
    \/ Wake(t)

Next == (\E t \in Tasks : Thread(t)) \/ Tick \/ (Done /\ UNCHANGED vars)

Spec == Init /\ [][Next]_vars

\* Time passes, and while threads of the pool can run, one of them does.
FairSpec == Spec /\ WF_vars(Tick) /\ WF_vars(\E t \in Tasks : Thread(t))
-----------------------------------------------------------------------------
(***************************************************************************)
(* Properties.                                                             *)
(***************************************************************************)

\* The fetches that set the global bucket's clock back, and were lost by it.
Rewound == {t \in Tasks : pc[t] = "rewound"}

\* What b may grant at once.
Burst(b) == IF b = Global THEN GlobalRate * (1 + Cardinality(Rewound)) ELSE HostRate

\* "Thread-safe token bucket": over any span of d seconds a bucket grants at
\* most its capacity and d times its rate, through refills, penalties and
\* penalties replaced by shorter ones.  A negative Retry-After lets the global
\* bucket grant its capacity once more, and costs a fetch each time.  The meter
\* states it: what it holds and what the bucket could still feed it at once
\* never exceed that.
RateBound == \A b \in Buckets : meter[b] + tokens[b] <= Burst(b)

\* The buckets that have been made for host h.
BucketsFor(h) == {t \in Tasks : HostOf[t] = h /\ mine[t] = t}

\* "this one bounds QPS against a single domain": a host that is served by one
\* bucket keeps its rate.  Workers that meet a new host at the same time may
\* each make one, but never more of them than there are workers.
HostRateBound ==
    \A h \in Hosts :
       /\ Cardinality(BucketsFor(h)) <= Workers
       /\ Cardinality(BucketsFor(h)) <= 1 => hostMeter[h] <= HostRate

\* The penalties and sleeps always end, also when a thread has died of an
\* exception: fetch_many returns.
Returns == <>Done
=============================================================================
