------------------------------ MODULE Monitor ------------------------------
(***************************************************************************)
(* The health sampler py-processor/monitor.py and the activity chart that  *)
(* dashboard/queries.py draws from its rows.                               *)
(*                                                                         *)
(* The pipeline counts in Redis, in a total and in a hash per source; the  *)
(* sampler reads one after the other, computes the deltas to its previous  *)
(* sample and inserts a row.  It treats produced, stored and rejected      *)
(* alike: the model has the first of the three.                            *)
(***************************************************************************)
EXTENDS Integers, Sequences, FiniteSetsExt

CONSTANTS
    Sources,     \* source_type of the articles
    Retention,   \* RETENTION_DAYS, in intervals
    PruneEvery,  \* six hours, in intervals
    Sends,       \* times go-redis sends a call whose answer is lost, at most
    MaxMade,     \* bound: number of articles published
    MaxResets,   \* bound: number of times Redis loses the counters
    MaxFaults,   \* bound: number of failed samples and of kills
    MaxTicks     \* bound: number of intervals

\* A call is sent at least once.
MonitorAssumption == Sends \in Nat \ {0}

VARIABLES
    made,      \* articles published
    added,     \* history: what the calls have added, [total, by]
    total,     \* metrics:articles:produced
    bySource,  \* metrics:articles:produced_by_source
    owed,      \* articles not yet counted in the hash
    resets,
    step,      \* next call of the sampler
    cur, prev, \* samples: [known, total, by]
    clock,     \* time.time()
    lastPrune, \* last_prune
    rows,      \* pipeline_snapshots: [at, total, delta]
    counted,   \* history: deltas of all rows ever inserted
    faults

pipelineVars == <<made, added, total, bySource, owed, resets>>
samplerVars == <<step, cur, prev, clock, lastPrune, rows, counted, faults>>
monitorVars == <<pipelineVars, samplerVars>>

Zero == [s \in Sources |-> 0]
None == [known |-> FALSE, total |-> 0, by |-> Zero]
Never == 0 - PruneEvery - 1  \* last_prune = 0.0 is the year 1970

Init ==
    /\ made = 0 /\ added = [total |-> 0, by |-> Zero]
    /\ total = 0 /\ bySource = Zero /\ owed = Zero /\ resets = 0
    /\ step = "totals" /\ cur = None /\ prev = None
    /\ clock = 0 /\ lastPrune = Never
    /\ rows = <<>> /\ counted = Zero /\ faults = 0
-----------------------------------------------------------------------------
(***************************************************************************)
(* The pipeline: Producer.Publish adds to the total and then to the hash,  *)
(* and only logs that one of the two failed.  The client sends a call      *)
(* again when its answer is lost, so Redis may have executed it more than  *)
(* once, or not at all.                                                    *)
(***************************************************************************)
CountTotal(s) ==
    /\ made < MaxMade
    /\ made' = made + 1
    /\ \E n \in 0 .. Sends :
          total' = total + n /\ added' = [added EXCEPT !.total = @ + n]
    /\ owed' = [owed EXCEPT ![s] = @ + 1]
    /\ UNCHANGED <<bySource, resets, samplerVars>>

CountSource(s) ==
    /\ owed[s] > 0
    /\ owed' = [owed EXCEPT ![s] = @ - 1]
    /\ \E n \in 0 .. Sends :
          /\ bySource' = [bySource EXCEPT ![s] = @ + n]
          /\ added' = [added EXCEPT !.by[s] = @ + n]
    /\ UNCHANGED <<made, total, resets, samplerVars>>

\* "counter resets": Redis comes back without its data.
Reset ==
    /\ resets < MaxResets
    /\ resets' = resets + 1
    /\ total' = 0 /\ bySource' = Zero
    /\ UNCHANGED <<made, added, owed, samplerVars>>
-----------------------------------------------------------------------------
(***************************************************************************)
(* The sampler.                                                            *)
(***************************************************************************)
\* read_state: the totals and then the hashes.
ReadTotals ==
    /\ step = "totals"
    /\ cur' = [known |-> TRUE, total |-> total, by |-> Zero]
    /\ step' = "hashes"
    /\ UNCHANGED <<pipelineVars, prev, clock, lastPrune, rows, counted, faults>>

ReadHashes ==
    /\ step = "hashes"
    /\ cur' = [cur EXCEPT !.by = bySource]
    /\ step' = "insert"
    /\ UNCHANGED <<pipelineVars, prev, clock, lastPrune, rows, counted, faults>>

\* Mutant: the deltas of the first sample are not zero.
ComputeBySourceFromZero ==
    [s \in Sources |-> Max({0, cur.by[s] - prev.by[s]})]

\* compute_by_source: negative deltas clamp to 0, a first sample has none.
ComputeBySource ==
    [s \in Sources |-> IF prev.known THEN Max({0, cur.by[s] - prev.by[s]}) ELSE 0]

RowsInserted == Append(rows, [at |-> clock, total |-> cur.total, delta |-> ComputeBySource])
CountedToo == [s \in Sources |-> counted[s] + ComputeBySource[s]]
RowsPruned == SelectSeq(rows, LAMBDA r : r.at >= clock - Retention)

\* INSERT and commit; prune_old follows about twice a day.
Insert ==
    /\ step = "insert"
    /\ rows' = RowsInserted
    /\ counted' = CountedToo
    /\ prev' = cur /\ cur' = None
    /\ step' = IF clock - lastPrune > PruneEvery THEN "prune" ELSE "sleep"
    /\ UNCHANGED <<pipelineVars, clock, lastPrune, faults>>

PruneOld ==
    /\ step = "prune"
    /\ rows' = RowsPruned
    /\ lastPrune' = clock
    /\ step' = "sleep"
    /\ UNCHANGED <<pipelineVars, cur, prev, clock, counted, faults>>

\* A call raises, a commit perhaps after it took effect.
Effects ==
    {<<rows, counted>>} \cup
       CASE step = "insert" -> {<<RowsInserted, CountedToo>>}
         [] step = "prune" -> {<<RowsPruned, counted>>}
         [] OTHER -> {}

\* The except branch of the loop: "skip a delta across a failed sample".
Fail ==
    /\ step \in {"totals", "hashes", "insert", "prune"}
    /\ faults < MaxFaults
    /\ faults' = faults + 1
    /\ \E e \in Effects : rows' = e[1] /\ counted' = e[2]
    /\ prev' = None /\ cur' = None
    /\ step' = "sleep"
    /\ UNCHANGED <<pipelineVars, clock, lastPrune>>

Sleep ==
    /\ step = "sleep"
    /\ clock < MaxTicks
    /\ clock' = clock + 1
    /\ step' = "totals"
    /\ UNCHANGED <<pipelineVars, cur, prev, lastPrune, rows, counted, faults>>

\* The container is killed and started again.
Restart ==
    /\ faults < MaxFaults
    /\ faults' = faults + 1
    /\ \E e \in Effects : rows' = e[1] /\ counted' = e[2]
    /\ step' = "totals" /\ cur' = None /\ prev' = None /\ lastPrune' = Never
    /\ UNCHANGED <<pipelineVars, clock>>

Next ==
    \/ \E s \in Sources : CountTotal(s) \/ CountSource(s)
    \/ Reset
    \/ ReadTotals \/ ReadHashes \/ Insert \/ PruneOld \/ Fail \/ Sleep \/ Restart

Spec == Init /\ [][Next]_monitorVars
-----------------------------------------------------------------------------
\* health: produced_delta of a row of the chart, by _with_prev.
Series(k) == IF k = 1 THEN 0 ELSE Max({0, rows[k].total - rows[k - 1].total})

\* The deltas per source never add up to more than was added to the hash.
SourcesCountOnce == \A s \in Sources : counted[s] <= added.by[s]
\* Nor does the chart to more than was added to the total.
ChartCountsOnce == MapThenSumSet(Series, 1 .. Len(rows)) <= added.total

\* The sampler and the chart count no increment twice: neither the deltas per
\* source nor the chart ever add up to more than was added to the counters,
\* whatever samples failed with or without effect and whenever the counters
\* were reset.
DeltasCountOnce == SourcesCountOnce /\ ChartCountsOnce
=============================================================================
