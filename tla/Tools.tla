------------------------------- MODULE Tools -------------------------------
(***************************************************************************)
(* The operator's tools and the side services: dlq_replay, the vector      *)
(* pipeline, the chunker it uses, the monitor and the backup loop.  No two *)
(* of them write a variable that another reads, so their steps commute and *)
(* it is enough to run each of them alone: a behaviour picks one, and the  *)
(* variables of the others stay as they are.                               *)
(***************************************************************************)
EXTENDS Integers, Sequences

VARIABLE tool

(***************************************************************************)
(* DlqReplay.                                                              *)
(***************************************************************************)
CONSTANTS Parked, PerRound, MaxRounds, MaxParks, MaxCrashes
VARIABLES dlq, stream, settled, parks, mode, pc, left, replayed, round, ever, gone, crashes

Replay == INSTANCE DlqReplay

(***************************************************************************)
(* Vectors.                                                                *)
(***************************************************************************)
CONSTANTS ChunkCount, BatchSize, SaveEvery, CommitRows, MaxRuns, MaxKills, MaxSkips
VARIABLES
    articles, cursor, disk, table, hnsw, stage, flow, option, since, upto, todo,
    offset, pairs, kept, skipped, rewriting, lost, runs, kills, skips

Pipeline == INSTANCE Vectors

(***************************************************************************)
(* Chunker: every document of up to six lines, blank, headings of two      *)
(* levels, short and long.  A short paragraph fits the overlap, two do     *)
(* not; two long lines exceed the target.                                  *)
(***************************************************************************)
VARIABLES doc, split, chunks

Line(level, len) == [level |-> level, len |-> len]
Chunking == INSTANCE Chunker WITH
    Target <- 8, Overlap <- 4, MinChars <- 3, MaxLines <- 6,
    Lines <- {Line(0, 0), Line(1, 2), Line(2, 3), Line(0, 1), Line(0, 6)}

(***************************************************************************)
(* Monitor.                                                                *)
(***************************************************************************)
CONSTANTS Sources, Retention, PruneEvery, Sends, MaxMade, MaxResets, MaxFaults, MaxTicks
VARIABLES
    made, added, total, bySource, owed, resets, step, cur, prev, clock, lastPrune,
    rows, counted, faults

Sampling == INSTANCE Monitor

(***************************************************************************)
(* Backup.                                                                 *)
(***************************************************************************)
CONSTANTS KeepDumps, FullKeep, FullEvery, MaxDumps, MaxCuts
VARIABLES files, at, now, marker, dumps, cuts, recent

Dumping == INSTANCE Backup

ASSUME ToolsAssumption ==
    /\ Replay!ReplayAssumption /\ Pipeline!VectorsAssumption
    /\ Sampling!MonitorAssumption /\ Dumping!BackupAssumption

replayVars == <<dlq, stream, settled, parks, mode, pc, left, replayed, round, ever, gone, crashes>>
vectorVars == <<articles, cursor, disk, table, hnsw, stage, flow, option, since, upto,
                todo, offset, pairs, kept, skipped, rewriting, lost, runs, kills, skips>>
chunkerVars == <<doc, split, chunks>>
monitorVars == <<made, added, total, bySource, owed, resets, step, cur, prev, clock, lastPrune,
                 rows, counted, faults>>
backupVars == <<files, at, now, marker, dumps, cuts, recent>>
vars == <<tool, replayVars, vectorVars, chunkerVars, monitorVars, backupVars>>

Init ==
    /\ tool \in {"replay", "vectors", "chunker", "monitor", "backup"}
    /\ Replay!Init /\ Pipeline!Init /\ Sampling!Init /\ Dumping!Init
    /\ IF tool = "chunker" THEN Chunking!Init
       ELSE doc = <<>> /\ split = FALSE /\ chunks = <<>>

Next ==
    \/ /\ tool = "replay" /\ Replay!Next
       /\ UNCHANGED <<tool, vectorVars, chunkerVars, monitorVars, backupVars>>
    \/ /\ tool = "vectors" /\ Pipeline!Next
       /\ UNCHANGED <<tool, replayVars, chunkerVars, monitorVars, backupVars>>
    \/ /\ tool = "chunker" /\ Chunking!Next
       /\ UNCHANGED <<tool, replayVars, vectorVars, monitorVars, backupVars>>
    \/ /\ tool = "monitor" /\ Sampling!Next
       /\ UNCHANGED <<tool, replayVars, vectorVars, chunkerVars, backupVars>>
    \/ /\ tool = "backup" /\ Dumping!Next
       /\ UNCHANGED <<tool, replayVars, vectorVars, chunkerVars, monitorVars>>

Spec == Init /\ [][Next]_vars
-----------------------------------------------------------------------------
\* dlq_replay drops no parked article, wherever it dies.
NothingDropped == Replay!NothingDropped
\* dlq_replay --loop with enough rounds replays every entry that was parked
\* when it began.
LoopReachesAll == Replay!LoopReachesAll
\* embed_chunks stores every vector with the chunk it was computed from.
VectorsMatch == Pipeline!VectorsMatch
\* embed_chunks reports as failed the chunks without a vector and no others.
RetriesExactly == Pipeline!RetriesExactly
\* The cursor of rag_export never gets ahead of its corpus file.
CorpusComplete == Pipeline!CorpusComplete
\* "nothing to sync" leaves no chunk behind but those already given up.
NothingLeftBehind == Pipeline!NothingLeftBehind
\* split_markdown drops no block of text of at least min_chars.
ChunksCover == Chunking!ChunksCover
\* split_markdown exceeds the target only by one paragraph and the overlap.
ChunkBound == Chunking!ChunkBound
\* The heading path of a chunk is the chain of the headings around it.
PathsAreAncestors == Chunking!PathsAreAncestors
\* Neither monitor nor dashboard counts an increment of the counters twice.
DeltasCountOnce == Sampling!DeltasCountOnce
\* The backup loop keeps a dump to restore from.
RestorePoint == Dumping!RestorePoint
=============================================================================
