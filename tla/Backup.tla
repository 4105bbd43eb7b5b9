------------------------------- MODULE Backup -------------------------------
(***************************************************************************)
(* The loop of db/backup-entrypoint.sh: a dump of the articles, a prune, a *)
(* full dump with its own prune when the last one is old enough, a pause.  *)
(*                                                                         *)
(* ls -t lists the files by age, of which born is the order.  The pattern  *)
(* corpus_*.dump of the first prune matches the full dumps,                *)
(* corpus_full_*.dump, too.                                                *)
(***************************************************************************)
EXTENDS Integers, FiniteSets

CONSTANTS
    KeepDumps,  \* KEEP
    FullKeep,   \* FULL_KEEP
    FullEvery,  \* FULL_EVERY_DAYS, in intervals
    MaxDumps,   \* bound: number of dumps
    MaxCuts     \* bound: number of dumps that fail or are killed

\* What the options are.
BackupAssumption == KeepDumps \in Nat /\ FullKeep \in Nat

VARIABLES
    files,   \* the dumps on disk: [born, full, whole]
    at,      \* next step of the loop
    now,     \* date +%s, in intervals
    marker,  \* .last_full
    dumps, cuts,
    recent   \* history: dumps cut short since the last whole one; -1 before it

backupVars == <<files, at, now, marker, dumps, cuts, recent>>

Init ==
    /\ files = {} /\ at = "dump"
    /\ now = FullEvery /\ marker = 0
    /\ dumps = 0 /\ cuts = 0 /\ recent = -1

Full == at = "full"
Write(whole) ==
    files' = files \cup {[born |-> dumps + cuts, full |-> Full, whole |-> whole]}

\* dump: pg_dump succeeds.
DumpOk ==
    /\ at \in {"dump", "full"}
    /\ dumps < MaxDumps
    /\ dumps' = dumps + 1
    /\ Write(TRUE)
    /\ recent' = 0
    /\ at' = IF Full THEN "prune full" ELSE "prune"
    /\ UNCHANGED <<now, marker, cuts>>

\* dump: pg_dump fails and the partial file is removed.
DumpFails ==
    /\ at \in {"dump", "full"}
    /\ cuts < MaxCuts
    /\ cuts' = cuts + 1
    /\ at' = IF Full THEN "prune full" ELSE "prune"
    /\ UNCHANGED <<files, now, marker, dumps, recent>>

\* The container is killed in pg_dump, which leaves a partial file, and its
\* loop starts again.
KilledInDump ==
    /\ at \in {"dump", "full"}
    /\ cuts < MaxCuts
    /\ cuts' = cuts + 1
    /\ Write(FALSE)
    /\ recent' = IF recent < 0 THEN recent ELSE recent + 1
    /\ at' = "dump"
    /\ UNCHANGED <<now, marker, dumps>>

\* The container is killed at any other moment.
Killed ==
    /\ cuts < MaxCuts
    /\ cuts' = cuts + 1
    /\ at' = "dump"
    /\ UNCHANGED <<files, now, marker, dumps, recent>>

Newer(s, f) == {g \in s : g.born > f.born}

\* Mutant: one dump fewer is kept.
NewestShort(s, keep) == {f \in s : Cardinality(Newer(s, f)) < keep - 1}

\* ls -t | tail -n +(keep + 1): what is left are the newest.
Newest(s, keep) == {f \in s : Cardinality(Newer(s, f)) < keep}

Prune ==
    /\ at = "prune"
    /\ files' = Newest(files, KeepDumps)
    /\ at' = IF now - marker >= FullEvery THEN "full" ELSE "sleep"
    /\ UNCHANGED <<now, marker, dumps, cuts, recent>>

\* prune corpus_full: the full dumps but the newest FULL_KEEP go.
PruneFull ==
    /\ at = "prune full"
    /\ files' = {f \in files : ~ f.full} \cup Newest({f \in files : f.full}, FullKeep)
    /\ at' = "mark"
    /\ UNCHANGED <<now, marker, dumps, cuts, recent>>

\* The marker is written whether or not the full dump succeeded.
Mark ==
    /\ at = "mark"
    /\ marker' = now
    /\ at' = "sleep"
    /\ UNCHANGED <<files, now, dumps, cuts, recent>>

Sleep ==
    /\ at = "sleep"
    /\ dumps < MaxDumps
    /\ now' = now + 1
    /\ at' = "dump"
    /\ UNCHANGED <<files, marker, dumps, cuts, recent>>

Next == DumpOk \/ DumpFails \/ KilledInDump \/ Killed \/ Prune \/ PruneFull \/ Mark \/ Sleep

Spec == Init /\ [][Next]_backupVars
-----------------------------------------------------------------------------
\* Once a dump has succeeded there is always one to restore from, unless as
\* many dumps as are kept were cut short since: the partial files a kill
\* leaves count among those that prune keeps.
RestorePoint ==
    recent \in 0 .. (IF KeepDumps < FullKeep THEN KeepDumps ELSE FullKeep) - 1
       => \E f \in files : f.whole
=============================================================================
