------------------------------ MODULE Vectors ------------------------------
(***************************************************************************)
(* The path from stored articles to the vector table: rag_export.py,       *)
(* embed_chunks.py, import_pgvector.py and sync_vectors.py, which chains   *)
(* the three.  An operator runs one of them at a time; the processor goes  *)
(* on inserting articles.                                                  *)
(*                                                                         *)
(* There are two sets of files: those the three tools pass to each other   *)
(* ("rag") and those of sync_vectors in /tmp ("sync").  A chunk is its     *)
(* chunk_id, the article and its position in it; the vector the API        *)
(* computes for a chunk is written as that chunk, so that a vector stored  *)
(* under another id can be told.                                           *)
(***************************************************************************)
EXTENDS Integers, Sequences, FiniteSets

CONSTANTS
    ChunkCount,  \* chunks of each article, in the order of their ids
    BatchSize,   \* EMBED_BATCH_SIZE
    SaveEvery,   \* EMBED_SAVE_EVERY
    CommitRows,  \* COMMIT_ROWS
    MaxRuns,     \* bound: number of tools the operator starts
    MaxKills,    \* bound: number of times one is killed
    MaxSkips     \* bound: number of batches the API refuses MAX_ATTEMPTS times

VectorsAssumption ==
    /\ ChunkCount \in Seq(Nat)
    /\ BatchSize \in Nat \ {0} /\ SaveEvery \in Nat \ {0} /\ CommitRows \in Nat \ {0}
    /\ MaxRuns \in Nat /\ MaxKills \in Nat /\ MaxSkips \in Nat

Articles == 1 .. Len(ChunkCount)
ChunksOf(a) == [k \in 1 .. ChunkCount[a] |-> <<a, k>>]
Chunk == UNION {{<<a, k>> : k \in 1 .. ChunkCount[a]} : a \in Articles}
Torn == <<0, 0>>   \* a line that is no JSON document
Flow == {"rag", "sync"}
Pair == [id: Chunk, vec: Chunk]

VARIABLES
    articles,  \* articles committed so far: those with ids 1 .. articles
    cursor,    \* last_id of the state file of rag_export
    disk,      \* per flow: the chunk file, the .npz archive and its meta.json
    table,     \* rows of article_chunks
    hnsw,      \* idx_chunks_hnsw exists
    stage,     \* next step of the running tool
    flow,      \* the files it works on
    option,    \* --full or --initial
    since,     \* articles up to this id are not exported
    upto,      \* articles visible to the export's cursor
    todo,      \* chunks to be embedded
    offset,    \* of the next batch
    pairs,     \* ids and vectors in memory
    kept,      \* len(done_ids)
    skipped,   \* failed_ids
    rewriting, \* history: a --full export began and did not finish
    lost,      \* history: chunks skipped by embed or left out of an import
    runs, kills, skips

outside == <<articles, cursor>>
store == <<table, hnsw>>
embedding == <<todo, offset, pairs, kept, skipped>>
job == <<flow, option, since, upto, embedding>>
history == <<rewriting, lost, runs, kills, skips>>
vectorVars == <<outside, disk, store, stage, job, history>>

Init ==
    /\ articles = 0 /\ cursor = 0
    /\ disk = [f \in Flow |-> [lines |-> <<>>, open |-> FALSE, pairs |-> <<>>,
                               zip |-> "ok", meta |-> "none"]]
    /\ table = {} /\ hnsw = FALSE
    /\ stage = "idle"
    /\ flow = "rag" /\ option = FALSE /\ since = 0 /\ upto = 0
    /\ todo = <<>> /\ offset = 0 /\ pairs = <<>> /\ kept = 0 /\ skipped = <<>>
    /\ rewriting = FALSE /\ lost = {}
    /\ runs = 0 /\ kills = 0 /\ skips = 0

Elements(s) == {s[i] : i \in 1 .. Len(s)}
Ids(s) == {s[i].id : i \in 1 .. Len(s)}
\* The elements of s at the places P, in the order of s.
At(s, P) ==
    [n \in 1 .. Cardinality(P) |->
       s[CHOOSE i \in P : Cardinality({j \in P : j < i}) = n - 1]]

\* The tool ends, or an exception ends it; its locals are gone.
Stop ==
    /\ stage' = "idle"
    /\ flow' = "rag" /\ option' = FALSE /\ since' = 0 /\ upto' = 0
    /\ todo' = <<>> /\ offset' = 0 /\ pairs' = <<>> /\ kept' = 0 /\ skipped' = <<>>

Start ==
    /\ stage = "idle"
    /\ runs < MaxRuns
    /\ runs' = runs + 1
    /\ UNCHANGED <<embedding, kills, skips>>

\* The processor commits the next article.
Publish ==
    /\ articles < Len(ChunkCount)
    /\ articles' = articles + 1
    /\ UNCHANGED <<cursor, disk, store, stage, job, history>>
-----------------------------------------------------------------------------
(***************************************************************************)
(* rag_export.export_chunks and sync_vectors.export_new_chunks.            *)
(***************************************************************************)
Truncated(f) == [disk EXCEPT ![f].lines = <<>>, ![f].open = FALSE]

\* Mutant: the state file is written before the chunks are.
ExportChunksStateFirst ==
    /\ Start
    /\ stage' = "write" /\ flow' = "rag" /\ option' \in BOOLEAN
    /\ since' = IF option' THEN 0 ELSE cursor
    /\ upto' = articles
    /\ cursor' = IF option' THEN cursor ELSE articles
    /\ disk' = IF option' THEN Truncated("rag") ELSE disk
    /\ rewriting' = (rewriting \/ option')
    /\ UNCHANGED <<articles, store, lost>>

\* load_state, the query and open, with "w" if full and "a" if not.
ExportChunks ==
    /\ Start
    /\ stage' = "write" /\ flow' = "rag" /\ option' \in BOOLEAN
    /\ since' = IF option' THEN 0 ELSE cursor
    /\ upto' = articles
    /\ disk' = IF option' THEN Truncated("rag") ELSE disk
    /\ rewriting' = (rewriting \/ option')
    /\ UNCHANGED <<outside, store, lost>>

\* Mutant: the cursor of rag_export is taken for the one of the table.
MaxIngestedCursor == cursor

MaxIngested ==
    IF table = {} THEN 0
    ELSE CHOOSE a \in Articles : /\ \E r \in table : r.id[1] = a
                                 /\ \A r \in table : r.id[1] <= a

\* sync_vectors.main up to the query and open(out_path, "w").
SyncStart ==
    /\ Start
    /\ stage' = "write" /\ flow' = "sync" /\ option' \in BOOLEAN
    /\ since' = IF option' THEN 0 ELSE MaxIngested
    /\ upto' = articles
    /\ disk' = Truncated("sync")
    /\ UNCHANGED <<outside, store, rewriting, lost>>

\* article_to_chunks of every row the query returns, in the order of the ids.
Queried == {c \in Chunk : c[1] > since /\ c[1] <= upto}
Before(c, d) == c[1] < d[1] \/ (c[1] = d[1] /\ c[2] < d[2])
Exported ==
    [n \in 1 .. Cardinality(Queried) |->
       CHOOSE c \in Queried : Cardinality({b \in Queried : Before(b, c)}) = n - 1]

\* The lines of a file after more are appended: the first joins a last line that
\* has no newline.
Appended(f, new) ==
    IF disk[f].open /\ new # <<>>
    THEN SubSeq(disk[f].lines, 1, Len(disk[f].lines) - 1) \o <<Torn>> \o Tail(new)
    ELSE disk[f].lines \o new

WriteChunks ==
    /\ stage = "write"
    /\ disk' = [disk EXCEPT ![flow].lines = Appended(flow, Exported),
                            ![flow].open = @ /\ Exported = <<>>]
    /\ rewriting' = (rewriting /\ ~ (flow = "rag" /\ option))
    /\ IF flow = "rag" /\ option
         THEN Stop
         ELSE /\ stage' = IF flow = "rag" THEN "state"
                       ELSE IF Exported = <<>> THEN "nothing" ELSE "load"
              /\ UNCHANGED job
    /\ UNCHANGED <<outside, store, lost, runs, kills, skips>>

\* "nothing to sync".
NothingToSync ==
    /\ stage = "nothing"
    /\ Stop
    /\ UNCHANGED <<outside, disk, store, history>>

\* save_state replaces the state file in one step; max_id is the last row's id.
SaveState ==
    /\ stage = "state"
    /\ cursor' = upto
    /\ Stop
    /\ UNCHANGED <<articles, disk, store, history>>
-----------------------------------------------------------------------------
(***************************************************************************)
(* embed_chunks.run.                                                       *)
(***************************************************************************)
EmbedStart ==
    /\ Start
    /\ stage' = "load"
    /\ UNCHANGED <<outside, disk, store, flow, option, since, upto, rewriting, lost>>

Readable(f) == Torn \notin Elements(disk[f].lines)

\* After a batch, the next one or the end of the loop.
Continue(o, t) == IF o < Len(t) THEN "batch" ELSE "final"

\* The chunk file is parsed and load_existing reads the archive; both raise on
\* a torn file.
Load ==
    /\ stage = "load"
    /\ Readable(flow) /\ disk[flow].zip = "ok"
    /\ pairs' = disk[flow].pairs
    /\ kept' = Len(disk[flow].pairs)
    /\ todo' = At(disk[flow].lines, {i \in 1 .. Len(disk[flow].lines) :
                     disk[flow].lines[i] \notin Ids(disk[flow].pairs)})
    /\ offset' = 0 /\ skipped' = <<>>
    /\ stage' = Continue(0, todo')
    /\ UNCHANGED <<outside, disk, store, flow, option, since, upto, history>>

LoadRaises ==
    /\ stage = "load"
    /\ ~ (Readable(flow) /\ disk[flow].zip = "ok")
    /\ Stop
    /\ UNCHANGED <<outside, disk, store, history>>

BatchEnd == IF offset + BatchSize < Len(todo) THEN offset + BatchSize ELSE Len(todo)
\* batch_texts: the chunks of the batch that starts at offset.
Batch == SubSeq(todo, offset + 1, BatchEnd)

\* Mutant: the id is not taken at the batch's offset.
BatchIdFirst(j) == todo[j]
\* The id stored with the j-th embedding, and the j-th id of a failed batch.
BatchId(j) == todo[offset + j]

\* The API's answer: an embedding per text with its index, in any order.
Answers ==
    {[k \in 1 .. Len(Batch) |-> [index |-> p[k], embedding |-> Batch[p[k]]]] :
        p \in {q \in [1 .. Len(Batch) -> 1 .. Len(Batch)] :
                  \A i, j \in 1 .. Len(Batch) : q[i] = q[j] => i = j}}

\* Mutant: the answer is not sorted.
ByIndexUnsorted(answer) == [i \in 1 .. Len(answer) |-> answer[i].embedding]

\* data.sort(key=index): the embeddings in the order of the texts.
ByIndex(answer) ==
    [i \in 1 .. Len(answer) |->
       answer[CHOOSE k \in 1 .. Len(answer) : answer[k].index = i].embedding]

\* One batch of the loop, answered; it is followed by a save when SAVE_EVERY
\* vectors are new or every chunk has one.
EmbedBatch ==
    /\ stage = "batch"
    /\ \E answer \in Answers :
          pairs' = pairs \o [j \in 1 .. Len(Batch) |->
                                [id |-> BatchId(j), vec |-> ByIndex(answer)[j]]]
    /\ offset' = BatchEnd
    /\ stage' = IF \/ Len(pairs') - kept >= SaveEvery
                \/ Len(pairs') = Len(disk[flow].lines)
             THEN "save" ELSE Continue(BatchEnd, todo)
    /\ UNCHANGED <<outside, disk, store, flow, option, since, upto, todo, kept, skipped, history>>

\* embed_batch_retry raises after MAX_ATTEMPTS and the batch is skipped.
SkipBatch ==
    /\ stage = "batch"
    /\ skips < MaxSkips
    /\ skips' = skips + 1
    /\ skipped' = skipped \o [j \in 1 .. Len(Batch) |-> BatchId(j)]
    /\ lost' = lost \cup Elements(Batch)
    /\ offset' = BatchEnd
    /\ stage' = Continue(BatchEnd, todo)
    /\ UNCHANGED <<outside, disk, store, flow, option, since, upto, todo, pairs, kept,
                   rewriting, runs, kills>>

\* np.savez_compressed in the loop.
Save ==
    /\ stage = "save"
    /\ disk' = [disk EXCEPT ![flow].pairs = pairs]
    /\ kept' = Len(pairs)
    /\ stage' = Continue(offset, todo)
    /\ UNCHANGED <<outside, store, flow, option, since, upto, todo, offset, pairs, skipped, history>>

\* np.savez_compressed after it.
FinalSave ==
    /\ stage = "final"
    /\ disk' = [disk EXCEPT ![flow].pairs = pairs]
    /\ stage' = "meta"
    /\ UNCHANGED <<outside, store, job, history>>

\* meta.json is truncated before matrix.shape[1] is evaluated, which raises
\* when there is no vector at all.
WriteMeta ==
    /\ stage = "meta"
    /\ disk' = [disk EXCEPT ![flow].meta = IF pairs = <<>> THEN "torn" ELSE "ok"]
    /\ IF pairs = <<>> THEN Stop ELSE stage' = "report" /\ UNCHANGED job
    /\ UNCHANGED <<outside, store, history>>

\* failed.json, which no tool reads, and the end of run.
ReportFailed ==
    /\ stage = "report"
    /\ IF flow = "sync" THEN stage' = "import" /\ UNCHANGED job ELSE Stop
    /\ UNCHANGED <<outside, disk, store, history>>
-----------------------------------------------------------------------------
(***************************************************************************)
(* import_pgvector.main.                                                   *)
(***************************************************************************)
ImportStart ==
    /\ Start
    /\ stage' = "import" /\ option' \in BOOLEAN
    /\ UNCHANGED <<outside, disk, store, flow, since, upto, rewriting, lost>>

\* load_pairs reads three files.
Importable(f) == disk[f].meta = "ok" /\ Readable(f) /\ disk[f].zip = "ok"

ImportRaises ==
    /\ stage = "import"
    /\ ~ Importable(flow)
    /\ Stop
    /\ UNCHANGED <<outside, disk, store, history>>

\* load_pairs, _row_values, which leaves out a vector without a chunk, and the
\* DROP INDEX of --initial.  kept is 1 if the index was there.
ImportLoad ==
    /\ stage = "import"
    /\ Importable(flow)
    /\ pairs' = At(disk[flow].pairs, {i \in 1 .. Len(disk[flow].pairs) :
                      disk[flow].pairs[i].id \in Elements(disk[flow].lines)})
    /\ kept' = IF hnsw THEN 1 ELSE 0
    /\ hnsw' = (hnsw /\ ~ option)
    /\ stage' = IF option THEN "copy" ELSE "upsert"
    /\ todo' = <<>> /\ offset' = 0 /\ skipped' = <<>>
    /\ lost' = IF flow = "rag" /\ option THEN lost \cup (Chunk \ Ids(pairs')) ELSE lost
    /\ UNCHANGED <<outside, disk, table, flow, option, since, upto, rewriting, runs, kills, skips>>

CopyEnd == IF offset + CommitRows < Len(pairs) THEN offset + CommitRows ELSE Len(pairs)
CopyBatch == SubSeq(pairs, offset + 1, CopyEnd)

\* Chunks of the import that are not in the table yet.
NotCopied == Ids(SubSeq(pairs, offset + 1, Len(pairs)))

\* COPY checks the primary key.
Duplicate ==
    \/ \E r \in table : r.id \in Ids(CopyBatch)
    \/ Cardinality(Ids(CopyBatch)) < Len(CopyBatch)

\* _copy_rows: one transaction per COMMIT_ROWS rows.
CopyRows ==
    /\ stage = "copy"
    /\ offset < Len(pairs)
    /\ IF Duplicate
         THEN /\ Stop
              /\ lost' = lost \cup NotCopied
              /\ UNCHANGED table
         ELSE /\ table' = table \cup Elements(CopyBatch)
              /\ offset' = CopyEnd
              /\ UNCHANGED <<stage, flow, option, since, upto, todo, pairs, kept, skipped, lost>>
    /\ UNCHANGED <<outside, disk, hnsw, rewriting, runs, kills, skips>>

Copied ==
    /\ stage = "copy"
    /\ offset = Len(pairs)
    /\ stage' = "index"
    /\ UNCHANGED <<outside, disk, store, job, history>>

\* upsert_incremental: a row has fourteen values and gets the vector a second
\* time, the template has fourteen places, so that execute_values raises as
\* soon as there is a row.
UpsertIncremental ==
    /\ stage = "upsert"
    /\ IF pairs = <<>> /\ kept = 0 THEN stage' = "index" /\ UNCHANGED job ELSE Stop
    /\ UNCHANGED <<outside, disk, store, history>>

BuildIndex ==
    /\ stage = "index"
    /\ hnsw' = TRUE
    /\ Stop
    /\ UNCHANGED <<outside, disk, table, history>>
-----------------------------------------------------------------------------
\* What a kill leaves of the files: lines are flushed up to any byte, an
\* archive and its meta.json are written in place.
Cut(n, last) ==
    LET whole == SubSeq(Exported, 1, n)
        new == IF last = <<>> THEN whole ELSE Append(whole, last)
    IN  [disk EXCEPT ![flow].lines = Appended(flow, new),
                     ![flow].open = IF new = <<>> THEN @ ELSE last # <<>>]
Damaged ==
    CASE stage = "write" ->
           {Cut(n, <<>>) : n \in 0 .. Len(Exported)}
             \cup {Cut(n, Torn) : n \in 0 .. (Len(Exported) - 1)}
             \cup {Cut(n, Exported[n + 1]) : n \in 0 .. (Len(Exported) - 1)}
      [] stage \in {"save", "final"} -> {disk, [disk EXCEPT ![flow].zip = "torn"]}
      [] stage = "meta" -> {disk, [disk EXCEPT ![flow].meta = "torn"]}
      [] OTHER -> {disk}

\* The tool is killed, or a call to a database or a file raises.
Kill ==
    /\ stage # "idle"
    /\ kills < MaxKills
    /\ kills' = kills + 1
    /\ disk' \in Damaged
    /\ lost' = IF stage = "copy" THEN lost \cup NotCopied ELSE lost
    /\ Stop
    /\ UNCHANGED <<outside, store, rewriting, runs, skips>>

Next ==
    \/ Publish
    \/ ExportChunks \/ SyncStart \/ WriteChunks \/ NothingToSync \/ SaveState
    \/ EmbedStart \/ Load \/ LoadRaises \/ EmbedBatch \/ SkipBatch \/ Save
    \/ FinalSave \/ WriteMeta \/ ReportFailed
    \/ ImportStart \/ ImportRaises \/ ImportLoad \/ CopyRows \/ Copied
    \/ UpsertIncremental \/ BuildIndex
    \/ Kill

Spec == Init /\ [][Next]_vectorVars
-----------------------------------------------------------------------------
(***************************************************************************)
(* Properties.                                                             *)
(***************************************************************************)
\* Every vector is stored with the chunk it was computed from, whatever the
\* order of the API's answer and whichever batches were skipped before it
\* (embed_chunks.py:117-124).
VectorsMatch ==
    /\ \A f \in Flow : \A i \in 1 .. Len(disk[f].pairs) :
          disk[f].pairs[i].vec = disk[f].pairs[i].id
    /\ \A r \in table : r.vec = r.id

\* "re-running the script retries exactly those ids": when embed_chunks
\* reports, every chunk of the file without a vector is among the failed ids,
\* and every failed id is without one unless the file has it twice.
RetriesExactly ==
    stage = "report" =>
       LET missing == Elements(disk[flow].lines) \ Ids(disk[flow].pairs)
       IN  /\ missing \subseteq Elements(skipped)
           /\ \/ missing = Elements(skipped)
              \/ Cardinality(Elements(disk[flow].lines)) < Len(disk[flow].lines)

\* The cursor of rag_export never gets ahead of the corpus: a readable chunk
\* file has every chunk of the articles up to last_id, wherever earlier
\* exports were killed, except while a --full export is or was left undone.
CorpusComplete ==
    Readable("rag") /\ ~ rewriting =>
       \A a \in 1 .. cursor : Elements(ChunksOf(a)) \subseteq Elements(disk["rag"].lines)

\* "using pgvector as the source of truth": when sync_vectors finds nothing to
\* sync, every chunk of every article is in the table, but for those that a
\* skipped batch, an import cut short or a --initial import of an archive that
\* did not have them yet has cost.
NothingLeftBehind ==
    stage = "nothing" =>
       \A a \in 1 .. upto : \A c \in Elements(ChunksOf(a)) :
          c \in lost \/ \E r \in table : r.id = c
=============================================================================
